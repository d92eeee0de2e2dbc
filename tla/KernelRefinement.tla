-------------------------- MODULE KernelRefinement --------------------------
(***************************************************************************)
(* The kernel implements Coroutines: each process's abstract context is    *)
(* what its own stack page and syscall block hold, reached through the SP  *)
(* in the CPU (the running process) or in plist (a suspended one).         *)
(***************************************************************************)
EXTENDS Kernel

Alone(p)  == at = "user" /\ idx = p
FrameSP(p) == IF idx = p /\ at # "sched_start" THEN sp ELSE savedSP[p]
CellOf(p, s, k) == stk[StackPage(p)][Above(s, k)]

\* Where p is, or will be when its frame is popped.
Position(p) ==
  IF Alone(p) THEN pc ELSE AddrOf(CellOf(p, FrameSP(p), 2), CellOf(p, FrameSP(p), 3))

BeingServed(p) == idx = p /\ at \in {"brk_handler", "do_yield", "syscall"}

StageAt(p, a) ==
  CASE Place(a) = "entry"   -> <<"new", 0>>
    [] Place(a) = "main"    -> <<"run", 0>>
    [] Place(a) = "forever" -> <<"ended", 0>>
    [] Place(a) = "brk"     -> <<"call", a[3]>>
    [] Place(a) = "resume"  -> IF BeingServed(p) THEN <<"call", a[3]>>
                               ELSE IF idx = p /\ at = "spin" THEN <<"exited", a[3]>>
                               ELSE <<"done", a[3]>>
    [] OTHER                -> <<"lost", 0>>
StageOf(p) == StageAt(p, Position(p))

InStub(p) == Place(Position(p)) \in {"brk", "resume"}
StubSP(p) == IF Alone(p) THEN sp ELSE Above(FrameSP(p), 3)

RegOf(p) ==
  IF Place(Position(p)) = "entry" THEN FirstReg
  ELSE IF ~ InStub(p) THEN regs
  ELSE [a |-> ByteOf(CellOf(p, StubSP(p), 3)),
        x |-> ByteOf(CellOf(p, StubSP(p), 2)),
        y |-> ByteOf(CellOf(p, StubSP(p), 1)),
        c |-> IF Alone(p) THEN regs.c ELSE CarryOf(CellOf(p, FrameSP(p), 1))]

OwnOf(p) ==
  LET s == IF InStub(p) THEN Above(StubSP(p), 5) ELSE sp
  IN  IF Place(Position(p)) \in {"entry", "forever"} THEN <<>>
      ELSE [k \in 1..(MainFrame - s) |-> ByteOf(CellOf(p, s, k))]

Abstract == INSTANCE Coroutines WITH
  turn <- idx,
  stage <- [p \in Procs |-> StageOf(p)],
  reg <- [p \in Procs |-> RegOf(p)],
  own <- [p \in Procs |-> OwnOf(p)],
  abi <- [p \in Procs |-> abi[StackPage(p)]],
  FirstAbi <- NewAbi

\* Seen from the programs, the kernel is a set of coroutines: registers,
\* stack data and results survive every call and every switch, and services
\* act on the caller alone.
ImplementsCoroutines == Abstract!Spec
=============================================================================
