---------------------------- MODULE KernelProofs ----------------------------
(***************************************************************************)
(* Theorems about Kernel.tla for any number of processes (up to plist's    *)
(* four), any page tables with distinct stack pages, any programs and any  *)
(* stack size: the scheduler's invariant, types, what the stack pages      *)
(* hold, and the refinement of Coroutines.                                 *)
(***************************************************************************)
EXTENDS KernelRefinement, SequenceTheorems, TLAPS

----------------------------------------------------------------------------
(* The scheduler's arithmetic.                                             *)

\* Indices computed by schedule_process stay inside plist.
LEMMA SlotInPlist ==
  ASSUME NEW i \in Procs, NEW k \in 0..NProcs
  PROVE  (i + k) % NProcs \in Procs
<1>1. NProcs \in 1..4  BY KernelAssumption
<1>2. i \in 0..3 /\ k \in 0..4  BY <1>1 DEF Procs
<1>3. CASE NProcs = 1  BY <1>2, <1>3, SMT DEF Procs
<1>4. CASE NProcs = 2  BY <1>2, <1>4, SMT DEF Procs
<1>5. CASE NProcs = 3  BY <1>2, <1>5, SMT DEF Procs
<1>6. CASE NProcs = 4  BY <1>2, <1>6, SMT DEF Procs
<1> QED  BY <1>1, <1>3, <1>4, <1>5, <1>6

\* With every process waiting, schedule_process takes the next slot.
LEMMA ScheduleTakesNext ==
  ASSUME NEW i \in Procs, NEW st, \A p \in Procs : st[p] = "waiting"
  PROVE  Schedule(i, st) = (i + 1) % NProcs
<1> DEFINE Waiting(k) == st[(i + k) % NProcs] = "waiting"
           IsFirst(k) == Waiting(k) /\ \A j \in 1..(k - 1) : ~ Waiting(j)
<1>1. NProcs \in 1..4  BY KernelAssumption
<1>2. \A k \in 1..NProcs : Waiting(k)
  BY <1>1, SlotInPlist
<1> HIDE DEF Waiting
<1>3. 1 \in 1..NProcs /\ IsFirst(1)
  BY <1>1, <1>2
<1>4. ASSUME NEW k \in 1..NProcs, IsFirst(k) PROVE k = 1
  <2>1. SUFFICES ASSUME k # 1 PROVE FALSE  OBVIOUS
  <2>2. 1 \in 1..(k - 1)  BY <1>1, <2>1
  <2> QED  BY <1>1, <1>2, <1>4, <2>2
<1> HIDE DEF IsFirst
<1>5. (CHOOSE k \in 1..NProcs : IsFirst(k)) = 1
  BY <1>3, <1>4
<1> USE DEF IsFirst, Waiting
<1> QED
  BY <1>2, <1>3, <1>5 DEF Schedule

----------------------------------------------------------------------------
(* Who runs. Until sched_start the CPU is in kernel mode and the MMU's     *)
(* table is the identity; from then on it holds the current process's.     *)

ModeOK == kernel <=> at # "user"
MemoryDomains ==
  /\ stk = [g \in StackPages |-> stk[g]]
  /\ abi = [g \in StackPages |-> abi[g]]

SchedInv ==
  /\ OneRunning
  /\ ModeOK
  /\ idx \in Procs
  /\ at = "sched_start" => idx = 0
  /\ at \in KernelPlaces \union {"user"}
  /\ MemoryDomains

LEMMA ZeroIsAProcess == 0 \in Procs
BY KernelAssumption DEF Procs

\* Stack pages of different processes differ, and none is the kernel's.
LEMMA PagesApart ==
  ASSUME NEW p \in Procs
  PROVE  /\ StackPage(p) \in StackPages /\ 0 \in StackPages
         /\ StackPage(p) # 0
         /\ \A q \in Procs : StackPage(q) = StackPage(p) => q = p
BY KernelAssumption DEF StackPages

LEMMA SchedInit == Init => SchedInv
<1> SUFFICES ASSUME Init PROVE SchedInv  OBVIOUS
<1>1. OneRunning  BY DEF Init, OneRunning
<1>2. ModeOK  BY DEF Init, ModeOK
<1>3. idx \in Procs /\ (at = "sched_start" => idx = 0)
  BY ZeroIsAProcess DEF Init
<1>4. at \in KernelPlaces  BY DEF Init, KernelPlaces
<1>5. MemoryDomains  BY DEF Init, MemoryDomains
<1> QED  BY <1>1, <1>2, <1>3, <1>4, <1>5 DEF SchedInv

\* What user code, and a service, leave alone.
Undisturbed ==
  /\ UNCHANGED <<ppn, state, table, idx>>
  /\ MemoryDomains'

LEMMA UserStepSched ==
  ASSUME SchedInv, UserStep
  PROVE  Undisturbed /\ (\/ at' = at /\ kernel' = kernel
                         \/ at' = "brk_handler" /\ kernel' = TRUE) /\ at = "user"
<1> USE DEF SchedInv
<1>1. CASE Start
  BY <1>1 DEF Start, UserAt, UserKeeps, Undisturbed, MemoryDomains
<1>2. CASE Compute
  BY <1>2 DEF Compute, UserAt, UserKeeps, Undisturbed, MemoryDomains
<1>3. CASE Push
  BY <1>3 DEF Push, UserAt, UserPush, UserKeeps, Undisturbed, MemoryDomains
<1>4. CASE Pull
  BY <1>4 DEF Pull, UserAt, UserKeeps, Undisturbed, MemoryDomains
<1>5. CASE MainReturns
  BY <1>5 DEF MainReturns, UserAt, UserKeeps, Undisturbed, MemoryDomains
<1>6. CASE Forever
  BY <1>6 DEF Forever, UserAt, vars, Undisturbed, MemoryDomains
<1>7. CASE StubReturn
  BY <1>7 DEF StubReturn, UserAt, UserKeeps, Undisturbed, MemoryDomains
<1>8. CASE Brk
  BY <1>8 DEF Brk, UserAt, UserPush, Undisturbed, MemoryDomains
<1>9. ASSUME NEW n \in AllCalls, CallStub(n)
      PROVE  Undisturbed /\ at' = at /\ kernel' = kernel /\ at = "user"
  <2>1. at = "user" /\ UserKeeps /\ UserPush(Pushes(regs'))
    BY <1>9 DEF CallStub, UserAt
  <2>2. stk' = [g \in StackPages |-> stk'[g]]
    BY <2>1 DEF UserPush, MemoryDomains
  <2>3. abi' = [g \in StackPages |-> abi'[g]]
    BY <1>9 DEF CallStub, StoreArgs, MemoryDomains
  <2> QED  BY <2>1, <2>2, <2>3 DEF UserKeeps, Undisturbed, MemoryDomains
<1> QED
  BY <1>1, <1>2, <1>3, <1>4, <1>5, <1>6, <1>7, <1>8, <1>9 DEF UserStep

LEMMA ServiceSched ==
  ASSUME SchedInv, Service
  PROVE  Undisturbed /\ at \in {"syscall", "spin"} /\ kernel' = kernel
                     /\ at' \in {"ret_user_mode", "spin"}
<1> USE DEF SchedInv
<1>1. CASE DoExit
  BY <1>1 DEF DoExit, Serving, KernelWork, Undisturbed, MemoryDomains
<1>2. CASE Spin
  BY <1>2 DEF Spin, vars, Undisturbed, MemoryDomains
<1>3. ASSUME NEW block, Answer(block), Done, at = "syscall"
      PROVE  Undisturbed /\ kernel' = kernel /\ at' = "ret_user_mode"
  BY <1>3 DEF Answer, Done, KernelWork, Undisturbed, MemoryDomains
<1>4. CASE DoPutc  BY <1>3, <1>4 DEF DoPutc, Serving
<1>5. CASE DoGetc  BY <1>3, <1>5 DEF DoGetc, Serving
<1>6. CASE DoPuts  BY <1>3, <1>6 DEF DoPuts, Serving
<1>7. CASE DoBlock(5, "read")   BY <1>3, <1>7 DEF DoBlock, Serving
<1>8. CASE DoBlock(6, "write")  BY <1>3, <1>8 DEF DoBlock, Serving
<1>9. CASE DoGetcNb  BY <1>3, <1>9 DEF DoGetcNb, Serving
<1>10. CASE DoEnosys  BY <1>3, <1>10 DEF DoEnosys
<1> QED
  BY <1>1, <1>2, <1>4, <1>5, <1>6, <1>7, <1>8, <1>9, <1>10 DEF Service

LEMMA SchedStartSched ==
  ASSUME SchedInv, SchedStart
  PROVE  SchedInv'
<1> USE DEF SchedInv
<1>1. at' = "ret_user_mode" /\ kernel' = kernel /\ idx' = 0 /\ table' = table /\ abi' = abi
  BY DEF SchedStart, Resume
<1>2. state' = [state EXCEPT ![0] = "running"] /\ ppn' = table'[0] /\ stk' = KernelWork(stk)
  BY DEF SchedStart, Resume
<1>3. state = [p \in Procs |-> "waiting"] /\ table = Table
  BY DEF SchedStart, OneRunning
<1>4. state' = [p \in Procs |-> IF p = 0 THEN "running" ELSE "waiting"]
  BY <1>2, <1>3, ZeroIsAProcess
<1>5. OneRunning'
  BY <1>1, <1>2, <1>3, <1>4 DEF OneRunning
<1>6. MemoryDomains'
  BY <1>1, <1>2 DEF KernelWork, MemoryDomains
<1> QED
  BY <1>1, <1>5, <1>6, ZeroIsAProcess DEF SchedStart, ModeOK, KernelPlaces

\* do_yield saves the page table the MMU holds, which is the one it had
\* loaded, so plist's tables never change; and it finds everybody waiting.
LEMMA DoYieldSched ==
  ASSUME SchedInv, DoYield
  PROVE  SchedInv' /\ idx' = (idx + 1) % NProcs
<1> USE DEF SchedInv
<1>1. /\ at = "do_yield" /\ at' = "ret_user_mode" /\ kernel' = kernel /\ abi' = abi
      /\ idx' = Schedule(idx, Suspended) /\ stk' = KernelWork(stk)
      /\ state' = [Suspended EXCEPT ![idx'] = "running"] /\ ppn' = table'[idx']
      /\ table' = [table EXCEPT ![idx] = ppn]
  BY DEF DoYield, Resume, SaveContext
<1>2. /\ table = Table /\ ppn = Table[idx]
      /\ state = [p \in Procs |-> IF p = idx THEN "running" ELSE "waiting"]
  BY <1>1 DEF OneRunning
<1>3. Suspended = [p \in Procs |-> "waiting"]
  BY <1>2 DEF Suspended
<1>4. idx' = (idx + 1) % NProcs
  BY <1>1, <1>3, ScheduleTakesNext
<1>5. idx' \in Procs
  BY <1>4, SlotInPlist, KernelAssumption
<1>6. table' = Table
  BY <1>1, <1>2, KernelAssumption
<1>7. state' = [p \in Procs |-> IF p = idx' THEN "running" ELSE "waiting"]
  BY <1>1, <1>3, <1>5
<1>8. OneRunning'
  BY <1>1, <1>6, <1>7 DEF OneRunning
<1>9. MemoryDomains'
  BY <1>1 DEF KernelWork, MemoryDomains
<1> QED
  BY <1>1, <1>4, <1>5, <1>8, <1>9 DEF ModeOK, KernelPlaces

LEMMA UndisturbedKeepsOneRunning ==
  ASSUME OneRunning, UNCHANGED <<ppn, state, table, idx>>, at # "sched_start", at' # "sched_start"
  PROVE  OneRunning'
BY DEF OneRunning

LEMMA SchedNext == SchedInv /\ [Next]_vars => SchedInv'
<1> SUFFICES ASSUME SchedInv, [Next]_vars PROVE SchedInv'  OBVIOUS
<1>1. CASE UserStep
  <2>1. /\ Undisturbed /\ at = "user"
        /\ \/ at' = at /\ kernel' = kernel
           \/ at' = "brk_handler" /\ kernel' = TRUE
    BY <1>1, UserStepSched
  <2>2. OneRunning'
    BY <2>1, UndisturbedKeepsOneRunning DEF SchedInv, Undisturbed
  <2> QED  BY <2>1, <2>2 DEF SchedInv, Undisturbed, ModeOK, KernelPlaces
<1>2. CASE SchedStart  BY <1>2, SchedStartSched
<1>3. CASE DoYield  BY <1>3, DoYieldSched
<1>4. CASE BrkHandler
  <2>1. /\ at = "brk_handler" /\ at' \in {"ret_user_mode", "do_yield", "syscall"}
        /\ UNCHANGED <<ppn, state, table, idx, kernel, stk, abi>>
    BY <1>4 DEF BrkHandler
  <2>2. OneRunning'
    BY <2>1, UndisturbedKeepsOneRunning DEF SchedInv
  <2> QED  BY <2>1, <2>2 DEF SchedInv, ModeOK, KernelPlaces, MemoryDomains
<1>5. CASE RetUserMode
  <2>1. /\ at = "ret_user_mode" /\ at' = "user" /\ kernel' = FALSE
        /\ UNCHANGED <<ppn, state, table, idx, stk, abi>>
    BY <1>5 DEF RetUserMode
  <2>2. OneRunning'
    BY <2>1, UndisturbedKeepsOneRunning DEF SchedInv
  <2> QED  BY <2>1, <2>2 DEF SchedInv, ModeOK, MemoryDomains
<1>6. CASE Service
  <2>1. /\ Undisturbed /\ at \in {"syscall", "spin"} /\ kernel' = kernel
        /\ at' \in {"ret_user_mode", "spin"}
    BY <1>6, ServiceSched
  <2>2. OneRunning'
    BY <2>1, UndisturbedKeepsOneRunning DEF SchedInv, Undisturbed
  <2> QED  BY <2>1, <2>2 DEF SchedInv, Undisturbed, ModeOK, KernelPlaces
<1>7. CASE KeyArrives
  BY <1>7 DEF KeyArrives, SchedInv, OneRunning, ModeOK, MemoryDomains
<1>8. CASE UNCHANGED vars
  BY <1>8 DEF vars, SchedInv, OneRunning, ModeOK, MemoryDomains
<1> QED
  BY <1>1, <1>2, <1>3, <1>4, <1>5, <1>6, <1>7, <1>8 DEF Next, KernelStep

LEMMA SchedInvariant == Spec => []SchedInv
<1> QED  BY SchedInit, SchedNext, PTL DEF Spec

\* plist, plist_idx and the MMU agree whatever the programs do: the process
\* plist_idx names is the only one marked running, the MMU holds its table,
\* and no table in plist ever changes (yield.s, proc.c).
THEOREM OneRunningHolds == Spec => []OneRunning
<1>1. SchedInv => OneRunning  BY DEF SchedInv
<1> QED  BY <1>1, SchedInvariant, PTL

----------------------------------------------------------------------------
(* Action properties.                                                      *)

\* Only do_yield hands the processor over, and only to the next slot of
\* plist (schedule_process): no process is ever skipped.
THEOREM RoundRobinHolds == Spec => RoundRobin
<1> DEFINE Turn == idx' # idx => at = "do_yield" /\ idx' = (idx + 1) % NProcs
<1>1. SchedInv /\ [Next]_vars => [Turn]_vars
  <2> SUFFICES ASSUME SchedInv, Next, idx' # idx
               PROVE  at = "do_yield" /\ idx' = (idx + 1) % NProcs
    OBVIOUS
  <2>1. CASE UserStep  BY <2>1, UserStepSched DEF Undisturbed
  <2>2. CASE Service   BY <2>2, ServiceSched DEF Undisturbed
  <2>3. CASE SchedStart  BY <2>3 DEF SchedStart, SchedInv
  <2>4. CASE DoYield   BY <2>4, DoYieldSched DEF DoYield
  <2>5. CASE BrkHandler \/ RetUserMode \/ KeyArrives
    BY <2>5 DEF BrkHandler, RetUserMode, KeyArrives
  <2> QED  BY <2>1, <2>2, <2>3, <2>4, <2>5 DEF Next, KernelStep
<1> QED  BY <1>1, SchedInvariant, PTL DEF Spec, RoundRobin

\* Who writes which memory. `g` below is a page of StackPages.
LEMMA OtherPagesKept ==
  ASSUME SchedInv, Next, NEW g \in StackPages
  PROVE  /\ (g # ppn[0] \/ kernel) /\ g # 0 => stk'[g] = stk[g]
         /\ g # ppn[0] => abi'[g] = abi[g]
<1>1. MemoryDomains  BY DEF SchedInv
<1>2. ASSUME NEW cells, UserPush(cells), at = "user", g # ppn[0]
      PROVE  stk'[g] = stk[g]
  BY <1>1, <1>2 DEF UserPush, UserPage, MemoryDomains
<1>3. ASSUME stk' = KernelWork(stk), g # 0
      PROVE  stk'[g] = stk[g]
  BY <1>1, <1>3 DEF KernelWork, MemoryDomains
<1>4. ASSUME NEW block, Answer(block), g # ppn[0]
      PROVE  abi'[g] = abi[g]
  BY <1>1, <1>4 DEF Answer, UserPage, MemoryDomains
<1>5. ModeOK  BY DEF SchedInv
<1>6. CASE UserStep
  <2>0. at = "user" /\ ~ kernel
    BY <1>5, <1>6, UserStepSched, ZenonT(20) DEF ModeOK
  <2>1. CASE Start
    BY <1>1, <2>0, <2>1 DEF Start, UserPage, MemoryDomains
  <2>2. CASE Compute \/ Pull \/ MainReturns \/ Forever \/ StubReturn
    BY <2>2 DEF Compute, Pull, MainReturns, Forever, StubReturn, vars
  <2>3. CASE Push
    BY <1>2, <2>0, <2>3 DEF Push
  <2>4. CASE Brk
    BY <1>2, <2>0, <2>4 DEF Brk
  <2>5. ASSUME NEW n \in AllCalls, CallStub(n)
        PROVE  g # ppn[0] => stk'[g] = stk[g] /\ abi'[g] = abi[g]
    <3>1. UserPush(Pushes(regs'))  BY <2>5 DEF CallStub
    <3>2. g # ppn[0] => stk'[g] = stk[g]  BY <1>2, <2>0, <3>1
    <3>3. g # ppn[0] => abi'[g] = abi[g]
      BY <1>1, <2>5 DEF CallStub, StoreArgs, UserPage, MemoryDomains
    <3> QED  BY <3>2, <3>3
  <2> QED
    BY <1>6, <2>0, <2>1, <2>2, <2>3, <2>4, <2>5 DEF UserStep
<1>7. CASE Service
  <2>1. CASE DoExit
    BY <1>3, <2>1 DEF DoExit
  <2>2. CASE Spin  BY <2>2 DEF Spin, vars
  <2>3. CASE DoPutc  BY <1>3, <1>4, <2>3 DEF DoPutc, Done
  <2>4. CASE DoGetc  BY <1>3, <1>4, <2>4 DEF DoGetc, Done
  <2>5. CASE DoPuts  BY <1>3, <1>4, <2>5 DEF DoPuts, Done
  <2>6. CASE DoBlock(5, "read")   BY <1>3, <1>4, <2>6 DEF DoBlock, Done
  <2>7. CASE DoBlock(6, "write")  BY <1>3, <1>4, <2>7 DEF DoBlock, Done
  <2>8. CASE DoGetcNb  BY <1>3, <1>4, <2>8 DEF DoGetcNb, Done
  <2>9. CASE DoEnosys  BY <1>3, <1>4, <2>9 DEF DoEnosys, Done
  <2> QED
    BY <1>7, <2>1, <2>2, <2>3, <2>4, <2>5, <2>6, <2>7, <2>8, <2>9 DEF Service
<1>8. CASE SchedStart  BY <1>3, <1>8 DEF SchedStart
<1>9. CASE DoYield     BY <1>3, <1>9 DEF DoYield
<1>10. CASE BrkHandler \/ RetUserMode \/ KeyArrives
  BY <1>10 DEF BrkHandler, RetUserMode, KeyArrives
<1> QED
  BY <1>6, <1>7, <1>8, <1>9, <1>10 DEF Next, KernelStep

\* A suspended context is out of everybody's reach: a process's stack page
\* is written only by its own code, never by another process or by the
\* kernel's pushes (which go to physical page 0 at the caller's SP), and its
\* syscall block changes only while it is the current process.
THEOREM ContextsUntouchedHolds == Spec => ContextsUntouched
<1> DEFINE Apart == \A p \in Procs :
             /\ (p # idx \/ kernel) => stk'[StackPage(p)] = stk[StackPage(p)]
             /\ p # idx => abi'[StackPage(p)] = abi[StackPage(p)]
<1>1. SchedInv /\ [Next]_vars => [Apart]_vars
  <2> SUFFICES ASSUME SchedInv, Next, NEW p \in Procs
               PROVE  /\ (p # idx \/ kernel) => stk'[StackPage(p)] = stk[StackPage(p)]
                      /\ p # idx => abi'[StackPage(p)] = abi[StackPage(p)]
    OBVIOUS
  <2>1. StackPage(p) \in StackPages /\ StackPage(p) # 0  BY PagesApart
  <2>2. CASE at = "sched_start"
    <3>1. SchedStart \/ KeyArrives
      BY <2>2, UserStepSched, ServiceSched
      DEF Next, KernelStep, DoYield, BrkHandler, RetUserMode
    <3>2. abi' = abi
      BY <3>1 DEF SchedStart, KeyArrives
    <3>3. stk'[StackPage(p)] = stk[StackPage(p)]
      <4>1. CASE KeyArrives  BY <4>1 DEF KeyArrives
      <4>2. CASE SchedStart
        BY <2>1, <4>2 DEF SchedStart, KernelWork, SchedInv, MemoryDomains
      <4> QED  BY <3>1, <4>1, <4>2
    <3> QED  BY <3>2, <3>3
  <2>3. CASE at # "sched_start"
    <3>1. ppn[0] = StackPage(idx) /\ idx \in Procs
      BY <2>3 DEF SchedInv, OneRunning, StackPage
    <3>2. p # idx => StackPage(p) # ppn[0]
      BY <3>1, PagesApart
    <3> QED  BY <2>1, <3>2, OtherPagesKept
  <2> QED  BY <2>2, <2>3
<1> QED  BY <1>1, SchedInvariant, PTL DEF Spec, ContextsUntouched

----------------------------------------------------------------------------
(* Types.                                                                  *)

LEMMA PageDomains == StackPages # {} /\ \A p \in Procs : StackPage(p) \in StackPages
BY DEF StackPages

\* The stack pointer wraps inside the page.
LEMMA StackPointerWraps ==
  ASSUME NEW s \in Slots, NEW n \in 0..8
  PROVE  Below(s, n) \in Slots /\ Above(s, n) \in Slots
<1>1. StackTop \in Nat /\ StackTop >= 12 /\ Size = StackTop + 1 /\ s \in 0..StackTop
  BY KernelAssumption DEF Slots, Size
<1>2. /\ s + Size - n \in Nat /\ s + n \in Nat /\ Size \in Nat /\ Size > 0
  BY <1>1
<1>3. \A a \in Nat : a % Size \in 0..(Size - 1)
  BY <1>2
<1> QED
  BY <1>1, <1>2, <1>3 DEF Below, Above, Slots

LEMMA CellTypes ==
  /\ \A a \in UserAddrs : Lo(a) \in Cells /\ Hi(a) \in Cells
  /\ \A c, b \in Flags : Status(c, b) \in Cells
  /\ \A v \in ByteVals : ByteCell(v) \in Cells
BY DEF Cells, Status

LEMMA ReadTypes ==
  ASSUME NEW cell \in Cells
  PROVE  ByteOf(cell) \in ByteVals /\ CarryOf(cell) \in Flags
<1>1. Junk \in ByteVals  BY DEF ByteVals
<1>2. CASE \E a \in UserAddrs : cell = Lo(a) \/ cell = Hi(a)
  BY <1>1, <1>2 DEF Lo, Hi, ByteOf, CarryOf, Flags
<1>3. CASE \E v \in ByteVals : cell = ByteCell(v)
  BY <1>3 DEF ByteCell, ByteOf, CarryOf, Flags
<1>4. CASE \E f \in Flags \X Flags : cell = <<"status", f>>
  BY <1>1, <1>4 DEF ByteOf, CarryOf, Flags
<1> QED  BY <1>2, <1>3, <1>4 DEF Cells

LEMMA AddrTypes ==
  ASSUME NEW lo \in Cells, NEW hi \in Cells
  PROVE  AddrOf(lo, hi) \in UserAddrs \union {Lost}
<1>1. CASE lo[1] = "lo" /\ hi[1] = "hi" /\ lo[2] = hi[2]
  <2>1. \E a \in UserAddrs : lo = Lo(a)
    BY <1>1 DEF Cells, Lo, Hi, ByteCell
  <2> QED  BY <1>1, <2>1 DEF AddrOf, Lo
<1> QED  BY <1>1 DEF AddrOf

\* Pushing typed cells gives a typed page.
LEMMA PushTypes ==
  ASSUME NEW page \in [Slots -> Cells], NEW s \in Slots, NEW cells \in Seq(Cells)
  PROVE  PushFrom(page, s, cells) \in [Slots -> Cells]
<1>1. ASSUME NEW i \in Slots
      PROVE  LET k == (s + Size - i) % Size
             IN  (IF k < Len(cells) THEN cells[k + 1] ELSE page[i]) \in Cells
  <2>1. StackTop \in Nat /\ Size = StackTop + 1 /\ s \in 0..StackTop /\ i \in 0..StackTop
    BY KernelAssumption DEF Slots, Size
  <2>2. s + Size - i \in Nat /\ Size \in Nat /\ Size > 0
    BY <2>1
  <2>3. (s + Size - i) % Size \in Nat
    BY <2>2
  <2> QED  BY <2>3
<1> QED  BY <1>1 DEF PushFrom

LEMMA ShortSeqs ==
  ASSUME NEW S, NEW a \in S, NEW b \in S, NEW c \in S, NEW d \in S, NEW e \in S
  PROVE  /\ <<a>> \in Seq(S) /\ Len(<<a>>) = 1
         /\ <<a, b>> \in Seq(S) /\ Len(<<a, b>>) = 2
         /\ <<a, b, c>> \in Seq(S) /\ Len(<<a, b, c>>) = 3
         /\ <<a, b, c, d, e>> \in Seq(S) /\ Len(<<a, b, c, d, e>>) = 5
OBVIOUS

TypeInv == SchedInv /\ TypeOK

\* In user mode the stack page is the current process's; in every mode it
\* is one of StackPages.
LEMMA UserPageTyped ==
  ASSUME TypeInv
  PROVE  /\ at # "sched_start" => UserPage \in StackPages
         /\ 0 \in StackPages
BY PagesApart, ZeroIsAProcess DEF TypeInv, SchedInv, OneRunning, UserPage, StackPage, StackPages

LEMMA KernelWorkTyped ==
  ASSUME TypeInv
  PROVE  KernelWork(stk) \in [StackPages -> [Slots -> Cells]]
<1> DEFINE junk == [i \in 1..KernelDepth |-> ByteCell(Junk)]
<1>1. junk \in Seq(Cells)
  <2>1. KernelDepth \in Nat  BY KernelAssumption DEF Slots
  <2>2. ByteCell(Junk) \in Cells  BY CellTypes DEF ByteVals
  <2> QED  BY <2>1, <2>2
<1>2. stk[0] \in [Slots -> Cells] /\ sp \in Slots /\ 0 \in StackPages
  BY UserPageTyped DEF TypeInv, TypeOK
<1>3. PushFrom(stk[0], sp, junk) \in [Slots -> Cells]
  BY <1>1, <1>2, PushTypes
<1> QED  BY <1>2, <1>3 DEF KernelWork, TypeInv, TypeOK

LEMMA UserPushTyped ==
  ASSUME TypeInv, at # "sched_start", NEW cells \in Seq(Cells), Len(cells) \in 0..8, UserPush(cells)
  PROVE  stk' \in [StackPages -> [Slots -> Cells]] /\ sp' \in Slots
<1>1. UserPage \in StackPages /\ stk[UserPage] \in [Slots -> Cells] /\ sp \in Slots
  BY UserPageTyped DEF TypeInv, TypeOK
<1>2. PushFrom(stk[UserPage], sp, cells) \in [Slots -> Cells]
  BY <1>1, PushTypes
<1> QED  BY <1>1, <1>2, StackPointerWraps DEF UserPush, TypeInv, TypeOK

LEMMA CellTyped ==
  ASSUME TypeInv, at # "sched_start", NEW k \in 0..8
  PROVE  Cell(k) \in Cells
<1>1. UserPage \in StackPages /\ Above(sp, k) \in Slots
  BY UserPageTyped, StackPointerWraps DEF TypeInv, TypeOK
<1> QED  BY <1>1 DEF Cell, TypeInv, TypeOK

LEMMA UserPlaceTyped ==
  ASSUME TypeInv, NEW place \in UserPlaces, UserAt(place)
  PROVE  pc \in UserAddrs /\ pc[1] \in Procs /\ pc[3] \in AllCalls \union {0} /\ at = "user"
BY DEF UserAt, Place, Lost, UserPlaces, UserAddrs, TypeInv, TypeOK

LEMMA TypesInit == Init => TypeOK
<1> SUFFICES ASSUME Init PROVE TypeOK  OBVIOUS
<1>1. StackTop \in Nat /\ StackTop >= 12 /\ Size = StackTop + 1 /\ Slots = 0..StackTop
  BY KernelAssumption DEF Slots, Size
<1>2. Clobbered \in Registers
  BY DEF Clobbered, Registers, Flags, ByteVals
<1>3. [i \in Slots |-> ByteCell(Junk)] \in [Slots -> Cells]
  BY CellTypes DEF ByteVals
<1>4. ASSUME NEW p \in Procs PROVE NewFrame(p) \in [Slots -> Cells]
  <2>1. <<p, "entry", 0>> \in UserAddrs  BY DEF UserAddrs, UserPlaces
  <2>2. <<Hi(<<p, "entry", 0>>), Lo(<<p, "entry", 0>>), Status(FALSE, FALSE)>> \in Seq(Cells)
    <3>1. Hi(<<p, "entry", 0>>) \in Cells /\ Lo(<<p, "entry", 0>>) \in Cells
      BY <2>1, CellTypes
    <3>2. Status(FALSE, FALSE) \in Cells  BY DEF Status, Cells, Flags
    <3> QED  BY <3>1, <3>2, ShortSeqs
  <2>3. StackTop \in Slots  BY <1>1
  <2> QED  BY <1>3, <2>2, <2>3, PushTypes DEF NewFrame
<1>5. stk \in [StackPages -> [Slots -> Cells]]
  <2>1. ASSUME NEW g \in StackPages, \E p \in Procs : g = StackPage(p)
        PROVE  (CHOOSE p \in Procs : g = StackPage(p)) \in Procs
    BY <2>1
  <2> QED  BY <1>3, <1>4, <2>1 DEF Init
<1>6. abi \in [StackPages -> AbiBlocks]
  BY DEF Init, NewAbi, AbiBlocks, ByteVals
<1>7. ppn \in PageTables
  BY DEF Init, PageTables, VPages, PPages
<1>8. savedSP \in [Procs -> Slots] /\ sp \in Slots
  BY <1>1 DEF Init
<1>9. table \in [Procs -> PageTables]
  BY KernelAssumption DEF Init
<1> QED
  BY <1>2, <1>5, <1>6, <1>7, <1>8, <1>9, ZeroIsAProcess
  DEF Init, TypeOK, KernelPlaces, UserAddrs, Lost

\* The parts of the type invariant that user code touches.
UserTypes ==
  /\ pc \in UserAddrs \union {Lost} /\ regs \in Registers /\ sp \in Slots
  /\ stk \in [StackPages -> [Slots -> Cells]] /\ abi \in [StackPages -> AbiBlocks]

RestKept == UNCHANGED <<ppn, sysnum, state, savedSP, table, idx, rx>>

LEMMA RegFields ==
  ASSUME NEW r \in Registers
  PROVE  r.a \in ByteVals /\ r.x \in ByteVals /\ r.y \in ByteVals /\ r.c \in Flags
BY DEF Registers

LEMMA RegUpdates ==
  ASSUME NEW r \in Registers
  PROVE  /\ \A v \in ByteVals : [r EXCEPT !.a = v] \in Registers
         /\ \A v, w \in ByteVals : [r EXCEPT !.a = v, !.x = w] \in Registers
         /\ \A v, w, u \in ByteVals : [r EXCEPT !.a = v, !.x = w, !.y = u] \in Registers
BY DEF Registers

LEMMA Literals ==
  0 \in ByteVals /\ 1 \in ByteVals /\ 126 \in ByteVals /\ 255 \in ByteVals /\ Junk \in ByteVals
BY DEF ByteVals

LEMMA StubReturnTypes ==
  ASSUME TypeInv, StubReturn
  PROVE  UserTypes' /\ RestKept
<1>1. at = "user" /\ at # "sched_start"  BY DEF StubReturn, UserAt
<1>2. /\ Cell(1) \in Cells /\ Cell(2) \in Cells /\ Cell(3) \in Cells
      /\ Cell(4) \in Cells /\ Cell(5) \in Cells
  BY <1>1, CellTyped
<1> DEFINE r == [a |-> ByteOf(Cell(3)), x |-> ByteOf(Cell(2)), y |-> ByteOf(Cell(1)), c |-> regs.c]
<1>3. r \in Registers
  <2>1. ByteOf(Cell(1)) \in ByteVals /\ ByteOf(Cell(2)) \in ByteVals /\ ByteOf(Cell(3)) \in ByteVals
    BY <1>2, ReadTypes
  <2>2. regs.c \in Flags  BY RegFields DEF TypeInv, TypeOK
  <2> QED  BY <2>1, <2>2 DEF Registers
<1>4. abi[UserPage].areg \in ByteVals /\ abi[UserPage].ret \in ByteVals /\ 0 \in ByteVals
  BY <1>1, UserPageTyped DEF TypeInv, TypeOK, AbiBlocks, ByteVals
<1>5. regs' = IF pc[3] = 3 THEN [r EXCEPT !.a = abi[UserPage].areg]
              ELSE IF pc[3] \in {5, 6} THEN [r EXCEPT !.a = abi[UserPage].ret, !.x = 0] ELSE r
  BY DEF StubReturn
<1> HIDE DEF r
<1>6. regs' \in Registers
  BY <1>3, <1>4, <1>5, RegUpdates
<1>7. pc' \in UserAddrs \union {Lost}
  BY <1>2, AddrTypes DEF StubReturn
<1>8. sp' \in Slots
  BY StackPointerWraps DEF StubReturn, TypeInv, TypeOK
<1> QED
  BY <1>6, <1>7, <1>8 DEF StubReturn, UserKeeps, RestKept, UserTypes, TypeInv, TypeOK

LEMMA CallStubTypes ==
  ASSUME TypeInv, NEW n \in AllCalls, CallStub(n)
  PROVE  UserTypes' /\ RestKept
<1>1. /\ pc \in UserAddrs /\ pc[1] \in Procs /\ at # "sched_start"
      /\ UserPage \in StackPages /\ abi[UserPage] \in AbiBlocks /\ regs \in Registers
  <2>1. UserAt("main")  BY DEF CallStub
  <2>2. pc \in UserAddrs /\ pc[1] \in Procs /\ at = "user"
    BY <2>1, UserPlaceTyped DEF UserPlaces
  <2> QED  BY <2>2, UserPageTyped DEF TypeInv, TypeOK
<1>2. regs' \in Registers /\ abi' \in [StackPages -> AbiBlocks]
  <2>1. CASE /\ abi' = abi /\ regs' = regs
    BY <2>1 DEF TypeInv, TypeOK
  <2>2. CASE \E l \in Lbas : /\ StoreArgs([abi[UserPage] EXCEPT !.arg1 = regs.a, !.arg0 = l])
                             /\ regs' = [regs EXCEPT !.a = l, !.x = 0, !.y = 1]
    <3>1. PICK l \in Lbas : /\ StoreArgs([abi[UserPage] EXCEPT !.arg1 = regs.a, !.arg0 = l])
                            /\ regs' = [regs EXCEPT !.a = l, !.x = 0, !.y = 1]
      BY <2>2
    <3>2. l \in ByteVals /\ 0 \in ByteVals /\ 1 \in ByteVals /\ regs.a \in ByteVals
      BY <1>1, RegFields, Literals DEF ByteVals
    <3>3. regs' \in Registers  BY <1>1, <3>1, <3>2, RegUpdates
    <3>4. [abi[UserPage] EXCEPT !.arg1 = regs.a, !.arg0 = l] \in AbiBlocks
      BY <1>1, <3>2 DEF AbiBlocks
    <3> QED  BY <1>1, <3>1, <3>3, <3>4 DEF StoreArgs, TypeInv, TypeOK
  <2>3. CASE StoreArgs([abi[UserPage] EXCEPT !.arg0 = regs.a]) /\ regs' = regs
    <3>1. [abi[UserPage] EXCEPT !.arg0 = regs.a] \in AbiBlocks
      BY <1>1, RegFields DEF AbiBlocks
    <3> QED  BY <1>1, <2>3, <3>1 DEF StoreArgs, TypeInv, TypeOK
  <2>4. CASE StoreArgs([abi[UserPage] EXCEPT !.areg = regs.a]) /\ regs' = regs
    <3>1. [abi[UserPage] EXCEPT !.areg = regs.a] \in AbiBlocks
      BY <1>1, RegFields DEF AbiBlocks
    <3> QED  BY <1>1, <2>4, <3>1 DEF StoreArgs, TypeInv, TypeOK
  <2> QED  BY <2>1, <2>2, <2>3, <2>4 DEF CallStub
<1>3. Pushes(regs') \in Seq(Cells) /\ Len(Pushes(regs')) \in 0..8
  <2>1. <<pc[1], "main", 0>> \in UserAddrs
    BY <1>1 DEF UserAddrs, UserPlaces
  <2>2. /\ Hi(<<pc[1], "main", 0>>) \in Cells /\ Lo(<<pc[1], "main", 0>>) \in Cells
        /\ ByteCell(regs'.a) \in Cells /\ ByteCell(regs'.x) \in Cells /\ ByteCell(regs'.y) \in Cells
    BY <1>2, <2>1, CellTypes, RegFields
  <2> QED  BY <2>2, ShortSeqs DEF Pushes
<1>4. stk' \in [StackPages -> [Slots -> Cells]] /\ sp' \in Slots
  BY <1>1, <1>3, UserPushTyped DEF CallStub
<1>5. pc' \in UserAddrs
  BY <1>1 DEF CallStub, GoTo, UserAddrs, UserPlaces
<1> QED
  BY <1>2, <1>4, <1>5 DEF CallStub, UserKeeps, RestKept, UserTypes

LEMMA UserStepTypes ==
  ASSUME TypeInv, UserStep
  PROVE  UserTypes' /\ RestKept
<1>0. UserTypes  BY DEF UserTypes, TypeInv, TypeOK
<1>u. at = "user" /\ at # "sched_start"
  BY UserStepSched DEF TypeInv
<1>1. CASE Start
  <2>1. pc[1] \in Procs  BY <1>1, UserPlaceTyped DEF Start, UserPlaces
  <2>2. <<pc[1], "forever", 0>> \in UserAddrs /\ <<pc[1], "main", 0>> \in UserAddrs
    BY <2>1 DEF UserAddrs, UserPlaces
  <2>3. <<Hi(<<pc[1], "forever", 0>>), Lo(<<pc[1], "forever", 0>>)>> \in Seq(Cells)
    BY <2>2, CellTypes, ShortSeqs
  <2>4. StackTop \in Slots  BY KernelAssumption DEF Slots
  <2>5. stk' \in [StackPages -> [Slots -> Cells]]
    <3>1. UserPage \in StackPages /\ stk[UserPage] \in [Slots -> Cells]
      BY <1>u, UserPageTyped DEF TypeInv, TypeOK
    <3> DEFINE page == PushFrom(stk[UserPage], StackTop,
                         <<Hi(<<pc[1], "forever", 0>>), Lo(<<pc[1], "forever", 0>>)>>)
    <3>2. page \in [Slots -> Cells]  BY <2>3, <2>4, <3>1, PushTypes
    <3>3. stk' = [stk EXCEPT ![UserPage] = page]  BY <1>1 DEF Start
    <3> HIDE DEF page
    <3> QED  BY <3>2, <3>3 DEF TypeInv, TypeOK
  <2>6. regs' \in Registers
    <3>1. regs' = [regs EXCEPT !.a = 126, !.x = 255]  BY <1>1 DEF Start
    <3>2. regs \in Registers  BY <1>0 DEF UserTypes
    <3>3. \A v, w \in ByteVals : [regs EXCEPT !.a = v, !.x = w] \in Registers
      BY <3>2, RegUpdates
    <3>4. [regs EXCEPT !.a = 126, !.x = 255] \in Registers  BY <3>3, Literals, Zenon
    <3> QED  BY <3>1, <3>4
  <2>7. sp' \in Slots  BY <1>1, <2>4, StackPointerWraps DEF Start
  <2>8. pc' \in UserAddrs  BY <1>1, <2>2 DEF Start, GoTo
  <2> QED  BY <1>0, <1>1, <2>5, <2>6, <2>7, <2>8 DEF Start, UserKeeps, RestKept, UserTypes
<1>2. CASE Compute
  <2>1. pc[1] \in Procs  BY <1>2, UserPlaceTyped DEF Compute, UserPlaces
  <2>2. UserKeeps /\ regs' \in RegFiles[pc[1]] /\ UNCHANGED <<pc, sp, stk, abi>>
    BY <1>2 DEF Compute
  <2>3. regs' \in Registers  BY <2>1, <2>2, KernelAssumption DEF Registers, ByteVals
  <2> QED  BY <1>0, <2>2, <2>3 DEF UserKeeps, RestKept, UserTypes
<1>3. CASE Push
  <2>1. ByteCell(regs.a) \in Cells
    BY <1>0, RegFields, CellTypes DEF UserTypes
  <2>2. <<ByteCell(regs.a)>> \in Seq(Cells) /\ Len(<<ByteCell(regs.a)>>) \in 0..8
    BY <2>1, ShortSeqs
  <2>3. stk' \in [StackPages -> [Slots -> Cells]] /\ sp' \in Slots
    BY <1>u, <1>3, <2>2, UserPushTyped DEF Push
  <2> QED  BY <1>0, <1>3, <2>3 DEF Push, UserKeeps, RestKept, UserTypes
<1>4. CASE Pull
  <2>1. ByteOf(Cell(1)) \in ByteVals  BY <1>u, CellTyped, ReadTypes
  <2>2. regs' \in Registers  BY <1>0, <1>4, <2>1, RegUpdates DEF Pull, UserTypes
  <2>3. sp' \in Slots  BY <1>0, <1>4, StackPointerWraps DEF Pull, UserTypes
  <2> QED  BY <1>0, <1>4, <2>2, <2>3 DEF Pull, UserKeeps, RestKept, UserTypes
<1>5. CASE MainReturns
  <2>1. Cell(1) \in Cells /\ Cell(2) \in Cells  BY <1>u, CellTyped
  <2>2. pc' \in UserAddrs \union {Lost}  BY <1>5, <2>1, AddrTypes DEF MainReturns
  <2>3. sp' \in Slots  BY <1>0, <1>5, StackPointerWraps DEF MainReturns, UserTypes
  <2> QED  BY <1>0, <1>5, <2>2, <2>3 DEF MainReturns, UserKeeps, RestKept, UserTypes
<1>6. CASE Forever  BY <1>0, <1>6 DEF Forever, vars, RestKept, UserTypes
<1>7. CASE StubReturn  BY <1>7, StubReturnTypes
<1>8. CASE Brk
  <2>1. pc \in UserAddrs /\ pc[1] \in Procs /\ pc[3] \in AllCalls \union {0}
    BY <1>8, UserPlaceTyped DEF Brk, UserPlaces
  <2> DEFINE next == <<pc[1], "resume", pc[3]>>
  <2>2. next \in UserAddrs  BY <2>1 DEF UserAddrs, UserPlaces
  <2>3. regs.c \in Flags
    BY <1>0, RegFields DEF UserTypes
  <2> DEFINE status == Status(regs.c, TRUE)
  <2>4. status \in Cells  BY <2>3 DEF Status, Cells, Flags
  <2>5. Hi(next) \in Cells /\ Lo(next) \in Cells  BY <2>2, CellTypes
  <2> DEFINE frame == <<Hi(next), Lo(next), status>>
  <2>6. UserPush(frame)  BY <1>8 DEF Brk
  <2> HIDE DEF next, status
  <2>7. frame \in Seq(Cells) /\ Len(frame) \in 0..8
    BY <2>4, <2>5, ShortSeqs
  <2> HIDE DEF frame
  <2>8. stk' \in [StackPages -> [Slots -> Cells]] /\ sp' \in Slots
    BY <1>u, <2>6, <2>7, UserPushTyped
  <2> QED  BY <1>0, <1>8, <2>8 DEF Brk, RestKept, UserTypes
<1>9. ASSUME NEW n \in AllCalls, CallStub(n) PROVE UserTypes' /\ RestKept
  BY <1>9, CallStubTypes
<1> QED
  BY <1>1, <1>2, <1>3, <1>4, <1>5, <1>6, <1>7, <1>8, <1>9 DEF UserStep

LEMMA AbiUpdates ==
  ASSUME NEW b \in AbiBlocks
  PROVE  /\ \A v \in ByteVals : [b EXCEPT !.ret = v] \in AbiBlocks
         /\ \A v, w \in ByteVals : [b EXCEPT !.areg = v, !.ret = w] \in AbiBlocks
BY DEF AbiBlocks

LEMMA ServiceTypes ==
  ASSUME TypeInv, Service
  PROVE  /\ pc' = pc /\ sp' = sp /\ sysnum' = sysnum /\ savedSP' = savedSP
         /\ regs' \in Registers /\ rx' \in Keys \union {NoKey}
         /\ stk' \in [StackPages -> [Slots -> Cells]] /\ abi' \in [StackPages -> AbiBlocks]
<1>0. TypeOK  BY DEF TypeInv
<1>1. at # "sched_start"  BY ServiceSched DEF TypeInv
<1>2. UserPage \in StackPages /\ Block \in AbiBlocks
  BY <1>1, UserPageTyped DEF Block, TypeInv, TypeOK
<1>3. Clobbered \in Registers
  BY DEF Clobbered, Registers, Flags, ByteVals
<1>4. ASSUME NEW block \in AbiBlocks, Answer(block), Done
      PROVE  /\ pc' = pc /\ sp' = sp /\ sysnum' = sysnum /\ savedSP' = savedSP
             /\ regs' \in Registers
             /\ stk' \in [StackPages -> [Slots -> Cells]] /\ abi' \in [StackPages -> AbiBlocks]
  <2>1. abi' \in [StackPages -> AbiBlocks]
    BY <1>0, <1>2, <1>4 DEF Answer, TypeOK
  <2>2. stk' \in [StackPages -> [Slots -> Cells]]
    BY <1>4, KernelWorkTyped DEF Done
  <2> QED  BY <1>3, <1>4, <2>1, <2>2 DEF Done
<1>5. \A v \in ByteVals : [Block EXCEPT !.ret = v] \in AbiBlocks
  BY <1>2, AbiUpdates
<1>6. rx \in Keys => rx \in ByteVals  BY DEF ByteVals
<1>7. rx \in Keys \union {NoKey}  BY <1>0 DEF TypeOK
<1>8. CASE DoExit
  BY <1>0, <1>8, KernelWorkTyped DEF DoExit, TypeOK
<1>9. CASE Spin  BY <1>0, <1>9 DEF Spin, vars, TypeOK
<1>10. CASE DoPutc  BY <1>4, <1>5, <1>7, <1>10, Literals DEF DoPutc
<1>11. CASE DoGetc
  <2>1. [Block EXCEPT !.areg = rx, !.ret = 0] \in AbiBlocks
    BY <1>2, <1>6, <1>7, <1>11, AbiUpdates, Literals DEF DoGetc
  <2> QED  BY <1>4, <1>11, <2>1 DEF DoGetc
<1>12. CASE DoPuts  BY <1>4, <1>5, <1>7, <1>12, Literals DEF DoPuts
<1>13. CASE DoBlock(5, "read")  BY <1>4, <1>5, <1>7, <1>13, Literals DEF DoBlock
<1>14. CASE DoBlock(6, "write")  BY <1>4, <1>5, <1>7, <1>14, Literals DEF DoBlock
<1>15. CASE DoGetcNb
  <2> DEFINE block == IF rx # NoKey THEN [Block EXCEPT !.areg = rx, !.ret = 0]
                                    ELSE [Block EXCEPT !.areg = 0, !.ret = 1]
  <2>1. block \in AbiBlocks
    BY <1>2, <1>6, <1>7, AbiUpdates, Literals
  <2>2. Answer(block) /\ Done /\ rx' = NoKey  BY <1>15 DEF DoGetcNb
  <2> HIDE DEF block
  <2> QED  BY <1>4, <2>1, <2>2
<1>16. CASE DoEnosys  BY <1>4, <1>5, <1>7, <1>16, Literals DEF DoEnosys
<1> QED
  BY <1>8, <1>9, <1>10, <1>11, <1>12, <1>13, <1>14, <1>15, <1>16 DEF Service

LEMMA BrkHandlerTypes ==
  ASSUME TypeInv, BrkHandler
  PROVE  sysnum' \in AllCalls \union {0} /\ regs' \in Registers
<1>1. Clobbered \in Registers
  BY DEF Clobbered, Registers, Flags, ByteVals
<1>2. at # "sched_start" /\ UserPage \in StackPages /\ sp \in Slots
  BY UserPageTyped DEF BrkHandler, TypeInv, TypeOK
<1>3. ASSUME NEW k \in 1..3 PROVE FrameCell(k) \in Cells
  <2>1. sp + k <= StackTop => sp + k \in Slots
    BY <1>2, KernelAssumption DEF Slots
  <2> QED  BY <1>2, <2>1, CellTypes, Literals DEF FrameCell, TypeInv, TypeOK
<1>4. AddrOf(FrameCell(2), FrameCell(3)) \in UserAddrs \union {Lost}
  BY <1>3, AddrTypes
<1>5. ASSUME NEW a \in UserAddrs \union {Lost}, NEW t
      PROVE  NumbersAt(a, t) \subseteq AllCalls \union {0}
  BY DEF NumbersAt, UserAddrs
<1>6. sysnum' = sysnum \/ sysnum' \in NumbersAt(AddrOf(FrameCell(2), FrameCell(3)), ppn)
  BY DEF BrkHandler
<1>7. sysnum' \in AllCalls \union {0}
  BY <1>4, <1>5, <1>6 DEF TypeInv, TypeOK
<1> QED  BY <1>1, <1>7 DEF BrkHandler

LEMMA TypesNext == TypeInv /\ [Next]_vars => TypeOK'
<1> SUFFICES ASSUME TypeInv, [Next]_vars PROVE TypeOK'  OBVIOUS
<1>0. TypeOK  BY DEF TypeInv
<1>1. SchedInv'  BY SchedNext DEF TypeInv
<1>2. /\ at' \in KernelPlaces \union {"user"} /\ idx' \in Procs
      /\ table' \in [Procs -> PageTables]
  BY <1>1, KernelAssumption DEF SchedInv, OneRunning
<1>3. state' \in [Procs -> {"exited", "waiting", "running"}]
  <2>1. \/ state' = [p \in Procs |-> "waiting"]
        \/ state' = [p \in Procs |-> IF p = idx' THEN "running" ELSE "waiting"]
    BY <1>1 DEF SchedInv, OneRunning
  <2> QED  BY <2>1
<1>4. ppn' \in PageTables
  <2>1. at' # "sched_start" => ppn' \in PageTables
    BY <1>1, <1>2, KernelAssumption DEF SchedInv, OneRunning
  <2>2. at' = "sched_start" => ppn' = ppn
    <3> SUFFICES ASSUME at' = "sched_start" PROVE ppn' = ppn  OBVIOUS
    <3>1. ~ SchedStart /\ ~ DoYield /\ ~ BrkHandler /\ ~ RetUserMode
      BY DEF SchedStart, DoYield, Resume, BrkHandler, RetUserMode
    <3>2. UserStep \/ Service => ppn' = ppn
      BY UserStepSched, ServiceSched DEF TypeInv, Undisturbed
    <3> QED  BY <3>1, <3>2 DEF Next, KernelStep, KeyArrives, vars
  <2> QED  BY <1>0, <2>1, <2>2 DEF TypeOK
<1> DEFINE Rest == /\ pc' \in UserAddrs \union {Lost} /\ regs' \in Registers /\ sp' \in Slots
                   /\ kernel' \in BOOLEAN /\ rx' \in Keys \union {NoKey}
                   /\ stk' \in [StackPages -> [Slots -> Cells]]
                   /\ abi' \in [StackPages -> AbiBlocks]
                   /\ sysnum' \in AllCalls \union {0} /\ savedSP' \in [Procs -> Slots]
<1>5. CASE UserStep
  <2>1. UserTypes' /\ RestKept  BY <1>5, UserStepTypes
  <2>2. kernel' = kernel \/ kernel' = TRUE  BY <1>5, UserStepSched DEF TypeInv
  <2>3. Rest  BY <1>0, <2>1, <2>2 DEF UserTypes, RestKept, TypeOK
  <2> QED  BY <1>2, <1>3, <1>4, <2>3 DEF TypeOK
<1>6. CASE Service
  <2>1. kernel' = kernel  BY <1>6, ServiceSched DEF TypeInv
  <2>2. Rest  BY <1>0, <1>6, <2>1, ServiceTypes DEF TypeOK
  <2> QED  BY <1>2, <1>3, <1>4, <2>2 DEF TypeOK
<1>7. CASE SchedStart \/ DoYield
  <2>1. stk' \in [StackPages -> [Slots -> Cells]] /\ abi' \in [StackPages -> AbiBlocks]
    BY <1>0, <1>7, KernelWorkTyped DEF SchedStart, DoYield, TypeOK
  <2>2. regs' \in Registers
    <3>1. Clobbered \in Registers  BY DEF Clobbered, Registers, Flags, ByteVals
    <3> QED  BY <1>7, <3>1 DEF SchedStart, DoYield
  <2>3. savedSP' \in [Procs -> Slots]
    BY <1>0, <1>7 DEF SchedStart, DoYield, SaveContext, TypeOK
  <2>4. sp' = savedSP'[idx']
    BY <1>7 DEF SchedStart, DoYield, Resume
  <2>5. sp' \in Slots  BY <1>2, <2>3, <2>4
  <2>6. Rest  BY <1>0, <1>7, <2>1, <2>2, <2>3, <2>5 DEF SchedStart, DoYield, TypeOK
  <2> QED  BY <1>2, <1>3, <1>4, <2>6 DEF TypeOK
<1>8. CASE BrkHandler
  <2>1. Rest  BY <1>0, <1>8, BrkHandlerTypes DEF BrkHandler, TypeOK
  <2> QED  BY <1>2, <1>3, <1>4, <2>1 DEF TypeOK
<1>9. CASE RetUserMode
  <2>1. Cell(1) \in Cells /\ Cell(2) \in Cells /\ Cell(3) \in Cells
    BY <1>9, CellTyped DEF RetUserMode
  <2>2. pc' \in UserAddrs \union {Lost} /\ CarryOf(Cell(1)) \in Flags
    BY <1>9, <2>1, AddrTypes, ReadTypes DEF RetUserMode
  <2>3. regs' \in Registers
    <3>1. regs \in Registers  BY <1>0 DEF TypeOK
    <3>2. regs' = [regs EXCEPT !.c = CarryOf(Cell(1))]  BY <1>9 DEF RetUserMode
    <3>3. \A f \in Flags : [regs EXCEPT !.c = f] \in Registers  BY <3>1 DEF Registers, Flags
    <3> QED  BY <2>2, <3>2, <3>3, Zenon
  <2>4. sp' \in Slots  BY <1>0, <1>9, StackPointerWraps DEF RetUserMode, TypeOK
  <2>5. Rest  BY <1>0, <1>9, <2>2, <2>3, <2>4 DEF RetUserMode, TypeOK
  <2> QED  BY <1>2, <1>3, <1>4, <2>5 DEF TypeOK
<1>10. CASE KeyArrives
  <2>1. Rest  BY <1>0, <1>10 DEF KeyArrives, TypeOK
  <2> QED  BY <1>2, <1>3, <1>4, <2>1 DEF TypeOK
<1>11. CASE UNCHANGED vars
  <2>1. Rest  BY <1>0, <1>11 DEF vars, TypeOK
  <2> QED  BY <1>2, <1>3, <1>4, <2>1 DEF TypeOK
<1> QED
  BY <1>5, <1>6, <1>7, <1>8, <1>9, <1>10, <1>11 DEF Next, KernelStep

\* Every variable keeps its type: SP stays in the stack page, a return
\* address pulled off a stack is one that was pushed or is lost, and no byte
\* the receiver did not hold reaches a syscall block.
THEOREM TypeOKHolds == Spec => []TypeOK
<1>1. Init => TypeInv  BY SchedInit, TypesInit DEF TypeInv
<1>2. TypeInv /\ [Next]_vars => TypeInv'  BY SchedNext, TypesNext DEF TypeInv
<1>3. TypeInv => TypeOK  BY DEF TypeInv
<1> QED  BY <1>1, <1>2, <1>3, PTL DEF Spec

(***************************************************************************)
(*                              STACK FRAMES                               *)
(*                                                                         *)
(* What lies on the stack pages of Kernel.tla: each process's frames, from *)
(* crt0's up to BRK's, are where its stack pointer says, so the kernel     *)
(* always returns to the program it was called by, and programs see the    *)
(* coroutines of Coroutines.tla.                                           *)
(***************************************************************************)

----------------------------------------------------------------------------
(* Stack frames. Inside the room that programs leave, offsets do not wrap. *)

LEMMA Geometry ==
  /\ StackTop \in Nat /\ MaxPush \in Nat /\ MaxPush + 10 <= StackTop
  /\ Size = StackTop + 1 /\ MainFrame = StackTop - 2 /\ Slots = 0..StackTop
BY KernelAssumption, StackRoom DEF Size, MainFrame, Slots

LEMMA RemainderOfSmall == \A a \in 0..StackTop : a % Size = a
<1>1. Size \in Nat /\ Size > 0 /\ Size = StackTop + 1 /\ StackTop \in Nat  BY Geometry
<1> QED  BY <1>1

LEMMA AboveIs ==
  ASSUME NEW s \in Nat, NEW k \in Nat, s + k <= StackTop
  PROVE  Above(s, k) = s + k
BY Geometry, RemainderOfSmall DEF Above

LEMMA OnceAround == \A a \in 0..StackTop : (Size + a) % Size = a
<1> SUFFICES ASSUME NEW a \in 0..StackTop PROVE (Size + a) % Size = a  OBVIOUS
<1> DEFINE q == (Size + a) \div Size
           r == (Size + a) % Size
<1>1. Size \in Nat /\ Size > 0 /\ a \in Nat /\ a < Size  BY Geometry
<1>2. q \in Int /\ r \in 0..(Size - 1) /\ Size + a = Size * q + r  BY <1>1
<1> HIDE DEF q, r
<1>3. q <= 0 => Size * q <= 0  BY <1>1, <1>2
<1>4. q >= 2 => Size * q >= Size + Size  BY <1>1, <1>2
<1>5. q = 1  BY <1>1, <1>2, <1>3, <1>4
<1>6. Size * 1 = Size  BY <1>1
<1> QED  BY <1>1, <1>2, <1>5, <1>6 DEF r

LEMMA BelowIs ==
  ASSUME NEW s \in Slots, NEW n \in Nat, n <= s
  PROVE  Below(s, n) = s - n
<1>1. s + Size - n = Size + (s - n) /\ s - n \in 0..StackTop  BY Geometry
<1> QED  BY <1>1, OnceAround DEF Below

LEMMA PushIs ==
  ASSUME NEW page, NEW s \in Slots, NEW cells, Len(cells) \in Nat, Len(cells) <= s + 1,
         NEW i \in Slots
  PROVE  PushFrom(page, s, cells)[i]
           = IF s - Len(cells) < i /\ i <= s THEN cells[s - i + 1] ELSE page[i]
<1> DEFINE k == (s + Size - i) % Size
<1>1. PushFrom(page, s, cells)[i] = IF k < Len(cells) THEN cells[k + 1] ELSE page[i]
  BY DEF PushFrom
<1>2. CASE i <= s
  <2>1. s + Size - i = Size + (s - i) /\ s - i \in 0..StackTop  BY <1>2, Geometry
  <2>2. k = s - i  BY <2>1, OnceAround
  <2> HIDE DEF k
  <2> QED  BY <1>1, <1>2, <2>2, Geometry
<1>3. CASE ~ (i <= s)
  <2>1. s + Size - i \in 0..StackTop /\ s + Size - i >= s + 1  BY <1>3, Geometry
  <2>2. k = s + Size - i  BY <2>1, RemainderOfSmall
  <2> HIDE DEF k
  <2> QED  BY <1>1, <1>3, <2>1, <2>2, Geometry
<1> QED  BY <1>2, <1>3

LEMMA CellsRead ==
  /\ \A a : AddrOf(Lo(a), Hi(a)) = a
  /\ \A v : ByteOf(ByteCell(v)) = v
  /\ \A c \in BOOLEAN, b \in BOOLEAN : CarryOf(Status(c, b)) = c /\ IsBrk(Status(c, b)) = b
BY DEF AddrOf, Lo, Hi, ByteOf, ByteCell, CarryOf, IsBrk, Status

\* A return address on a stack page, and what lies there at each stage of a
\* call: s is the stack pointer, `page` the contents of p's stack page.
AddrAt(page, k, a) == page[k] = Lo(a) /\ page[k + 1] = Hi(a)
MainAt(page, p, s) == \* in main: its data, and the way back to crt0
  /\ s \in (MainFrame - MaxPush)..MainFrame
  /\ AddrAt(page, StackTop - 1, <<p, "forever", 0>>)
StubAt(page, p, s) == \* in a stub: PHA PHX PHY on top of the way back to main
  /\ MainAt(page, p, s + 5)
  /\ AddrAt(page, s + 4, <<p, "main", 0>>)
CallFrame(page, p, s, n) == \* in the kernel: BRK's frame on top of the stub's
  /\ page[s + 1] \in {Status(c, TRUE) : c \in BOOLEAN}
  /\ AddrAt(page, s + 2, <<p, "resume", n>>)
  /\ StubAt(page, p, s + 3)
FirstFrame(page, p, s) == \* as spawn_bbx leaves it
  /\ s = StackTop - 3
  /\ page[s + 1] = Status(FALSE, FALSE)
  /\ AddrAt(page, s + 2, <<p, "entry", 0>>)

\* The registers and the data a program finds again.
RegBytes(page, s) == <<ByteOf(page[s + 1]), ByteOf(page[s + 2]), ByteOf(page[s + 3])>>
RegsIn(page, s, c) ==
  [a |-> RegBytes(page, s)[3], x |-> RegBytes(page, s)[2], y |-> RegBytes(page, s)[1], c |-> c]
OwnIn(page, s) == [k \in 1..(MainFrame - s) |-> ByteOf(page[s + k])]

\* What lies above the stack pointer stays when something is pushed.
LEMMA KeptAbove ==
  ASSUME NEW g, NEW h, NEW s, NEW p, s \in -1..StackTop,
         \A i \in Slots : i > s => h[i] = g[i]
  PROVE  /\ MainAt(g, p, s) => MainAt(h, p, s) /\ OwnIn(h, s) = OwnIn(g, s)
         /\ StubAt(g, p, s) => /\ StubAt(h, p, s) /\ OwnIn(h, s + 5) = OwnIn(g, s + 5)
                               /\ RegBytes(h, s) = RegBytes(g, s)
<1>1. ASSUME NEW u \in Int, u >= s, MainAt(g, p, u)
      PROVE  MainAt(h, p, u) /\ OwnIn(h, u) = OwnIn(g, u)
  <2>1. u \in (MainFrame - MaxPush)..MainFrame  BY <1>1 DEF MainAt
  <2>2. StackTop - 1 \in Slots /\ StackTop \in Slots /\ (StackTop - 1) + 1 = StackTop
        /\ StackTop - 1 > s
    BY <1>1, <2>1, Geometry
  <2>3. h[StackTop - 1] = g[StackTop - 1] /\ h[StackTop] = g[StackTop]  BY <2>2, Geometry
  <2>4. MainAt(h, p, u)  BY <1>1, <2>2, <2>3 DEF MainAt, AddrAt
  <2>5. \A k \in 1..(MainFrame - u) : h[u + k] = g[u + k]
    <3> SUFFICES ASSUME NEW k \in 1..(MainFrame - u) PROVE h[u + k] = g[u + k]  OBVIOUS
    <3>1. u + k \in Slots /\ u + k > s  BY <1>1, <2>1, Geometry
    <3> QED  BY <3>1
  <2>6. OwnIn(h, u) = OwnIn(g, u)  BY <2>5 DEF OwnIn
  <2> QED  BY <2>4, <2>6
<1>2. s \in Int /\ s + 5 \in Int /\ s + 5 >= s /\ s >= s  BY Geometry
<1>3. MainAt(g, p, s) => MainAt(h, p, s) /\ OwnIn(h, s) = OwnIn(g, s)
  BY <1>1, <1>2
<1>4. ASSUME StubAt(g, p, s)
      PROVE  /\ StubAt(h, p, s) /\ OwnIn(h, s + 5) = OwnIn(g, s + 5)
             /\ RegBytes(h, s) = RegBytes(g, s)
  <2>1. MainAt(g, p, s + 5) /\ AddrAt(g, s + 4, <<p, "main", 0>>)  BY <1>4 DEF StubAt
  <2>2. MainAt(h, p, s + 5) /\ OwnIn(h, s + 5) = OwnIn(g, s + 5)  BY <1>1, <1>2, <2>1
  <2>3. s + 5 \in (MainFrame - MaxPush)..MainFrame  BY <2>1 DEF MainAt
  <2>4. \A k \in 1..5 : s + k \in Slots /\ s + k > s  BY <2>3, Geometry
  <2>5. \A k \in 1..5 : h[s + k] = g[s + k]  BY <2>4
  <2>6. (s + 4) + 1 = s + 5  BY <1>2
  <2>7. AddrAt(h, s + 4, <<p, "main", 0>>)  BY <2>1, <2>5, <2>6 DEF AddrAt
  <2>8. RegBytes(h, s) = RegBytes(g, s)  BY <2>5 DEF RegBytes
  <2> QED  BY <2>2, <2>7, <2>8 DEF StubAt
<1> QED  BY <1>3, <1>4

LEMMA KeptMain ==
  ASSUME NEW g, NEW h, NEW s, NEW p, s \in -1..StackTop,
         \A i \in Slots : i > s => h[i] = g[i], MainAt(g, p, s)
  PROVE  MainAt(h, p, s) /\ OwnIn(h, s) = OwnIn(g, s)
BY KeptAbove

LEMMA KeptStub ==
  ASSUME NEW g, NEW h, NEW s, NEW p, s \in -1..StackTop,
         \A i \in Slots : i > s => h[i] = g[i], StubAt(g, p, s)
  PROVE  /\ StubAt(h, p, s) /\ OwnIn(h, s + 5) = OwnIn(g, s + 5)
         /\ RegBytes(h, s) = RegBytes(g, s)
BY KeptAbove

HasPushed(g, s, cells, h) ==
  /\ \A i \in Slots : i > s => h[i] = g[i]
  /\ \A k \in 1..Len(cells) : h[s - k + 1] = cells[k]

LEMMA Pushed ==
  ASSUME NEW g, NEW s \in Slots, NEW cells, Len(cells) \in Nat, Len(cells) <= s + 1
  PROVE  HasPushed(g, s, cells, PushFrom(g, s, cells))
<1> DEFINE h == PushFrom(g, s, cells)
<1> DEFINE Of(i) == IF s - Len(cells) < i /\ i <= s THEN cells[s - i + 1] ELSE g[i]
<1>1. \A i \in Slots : h[i] = Of(i)  BY PushIs
<1> HIDE DEF Of, h
<1>2. ASSUME NEW i \in Slots, i > s PROVE h[i] = g[i]
  <2>1. Of(i) = g[i]  BY <1>2, Geometry DEF Of
  <2> QED  BY <1>1, <2>1
<1>3. ASSUME NEW k \in 1..Len(cells) PROVE h[s - k + 1] = cells[k]
  <2> DEFINE i == s - k + 1
  <2>1. i \in Slots /\ s - Len(cells) < i /\ i <= s /\ s - i + 1 = k  BY Geometry
  <2> HIDE DEF i
  <2>2. Of(i) = cells[k]  BY <2>1 DEF Of
  <2>3. h[i] = cells[k]  BY <1>1, <2>1, <2>2
  <2> QED  BY <2>3 DEF i
<1> QED  BY <1>2, <1>3 DEF HasPushed, h

\* A program's push, a stub's and BRK's.
LEMMA BytePushed ==
  ASSUME NEW g, NEW p, NEW s, MainAt(g, p, s), MainFrame - s < MaxPush, NEW v
  PROVE  LET h == PushFrom(g, s, <<ByteCell(v)>>)
         IN  /\ Below(s, 1) = s - 1 /\ MainAt(h, p, s - 1)
             /\ OwnIn(h, s - 1) = <<v>> \o OwnIn(g, s)
<1> DEFINE h == PushFrom(g, s, <<ByteCell(v)>>)
<1>1. s \in (MainFrame - MaxPush)..MainFrame  BY DEF MainAt
<1>2. s \in Slots /\ s \in Int /\ s >= 1 /\ s - 1 \in (MainFrame - MaxPush)..MainFrame
      /\ s \in -1..StackTop
  BY <1>1, Geometry
<1>3. Len(<<ByteCell(v)>>) = 1 /\ <<ByteCell(v)>>[1] = ByteCell(v)  OBVIOUS
<1> DEFINE cells == <<ByteCell(v)>>
<1>p. Len(cells) = 1 /\ cells[1] = ByteCell(v) /\ h = PushFrom(g, s, cells)  BY <1>3
<1> HIDE DEF h, cells
<1>4. /\ \A i \in Slots : i > s => h[i] = g[i]
      /\ \A k \in 1..Len(cells) : h[s - k + 1] = cells[k]
  <2>1. s \in Slots /\ Len(cells) \in Nat /\ Len(cells) <= s + 1  BY <1>2, <1>p
  <2>2. HasPushed(g, s, cells, h)  BY <2>1, <1>p, Pushed
  <2> QED  BY <2>2 DEF HasPushed
<1>5. h[s] = ByteCell(v)
  <2>1. s - 1 + 1 = s /\ 1 \in 1..Len(cells)  BY <1>2, <1>p
  <2> QED  BY <1>4, <1>p, <2>1
<1>6. MainAt(h, p, s) /\ OwnIn(h, s) = OwnIn(g, s)
  BY <1>2, <1>4, KeptMain
<1>7. MainAt(h, p, s - 1)  BY <1>2, <1>6 DEF MainAt
<1>8. Below(s, 1) = s - 1  BY <1>2, BelowIs
<1>9. OwnIn(h, s - 1) = <<v>> \o OwnIn(h, s)
  <2> DEFINE n == MainFrame - s
             m == MainFrame - (s - 1)
  <2>1. n \in Nat /\ m = n + 1  BY <1>1, Geometry
  <2>2. h[(s - 1) + 1] = ByteCell(v) /\ \A k \in 2..m : (s - 1) + k = s + (k - 1)
    BY <1>2, <1>5, <2>1
  <2>3. ByteOf(ByteCell(v)) = v  BY CellsRead
  <2> HIDE DEF n, m
  <2>4. OwnIn(h, s) = [k \in 1..n |-> ByteOf(h[s + k])]  BY DEF OwnIn, n
  <2>5. OwnIn(h, s - 1) = [k \in 1..m |-> ByteOf(h[(s - 1) + k])]  BY DEF OwnIn, m
  <2>6. OwnIn(h, s) \in Seq({ByteOf(h[s + k]) : k \in 1..n}) /\ Len(OwnIn(h, s)) = n
    BY <2>1, <2>4
  <2>7. <<v>> \o OwnIn(h, s) = [k \in 1..m |-> IF k = 1 THEN v ELSE OwnIn(h, s)[k - 1]]
    BY <2>1, <2>6
  <2>8. \A k \in 1..m : ByteOf(h[(s - 1) + k]) = IF k = 1 THEN v ELSE OwnIn(h, s)[k - 1]
    BY <2>1, <2>2, <2>3, <2>4
  <2> QED  BY <2>5, <2>7, <2>8
<1> QED  BY <1>6, <1>7, <1>8, <1>9 DEF h

LEMMA StubPushed ==
  ASSUME NEW g, NEW p, NEW s, MainAt(g, p, s), NEW r
  PROVE  LET q == <<p, "main", 0>>
             h == PushFrom(g, s, <<Hi(q), Lo(q), ByteCell(r.a), ByteCell(r.x), ByteCell(r.y)>>)
         IN  /\ Below(s, 5) = s - 5 /\ StubAt(h, p, s - 5)
             /\ OwnIn(h, s) = OwnIn(g, s)
             /\ RegBytes(h, s - 5) = <<r.y, r.x, r.a>>
<1> DEFINE q == <<p, "main", 0>>
           cells == <<Hi(q), Lo(q), ByteCell(r.a), ByteCell(r.x), ByteCell(r.y)>>
           h == PushFrom(g, s, cells)
<1>1. s \in (MainFrame - MaxPush)..MainFrame  BY DEF MainAt
<1>2. /\ s \in Slots /\ s \in Int /\ s >= 5 /\ (s - 5) + 5 = s /\ (s - 5) + 4 = s - 1
      /\ s \in -1..StackTop
  BY <1>1, Geometry
<1>3. /\ Len(cells) = 5 /\ cells[1] = Hi(q) /\ cells[2] = Lo(q) /\ cells[3] = ByteCell(r.a)
      /\ cells[4] = ByteCell(r.x) /\ cells[5] = ByteCell(r.y)
  OBVIOUS
<1> HIDE DEF cells, q
<1>p. h = PushFrom(g, s, cells)  OBVIOUS
<1> HIDE DEF h
<1>q. /\ \A i \in Slots : i > s => h[i] = g[i]
      /\ \A k \in 1..Len(cells) : h[s - k + 1] = cells[k]
  <2>1. s \in Slots /\ Len(cells) \in Nat /\ Len(cells) <= s + 1  BY <1>2, <1>3
  <2>2. HasPushed(g, s, cells, h)  BY <2>1, <1>p, Pushed
  <2> QED  BY <2>2 DEF HasPushed
<1>4. \A i \in Slots : i > s => h[i] = g[i]  BY <1>q
<1>5. \A k \in 1..5 : h[s - k + 1] = cells[k]  BY <1>3, <1>q
<1>6. MainAt(h, p, s) /\ OwnIn(h, s) = OwnIn(g, s)
  BY <1>2, <1>4, KeptMain
<1>7. /\ h[s] = Hi(q) /\ h[s - 1] = Lo(q) /\ h[s - 2] = ByteCell(r.a)
      /\ h[s - 3] = ByteCell(r.x) /\ h[s - 4] = ByteCell(r.y)
  <2>1. s - 1 + 1 = s /\ s - 2 + 1 = s - 1 /\ s - 3 + 1 = s - 2 /\ s - 4 + 1 = s - 3
        /\ s - 5 + 1 = s - 4
    BY <1>2
  <2> QED  BY <1>3, <1>5, <2>1
<1>8. AddrAt(h, s - 1, q)
  <2>1. (s - 1) + 1 = s  BY <1>2
  <2> QED  BY <1>7, <2>1 DEF AddrAt
<1>9. StubAt(h, p, s - 5)
  BY <1>2, <1>6, <1>8 DEF StubAt, q
<1>10. Below(s, 5) = s - 5  BY <1>2, BelowIs
<1>11. RegBytes(h, s - 5) = <<r.y, r.x, r.a>>
  <2>1. (s - 5) + 3 = s - 2 /\ (s - 5) + 2 = s - 3 /\ (s - 5) + 1 = s - 4  BY <1>2
  <2>2. /\ ByteOf(h[(s - 5) + 3]) = r.a /\ ByteOf(h[(s - 5) + 2]) = r.x
        /\ ByteOf(h[(s - 5) + 1]) = r.y
    BY <1>7, <2>1, CellsRead
  <2> QED  BY <2>2 DEF RegBytes
<1> QED  BY <1>6, <1>9, <1>10, <1>11 DEF h, cells, q

BrkFrame(p, n, st) == <<Hi(<<p, "resume", n>>), Lo(<<p, "resume", n>>), st>>
HasCall(g, p, s, n, st, h) ==
  /\ CallFrame(h, p, s - 3, n) /\ h[s - 2] = st
  /\ OwnIn(h, s + 5) = OwnIn(g, s + 5) /\ RegBytes(h, s) = RegBytes(g, s)

LEMMA CallPushed ==
  ASSUME NEW g, NEW p, NEW s \in Int, StubAt(g, p, s), NEW n,
         NEW st, \E c \in BOOLEAN : st = Status(c, TRUE)
  PROVE  Below(s, 3) = s - 3 /\ HasCall(g, p, s, n, st, PushFrom(g, s, BrkFrame(p, n, st)))
<1> DEFINE q == <<p, "resume", n>>
           cells == BrkFrame(p, n, st)
           h == PushFrom(g, s, cells)
<1>1. s + 5 \in (MainFrame - MaxPush)..MainFrame  BY DEF StubAt, MainAt
<1>2. /\ s \in Slots /\ s >= 3 /\ s \in -1..StackTop
      /\ (s - 3) + 1 = s - 2 /\ (s - 3) + 2 = s - 1 /\ (s - 3) + 3 = s
  BY <1>1, Geometry
<1>3. Len(cells) = 3 /\ cells[1] = Hi(q) /\ cells[2] = Lo(q) /\ cells[3] = st
  BY DEF BrkFrame
<1> HIDE DEF cells, q
<1>p. h = PushFrom(g, s, cells)  OBVIOUS
<1> HIDE DEF h
<1>q. /\ \A i \in Slots : i > s => h[i] = g[i]
      /\ \A k \in 1..Len(cells) : h[s - k + 1] = cells[k]
  <2>1. s \in Slots /\ Len(cells) \in Nat /\ Len(cells) <= s + 1  BY <1>2, <1>3
  <2>2. HasPushed(g, s, cells, h)  BY <2>1, <1>p, Pushed
  <2> QED  BY <2>2 DEF HasPushed
<1>4. \A i \in Slots : i > s => h[i] = g[i]  BY <1>q
<1>5. \A k \in 1..3 : h[s - k + 1] = cells[k]  BY <1>3, <1>q
<1>6. /\ StubAt(h, p, s) /\ OwnIn(h, s + 5) = OwnIn(g, s + 5)
      /\ RegBytes(h, s) = RegBytes(g, s)
  BY <1>2, <1>4, KeptStub
<1>7. h[s] = Hi(q) /\ h[s - 1] = Lo(q) /\ h[s - 2] = st
  <2>1. s - 1 + 1 = s /\ s - 2 + 1 = s - 1 /\ s - 3 + 1 = s - 2
    BY <1>2
  <2>2. 1 \in 1..3 /\ 2 \in 1..3 /\ 3 \in 1..3  OBVIOUS
  <2>3. /\ h[s - 1 + 1] = cells[1] /\ h[s - 2 + 1] = cells[2] /\ h[s - 3 + 1] = cells[3]
    BY <1>5, <2>2
  <2> QED  BY <1>3, <2>1, <2>3
<1>8. AddrAt(h, s - 1, q)
  <2>1. (s - 1) + 1 = s  BY <1>2
  <2> QED  BY <1>7, <2>1 DEF AddrAt
<1>9. CallFrame(h, p, s - 3, n)
  BY <1>2, <1>6, <1>7, <1>8 DEF CallFrame, q
<1>10. Below(s, 3) = s - 3  BY <1>2, BelowIs
<1> QED  BY <1>6, <1>7, <1>9, <1>10 DEF h, cells, HasCall

\* A program takes a byte off its stack, returns from main, and a stub
\* returns to main.
LEMMA BytePulled ==
  ASSUME NEW g, NEW p, NEW s, MainAt(g, p, s), MainFrame - s > 0
  PROVE  /\ Above(s, 1) = s + 1 /\ MainAt(g, p, s + 1)
         /\ OwnIn(g, s) # <<>> /\ Head(OwnIn(g, s)) = ByteOf(g[s + 1])
         /\ Tail(OwnIn(g, s)) = OwnIn(g, s + 1)
<1>1. s \in (MainFrame - MaxPush)..MainFrame  BY DEF MainAt
<1>2. /\ s \in Nat /\ s + 1 <= StackTop /\ s + 1 \in (MainFrame - MaxPush)..MainFrame
  BY <1>1, Geometry
<1>3. Above(s, 1) = s + 1  BY <1>2, AboveIs
<1>4. MainAt(g, p, s + 1)  BY <1>2 DEF MainAt
<1> DEFINE n == MainFrame - s
           m == MainFrame - (s + 1)
<1>5. n \in Nat /\ n = m + 1 /\ m \in Nat /\ n >= 1  BY <1>1, <1>2, Geometry
<1>6. \A k \in 1..m : s + (k + 1) = (s + 1) + k  BY <1>2, <1>5
<1> HIDE DEF n, m
<1> DEFINE own == OwnIn(g, s)
<1>7. own = [k \in 1..n |-> ByteOf(g[s + k])]  BY DEF OwnIn, n
<1>8. OwnIn(g, s + 1) = [k \in 1..m |-> ByteOf(g[(s + 1) + k])]  BY DEF OwnIn, m
<1> HIDE DEF own
<1>9. own \in Seq({ByteOf(g[s + k]) : k \in 1..n}) /\ Len(own) = n  BY <1>5, <1>7
<1>10. own # <<>> /\ Head(own) = ByteOf(g[s + 1])  BY <1>5, <1>7, <1>9
<1> DEFINE T == {ByteOf(g[s + k]) : k \in 1..n}
<1>a. own \in Seq(T) /\ own # <<>> /\ Len(own) - 1 = m  BY <1>5, <1>9, <1>10
<1> HIDE DEF T
<1>11. Tail(own) = [k \in 1..m |-> own[k + 1]]
  <2>1. /\ Tail(own) \in Seq(T) /\ Len(Tail(own)) = m
        /\ \A k \in 1..m : Tail(own)[k] = own[k + 1]
    BY <1>a, HeadTailProperties
  <2> DEFINE t == Tail(own)
  <2>2. t \in Seq(T) /\ Len(t) = m  BY <2>1
  <2> HIDE DEF t
  <2>3. t = [k \in 1..m |-> t[k]]  BY <2>2
  <2> QED  BY <2>1, <2>3 DEF t
<1>12. \A k \in 1..m : own[k + 1] = ByteOf(g[(s + 1) + k])  BY <1>5, <1>6, <1>7
<1>13. Tail(own) = OwnIn(g, s + 1)  BY <1>8, <1>11, <1>12
<1> QED  BY <1>3, <1>4, <1>10, <1>13 DEF own

LEMMA ReturnsToCrt0 ==
  ASSUME NEW g, NEW p, MainAt(g, p, MainFrame)
  PROVE  /\ Above(MainFrame, 1) = StackTop - 1 /\ Above(MainFrame, 2) = StackTop
         /\ AddrOf(g[StackTop - 1], g[StackTop]) = <<p, "forever", 0>>
         /\ OwnIn(g, MainFrame) = <<>>
<1>1. MainFrame \in Nat /\ MainFrame + 1 = StackTop - 1 /\ MainFrame + 2 = StackTop
      /\ (StackTop - 1) + 1 = StackTop
  BY Geometry
<1>2. Above(MainFrame, 1) = StackTop - 1 /\ Above(MainFrame, 2) = StackTop
  BY <1>1, AboveIs, Geometry
<1>3. g[StackTop - 1] = Lo(<<p, "forever", 0>>) /\ g[StackTop] = Hi(<<p, "forever", 0>>)
  BY <1>1 DEF MainAt, AddrAt
<1>4. OwnIn(g, MainFrame) = <<>>
  <2>1. 1..(MainFrame - MainFrame) = {}  BY <1>1
  <2> QED  BY <2>1 DEF OwnIn
<1> QED  BY <1>2, <1>3, <1>4, CellsRead

LEMMA StubReads ==
  ASSUME NEW g, NEW p, NEW s \in Int, StubAt(g, p, s)
  PROVE  /\ s \in Nat /\ s + 5 <= StackTop
         /\ \A k \in 1..5 : Above(s, k) = s + k
         /\ AddrOf(g[s + 4], g[s + 5]) = <<p, "main", 0>>
         /\ MainAt(g, p, s + 5)
<1>1. s + 5 \in (MainFrame - MaxPush)..MainFrame /\ MainAt(g, p, s + 5)
  BY DEF StubAt, MainAt
<1>2. s \in Nat /\ s + 5 <= StackTop  BY <1>1, Geometry
<1>3. \A k \in 1..5 : s + k <= StackTop /\ k \in Nat  BY <1>2, Geometry
<1>4. \A k \in 1..5 : Above(s, k) = s + k  BY <1>2, <1>3, AboveIs
<1>5. g[s + 4] = Lo(<<p, "main", 0>>) /\ g[s + 5] = Hi(<<p, "main", 0>>)
  <2>1. (s + 4) + 1 = s + 5  OBVIOUS
  <2> QED  BY <2>1 DEF StubAt, AddrAt
<1> QED  BY <1>1, <1>2, <1>4, <1>5, CellsRead

LEMMA FrameReads ==
  ASSUME NEW g, NEW p, NEW s \in Int, NEW n, CallFrame(g, p, s, n)
  PROVE  /\ s \in Nat /\ s + 8 <= StackTop
         /\ \A k \in 1..8 : Above(s, k) = s + k
         /\ IsBrk(g[s + 1]) /\ g[s + 1] = Status(CarryOf(g[s + 1]), TRUE)
         /\ CarryOf(g[s + 1]) \in BOOLEAN
         /\ AddrOf(g[s + 2], g[s + 3]) = <<p, "resume", n>>
         /\ StubAt(g, p, s + 3)
<1>1. StubAt(g, p, s + 3) /\ (s + 3) + 5 = s + 8  BY DEF CallFrame
<1>2. s + 8 \in (MainFrame - MaxPush)..MainFrame  BY <1>1 DEF StubAt, MainAt
<1>3. s \in Nat /\ s + 8 <= StackTop  BY <1>2, Geometry
<1>4. \A k \in 1..8 : s + k <= StackTop /\ k \in Nat  BY <1>3, Geometry
<1>5. \A k \in 1..8 : Above(s, k) = s + k  BY <1>3, <1>4, AboveIs
<1>6. PICK c \in BOOLEAN : g[s + 1] = Status(c, TRUE)  BY DEF CallFrame
<1>7. CarryOf(g[s + 1]) = c /\ IsBrk(g[s + 1])  BY <1>6, CellsRead
<1>8. g[s + 2] = Lo(<<p, "resume", n>>) /\ g[s + 3] = Hi(<<p, "resume", n>>)
  <2>1. (s + 2) + 1 = s + 3  OBVIOUS
  <2> QED  BY <2>1 DEF CallFrame, AddrAt
<1>9. AddrOf(g[s + 2], g[s + 3]) = <<p, "resume", n>>  BY <1>8, CellsRead
<1> QED  BY <1>1, <1>3, <1>5, <1>6, <1>7, <1>9

LEMMA FirstReads ==
  ASSUME NEW g, NEW p, NEW s, FirstFrame(g, p, s)
  PROVE  /\ s = StackTop - 3 /\ s \in Nat
         /\ \A k \in 1..3 : Above(s, k) = s + k
         /\ AddrOf(g[s + 2], g[s + 3]) = <<p, "entry", 0>>
<1>1. s = StackTop - 3 /\ s \in Nat  BY Geometry DEF FirstFrame
<1>2. \A k \in 1..3 : s + k <= StackTop /\ k \in Nat  BY <1>1, Geometry
<1>3. \A k \in 1..3 : Above(s, k) = s + k  BY <1>1, <1>2, AboveIs
<1>4. g[s + 2] = Lo(<<p, "entry", 0>>) /\ g[s + 3] = Hi(<<p, "entry", 0>>)
  <2>1. (s + 2) + 1 = s + 3  BY <1>1
  <2> QED  BY <2>1 DEF FirstFrame, AddrAt
<1>5. AddrOf(g[s + 2], g[s + 3]) = <<p, "entry", 0>>  BY <1>4, CellsRead
<1> QED  BY <1>1, <1>3, <1>5

----------------------------------------------------------------------------
(* The invariant: what the stack pages hold, place by place. It is what    *)
(* makes pulling an address, or resuming a process, lead anywhere.         *)

PageOf(p) == stk[StackPage(p)]

\* What ret_user_mode may pop.
Ready(g, p, s) == FirstFrame(g, p, s) \/ \E n \in Calls[p] : n # 1 /\ CallFrame(g, p, s, n)

UserFrame ==
  \/ pc = <<idx, "entry", 0>> /\ sp = StackTop /\ regs.y = Junk /\ regs.c = FALSE
  \/ pc = <<idx, "main", 0>> /\ MainAt(PageOf(idx), idx, sp)
  \/ pc = <<idx, "forever", 0>>
  \/ \E n \in Calls[idx] : pc = <<idx, "brk", n>> /\ StubAt(PageOf(idx), idx, sp)
  \/ \E n \in Calls[idx] : n # 1 /\ pc = <<idx, "resume", n>> /\ StubAt(PageOf(idx), idx, sp)

KernelFrame ==
  \/ at = "brk_handler" /\ \E n \in Calls[idx] : CallFrame(PageOf(idx), idx, sp, n)
  \/ at = "do_yield" /\ 0 \in Calls[idx] /\ CallFrame(PageOf(idx), idx, sp, 0)
  \/ at = "syscall" /\ sysnum \in Calls[idx] \ {0} /\ CallFrame(PageOf(idx), idx, sp, sysnum)
  \/ at = "ret_user_mode" /\ regs = Clobbered /\ Ready(PageOf(idx), idx, sp)
  \/ at = "spin" /\ 1 \in Calls[idx] /\ CallFrame(PageOf(idx), idx, sp, 1)

Suspension == \A p \in Procs : p # idx \/ at = "sched_start" => Ready(PageOf(p), p, savedSP[p])

FrameInv ==
  /\ at = "user" => UserFrame
  /\ at \notin {"user", "sched_start"} => KernelFrame
  /\ Suspension

FullInv == TypeInv /\ FrameInv

LEMMA Here ==
  ASSUME FullInv
  PROVE  /\ idx \in Procs /\ sp \in Slots /\ sp \in Int
         /\ StackPage(idx) \in StackPages /\ StackPage(idx) # 0
         /\ at # "sched_start" => UserPage = StackPage(idx) /\ ppn = Table[idx]
         /\ kernel <=> at # "user"
<1>1. idx \in Procs /\ sp \in Slots  BY DEF FullInv, TypeInv, TypeOK
<1>2. StackPage(idx) \in StackPages /\ StackPage(idx) # 0  BY <1>1, PagesApart
<1>3. at # "sched_start" => UserPage = StackPage(idx) /\ ppn = Table[idx]
  BY DEF FullInv, TypeInv, SchedInv, OneRunning, UserPage, StackPage
<1>4. kernel <=> at # "user"
  BY DEF FullInv, TypeInv, SchedInv, ModeOK
<1>5. sp \in Int  BY <1>1, Geometry
<1> QED  BY <1>1, <1>2, <1>3, <1>4, <1>5

LEMMA AtPlace ==
  ASSUME FullInv
  PROVE  /\ UserAt("entry") => /\ pc = <<idx, "entry", 0>> /\ sp = StackTop
                               /\ regs.y = Junk /\ regs.c = FALSE
         /\ UserAt("main") => pc = <<idx, "main", 0>> /\ MainAt(PageOf(idx), idx, sp)
         /\ UserAt("forever") => pc = <<idx, "forever", 0>>
         /\ UserAt("brk") => \E n \in Calls[idx] : /\ pc = <<idx, "brk", n>>
                                                   /\ StubAt(PageOf(idx), idx, sp)
         /\ UserAt("resume") => \E n \in Calls[idx] : /\ n # 1 /\ pc = <<idx, "resume", n>>
                                                      /\ StubAt(PageOf(idx), idx, sp)
<1>1. \A place : UserAt(place) => UserFrame /\ pc[2] = place
  BY DEF UserAt, Place, FullInv, FrameInv
<1>2. \A n, place : pc = <<idx, place, n>> => pc[2] = place  OBVIOUS
<1> QED  BY <1>1, <1>2 DEF UserFrame

\* Whose stack pages a step leaves alone.
LEMMA PagesKept ==
  ASSUME FullInv, Next, NEW p \in Procs, p # idx \/ kernel
  PROVE  stk'[StackPage(p)] = stk[StackPage(p)]
<1>1. StackPage(p) \in StackPages /\ StackPage(p) # 0  BY PagesApart
<1>2. CASE kernel  BY <1>1, <1>2, OtherPagesKept DEF FullInv, TypeInv
<1>3. CASE ~ kernel /\ p # idx
  <2>1. ppn[0] = StackPage(idx) /\ idx \in Procs
    <3>1. at # "sched_start"  BY <1>3, Here
    <3> QED  BY <3>1, Here DEF UserPage
  <2>2. StackPage(p) # StackPage(idx)  BY <1>3, <2>1, PagesApart
  <2> QED  BY <1>1, <2>1, <2>2, OtherPagesKept DEF FullInv, TypeInv
<1> QED  BY <1>2, <1>3

LEMMA OthersStayReady ==
  ASSUME FullInv, Next, at # "sched_start", idx' = idx, savedSP' = savedSP, at' # "sched_start"
  PROVE  Suspension'
<1> SUFFICES ASSUME NEW p \in Procs, p # idx
             PROVE  Ready(stk'[StackPage(p)], p, savedSP[p])
  BY DEF Suspension, PageOf
<1>1. stk'[StackPage(p)] = stk[StackPage(p)]  BY PagesKept
<1>2. Ready(PageOf(p), p, savedSP[p])  BY DEF FullInv, FrameInv, Suspension
<1> QED  BY <1>1, <1>2 DEF PageOf

LEMMA PushedHere ==
  ASSUME FullInv, at = "user", NEW s, NEW cells,
         stk' = [stk EXCEPT ![UserPage] = PushFrom(@, s, cells)]
  PROVE  stk'[StackPage(idx)] = PushFrom(PageOf(idx), s, cells)
<1>1. UserPage = StackPage(idx) /\ StackPage(idx) \in StackPages  BY Here
<1>2. DOMAIN stk = StackPages  BY DEF FullInv, TypeInv, TypeOK
<1> QED  BY <1>1, <1>2 DEF PageOf

----------------------------------------------------------------------------
(* What each step does to the running process.                             *)

WithAX(r, a, x) == [r EXCEPT !.a = a, !.x = x]
LEMMA StartRegs ==
  ASSUME NEW r, NEW v, NEW w, NEW y, NEW c, NEW a, NEW x, r = [a |-> v, x |-> w, y |-> y, c |-> c]
  PROVE  WithAX(r, a, x) = [a |-> a, x |-> x, y |-> y, c |-> c]
<1> DEFINE t == [r EXCEPT !.a = a]
<1>1. t = [a |-> a, x |-> w, y |-> y, c |-> c]  OBVIOUS
<1>2. WithAX(r, a, x) = [t EXCEPT !.x = x]  BY DEF WithAX
<1> HIDE DEF t
<1> QED  BY <1>1, <1>2

LEMMA StartEffect ==
  ASSUME FullInv, Start
  PROVE  /\ pc' = <<idx, "main", 0>> /\ sp' = MainFrame /\ regs' = FirstReg
         /\ MainAt(stk'[StackPage(idx)], idx, MainFrame)
<1>1. /\ pc = <<idx, "entry", 0>> /\ regs.y = Junk /\ regs.c = FALSE /\ at = "user"
  BY AtPlace DEF Start, UserAt
<1> DEFINE q == <<idx, "forever", 0>>
           cells == <<Hi(q), Lo(q)>>
           h == stk'[StackPage(idx)]
<1>2. pc[1] = idx  BY <1>1
<1>3. stk' = [stk EXCEPT ![UserPage] = PushFrom(@, StackTop, cells)]
  BY <1>2 DEF Start
<1>4. h = PushFrom(PageOf(idx), StackTop, cells)  BY <1>1, <1>3, PushedHere
<1>5. Len(cells) = 2 /\ cells[1] = Hi(q) /\ cells[2] = Lo(q)  OBVIOUS
<1>6. StackTop \in Slots /\ 2 <= StackTop + 1 /\ StackTop - 2 = MainFrame  BY Geometry
<1> HIDE DEF cells, h, q
<1>7. HasPushed(PageOf(idx), StackTop, cells, h)
  <2>1. Len(cells) \in Nat /\ Len(cells) <= StackTop + 1  BY <1>5, <1>6
  <2>2. HasPushed(PageOf(idx), StackTop, cells, PushFrom(PageOf(idx), StackTop, cells))
    BY <1>6, <2>1, Pushed
  <2> QED  BY <1>4, <2>2, Zenon
<1>8. h[StackTop] = Hi(q) /\ h[StackTop - 1] = Lo(q)
  <2>1. StackTop - 1 + 1 = StackTop /\ StackTop - 2 + 1 = StackTop - 1  BY Geometry
  <2>2. 1 \in 1..2 /\ 2 \in 1..2  OBVIOUS
  <2> QED  BY <1>5, <1>7, <2>1, <2>2 DEF HasPushed
<1>9. MainAt(h, idx, MainFrame)
  <2>1. MainFrame \in (MainFrame - MaxPush)..MainFrame /\ (StackTop - 1) + 1 = StackTop
    BY Geometry
  <2> QED  BY <1>8, <2>1 DEF MainAt, AddrAt, q
<1>10. sp' = MainFrame
  <2>1. Below(StackTop, 2) = StackTop - 2  BY <1>6, BelowIs, Geometry
  <2> QED  BY <1>6, <2>1 DEF Start
<1>11. regs' = FirstReg
  <2>1. regs' = [regs EXCEPT !.a = 126, !.x = 255] /\ regs \in Registers
    BY DEF Start, FullInv, TypeInv, TypeOK
  <2> DEFINE off == FALSE
  <2>2. PICK v, w : regs = [a |-> v, x |-> w, y |-> Junk, c |-> off]
    BY <1>1, <2>1 DEF Registers
  <2> HIDE DEF off
  <2>3. WithAX(regs, 126, 255) = [a |-> 126, x |-> 255, y |-> Junk, c |-> off]
    BY <2>2, StartRegs
  <2>4. regs' = WithAX(regs, 126, 255)  BY <2>1 DEF WithAX
  <2> QED  BY <2>3, <2>4 DEF FirstReg, off
<1>12. pc' = <<idx, "main", 0>>  BY <1>2 DEF Start, GoTo
<1> QED  BY <1>9, <1>10, <1>11, <1>12 DEF h

LEMMA PushEffect ==
  ASSUME FullInv, Push
  PROVE  /\ pc = <<idx, "main", 0>> /\ sp' = sp - 1
         /\ MainAt(PageOf(idx), idx, sp) /\ MainAt(stk'[StackPage(idx)], idx, sp')
         /\ OwnIn(stk'[StackPage(idx)], sp') = <<regs.a>> \o OwnIn(PageOf(idx), sp)
<1>1. pc = <<idx, "main", 0>> /\ MainAt(PageOf(idx), idx, sp) /\ at = "user"
  BY AtPlace DEF Push, UserAt
<1> DEFINE cells == <<ByteCell(regs.a)>>
<1>2. /\ stk' = [stk EXCEPT ![UserPage] = PushFrom(@, sp, cells)] /\ sp' = Below(sp, 1)
  BY DEF Push, UserPush
<1>3. stk'[StackPage(idx)] = PushFrom(PageOf(idx), sp, cells)  BY <1>1, <1>2, PushedHere
<1>4. MainFrame - sp < MaxPush  BY DEF Push, Depth
<1> QED  BY <1>1, <1>2, <1>3, <1>4, BytePushed

LEMMA CellHere ==
  ASSUME FullInv, at # "sched_start", NEW k, NEW n, Above(sp, k) = n
  PROVE  Cell(k) = PageOf(idx)[n]
<1>1. UserPage = StackPage(idx)  BY Here
<1> QED  BY <1>1 DEF Cell, PageOf

LEMMA PullEffect ==
  ASSUME FullInv, Pull
  PROVE  /\ pc = <<idx, "main", 0>> /\ sp' = sp + 1
         /\ MainAt(PageOf(idx), idx, sp) /\ MainAt(PageOf(idx), idx, sp')
         /\ OwnIn(PageOf(idx), sp) # <<>>
         /\ regs' = [regs EXCEPT !.a = Head(OwnIn(PageOf(idx), sp))]
         /\ OwnIn(PageOf(idx), sp') = Tail(OwnIn(PageOf(idx), sp))
<1>1. pc = <<idx, "main", 0>> /\ MainAt(PageOf(idx), idx, sp) /\ at = "user"
  BY AtPlace DEF Pull, UserAt
<1>2. MainFrame - sp > 0  BY DEF Pull, Depth
<1>3. /\ Above(sp, 1) = sp + 1 /\ MainAt(PageOf(idx), idx, sp + 1)
      /\ OwnIn(PageOf(idx), sp) # <<>>
      /\ Head(OwnIn(PageOf(idx), sp)) = ByteOf(PageOf(idx)[sp + 1])
      /\ Tail(OwnIn(PageOf(idx), sp)) = OwnIn(PageOf(idx), sp + 1)
  BY <1>1, <1>2, BytePulled
<1>4. Cell(1) = PageOf(idx)[sp + 1]  BY <1>1, <1>3, CellHere
<1> QED  BY <1>1, <1>3, <1>4 DEF Pull

LEMMA MainReturnsEffect ==
  ASSUME FullInv, MainReturns
  PROVE  /\ pc = <<idx, "main", 0>> /\ pc' = <<idx, "forever", 0>>
         /\ MainAt(PageOf(idx), idx, sp) /\ OwnIn(PageOf(idx), sp) = <<>>
<1>1. pc = <<idx, "main", 0>> /\ MainAt(PageOf(idx), idx, sp) /\ at = "user"
  BY AtPlace DEF MainReturns, UserAt
<1>2. sp = MainFrame  BY Here, Geometry DEF MainReturns, Depth
<1>3. /\ Above(MainFrame, 1) = StackTop - 1 /\ Above(MainFrame, 2) = StackTop
      /\ AddrOf(PageOf(idx)[StackTop - 1], PageOf(idx)[StackTop]) = <<idx, "forever", 0>>
      /\ OwnIn(PageOf(idx), MainFrame) = <<>>
  BY <1>1, <1>2, ReturnsToCrt0
<1>4. Cell(1) = PageOf(idx)[StackTop - 1] /\ Cell(2) = PageOf(idx)[StackTop]
  BY <1>1, <1>2, <1>3, CellHere
<1> QED  BY <1>1, <1>2, <1>3, <1>4 DEF MainReturns

LEMMA CallStubEffect ==
  ASSUME FullInv, NEW n \in AllCalls, CallStub(n)
  PROVE  /\ n \in Calls[idx] /\ pc = <<idx, "main", 0>> /\ pc' = <<idx, "brk", n>>
         /\ MainAt(PageOf(idx), idx, sp) /\ sp' = sp - 5
         /\ StubAt(stk'[StackPage(idx)], idx, sp')
         /\ OwnIn(stk'[StackPage(idx)], sp) = OwnIn(PageOf(idx), sp)
         /\ RegBytes(stk'[StackPage(idx)], sp') = <<regs'.y, regs'.x, regs'.a>>
<1>1. pc = <<idx, "main", 0>> /\ MainAt(PageOf(idx), idx, sp) /\ at = "user"
  BY AtPlace DEF CallStub, UserAt
<1>2. pc[1] = idx  BY <1>1
<1> DEFINE q == <<idx, "main", 0>>
           r == regs'
           cells == <<Hi(q), Lo(q), ByteCell(r.a), ByteCell(r.x), ByteCell(r.y)>>
<1>3. Pushes(r) = cells /\ Len(cells) = 5  BY <1>2 DEF Pushes
<1>4. UserPush(Pushes(r)) /\ n \in Calls[idx] /\ pc' = <<idx, "brk", n>>
  BY <1>2 DEF CallStub, GoTo
<1>5. stk' = [stk EXCEPT ![UserPage] = PushFrom(@, sp, cells)] /\ sp' = Below(sp, 5)
  BY <1>3, <1>4 DEF UserPush
<1> HIDE DEF r
<1>6. stk'[StackPage(idx)] = PushFrom(PageOf(idx), sp, cells)  BY <1>1, <1>5, PushedHere
<1>7. /\ sp' = sp - 5
      /\ StubAt(stk'[StackPage(idx)], idx, sp')
      /\ OwnIn(stk'[StackPage(idx)], sp) = OwnIn(PageOf(idx), sp)
      /\ RegBytes(stk'[StackPage(idx)], sp') = <<r.y, r.x, r.a>>
  BY <1>1, <1>5, <1>6, StubPushed
<1> QED  BY <1>1, <1>4, <1>7 DEF r

LEMMA StubReturnEffect ==
  ASSUME FullInv, StubReturn
  PROVE  \E n \in Calls[idx] :
           /\ n # 1 /\ pc = <<idx, "resume", n>> /\ pc' = <<idx, "main", 0>>
           /\ StubAt(PageOf(idx), idx, sp) /\ sp' = sp + 5 /\ MainAt(PageOf(idx), idx, sp')
           /\ LET r == RegsIn(PageOf(idx), sp, regs.c)
              IN  regs' = IF n = 3 THEN [r EXCEPT !.a = abi[UserPage].areg]
                          ELSE IF n \in {5, 6} THEN [r EXCEPT !.a = abi[UserPage].ret, !.x = 0]
                          ELSE r
<1>1. PICK n \in Calls[idx] : n # 1 /\ pc = <<idx, "resume", n>> /\ StubAt(PageOf(idx), idx, sp)
  BY AtPlace DEF StubReturn
<1>2. at = "user" /\ at # "sched_start" /\ sp \in Int  BY Here DEF StubReturn, UserAt
<1>3. /\ \A k \in 1..5 : Above(sp, k) = sp + k
      /\ AddrOf(PageOf(idx)[sp + 4], PageOf(idx)[sp + 5]) = <<idx, "main", 0>>
      /\ MainAt(PageOf(idx), idx, sp + 5)
  BY <1>1, <1>2, StubReads
<1>4. \A k \in 1..5 : Cell(k) = PageOf(idx)[sp + k]
  BY <1>2, <1>3, CellHere
<1>5. /\ Cell(1) = PageOf(idx)[sp + 1] /\ Cell(2) = PageOf(idx)[sp + 2]
      /\ Cell(3) = PageOf(idx)[sp + 3] /\ Cell(4) = PageOf(idx)[sp + 4]
      /\ Cell(5) = PageOf(idx)[sp + 5] /\ Above(sp, 5) = sp + 5
  BY <1>3, <1>4
<1>6. pc' = <<idx, "main", 0>> /\ sp' = sp + 5
  BY <1>3, <1>5 DEF StubReturn
<1>7. pc[3] = n  BY <1>1
<1> DEFINE r == RegsIn(PageOf(idx), sp, regs.c)
<1>8. r = [a |-> ByteOf(Cell(3)), x |-> ByteOf(Cell(2)), y |-> ByteOf(Cell(1)), c |-> regs.c]
  BY <1>5 DEF RegsIn, RegBytes
<1> HIDE DEF r
<1>9. regs' = IF n = 3 THEN [r EXCEPT !.a = abi[UserPage].areg]
              ELSE IF n \in {5, 6} THEN [r EXCEPT !.a = abi[UserPage].ret, !.x = 0] ELSE r
  BY <1>7, <1>8 DEF StubReturn
<1> QED  BY <1>1, <1>3, <1>6, <1>9 DEF r

LEMMA BrkEffect ==
  ASSUME FullInv, Brk
  PROVE  \E n \in Calls[idx] :
           /\ pc = <<idx, "brk", n>> /\ StubAt(PageOf(idx), idx, sp) /\ sp' = sp - 3
           /\ CallFrame(stk'[StackPage(idx)], idx, sp', n)
           /\ OwnIn(stk'[StackPage(idx)], sp + 5) = OwnIn(PageOf(idx), sp + 5)
           /\ RegBytes(stk'[StackPage(idx)], sp) = RegBytes(PageOf(idx), sp)
           /\ CarryOf(stk'[StackPage(idx)][sp - 2]) = regs.c
<1>1. PICK n \in Calls[idx] : pc = <<idx, "brk", n>> /\ StubAt(PageOf(idx), idx, sp)
  BY AtPlace DEF Brk
<1>2. at = "user" /\ sp \in Int  BY Here DEF Brk, UserAt
<1> DEFINE st == Status(regs.c, TRUE)
           cells == BrkFrame(idx, n, st)
           g == PageOf(idx)
           h == PushFrom(g, sp, cells)
<1>3. pc[1] = idx /\ pc[3] = n  BY <1>1
<1>4. stk' = [stk EXCEPT ![UserPage] = PushFrom(@, sp, cells)] /\ sp' = Below(sp, 3)
  BY <1>3 DEF Brk, UserPush, BrkFrame
<1>5. stk'[StackPage(idx)] = h  BY <1>2, <1>4, PushedHere
<1>6. regs.c \in BOOLEAN  BY DEF FullInv, TypeInv, TypeOK, Registers, Flags
<1>7. CarryOf(st) = regs.c  BY <1>6, CellsRead
<1>8. \E c \in BOOLEAN : st = Status(c, TRUE)  BY <1>6
<1> HIDE DEF st
<1>9. Below(sp, 3) = sp - 3 /\ HasCall(g, idx, sp, n, st, h)
  BY <1>1, <1>2, <1>8, CallPushed
<1> HIDE DEF h
<1>10. CarryOf(h[sp - 2]) = regs.c /\ CallFrame(h, idx, sp - 3, n)
       /\ OwnIn(h, sp + 5) = OwnIn(g, sp + 5) /\ RegBytes(h, sp) = RegBytes(g, sp)
  BY <1>7, <1>9 DEF HasCall
<1> QED  BY <1>1, <1>4, <1>5, <1>9, <1>10

LEMMA InKernel ==
  ASSUME FullInv
  PROVE  /\ at = "brk_handler" => \E n \in Calls[idx] : CallFrame(PageOf(idx), idx, sp, n)
         /\ at = "do_yield" => 0 \in Calls[idx] /\ CallFrame(PageOf(idx), idx, sp, 0)
         /\ at = "syscall" => /\ sysnum \in Calls[idx] \ {0}
                             /\ CallFrame(PageOf(idx), idx, sp, sysnum)
         /\ at = "ret_user_mode" => regs = Clobbered /\ Ready(PageOf(idx), idx, sp)
         /\ at = "spin" => 1 \in Calls[idx] /\ CallFrame(PageOf(idx), idx, sp, 1)
BY DEF FullInv, FrameInv, KernelFrame

\* The handler finds the number its caller asked for.
LEMMA BrkHandlerEffect ==
  ASSUME FullInv, BrkHandler
  PROVE  \E n \in Calls[idx] :
           /\ CallFrame(PageOf(idx), idx, sp, n) /\ sysnum' = n
           /\ at' = IF n = 0 THEN "do_yield" ELSE "syscall"
<1>1. at = "brk_handler" /\ sp \in Int  BY Here DEF BrkHandler
<1> DEFINE g == PageOf(idx)
<1>2. PICK n \in Calls[idx] : CallFrame(g, idx, sp, n)  BY <1>1, InKernel
<1>3. UserPage = StackPage(idx) /\ ppn = Table[idx]  BY <1>1, Here
<1>4. /\ sp \in Nat /\ sp + 8 <= StackTop /\ IsBrk(g[sp + 1])
      /\ AddrOf(g[sp + 2], g[sp + 3]) = <<idx, "resume", n>>
  BY <1>1, <1>2, FrameReads
<1>5. sp + 1 <= StackTop /\ sp + 2 <= StackTop /\ sp + 3 <= StackTop
  BY <1>4, Geometry
<1>6. FrameCell(1) = g[sp + 1] /\ FrameCell(2) = g[sp + 2] /\ FrameCell(3) = g[sp + 3]
  BY <1>3, <1>5 DEF FrameCell, PageOf
<1> HIDE DEF g
<1> DEFINE q == <<idx, "resume", n>>
<1>7. q # Lost /\ q[1] = idx /\ q[3] = n  BY DEF Lost
<1>8. AddrOf(FrameCell(2), FrameCell(3)) = q  BY <1>4, <1>6
<1> HIDE DEF q
<1>9. NumbersAt(q, ppn) = {n}  BY <1>3, <1>7 DEF NumbersAt
<1>10. sysnum' \in {n} /\ at' = IF sysnum' = 0 THEN "do_yield" ELSE "syscall"
  BY <1>4, <1>6, <1>8, <1>9 DEF BrkHandler
<1> QED  BY <1>2, <1>10 DEF g

\* RTI takes the process back to where it was interrupted.
LEMMA RetUserModeEffect ==
  ASSUME FullInv, RetUserMode
  PROVE  \/ /\ FirstFrame(PageOf(idx), idx, sp) /\ pc' = <<idx, "entry", 0>> /\ sp' = StackTop
            /\ regs'.y = Junk /\ regs'.c = FALSE
         \/ \E n \in Calls[idx] :
              /\ n # 1 /\ CallFrame(PageOf(idx), idx, sp, n)
              /\ pc' = <<idx, "resume", n>> /\ sp' = sp + 3
              /\ regs'.c = CarryOf(PageOf(idx)[sp + 1])
<1>1. at = "ret_user_mode" /\ sp \in Int /\ at # "sched_start"  BY Here DEF RetUserMode
<1> DEFINE g == PageOf(idx)
<1>2. regs = Clobbered /\ Ready(g, idx, sp)  BY <1>1, InKernel
<1>3. /\ regs' = [regs EXCEPT !.c = CarryOf(Cell(1))] /\ pc' = AddrOf(Cell(2), Cell(3))
      /\ sp' = Above(sp, 3)
  BY DEF RetUserMode
<1>4. regs'.y = Junk /\ regs'.c = CarryOf(Cell(1))
  BY <1>2, <1>3 DEF Clobbered
<1>5. ASSUME \A k \in 1..3 : Above(sp, k) = sp + k
      PROVE  /\ Cell(1) = g[sp + 1] /\ Cell(2) = g[sp + 2] /\ Cell(3) = g[sp + 3]
             /\ Above(sp, 3) = sp + 3
  <2>1. Above(sp, 1) = sp + 1 /\ Above(sp, 2) = sp + 2 /\ Above(sp, 3) = sp + 3  BY <1>5
  <2> QED  BY <1>1, <2>1, CellHere
<1>6. CASE FirstFrame(g, idx, sp)
  <2>1. /\ sp = StackTop - 3 /\ \A k \in 1..3 : Above(sp, k) = sp + k
        /\ AddrOf(g[sp + 2], g[sp + 3]) = <<idx, "entry", 0>>
    BY <1>6, FirstReads
  <2>2. sp + 3 = StackTop  BY <2>1, Geometry
  <2>3. /\ Cell(1) = g[sp + 1] /\ Cell(2) = g[sp + 2] /\ Cell(3) = g[sp + 3]
        /\ Above(sp, 3) = sp + 3
    BY <1>5, <2>1
  <2>4. regs'.c = FALSE
    <3> DEFINE off == FALSE
               carry == CarryOf(g[sp + 1])
    <3>1. carry = off
      <4>1. g[sp + 1] = Status(FALSE, FALSE)  BY <1>6 DEF FirstFrame
      <4> QED  BY <4>1, CellsRead
    <3>2. regs'.c = carry  BY <1>4, <2>3
    <3> HIDE DEF off, carry
    <3>3. regs'.c = off  BY <3>1, <3>2
    <3> QED  BY <3>3 DEF off
  <2>5. pc' = <<idx, "entry", 0>> /\ sp' = StackTop  BY <1>3, <2>1, <2>2, <2>3
  <2> QED  BY <1>4, <1>6, <2>4, <2>5
<1>7. CASE \E n \in Calls[idx] : n # 1 /\ CallFrame(g, idx, sp, n)
  <2>1. PICK n \in Calls[idx] : n # 1 /\ CallFrame(g, idx, sp, n)  BY <1>7
  <2>2. /\ \A k \in 1..8 : Above(sp, k) = sp + k
        /\ AddrOf(g[sp + 2], g[sp + 3]) = <<idx, "resume", n>>
    BY <1>1, <2>1, FrameReads
  <2>3. \A k \in 1..3 : Above(sp, k) = sp + k  BY <2>2
  <2> QED  BY <1>3, <1>4, <1>5, <2>1, <2>2, <2>3
<1> QED  BY <1>2, <1>6, <1>7 DEF Ready

LEMMA SchedStartEffect ==
  ASSUME FullInv, Next, SchedStart
  PROVE  /\ idx' = 0 /\ sp' = savedSP[0] /\ savedSP' = savedSP /\ at = "sched_start"
         /\ at' = "ret_user_mode" /\ regs' = Clobbered
         /\ \A p \in Procs : /\ stk'[StackPage(p)] = PageOf(p)
                             /\ Ready(PageOf(p), p, savedSP[p])
<1>1. /\ idx' = 0 /\ savedSP' = savedSP /\ at = "sched_start" /\ sp' = savedSP'[0]
      /\ at' = "ret_user_mode" /\ regs' = Clobbered
  BY DEF SchedStart, Resume
<1>2. kernel  BY <1>1, Here
<1>3. \A p \in Procs : stk'[StackPage(p)] = PageOf(p)  BY <1>2, PagesKept DEF PageOf
<1>4. \A p \in Procs : Ready(PageOf(p), p, savedSP[p])
  BY <1>1 DEF FullInv, FrameInv, Suspension
<1> QED  BY <1>1, <1>3, <1>4

LEMMA DoYieldEffect ==
  ASSUME FullInv, Next, DoYield
  PROVE  /\ idx' = (idx + 1) % NProcs /\ idx' \in Procs /\ sp' = savedSP'[idx']
         /\ savedSP' = [savedSP EXCEPT ![idx] = sp] /\ savedSP'[idx] = sp
         /\ at' = "ret_user_mode" /\ regs' = Clobbered
         /\ 0 \in Calls[idx] /\ CallFrame(PageOf(idx), idx, sp, 0)
         /\ \A p \in Procs : /\ stk'[StackPage(p)] = PageOf(p)
                             /\ Ready(PageOf(p), p, savedSP'[p])
<1>1. /\ at = "do_yield" /\ at' = "ret_user_mode" /\ regs' = Clobbered
      /\ sp' = savedSP'[idx'] /\ savedSP' = [savedSP EXCEPT ![idx] = sp]
  BY DEF DoYield, Resume, SaveContext
<1>2. kernel /\ idx \in Procs  BY <1>1, Here
<1>3. 0 \in Calls[idx] /\ CallFrame(PageOf(idx), idx, sp, 0)  BY <1>1, InKernel
<1>4. \A p \in Procs : stk'[StackPage(p)] = PageOf(p)  BY <1>2, PagesKept DEF PageOf
<1>5. idx' = (idx + 1) % NProcs /\ SchedInv'  BY DoYieldSched DEF FullInv, TypeInv
<1>6. savedSP'[idx] = sp /\ \A p \in Procs : p # idx => savedSP'[p] = savedSP[p]
  BY <1>1, <1>2 DEF FullInv, TypeInv, TypeOK
<1>7. \A p \in Procs : Ready(PageOf(p), p, savedSP'[p])
  <2>1. Ready(PageOf(idx), idx, savedSP'[idx])  BY <1>3, <1>6 DEF Ready
  <2>2. \A p \in Procs : p # idx => Ready(PageOf(p), p, savedSP'[p])
    BY <1>6 DEF FullInv, FrameInv, Suspension
  <2> QED  BY <2>1, <2>2
<1> QED  BY <1>1, <1>3, <1>4, <1>5, <1>6, <1>7 DEF SchedInv

LEMMA ServiceEffect ==
  ASSUME FullInv, Next, Service
  PROVE  /\ UNCHANGED <<pc, sp, sysnum, savedSP, idx>>
         /\ stk'[StackPage(idx)] = PageOf(idx)
         /\ \/ UNCHANGED vars
            \/ /\ at = "syscall" /\ sysnum \in Calls[idx] \ {0}
               /\ CallFrame(PageOf(idx), idx, sp, sysnum)
               /\ \/ sysnum = 1 /\ at' = "spin"
                  \/ sysnum # 1 /\ at' = "ret_user_mode" /\ regs' = Clobbered
<1>1. UNCHANGED <<pc, sp, sysnum, savedSP>>  BY ServiceTypes DEF FullInv
<1>2. idx' = idx /\ at \in {"syscall", "spin"}
  BY ServiceSched DEF Undisturbed, FullInv, TypeInv
<1>3. kernel /\ idx \in Procs  BY <1>2, Here
<1>4. stk'[StackPage(idx)] = PageOf(idx)  BY <1>3, PagesKept DEF PageOf
<1>5. \/ UNCHANGED vars
      \/ at = "syscall" /\ sysnum = 1 /\ at' = "spin"
      \/ at = "syscall" /\ sysnum # 1 /\ Done
  BY DEF Service, DoExit, Spin, DoPutc, DoGetc, DoPuts, DoBlock, DoGetcNb, DoEnosys, Serving
<1>6. at = "syscall" => sysnum \in Calls[idx] \ {0} /\ CallFrame(PageOf(idx), idx, sp, sysnum)
  BY InKernel
<1> QED  BY <1>1, <1>2, <1>4, <1>5, <1>6 DEF Done

----------------------------------------------------------------------------
(* The invariant holds, and with it RightProcessRuns.                      *)

LEMMA FirstFrames ==
  ASSUME NEW p \in Procs PROVE FirstFrame(NewFrame(p), p, StackTop - 3)
<1> DEFINE q == <<p, "entry", 0>>
           st == Status(FALSE, FALSE)
           cells == <<Hi(q), Lo(q), st>>
           junk == [i \in Slots |-> ByteCell(Junk)]
           h == PushFrom(junk, StackTop, cells)
<1>1. h = NewFrame(p)  BY DEF NewFrame
<1>2. Len(cells) = 3 /\ cells[1] = Hi(q) /\ cells[2] = Lo(q) /\ cells[3] = st  OBVIOUS
<1> HIDE DEF q, st, cells, junk
<1>3. StackTop \in Slots /\ Len(cells) \in Nat /\ Len(cells) <= StackTop + 1  BY <1>2, Geometry
<1>4. HasPushed(junk, StackTop, cells, h)  BY <1>3, Pushed
<1> HIDE DEF h
<1>5. /\ StackTop - 1 + 1 = (StackTop - 3) + 2 + 1 /\ StackTop - 2 + 1 = (StackTop - 3) + 2
      /\ StackTop - 3 + 1 = (StackTop - 3) + 1
  BY Geometry
<1>6. 1 \in 1..3 /\ 2 \in 1..3 /\ 3 \in 1..3  OBVIOUS
<1>7. /\ h[StackTop - 1 + 1] = cells[1] /\ h[StackTop - 2 + 1] = cells[2]
      /\ h[StackTop - 3 + 1] = cells[3]
  BY <1>2, <1>4, <1>6 DEF HasPushed
<1>8. FirstFrame(h, p, StackTop - 3)  BY <1>2, <1>5, <1>7 DEF FirstFrame, AddrAt, q, st
<1> QED  BY <1>1, <1>8

LEMMA FirstPages ==
  ASSUME Init, NEW p \in Procs PROVE PageOf(p) = NewFrame(p)
<1>1. StackPage(p) \in StackPages /\ \A q \in Procs : StackPage(q) = StackPage(p) => q = p
  BY PagesApart
<1>2. \E q \in Procs : StackPage(p) = StackPage(q)  OBVIOUS
<1>3. (CHOOSE q \in Procs : StackPage(p) = StackPage(q)) = p  BY <1>1, <1>2
<1>4. stk[StackPage(p)] = NewFrame(CHOOSE q \in Procs : StackPage(p) = StackPage(q))
  BY <1>1, <1>2 DEF Init
<1> QED  BY <1>3, <1>4 DEF PageOf

LEMMA FrameInit == Init => FrameInv
<1> SUFFICES ASSUME Init PROVE FrameInv  OBVIOUS
<1>1. at = "sched_start"  BY DEF Init
<1>2. ASSUME NEW p \in Procs PROVE Ready(PageOf(p), p, savedSP[p])
  <2>1. savedSP[p] = StackTop - 3  BY DEF Init
  <2>2. PageOf(p) = NewFrame(p)  BY FirstPages
  <2> QED  BY <2>1, <2>2, FirstFrames DEF Ready
<1> QED  BY <1>1, <1>2 DEF FrameInv, Suspension

\* User code: whoever suspended stays ready, and the running process is
\* where the step's effect says.
LEMMA FrameUser == FullInv /\ Next /\ UserStep => FrameInv'
<1> SUFFICES ASSUME FullInv, Next, UserStep PROVE FrameInv'  OBVIOUS
<1>1. at = "user" /\ idx' = idx /\ (at' = at \/ at' = "brk_handler")
  BY UserStepSched DEF Undisturbed, FullInv, TypeInv
<1>2. savedSP' = savedSP  BY UserStepTypes DEF RestKept, FullInv
<1>3. Suspension'  BY <1>1, <1>2, OthersStayReady
<1> DEFINE g == stk'[StackPage(idx)]
<1>g. PageOf(idx)' = g  BY <1>1 DEF PageOf
<1> HIDE DEF g
<1>4. ASSUME at' = "user", UserFrame' PROVE FrameInv'
  BY <1>3, <1>4 DEF FrameInv
<1>5. CASE Start
  <2>1. pc' = <<idx, "main", 0>> /\ sp' = MainFrame /\ MainAt(g, idx, MainFrame)
    BY <1>5, StartEffect DEF g
  <2> QED  BY <1>1, <1>4, <1>5, <1>g, <2>1 DEF Start, UserKeeps, UserFrame
<1>6. CASE Compute
  <2>1. pc = <<idx, "main", 0>> /\ MainAt(PageOf(idx), idx, sp)
    BY <1>6, AtPlace DEF Compute
  <2>2. g = PageOf(idx) /\ pc' = pc /\ sp' = sp /\ at' = at  BY <1>6 DEF Compute, UserKeeps, g, PageOf
  <2> QED  BY <1>1, <1>4, <1>g, <2>1, <2>2 DEF UserFrame
<1>7. CASE Push
  <2>1. pc = <<idx, "main", 0>> /\ MainAt(g, idx, sp')  BY <1>7, PushEffect DEF g
  <2> QED  BY <1>1, <1>4, <1>7, <1>g, <2>1 DEF Push, UserKeeps, UserFrame
<1>8. CASE Pull
  <2>1. pc = <<idx, "main", 0>> /\ MainAt(PageOf(idx), idx, sp')  BY <1>8, PullEffect
  <2>2. g = PageOf(idx) /\ pc' = pc /\ at' = at  BY <1>8 DEF Pull, UserKeeps, g, PageOf
  <2> QED  BY <1>1, <1>4, <1>g, <2>1, <2>2 DEF UserFrame
<1>9. CASE MainReturns
  <2>1. pc' = <<idx, "forever", 0>>  BY <1>9, MainReturnsEffect
  <2> QED  BY <1>1, <1>4, <1>9, <2>1 DEF MainReturns, UserKeeps, UserFrame
<1>10. CASE Forever
  <2>1. UNCHANGED vars /\ FrameInv  BY <1>10 DEF Forever, FullInv
  <2> QED  BY <2>1 DEF vars, FrameInv, UserFrame, KernelFrame, Suspension, PageOf
<1>11. CASE StubReturn
  <2>1. pc' = <<idx, "main", 0>> /\ MainAt(PageOf(idx), idx, sp')  BY <1>11, StubReturnEffect
  <2>2. g = PageOf(idx) /\ at' = at  BY <1>11 DEF StubReturn, UserKeeps, g, PageOf
  <2> QED  BY <1>1, <1>4, <1>g, <2>1, <2>2 DEF UserFrame
<1>12. CASE Brk
  <2>1. \E n \in Calls[idx] : CallFrame(g, idx, sp', n)  BY <1>12, BrkEffect DEF g
  <2>2. at' = "brk_handler"  BY <1>12 DEF Brk
  <2>3. KernelFrame'  BY <1>1, <1>g, <2>1, <2>2 DEF KernelFrame
  <2> QED  BY <1>3, <2>2, <2>3 DEF FrameInv
<1>13. ASSUME NEW n \in AllCalls, CallStub(n) PROVE FrameInv'
  <2>1. n \in Calls[idx] /\ pc' = <<idx, "brk", n>> /\ StubAt(g, idx, sp')
    BY <1>13, CallStubEffect DEF g
  <2>2. at' = at  BY <1>13 DEF CallStub, UserKeeps
  <2> QED  BY <1>1, <1>4, <1>g, <2>1, <2>2 DEF UserFrame
<1> QED
  BY <1>5, <1>6, <1>7, <1>8, <1>9, <1>10, <1>11, <1>12, <1>13 DEF UserStep

LEMMA FrameNext == FullInv /\ [Next]_vars => FrameInv'
<1> SUFFICES ASSUME FullInv, [Next]_vars PROVE FrameInv'  OBVIOUS
<1>u. CASE UNCHANGED vars
  BY <1>u DEF vars, FullInv, FrameInv, UserFrame, KernelFrame, Suspension, PageOf
<1>1. CASE Next /\ UserStep  BY <1>1, FrameUser
<1>2. CASE Next /\ SchedStart
  <2>1. /\ idx' = 0 /\ sp' = savedSP[0] /\ savedSP' = savedSP
        /\ at' = "ret_user_mode" /\ regs' = Clobbered
        /\ \A p \in Procs : stk'[StackPage(p)] = PageOf(p) /\ Ready(PageOf(p), p, savedSP[p])
    BY <1>2, SchedStartEffect
  <2>2. \A p \in Procs : PageOf(p)' = PageOf(p)  BY <2>1 DEF PageOf
  <2>3. KernelFrame'  BY <2>1, <2>2, ZeroIsAProcess DEF KernelFrame
  <2>4. Suspension'  BY <2>1, <2>2 DEF Suspension
  <2> QED  BY <2>1, <2>3, <2>4 DEF FrameInv
<1>3. CASE Next /\ DoYield
  <2>1. /\ idx' \in Procs /\ sp' = savedSP'[idx']
        /\ at' = "ret_user_mode" /\ regs' = Clobbered
        /\ \A p \in Procs : stk'[StackPage(p)] = PageOf(p) /\ Ready(PageOf(p), p, savedSP'[p])
    BY <1>3, DoYieldEffect
  <2>2. \A p \in Procs : PageOf(p)' = PageOf(p)  BY <2>1 DEF PageOf
  <2>3. KernelFrame'  BY <2>1, <2>2 DEF KernelFrame
  <2>4. Suspension'  BY <2>1, <2>2 DEF Suspension
  <2> QED  BY <2>1, <2>3, <2>4 DEF FrameInv
<1>4. CASE Next /\ BrkHandler
  <2>1. \E n \in Calls[idx] :
          /\ CallFrame(PageOf(idx), idx, sp, n) /\ sysnum' = n
          /\ at' = IF n = 0 THEN "do_yield" ELSE "syscall"
    BY <1>4, BrkHandlerEffect
  <2>2. UNCHANGED <<sp, stk, savedSP, idx>> /\ at = "brk_handler"  BY <1>4 DEF BrkHandler
  <2>3. PageOf(idx)' = PageOf(idx)  BY <2>2 DEF PageOf
  <2>4. KernelFrame' /\ at' \in {"do_yield", "syscall"}  BY <2>1, <2>2, <2>3 DEF KernelFrame
  <2>5. Suspension'  BY <1>4, <2>2, <2>4, OthersStayReady
  <2> QED  BY <2>4, <2>5 DEF FrameInv
<1>5. CASE Next /\ RetUserMode
  <2>1. \/ pc' = <<idx, "entry", 0>> /\ sp' = StackTop /\ regs'.y = Junk /\ regs'.c = FALSE
        \/ \E n \in Calls[idx] : /\ n # 1 /\ CallFrame(PageOf(idx), idx, sp, n)
                                 /\ pc' = <<idx, "resume", n>> /\ sp' = sp + 3
    BY <1>5, RetUserModeEffect
  <2>2. UNCHANGED <<stk, savedSP, idx>> /\ at' = "user" /\ at = "ret_user_mode"
    BY <1>5 DEF RetUserMode
  <2>3. PageOf(idx)' = PageOf(idx)  BY <2>2 DEF PageOf
  <2>4. \A n : CallFrame(PageOf(idx), idx, sp, n) => StubAt(PageOf(idx), idx, sp + 3)
    BY DEF CallFrame
  <2>5. UserFrame'  BY <2>1, <2>2, <2>3, <2>4 DEF UserFrame
  <2>6. Suspension'  BY <1>5, <2>2, OthersStayReady
  <2> QED  BY <2>2, <2>5, <2>6 DEF FrameInv
<1>6. CASE Next /\ Service
  <2>1. CASE UNCHANGED vars  BY <1>u, <2>1
  <2>2. CASE ~ UNCHANGED vars
    <3>1. /\ UNCHANGED <<sp, sysnum, savedSP, idx>> /\ stk'[StackPage(idx)] = PageOf(idx)
          /\ at = "syscall" /\ sysnum \in Calls[idx] \ {0}
          /\ CallFrame(PageOf(idx), idx, sp, sysnum)
          /\ \/ sysnum = 1 /\ at' = "spin"
             \/ sysnum # 1 /\ at' = "ret_user_mode" /\ regs' = Clobbered
      BY <1>6, <2>2, ServiceEffect
    <3>2. PageOf(idx)' = PageOf(idx)  BY <3>1 DEF PageOf
    <3>3. KernelFrame' /\ at' \in {"spin", "ret_user_mode"}
      BY <3>1, <3>2 DEF KernelFrame, Ready
    <3>4. Suspension'  BY <1>6, <3>1, <3>3, OthersStayReady
    <3> QED  BY <3>3, <3>4 DEF FrameInv
  <2> QED  BY <2>1, <2>2
<1>7. CASE Next /\ KeyArrives
  BY <1>7 DEF KeyArrives, FullInv, FrameInv, UserFrame, KernelFrame, Suspension, PageOf
<1> QED
  BY <1>u, <1>1, <1>2, <1>3, <1>4, <1>5, <1>6, <1>7 DEF Next, KernelStep

LEMMA FullInvariant == Spec => []FullInv
<1>1. Init => FullInv  BY SchedInit, TypesInit, FrameInit DEF FullInv, TypeInv
<1>2. FullInv /\ [Next]_vars => FullInv'
  BY SchedNext, TypesNext, FrameNext DEF FullInv, TypeInv
<1> QED  BY <1>1, <1>2, PTL DEF Spec

\* Every return, the scheduler's and every RTI and RTS of the stubs, leads
\* to the program it belongs to: the MMU is in user mode exactly while user
\* code runs, and it is the code of the process plist_idx names, never at a
\* lost address.
THEOREM RightProcessRunsHolds == Spec => []RightProcessRuns
<1>1. FullInv => RightProcessRuns
  <2> SUFFICES ASSUME FullInv PROVE RightProcessRuns  OBVIOUS
  <2>1. kernel <=> at # "user"  BY Here
  <2>2. at = "user" => pc # Lost /\ pc[1] = idx
    <3> SUFFICES ASSUME at = "user" PROVE pc # Lost /\ pc[1] = idx  OBVIOUS
    <3>1. UserFrame  BY DEF FullInv, FrameInv
    <3>2. \E place \in UserPlaces : \E n : pc = <<idx, place, n>>  BY <3>1 DEF UserFrame, UserPlaces
    <3> QED  BY <3>2 DEF Lost, UserPlaces
  <2> QED  BY <2>1, <2>2 DEF RightProcessRuns
<1> QED  BY <1>1, FullInvariant, PTL

----------------------------------------------------------------------------
(* What a program sees of itself (KernelRefinement), place by place.       *)

View(p, st, r, o) == StageOf(p) = st /\ RegOf(p) = r /\ OwnOf(p) = o

\* How a process in the middle of a call appears.
CallStage(p) ==
  IF BeingServed(p) THEN "call" ELSE IF idx = p /\ at = "spin" THEN "exited" ELSE "done"

LEMMA CellIs ==
  ASSUME NEW p, NEW s \in Nat, NEW k \in Nat, s + k <= StackTop
  PROVE  CellOf(p, s, k) = PageOf(p)[s + k]
BY AboveIs DEF CellOf, PageOf

LEMMA OwnIs ==
  ASSUME NEW p, NEW s \in (MainFrame - MaxPush)..MainFrame
  PROVE  [k \in 1..(MainFrame - s) |-> ByteOf(CellOf(p, s, k))] = OwnIn(PageOf(p), s)
<1>1. s \in Nat  BY Geometry
<1>2. \A k \in 1..(MainFrame - s) : k \in Nat /\ s + k <= StackTop  BY <1>1, Geometry
<1>3. \A k \in 1..(MainFrame - s) : CellOf(p, s, k) = PageOf(p)[s + k]
  BY <1>1, <1>2, CellIs
<1> QED  BY <1>3 DEF OwnIn

\* Running, at each place of its code.
LEMMA EntryView ==
  ASSUME Alone(idx), pc = <<idx, "entry", 0>>
  PROVE  View(idx, <<"new", 0>>, FirstReg, <<>>)
<1>1. Position(idx) = pc /\ Place(pc) = "entry"  BY DEF Position, Place
<1> QED  BY <1>1 DEF View, StageOf, StageAt, RegOf, OwnOf

LEMMA ForeverView ==
  ASSUME Alone(idx), pc = <<idx, "forever", 0>>
  PROVE  View(idx, <<"ended", 0>>, regs, <<>>)
<1>1. Position(idx) = pc /\ Place(pc) = "forever"  BY DEF Position, Place
<1> QED  BY <1>1 DEF View, StageOf, StageAt, RegOf, OwnOf, InStub

LEMMA MainView ==
  ASSUME Alone(idx), pc = <<idx, "main", 0>>, MainAt(PageOf(idx), idx, sp)
  PROVE  View(idx, <<"run", 0>>, regs, OwnIn(PageOf(idx), sp))
<1>1. Position(idx) = pc /\ Place(pc) = "main"  BY DEF Position, Place
<1>2. ~ InStub(idx)  BY <1>1 DEF InStub
<1>3. StageOf(idx) = <<"run", 0>>  BY <1>1 DEF StageOf, StageAt
<1>4. RegOf(idx) = regs  BY <1>1, <1>2 DEF RegOf
<1>5. OwnOf(idx) = [k \in 1..(MainFrame - sp) |-> ByteOf(CellOf(idx, sp, k))]
  BY <1>1, <1>2 DEF OwnOf
<1>6. OwnOf(idx) = OwnIn(PageOf(idx), sp)  BY <1>5, OwnIs DEF MainAt
<1> QED  BY <1>3, <1>4, <1>6 DEF View

\* Whatever is in a stub: its registers and data lie above s.
LEMMA StubCells ==
  ASSUME NEW p, NEW s \in Int, StubAt(PageOf(p), p, s), InStub(p), StubSP(p) = s,
         Place(Position(p)) # "entry", Place(Position(p)) # "forever"
  PROVE  /\ OwnOf(p) = OwnIn(PageOf(p), s + 5)
         /\ \A c : (IF Alone(p) THEN regs.c ELSE CarryOf(CellOf(p, FrameSP(p), 1))) = c
                   => RegOf(p) = RegsIn(PageOf(p), s, c)
<1>1. s + 5 \in (MainFrame - MaxPush)..MainFrame /\ s \in Nat /\ s + 5 <= StackTop
      /\ Above(s, 5) = s + 5
  BY StubReads DEF StubAt, MainAt
<1>2. OwnOf(p) = [k \in 1..(MainFrame - (s + 5)) |-> ByteOf(CellOf(p, s + 5, k))]
  BY <1>1 DEF OwnOf
<1>3. OwnOf(p) = OwnIn(PageOf(p), s + 5)  BY <1>1, <1>2, OwnIs
<1>4. /\ CellOf(p, s, 1) = PageOf(p)[s + 1] /\ CellOf(p, s, 2) = PageOf(p)[s + 2]
      /\ CellOf(p, s, 3) = PageOf(p)[s + 3]
  <2>1. s + 1 <= StackTop /\ s + 2 <= StackTop /\ s + 3 <= StackTop  BY <1>1, Geometry
  <2> QED  BY <1>1, <2>1, CellIs
<1> DEFINE carry == IF Alone(p) THEN regs.c ELSE CarryOf(CellOf(p, FrameSP(p), 1))
<1>5. RegOf(p) = [a |-> ByteOf(CellOf(p, s, 3)), x |-> ByteOf(CellOf(p, s, 2)),
                  y |-> ByteOf(CellOf(p, s, 1)), c |-> carry]
  BY DEF RegOf
<1> HIDE DEF carry
<1>6. RegOf(p) = RegsIn(PageOf(p), s, carry)  BY <1>4, <1>5 DEF RegsIn, RegBytes
<1> QED  BY <1>3, <1>6 DEF carry

LEMMA StubView ==
  ASSUME Alone(idx), sp \in Int, NEW n, StubAt(PageOf(idx), idx, sp),
         NEW place \in {"brk", "resume"}, pc = <<idx, place, n>>
  PROVE  View(idx, IF place = "brk" THEN <<"call", n>> ELSE <<"done", n>>,
              RegsIn(PageOf(idx), sp, regs.c), OwnIn(PageOf(idx), sp + 5))
<1>1. Position(idx) = pc /\ Place(pc) = place /\ pc[3] = n  BY DEF Position, Place
<1>2. InStub(idx) /\ StubSP(idx) = sp  BY <1>1 DEF InStub, StubSP
<1>3. StageOf(idx) = IF place = "brk" THEN <<"call", n>> ELSE <<"done", n>>
  <2>1. ~ BeingServed(idx) /\ at # "spin"  BY DEF BeingServed, Alone
  <2> QED  BY <1>1, <2>1 DEF StageOf, StageAt
<1>4. /\ OwnOf(idx) = OwnIn(PageOf(idx), sp + 5)
      /\ RegOf(idx) = RegsIn(PageOf(idx), sp, regs.c)
  BY <1>1, <1>2, StubCells
<1> QED  BY <1>3, <1>4 DEF View

\* Not running: what its frame says.
LEMMA FrameViews ==
  ASSUME NEW p, ~ Alone(p), FrameSP(p) \in Int
  PROVE  /\ FirstFrame(PageOf(p), p, FrameSP(p)) => View(p, <<"new", 0>>, FirstReg, <<>>)
         /\ \A n : CallFrame(PageOf(p), p, FrameSP(p), n)
                   => View(p, <<CallStage(p), n>>,
                           RegsIn(PageOf(p), FrameSP(p) + 3, CarryOf(PageOf(p)[FrameSP(p) + 1])),
                           OwnIn(PageOf(p), FrameSP(p) + 8))
<1> DEFINE s == FrameSP(p)
           g == PageOf(p)
<1>0. \A k : CellOf(p, s, k) = g[Above(s, k)]  BY DEF CellOf, PageOf
<1>1. Position(p) = AddrOf(CellOf(p, s, 2), CellOf(p, s, 3))  BY DEF Position
<1>2. ASSUME FirstFrame(g, p, s) PROVE View(p, <<"new", 0>>, FirstReg, <<>>)
  <2>1. Position(p) = <<p, "entry", 0>>
    <3>1. /\ \A k \in 1..3 : Above(s, k) = s + k
          /\ AddrOf(g[s + 2], g[s + 3]) = <<p, "entry", 0>>
      BY <1>2, FirstReads
    <3>2. Above(s, 2) = s + 2 /\ Above(s, 3) = s + 3  BY <3>1
    <3> QED  BY <1>0, <1>1, <3>1, <3>2
  <2>2. Place(Position(p)) = "entry"  BY <2>1 DEF Place
  <2>3. StageOf(p) = <<"new", 0>>  BY <2>2 DEF StageOf, StageAt
  <2>4. RegOf(p) = FirstReg  BY <2>2 DEF RegOf
  <2>5. OwnOf(p) = <<>>  BY <2>2 DEF OwnOf
  <2> QED  BY <2>3, <2>4, <2>5 DEF View
<1>3. ASSUME NEW n, CallFrame(g, p, s, n)
      PROVE  View(p, <<CallStage(p), n>>, RegsIn(g, s + 3, CarryOf(g[s + 1])), OwnIn(g, s + 8))
  <2>1. /\ \A k \in 1..8 : Above(s, k) = s + k
        /\ AddrOf(g[s + 2], g[s + 3]) = <<p, "resume", n>> /\ StubAt(g, p, s + 3)
    BY <1>3, FrameReads
  <2>2. Above(s, 1) = s + 1 /\ Above(s, 2) = s + 2 /\ Above(s, 3) = s + 3  BY <2>1
  <2>3. Position(p) = <<p, "resume", n>>  BY <1>0, <1>1, <2>1, <2>2
  <2>4. Place(Position(p)) = "resume" /\ Position(p)[3] = n  BY <2>3 DEF Place
  <2>5. InStub(p) /\ StubSP(p) = s + 3  BY <2>2, <2>4 DEF InStub, StubSP
  <2>6. StageOf(p) = <<CallStage(p), n>>  BY <2>4 DEF StageOf, StageAt, CallStage
  <2>7. CarryOf(CellOf(p, s, 1)) = CarryOf(g[s + 1])  BY <1>0, <2>2
  <2> DEFINE u == s + 3
  <2>8. u \in Int /\ u + 5 = s + 8  OBVIOUS
  <2>9. StubAt(g, p, u) /\ StubSP(p) = u  BY <2>1, <2>5
  <2> HIDE DEF u
  <2>10. OwnOf(p) = OwnIn(g, u + 5) /\ RegOf(p) = RegsIn(g, u, CarryOf(g[s + 1]))
    BY <2>4, <2>5, <2>7, <2>8, <2>9, StubCells
  <2> QED  BY <2>6, <2>8, <2>10 DEF View, u
<1> QED  BY <1>2, <1>3

RunningSeen ==
  /\ UserAt("entry") => View(idx, <<"new", 0>>, FirstReg, <<>>)
  /\ UserAt("main") => View(idx, <<"run", 0>>, regs, OwnIn(PageOf(idx), sp))
  /\ UserAt("forever") => View(idx, <<"ended", 0>>, regs, <<>>)
  /\ UserAt("brk") => View(idx, <<"call", pc[3]>>, RegsIn(PageOf(idx), sp, regs.c),
                           OwnIn(PageOf(idx), sp + 5))
  /\ UserAt("resume") => View(idx, <<"done", pc[3]>>, RegsIn(PageOf(idx), sp, regs.c),
                              OwnIn(PageOf(idx), sp + 5))
WaitingSeen ==
  \A p \in Procs : ~ Alone(p) =>
    LET s == FrameSP(p)
        g == PageOf(p)
    IN  /\ FirstFrame(g, p, s) => View(p, <<"new", 0>>, FirstReg, <<>>)
        /\ \A n : CallFrame(g, p, s, n)
                  => View(p, <<CallStage(p), n>>, RegsIn(g, s + 3, CarryOf(g[s + 1])),
                          OwnIn(g, s + 8))

LEMMA RunningViews == FullInv => RunningSeen
<1> SUFFICES ASSUME FullInv PROVE RunningSeen  OBVIOUS
<1>1. sp \in Int  BY Here
<1>2. at = "user" => Alone(idx)  BY DEF Alone
<1>3. UserAt("entry") => View(idx, <<"new", 0>>, FirstReg, <<>>)
  BY <1>2, AtPlace, EntryView DEF UserAt
<1>4. UserAt("main") => View(idx, <<"run", 0>>, regs, OwnIn(PageOf(idx), sp))
  BY <1>2, AtPlace, MainView DEF UserAt
<1>5. UserAt("forever") => View(idx, <<"ended", 0>>, regs, <<>>)
  BY <1>2, AtPlace, ForeverView DEF UserAt
<1>6. ASSUME UserAt("brk")
      PROVE  View(idx, <<"call", pc[3]>>, RegsIn(PageOf(idx), sp, regs.c), OwnIn(PageOf(idx), sp + 5))
  <2>1. PICK n \in Calls[idx] : pc = <<idx, "brk", n>> /\ StubAt(PageOf(idx), idx, sp)
    BY <1>6, AtPlace
  <2>2. View(idx, IF "brk" = "brk" THEN <<"call", n>> ELSE <<"done", n>>,
             RegsIn(PageOf(idx), sp, regs.c), OwnIn(PageOf(idx), sp + 5))
    BY <1>1, <1>2, <1>6, <2>1, StubView, Zenon DEF UserAt
  <2> QED  BY <2>1, <2>2
<1>7. ASSUME UserAt("resume")
      PROVE  View(idx, <<"done", pc[3]>>, RegsIn(PageOf(idx), sp, regs.c), OwnIn(PageOf(idx), sp + 5))
  <2>1. PICK n \in Calls[idx] : pc = <<idx, "resume", n>> /\ StubAt(PageOf(idx), idx, sp)
    BY <1>7, AtPlace
  <2>2. View(idx, IF "resume" = "brk" THEN <<"call", n>> ELSE <<"done", n>>,
             RegsIn(PageOf(idx), sp, regs.c), OwnIn(PageOf(idx), sp + 5))
    BY <1>1, <1>2, <1>7, <2>1, StubView, Zenon DEF UserAt
  <2> QED  BY <2>1, <2>2
<1> QED  BY <1>3, <1>4, <1>5, <1>6, <1>7 DEF RunningSeen

LEMMA WaitingViews == FullInv => WaitingSeen
<1> SUFFICES ASSUME FullInv, NEW p \in Procs, ~ Alone(p)
             PROVE  LET s == FrameSP(p)
                        g == PageOf(p)
                    IN  /\ FirstFrame(g, p, s) => View(p, <<"new", 0>>, FirstReg, <<>>)
                        /\ \A n : CallFrame(g, p, s, n)
                                  => View(p, <<CallStage(p), n>>,
                                          RegsIn(g, s + 3, CarryOf(g[s + 1])), OwnIn(g, s + 8))
  BY DEF WaitingSeen
<1>1. FrameSP(p) \in Int
  BY Here, Geometry DEF FrameSP, FullInv, TypeInv, TypeOK
<1> QED  BY <1>1, FrameViews, Zenon

LEMMA NextViews ==
  ASSUME FullInv' PROVE RunningSeen' /\ WaitingSeen'
<1>1. (FullInv => RunningSeen)'  BY RunningViews, PTL
<1>2. (FullInv => WaitingSeen)'  BY WaitingViews, PTL
<1> QED  BY <1>1, <1>2

\* The abstract variables, and a step that touches the running process only.
Stages   == [p \in Procs |-> StageOf(p)]
RegsSeen == [p \in Procs |-> RegOf(p)]
Owns     == [p \in Procs |-> OwnOf(p)]
Abis     == [p \in Procs |-> abi[StackPage(p)]]

Same(p) ==
  /\ StageOf(p)' = StageOf(p) /\ RegOf(p)' = RegOf(p) /\ OwnOf(p)' = OwnOf(p)
  /\ abi'[StackPage(p)] = abi[StackPage(p)]

Turn(st, r, o, b) ==
  /\ Stages' = [Stages EXCEPT ![idx] = st] /\ RegsSeen' = [RegsSeen EXCEPT ![idx] = r]
  /\ Owns' = [Owns EXCEPT ![idx] = o] /\ Abis' = [Abis EXCEPT ![idx] = b]

Becomes(st, r, o) == StageOf(idx)' = st /\ RegOf(idx)' = r /\ OwnOf(idx)' = o

LEMMA TurnIs ==
  ASSUME idx \in Procs, idx' = idx, \A p \in Procs : p # idx => Same(p),
         NEW st, NEW r, NEW o, Becomes(st, r, o)
  PROVE  Turn(st, r, o, abi'[StackPage(idx)])
<1>1. StageOf(idx)' = st /\ RegOf(idx)' = r /\ OwnOf(idx)' = o  BY DEF Becomes
<1>2. Stages' = [p \in Procs |-> StageOf(p)'] /\ RegsSeen' = [p \in Procs |-> RegOf(p)']
      /\ Owns' = [p \in Procs |-> OwnOf(p)'] /\ Abis' = [p \in Procs |-> abi'[StackPage(p)]]
  BY DEF Stages, RegsSeen, Owns, Abis
<1>3. Stages' = [Stages EXCEPT ![idx] = st]  BY <1>1, <1>2 DEF Stages, Same
<1>4. RegsSeen' = [RegsSeen EXCEPT ![idx] = r]  BY <1>1, <1>2 DEF RegsSeen, Same
<1>5. Owns' = [Owns EXCEPT ![idx] = o]  BY <1>1, <1>2 DEF Owns, Same
<1>6. Abis' = [Abis EXCEPT ![idx] = abi'[StackPage(idx)]]  BY <1>2 DEF Abis, Same
<1> QED  BY <1>3, <1>4, <1>5, <1>6 DEF Turn

LEMMA TurnKeeps ==
  ASSUME idx \in Procs, NEW st, NEW r, NEW o, NEW b, Turn(st, r, o, b)
  PROVE  /\ StageOf(idx) = st => Stages' = Stages
         /\ RegOf(idx) = r => RegsSeen' = RegsSeen
         /\ OwnOf(idx) = o => Owns' = Owns
         /\ abi[StackPage(idx)] = b => Abis' = Abis
BY DEF Turn, Stages, RegsSeen, Owns, Abis

LEMMA AtIdx ==
  ASSUME idx \in Procs
  PROVE  /\ Stages[idx] = StageOf(idx) /\ RegsSeen[idx] = RegOf(idx)
         /\ Owns[idx] = OwnOf(idx) /\ Abis[idx] = abi[StackPage(idx)]
BY DEF Stages, RegsSeen, Owns, Abis

LEMMA AbiKept ==
  ASSUME FullInv, Next, NEW p \in Procs, p # idx \/ at = "sched_start"
  PROVE  abi'[StackPage(p)] = abi[StackPage(p)]
<1>1. CASE at = "sched_start"
  <2>1. SchedStart \/ KeyArrives
    BY <1>1, UserStepSched, ServiceSched
    DEF Next, KernelStep, DoYield, BrkHandler, RetUserMode, FullInv, TypeInv
  <2> QED  BY <2>1 DEF SchedStart, KeyArrives
<1>2. CASE at # "sched_start" /\ p # idx
  <2>1. ppn[0] = StackPage(idx) /\ idx \in Procs  BY <1>2, Here DEF UserPage
  <2>2. StackPage(p) \in StackPages /\ StackPage(p) # StackPage(idx)
    BY <1>2, <2>1, PagesApart
  <2> QED  BY <2>1, <2>2, OtherPagesKept DEF FullInv, TypeInv
<1> QED  BY <1>1, <1>2

LEMMA WaitsSame ==
  ASSUME FullInv, FullInv', NEW p \in Procs, ~ Alone(p), ~ Alone(p)',
         CallStage(p)' = CallStage(p), FrameSP(p)' = FrameSP(p), PageOf(p)' = PageOf(p),
         abi'[StackPage(p)] = abi[StackPage(p)],
         \/ FirstFrame(PageOf(p), p, FrameSP(p))
         \/ \E n \in Calls[p] : CallFrame(PageOf(p), p, FrameSP(p), n)
  PROVE  Same(p)
<1> DEFINE s == FrameSP(p)
           g == PageOf(p)
<1>1. WaitingSeen /\ WaitingSeen'  BY WaitingViews, NextViews
<1>2. /\ FirstFrame(g, p, s) => View(p, <<"new", 0>>, FirstReg, <<>>)
      /\ \A n : CallFrame(g, p, s, n)
                => View(p, <<CallStage(p), n>>, RegsIn(g, s + 3, CarryOf(g[s + 1])), OwnIn(g, s + 8))
  BY <1>1 DEF WaitingSeen
<1>3. /\ FirstFrame(g, p, s) => View(p, <<"new", 0>>, FirstReg, <<>>)'
      /\ \A n : CallFrame(g, p, s, n)
                => StageOf(p)' = <<CallStage(p), n>>
                   /\ RegOf(p)' = RegsIn(g, s + 3, CarryOf(g[s + 1])) /\ OwnOf(p)' = OwnIn(g, s + 8)
  BY <1>1 DEF WaitingSeen, View
<1> HIDE DEF s, g
<1>4. CASE FirstFrame(g, p, s)
  BY <1>2, <1>3, <1>4 DEF View, Same
<1>5. CASE \E n \in Calls[p] : CallFrame(g, p, s, n)
  <2>1. PICK n : CallFrame(g, p, s, n)  BY <1>5
  <2>2. StageOf(p) = StageOf(p)' /\ RegOf(p) = RegOf(p)' /\ OwnOf(p) = OwnOf(p)'
    BY <1>2, <1>3, <2>1 DEF View
  <2> QED  BY <2>2 DEF Same
<1> QED  BY <1>4, <1>5 DEF s, g

\* Nobody else notices a step of the running process.
LEMMA OthersSame ==
  ASSUME FullInv, FullInv', Next, idx' = idx, at # "sched_start", at' # "sched_start",
         savedSP' = savedSP
  PROVE  \A p \in Procs : p # idx => Same(p)
<1> SUFFICES ASSUME NEW p \in Procs, p # idx PROVE Same(p)  OBVIOUS
<1>1. ~ Alone(p) /\ ~ Alone(p)'  BY DEF Alone
<1>2. CallStage(p)' = CallStage(p)  BY DEF CallStage, BeingServed
<1>3. FrameSP(p) = savedSP[p] /\ FrameSP(p)' = FrameSP(p)  BY DEF FrameSP
<1>4. PageOf(p)' = PageOf(p)  BY PagesKept DEF PageOf
<1>5. abi'[StackPage(p)] = abi[StackPage(p)]  BY AbiKept
<1>6. Ready(PageOf(p), p, savedSP[p])  BY DEF FullInv, FrameInv, Suspension
<1>7. \/ FirstFrame(PageOf(p), p, FrameSP(p))
      \/ \E n \in Calls[p] : CallFrame(PageOf(p), p, FrameSP(p), n)
  BY <1>3, <1>6 DEF Ready
<1> QED  BY <1>1, <1>2, <1>3, <1>4, <1>5, <1>7, WaitsSame

LEMMA UserTurn ==
  ASSUME FullInv, FullInv', Next, UserStep, NEW st, NEW r, NEW o, Becomes(st, r, o)
  PROVE  /\ Turn(st, r, o, abi'[StackPage(idx)])
         /\ idx \in Procs /\ idx' = idx /\ rx' = rx /\ io' = io
<1>1. /\ at = "user" /\ idx' = idx /\ at # "sched_start" /\ at' # "sched_start"
      /\ idx \in Procs
  BY UserStepSched, Here DEF Undisturbed, FullInv, TypeInv
<1>2. savedSP' = savedSP /\ rx' = rx  BY UserStepTypes DEF RestKept, FullInv
<1>3. io' = io
  BY DEF UserStep, Start, Compute, Push, Pull, MainReturns, Forever, StubReturn, Brk, CallStub,
         UserKeeps, vars
<1>4. \A p \in Procs : p # idx => Same(p)  BY <1>1, <1>2, OthersSame
<1>5. Turn(st, r, o, abi'[StackPage(idx)])  BY <1>1, <1>4, TurnIs
<1> QED  BY <1>1, <1>2, <1>3, <1>5

LEMMA StartRefines ==
  ASSUME FullInv, FullInv', Next, Start PROVE Abstract!Start
<1>1. /\ pc' = <<idx, "main", 0>> /\ sp' = MainFrame /\ regs' = FirstReg
      /\ MainAt(stk'[StackPage(idx)], idx, MainFrame)
  BY StartEffect
<1>2. UserStep /\ UserAt("entry") /\ at' = "user" /\ abi' = abi /\ idx' = idx
  BY DEF UserStep, Start, UserAt, UserKeeps
<1>3. UserAt("main")'  BY <1>1, <1>2 DEF UserAt, Place
<1>4. View(idx, <<"new", 0>>, FirstReg, <<>>)  BY <1>2, RunningViews DEF RunningSeen
<1>5. View(idx, <<"run", 0>>, regs, OwnIn(PageOf(idx), sp))'
  BY <1>3, NextViews DEF RunningSeen
<1>6. OwnIn(PageOf(idx), sp)' = <<>>
  BY <1>1, <1>2, ReturnsToCrt0 DEF PageOf
<1>7. Turn(<<"run", 0>>, FirstReg, <<>>, abi'[StackPage(idx)]) /\ idx \in Procs
      /\ idx' = idx /\ rx' = rx /\ io' = io
  <2>1. Becomes(<<"run", 0>>, FirstReg, <<>>)  BY <1>1, <1>2, <1>5, <1>6 DEF View, Becomes
  <2> QED  BY <1>2, <2>1, UserTurn
<1>8. /\ Stages[idx] = <<"new", 0>> /\ Stages' = [Stages EXCEPT ![idx] = <<"run", 0>>]
      /\ RegsSeen' = RegsSeen /\ Owns' = Owns /\ Abis' = Abis
  BY <1>2, <1>4, <1>7, TurnKeeps, AtIdx DEF Turn, View
<1> QED  BY <1>7, <1>8 DEF Abstract!Start, Abstract!Put, Stages, RegsSeen, Owns, Abis

\* In main, before and after.
LEMMA MainToMain ==
  ASSUME FullInv, FullInv', Next, UserStep, UserAt("main"), at' = at,
         pc' = <<idx, "main", 0>>, abi' = abi
  PROVE  /\ Stages[idx] = <<"run", 0>> /\ Stages' = Stages
         /\ RegsSeen[idx] = regs /\ RegsSeen' = [RegsSeen EXCEPT ![idx] = regs']
         /\ Owns[idx] = OwnIn(PageOf(idx), sp)
         /\ Owns' = [Owns EXCEPT ![idx] = OwnIn(stk'[StackPage(idx)], sp')]
         /\ Abis' = Abis /\ idx' = idx /\ rx' = rx /\ io' = io
<1>1. View(idx, <<"run", 0>>, regs, OwnIn(PageOf(idx), sp))  BY RunningViews DEF RunningSeen
<1>2. at = "user" /\ UserAt("main")'  BY DEF UserAt, Place
<1>3. View(idx, <<"run", 0>>, regs, OwnIn(PageOf(idx), sp))'
  BY <1>2, NextViews DEF RunningSeen
<1>4. idx' = idx  BY UserStepSched DEF Undisturbed, FullInv, TypeInv
<1> DEFINE r == regs'
           o == OwnIn(stk'[StackPage(idx)], sp')
<1>5. Becomes(<<"run", 0>>, r, o)  BY <1>3, <1>4 DEF View, Becomes, PageOf
<1> HIDE DEF r, o
<1>6. Turn(<<"run", 0>>, r, o, abi'[StackPage(idx)]) /\ idx \in Procs
      /\ idx' = idx /\ rx' = rx /\ io' = io
  BY <1>5, UserTurn
<1>7. Stages' = Stages /\ Abis' = Abis  BY <1>1, <1>6, TurnKeeps DEF View
<1>8. /\ Stages[idx] = <<"run", 0>> /\ RegsSeen[idx] = regs
      /\ Owns[idx] = OwnIn(PageOf(idx), sp)
  BY <1>1, <1>6, AtIdx DEF View
<1> QED  BY <1>6, <1>7, <1>8 DEF Turn, r, o

LEMMA ComputeRefines ==
  ASSUME FullInv, FullInv', Next, Compute PROVE Abstract!Compute
<1>1. /\ UserStep /\ UserAt("main") /\ pc = <<idx, "main", 0>> /\ pc' = pc
      /\ at' = at /\ abi' = abi /\ stk' = stk /\ sp' = sp /\ regs' \in RegFiles[pc[1]]
  BY AtPlace DEF UserStep, Compute, UserKeeps
<1>2. /\ Stages[idx] = <<"run", 0>> /\ Stages' = Stages
      /\ RegsSeen' = [RegsSeen EXCEPT ![idx] = regs']
      /\ Owns[idx] = OwnIn(PageOf(idx), sp)
      /\ Owns' = [Owns EXCEPT ![idx] = OwnIn(stk'[StackPage(idx)], sp')]
      /\ Abis' = Abis /\ idx' = idx /\ rx' = rx /\ io' = io
  BY <1>1, MainToMain
<1>3. Owns' = Owns  BY <1>1, <1>2 DEF PageOf, Owns
<1>4. regs' \in RegFiles[idx]  BY <1>1
<1> QED
  BY <1>2, <1>3, <1>4 DEF Abstract!Compute, Abstract!Running, Abstract!Put, Stages, RegsSeen, Owns, Abis

LEMMA PushRefines ==
  ASSUME FullInv, FullInv', Next, Push PROVE Abstract!Push
<1>1. /\ pc = <<idx, "main", 0>> /\ MainAt(PageOf(idx), idx, sp)
      /\ OwnIn(stk'[StackPage(idx)], sp') = <<regs.a>> \o OwnIn(PageOf(idx), sp)
  BY PushEffect
<1>2. /\ UserStep /\ UserAt("main") /\ pc' = pc /\ at' = at /\ abi' = abi /\ regs' = regs
      /\ MainFrame - sp < MaxPush
  BY DEF UserStep, Push, Depth, UserKeeps
<1>3. /\ Stages[idx] = <<"run", 0>> /\ Stages' = Stages
      /\ RegsSeen[idx] = regs /\ RegsSeen' = [RegsSeen EXCEPT ![idx] = regs']
      /\ Owns[idx] = OwnIn(PageOf(idx), sp)
      /\ Owns' = [Owns EXCEPT ![idx] = OwnIn(stk'[StackPage(idx)], sp')]
      /\ Abis' = Abis /\ idx' = idx /\ rx' = rx /\ io' = io
  BY <1>1, <1>2, MainToMain
<1>4. RegsSeen' = RegsSeen  BY <1>2, <1>3 DEF RegsSeen
<1>5. Len(Owns[idx]) < MaxPush
  <2> DEFINE n == MainFrame - sp
             T == {ByteOf(PageOf(idx)[sp + k]) : k \in 1..n}
  <2>1. n \in Nat  BY <1>1, Geometry DEF MainAt
  <2>2. OwnIn(PageOf(idx), sp) = [k \in 1..n |-> ByteOf(PageOf(idx)[sp + k])]  BY DEF OwnIn
  <2> HIDE DEF n
  <2>3. Len(OwnIn(PageOf(idx), sp)) = n  BY <2>1, <2>2
  <2> QED  BY <1>2, <1>3, <2>3 DEF n
<1>6. Owns' = [Owns EXCEPT ![idx] = <<RegsSeen[idx].a>> \o Owns[idx]]  BY <1>1, <1>3
<1> QED
  BY <1>3, <1>4, <1>5, <1>6
  DEF Abstract!Push, Abstract!Running, Abstract!Put, Stages, RegsSeen, Owns, Abis

LEMMA PullRefines ==
  ASSUME FullInv, FullInv', Next, Pull PROVE Abstract!Pull
<1>1. /\ pc = <<idx, "main", 0>>
      /\ OwnIn(PageOf(idx), sp) # <<>>
      /\ regs' = [regs EXCEPT !.a = Head(OwnIn(PageOf(idx), sp))]
      /\ OwnIn(PageOf(idx), sp') = Tail(OwnIn(PageOf(idx), sp))
  BY PullEffect
<1>2. UserStep /\ UserAt("main") /\ pc' = pc /\ at' = at /\ abi' = abi /\ stk' = stk
  BY DEF UserStep, Pull, UserKeeps
<1>3. /\ Stages[idx] = <<"run", 0>> /\ Stages' = Stages
      /\ RegsSeen[idx] = regs /\ RegsSeen' = [RegsSeen EXCEPT ![idx] = regs']
      /\ Owns[idx] = OwnIn(PageOf(idx), sp)
      /\ Owns' = [Owns EXCEPT ![idx] = OwnIn(stk'[StackPage(idx)], sp')]
      /\ Abis' = Abis /\ idx' = idx /\ rx' = rx /\ io' = io
  BY <1>1, <1>2, MainToMain
<1>4. Owns' = [Owns EXCEPT ![idx] = Tail(Owns[idx])] /\ Owns[idx] # <<>>
  BY <1>1, <1>2, <1>3 DEF PageOf
<1>5. RegsSeen' = [RegsSeen EXCEPT ![idx] = [RegsSeen[idx] EXCEPT !.a = Head(Owns[idx])]]
  BY <1>1, <1>3
<1> QED
  BY <1>3, <1>4, <1>5 DEF Abstract!Pull, Abstract!Running, Abstract!Put, Stages, RegsSeen, Owns, Abis

LEMMA EndRefines ==
  ASSUME FullInv, FullInv', Next, MainReturns PROVE Abstract!End
<1>1. /\ pc = <<idx, "main", 0>> /\ pc' = <<idx, "forever", 0>>
      /\ OwnIn(PageOf(idx), sp) = <<>>
  BY MainReturnsEffect
<1>2. UserStep /\ UserAt("main") /\ at' = "user" /\ abi' = abi /\ regs' = regs /\ MayEnd
      /\ idx' = idx
  BY DEF UserStep, MainReturns, UserKeeps, UserAt
<1>3. View(idx, <<"run", 0>>, regs, OwnIn(PageOf(idx), sp))  BY <1>2, RunningViews DEF RunningSeen
<1>4. UserAt("forever")'  BY <1>1, <1>2 DEF UserAt, Place
<1>5. View(idx, <<"ended", 0>>, regs, <<>>)'  BY <1>4, NextViews DEF RunningSeen
<1>6. Turn(<<"ended", 0>>, regs, <<>>, abi'[StackPage(idx)]) /\ idx \in Procs
      /\ idx' = idx /\ rx' = rx /\ io' = io
  <2>1. Becomes(<<"ended", 0>>, regs, <<>>)  BY <1>2, <1>5 DEF View, Becomes
  <2> QED  BY <1>2, <2>1, UserTurn
<1>7. /\ Stages[idx] = <<"run", 0>> /\ Stages' = [Stages EXCEPT ![idx] = <<"ended", 0>>]
      /\ RegsSeen' = RegsSeen /\ Owns' = Owns /\ Owns[idx] = <<>> /\ Abis' = Abis
  BY <1>1, <1>2, <1>3, <1>6, TurnKeeps, AtIdx DEF Turn, View
<1> QED
  BY <1>2, <1>6, <1>7 DEF Abstract!End, Abstract!Running, Abstract!Put, Stages, RegsSeen, Owns, Abis

LEMMA RegsAreRead ==
  ASSUME NEW g, NEW s, NEW r \in Registers, RegBytes(g, s) = <<r.y, r.x, r.a>>
  PROVE  RegsIn(g, s, r.c) = r
<1>1. PICK a, x, y, c : r = [a |-> a, x |-> x, y |-> y, c |-> c]  BY DEF Registers
<1>2. RegBytes(g, s)[1] = y /\ RegBytes(g, s)[2] = x /\ RegBytes(g, s)[3] = a /\ r.c = c
  BY <1>1
<1> QED  BY <1>1, <1>2 DEF RegsIn

\* A call's argument, in the concrete order and in the abstract one.
LEMMA BlockArgs ==
  ASSUME NEW b \in AbiBlocks, NEW l, NEW v
  PROVE  [b EXCEPT !.arg1 = v, !.arg0 = l] = [b EXCEPT !.arg0 = l, !.arg1 = v]
BY DEF AbiBlocks

\* What a stub does with registers r and syscall block b, and what becomes
\* of them.
StubArgs(n, r, b, r2, b2) ==
  \/ n \in {5, 6} /\ \E l \in Lbas : /\ b2 = [b EXCEPT !.arg1 = r.a, !.arg0 = l]
                                   /\ r2 = [r EXCEPT !.a = l, !.x = 0, !.y = 1]
  \/ n = 4 /\ b2 = [b EXCEPT !.arg0 = r.a] /\ r2 = r
  \/ n \in {1, 2} /\ b2 = [b EXCEPT !.areg = r.a] /\ r2 = r
  \/ n \notin {1, 2, 4, 5, 6} /\ b2 = b /\ r2 = r

LEMMA CallStubArgs ==
  ASSUME FullInv, NEW n \in AllCalls, CallStub(n)
  PROVE  StubArgs(n, regs, abi[StackPage(idx)], regs', abi'[StackPage(idx)])
<1>1. UserPage = StackPage(idx) /\ StackPage(idx) \in StackPages
  BY Here DEF CallStub, UserAt
<1>2. DOMAIN abi = StackPages  BY DEF FullInv, TypeInv, TypeOK
<1>3. \A block : StoreArgs(block) => abi'[StackPage(idx)] = block
  BY <1>1, <1>2 DEF StoreArgs
<1>4. CASE n \in {5, 6} /\ \E l \in Lbas :
             /\ StoreArgs([abi[UserPage] EXCEPT !.arg1 = regs.a, !.arg0 = l])
             /\ regs' = [regs EXCEPT !.a = l, !.x = 0, !.y = 1]
  BY <1>1, <1>3, <1>4 DEF StubArgs
<1>5. CASE n = 4 /\ StoreArgs([abi[UserPage] EXCEPT !.arg0 = regs.a]) /\ regs' = regs
  BY <1>1, <1>3, <1>5 DEF StubArgs
<1>6. CASE n \in {1, 2} /\ StoreArgs([abi[UserPage] EXCEPT !.areg = regs.a]) /\ regs' = regs
  BY <1>1, <1>3, <1>6 DEF StubArgs
<1>7. CASE n \notin {1, 2, 4, 5, 6} /\ abi' = abi /\ regs' = regs
  BY <1>7 DEF StubArgs
<1> QED  BY <1>4, <1>5, <1>6, <1>7 DEF CallStub

LEMMA CallRefines ==
  ASSUME FullInv, FullInv', Next, NEW n \in AllCalls, CallStub(n)
  PROVE  n \in Calls[idx] /\ Abstract!Call(n)
<1>1. /\ n \in Calls[idx] /\ pc = <<idx, "main", 0>> /\ pc' = <<idx, "brk", n>>
      /\ MainAt(PageOf(idx), idx, sp) /\ sp' = sp - 5
      /\ OwnIn(stk'[StackPage(idx)], sp) = OwnIn(PageOf(idx), sp)
      /\ RegBytes(stk'[StackPage(idx)], sp') = <<regs'.y, regs'.x, regs'.a>>
  BY CallStubEffect
<1>2. /\ UserStep /\ UserAt("main") /\ at' = "user" /\ idx' = idx
      /\ n \in {4, 5, 6} => regs.a \in Args
  BY DEF UserStep, CallStub, UserKeeps, UserAt
<1>3. View(idx, <<"run", 0>>, regs, OwnIn(PageOf(idx), sp))  BY <1>2, RunningViews DEF RunningSeen
<1>4. UserAt("brk")' /\ pc'[3] = n  BY <1>1, <1>2 DEF UserAt, Place
<1>5. View(idx, <<"call", pc[3]>>, RegsIn(PageOf(idx), sp, regs.c), OwnIn(PageOf(idx), sp + 5))'
  BY <1>4, NextViews DEF RunningSeen
<1>6. Becomes(<<"call", n>>, regs', OwnIn(PageOf(idx), sp))
  <2>1. regs' \in Registers  BY DEF FullInv, TypeInv, TypeOK
  <2>2. RegsIn(stk'[StackPage(idx)], sp', regs'.c) = regs'  BY <1>1, <2>1, RegsAreRead
  <2>3. sp' + 5 = sp  BY <1>1, Here
  <2>4. PageOf(idx)' = stk'[StackPage(idx)]  BY <1>2 DEF PageOf
  <2> QED  BY <1>1, <1>2, <1>4, <1>5, <2>2, <2>3, <2>4 DEF View, Becomes
<1>7. Turn(<<"call", n>>, regs', OwnIn(PageOf(idx), sp), abi'[StackPage(idx)])
      /\ idx \in Procs /\ rx' = rx /\ io' = io
  BY <1>2, <1>6, UserTurn
<1>8. /\ Stages[idx] = <<"run", 0>> /\ RegsSeen[idx] = regs /\ Abis[idx] = abi[StackPage(idx)]
      /\ Stages' = [Stages EXCEPT ![idx] = <<"call", n>>] /\ Owns' = Owns
      /\ RegsSeen' = [RegsSeen EXCEPT ![idx] = regs']
      /\ Abis' = [Abis EXCEPT ![idx] = abi'[StackPage(idx)]]
  BY <1>3, <1>7, TurnKeeps, AtIdx DEF Turn, View
<1>9. regs' = regs => RegsSeen' = RegsSeen
  BY <1>3, <1>7, TurnKeeps DEF View
<1>10. abi'[StackPage(idx)] = abi[StackPage(idx)] => Abis' = Abis
  BY <1>7, TurnKeeps
<1>11. abi[StackPage(idx)] \in AbiBlocks
  BY Here DEF FullInv, TypeInv, TypeOK
<1> DEFINE Args2 == \/ /\ n \in {5, 6}
                       /\ \E l \in Lbas :
                            /\ Abis' = [Abis EXCEPT ![idx] = [Abis[idx] EXCEPT !.arg0 = l, !.arg1 = RegsSeen[idx].a]]
                            /\ RegsSeen' = [RegsSeen EXCEPT ![idx] = [RegsSeen[idx] EXCEPT !.a = l, !.x = 0, !.y = 1]]
                    \/ /\ n = 4
                       /\ Abis' = [Abis EXCEPT ![idx] = [Abis[idx] EXCEPT !.arg0 = RegsSeen[idx].a]]
                       /\ RegsSeen' = RegsSeen
                    \/ /\ n \in {1, 2}
                       /\ Abis' = [Abis EXCEPT ![idx] = [Abis[idx] EXCEPT !.areg = RegsSeen[idx].a]]
                       /\ RegsSeen' = RegsSeen
                    \/ n \notin {1, 2, 4, 5, 6} /\ Abis' = Abis /\ RegsSeen' = RegsSeen
<1>12. Args2
  <2> DEFINE b == abi[StackPage(idx)]
  <2>1. StubArgs(n, regs, b, regs', abi'[StackPage(idx)])  BY CallStubArgs
  <2>2. b \in AbiBlocks /\ Abis[idx] = b  BY <1>8, <1>11
  <2> HIDE DEF b
  <2>3. CASE n \in {5, 6} /\ \E l \in Lbas : /\ abi'[StackPage(idx)] = [b EXCEPT !.arg1 = regs.a, !.arg0 = l]
                                          /\ regs' = [regs EXCEPT !.a = l, !.x = 0, !.y = 1]
    <3>1. PICK l \in Lbas : /\ abi'[StackPage(idx)] = [b EXCEPT !.arg1 = regs.a, !.arg0 = l]
                            /\ regs' = [regs EXCEPT !.a = l, !.x = 0, !.y = 1]
      BY <2>3
    <3> DEFINE b2 == [b EXCEPT !.arg0 = l, !.arg1 = regs.a]
               r2 == [regs EXCEPT !.a = l, !.x = 0, !.y = 1]
    <3>2. abi'[StackPage(idx)] = b2  BY <2>2, <3>1, BlockArgs
    <3>3. regs' = r2  BY <3>1
    <3>4. b2 = [Abis[idx] EXCEPT !.arg0 = l, !.arg1 = RegsSeen[idx].a]  BY <1>8, <2>2
    <3>5. r2 = [RegsSeen[idx] EXCEPT !.a = l, !.x = 0, !.y = 1]  BY <1>8
    <3> HIDE DEF b2, r2
    <3>6. Abis' = [Abis EXCEPT ![idx] = b2] /\ RegsSeen' = [RegsSeen EXCEPT ![idx] = r2]
      BY <1>8, <3>2, <3>3
    <3>7. /\ Abis' = [Abis EXCEPT ![idx] = [Abis[idx] EXCEPT !.arg0 = l, !.arg1 = RegsSeen[idx].a]]
          /\ RegsSeen' = [RegsSeen EXCEPT ![idx] = [RegsSeen[idx] EXCEPT !.a = l, !.x = 0, !.y = 1]]
      BY <3>4, <3>5, <3>6, Zenon
    <3> QED  BY <2>3, <3>7, Zenon
  <2>4. CASE n = 4 /\ abi'[StackPage(idx)] = [b EXCEPT !.arg0 = regs.a] /\ regs' = regs
    BY <1>8, <1>9, <2>2, <2>4, Zenon
  <2>5. CASE n \in {1, 2} /\ abi'[StackPage(idx)] = [b EXCEPT !.areg = regs.a] /\ regs' = regs
    BY <1>8, <1>9, <2>2, <2>5, Zenon
  <2>6. CASE n \notin {1, 2, 4, 5, 6} /\ abi'[StackPage(idx)] = b /\ regs' = regs
    BY <1>9, <1>10, <2>6, Zenon DEF b
  <2> QED  BY <2>1, <2>3, <2>4, <2>5, <2>6 DEF StubArgs
<1>13. /\ Stages[idx] = <<"run", 0>> /\ (n \in {4, 5, 6} => RegsSeen[idx].a \in Args)
  BY <1>2, <1>8
<1>14. Abstract!Call(n)
  BY <1>2, <1>7, <1>8, <1>12, <1>13
  DEF Abstract!Call, Abstract!Running, Abstract!Put, Stages, RegsSeen, Owns, Abis
<1> QED  BY <1>1, <1>14

\* What the stub of call n makes of the registers r it pulled.
Result(n, r, b) ==
  IF n = 3 THEN [r EXCEPT !.a = b.areg]
  ELSE IF n \in {5, 6} THEN [r EXCEPT !.a = b.ret, !.x = 0]
  ELSE r

LEMMA ReturnRefines ==
  ASSUME FullInv, FullInv', Next, StubReturn PROVE Abstract!Return
<1> DEFINE old == RegsIn(PageOf(idx), sp, regs.c)
           b == abi[StackPage(idx)]
<1>1. PICK n \in Calls[idx] :
        /\ pc = <<idx, "resume", n>> /\ pc' = <<idx, "main", 0>> /\ sp' = sp + 5
        /\ regs' = Result(n, old, b)
  <2>1. UserPage = StackPage(idx)  BY Here DEF StubReturn, UserAt
  <2> QED  BY <2>1, StubReturnEffect DEF Result
<1>2. UserStep /\ UserAt("resume") /\ at' = "user" /\ idx' = idx /\ abi' = abi /\ stk' = stk
  BY DEF UserStep, StubReturn, UserKeeps, UserAt
<1>3. View(idx, <<"done", n>>, old, OwnIn(PageOf(idx), sp + 5))
  BY <1>1, <1>2, RunningViews DEF RunningSeen
<1>4. UserAt("main")'  BY <1>1, <1>2 DEF UserAt, Place
<1>5. View(idx, <<"run", 0>>, regs, OwnIn(PageOf(idx), sp))'  BY <1>4, NextViews DEF RunningSeen
<1>6. Becomes(<<"run", 0>>, regs', OwnIn(PageOf(idx), sp + 5))
  BY <1>1, <1>2, <1>5 DEF View, Becomes, PageOf
<1>7. Turn(<<"run", 0>>, regs', OwnIn(PageOf(idx), sp + 5), abi'[StackPage(idx)])
      /\ idx \in Procs /\ rx' = rx /\ io' = io
  BY <1>2, <1>6, UserTurn
<1>8. /\ Stages[idx] = <<"done", n>> /\ RegsSeen[idx] = old /\ Abis[idx] = b
      /\ Stages' = [Stages EXCEPT ![idx] = <<"run", 0>>] /\ Owns' = Owns /\ Abis' = Abis
      /\ RegsSeen' = [RegsSeen EXCEPT ![idx] = regs']
  BY <1>2, <1>3, <1>7, TurnKeeps, AtIdx DEF Turn, View
<1>9. Stages[idx][1] = "done" /\ Stages[idx][2] = n  BY <1>8
<1>10. RegsSeen' = [RegsSeen EXCEPT ![idx] = Result(Stages[idx][2], RegsSeen[idx], Abis[idx])]
  BY <1>1, <1>8, <1>9, Zenon
<1> HIDE DEF old, b
<1> QED
  BY <1>2, <1>7, <1>8, <1>9, <1>10
  DEF Abstract!Return, Abstract!Put, Result, Stages, RegsSeen, Owns, Abis

\* A step that programs do not notice.
Unnoticed ==
  /\ Stages' = Stages /\ RegsSeen' = RegsSeen /\ Owns' = Owns /\ Abis' = Abis
  /\ idx' = idx /\ rx' = rx /\ io' = io

LEMMA UnnoticedStutters == Unnoticed => UNCHANGED Abstract!vars
BY DEF Unnoticed, Abstract!vars, Stages, RegsSeen, Owns, Abis

LEMMA AllSame ==
  ASSUME \A p \in Procs : Same(p), idx' = idx, rx' = rx, io' = io
  PROVE  Unnoticed
<1>1. Stages' = Stages  BY DEF Stages, Same
<1>2. RegsSeen' = RegsSeen  BY DEF RegsSeen, Same
<1>3. Owns' = Owns  BY DEF Owns, Same
<1>4. Abis' = Abis  BY DEF Abis, Same
<1> QED  BY <1>1, <1>2, <1>3, <1>4 DEF Unnoticed

\* BRK changes where the context is, not what it is.
LEMMA BrkRefines ==
  ASSUME FullInv, FullInv', Next, Brk PROVE Unnoticed
<1>1. PICK n \in Calls[idx] :
        /\ pc = <<idx, "brk", n>> /\ sp' = sp - 3
        /\ CallFrame(stk'[StackPage(idx)], idx, sp', n)
        /\ OwnIn(stk'[StackPage(idx)], sp + 5) = OwnIn(PageOf(idx), sp + 5)
        /\ RegBytes(stk'[StackPage(idx)], sp) = RegBytes(PageOf(idx), sp)
        /\ CarryOf(stk'[StackPage(idx)][sp - 2]) = regs.c
  BY BrkEffect
<1> DEFINE h == stk'[StackPage(idx)]
<1>2. UserStep /\ UserAt("brk") /\ at' = "brk_handler" /\ abi' = abi
  BY DEF UserStep, Brk
<1>3. idx \in Procs /\ sp \in Int /\ sp - 3 + 3 = sp /\ sp - 3 + 8 = sp + 5 /\ sp - 3 + 1 = sp - 2
  BY Here
<1>4. idx' = idx /\ at = "user"  BY <1>2, UserStepSched DEF Undisturbed, FullInv, TypeInv
<1>5. View(idx, <<"call", n>>, RegsIn(PageOf(idx), sp, regs.c), OwnIn(PageOf(idx), sp + 5))
  BY <1>1, <1>2, RunningViews DEF RunningSeen
<1>6. /\ ~ Alone(idx)' /\ FrameSP(idx)' = sp - 3 /\ CallStage(idx)' = "call" /\ PageOf(idx)' = h
  BY <1>1, <1>2, <1>4 DEF Alone, FrameSP, CallStage, BeingServed, PageOf
<1>7. Becomes(<<"call", n>>, RegsIn(h, sp, CarryOf(h[sp - 2])), OwnIn(h, sp + 5))
  <2> HIDE DEF h
  <2>1. CallFrame(h, idx, sp - 3, n)  BY <1>1 DEF h
  <2>2. WaitingSeen'  BY NextViews
  <2>3. View(idx, <<CallStage(idx), n>>,
             RegsIn(PageOf(idx), FrameSP(idx) + 3, CarryOf(PageOf(idx)[FrameSP(idx) + 1])),
             OwnIn(PageOf(idx), FrameSP(idx) + 8))'
    BY <1>3, <1>4, <1>6, <2>1, <2>2 DEF WaitingSeen
  <2> QED  BY <1>3, <1>4, <1>6, <2>3 DEF View, Becomes
<1>8. RegsIn(h, sp, CarryOf(h[sp - 2])) = RegsIn(PageOf(idx), sp, regs.c)
  BY <1>1 DEF RegsIn
<1>9. Becomes(<<"call", n>>, RegsIn(PageOf(idx), sp, regs.c), OwnIn(PageOf(idx), sp + 5))
  BY <1>1, <1>7, <1>8
<1>10. Turn(<<"call", n>>, RegsIn(PageOf(idx), sp, regs.c), OwnIn(PageOf(idx), sp + 5),
           abi'[StackPage(idx)]) /\ rx' = rx /\ io' = io
  BY <1>2, <1>9, UserTurn
<1> QED  BY <1>2, <1>3, <1>4, <1>5, <1>10, TurnKeeps DEF View, Unnoticed

LEMMA AllUnchanged == UNCHANGED vars => Unnoticed
<1> SUFFICES ASSUME UNCHANGED vars PROVE Unnoticed  OBVIOUS
<1>1. UNCHANGED <<at, pc, regs, sp, stk, abi, savedSP, idx, rx, io>>  BY DEF vars
<1>2. \A p \in Procs : Same(p)
  BY <1>1
  DEF Same, StageOf, StageAt, RegOf, OwnOf, InStub, StubSP, Position, BeingServed, Alone, FrameSP,
      CellOf
<1> QED  BY <1>1, <1>2, AllSame

LEMMA TypeRefines ==
  ASSUME KeyArrives PROVE Abstract!Type
<1>1. UNCHANGED <<at, pc, regs, sp, stk, abi, savedSP, idx, io>> /\ rx = NoKey /\ rx' \in Keys
  BY DEF KeyArrives
<1>2. \A p \in Procs : Same(p)
  BY <1>1
  DEF Same, StageOf, StageAt, RegOf, OwnOf, InStub, StubSP, Position, BeingServed, Alone, FrameSP,
      CellOf
<1>3. Stages' = Stages /\ RegsSeen' = RegsSeen /\ Owns' = Owns /\ Abis' = Abis
  BY <1>2 DEF Stages, RegsSeen, Owns, Abis, Same
<1> QED  BY <1>1, <1>3 DEF Abstract!Type, Stages, RegsSeen, Owns, Abis

----------------------------------------------------------------------------
(* The kernel's steps, as programs see them.                               *)

LEMMA BrkHandlerRefines ==
  ASSUME FullInv, FullInv', Next, BrkHandler PROVE Unnoticed
<1>1. PICK n \in Calls[idx] :
        CallFrame(PageOf(idx), idx, sp, n) /\ at' = IF n = 0 THEN "do_yield" ELSE "syscall"
  BY BrkHandlerEffect
<1>2. /\ at = "brk_handler" /\ at' \in {"do_yield", "syscall"}
      /\ UNCHANGED <<sp, stk, abi, savedSP, idx, rx, io>>
  BY <1>1 DEF BrkHandler
<1>3. \A p \in Procs : p # idx => Same(p)  BY <1>2, OthersSame
<1>4. idx \in Procs  BY Here
<1>5. /\ ~ Alone(idx) /\ ~ Alone(idx)' /\ FrameSP(idx) = sp /\ FrameSP(idx)' = FrameSP(idx)
      /\ CallStage(idx)' = CallStage(idx) /\ PageOf(idx)' = PageOf(idx)
      /\ abi'[StackPage(idx)] = abi[StackPage(idx)]
  BY <1>2 DEF Alone, FrameSP, CallStage, BeingServed, PageOf
<1>6. \E m \in Calls[idx] : CallFrame(PageOf(idx), idx, FrameSP(idx), m)  BY <1>1, <1>5
<1>7. Same(idx)
  <2>1. ASSUME NEW q \in Procs, q = idx PROVE Same(q)
    <3>1. /\ ~ Alone(q) /\ ~ Alone(q)' /\ FrameSP(q)' = FrameSP(q)
          /\ CallStage(q)' = CallStage(q) /\ PageOf(q)' = PageOf(q)
          /\ abi'[StackPage(q)] = abi[StackPage(q)]
      BY <1>2, <2>1 DEF Alone, FrameSP, CallStage, BeingServed, PageOf
    <3>2. \E m \in Calls[q] : CallFrame(PageOf(q), q, FrameSP(q), m)  BY <1>6, <2>1
    <3> QED  BY <3>1, <3>2, WaitsSame
  <2> QED  BY <1>2, <1>4, <2>1 DEF Same
<1> QED  BY <1>2, <1>3, <1>7, AllSame

LEMMA RetUserModeRefines ==
  ASSUME FullInv, FullInv', Next, RetUserMode PROVE Unnoticed
<1>1. /\ at = "ret_user_mode" /\ at' = "user" /\ idx \in Procs /\ sp \in Int
      /\ UNCHANGED <<stk, abi, savedSP, idx, rx, io>>
  BY Here DEF RetUserMode
<1>2. \A p \in Procs : p # idx => Same(p)  BY <1>1, OthersSame
<1>3. ~ Alone(idx) /\ FrameSP(idx) = sp /\ CallStage(idx) = "done" /\ PageOf(idx)' = PageOf(idx)
  BY <1>1 DEF Alone, FrameSP, CallStage, BeingServed, PageOf
<1> DEFINE g == PageOf(idx)
<1>4. /\ FirstFrame(g, idx, sp) => View(idx, <<"new", 0>>, FirstReg, <<>>)
      /\ \A n : CallFrame(g, idx, sp, n)
                => View(idx, <<"done", n>>, RegsIn(g, sp + 3, CarryOf(g[sp + 1])), OwnIn(g, sp + 8))
  BY <1>1, <1>3, WaitingViews DEF WaitingSeen
<1>5. Same(idx)
  <2>1. CASE FirstFrame(g, idx, sp) /\ pc' = <<idx, "entry", 0>>
    <3>1. UserAt("entry")'  BY <1>1, <2>1 DEF UserAt, Place
    <3>2. View(idx, <<"new", 0>>, FirstReg, <<>>)'  BY <3>1, NextViews DEF RunningSeen
    <3>3. Becomes(<<"new", 0>>, FirstReg, <<>>)  BY <1>1, <3>2 DEF View, Becomes
    <3> QED  BY <1>1, <1>4, <2>1, <3>3 DEF View, Becomes, Same
  <2>2. ASSUME NEW n, CallFrame(g, idx, sp, n), pc' = <<idx, "resume", n>>, sp' = sp + 3,
               regs'.c = CarryOf(g[sp + 1])
        PROVE  Same(idx)
    <3>1. UserAt("resume")' /\ pc'[3] = n  BY <1>1, <2>2 DEF UserAt, Place
    <3>2. View(idx, <<"done", pc[3]>>, RegsIn(PageOf(idx), sp, regs.c), OwnIn(PageOf(idx), sp + 5))'
      BY <3>1, NextViews DEF RunningSeen
    <3>3. sp + 3 + 5 = sp + 8  BY <1>1
    <3> DEFINE carry == regs'.c
    <3>4. Becomes(<<"done", n>>, RegsIn(g, sp + 3, carry), OwnIn(g, sp + 8))
      BY <1>1, <1>3, <2>2, <3>1, <3>2, <3>3 DEF View, Becomes
    <3>5. carry = CarryOf(g[sp + 1])  BY <2>2
    <3> HIDE DEF carry
    <3>6. View(idx, <<"done", n>>, RegsIn(g, sp + 3, carry), OwnIn(g, sp + 8))
      BY <1>4, <2>2, <3>5
    <3> QED  BY <1>1, <3>4, <3>6 DEF View, Becomes, Same
  <2> QED  BY <2>1, <2>2, RetUserModeEffect
<1> QED  BY <1>1, <1>2, <1>5, AllSame

LEMMA SchedStartRefines ==
  ASSUME FullInv, FullInv', Next, SchedStart PROVE Unnoticed
<1>1. /\ idx' = 0 /\ sp' = savedSP[0] /\ savedSP' = savedSP /\ at = "sched_start"
      /\ at' = "ret_user_mode"
      /\ \A p \in Procs : stk'[StackPage(p)] = PageOf(p) /\ Ready(PageOf(p), p, savedSP[p])
  BY SchedStartEffect
<1>2. idx = 0 /\ rx' = rx /\ io' = io /\ abi' = abi
  BY <1>1 DEF FullInv, TypeInv, SchedInv, SchedStart
<1>3. ASSUME NEW p \in Procs PROVE Same(p)
  <2>1. ~ Alone(p) /\ ~ Alone(p)'  BY <1>1 DEF Alone
  <2>2. CallStage(p)' = CallStage(p)  BY <1>1 DEF CallStage, BeingServed
  <2>3. FrameSP(p) = savedSP[p] /\ FrameSP(p)' = FrameSP(p)  BY <1>1 DEF FrameSP
  <2>4. PageOf(p)' = PageOf(p)  BY <1>1 DEF PageOf
  <2>5. \/ FirstFrame(PageOf(p), p, FrameSP(p))
        \/ \E n \in Calls[p] : CallFrame(PageOf(p), p, FrameSP(p), n)
    BY <1>1, <2>3 DEF Ready
  <2> QED  BY <1>2, <2>1, <2>2, <2>3, <2>4, <2>5, WaitsSame
<1> QED  BY <1>1, <1>2, <1>3, AllSame

LEMMA YieldRefines ==
  ASSUME FullInv, FullInv', Next, DoYield PROVE Abstract!Yield
<1>1. /\ idx' = (idx + 1) % NProcs /\ idx' \in Procs /\ sp' = savedSP'[idx']
      /\ savedSP' = [savedSP EXCEPT ![idx] = sp] /\ savedSP'[idx] = sp
      /\ at' = "ret_user_mode" /\ CallFrame(PageOf(idx), idx, sp, 0)
      /\ \A p \in Procs : stk'[StackPage(p)] = PageOf(p) /\ Ready(PageOf(p), p, savedSP'[p])
  BY DoYieldEffect
<1>2. at = "do_yield" /\ rx' = rx /\ io' = io /\ abi' = abi /\ idx \in Procs /\ sp \in Int
  BY Here DEF DoYield
<1>3. /\ \A p : ~ Alone(p) /\ ~ Alone(p)'
      /\ \A p \in Procs : FrameSP(p) = savedSP'[p] /\ FrameSP(p)' = savedSP'[p]
      /\ \A p \in Procs : PageOf(p)' = PageOf(p)
      /\ \A p : CallStage(p)' = "done"
      /\ \A p : p # idx => CallStage(p) = "done"
      /\ CallStage(idx) = "call"
  <2>1. \A p \in Procs : p # idx => savedSP'[p] = savedSP[p]
    BY <1>1, <1>2 DEF FullInv, TypeInv, TypeOK
  <2>2. \A p : ~ Alone(p) /\ ~ Alone(p)'  BY <1>1, <1>2 DEF Alone
  <2>3. \A p \in Procs : FrameSP(p) = savedSP'[p] /\ FrameSP(p)' = savedSP'[p]
    BY <1>1, <1>2, <2>1 DEF FrameSP
  <2>4. \A p \in Procs : PageOf(p)' = PageOf(p)  BY <1>1 DEF PageOf
  <2>5. /\ \A p : CallStage(p)' = "done"
        /\ \A p : p # idx => CallStage(p) = "done"
        /\ CallStage(idx) = "call"
    BY <1>1, <1>2 DEF CallStage, BeingServed
  <2> QED  BY <2>2, <2>3, <2>4, <2>5
<1>4. ASSUME NEW p \in Procs, p # idx PROVE Same(p)
  <2>1. FrameSP(p)' = FrameSP(p) /\ CallStage(p)' = CallStage(p)  BY <1>3, <1>4
  <2>2. \/ FirstFrame(PageOf(p), p, FrameSP(p))
        \/ \E n \in Calls[p] : CallFrame(PageOf(p), p, FrameSP(p), n)
    BY <1>1, <1>3 DEF Ready
  <2> QED  BY <1>2, <1>3, <2>1, <2>2, WaitsSame
<1> DEFINE g == PageOf(idx)
           r == RegsIn(g, sp + 3, CarryOf(g[sp + 1]))
           o == OwnIn(g, sp + 8)
<1>5. View(idx, <<"call", 0>>, r, o)
  BY <1>1, <1>2, <1>3, WaitingViews DEF WaitingSeen
<1>6. ASSUME NEW p \in Procs, p = idx
      PROVE  StageOf(p)' = <<"done", 0>> /\ RegOf(p)' = r /\ OwnOf(p)' = o
  <2>1. PageOf(p)' = g /\ FrameSP(p)' = sp /\ CallStage(p)' = "done" /\ ~ Alone(p)'
    BY <1>1, <1>3, <1>6
  <2>2. CallFrame(g, p, sp, 0)  BY <1>1, <1>6
  <2>3. WaitingSeen'  BY NextViews
  <2> HIDE DEF g
  <2>4. View(p, <<CallStage(p), 0>>, RegsIn(PageOf(p), FrameSP(p) + 3, CarryOf(PageOf(p)[FrameSP(p) + 1])),
             OwnIn(PageOf(p), FrameSP(p) + 8))'
    BY <2>1, <2>2, <2>3 DEF WaitingSeen
  <2> QED  BY <2>1, <2>4 DEF View
<1> HIDE DEF r, o
<1>7. /\ Stages[idx] = <<"call", 0>> /\ Stages' = [Stages EXCEPT ![idx] = <<"done", 0>>]
      /\ RegsSeen' = RegsSeen /\ Owns' = Owns /\ Abis' = Abis
  <2>1. Stages[idx] = <<"call", 0>>  BY <1>2, <1>5, AtIdx DEF View
  <2>2. \A p \in Procs : RegOf(p)' = RegOf(p) /\ OwnOf(p)' = OwnOf(p)
    BY <1>4, <1>5, <1>6 DEF View, Same
  <2>3. \A p \in Procs : StageOf(p)' = IF p = idx THEN <<"done", 0>> ELSE StageOf(p)
    BY <1>4, <1>6 DEF Same
  <2>4. RegsSeen' = RegsSeen /\ Owns' = Owns /\ Abis' = Abis
    BY <1>2, <2>2 DEF RegsSeen, Owns, Abis
  <2>5. Stages' = [Stages EXCEPT ![idx] = <<"done", 0>>]  BY <2>3 DEF Stages
  <2> QED  BY <2>1, <2>4, <2>5
<1> QED
  BY <1>1, <1>2, <1>7
  DEF Abstract!Yield, Abstract!Asking, Abstract!Served, Abstract!Put, Stages, RegsSeen, Owns, Abis

----------------------------------------------------------------------------
(* The services.                                                           *)

\* What every service does to what programs see: the caller's call is over,
\* or the caller is, and only the caller's syscall block has changed.
ServedAs(done) ==
  /\ Stages[idx] = <<"call", sysnum>> /\ Stages' = [Stages EXCEPT ![idx] = <<done, sysnum>>]
  /\ RegsSeen' = RegsSeen /\ Owns' = Owns
  /\ Abis' = [Abis EXCEPT ![idx] = abi'[StackPage(idx)]] /\ Abis[idx] = abi[StackPage(idx)]
  /\ sysnum \in Calls[idx] /\ sysnum # 0 /\ idx' = idx /\ ppn = Table[idx]
  /\ UserPage = StackPage(idx) /\ StackPage(idx) \in DOMAIN abi

LEMMA ServiceTurn ==
  ASSUME FullInv, FullInv', Next, Service, at = "syscall"
  PROVE  ServedAs(IF sysnum = 1 THEN "exited" ELSE "done")
<1> DEFINE g == PageOf(idx)
           over == IF sysnum = 1 THEN "exited" ELSE "done"
           r == RegsIn(g, sp + 3, CarryOf(g[sp + 1]))
           o == OwnIn(g, sp + 8)
<1>1. /\ UNCHANGED <<pc, sp, sysnum, savedSP, idx>> /\ PageOf(idx)' = g
      /\ sysnum \in Calls[idx] /\ sysnum # 0 /\ CallFrame(g, idx, sp, sysnum)
      /\ at' = IF sysnum = 1 THEN "spin" ELSE "ret_user_mode"
  <2>1. ~ UNCHANGED vars
    BY DEF Service, Spin, DoExit, DoPutc, DoGetc, DoPuts, DoBlock, DoGetcNb, DoEnosys, Done, vars
  <2> QED  BY <2>1, ServiceEffect DEF PageOf
<1>2. /\ idx \in Procs /\ sp \in Int /\ ppn = Table[idx] /\ UserPage = StackPage(idx)
      /\ StackPage(idx) \in StackPages
  BY Here
<1>3. \A p \in Procs : p # idx => Same(p)  BY <1>1, OthersSame
<1>4. /\ ~ Alone(idx) /\ FrameSP(idx) = sp /\ CallStage(idx) = "call"
  BY DEF Alone, FrameSP, CallStage, BeingServed
<1>5. View(idx, <<"call", sysnum>>, r, o)
  BY <1>1, <1>2, <1>4, WaitingViews DEF WaitingSeen
<1>6. ~ Alone(idx)' /\ FrameSP(idx)' = sp /\ CallStage(idx)' = over
  BY <1>1 DEF Alone, FrameSP, CallStage, BeingServed
<1>7. Becomes(<<over, sysnum>>, r, o)
  <2>1. CallFrame(g, idx, sp, sysnum) /\ idx' \in Procs /\ idx' = idx  BY <1>1, <1>2
  <2> HIDE DEF g, over
  <2>2. View(idx, <<CallStage(idx), sysnum>>,
             RegsIn(PageOf(idx), FrameSP(idx) + 3, CarryOf(PageOf(idx)[FrameSP(idx) + 1])),
             OwnIn(PageOf(idx), FrameSP(idx) + 8))'
    BY <1>1, <1>6, <2>1, NextViews DEF WaitingSeen
  <2> QED  BY <1>1, <1>6, <2>2 DEF View, Becomes
<1> HIDE DEF r, o, over
<1>8. Turn(<<over, sysnum>>, r, o, abi'[StackPage(idx)])  BY <1>1, <1>2, <1>3, <1>7, TurnIs
<1>9. Stages[idx] = <<"call", sysnum>> /\ RegsSeen' = RegsSeen /\ Owns' = Owns
  BY <1>2, <1>5, <1>8, TurnKeeps, AtIdx DEF View
<1>10. Abis[idx] = abi[StackPage(idx)] /\ DOMAIN abi = StackPages
  BY <1>2, AtIdx DEF FullInv, TypeInv, TypeOK
<1> QED  BY <1>1, <1>2, <1>8, <1>9, <1>10 DEF ServedAs, Turn, over

\* The syscall block the caller finds.
LEMMA Answered ==
  ASSUME NEW block, Answer(block), UserPage = StackPage(idx), StackPage(idx) \in DOMAIN abi
  PROVE  abi'[StackPage(idx)] = block
BY DEF Answer

\* A service that answers the caller's call with a block.
Answers(n, block) ==
  /\ Stages[idx] = <<"call", n>> /\ Stages' = [Stages EXCEPT ![idx] = <<"done", n>>]
  /\ RegsSeen' = RegsSeen /\ Owns' = Owns /\ idx' = idx
  /\ Abis' = [Abis EXCEPT ![idx] = block]

LEMMA ServiceAnswers ==
  ASSUME FullInv, FullInv', Next, Service, at = "syscall", sysnum # 1, NEW block, Answer(block)
  PROVE  /\ Answers(sysnum, block) /\ Block = Abis[idx] /\ ppn = Table[idx]
         /\ sysnum \in Calls[idx] /\ sysnum # 0
<1>1. ServedAs("done")  BY ServiceTurn
<1>2. abi'[StackPage(idx)] = block  BY <1>1, Answered DEF ServedAs
<1> QED  BY <1>1, <1>2 DEF ServedAs, Answers, Block

LEMMA ExitRefines ==
  ASSUME FullInv, FullInv', Next, DoExit PROVE Abstract!Exit
<1>1. Service /\ at = "syscall" /\ sysnum = 1 /\ abi' = abi /\ rx' = rx /\ io' = io
  BY DEF DoExit, Serving, Service
<1>2. ServedAs("exited")  BY <1>1, ServiceTurn
<1>3. Abis' = Abis  BY <1>1, <1>2 DEF ServedAs, Abis
<1> QED
  BY <1>1, <1>2, <1>3
  DEF ServedAs, Abstract!Exit, Abstract!Asking, Abstract!Put, Stages, RegsSeen, Owns, Abis

LEMMA PutcRefines ==
  ASSUME FullInv, FullInv', Next, DoPutc PROVE Abstract!Putc
<1> DEFINE block == [Block EXCEPT !.ret = 0]
<1>1. /\ Service /\ at = "syscall" /\ sysnum = 2 /\ sysnum # 1 /\ rx' = rx
      /\ Operation("putc", Block.areg, 0) /\ Answer(block)
  BY DEF DoPutc, Serving, Service
<1> HIDE DEF block
<1>2. Answers(2, block) /\ Block = Abis[idx]  BY <1>1, ServiceAnswers
<1> QED
  BY <1>1, <1>2
  DEF block, Answers, Operation, Abstract!Putc, Abstract!Asking, Abstract!Served, Abstract!Answer,
      Abstract!Operation, Abstract!Put, Stages, RegsSeen, Owns, Abis

LEMMA PutsRefines ==
  ASSUME FullInv, FullInv', Next, DoPuts PROVE Abstract!Puts
<1> DEFINE block == [Block EXCEPT !.ret = 0]
<1>1. /\ Service /\ at = "syscall" /\ sysnum = 4 /\ sysnum # 1 /\ rx' = rx
      /\ Operation("puts", 0, ppn[Block.arg0]) /\ Answer(block)
  BY DEF DoPuts, Serving, Service
<1> HIDE DEF block
<1>2. Answers(4, block) /\ Block = Abis[idx] /\ ppn = Table[idx]  BY <1>1, ServiceAnswers
<1> QED
  BY <1>1, <1>2
  DEF block, Answers, Operation, Abstract!Puts, Abstract!Asking, Abstract!Served, Abstract!Answer,
      Abstract!Operation, Abstract!Put, Stages, RegsSeen, Owns, Abis

LEMMA BlockRefines ==
  ASSUME FullInv, FullInv', Next, NEW n \in {5, 6}, DoBlock(n, IF n = 5 THEN "read" ELSE "write")
  PROVE  Abstract!Block(n)
<1> DEFINE op == IF n = 5 THEN "read" ELSE "write"
<1>1. /\ Service /\ at = "syscall" /\ sysnum = n /\ sysnum # 1 /\ rx' = rx
      /\ Operation(op, Block.arg0, ppn[Block.arg1])
  BY DEF DoBlock, Serving, Service
<1>2. PICK err \in {0, 1} : Answer([Block EXCEPT !.ret = err])  BY DEF DoBlock
<1> DEFINE block == [Block EXCEPT !.ret = err]
<1>3. Answer(block)  BY <1>2
<1> HIDE DEF block, op
<1>4. Answers(n, block) /\ Block = Abis[idx] /\ ppn = Table[idx]
  BY <1>1, <1>3, ServiceAnswers
<1>5. io' = [op |-> op, val |-> Abis[idx].arg0, page |-> Table[idx][Abis[idx].arg1]]
  BY <1>1, <1>4 DEF Operation
<1>6. Abis' = [Abis EXCEPT ![idx] = [Abis[idx] EXCEPT !.ret = err]] /\ err \in {0, 1}
  BY <1>2, <1>4 DEF block, Answers
<1> QED
  BY <1>1, <1>4, <1>5, <1>6
  DEF op, Answers, Abstract!Block, Abstract!Asking, Abstract!Served, Abstract!Answer,
      Abstract!Operation, Abstract!Put, Stages, RegsSeen, Owns, Abis

LEMMA GetcRefines ==
  ASSUME FullInv, FullInv', Next, DoGetc PROVE Abstract!Getc
<1> DEFINE block == [Block EXCEPT !.areg = rx, !.ret = 0]
<1>1. /\ Service /\ at = "syscall" /\ sysnum = 3 /\ sysnum # 1 /\ rx # NoKey /\ rx' = NoKey
      /\ io' = io /\ Answer(block)
  BY DEF DoGetc, Serving, Service
<1> HIDE DEF block
<1>2. Answers(3, block) /\ Block = Abis[idx]  BY <1>1, ServiceAnswers
<1> QED
  BY <1>1, <1>2
  DEF block, Answers, Abstract!Getc, Abstract!Asking, Abstract!Served, Abstract!Put,
      Stages, RegsSeen, Owns, Abis

LEMMA GetcNbRefines ==
  ASSUME FullInv, FullInv', Next, DoGetcNb PROVE Abstract!GetcNb
<1> DEFINE block == IF rx # NoKey THEN [Block EXCEPT !.areg = rx, !.ret = 0]
                                  ELSE [Block EXCEPT !.areg = 0, !.ret = 1]
<1>1. /\ Service /\ at = "syscall" /\ sysnum = 8 /\ sysnum # 1 /\ rx' = NoKey
      /\ io' = io /\ Answer(block)
  BY DEF DoGetcNb, Serving, Service
<1> HIDE DEF block
<1>2. Answers(8, block) /\ Block = Abis[idx]  BY <1>1, ServiceAnswers
<1>3. CASE rx # NoKey
  <2>1. block = [Abis[idx] EXCEPT !.areg = rx, !.ret = 0]  BY <1>2, <1>3 DEF block
  <2> QED
    BY <1>1, <1>2, <1>3, <2>1
    DEF Answers, Abstract!GetcNb, Abstract!Asking, Abstract!Served, Abstract!Put,
        Stages, RegsSeen, Owns, Abis
<1>4. CASE rx = NoKey
  <2>1. block = [Abis[idx] EXCEPT !.areg = 0, !.ret = 1]  BY <1>2, <1>4 DEF block
  <2> QED
    BY <1>1, <1>2, <1>4, <2>1
    DEF Answers, Abstract!GetcNb, Abstract!Asking, Abstract!Served, Abstract!Put,
        Stages, RegsSeen, Owns, Abis
<1> QED  BY <1>3, <1>4

LEMMA EnosysRefines ==
  ASSUME FullInv, FullInv', Next, DoEnosys
  PROVE  \E n \in Calls[idx] \ {0, 1, 2, 3, 4, 5, 6, 8} : Abstract!Enosys(n)
<1> DEFINE block == [Block EXCEPT !.ret = 255]
<1>1. /\ Service /\ at = "syscall" /\ sysnum \notin {1, 2, 3, 4, 5, 6, 8} /\ sysnum # 1
      /\ rx' = rx /\ io' = io /\ Answer(block)
  BY DEF DoEnosys, Serving, Service
<1> HIDE DEF block
<1>2. /\ Answers(sysnum, block) /\ Block = Abis[idx]
      /\ sysnum \in Calls[idx] /\ sysnum # 0
  BY <1>1, ServiceAnswers
<1>3. Abstract!Enosys(sysnum)
  BY <1>1, <1>2
  DEF block, Answers, Abstract!Enosys, Abstract!Asking, Abstract!Served, Abstract!Answer,
      Abstract!Put, Stages, RegsSeen, Owns, Abis
<1> QED  BY <1>1, <1>2, <1>3

----------------------------------------------------------------------------
(* The refinement.                                                         *)

LEMMA InitRefines == FullInv /\ Init => Abstract!Init
<1> SUFFICES ASSUME FullInv, Init PROVE Abstract!Init  OBVIOUS
<1>1. at = "sched_start" /\ idx = 0 /\ rx = NoKey /\ io = [op |-> "none", val |-> 0, page |-> 0]
  BY DEF Init
<1>2. ASSUME NEW p \in Procs PROVE View(p, <<"new", 0>>, FirstReg, <<>>)
  <2>1. ~ Alone(p) /\ FrameSP(p) = StackTop - 3  BY DEF Alone, FrameSP, Init
  <2>2. PageOf(p) = NewFrame(p)  BY FirstPages
  <2>3. FirstFrame(PageOf(p), p, FrameSP(p))  BY <2>1, <2>2, FirstFrames
  <2> QED  BY <2>1, <2>3, WaitingViews DEF WaitingSeen
<1>3. ASSUME NEW p \in Procs PROVE abi[StackPage(p)] = NewAbi
  BY PagesApart DEF Init
<1>4. /\ Stages = [p \in Procs |-> <<"new", 0>>] /\ RegsSeen = [p \in Procs |-> FirstReg]
      /\ Owns = [p \in Procs |-> <<>>] /\ Abis = [p \in Procs |-> NewAbi]
  BY <1>2, <1>3 DEF View, Stages, RegsSeen, Owns, Abis
<1> QED  BY <1>1, <1>4 DEF Abstract!Init, Abstract!Procs, Procs, Stages, RegsSeen, Owns, Abis

LEMMA UserRefines ==
  ASSUME FullInv, FullInv', Next, UserStep PROVE Abstract!Next \/ UNCHANGED Abstract!vars
<1>1. ASSUME NEW n \in AllCalls, CallStub(n) PROVE Abstract!Next
  <2>1. n \in Calls[idx] /\ Abstract!Call(n)  BY <1>1, CallRefines
  <2> QED  BY <2>1, Zenon DEF Abstract!Next
<1>2. Start => Abstract!Next  BY StartRefines DEF Abstract!Next
<1>3. Compute => Abstract!Next  BY ComputeRefines DEF Abstract!Next
<1>4. Push => Abstract!Next  BY PushRefines DEF Abstract!Next
<1>5. Pull => Abstract!Next  BY PullRefines DEF Abstract!Next
<1>6. MainReturns => Abstract!Next  BY EndRefines DEF Abstract!Next
<1>7. StubReturn => Abstract!Next  BY ReturnRefines DEF Abstract!Next
<1>8. Forever => UNCHANGED Abstract!vars  BY AllUnchanged, UnnoticedStutters DEF Forever
<1>9. Brk => UNCHANGED Abstract!vars  BY BrkRefines, UnnoticedStutters
<1> QED  BY <1>1, <1>2, <1>3, <1>4, <1>5, <1>6, <1>7, <1>8, <1>9, Zenon DEF UserStep

LEMMA ServiceRefines ==
  ASSUME FullInv, FullInv', Next, Service PROVE Abstract!Next \/ UNCHANGED Abstract!vars
<1>1. DoExit => Abstract!Next  BY ExitRefines DEF Abstract!Next
<1>2. DoPutc => Abstract!Next  BY PutcRefines DEF Abstract!Next
<1>3. DoGetc => Abstract!Next  BY GetcRefines DEF Abstract!Next
<1>4. DoPuts => Abstract!Next  BY PutsRefines DEF Abstract!Next
<1>5. ASSUME DoBlock(5, "read") PROVE Abstract!Next
  <2>1. "read" = IF 5 = 5 THEN "read" ELSE "write"  OBVIOUS
  <2>2. Abstract!Block(5)  BY <1>5, <2>1, BlockRefines
  <2> QED  BY <2>2 DEF Abstract!Next
<1>6. ASSUME DoBlock(6, "write") PROVE Abstract!Next
  <2>1. "write" = IF 6 = 5 THEN "read" ELSE "write"  OBVIOUS
  <2>2. Abstract!Block(6)  BY <1>6, <2>1, BlockRefines
  <2> QED  BY <2>2 DEF Abstract!Next
<1>7. DoGetcNb => Abstract!Next  BY GetcNbRefines DEF Abstract!Next
<1>8. DoEnosys => Abstract!Next  BY EnosysRefines, Zenon DEF Abstract!Next
<1>9. Spin => UNCHANGED Abstract!vars  BY AllUnchanged, UnnoticedStutters DEF Spin
<1> QED  BY <1>1, <1>2, <1>3, <1>4, <1>5, <1>6, <1>7, <1>8, <1>9, Zenon DEF Service

LEMMA NextRefines ==
  FullInv /\ FullInv' /\ [Next]_vars => [Abstract!Next]_(Abstract!vars)
<1> SUFFICES ASSUME FullInv, FullInv', [Next]_vars
             PROVE  Abstract!Next \/ UNCHANGED Abstract!vars
  OBVIOUS
<1>1. CASE UNCHANGED vars  BY <1>1, AllUnchanged, UnnoticedStutters
<1>2. CASE Next
  <2>1. UserStep => Abstract!Next \/ UNCHANGED Abstract!vars  BY <1>2, UserRefines
  <2>2. Service => Abstract!Next \/ UNCHANGED Abstract!vars  BY <1>2, ServiceRefines
  <2>3. SchedStart => UNCHANGED Abstract!vars  BY <1>2, SchedStartRefines, UnnoticedStutters
  <2>4. BrkHandler => UNCHANGED Abstract!vars  BY <1>2, BrkHandlerRefines, UnnoticedStutters
  <2>5. RetUserMode => UNCHANGED Abstract!vars  BY <1>2, RetUserModeRefines, UnnoticedStutters
  <2>6. DoYield => Abstract!Next  BY <1>2, YieldRefines DEF Abstract!Next
  <2>7. KeyArrives => Abstract!Next  BY TypeRefines DEF Abstract!Next
  <2> QED
    BY <1>2, <2>1, <2>2, <2>3, <2>4, <2>5, <2>6, <2>7, Zenon DEF Next, KernelStep
<1> QED  BY <1>1, <1>2

\* The kernel keeps its promise to programs (yield.s, brk.s, syscalls.c,
\* syslib.s): whatever they compute, push and call, each one sees a coroutine
\* whose registers, stack data and results nobody else touches, and whose turn
\* comes in round-robin order.
THEOREM KernelImplementsCoroutines == Spec => ImplementsCoroutines
<1>1. FullInv /\ Init => Abstract!Init  BY InitRefines
<1>2. FullInv /\ FullInv' /\ [Next]_vars => [Abstract!Next]_(Abstract!vars)  BY NextRefines
<1> QED  BY <1>1, <1>2, FullInvariant, PTL DEF Spec, ImplementsCoroutines, Abstract!Spec
=============================================================================
