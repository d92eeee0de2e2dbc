------------------------------- MODULE Kernel -------------------------------
(***************************************************************************)
(* The cooperative kernel at run time (yield.s, brk.s, syscalls.c, proc.c) *)
(* with the user-side stubs (syslib.s, prog_crt0.s) and the boot ROM's     *)
(* entry and exit paths (brk_trampoline, ret_user_mode).                   *)
(*                                                                         *)
(* One CPU: an action is what it executes between two points where control *)
(* changes hands (user code, stub, BRK, handler, service, return). In      *)
(* kernel mode nothing preempts it: no IRQ source is connected. A process  *)
(* switched out has nothing but its stack page, its syscall block and its  *)
(* entry of plist, so the model keeps the stack pages byte by byte, each   *)
(* cell holding half a return address, a status byte or a data byte.       *)
(* Stack accesses of the CPU go through the MMU: to ppn[0] in user mode,   *)
(* to physical page 0 in kernel mode ("stack split").                      *)
(***************************************************************************)
EXTENDS AddressSpace, FiniteSets, Sequences

CONSTANTS
  NProcs,    \* processes loaded (nprocs)
  Table,     \* the page table spawn_bbx gave each process
  StackTop,  \* last offset of the stack page: $FF in the machine
  RegFiles,  \* RegFiles[p]: register contents program p may compute before a call
  Calls,     \* Calls[p]: syscall numbers program p uses
  Args,      \* call arguments: characters and virtual pages of pointers
  Lbas,      \* block numbers used in block calls
  Keys,      \* keys that may be typed
  NoKey,     \* the receiver holds no key
  Junk,      \* a byte nobody may rely on
  MaxPush,   \* bound on the data bytes a program keeps on its stack
  KernelDepth, \* bytes the kernel pushes below the caller's SP while it works
  MayEnd     \* may programs leave their main loop (exit, return from main)?

Procs    == 0..(NProcs - 1)
Slots    == 0..StackTop
Size     == StackTop + 1
CodePage == 4   \* virtual page of $1000, where programs are linked

StackPage(p) == Table[p][0]
StackPages   == {0} \union {StackPage(p) : p \in Procs}

Flags == BOOLEAN
ByteVals == {Junk, 0, 1, 126, 255} \union Args \union Lbas \union Keys
             \union UNION {{r.a, r.x, r.y} : r \in UNION {RegFiles[p] : p \in Procs}}
Registers == [a : ByteVals, x : ByteVals, y : ByteVals, c : Flags]
AbiBlocks == [ret : ByteVals, arg0 : ByteVals, arg1 : ByteVals, areg : ByteVals]

\* Where user code can be: <<process, place, number of the call>>.
UserPlaces == {"entry", "main", "forever", "brk", "resume"}
AllCalls   == UNION {Calls[p] : p \in Procs}
UserAddrs  == Procs \X UserPlaces \X (AllCalls \union {0})
Lost       == <<0, "lost", 0>>
Place(a)   == a[2]

KernelPlaces == {"sched_start", "brk_handler", "do_yield", "syscall", "ret_user_mode", "spin"}

\* Cells of a stack page.
Lo(a)          == <<"lo", a>>
Hi(a)          == <<"hi", a>>
Status(c, brk) == <<"status", <<c, brk>>>>
ByteCell(v)    == <<"byte", v>>
Cells == {Lo(a) : a \in UserAddrs} \union {Hi(a) : a \in UserAddrs}
          \union {ByteCell(v) : v \in ByteVals}
          \union {<<"status", f>> : f \in Flags \X Flags}

ASSUME KernelAssumption ==
  /\ NProcs \in 1..4
  /\ Table \in [Procs -> PageTables]
  /\ \A p, q \in Procs : StackPage(p) = StackPage(q) => p = q
  /\ \A p \in Procs : StackPage(p) # 0
  /\ StackTop \in Nat /\ StackTop >= 12
  /\ \A p \in Procs : Calls[p] \subseteq 0..255
  /\ Args \subseteq VPages \ {0} /\ Lbas \subseteq Nat /\ Keys \subseteq 0..255 /\ NoKey \notin Keys
  /\ \A p \in Procs : RegFiles[p] \subseteq [a : Args, x : Args, y : Args, c : Flags]
  /\ MaxPush \in Nat /\ KernelDepth \in 0..StackTop /\ MayEnd \in BOOLEAN

\* What a program keeps fits its stack page, with two bytes of crt0's and eight
\* of a call's.
ASSUME StackRoom == MaxPush + 10 <= StackTop

VARIABLES
  at,      \* "user", or the kernel routine the CPU is in
  pc,      \* the user address, in user mode
  regs,    \* A, X, Y and the carry
  sp,      \* the stack pointer
  kernel,  \* the MMU's mode
  ppn,     \* the MMU's page table
  stk,     \* stk[page][offset]: the stack pages in RAM
  abi,     \* abi[page]: the syscall block in that page
  sysnum,  \* ZP_SYS_NUM
  state, savedSP, table, \* plist[].state, .SP, .mmu_ppn_table
  idx,     \* plist_idx
  rx,      \* the ACIA's received key, or NoKey
  io       \* the last device operation

cpu   == <<at, pc, regs, sp, kernel>>
plist == <<state, savedSP, table, idx>>
vars  == <<at, pc, regs, sp, kernel, ppn, stk, abi, sysnum, state, savedSP, table, idx, rx, io>>

----------------------------------------------------------------------------
(* Stack accesses. *)

\* Push `cells` from offset s down; the offset wraps in the page.
PushFrom(page, s, cells) ==
  [i \in Slots |-> LET k == (s + Size - i) % Size
                   IN  IF k < Len(cells) THEN cells[k + 1] ELSE page[i]]
Below(s, n) == (s + Size - n) % Size
Above(s, n) == (s + n) % Size

\* The byte and the address a pull makes of what it finds.
ByteOf(cell) == IF cell[1] = "byte" THEN cell[2] ELSE Junk
CarryOf(cell) == cell[1] = "status" /\ cell[2][1]
IsBrk(cell) == cell[1] = "status" /\ cell[2][2]
AddrOf(lo, hi) ==
  IF lo[1] = "lo" /\ hi[1] = "hi" /\ lo[2] = hi[2] THEN lo[2] ELSE Lost

\* Seeded fault: a kernel whose pushes go through the caller's page table.
KernelWorkOnUserStack(st) ==
  [st EXCEPT ![ppn[0]] = PushFrom(@, sp, [i \in 1..KernelDepth |-> ByteCell(Junk)])]

\* The kernel's own pushes (its JSRs and C calls) land on physical page 0 at
\* the caller's SP, and are all pulled again before it returns.
KernelWork(st) ==
  [st EXCEPT ![0] = PushFrom(@, sp, [i \in 1..KernelDepth |-> ByteCell(Junk)])]

Clobbered == [a |-> Junk, x |-> Junk, y |-> Junk, c |-> FALSE]
NewFrame(p) == \* spawn_bbx: status $20, PCL, PCH at $01FD..$01FF
  PushFrom([i \in Slots |-> ByteCell(Junk)], StackTop,
           <<Hi(<<p, "entry", 0>>), Lo(<<p, "entry", 0>>), Status(FALSE, FALSE)>>)
FirstReg == [a |-> 126, x |-> 255, y |-> Junk, c |-> FALSE]
NewAbi   == [ret |-> Junk, arg0 |-> Junk, arg1 |-> Junk, areg |-> Junk]

\* main has spawned the processes and calls sched_start.
Init ==
  /\ at = "sched_start" /\ pc = Lost /\ regs = Clobbered /\ sp = StackTop
  /\ kernel = TRUE /\ ppn = [v \in VPages |-> v]
  /\ stk = [g \in StackPages |->
              IF \E p \in Procs : g = StackPage(p)
              THEN NewFrame(CHOOSE p \in Procs : g = StackPage(p))
              ELSE [i \in Slots |-> ByteCell(Junk)]]
  /\ abi = [g \in StackPages |-> NewAbi]
  /\ sysnum = 0
  /\ state = [p \in Procs |-> "waiting"]
  /\ savedSP = [p \in Procs |-> StackTop - 3]
  /\ table = Table
  /\ idx = 0 /\ rx = NoKey /\ io = [op |-> "none", val |-> 0, page |-> 0]

----------------------------------------------------------------------------
(* User code. The program counter says whose; the MMU says in which page   *)
(* its stack and syscall block are.                                        *)

UserAt(place) == at = "user" /\ Place(pc) = place
GoTo(place, n) == pc' = <<pc[1], place, n>>
UserKeeps == UNCHANGED <<at, kernel, ppn, sysnum, state, savedSP, table, idx, rx, io>>

UserPage == ppn[0]
UserPush(cells) ==
  /\ stk' = [stk EXCEPT ![UserPage] = PushFrom(@, sp, cells)]
  /\ sp' = Below(sp, Len(cells))
Cell(k) == stk[UserPage][Above(sp, k)]

MainFrame == StackTop - 2       \* SP in main: below it lies crt0's JSR
Depth == MainFrame - sp

\* prog_crt0: SP = $FF, the C stack, JSR main.
Start ==
  /\ UserAt("entry")
  /\ stk' = [stk EXCEPT ![UserPage] =
               PushFrom(@, StackTop, <<Hi(<<pc[1], "forever", 0>>), Lo(<<pc[1], "forever", 0>>)>>)]
  /\ sp' = Below(StackTop, 2)
  /\ regs' = [regs EXCEPT !.a = 126, !.x = 255]
  /\ GoTo("main", 0)
  /\ abi' = abi /\ UserKeeps

Compute ==
  /\ UserAt("main")
  /\ regs' \in RegFiles[pc[1]]
  /\ UNCHANGED <<pc, sp, stk, abi>> /\ UserKeeps

Push ==
  /\ UserAt("main") /\ Depth < MaxPush
  /\ UserPush(<<ByteCell(regs.a)>>)
  /\ UNCHANGED <<pc, regs, abi>> /\ UserKeeps

Pull ==
  /\ UserAt("main") /\ Depth > 0
  /\ regs' = [regs EXCEPT !.a = ByteOf(Cell(1))]
  /\ sp' = Above(sp, 1)
  /\ UNCHANGED <<pc, stk, abi>> /\ UserKeeps

\* main returns to crt0, which traps in `forever: bra forever`.
MainReturns ==
  /\ MayEnd /\ UserAt("main") /\ Depth = 0
  /\ pc' = AddrOf(Cell(1), Cell(2)) /\ sp' = Above(sp, 2)
  /\ UNCHANGED <<regs, stk, abi>> /\ UserKeeps

Forever == UserAt("forever") /\ UNCHANGED vars

\* The stub of call n: JSR to it, arguments to the caller's syscall block,
\* PHA PHX PHY. popax takes a block call's LBA off the C stack, into A/X.
PushesYBeforeX(r) == \* seeded fault: PHA PHY PHX, against PLY PLX PLA
  <<Hi(<<pc[1], "main", 0>>), Lo(<<pc[1], "main", 0>>), ByteCell(r.a), ByteCell(r.y), ByteCell(r.x)>>
Pushes(r) ==
  <<Hi(<<pc[1], "main", 0>>), Lo(<<pc[1], "main", 0>>), ByteCell(r.a), ByteCell(r.x), ByteCell(r.y)>>
StoreArgs(block) == abi' = [abi EXCEPT ![UserPage] = block]

CallStub(n) ==
  /\ UserAt("main") /\ n \in Calls[pc[1]]
  /\ n \in {4, 5, 6} => regs.a \in Args     \* pointers are valid ones
  /\ \/ /\ n \in {5, 6}
        /\ \E l \in Lbas :
             /\ StoreArgs([abi[UserPage] EXCEPT !.arg1 = regs.a, !.arg0 = l])
             /\ regs' = [regs EXCEPT !.a = l, !.x = 0, !.y = 1]
     \/ /\ n = 4
        /\ StoreArgs([abi[UserPage] EXCEPT !.arg0 = regs.a])
        /\ regs' = regs
     \/ /\ n \in {1, 2}
        /\ StoreArgs([abi[UserPage] EXCEPT !.areg = regs.a])
        /\ regs' = regs
     \/ /\ n \notin {1, 2, 4, 5, 6}
        /\ abi' = abi /\ regs' = regs
  /\ UserPush(Pushes(regs'))
  /\ GoTo("brk", n)
  /\ UserKeeps

\* After the call: PLY PLX PLA, the result where the stub loads one, RTS.
StubReturn ==
  /\ UserAt("resume") /\ pc[3] # 1
  /\ LET n == pc[3]
         r == [a |-> ByteOf(Cell(3)), x |-> ByteOf(Cell(2)), y |-> ByteOf(Cell(1)), c |-> regs.c]
     IN  regs' = IF n = 3 THEN [r EXCEPT !.a = abi[UserPage].areg]
                 ELSE IF n \in {5, 6} THEN [r EXCEPT !.a = abi[UserPage].ret, !.x = 0]
                 ELSE r
  /\ pc' = AddrOf(Cell(4), Cell(5))
  /\ sp' = Above(sp, 5)
  /\ UNCHANGED <<stk, abi>> /\ UserKeeps

----------------------------------------------------------------------------
(* Into the kernel and out of it. *)

\* BRK pushes the address after the number byte and the status, still in user
\* mode; the vector fetch switches the MMU, and brk_trampoline jumps through
\* the kernel's $FE/$FF to brk_handler.
Brk ==
  /\ UserAt("brk")
  /\ LET next == <<pc[1], "resume", pc[3]>>
     IN  UserPush(<<Hi(next), Lo(next), Status(regs.c, TRUE)>>)
  /\ at' = "brk_handler" /\ kernel' = TRUE
  /\ UNCHANGED <<pc, regs, ppn, abi, sysnum, state, savedSP, table, idx, rx, io>>

\* The numbers the handler may find at a - 1: the caller's own, while its
\* code page is the one the table maps.
NumbersAt(a, t) ==
  IF a # Lost /\ t[CodePage] = Table[a[1]][CodePage] THEN {a[3]} ELSE AllCalls

\* The frame through ppn[0] and SP, without wrapping.
FrameCell(k) == IF sp + k <= StackTop THEN stk[UserPage][sp + k] ELSE ByteCell(Junk)

BrkHandler ==
  /\ at = "brk_handler"
  /\ \/ /\ ~ IsBrk(FrameCell(1))          \* irq_path
        /\ at' = "ret_user_mode" /\ sysnum' = sysnum
     \/ /\ IsBrk(FrameCell(1))
        /\ sysnum' \in NumbersAt(AddrOf(FrameCell(2), FrameCell(3)), ppn)
        /\ at' = IF sysnum' = 0 THEN "do_yield" ELSE "syscall"
  /\ regs' = Clobbered
  /\ UNCHANGED <<pc, sp, kernel, ppn, stk, abi, state, savedSP, table, idx, rx, io>>

\* ret_user_mode: STZ MMU_CTRL, then RTI, which pulls through ppn[0].
RetUserMode ==
  /\ at = "ret_user_mode"
  /\ at' = "user" /\ kernel' = FALSE
  /\ regs' = [regs EXCEPT !.c = CarryOf(Cell(1))]
  /\ pc' = AddrOf(Cell(2), Cell(3))
  /\ sp' = Above(sp, 3)
  /\ UNCHANGED <<ppn, stk, abi, sysnum, state, savedSP, table, idx, rx, io>>

----------------------------------------------------------------------------
(* The scheduler. *)

\* Seeded faults: a scan that runs downwards; one that restarts at slot 0; a
\* table not loaded; SP saved inside a subroutine; a caller left running.
ScheduleDownwards(i, st) == (i + NProcs - 1) % NProcs
ScheduleFromZero(i, st) ==
  CHOOSE k \in Procs : st[k] = "waiting" /\ \A j \in 0..(k - 1) : st[j] # "waiting"
ResumeKeepsTable(p, st) ==
  /\ state' = [st EXCEPT ![p] = "running"]
  /\ sp' = savedSP'[p] /\ ppn' = ppn /\ at' = "ret_user_mode"
SaveContextInSubroutine ==
  savedSP' = [savedSP EXCEPT ![idx] = Below(sp, 2)] /\ table' = [table EXCEPT ![idx] = ppn]
SuspendedStillRunning == state

\* schedule_process: the first waiting process after i, else i itself.
Schedule(i, st) ==
  LET Waiting(k) == st[(i + k) % NProcs] = "waiting"
      first == CHOOSE k \in 1..NProcs : Waiting(k) /\ \A j \in 1..(k - 1) : ~ Waiting(j)
  IN  IF \E k \in 1..NProcs : Waiting(k) THEN (i + first) % NProcs ELSE i

\* Load SP and the MMU's table from plist[p], mark it running.
Resume(p, st) ==
  /\ state' = [st EXCEPT ![p] = "running"]
  /\ sp' = savedSP'[p]
  /\ ppn' = table'[p]
  /\ at' = "ret_user_mode"

SchedStart ==
  /\ at = "sched_start"
  /\ idx' = 0
  /\ UNCHANGED <<savedSP, table>>
  /\ Resume(0, state)
  /\ stk' = KernelWork(stk) /\ regs' = Clobbered
  /\ UNCHANGED <<pc, kernel, abi, sysnum, rx, io>>

Suspended == [state EXCEPT ![idx] = "waiting"]
SaveContext ==
  /\ savedSP' = [savedSP EXCEPT ![idx] = sp]
  /\ table' = [table EXCEPT ![idx] = ppn]

DoYield ==
  /\ at = "do_yield"
  /\ SaveContext
  /\ idx' = Schedule(idx, Suspended)
  /\ Resume(idx', Suspended)
  /\ stk' = KernelWork(stk) /\ regs' = Clobbered
  /\ UNCHANGED <<pc, kernel, abi, sysnum, rx, io>>

----------------------------------------------------------------------------
(* The other services: syscall_dispatch, on the caller's syscall block.    *)

Serving(n) == at = "syscall" /\ sysnum = n
Block == abi[UserPage]
Answer(block) == abi' = [abi EXCEPT ![UserPage] = block]
Done ==
  /\ at' = "ret_user_mode" /\ stk' = KernelWork(stk) /\ regs' = Clobbered
  /\ UNCHANGED <<pc, sp, kernel, ppn, sysnum, state, savedSP, table, idx>>
Operation(op, val, page) == io' = [op |-> op, val |-> val, page |-> page]

DoExit ==
  /\ Serving(1)
  /\ at' = "spin" /\ stk' = KernelWork(stk)
  /\ UNCHANGED <<pc, regs, sp, kernel, ppn, abi, sysnum, state, savedSP, table, idx, rx, io>>

Spin == at = "spin" /\ UNCHANGED vars

DoPutc ==
  /\ Serving(2)
  /\ Operation("putc", Block.areg, 0)
  /\ Answer([Block EXCEPT !.ret = 0]) /\ rx' = rx /\ Done

DoGetcNoPoll == \* seeded fault: takes what the receiver holds, key or not
  /\ Serving(3)
  /\ Answer([Block EXCEPT !.areg = rx, !.ret = 0])
  /\ rx' = NoKey /\ io' = io /\ Done

\* Polls until a key is there; nothing else runs meanwhile.
DoGetc ==
  /\ Serving(3)
  /\ rx # NoKey
  /\ Answer([Block EXCEPT !.areg = rx, !.ret = 0])
  /\ rx' = NoKey /\ io' = io /\ Done

DoPutsUntranslated == \* seeded fault: the caller's virtual page used as it is
  /\ Serving(4)
  /\ Operation("puts", 0, Block.arg0)
  /\ Answer([Block EXCEPT !.ret = 0]) /\ rx' = rx /\ Done

\* A string is known by the physical page its pointer leads to.
DoPuts ==
  /\ Serving(4)
  /\ Operation("puts", 0, ppn[Block.arg0])
  /\ Answer([Block EXCEPT !.ret = 0]) /\ rx' = rx /\ Done

DoBlock(n, op) ==
  /\ Serving(n)
  /\ Operation(op, Block.arg0, ppn[Block.arg1])
  /\ \E err \in {0, 1} : Answer([Block EXCEPT !.ret = err])
  /\ rx' = rx /\ Done

DoGetcNb ==
  /\ Serving(8)
  /\ Answer(IF rx # NoKey THEN [Block EXCEPT !.areg = rx, !.ret = 0]
                          ELSE [Block EXCEPT !.areg = 0, !.ret = 1])
  /\ rx' = NoKey /\ io' = io /\ Done

DoEnosys ==
  /\ at = "syscall" /\ sysnum \notin {1, 2, 3, 4, 5, 6, 8}
  /\ Answer([Block EXCEPT !.ret = 255])
  /\ UNCHANGED <<rx, io>> /\ Done

----------------------------------------------------------------------------
\* The receiver takes a key when it holds none (tb.v).
KeyArrives ==
  /\ rx = NoKey
  /\ rx' \in Keys
  /\ UNCHANGED <<at, pc, regs, sp, kernel, ppn, stk, abi, sysnum, state, savedSP, table, idx, io>>

UserStep ==
  \/ Start \/ Compute \/ Push \/ Pull \/ MainReturns \/ Forever \/ StubReturn \/ Brk
  \/ \E n \in AllCalls : CallStub(n)
Service ==
  \/ DoExit \/ Spin \/ DoPutc \/ DoGetc \/ DoPuts
  \/ DoBlock(5, "read") \/ DoBlock(6, "write") \/ DoGetcNb \/ DoEnosys
KernelStep == SchedStart \/ BrkHandler \/ DoYield \/ RetUserMode \/ Service

Next == UserStep \/ KernelStep \/ KeyArrives
Spec == Init /\ [][Next]_vars

----------------------------------------------------------------------------
(* Fairness, for the liveness properties. The CPU never stops executing    *)
(* (the clock runs), keys keep coming, and each program calls sys_yield    *)
(* again and again while it runs: the demo programs' loops do, nothing in  *)
(* the kernel makes them.                                                  *)
CpuStep == UserStep \/ KernelStep
YieldCall(p) == CallStub(0) /\ pc[1] = p
Fairness ==
  /\ WF_vars(CpuStep)
  /\ WF_vars(KeyArrives)
  /\ \A p \in Procs : SF_vars(YieldCall(p))
FairSpec == Spec /\ Fairness

----------------------------------------------------------------------------
(* Properties. *)

TypeOK ==
  /\ at \in KernelPlaces \union {"user"}
  /\ pc \in UserAddrs \union {Lost}
  /\ regs \in Registers
  /\ sp \in Slots
  /\ kernel \in BOOLEAN
  /\ ppn \in PageTables
  /\ stk \in [StackPages -> [Slots -> Cells]]
  /\ abi \in [StackPages -> AbiBlocks]
  /\ sysnum \in AllCalls \union {0}
  /\ state \in [Procs -> {"exited", "waiting", "running"}]
  /\ savedSP \in [Procs -> Slots]
  /\ table \in [Procs -> PageTables]
  /\ idx \in Procs
  /\ rx \in Keys \union {NoKey}

\* Once the scheduler has started, plist, plist_idx and the MMU agree: the
\* process plist_idx names is the only running one, the MMU holds its page
\* table, and every process's saved table is still the one spawn_bbx built.
OneRunning ==
  /\ table = Table
  /\ IF at = "sched_start"
     THEN state = [p \in Procs |-> "waiting"]
     ELSE /\ state = [p \in Procs |-> IF p = idx THEN "running" ELSE "waiting"]
          /\ ppn = Table[idx]

\* The MMU is in user mode exactly while user code runs, and it is the code
\* of the process plist_idx names, at one of its own addresses.
RightProcessRuns ==
  /\ kernel <=> at # "user"
  /\ at = "user" => pc # Lost /\ pc[1] = idx

\* A context lives on its process's stack page, so nobody else may write
\* there: no other process, and no push of the kernel's, which runs on the
\* caller's SP ("stack split"). A process's syscall block changes only while
\* it is the process that runs.
ContextsUntouched ==
  [][\A p \in Procs :
       /\ (p # idx \/ kernel) => stk'[StackPage(p)] = stk[StackPage(p)]
       /\ p # idx => abi'[StackPage(p)] = abi[StackPage(p)]]_vars

\* The processor is handed over only by do_yield, and only to the next
\* process in turn: nobody is skipped.
RoundRobin ==
  [][idx' # idx => at = "do_yield" /\ idx' = (idx + 1) % NProcs]_vars

\* Every program gets the processor again and again.
EveryoneRuns == \A p \in Procs : []<>(at = "user" /\ idx = p)

\* Every call comes back to its caller, sys_yield included.
CallsReturn ==
  \A p \in Procs : (at = "brk_handler" /\ idx = p) ~> (at = "user" /\ pc = <<p, "main", 0>>)
=============================================================================
