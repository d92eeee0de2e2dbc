----------------------------- MODULE Coroutines -----------------------------
(***************************************************************************)
(* What the kernel promises its programs, with no kernel in sight: each    *)
(* process is a coroutine with registers, stack data and a syscall block   *)
(* of its own. Only sys_yield passes the turn, to the next process in      *)
(* round-robin order; any other call is one atomic service of the caller.  *)
(* Kernel.tla implements this with one CPU, one set of MMU registers and   *)
(* contexts kept in stack pages.                                           *)
(***************************************************************************)
EXTENDS Integers, Sequences

CONSTANTS
  NProcs,   \* number of processes
  RegFiles, \* RegFiles[p]: register contents program p may compute
  Calls,    \* Calls[p]: syscall numbers program p uses
  Args,     \* call arguments: characters and virtual pages of pointers
  Lbas,     \* block numbers used in block calls
  Keys,     \* keys that may be typed
  NoKey,    \* the receiver holds no key
  MaxPush,  \* bound on the bytes a program keeps on its stack
  Table,    \* each process's page table
  FirstReg, \* the registers main starts with
  FirstAbi, \* the syscall block as the loader leaves it
  MayEnd    \* may programs leave their main loop?

Procs == 0..(NProcs - 1)

VARIABLES
  turn,   \* the process that runs
  stage,  \* stage[p]: <<where p is, the number of its call>>
  reg,    \* reg[p]: p's registers, as its own code sees them
  own,    \* own[p]: the bytes p's code keeps on its stack
  abi,    \* abi[p]: p's syscall block
  rx,     \* the received key, or NoKey
  io      \* the last device operation

vars == <<turn, stage, reg, own, abi, rx, io>>

Put(a, v) == [a EXCEPT ![turn] = v]

Init ==
  /\ turn = 0
  /\ stage = [p \in Procs |-> <<"new", 0>>]
  /\ reg = [p \in Procs |-> FirstReg]
  /\ own = [p \in Procs |-> <<>>]
  /\ abi = [p \in Procs |-> FirstAbi]
  /\ rx = NoKey
  /\ io = [op |-> "none", val |-> 0, page |-> 0]

----------------------------------------------------------------------------
(* The program's own steps. *)

Start ==
  /\ stage[turn] = <<"new", 0>>
  /\ stage' = Put(stage, <<"run", 0>>)
  /\ UNCHANGED <<turn, reg, own, abi, rx, io>>

Running == stage[turn] = <<"run", 0>>

Compute ==
  /\ Running
  /\ \E r \in RegFiles[turn] : reg' = Put(reg, r)
  /\ UNCHANGED <<turn, stage, own, abi, rx, io>>

Push ==
  /\ Running /\ Len(own[turn]) < MaxPush
  /\ own' = Put(own, <<reg[turn].a>> \o own[turn])
  /\ UNCHANGED <<turn, stage, reg, abi, rx, io>>

Pull ==
  /\ Running /\ own[turn] # <<>>
  /\ reg' = Put(reg, [reg[turn] EXCEPT !.a = Head(own[turn])])
  /\ own' = Put(own, Tail(own[turn]))
  /\ UNCHANGED <<turn, stage, abi, rx, io>>

End ==
  /\ MayEnd /\ Running /\ own[turn] = <<>>
  /\ stage' = Put(stage, <<"ended", 0>>)
  /\ UNCHANGED <<turn, reg, own, abi, rx, io>>

\* A call: the argument goes from the registers (and for block calls from the
\* C stack, an LBA l) to the caller's syscall block.
Call(n) ==
  /\ Running /\ (n \in {4, 5, 6} => reg[turn].a \in Args)
  /\ stage' = Put(stage, <<"call", n>>)
  /\ \/ /\ n \in {5, 6}
        /\ \E l \in Lbas :
             /\ abi' = Put(abi, [abi[turn] EXCEPT !.arg0 = l, !.arg1 = reg[turn].a])
             /\ reg' = Put(reg, [reg[turn] EXCEPT !.a = l, !.x = 0, !.y = 1])
     \/ /\ n = 4
        /\ abi' = Put(abi, [abi[turn] EXCEPT !.arg0 = reg[turn].a])
        /\ UNCHANGED reg
     \/ /\ n \in {1, 2}
        /\ abi' = Put(abi, [abi[turn] EXCEPT !.areg = reg[turn].a])
        /\ UNCHANGED reg
     \/ /\ n \notin {1, 2, 4, 5, 6}
        /\ UNCHANGED <<abi, reg>>
  /\ UNCHANGED <<turn, own, rx, io>>

\* Back from the call: the caller's registers, or the result where the stub
\* loads one.
Return ==
  /\ stage[turn][1] = "done"
  /\ LET n == stage[turn][2] IN
     reg' = Put(reg,
       IF n = 3 THEN [reg[turn] EXCEPT !.a = abi[turn].areg]
       ELSE IF n \in {5, 6} THEN [reg[turn] EXCEPT !.a = abi[turn].ret, !.x = 0]
       ELSE reg[turn])
  /\ stage' = Put(stage, <<"run", 0>>)
  /\ UNCHANGED <<turn, own, abi, rx, io>>

----------------------------------------------------------------------------
(* Services. *)

Asking(n) == stage[turn] = <<"call", n>>
Served(n) == stage' = Put(stage, <<"done", n>>)
Answer(ret) == abi' = Put(abi, [abi[turn] EXCEPT !.ret = ret])
Operation(op, val, page) == io' = [op |-> op, val |-> val, page |-> page]

Yield ==
  /\ Asking(0) /\ Served(0)
  /\ turn' = (turn + 1) % NProcs
  /\ UNCHANGED <<reg, own, abi, rx, io>>

Exit ==
  /\ Asking(1)
  /\ stage' = Put(stage, <<"exited", 1>>)
  /\ UNCHANGED <<turn, reg, own, abi, rx, io>>

Putc ==
  /\ Asking(2) /\ Served(2) /\ Answer(0)
  /\ Operation("putc", abi[turn].areg, 0)
  /\ UNCHANGED <<turn, reg, own, rx>>

Getc ==
  /\ Asking(3) /\ Served(3) /\ rx # NoKey
  /\ abi' = Put(abi, [abi[turn] EXCEPT !.areg = rx, !.ret = 0])
  /\ rx' = NoKey
  /\ UNCHANGED <<turn, reg, own, io>>

Puts ==
  /\ Asking(4) /\ Served(4) /\ Answer(0)
  /\ Operation("puts", 0, Table[turn][abi[turn].arg0])
  /\ UNCHANGED <<turn, reg, own, rx>>

Block(n) ==
  /\ Asking(n) /\ Served(n)
  /\ \E err \in {0, 1} : Answer(err)
  /\ Operation(IF n = 5 THEN "read" ELSE "write", abi[turn].arg0, Table[turn][abi[turn].arg1])
  /\ UNCHANGED <<turn, reg, own, rx>>

GetcNb ==
  /\ Asking(8) /\ Served(8)
  /\ \/ /\ rx # NoKey
        /\ abi' = Put(abi, [abi[turn] EXCEPT !.areg = rx, !.ret = 0])
     \/ /\ rx = NoKey
        /\ abi' = Put(abi, [abi[turn] EXCEPT !.areg = 0, !.ret = 1])
  /\ rx' = NoKey
  /\ UNCHANGED <<turn, reg, own, io>>

Enosys(n) ==
  /\ Asking(n) /\ Served(n) /\ Answer(255)
  /\ UNCHANGED <<turn, reg, own, rx, io>>

Type ==
  /\ rx = NoKey
  /\ rx' \in Keys
  /\ UNCHANGED <<turn, stage, reg, own, abi, io>>

Next ==
  \/ Start \/ Compute \/ Push \/ Pull \/ End \/ Return
  \/ \E n \in Calls[turn] : Call(n)
  \/ Yield \/ Exit \/ Putc \/ Getc \/ Puts \/ Block(5) \/ Block(6) \/ GetcNb
  \/ \E n \in Calls[turn] \ {0, 1, 2, 3, 4, 5, 6, 8} : Enosys(n)
  \/ Type

Spec == Init /\ [][Next]_vars
=============================================================================
