----------------------------- MODULE RunControl -----------------------------
(***************************************************************************)
(* What the debugger promises (docs/debugger.md): the machine executes an  *)
(* instruction only when the user has asked for one, never past a          *)
(* breakpoint and never an STP, and it does not stop without a reason.     *)
(***************************************************************************)
EXTENDS Integers

CONSTANTS
  Addresses, \* where instructions are
  Follow,    \* Follow[a]: where execution can be after the instruction at a
  Halts,     \* addresses of STP instructions
  Near,      \* Near[a]: the breakpoints that end a step command at a
  Start      \* the first instruction after a reset

Unlimited == -1

VARIABLES
  here,      \* the next instruction to execute
  go,        \* it may be executed
  left,      \* how many more after it, or Unlimited
  bps,       \* addresses with a breakpoint
  interrupt, \* has the user typed Ctrl-C?
  over       \* has the session ended?

vars == <<here, go, left, bps, interrupt, over>>

Init ==
  /\ here = Start /\ go = FALSE /\ left = 0
  /\ bps = {} /\ interrupt = FALSE /\ over = FALSE

Stopped == ~ go /\ left = 0 /\ ~ over
Arrived == ~ go /\ left # 0 /\ ~ over
LessOne(n) == IF n = Unlimited THEN Unlimited ELSE n - 1

\* `c` and `s n`: the instruction at hand is the first to run, breakpoint or not.
Resume ==
  /\ Stopped /\ here \notin Halts
  /\ left' \in Nat \union {Unlimited}
  /\ go' = TRUE
  /\ UNCHANGED <<here, bps, over>>

Execute ==
  /\ go /\ go' = FALSE
  /\ here' \in Follow[here]
  /\ UNCHANGED <<left, bps, over>>

GoOn ==
  /\ Arrived /\ here \notin bps /\ here \notin Halts
  /\ go' = TRUE /\ left' = LessOne(left)
  /\ UNCHANGED <<here, bps, over>>

Reason ==
  \/ here \in Halts
  \/ left = Unlimited /\ (here \in bps \/ interrupt)
  \/ left # Unlimited /\ Near[here] \intersect bps # {}

Stop ==
  /\ Arrived /\ Reason /\ left' = 0
  /\ UNCHANGED <<here, go, bps, over>>

SetBreakpoint ==
  /\ Stopped
  /\ \E a \in Addresses : bps' = bps \union {a}
  /\ UNCHANGED <<here, go, left, over>>

RemoveBreakpoint ==
  /\ Stopped
  /\ \E a \in Addresses : bps' = bps \ {a}
  /\ UNCHANGED <<here, go, left, over>>

ResetMachine ==
  /\ Stopped /\ here' = Start
  /\ UNCHANGED <<go, left, bps, over>>

Quit ==
  /\ Stopped /\ over' = TRUE
  /\ UNCHANGED <<here, go, left, bps>>

Type == UNCHANGED <<here, go, left, bps, over>>

Next ==
  /\ interrupt' \in BOOLEAN
  /\ \/ Resume \/ Execute \/ GoOn \/ Stop \/ SetBreakpoint \/ RemoveBreakpoint
     \/ ResetMachine \/ Quit \/ Type

Spec == Init /\ [][Next]_vars
=============================================================================
