------------------------------ MODULE Debugger ------------------------------
(***************************************************************************)
(* The debugger: the hooks in the test bench (tb.v, ifdef BBDBG) that call *)
(* it once per instruction and reset the machine for it, the modes that    *)
(* decide at each call whether the machine goes on (debugger.c), the       *)
(* command loop, and the one keyboard that its panes share. Simulated time *)
(* is frozen while a call has not returned. The CPU is reduced to the      *)
(* instructions it fetches: a cycle with sync may come at any clock edge.  *)
(***************************************************************************)
EXTENDS Integers, Breakpoints, DebugSymbols

CONSTANTS
  Follow,       \* Follow[a]: the instructions the CPU may fetch after a's
  Length,       \* Length[a]: bytes of a's instruction
  Halts,        \* where STP instructions are
  Vector,       \* stands for the CPU's reset sequence
  ResetPc,      \* the instruction it fetches first
  ResetCycles,  \* 16
  PollInterval, \* 512
  StepCounts,   \* the n of `s n`
  Keys, Enter, CtrlC, ContKey, MemKey, RestartKey, \* keys; `c`, `m` and `r` among them
  MaxKeys,      \* bound on the keys typed while the program runs
  None

\* The vectors lie above all instructions, so none ends beyond the address space.
ASSUME DebuggerAssumption ==
  /\ Vector \notin DOMAIN Length /\ DOMAIN Follow = DOMAIN Length \union {Vector}
  /\ None \notin DOMAIN Follow
  /\ \A a \in DOMAIN Follow : Follow[a] \subseteq DOMAIN Length
  /\ Follow[Vector] = {ResetPc}
  /\ \A a \in DOMAIN Length : a \in Nat /\ Length[a] \in Nat /\ a + Length[a] < AddrSpace
  /\ ResetCycles \in Nat \ {0} /\ PollInterval \in Nat \ {0} /\ MaxKeys \in Nat
  /\ StepCounts \subseteq Nat \ {0}

VARIABLES
  clk,       \* "low": the next edge is positive; "high": negative
  executing, \* the instruction the CPU is in: dbg_pc while dbg_fetch is set
  fetching,  \* the address it fetches with sync high, or None
  fetch,     \* dbg_fetch
  reset, resetReq, rstCnt, \* reset, dbg_reset_req, dbg_rst_cnt
  mode,      \* dbgMode
  stepsLeft, \* dbgStepsLeft
  polls,     \* dbgFetchCount % DBG_POLL_INTERVAL
  ui,        \* where the debugger is: "loading", "running" (not called, or about
             \* to be), "command", "from" and "to" (questions of `m`), "stp" (the
             \* question of dbgHandleStp), "finished"
  tty,       \* keys typed and not read
  typed      \* number of keys typed while the program runs

clockVars   == <<clk, executing, fetching, fetch, reset, resetReq, rstCnt>>
controlVars == <<mode, stepsLeft, polls, ui>>
keyVars     == <<tty, typed>>
vars == <<clockVars, controlVars, keyVars, bpVars, symVars>>

\* dbgInit at the start of the simulation; the power-on reset is then released.
Init ==
  /\ clk = "low" /\ executing = Vector /\ fetching = None
  /\ fetch = FALSE /\ reset = FALSE /\ resetReq = FALSE /\ rstCnt = 0
  /\ mode = "STOPPED" /\ stepsLeft = 0 /\ polls = 0 /\ ui = "loading"
  /\ tty = <<>> /\ typed = 0
  /\ BpInit /\ SymInit

Load ==
  /\ ui = "loading" /\ ReadStep
  /\ ui' = IF Loading' THEN "loading" ELSE "running"
  /\ UNCHANGED <<clockVars, mode, stepsLeft, polls, keyVars, bpVars>>

----------------------------------------------------------------------------
(* The test bench. *)

FetchHookIgnoresRequest == \* seeded fault: ~dbg_reset_req left out of the latch
  fetching # None /\ ~ reset /\ rstCnt = 0
FetchHook == fetching # None /\ ~ reset /\ ~ resetReq /\ rstCnt = 0

ResetPulseUncounted == \* seeded fault: the count is never taken down
  \/ resetReq /\ resetReq' = FALSE /\ rstCnt' = ResetCycles /\ reset' = TRUE
  \/ ~ resetReq /\ UNCHANGED <<resetReq, rstCnt, reset>>
ResetPulse ==
  \/ resetReq /\ resetReq' = FALSE /\ rstCnt' = ResetCycles /\ reset' = TRUE
  \/ ~ resetReq /\ rstCnt = 1 /\ rstCnt' = 0 /\ reset' = FALSE /\ resetReq' = resetReq
  \/ ~ resetReq /\ rstCnt > 1 /\ rstCnt' = rstCnt - 1 /\ UNCHANGED <<resetReq, reset>>
  \/ ~ resetReq /\ rstCnt = 0 /\ UNCHANGED <<resetReq, rstCnt, reset>>

\* One positive edge for the CPU: an instruction begins when it was fetched.
Cpu ==
  /\ executing' = CASE reset -> Vector
                    [] ~ reset /\ fetching # None -> fetching
                    [] OTHER -> executing
  /\ fetching' \in IF reset THEN {None} ELSE {None} \union Follow[executing']

Posedge ==
  /\ ui = "running" /\ clk = "low" /\ clk' = "high"
  /\ Cpu
  /\ fetch' = FetchHook
  /\ ResetPulse
  /\ UNCHANGED <<controlVars, keyVars, bpVars, symVars>>

Negedge == \* no call
  /\ ui = "running" /\ clk = "high" /\ ~ fetch /\ clk' = "low"
  /\ UNCHANGED <<executing, fetching, fetch, reset, resetReq, rstCnt,
                 controlVars, keyVars, bpVars, symVars>>

----------------------------------------------------------------------------
(* dbgOnFetch: the call at the negative edge after a fetch. *)

OnFetch == ui = "running" /\ clk = "high" /\ fetch

Return == \* the simulation goes on
  /\ clk' = "low" /\ ui' = "running"
  /\ UNCHANGED <<executing, fetching, fetch, reset, resetReq, rstCnt>>
PromptKeepsMode == \* seeded fault: dbgMode = DBG_STOPPED left out
  /\ ui' = "command" /\ mode' = mode
  /\ UNCHANGED clockVars
Prompt ==
  /\ ui' = "command" /\ mode' = "STOPPED"
  /\ UNCHANGED clockVars

CountFetch == polls' = (polls + 1) % PollInterval

\* dbgCheckIfAtBp: is there a breakpoint from pc to pc + len, both included?
InstrEnd(pc, len)    == (pc + len) % AddrSpace
CheckIfAtBp(pc, len) == \E a \in BpAddresses : pc <= a /\ a <= InstrEnd(pc, len)

HandleStp ==
  /\ OnFetch /\ executing \in Halts
  /\ ui' = "stp" /\ mode' = "STOPPED"
  /\ CountFetch
  /\ UNCHANGED <<clockVars, stepsLeft, keyVars, bpVars, symVars>>

StopAtOnce ==
  /\ OnFetch /\ executing \notin Halts /\ mode = "STOPPED"
  /\ Prompt /\ CountFetch
  /\ UNCHANGED <<stepsLeft, keyVars, bpVars, symVars>>

\* dbgPollTerminal: keys go to the keyboard file (dbgSendKey; see Console) up to
\* the first Ctrl-C, which is taken and leaves the rest where it is.
Interrupts == {i \in DOMAIN tty : tty[i] = CtrlC}
Cut == IF Interrupts = {} THEN Len(tty) + 1 ELSE CHOOSE i \in Interrupts : \A j \in Interrupts : i <= j
PollTerminal ==
  /\ tty' = SubSeq(tty, Cut + 1, Len(tty))
  /\ typed' = typed

PollDueNever == FALSE \* seeded fault: the poll compares with the wrong count
PollDue == (polls + 1) % PollInterval = 0

Run ==
  /\ OnFetch /\ executing \notin Halts /\ mode = "RUNNING"
  /\ CountFetch
  /\ IF PollDue THEN PollTerminal ELSE UNCHANGED keyVars
  /\ IF (PollDue /\ Interrupts # {}) \/ CheckIfAtBp(executing, 0)
       THEN Prompt ELSE Return /\ mode' = mode
  /\ UNCHANGED <<stepsLeft, bpVars, symVars>>

StepOn == stepsLeft > 0 /\ ~ CheckIfAtBp(executing, Length[executing])

Step ==
  /\ OnFetch /\ executing \notin Halts /\ mode = "STEPPING"
  /\ CountFetch
  /\ IF StepOn
       THEN Return /\ mode' = mode /\ stepsLeft' = stepsLeft - 1
       ELSE Prompt /\ stepsLeft' = stepsLeft
  /\ UNCHANGED <<keyVars, bpVars, symVars>>

----------------------------------------------------------------------------
(* The command loop. Its keyboard is the program's: keys that were typed   *)
(* while the program ran and not yet polled become the next command line.  *)

Enters == {i \in DOMAIN tty : tty[i] = Enter}
FirstEnter == CHOOSE i \in Enters : \A j \in Enters : i <= j
LineIsTyped == Enters # {}

\* dbgConsoleGetCmd: the line waiting in tty, else one that the user completes,
\* or corrects, to whatever he wants.
TakesLine ==
  /\ tty' = IF LineIsTyped THEN SubSeq(tty, FirstEnter + 1, Len(tty)) ELSE <<>>
  /\ UNCHANGED <<typed, symVars>>
ReadsLine(isIt) ==
  /\ ui = "command" /\ ~ Scanning
  /\ LineIsTyped => isIt
  /\ TakesLine

\* What a waiting line is as a command: its first word, in any of its spellings.
AsTyped(key) == SubSeq(tty, 1, FirstEnter - 1) = <<key>>

DbgResetMachine ==
  /\ resetReq' = TRUE /\ mode' = "STEPPING" /\ stepsLeft' = 0

ResumeMachine ==
  /\ clk' = "low" /\ ui' = "running"
  /\ UNCHANGED <<executing, fetching, fetch, reset, rstCnt, polls>>

Continue ==
  /\ ReadsLine(AsTyped(ContKey)) /\ ResumeMachine
  /\ mode' = "RUNNING"
  /\ UNCHANGED <<resetReq, stepsLeft, bpVars>>

\* `s n`: dbgOnFetch echoes and counts the first instruction on its way out.
StepCommand ==
  /\ ReadsLine(FALSE) /\ ResumeMachine
  /\ mode' = "STEPPING"
  /\ \E n \in StepCounts : stepsLeft' = n - 1
  /\ UNCHANGED <<resetReq, bpVars>>

ResetCommand ==
  /\ ReadsLine(FALSE) /\ ResumeMachine
  /\ DbgResetMachine
  /\ UNCHANGED bpVars

Finish == ui' = "finished" /\ mode' = "RUNNING" /\ UNCHANGED <<clockVars, stepsLeft, polls>>

QuitCommand == ReadsLine(FALSE) /\ Finish /\ UNCHANGED bpVars

\* `b`, `b 0x...`, `b symbol` (dbgAddBp) and `rb` (dbgRemoveBreakpoint): an
\* unknown symbol changes nothing.
Names == UNION {{SymFiles[f][l].name : l \in DOMAIN SymFiles[f]} : f \in DOMAIN SymFiles}
BreakpointCommand ==
  /\ ReadsLine(FALSE)
  /\ \/ SetBp(executing)
     \/ \E a \in BpAddrs : SetBp(a)
     \/ \E name \in Names : Knows(name) /\ SetNamedBp(Resolve(name))
     \/ SetBpFails
  /\ UNCHANGED <<clockVars, controlVars>>
RemoveCommand ==
  /\ ReadsLine(FALSE)
  /\ \/ \E a \in BpAddrs : RmvBp(a)
     \/ \E name \in Names : Knows(name) /\ RmvBp(Resolve(name))
  /\ UNCHANGED <<clockVars, controlVars>>
RemoveLoop ==
  /\ ui = "command" /\ RmvBpStep
  /\ UNCHANGED <<clockVars, controlVars, keyVars, symVars>>

\* `m` asks for the addresses it was not given. An answer is the next line,
\* which a waiting one, meant as a command, may be; what is not an address
\* (dbgReadHexU16), or ends the range before its start, ends the command.
Questions == {"from", "to"}
OnlyTheUi == UNCHANGED <<clockVars, mode, stepsLeft, polls, bpVars>>
MemoryCommand ==
  /\ ReadsLine(AsTyped(MemKey))
  /\ ui' \in IF LineIsTyped THEN {"from"} ELSE Questions \union {"command"}
  /\ OnlyTheUi
AnswerFrom ==
  /\ ui = "from" /\ TakesLine
  /\ ui' \in {"to", "command"}
  /\ OnlyTheUi
AnswerTo ==
  /\ ui = "to" /\ TakesLine
  /\ ui' = "command"
  /\ OnlyTheUi

\* Everything else only displays: unknown commands, empty lines, d, h, l, r.
OtherCommand ==
  /\ ReadsLine(~ AsTyped(ContKey) /\ ~ AsTyped(MemKey))
  /\ UNCHANGED <<clockVars, controlVars, bpVars>>

\* The question of dbgHandleStp takes one key, a waiting one first.
AnswerRestart ==
  /\ ui = "stp" /\ (tty # <<>> => Head(tty) = RestartKey)
  /\ DbgResetMachine /\ ResumeMachine
  /\ tty' = IF tty = <<>> THEN tty ELSE Tail(tty)
  /\ UNCHANGED <<typed, bpVars, symVars>>
AnswerExit ==
  /\ ui = "stp" /\ (tty # <<>> => Head(tty) # RestartKey)
  /\ Finish
  /\ tty' = IF tty = <<>> THEN tty ELSE Tail(tty)
  /\ UNCHANGED <<typed, bpVars, symVars>>

UserTypes ==
  /\ ui = "running" /\ typed < MaxKeys
  /\ \E k \in Keys : tty' = Append(tty, k)
  /\ typed' = typed + 1
  /\ UNCHANGED <<clockVars, controlVars, bpVars, symVars>>

Callback == HandleStp \/ StopAtOnce \/ Run \/ Step
Commands ==
  \/ Continue \/ StepCommand \/ ResetCommand \/ QuitCommand
  \/ BreakpointCommand \/ RemoveCommand \/ OtherCommand
  \/ MemoryCommand \/ AnswerFrom \/ AnswerTo
  \/ AnswerRestart \/ AnswerExit
Simulates == Load \/ Posedge \/ Negedge \/ Callback \/ RemoveLoop
Ended == ui = "finished" /\ UNCHANGED vars

Next == Simulates \/ Commands \/ UserTypes \/ Ended
Spec == Init /\ [][Next]_vars

\* vvp simulates as long as it can, and every instruction of the program ends.
\* Nothing is assumed of the user.
FairSpec ==
  /\ Spec
  /\ WF_vars(Simulates)
  /\ SF_vars(Posedge /\ fetching' # None)

----------------------------------------------------------------------------
(* What the debugger implements. *)

Restarting == resetReq \/ reset \/ executing = Vector

Unlimited == -1
StepsToGo ==
  CASE mode = "STEPPING" -> stepsLeft
    [] mode = "RUNNING" /\ ui = "running" -> Unlimited
    [] OTHER -> 0

Here == IF Restarting THEN ResetPc ELSE executing
Go   == ui = "running" /\ ~ Restarting /\ ~ (clk = "high" /\ fetch)
Over == ui = "finished"
Interrupted == Interrupts # {}
Touched == [a \in DOMAIN Length |-> a..InstrEnd(a, Length[a])]

Control == INSTANCE RunControl WITH
  Addresses <- BpAddrs,
  Near      <- Touched,
  Start     <- ResetPc,
  here      <- Here,
  go        <- Go,
  left      <- StepsToGo,
  bps       <- BpAddresses,
  interrupt <- Interrupted,
  over      <- Over

\* An instruction is executed only when the user asked for one; a run never
\* passes a breakpoint, an STP or the steps asked for, it never stops without a
\* reason, and a reset lands before the first instruction: over every cycle of
\* the machine and every order of commands, keys and resets.
ImplementsRunControl == Control!Spec

\* Ctrl-C gets the user a prompt, however many keys it stands behind.
InterruptStops ==
  (ui = "running" /\ mode = "RUNNING" /\ Interrupts # {}) ~> (ui # "running")

\* `reset` and the restart after an STP end in a prompt at the first
\* instruction, whatever the machine and the debugger were doing.
ResetStops ==
  resetReq ~> (ui = "command" /\ ~ Restarting /\ executing = ResetPc)

TypeOK ==
  /\ clk \in {"low", "high"} /\ executing \in DOMAIN Follow
  /\ fetching \in {None} \union DOMAIN Length
  /\ fetch \in BOOLEAN /\ reset \in BOOLEAN /\ resetReq \in BOOLEAN
  /\ rstCnt \in 0..ResetCycles /\ (reset <=> rstCnt > 0)
  /\ mode \in {"STOPPED", "STEPPING", "RUNNING"} /\ stepsLeft \in Nat
  /\ polls \in 0..(PollInterval - 1)
  /\ ui \in {"loading", "running", "command", "stp", "finished"} \union Questions
  /\ ui \in {"command", "stp"} \union Questions => mode = "STOPPED" /\ clk = "high" /\ fetch
  /\ tty \in Seq(Keys) /\ typed \in 0..MaxKeys
  /\ BpTypeOK /\ SymTypeOK

\* docs/debugger.md:48 says of `s n` "Stops early at a breakpoint": a step
\* command that ends early has a breakpoint at the instruction it ends at.
StepStopsAtBreakpoint ==
  [][Step /\ stepsLeft > 0 /\ ui' = "command" => executing \in BpAddresses]_vars
=============================================================================
