--------------------------- MODULE DebuggerProofs ---------------------------
(***************************************************************************)
(* Theorems about Debugger.tla for any program, any breakpoint addresses,  *)
(* any symbol files and any sizes of the arrays.                           *)
(***************************************************************************)
EXTENDS Debugger, Induction, SequenceTheorems, TLAPS

----------------------------------------------------------------------------
(* The breakpoint list.                                                    *)

\* What memmove leaves: one entry less, those behind it one place further down.
LEMMA RemoveAtShifts ==
  ASSUME NEW S, NEW s \in Seq(S), NEW i \in 1..Len(s)
  PROVE  /\ RemoveAt(s, i) \in Seq(S)
         /\ Len(RemoveAt(s, i)) = Len(s) - 1
         /\ \A j \in 1..(Len(s) - 1) :
              RemoveAt(s, i)[j] = IF j < i THEN s[j] ELSE s[j + 1]
<1> DEFINE a == SubSeq(s, 1, i - 1)
           b == SubSeq(s, i + 1, Len(s))
<1>1. Len(s) \in Nat /\ i \in Nat /\ 1 <= i /\ i <= Len(s)
  OBVIOUS
<1>2. /\ a \in Seq(S) /\ Len(a) = i - 1
      /\ \A j \in 1..(i - 1) : a[j] = s[j]
  BY <1>1, SubSeqProperties
<1>3. /\ b \in Seq(S) /\ Len(b) = Len(s) - i
      /\ \A j \in 1..(Len(s) - i) : b[j] = s[i + j]
  BY <1>1, SubSeqProperties
<1>4. RemoveAt(s, i) = a \o b
  BY DEF RemoveAt
<1> HIDE DEF a, b
<1>5. /\ a \o b \in Seq(S)
      /\ Len(a \o b) = Len(a) + Len(b)
      /\ \A j \in 1..(Len(a) + Len(b)) :
           (a \o b)[j] = IF j <= Len(a) THEN a[j] ELSE b[j - Len(a)]
  BY <1>2, <1>3, ConcatProperties
<1>6. Len(a) + Len(b) = Len(s) - 1
  BY <1>1, <1>2, <1>3
<1>7. ASSUME NEW j \in 1..(Len(s) - 1)
      PROVE  (a \o b)[j] = IF j < i THEN s[j] ELSE s[j + 1]
  <2>1. CASE j < i
    BY <1>1, <1>2, <1>5, <1>6, <2>1
  <2>2. CASE ~ (j < i)
    <3>1. j - (i - 1) \in 1..(Len(s) - i) /\ i + (j - (i - 1)) = j + 1
      BY <1>1, <2>2
    <3>2. (a \o b)[j] = b[j - (i - 1)]
      BY <1>1, <1>2, <1>5, <1>6, <2>2
    <3> QED  BY <1>3, <2>2, <3>1, <3>2
  <2> QED  BY <2>1, <2>2
<1> QED  BY <1>4, <1>5, <1>6, <1>7

\* BpListSound, with what it takes to keep it: types, and where a removal is.
ListInv ==
  /\ bpList \in Seq(Entries) /\ bpSize \in Nat
  /\ BpListSound

ScanInv ==
  scan # NoScan =>
    /\ DOMAIN scan = {"address", "i"}
    /\ scan.i \in Nat \ {0} /\ scan.i <= Len(bpList) + 1
    /\ \A j \in 1..(scan.i - 1) : bpList[j].address # scan.address

\* Everything the debugger does to the list.
ListStep ==
  \/ ~ Scanning /\ \E addr : SetBp(addr)
  \/ ~ Scanning /\ \E addr : SetNamedBp(addr)
  \/ ~ Scanning /\ \E addr : RmvBp(addr)
  \/ RmvBpStep
  \/ UNCHANGED bpVars

LEMMA ListIsChangedBySteps == [Next]_vars => ListStep
<1> SUFFICES ASSUME [Next]_vars PROVE ListStep  OBVIOUS
<1>1. CASE Load  BY <1>1 DEF Load, ListStep, bpVars
<1>2. CASE Posedge  BY <1>2 DEF Posedge, ListStep, bpVars
<1>3. CASE Negedge  BY <1>3 DEF Negedge, ListStep, bpVars
<1>4. CASE Callback
  BY <1>4 DEF Callback, HandleStp, StopAtOnce, Run, Step, ListStep, bpVars
<1>5. CASE RemoveLoop  BY <1>5 DEF RemoveLoop, ListStep
<1>6. CASE BreakpointCommand
  <2>1. ~ Scanning  BY <1>6 DEF BreakpointCommand, ReadsLine
  <2>2. CASE SetBpFails  BY <2>2 DEF SetBpFails, ListStep
  <2> QED  BY <1>6, <2>1, <2>2 DEF BreakpointCommand, ListStep
<1>7. CASE RemoveCommand
  BY <1>7 DEF RemoveCommand, ReadsLine, ListStep
<1>8. CASE Continue \/ StepCommand \/ ResetCommand \/ QuitCommand \/ OtherCommand
  BY <1>8 DEF Continue, StepCommand, ResetCommand, QuitCommand, OtherCommand, ListStep, bpVars
<1>9. CASE AnswerRestart \/ AnswerExit \/ MemoryCommand \/ AnswerFrom \/ AnswerTo
  BY <1>9 DEF AnswerRestart, AnswerExit, MemoryCommand, AnswerFrom, AnswerTo, OnlyTheUi,
              ListStep, bpVars
<1>10. CASE UserTypes  BY <1>10 DEF UserTypes, ListStep, bpVars
<1>11. CASE Ended \/ UNCHANGED vars  BY <1>11 DEF Ended, vars, ListStep
<1> QED
  BY <1>1, <1>2, <1>3, <1>4, <1>5, <1>6, <1>7, <1>8, <1>9, <1>10, <1>11
  DEF Next, Simulates, Commands

\* What BpListSound says of the entries, kept apart from its arithmetic.
OwnNames(list, names) ==
  /\ names = {list[i].symbol : i \in DOMAIN list} \ {NoSymbol}
  /\ \A i, j \in DOMAIN list :
       list[i].symbol = list[j].symbol /\ list[i].symbol # NoSymbol => i = j

LEMMA RoomSuffices ==
  ASSUME bpList \in Seq(Entries), bpSize \in Nat, Len(bpList) <= bpSize
  PROVE  Room \in Nat /\ Len(bpList) + 1 <= Room
<1>1. Len(bpList) \in Nat  OBVIOUS
<1>2. FirstSize \in Nat \ {0}  BY BreakpointsAssumption
<1> QED  BY <1>1, <1>2, SMT DEF Room

\* A new entry without a name, or with one nobody else has.
LEMMA AppendKeepsNames ==
  ASSUME NEW list \in Seq(Entries), NEW names, NEW e \in Entries, OwnNames(list, names),
         e.symbol \notin names
  PROVE  OwnNames(Append(list, e), names \union ({e.symbol} \ {NoSymbol}))
<1> DEFINE long == Append(list, e)
           n == Len(list)
<1>1. n \in Nat /\ DOMAIN list = 1..n  OBVIOUS
<1>2. /\ DOMAIN long = 1..(n + 1)
      /\ \A i \in 1..n : long[i] = list[i]
      /\ long[n + 1] = e
  BY <1>1, AppendProperties
<1>3. {long[i].symbol : i \in DOMAIN long} = {list[i].symbol : i \in DOMAIN list} \union {e.symbol}
  <2>1. 1..(n + 1) = (1..n) \union {n + 1}  BY <1>1
  <2> QED  BY <1>1, <1>2, <2>1
<1>4. ASSUME NEW i \in DOMAIN long, NEW j \in DOMAIN long,
             long[i].symbol = long[j].symbol, long[i].symbol # NoSymbol
      PROVE  i = j
  <2>1. \A k \in 1..n : long[k].symbol # NoSymbol => long[k].symbol # e.symbol
    BY <1>1, <1>2 DEF OwnNames
  <2>2. i \in (1..n) \union {n + 1} /\ j \in (1..n) \union {n + 1}
    BY <1>1, <1>2
  <2> QED  BY <1>1, <1>2, <1>4, <2>1, <2>2 DEF OwnNames
<1> QED  BY <1>3, <1>4 DEF OwnNames

\* An entry that goes takes its name along.
LEMMA RemoveAtKeepsNames ==
  ASSUME NEW list \in Seq(Entries), NEW names, NEW k \in 1..Len(list), OwnNames(list, names)
  PROVE  OwnNames(RemoveAt(list, k), names \ {list[k].symbol})
<1> DEFINE short == RemoveAt(list, k)
           n == Len(list)
           from(i) == IF i < k THEN i ELSE i + 1
<1>1. n \in Nat /\ k \in Nat /\ 1 <= k /\ k <= n /\ DOMAIN list = 1..n  OBVIOUS
<1>2. /\ short \in Seq(Entries) /\ Len(short) = n - 1
      /\ \A i \in 1..(n - 1) : short[i] = list[from(i)]
  <2>1. \A i \in 1..(n - 1) : short[i] = IF i < k THEN list[i] ELSE list[i + 1]
    BY RemoveAtShifts
  <2> QED  BY <2>1, RemoveAtShifts
<1>3. DOMAIN short = 1..(n - 1)  BY <1>1, <1>2
<1>4. \A i \in 1..(n - 1) : from(i) \in (1..n) \ {k}
  BY <1>1
<1>5. \A j \in (1..n) \ {k} : \E i \in 1..(n - 1) : from(i) = j
  <2> SUFFICES ASSUME NEW j \in (1..n) \ {k} PROVE \E i \in 1..(n - 1) : from(i) = j
    OBVIOUS
  <2>1. CASE j < k  BY <1>1, <2>1
  <2>2. CASE ~ (j < k)
    <3>1. j - 1 \in 1..(n - 1) /\ from(j - 1) = j  BY <1>1, <2>2
    <3> QED  BY <3>1
  <2> QED  BY <2>1, <2>2
<1>6. \A i, j \in 1..(n - 1) : from(i) = from(j) => i = j
  BY <1>1
<1> HIDE DEF from
<1>7. {short[i].symbol : i \in DOMAIN short} = {list[j].symbol : j \in (1..n) \ {k}}
  <2> HIDE DEF short
  <2>1. ASSUME NEW i \in DOMAIN short
        PROVE  short[i].symbol \in {list[j].symbol : j \in (1..n) \ {k}}
    <3>1. from(i) \in (1..n) \ {k} /\ short[i] = list[from(i)]
      BY <1>2, <1>3, <1>4, <2>1
    <3> QED  BY <3>1
  <2>2. ASSUME NEW j \in (1..n) \ {k}
        PROVE  list[j].symbol \in {short[i].symbol : i \in DOMAIN short}
    <3>1. PICK i \in 1..(n - 1) : from(i) = j
      BY <1>5, <2>2
    <3>2. i \in DOMAIN short /\ short[i] = list[j]
      BY <1>2, <1>3, <3>1
    <3> QED  BY <3>2
  <2> QED  BY <2>1, <2>2
<1> HIDE DEF short
<1>8. {list[j].symbol : j \in (1..n) \ {k}} \ {NoSymbol} = names \ {list[k].symbol}
  BY <1>1 DEF OwnNames
<1>9. \A i, j \in DOMAIN short :
        short[i].symbol = short[j].symbol /\ short[i].symbol # NoSymbol => i = j
  BY <1>1, <1>2, <1>3, <1>4, <1>6 DEF OwnNames
<1> QED  BY <1>7, <1>8, <1>9 DEF OwnNames, short

----------------------------------------------------------------------------
(* The invariant.                                                          *)

LEMMA InitOfList == Init => ListInv /\ ScanInv
<1> SUFFICES ASSUME Init PROVE ListInv /\ ScanInv  OBVIOUS
<1>1. bpList = <<>> /\ bpSize = 0 /\ heap = {} /\ scan = NoScan
  BY DEF Init, BpInit
<1>2. DOMAIN bpList = {}  BY <1>1
<1>3. {bpList[i].symbol : i \in DOMAIN bpList} = {}  BY <1>2
<1>4. BpListSound  BY <1>1, <1>2, <1>3 DEF BpListSound
<1> QED  BY <1>1, <1>4 DEF ListInv, ScanInv

\* The invariant's parts, as the two lemmas on names speak of them.
LEMMA ListInvParts ==
  ListInv <=> /\ bpList \in Seq(Entries) /\ bpSize \in Nat
              /\ Len(bpList) <= bpSize /\ OwnNames(bpList, heap)
  BY DEF ListInv, BpListSound, OwnNames

\* A new breakpoint has room, and a name of its own when it has one.
LEMMA InsertKeepsList ==
  ASSUME ListInv, ScanInv, ~ Scanning,
         NEW addr, NEW block \in (Blocks \ heap) \union {NoSymbol},
         Insert(addr, block), heap' = heap \union ({block} \ {NoSymbol})
  PROVE  ListInv' /\ ScanInv'
<1> DEFINE e == [address |-> addr, symbol |-> block]
<1>1. /\ bpList \in Seq(Entries) /\ bpSize \in Nat
      /\ Len(bpList) <= bpSize /\ OwnNames(bpList, heap)
  BY ListInvParts
<1>2. e \in Entries /\ bpList' = Append(bpList, e) /\ bpSize' = Room /\ scan' = scan
  BY DEF Insert, Entries
<1>3. e.symbol = block /\ block \notin heap
  BY <1>1 DEF OwnNames
<1> HIDE DEF e
<1>4. bpList' \in Seq(Entries) /\ Len(bpList') = Len(bpList) + 1
  BY <1>1, <1>2, AppendProperties
<1>5. bpSize' \in Nat /\ Len(bpList') <= bpSize'
  BY <1>1, <1>2, <1>4, RoomSuffices
<1>6. OwnNames(bpList', heap')
  BY <1>1, <1>2, <1>3, AppendKeepsNames
<1>7. ListInv'
  BY <1>4, <1>5, <1>6 DEF ListInv, BpListSound, OwnNames
<1> QED  BY <1>2, <1>7 DEF ScanInv, Scanning

\* Skipping an entry, or taking it out, leaves no match behind the scan.
LEMMA ScanKeepsList ==
  ASSUME ListInv, ScanInv, RmvBpStep
  PROVE  ListInv' /\ ScanInv'
<1>1. /\ bpList \in Seq(Entries) /\ bpSize \in Nat
      /\ Len(bpList) <= bpSize /\ OwnNames(bpList, heap)
  BY ListInvParts
<1>2. /\ Scanning
      /\ DOMAIN scan = {"address", "i"}
      /\ scan.i \in Nat \ {0} /\ scan.i <= Len(bpList) + 1
      /\ \A j \in 1..(scan.i - 1) : bpList[j].address # scan.address
  BY DEF RmvBpStep, RmvBpSkip, RmvBpTake, RmvBpDone, Scanning, ScanInv
<1>3. Len(bpList) \in Nat  BY <1>1
<1>4. CASE RmvBpSkip
  <2>1. /\ UNCHANGED <<bpList, bpSize, heap>> /\ scan.i <= Len(bpList)
        /\ bpList[scan.i].address # scan.address
    BY <1>4 DEF RmvBpSkip, AtMatch
  <2>2. /\ DOMAIN scan' = {"address", "i"}
        /\ scan'.i = scan.i + 1 /\ scan'.address = scan.address
    BY <1>2, <1>4 DEF RmvBpSkip
  <2>3. \A j \in 1..scan.i : j \in 1..(scan.i - 1) \/ j = scan.i
    BY <1>2
  <2>4. ASSUME NEW j \in 1..(scan'.i - 1)
        PROVE  bpList'[j].address # scan'.address
    BY <1>2, <2>1, <2>2, <2>3
  <2>5. scan'.i \in Nat \ {0} /\ scan'.i <= Len(bpList') + 1
    BY <1>2, <1>3, <2>1, <2>2
  <2>6. ListInv'  BY <2>1 DEF ListInv, BpListSound
  <2> QED  BY <2>2, <2>4, <2>5, <2>6 DEF ScanInv
<1>5. CASE RmvBpTake
  <2>1. /\ scan.i \in 1..Len(bpList)
        /\ bpList' = RemoveAt(bpList, scan.i)
        /\ heap' = heap \ {bpList[scan.i].symbol}
        /\ UNCHANGED <<bpSize, scan>>
    BY <1>2, <1>3, <1>5 DEF RmvBpTake, AtMatch
  <2>2. /\ bpList' \in Seq(Entries) /\ Len(bpList') = Len(bpList) - 1
        /\ \A j \in 1..(Len(bpList) - 1) :
             bpList'[j] = IF j < scan.i THEN bpList[j] ELSE bpList[j + 1]
    BY <1>1, <2>1, RemoveAtShifts
  <2>3. OwnNames(bpList', heap')
    BY <1>1, <2>1, RemoveAtKeepsNames
  <2>4. Len(bpList') <= bpSize' /\ bpSize' \in Nat
    BY <1>1, <1>3, <2>1, <2>2
  <2>5. ListInv'
    BY <2>2, <2>3, <2>4 DEF ListInv, BpListSound, OwnNames
  <2>6. ASSUME NEW j \in 1..(scan'.i - 1)
        PROVE  bpList'[j].address # scan'.address
    <3>1. j \in 1..(Len(bpList) - 1) /\ j < scan.i /\ j \in 1..(scan.i - 1)
      BY <1>2, <1>3, <2>1
    <3> QED  BY <1>2, <2>1, <2>2, <3>1
  <2>7. scan'.i <= Len(bpList') + 1
    BY <1>3, <2>1, <2>2
  <2> QED  BY <1>2, <2>1, <2>5, <2>6, <2>7 DEF ScanInv
<1>6. CASE RmvBpDone
  BY <1>6 DEF RmvBpDone, ListInv, BpListSound, ScanInv
<1> QED  BY <1>4, <1>5, <1>6 DEF RmvBpStep

LEMMA ListStepKeepsList == ListInv /\ ScanInv /\ ListStep => ListInv' /\ ScanInv'
<1> SUFFICES ASSUME ListInv, ScanInv, ListStep PROVE ListInv' /\ ScanInv'
  OBVIOUS
<1>1. ASSUME NEW addr, ~ Scanning, SetBp(addr)
      PROVE  ListInv' /\ ScanInv'
  <2>1. /\ NoSymbol \in (Blocks \ heap) \union {NoSymbol}
        /\ Insert(addr, NoSymbol)
        /\ heap' = heap \union ({NoSymbol} \ {NoSymbol})
    BY <1>1 DEF SetBp
  <2> QED  BY <1>1, <2>1, InsertKeepsList
<1>2. ASSUME NEW addr, ~ Scanning, SetNamedBp(addr)
      PROVE  ListInv' /\ ScanInv'
  <2>1. PICK b \in Blocks \ heap : Insert(addr, b) /\ heap' = heap \union {b}
    BY <1>2 DEF SetNamedBp
  <2>2. {b} \ {NoSymbol} = {b}
    BY BreakpointsAssumption
  <2>3. /\ b \in (Blocks \ heap) \union {NoSymbol}
        /\ heap' = heap \union ({b} \ {NoSymbol})
    BY <2>1, <2>2
  <2> QED  BY <1>2, <2>1, <2>3, InsertKeepsList
<1>3. ASSUME NEW addr, RmvBp(addr)
      PROVE  ListInv' /\ ScanInv'
  <2>1. /\ scan' = [address |-> addr, i |-> 1]
        /\ UNCHANGED <<bpList, bpSize, heap>>
    BY <1>3 DEF RmvBp
  <2>2. ListInv'  BY <2>1 DEF ListInv, BpListSound
  <2>3. Len(bpList') \in Nat  BY <2>2 DEF ListInv
  <2>4. DOMAIN scan' = {"address", "i"} /\ scan'.i = 1
    BY <2>1
  <2>5. \A j \in 1..(scan'.i - 1) : bpList'[j].address # scan'.address
    BY <2>4
  <2> QED  BY <2>2, <2>3, <2>4, <2>5 DEF ScanInv
<1>4. CASE UNCHANGED bpVars
  BY <1>4 DEF bpVars, ListInv, BpListSound, ScanInv
<1> QED  BY <1>1, <1>2, <1>3, <1>4, ScanKeepsList DEF ListStep

LEMMA ListInvariant == Spec => [](ListInv /\ ScanInv)
<1>1. ListInv /\ ScanInv /\ [Next]_vars => ListInv' /\ ScanInv'
  BY ListIsChangedBySteps, ListStepKeepsList
<1> QED  BY <1>1, InitOfList, PTL DEF Spec

(***************************************************************************)
(* The breakpoint list's memory is safe: it fits its array, each name in   *)
(* it is allocated and its own, and none leaks (dbgSetBp, dbgRmvBp), for any*)
(* sizes, any symbols and any order of commands.                           *)
(***************************************************************************)
THEOREM BpListSoundHolds == Spec => []BpListSound
<1>1. ListInv => BpListSound  BY DEF ListInv
<1> QED  BY <1>1, ListInvariant, PTL

(***************************************************************************)
(* dbgRmvBp leaves no breakpoint at its address, however many there were   *)
(* and however they lay: behind its scan no entry matches.                 *)
(***************************************************************************)
THEOREM RemovalIsCompleteHolds == Spec => RemovalIsComplete
<1>1. ListInv /\ ScanInv /\ [Next]_vars =>
        [Scanning /\ scan' = NoScan => scan.address \notin BpAddresses]_bpVars
  <2> SUFFICES ASSUME ListInv, ScanInv, ListStep, Scanning, scan' = NoScan
               PROVE  scan.address \notin BpAddresses
    BY ListIsChangedBySteps
  <2>1. scan # NoScan  BY DEF Scanning
  <2>2. DOMAIN scan = {"address", "i"}  BY <2>1 DEF ScanInv
  <2>3. ~ RmvBpTake /\ ~ UNCHANGED bpVars
    BY <2>1 DEF RmvBpTake, bpVars
  <2>4. ~ RmvBpSkip
    <3>1. DOMAIN NoScan = {}  BY DEF NoScan
    <3>2. ASSUME RmvBpSkip PROVE DOMAIN scan' = {"address", "i"}
      BY <2>2, <3>2 DEF RmvBpSkip
    <3> QED  BY <3>1, <3>2
  <2>5. RmvBpDone  BY <2>3, <2>4 DEF ListStep, RmvBpStep
  <2>6. scan.i \in Nat /\ Len(bpList) \in Nat /\ scan.i > Len(bpList)
    BY <2>1, <2>5 DEF RmvBpDone, ScanInv, ListInv
  <2>7. ASSUME NEW j \in DOMAIN bpList PROVE bpList[j].address # scan.address
    <3>1. j \in 1..(scan.i - 1)  BY <2>6, <2>7 DEF ListInv
    <3> QED  BY <2>1, <3>1 DEF ScanInv
  <2> QED  BY <2>7 DEF BpAddresses
<1> QED  BY <1>1, ListInvariant, PTL DEF Spec, RemovalIsComplete

----------------------------------------------------------------------------
(* The machine, its reset and the modes.                                   *)

\* TypeOK without the keyboard and the two tables, and what the refinement
\* needs: an instruction is fetched only where the one before it leads, the
\* debugger is called only for an instruction that no reset has undone, and it
\* never stands in the command loop at an STP.
ClockInv ==
  /\ clk \in {"low", "high"} /\ executing \in DOMAIN Follow
  /\ fetching \in {None} \union Follow[executing]
  /\ fetch \in BOOLEAN /\ reset \in BOOLEAN /\ resetReq \in BOOLEAN
  /\ clk = "high" /\ fetch => ~ Restarting

ResetInv == rstCnt \in 0..ResetCycles /\ (reset <=> rstCnt > 0)

ModeInv ==
  /\ mode \in {"STOPPED", "STEPPING", "RUNNING"} /\ stepsLeft \in Nat
  /\ polls \in 0..(PollInterval - 1)
  /\ ui \in {"loading", "running", "command", "stp", "finished"} \union Questions
  /\ ui \in {"command", "stp"} \union Questions => mode = "STOPPED" /\ clk = "high" /\ fetch
  /\ ui \in {"command"} \union Questions => executing \notin Halts
  /\ ui = "loading" => executing = Vector /\ mode = "STOPPED" /\ clk = "low"

MachineInv == ClockInv /\ ResetInv /\ ModeInv

LEMMA InitOfMachine == Init => MachineInv
<1> SUFFICES ASSUME Init PROVE MachineInv  OBVIOUS
<1>1. ClockInv
  BY DebuggerAssumption DEF Init, ClockInv
<1>2. ResetInv
  <2>1. 0 \in 0..ResetCycles  BY DebuggerAssumption
  <2> QED  BY <2>1 DEF Init, ResetInv
<1>3. ModeInv
  <2>1. 0 \in 0..(PollInterval - 1)  BY DebuggerAssumption
  <2> QED  BY <2>1 DEF Init, ModeInv, Questions
<1> QED  BY <1>1, <1>2, <1>3 DEF MachineInv

LEMMA CountFetchTyped ==
  ASSUME polls \in 0..(PollInterval - 1), CountFetch
  PROVE  polls' \in 0..(PollInterval - 1)
<1>1. PollInterval \in Nat \ {0}  BY DebuggerAssumption
<1>2. \A n \in Nat : n % PollInterval \in 0..(PollInterval - 1)  BY <1>1
<1> QED  BY <1>2 DEF CountFetch

\* The clock and the reset pulse.
LEMMA ClockKept == MachineInv /\ [Next]_vars => ClockInv'
<1> SUFFICES ASSUME MachineInv, [Next]_vars PROVE ClockInv'  OBVIOUS
<1> USE DEF MachineInv
<1>1. CASE Posedge
  <2>1. clk' = "high" /\ fetch' = FetchHook /\ Cpu /\ ResetPulse
    BY <1>1 DEF Posedge
  <2>2. executing' \in DOMAIN Follow
    BY <2>1, DebuggerAssumption DEF Cpu, ClockInv
  <2>3. fetching' \in {None} \union Follow[executing']
    BY <2>1 DEF Cpu
  <2>4. reset' \in BOOLEAN /\ resetReq' \in BOOLEAN
    BY <2>1 DEF ResetPulse, ClockInv
  <2>5. fetch' \in BOOLEAN  BY <2>1 DEF FetchHook
  <2>6. ASSUME fetch' PROVE ~ Restarting'
    <3>1. fetching # None /\ ~ reset /\ ~ resetReq /\ rstCnt = 0
      BY <2>1, <2>6 DEF FetchHook
    <3>2. ~ resetReq' /\ ~ reset'
      BY <2>1, <3>1 DEF ResetPulse
    <3>3. executing' = fetching /\ fetching \in Follow[executing]
      BY <2>1, <3>1 DEF Cpu, ClockInv
    <3>4. executing' # Vector
      BY <3>3, DebuggerAssumption DEF ClockInv
    <3> QED  BY <3>2, <3>4 DEF Restarting
  <2> QED  BY <2>1, <2>2, <2>3, <2>4, <2>5, <2>6 DEF ClockInv
<1>2. CASE UNCHANGED clockVars
  BY <1>2 DEF clockVars, ClockInv, Restarting
<1>3. ASSUME clk' = "low", resetReq' \in BOOLEAN,
             UNCHANGED <<executing, fetching, fetch, reset>>
      PROVE  ClockInv'
  BY <1>3 DEF ClockInv
<1>4. CASE Load \/ RemoveLoop \/ UserTypes \/ Ended \/ UNCHANGED vars
  BY <1>2, <1>4 DEF Load, RemoveLoop, UserTypes, Ended, vars
<1>5. CASE Negedge
  BY <1>3, <1>5 DEF Negedge, ClockInv
<1>6. CASE Callback
  BY <1>2, <1>3, <1>6
  DEF Callback, HandleStp, StopAtOnce, Run, Step, Prompt, Return, ClockInv
<1>7. CASE Commands
  <2>1. CASE \/ BreakpointCommand \/ RemoveCommand \/ OtherCommand \/ QuitCommand \/ AnswerExit
             \/ MemoryCommand \/ AnswerFrom \/ AnswerTo
    BY <1>2, <2>1
    DEF BreakpointCommand, RemoveCommand, OtherCommand, QuitCommand, AnswerExit, Finish,
        MemoryCommand, AnswerFrom, AnswerTo, OnlyTheUi
  <2>2. CASE Continue \/ StepCommand
    BY <1>3, <2>2 DEF Continue, StepCommand, ResumeMachine, ClockInv
  <2>3. CASE ResetCommand \/ AnswerRestart
    BY <1>3, <2>3 DEF ResetCommand, AnswerRestart, ResumeMachine, DbgResetMachine
  <2> QED  BY <1>7, <2>1, <2>2, <2>3 DEF Commands
<1> QED  BY <1>1, <1>4, <1>5, <1>6, <1>7 DEF Next, Simulates

LEMMA OnlyPosedgeClocksReset ==
  [Next]_vars => Posedge \/ UNCHANGED <<reset, rstCnt>>
<1> SUFFICES ASSUME [Next]_vars, ~ Posedge PROVE UNCHANGED <<reset, rstCnt>>
  OBVIOUS
<1>1. CASE Load \/ RemoveLoop \/ UserTypes \/ Ended \/ UNCHANGED vars
  BY <1>1 DEF Load, RemoveLoop, UserTypes, Ended, vars, clockVars
<1>2. CASE Negedge  BY <1>2 DEF Negedge
<1>3. CASE Callback
  BY <1>3 DEF Callback, HandleStp, StopAtOnce, Run, Step, Prompt, Return, clockVars
<1>4. CASE Commands
  BY <1>4 DEF Commands, BreakpointCommand, RemoveCommand, OtherCommand, QuitCommand,
              AnswerExit, Finish, Continue, StepCommand, ResetCommand, AnswerRestart,
              MemoryCommand, AnswerFrom, AnswerTo, OnlyTheUi, ResumeMachine, clockVars
<1> QED  BY <1>1, <1>2, <1>3, <1>4 DEF Next, Simulates

LEMMA ResetKept == MachineInv /\ [Next]_vars => ResetInv'
<1> SUFFICES ASSUME ResetInv, [Next]_vars PROVE ResetInv'  BY DEF MachineInv
<1>1. CASE Posedge
  <2>1. ResetPulse  BY <1>1 DEF Posedge
  <2>2. ResetCycles \in Nat \ {0}  BY DebuggerAssumption
  <2>3. CASE resetReq
    BY <2>1, <2>2, <2>3 DEF ResetPulse, ResetInv
  <2>4. CASE ~ resetReq /\ rstCnt = 1
    BY <2>1, <2>2, <2>4 DEF ResetPulse, ResetInv
  <2>5. CASE ~ resetReq /\ rstCnt > 1
    <3>1. rstCnt' = rstCnt - 1 /\ UNCHANGED <<resetReq, reset>>
      BY <2>1, <2>5 DEF ResetPulse
    <3>2. rstCnt' \in 0..ResetCycles /\ rstCnt' > 0
      BY <2>2, <2>5, <3>1 DEF ResetInv
    <3> QED  BY <2>5, <3>1, <3>2 DEF ResetInv
  <2>6. CASE ~ resetReq /\ rstCnt = 0
    <3>1. UNCHANGED <<resetReq, rstCnt, reset>>
      BY <2>1, <2>6 DEF ResetPulse
    <3> QED  BY <3>1 DEF ResetInv
  <2>7. rstCnt = 0 \/ rstCnt = 1 \/ rstCnt > 1
    BY <2>2 DEF ResetInv
  <2> QED  BY <2>3, <2>4, <2>5, <2>6, <2>7
<1>2. CASE UNCHANGED <<reset, rstCnt>>
  BY <1>2 DEF ResetInv
<1> QED  BY <1>1, <1>2, OnlyPosedgeClocksReset

\* The modes and the command loop.
LEMMA ModeKept == MachineInv /\ [Next]_vars => ModeInv'
<1> SUFFICES ASSUME ClockInv, ModeInv, [Next]_vars PROVE ModeInv'  BY DEF MachineInv
<1>1. CASE Load
  BY <1>1 DEF Load, ModeInv, clockVars, Questions
<1>2. CASE Posedge \/ Negedge
  <2>1. ui = "running" /\ UNCHANGED <<mode, stepsLeft, polls, ui>>
    BY <1>2 DEF Posedge, Negedge, controlVars
  <2> QED  BY <2>1 DEF ModeInv, Questions
<1>3. CASE Callback
  <2>1. OnFetch /\ CountFetch
    BY <1>3 DEF Callback, HandleStp, StopAtOnce, Run, Step
  <2>2. polls' \in 0..(PollInterval - 1)
    BY <2>1, CountFetchTyped DEF ModeInv
  <2>3. stepsLeft' \in Nat
    BY <1>3 DEF Callback, HandleStp, StopAtOnce, Run, Step, StepOn, ModeInv
  <2>4. \/ ui' = "running" /\ mode' = mode
        \/ /\ ui' \in {"command", "stp"} /\ mode' = "STOPPED" /\ UNCHANGED clockVars
           /\ ui' = "command" => executing \notin Halts
    BY <1>3 DEF Callback, HandleStp, StopAtOnce, Run, Step, Prompt, Return
  <2> QED  BY <2>1, <2>2, <2>3, <2>4 DEF ModeInv, OnFetch, clockVars, Questions
<1>4. CASE RemoveLoop \/ BreakpointCommand \/ RemoveCommand \/ OtherCommand \/ UserTypes
  <2>1. UNCHANGED <<clockVars, controlVars>>
    BY <1>4 DEF RemoveLoop, BreakpointCommand, RemoveCommand, OtherCommand, UserTypes
  <2> QED  BY <2>1 DEF clockVars, controlVars, ModeInv
<1>5. CASE Continue \/ StepCommand \/ ResetCommand \/ AnswerRestart
  <2>1. ui' = "running" /\ polls' = polls
    BY <1>5 DEF Continue, StepCommand, ResetCommand, AnswerRestart, ResumeMachine
  <2>2. mode' \in {"STOPPED", "STEPPING", "RUNNING"} /\ stepsLeft' \in Nat
    <3>1. CASE Continue  BY <3>1 DEF Continue, ModeInv
    <3>2. CASE StepCommand  BY <3>2, DebuggerAssumption DEF StepCommand
    <3>3. CASE ResetCommand \/ AnswerRestart
      <4>1. DbgResetMachine  BY <3>3, Zenon DEF ResetCommand, AnswerRestart
      <4> QED  BY <4>1 DEF DbgResetMachine
    <3> QED  BY <1>5, <3>1, <3>2, <3>3
  <2> QED  BY <2>1, <2>2 DEF ModeInv, Questions
<1>6. CASE QuitCommand \/ AnswerExit
  <2>1. ui' = "finished" /\ mode' = "RUNNING" /\ UNCHANGED <<stepsLeft, polls>>
    BY <1>6 DEF QuitCommand, AnswerExit, Finish
  <2> QED  BY <2>1 DEF ModeInv, Questions
<1>7. CASE MemoryCommand \/ AnswerFrom \/ AnswerTo
  <2>1. ui \in {"command"} \union Questions /\ UNCHANGED <<clockVars, mode, stepsLeft, polls>>
    BY <1>7 DEF MemoryCommand, AnswerFrom, AnswerTo, ReadsLine, OnlyTheUi, Questions
  <2>2. ui' \in {"command"} \union Questions
    BY <1>7 DEF MemoryCommand, AnswerFrom, AnswerTo, Questions
  <2> QED  BY <2>1, <2>2 DEF clockVars, ModeInv, Questions
<1>8. CASE Ended \/ UNCHANGED vars
  BY <1>8 DEF Ended, vars, clockVars, controlVars, ModeInv
<1> QED
  BY <1>1, <1>2, <1>3, <1>4, <1>5, <1>6, <1>7, <1>8 DEF Next, Simulates, Commands

LEMMA MachineInvariant == Spec => []MachineInv
<1>1. MachineInv /\ [Next]_vars => MachineInv'
  BY ClockKept, ResetKept, ModeKept DEF MachineInv
<1> QED  BY <1>1, InitOfMachine, PTL DEF Spec

----------------------------------------------------------------------------
(* Types.                                                                  *)

KeysInv == tty \in Seq(Keys) /\ typed \in 0..MaxKeys

\* What is left of the keys behind any position of the line is keys.
LEMMA RestOfKeys ==
  ASSUME tty \in Seq(Keys), NEW i \in DOMAIN tty
  PROVE  SubSeq(tty, i + 1, Len(tty)) \in Seq(Keys)
<1>1. i \in 1..Len(tty) /\ Len(tty) \in Nat  OBVIOUS
<1>2. \A j \in (i + 1)..Len(tty) : tty[j] \in Keys  BY <1>1
<1> QED  BY <1>1, <1>2, SubSeqProperties

\* The first Enter and the first Ctrl-C are where CHOOSE looks for them.
LEMMA FirstEnterIsEnter ==
  ASSUME tty \in Seq(Keys), LineIsTyped
  PROVE  FirstEnter \in DOMAIN tty
<1>1. Enters \subseteq Nat /\ Enters # {}
  BY DEF Enters, LineIsTyped
<1>2. \E i \in Enters : \A j \in Enters : i <= j
  BY <1>1, LeastNumber
<1>3. FirstEnter \in Enters  BY <1>2 DEF FirstEnter
<1> QED  BY <1>3 DEF Enters

LEMMA CutIsInLine ==
  ASSUME tty \in Seq(Keys)
  PROVE  Cut \in DOMAIN tty \/ Cut = Len(tty) + 1
<1>1. CASE Interrupts = {}  BY <1>1 DEF Cut
<1>2. CASE Interrupts # {}
  <2>1. Interrupts \subseteq Nat  BY DEF Interrupts
  <2>2. \E i \in Interrupts : \A j \in Interrupts : i <= j
    BY <1>2, <2>1, LeastNumber
  <2>3. Cut \in Interrupts  BY <1>2, <2>2 DEF Cut
  <2> QED  BY <2>3 DEF Interrupts
<1> QED  BY <1>1, <1>2

LEMMA PollKeepsKeys ==
  ASSUME tty \in Seq(Keys), PollTerminal
  PROVE  tty' \in Seq(Keys)
<1>1. CASE Cut \in DOMAIN tty
  BY <1>1, RestOfKeys DEF PollTerminal
<1>2. CASE Cut = Len(tty) + 1
  <2>1. tty' = SubSeq(tty, Len(tty) + 2, Len(tty))
    BY <1>2 DEF PollTerminal
  <2>2. Len(tty) \in Nat  OBVIOUS
  <2> QED  BY <2>1, <2>2, SubSeqProperties
<1> QED  BY <1>1, <1>2, CutIsInLine

LEMMA LineKeepsKeys ==
  ASSUME tty \in Seq(Keys), TakesLine
  PROVE  tty' \in Seq(Keys) /\ typed' = typed
<1>1. CASE LineIsTyped
  BY <1>1, FirstEnterIsEnter, RestOfKeys DEF TakesLine
<1>2. CASE ~ LineIsTyped
  BY <1>2 DEF TakesLine
<1> QED  BY <1>1, <1>2

\* Every command, and every answer to `m`, takes a line.
LEMMA CommandTakesLine ==
  ASSUME \/ Continue \/ StepCommand \/ ResetCommand \/ QuitCommand
         \/ BreakpointCommand \/ RemoveCommand \/ OtherCommand
         \/ MemoryCommand \/ AnswerFrom \/ AnswerTo
  PROVE  TakesLine /\ ui \in {"command"} \union Questions
<1>1. \A isIt : ReadsLine(isIt) => TakesLine /\ ui = "command"  BY DEF ReadsLine
<1>2. CASE AnswerFrom \/ AnswerTo
  BY <1>2 DEF AnswerFrom, AnswerTo, Questions
<1>3. CASE ~ (AnswerFrom \/ AnswerTo)
  <2>1. \E isIt : ReadsLine(isIt)
    BY <1>3, Zenon DEF Continue, StepCommand, ResetCommand, QuitCommand,
       BreakpointCommand, RemoveCommand, OtherCommand, MemoryCommand
  <2> QED  BY <1>1, <2>1
<1> QED  BY <1>2, <1>3

LEMMA KeysKept == KeysInv /\ [Next]_vars => KeysInv'
<1> SUFFICES ASSUME KeysInv, [Next]_vars PROVE KeysInv'  OBVIOUS
<1>1. CASE UNCHANGED keyVars  BY <1>1 DEF keyVars, KeysInv
<1>2. ASSUME TakesLine PROVE KeysInv'
  BY <1>2, LineKeepsKeys DEF KeysInv
<1>3. CASE Load \/ Posedge \/ Negedge \/ RemoveLoop \/ Ended \/ UNCHANGED vars
  BY <1>1, <1>3 DEF Load, Posedge, Negedge, RemoveLoop, Ended, vars
<1>4. CASE Callback
  <2>1. UNCHANGED keyVars \/ PollTerminal
    BY <1>4 DEF Callback, HandleStp, StopAtOnce, Run, Step
  <2>2. CASE PollTerminal
    BY <2>2, PollKeepsKeys DEF PollTerminal, KeysInv
  <2> QED  BY <1>1, <2>1, <2>2
<1>5. CASE AnswerRestart \/ AnswerExit
  <2>1. typed' = typed /\ tty' = IF tty = <<>> THEN tty ELSE Tail(tty)
    BY <1>5 DEF AnswerRestart, AnswerExit
  <2>2. tty # <<>> => Tail(tty) \in Seq(Keys)
    BY HeadTailProperties DEF KeysInv
  <2> QED  BY <2>1, <2>2 DEF KeysInv
<1>6. CASE Continue \/ StepCommand \/ ResetCommand \/ QuitCommand
             \/ BreakpointCommand \/ RemoveCommand \/ OtherCommand
             \/ MemoryCommand \/ AnswerFrom \/ AnswerTo
  BY <1>2, <1>6, CommandTakesLine
<1>7. CASE UserTypes
  <2>1. /\ \E k \in Keys : tty' = Append(tty, k)
        /\ typed' = typed + 1 /\ typed < MaxKeys
    BY <1>7 DEF UserTypes
  <2>2. MaxKeys \in Nat  BY DebuggerAssumption
  <2> QED  BY <2>1, <2>2, AppendProperties DEF KeysInv
<1> QED
  BY <1>3, <1>4, <1>5, <1>6, <1>7 DEF Next, Simulates, Commands

\* The first entry of a name, which the search of `b` and `rb` finds.
LEMMA FirstMatchIsFirst ==
  ASSUME symtab \in Seq([symbolname : STRING, addr : 0..(AddrSpace - 1)]),
         NEW name, Knows(name)
  PROVE  /\ FirstMatch(name) \in DOMAIN symtab
         /\ symtab[FirstMatch(name)].symbolname = name
         /\ \A i \in DOMAIN symtab : symtab[i].symbolname = name => FirstMatch(name) <= i
<1>1. Matches(name) \subseteq Nat /\ Matches(name) # {}
  BY DEF Matches, Knows
<1>2. \E i \in Matches(name) : \A j \in Matches(name) : i <= j
  BY <1>1, LeastNumber
<1>3. /\ FirstMatch(name) \in Matches(name)
      /\ \A j \in Matches(name) : FirstMatch(name) <= j
  BY <1>2 DEF FirstMatch
<1> QED  BY <1>3 DEF Matches

LEMMA ResolveTyped ==
  ASSUME SymTypeOK, NEW name, Knows(name)
  PROVE  Resolve(name) \in Nat
<1>1. FirstMatch(name) \in DOMAIN symtab
  BY FirstMatchIsFirst DEF SymTypeOK
<1>2. symtab[FirstMatch(name)] \in [symbolname : STRING, addr : 0..(AddrSpace - 1)]
  <2>1. symtab \in Seq([symbolname : STRING, addr : 0..(AddrSpace - 1)])
    BY DEF SymTypeOK
  <2>2. FirstMatch(name) \in 1..Len(symtab)
    BY <1>1, <2>1
  <2> QED  BY <2>1, <2>2, ElementOfSeq, Zenon
<1> QED  BY <1>2 DEF Resolve

LEMMA SymTypeInit == Init => SymTypeOK
<1> SUFFICES ASSUME SymInit PROVE SymTypeOK  BY DEF Init
<1>1. symtab \in Seq([symbolname : STRING, addr : 0..(AddrSpace - 1)])
  BY DEF SymInit
<1>2. symCapacity \in Nat /\ truncated \in BOOLEAN
  BY DEF SymInit
<1>3. Len(SymFiles) \in Nat  BY DebugSymbolsAssumption
<1>4. reading \in [file : 1..(Len(SymFiles) + 1), line : Nat \ {0}]
  BY <1>3 DEF SymInit
<1> QED  BY <1>1, <1>2, <1>4 DEF SymTypeOK

LEMMA OnlyLoadingReads == [Next]_vars => ReadStep \/ UNCHANGED symVars
<1>1. Load => ReadStep  BY DEF Load
<1>2. Posedge \/ Negedge \/ RemoveLoop \/ UserTypes \/ Ended => UNCHANGED symVars
  BY DEF Posedge, Negedge, RemoveLoop, UserTypes, Ended, vars
<1>3. Callback => UNCHANGED symVars
  BY DEF Callback, HandleStp, StopAtOnce, Run, Step
<1>4. TakesLine => UNCHANGED symVars
  BY DEF TakesLine
<1>5. Continue \/ StepCommand \/ ResetCommand \/ QuitCommand \/ BreakpointCommand
        \/ RemoveCommand \/ OtherCommand \/ MemoryCommand \/ AnswerFrom \/ AnswerTo
        => TakesLine
  BY CommandTakesLine
<1>6. AnswerRestart \/ AnswerExit => UNCHANGED symVars
  BY DEF AnswerRestart, AnswerExit
<1>7. UNCHANGED vars => UNCHANGED symVars  BY DEF vars
<1> QED
  BY <1>1, <1>2, <1>3, <1>4, <1>5, <1>6, <1>7, Zenon DEF Next, Simulates, Commands

LEMMA SymTypeKept == SymTypeOK /\ [Next]_vars => SymTypeOK'
<1> SUFFICES ASSUME SymTypeOK, ReadStep PROVE SymTypeOK'
  <2>1. ASSUME UNCHANGED symVars, SymTypeOK PROVE SymTypeOK'
    BY <2>1 DEF symVars, SymTypeOK
  <2> QED  BY <2>1, OnlyLoadingReads
<1>1. /\ Loading /\ Len(SymFiles) \in Nat
      /\ reading.file \in 1..Len(SymFiles)
      /\ SymFiles[reading.file] \in Seq([label : BOOLEAN, caps : BOOLEAN, name : STRING, val : Nat])
  BY DebugSymbolsAssumption
  DEF SymTypeOK, ReadStep, OpenTable, OpenTableFails, SkipLine, AddSymbol, GiveUpFile,
      EndFile, Loading
<1>2. NextLine \/ NextFile => reading' \in [file : 1..(Len(SymFiles) + 1), line : Nat \ {0}]
  <2>1. NextFile => reading' \in [file : 1..(Len(SymFiles) + 1), line : Nat \ {0}]
    BY <1>1 DEF NextFile
  <2>2. NextLine => reading' = [file |-> reading.file, line |-> reading.line + 1]
    BY DEF NextLine, SymTypeOK
  <2>3. reading.line + 1 \in Nat \ {0} /\ reading.file \in 1..(Len(SymFiles) + 1)
    BY DEF SymTypeOK
  <2> QED  BY <2>1, <2>2, <2>3
<1>3. CASE SkipLine
  BY <1>2, <1>3 DEF SkipLine, SymTypeOK
<1>4. CASE AddSymbol
  <2>1. Line \in [label : BOOLEAN, caps : BOOLEAN, name : STRING, val : Nat]
    <3>1. reading.line \in Nat \ {0}  BY DEF SymTypeOK
    <3>2. ~ (reading.line > Len(SymFiles[reading.file]))
      BY <1>4 DEF AddSymbol, AtEnd
    <3>3. reading.line \in 1..Len(SymFiles[reading.file])
      BY <1>1, <3>1, <3>2
    <3> QED  BY <1>1, <3>3, ElementOfSeq, Zenon DEF Line
  <2>2. Line.val % AddrSpace \in 0..(AddrSpace - 1)
    BY <2>1, DebugSymbolsAssumption
  <2>3. symtab' \in Seq([symbolname : STRING, addr : 0..(AddrSpace - 1)])
    BY <1>4, <2>1, <2>2, AppendProperties DEF AddSymbol, SymTypeOK
  <2>4. symCapacity' \in Nat
    BY <1>4 DEF AddSymbol, Capacity, SymTypeOK
  <2> QED  BY <1>2, <1>4, <2>3, <2>4 DEF AddSymbol, SymTypeOK
<1>5. CASE GiveUpFile \/ OpenTableFails
  BY <1>2, <1>5 DEF GiveUpFile, OpenTableFails, SymTypeOK
<1>6. CASE EndFile
  BY <1>2, <1>6 DEF EndFile, SymTypeOK
<1>7. CASE OpenTable
  BY <1>7, DebugSymbolsAssumption DEF OpenTable, SymTypeOK
<1> QED  BY <1>3, <1>4, <1>5, <1>6, <1>7 DEF ReadStep

\* The rest of BpTypeOK: what bounds the list, and the address of a removal.
BpBounded ==
  /\ Len(bpList) <= MaxBps /\ heap \subseteq Blocks
  /\ scan # NoScan =>
       scan = [address |-> scan.address, i |-> scan.i] /\ scan.address \in Nat

LEMMA BpBoundedKept ==
  ListInv /\ ScanInv /\ BpBounded /\ SymTypeOK /\ [Next]_vars => BpBounded'
<1> SUFFICES ASSUME ListInv, ScanInv, BpBounded, SymTypeOK, [Next]_vars PROVE BpBounded'
  OBVIOUS
<1>1. bpList \in Seq(Entries) /\ Len(bpList) \in Nat /\ MaxBps \in Nat
  BY BreakpointsAssumption DEF ListInv
<1>2. ASSUME NEW addr, NEW b \in Blocks \union {NoSymbol}, Insert(addr, b),
             heap' \subseteq Blocks
      PROVE  BpBounded'
  <2>1. [address |-> addr, symbol |-> b] \in Entries
    BY <1>2 DEF Insert, Entries
  <2>2. Len(bpList') = Len(bpList) + 1 /\ Len(bpList) < MaxBps /\ scan' = scan
    BY <1>1, <1>2, <2>1, AppendProperties DEF Insert
  <2> QED  BY <1>1, <1>2, <2>2 DEF BpBounded
<1>3. CASE \E addr : SetBp(addr) \/ SetNamedBp(addr)
  BY <1>2, <1>3 DEF SetBp, SetNamedBp, BpBounded
<1>4. CASE RemoveCommand
  <2>1. PICK addr : RmvBp(addr) /\ addr \in Nat
    BY <1>4, ResolveTyped, BreakpointsAssumption DEF RemoveCommand
  <2> QED  BY <2>1 DEF RmvBp, BpBounded
<1>5. CASE RmvBpStep
  <2>1. scan # NoScan /\ DOMAIN scan = {"address", "i"} /\ scan.i \in Nat \ {0}
    BY <1>5 DEF RmvBpStep, RmvBpSkip, RmvBpTake, RmvBpDone, Scanning, ScanInv
  <2>2. CASE RmvBpSkip
    <3>1. scan = [address |-> scan.address, i |-> scan.i]
      BY <2>1 DEF BpBounded
    <3>2. scan' = [address |-> scan.address, i |-> scan.i + 1]
      BY <2>2, <3>1 DEF RmvBpSkip
    <3> QED  BY <2>1, <2>2, <3>2 DEF RmvBpSkip, BpBounded
  <2>3. CASE RmvBpTake
    <3>1. scan.i \in 1..Len(bpList) /\ bpList' = RemoveAt(bpList, scan.i)
          /\ heap' \subseteq heap /\ scan' = scan
      BY <1>1, <2>1, <2>3 DEF RmvBpTake, AtMatch
    <3>2. Len(bpList') = Len(bpList) - 1
      BY <1>1, <3>1, RemoveAtShifts
    <3> QED  BY <1>1, <3>1, <3>2 DEF BpBounded
  <2>4. CASE RmvBpDone
    BY <2>4 DEF RmvBpDone, BpBounded
  <2> QED  BY <1>5, <2>2, <2>3, <2>4 DEF RmvBpStep
<1>6. CASE UNCHANGED bpVars
  BY <1>6 DEF bpVars, BpBounded
<1>7. \/ \E addr : SetBp(addr) \/ SetNamedBp(addr)
      \/ RemoveCommand \/ RmvBpStep \/ UNCHANGED bpVars
  <2>1. ASSUME NEW addr, RmvBp(addr) PROVE scan' # NoScan /\ bpList' = bpList
    <3>1. DOMAIN scan' = {"address", "i"}  BY <2>1 DEF RmvBp
    <3>2. DOMAIN NoScan = {}  BY DEF NoScan
    <3> QED  BY <2>1, <3>1, <3>2 DEF RmvBp
  <2> QED
    BY DEF Next, Simulates, Commands, Load, Posedge, Negedge, Callback, HandleStp,
       StopAtOnce, Run, Step, RemoveLoop, Continue, StepCommand, ResetCommand, QuitCommand,
       BreakpointCommand, SetBpFails, OtherCommand, MemoryCommand, AnswerFrom, AnswerTo,
       OnlyTheUi, AnswerRestart, AnswerExit,
       UserTypes, Ended, vars, bpVars
<1> QED  BY <1>3, <1>4, <1>5, <1>6, <1>7

\* Everything TypeOK needs, as one inductive invariant.
TypeInv ==
  MachineInv /\ KeysInv /\ ListInv /\ ScanInv /\ BpBounded /\ SymTypeOK

LEMMA TypeInvariant == Spec => []TypeInv
<1>1. Init => KeysInv /\ BpBounded
  <2>1. Init => tty = <<>> /\ typed = 0 /\ bpList = <<>> /\ heap = {} /\ scan = NoScan
    BY DEF Init, BpInit
  <2>2. MaxKeys \in Nat /\ MaxBps \in Nat
    BY DebuggerAssumption, BreakpointsAssumption
  <2> QED  BY <2>1, <2>2 DEF KeysInv, BpBounded
<1>2. Init => TypeInv
  BY <1>1, InitOfMachine, InitOfList, SymTypeInit DEF TypeInv
<1>3. TypeInv /\ [Next]_vars => TypeInv'
  BY ClockKept, ResetKept, ModeKept, KeysKept, ListIsChangedBySteps, ListStepKeepsList,
     BpBoundedKept, SymTypeKept DEF TypeInv, MachineInv
<1> QED  BY <1>2, <1>3, PTL DEF Spec

(***************************************************************************)
(* Every variable of the debugger keeps its type; in particular the reset  *)
(* line is up exactly while the pulse is counted (tb.v), and the debugger  *)
(* waits for a command or an answer only in a callback and with the        *)
(* machine stopped.                                                        *)
(***************************************************************************)
THEOREM TypeOKHolds == Spec => []TypeOK
<1>1. TypeInv => BpTypeOK
  <2> SUFFICES ASSUME ListInv, ScanInv, BpBounded PROVE BpTypeOK
    BY DEF TypeInv
  <2>1. scan # NoScan => scan \in [address : Nat, i : 1..(MaxBps + 1)]
    <3> SUFFICES ASSUME scan # NoScan PROVE scan \in [address : Nat, i : 1..(MaxBps + 1)]
      OBVIOUS
    <3>1. /\ scan = [address |-> scan.address, i |-> scan.i] /\ scan.address \in Nat
          /\ scan.i \in Nat \ {0} /\ scan.i <= Len(bpList) + 1
          /\ Len(bpList) <= MaxBps /\ Len(bpList) \in Nat /\ MaxBps \in Nat
      BY BreakpointsAssumption DEF ScanInv, BpBounded, ListInv
    <3>2. scan.i \in 1..(MaxBps + 1)  BY <3>1
    <3> QED  BY <3>1, <3>2
  <2> QED  BY <2>1 DEF BpTypeOK, ListInv, BpBounded
<1>2. TypeInv => TypeOK
  <2> SUFFICES ASSUME ClockInv, ResetInv, ModeInv, KeysInv, BpTypeOK, SymTypeOK PROVE TypeOK
    BY <1>1 DEF TypeInv, MachineInv
  <2>1. fetching \in {None} \union DOMAIN Length
    BY DebuggerAssumption DEF ClockInv
  <2> QED  BY <2>1 DEF TypeOK, ClockInv, ResetInv, ModeInv, KeysInv
<1> QED  BY <1>2, TypeInvariant, PTL

----------------------------------------------------------------------------
(* The symbol table. Unless memory ran out it holds, at every moment of    *)
(* the reading, the names of the labels read so far and nothing else, and  *)
(* before the entry of a name's first label no other entry of that name.   *)

ReadBefore(f, l) == f < reading.file \/ (f = reading.file /\ l < reading.line)
EntryOf(line) == [symbolname |-> line.name, addr |-> line.val % AddrSpace]
FoundFirst(line) ==
  \E i \in DOMAIN symtab :
    symtab[i] = EntryOf(line) /\ \A j \in 1..(i - 1) : symtab[j].symbolname # line.name

NamesAreLabels ==
  \A i \in DOMAIN symtab : \E f \in DOMAIN SymFiles : \E l \in DOMAIN SymFiles[f] :
    ReadBefore(f, l) /\ Wanted(SymFiles[f][l]) /\ SymFiles[f][l].name = symtab[i].symbolname
FirstsAreFound ==
  \A f \in DOMAIN SymFiles : \A l \in DOMAIN SymFiles[f] :
    ReadBefore(f, l) /\ FirstOfItsName(f, l) => FoundFirst(SymFiles[f][l])

SymbolInv ==
  /\ SymTypeOK /\ Len(symtab) <= symCapacity
  /\ ~ truncated => NamesAreLabels /\ FirstsAreFound

\* Going on to the next line or file passes at most the line that was read.
LEMMA ReadingOn ==
  ASSUME SymTypeOK, Loading, NEW f \in DOMAIN SymFiles, NEW l \in DOMAIN SymFiles[f],
         \/ NextLine
         \/ NextFile /\ AtEnd
  PROVE  /\ ReadBefore(f, l) => ReadBefore(f, l)'
         /\ ReadBefore(f, l)' =>
              ReadBefore(f, l) \/ (NextLine /\ f = reading.file /\ l = reading.line)
<1>1. /\ f \in Nat /\ l \in Nat /\ l <= Len(SymFiles[f]) /\ Len(SymFiles[f]) \in Nat
      /\ reading.file \in Nat /\ reading.line \in Nat \ {0}
      /\ reading = [file |-> reading.file, line |-> reading.line]
  <2>1. f \in 1..Len(SymFiles) /\ Len(SymFiles) \in Nat  BY DebugSymbolsAssumption
  <2>2. SymFiles[f] \in Seq([label : BOOLEAN, caps : BOOLEAN, name : STRING, val : Nat])
    BY <2>1, DebugSymbolsAssumption
  <2>3. l \in 1..Len(SymFiles[f]) /\ Len(SymFiles[f]) \in Nat  BY <2>2
  <2> QED  BY <2>1, <2>3 DEF SymTypeOK
<1>2. CASE NextLine
  <2>1. reading'.file = reading.file /\ reading'.line = reading.line + 1
    BY <1>1, <1>2 DEF NextLine
  <2> QED  BY <1>1, <1>2, <2>1 DEF ReadBefore
<1>3. CASE NextFile /\ AtEnd
  <2>1. reading'.file = reading.file + 1 /\ reading'.line = 1
    BY <1>3 DEF NextFile
  <2>2. f = reading.file => l < reading.line  BY <1>1, <1>3 DEF AtEnd
  <2> QED  BY <1>1, <2>1, <2>2 DEF ReadBefore
<1> QED  BY <1>2, <1>3

LEMMA LineInFile ==
  ASSUME SymTypeOK, Loading, ~ AtEnd
  PROVE  /\ reading.file \in DOMAIN SymFiles /\ reading.line \in DOMAIN SymFiles[reading.file]
         /\ ~ ReadBefore(reading.file, reading.line)
<1>1. /\ reading.file \in 1..(Len(SymFiles) + 1) /\ reading.line \in Nat \ {0}
      /\ Len(SymFiles) \in Nat /\ SymFiles \in Seq(Seq([label : BOOLEAN, caps : BOOLEAN, name : STRING, val : Nat]))
  BY DebugSymbolsAssumption DEF SymTypeOK
<1>2. reading.file \in 1..Len(SymFiles)  BY <1>1 DEF Loading
<1>3. SymFiles[reading.file] \in Seq([label : BOOLEAN, caps : BOOLEAN, name : STRING, val : Nat])
  BY <1>1, <1>2
<1>4. reading.line \in 1..Len(SymFiles[reading.file])  BY <1>1, <1>3 DEF AtEnd
<1> QED  BY <1>1, <1>2, <1>3, <1>4 DEF ReadBefore

\* Lines without a label pass by.
LEMMA NothingRead ==
  ASSUME SymTypeOK, Loading, NamesAreLabels, FirstsAreFound, symtab' = symtab,
         \/ NextLine /\ ~ AtEnd /\ ~ Wanted(Line)
         \/ NextFile /\ AtEnd
  PROVE  NamesAreLabels' /\ FirstsAreFound'
<1>1. ASSUME NEW i \in DOMAIN symtab
      PROVE  \E f \in DOMAIN SymFiles : \E l \in DOMAIN SymFiles[f] :
               ReadBefore(f, l)' /\ Wanted(SymFiles[f][l])
                 /\ SymFiles[f][l].name = symtab[i].symbolname
  <2>1. PICK f, l :
          /\ f \in DOMAIN SymFiles /\ l \in DOMAIN SymFiles[f]
          /\ ReadBefore(f, l) /\ Wanted(SymFiles[f][l])
          /\ SymFiles[f][l].name = symtab[i].symbolname
    BY DEF NamesAreLabels
  <2>2. ReadBefore(f, l)'  BY <2>1, ReadingOn
  <2> QED  BY <2>1, <2>2
<1>2. ASSUME NEW f \in DOMAIN SymFiles, NEW l \in DOMAIN SymFiles[f],
             ReadBefore(f, l)', FirstOfItsName(f, l)
      PROVE  FoundFirst(SymFiles[f][l])
  <2>1. Wanted(SymFiles[f][l])  BY <1>2 DEF FirstOfItsName
  <2>2. ~ (NextLine /\ f = reading.file /\ l = reading.line)
    <3> SUFFICES ASSUME NextLine, f = reading.file, l = reading.line PROVE FALSE  OBVIOUS
    <3>1. reading.file \in Nat  BY DEF SymTypeOK
    <3>2. ~ NextFile  BY <3>1 DEF NextLine, NextFile
    <3> QED  BY <2>1, <3>2 DEF Line
  <2>3. ReadBefore(f, l)  BY <1>2, <2>2, ReadingOn
  <2> QED  BY <1>2, <2>3 DEF FirstsAreFound
<1>3. NamesAreLabels'  BY <1>1 DEF NamesAreLabels
<1>4. FirstsAreFound'
  <2>1. \A line : FoundFirst(line)' = FoundFirst(line)  BY DEF FoundFirst
  <2> QED  BY <1>2, <2>1 DEF FirstsAreFound
<1> QED  BY <1>3, <1>4

\* A label goes behind the entries there are: it does not hide one of them,
\* and is not hidden unless an earlier label has its name.
LEMMA LabelRead ==
  ASSUME SymTypeOK, NamesAreLabels, FirstsAreFound, AddSymbol
  PROVE  NamesAreLabels' /\ FirstsAreFound'
<1> DEFINE n == Len(symtab)
<1>0. PICK F, L : F = reading.file /\ L = reading.line  OBVIOUS
<1>1. /\ Loading /\ ~ AtEnd /\ Wanted(Line) /\ NextLine
      /\ symtab' = Append(symtab, EntryOf(Line))
  BY DEF AddSymbol, EntryOf
<1>2. F \in DOMAIN SymFiles /\ L \in DOMAIN SymFiles[F] /\ Line = SymFiles[F][L]
  BY <1>0, <1>1, LineInFile DEF Line
<1>3. /\ n \in Nat /\ DOMAIN symtab = 1..n /\ DOMAIN symtab' = 1..(n + 1)
      /\ \A i \in 1..n : symtab'[i] = symtab[i]
      /\ symtab'[n + 1] = EntryOf(Line)
  <2>1. symtab \in Seq([symbolname : STRING, addr : 0..(AddrSpace - 1)])  BY DEF SymTypeOK
  <2>2. Line \in [label : BOOLEAN, caps : BOOLEAN, name : STRING, val : Nat]
    <3>1. SymFiles[F] \in Seq([label : BOOLEAN, caps : BOOLEAN, name : STRING, val : Nat])
      BY <1>2, DebugSymbolsAssumption
    <3>2. L \in 1..Len(SymFiles[F])  BY <1>2, <3>1
    <3> QED  BY <1>2, <3>1, <3>2, ElementOfSeq, Zenon
  <2>3. Line.val % AddrSpace \in 0..(AddrSpace - 1)  BY <2>2, DebugSymbolsAssumption
  <2>4. EntryOf(Line) \in [symbolname : STRING, addr : 0..(AddrSpace - 1)]
    BY <2>2, <2>3 DEF EntryOf
  <2> QED  BY <1>1, <2>1, <2>4, AppendProperties
<1> HIDE DEF n
<1>4. \A f \in DOMAIN SymFiles : \A l \in DOMAIN SymFiles[f] :
        /\ ReadBefore(f, l) => ReadBefore(f, l)'
        /\ ReadBefore(f, l)' => ReadBefore(f, l) \/ (f = F /\ l = L)
  BY <1>0, <1>1, ReadingOn
<1>5. ReadBefore(F, L)'
  <2>1. L \in Nat /\ reading' = [reading EXCEPT !.line = L + 1]
    BY <1>0, <1>1 DEF NextLine, SymTypeOK
  <2>2. reading'.file = F /\ reading'.line = L + 1
    BY <1>0, <2>1 DEF SymTypeOK
  <2> QED  BY <2>1, <2>2 DEF ReadBefore
<1>6. NamesAreLabels'
  <2>1. ASSUME NEW i \in 1..(n + 1)
        PROVE  \E f \in DOMAIN SymFiles : \E l \in DOMAIN SymFiles[f] :
                 ReadBefore(f, l)' /\ Wanted(SymFiles[f][l])
                   /\ SymFiles[f][l].name = symtab'[i].symbolname
    <3>1. CASE i \in 1..n
      <4>1. PICK f, l :
              /\ f \in DOMAIN SymFiles /\ l \in DOMAIN SymFiles[f]
              /\ ReadBefore(f, l) /\ Wanted(SymFiles[f][l])
              /\ SymFiles[f][l].name = symtab[i].symbolname
        BY <1>3, <3>1 DEF NamesAreLabels
      <4> QED  BY <1>3, <1>4, <3>1, <4>1
    <3>2. CASE i = n + 1
      <4>1. symtab'[i].symbolname = SymFiles[F][L].name  BY <1>2, <1>3, <3>2 DEF EntryOf
      <4> QED  BY <1>1, <1>2, <1>5, <4>1
    <3> QED  BY <1>3, <3>1, <3>2
  <2> QED  BY <1>3, <2>1 DEF NamesAreLabels
<1>7. FirstsAreFound'
  <2> SUFFICES ASSUME NEW f \in DOMAIN SymFiles, NEW l \in DOMAIN SymFiles[f],
                      ReadBefore(f, l)', FirstOfItsName(f, l)
               PROVE  FoundFirst(SymFiles[f][l])'
    BY DEF FirstsAreFound
  <2> DEFINE line == SymFiles[f][l]
  <2>1. CASE ReadBefore(f, l)
    <3>1. PICK i \in DOMAIN symtab :
            symtab[i] = EntryOf(line) /\ \A j \in 1..(i - 1) : symtab[j].symbolname # line.name
      BY <2>1 DEF FirstsAreFound, FoundFirst
    <3>2. i \in 1..(n + 1) /\ i \in 1..n /\ \A j \in 1..(i - 1) : j \in 1..n  BY <1>3
    <3>3. symtab'[i] = EntryOf(line) /\ \A j \in 1..(i - 1) : symtab'[j].symbolname # line.name
      BY <1>3, <3>1, <3>2
    <3> QED  BY <1>3, <3>2, <3>3 DEF FoundFirst
  <2>2. CASE ~ ReadBefore(f, l)
    <3>1. f = F /\ l = L  BY <1>4, <2>2
    <3>2. ASSUME NEW j \in 1..n PROVE symtab'[j].symbolname # line.name
      <4>1. PICK g, k :
              /\ g \in DOMAIN SymFiles /\ k \in DOMAIN SymFiles[g]
              /\ ReadBefore(g, k) /\ Wanted(SymFiles[g][k])
              /\ SymFiles[g][k].name = symtab[j].symbolname
        BY <1>3 DEF NamesAreLabels
      <4>2. g \in 1..f /\ (g < f \/ k < l)
        <5>1. g \in Nat \ {0} /\ f \in Nat
          <6>1. Len(SymFiles) \in Nat /\ DOMAIN SymFiles = 1..Len(SymFiles)
            BY DebugSymbolsAssumption
          <6> QED  BY <4>1, <6>1
        <5> QED  BY <1>0, <3>1, <4>1, <5>1 DEF ReadBefore
      <4>3. SymFiles[g][k].name # line.name  BY <4>1, <4>2 DEF FirstOfItsName
      <4> QED  BY <1>3, <4>1, <4>3
    <3>3. n + 1 \in 1..(n + 1) /\ n + 1 - 1 = n  BY <1>3
    <3> QED  BY <1>2, <1>3, <3>1, <3>2, <3>3 DEF FoundFirst
  <2> QED  BY <2>1, <2>2
<1> QED  BY <1>6, <1>7

LEMMA SymbolStep == SymbolInv /\ [Next]_vars => SymbolInv'
<1> SUFFICES ASSUME SymbolInv, [Next]_vars PROVE SymbolInv'  OBVIOUS
<1>1. SymTypeOK /\ SymTypeOK'  BY SymTypeKept DEF SymbolInv
<1>2. CASE UNCHANGED symVars
  BY <1>1, <1>2 DEF SymbolInv, symVars, NamesAreLabels, FirstsAreFound, ReadBefore, FoundFirst
<1>3. CASE SkipLine \/ EndFile
  <2>1. UNCHANGED <<symtab, symCapacity, truncated>>  BY <1>3 DEF SkipLine, EndFile
  <2>2. ~ truncated => NamesAreLabels' /\ FirstsAreFound'
    BY <1>1, <1>3, <2>1, NothingRead DEF SymbolInv, SkipLine, EndFile
  <2> QED  BY <1>1, <2>1, <2>2 DEF SymbolInv
<1>4. CASE AddSymbol
  <2>1. truncated' = truncated /\ symCapacity' = Capacity  BY <1>4 DEF AddSymbol
  <2>2. ~ truncated => NamesAreLabels' /\ FirstsAreFound'
    BY <1>1, <1>4, LabelRead DEF SymbolInv
  <2>3. Len(symtab') = Len(symtab) + 1 /\ Len(symtab) \in Nat
    BY <1>1, <1>4 DEF AddSymbol, SymTypeOK
  <2>4. symCapacity \in Nat \ {0} /\ Len(symtab) <= symCapacity
    BY <1>4 DEF AddSymbol, NoTable, SymbolInv, SymTypeOK
  <2>5. Len(symtab') <= symCapacity'  BY <2>1, <2>3, <2>4 DEF Capacity
  <2> QED  BY <1>1, <2>1, <2>2, <2>5 DEF SymbolInv
<1>5. CASE GiveUpFile \/ OpenTableFails
  BY <1>1, <1>5 DEF GiveUpFile, OpenTableFails, SymbolInv
<1>6. CASE OpenTable
  <2>1. UNCHANGED <<symtab, reading, truncated>> /\ symCapacity = 0 /\ symCapacity' = FirstSymCap
    BY <1>6 DEF OpenTable, NoTable
  <2>2. Len(symtab) \in Nat /\ Len(symtab) <= 0 /\ FirstSymCap \in Nat
    BY <1>1, <2>1, DebugSymbolsAssumption DEF SymbolInv, SymTypeOK
  <2>3. Len(symtab') <= symCapacity'  BY <2>1, <2>2
  <2> QED
    BY <1>1, <2>1, <2>3 DEF SymbolInv, NamesAreLabels, FirstsAreFound, ReadBefore, FoundFirst
<1> QED  BY <1>2, <1>3, <1>4, <1>5, <1>6, OnlyLoadingReads DEF ReadStep

\* At the end of the reading everything has been read.
LEMMA AllRead ==
  ASSUME SymbolInv, ~ Loading, ~ truncated,
         NEW f \in DOMAIN SymFiles, NEW l \in DOMAIN SymFiles[f], FirstOfItsName(f, l)
  PROVE  /\ Knows(SymFiles[f][l].name)
         /\ Resolve(SymFiles[f][l].name) = SymFiles[f][l].val % AddrSpace
<1> DEFINE line == SymFiles[f][l]
<1>1. ReadBefore(f, l)
  <2>1. Len(SymFiles) \in Nat /\ DOMAIN SymFiles = 1..Len(SymFiles)
    BY DebugSymbolsAssumption
  <2>2. reading.file \in Nat /\ ~ (reading.file <= Len(SymFiles))
    BY DEF SymbolInv, SymTypeOK, Loading
  <2> QED  BY <2>1, <2>2 DEF ReadBefore
<1>2. PICK i \in DOMAIN symtab :
        symtab[i] = EntryOf(line) /\ \A j \in 1..(i - 1) : symtab[j].symbolname # line.name
  BY <1>1 DEF SymbolInv, FirstsAreFound, FoundFirst
<1> HIDE DEF line
<1>3. symtab[i].symbolname = line.name /\ symtab[i].addr = line.val % AddrSpace
  BY <1>2 DEF EntryOf
<1>4. Knows(line.name)  BY <1>2, <1>3 DEF Knows, Matches
<1>5. /\ FirstMatch(line.name) \in DOMAIN symtab
      /\ symtab[FirstMatch(line.name)].symbolname = line.name
      /\ FirstMatch(line.name) <= i
  BY <1>2, <1>3, <1>4, FirstMatchIsFirst DEF SymbolInv, SymTypeOK
<1>6. FirstMatch(line.name) = i
  <2>1. symtab \in Seq([symbolname : STRING, addr : 0..(AddrSpace - 1)])
    BY DEF SymbolInv, SymTypeOK
  <2>2. FirstMatch(line.name) \in 1..Len(symtab) /\ i \in 1..Len(symtab) /\ Len(symtab) \in Nat
    BY <1>2, <1>5, <2>1
  <2>3. FirstMatch(line.name) \notin 1..(i - 1)  BY <1>2, <1>5
  <2> QED  BY <1>5, <2>2, <2>3
<1> QED  BY <1>3, <1>4, <1>6 DEF Resolve, line

\* dbgReadDbgSyms and the searches of dbgAddBp and dbgRemoveBreakpoint: the
\* table never outgrows its array, and unless memory ran out every name leads to
\* the first label that has it, whatever else the files define.
THEOREM SymbolTableSoundHolds == Spec => []SymbolTableSound
<1>1. Init => SymbolInv
  <2> SUFFICES ASSUME Init PROVE SymbolInv  OBVIOUS
  <2>1. SymInit /\ SymTypeOK  BY SymTypeInit DEF Init
  <2>2. symtab = <<>> /\ symCapacity = 0 /\ reading = [file |-> 1, line |-> 1]
    BY <2>1 DEF SymInit
  <2>3. NamesAreLabels  BY <2>2 DEF NamesAreLabels
  <2>4. FirstsAreFound
    <3>1. ASSUME NEW f \in DOMAIN SymFiles, NEW l \in DOMAIN SymFiles[f] PROVE ~ ReadBefore(f, l)
      <4>1. f \in 1..Len(SymFiles) /\ Len(SymFiles) \in Nat  BY DebugSymbolsAssumption
      <4>2. SymFiles[f] \in Seq([label : BOOLEAN, caps : BOOLEAN, name : STRING, val : Nat])
        BY <4>1, DebugSymbolsAssumption
      <4>3. l \in 1..Len(SymFiles[f]) /\ Len(SymFiles[f]) \in Nat  BY <4>2
      <4> QED  BY <2>2, <4>1, <4>3 DEF ReadBefore
    <3> QED  BY <3>1 DEF FirstsAreFound
  <2>5. Len(symtab) <= symCapacity  BY <2>2
  <2> QED  BY <2>1, <2>3, <2>4, <2>5 DEF SymbolInv
<1>2. SymbolInv => SymbolTableSound
  <2> SUFFICES ASSUME SymbolInv PROVE SymbolTableSound  OBVIOUS
  <2>1. ~ truncated =>
          \A i \in DOMAIN symtab : \E f \in DOMAIN SymFiles : \E l \in DOMAIN SymFiles[f] :
            Wanted(SymFiles[f][l]) /\ SymFiles[f][l].name = symtab[i].symbolname
    BY DEF SymbolInv, NamesAreLabels
  <2>2. Len(symtab) <= symCapacity  BY DEF SymbolInv
  <2> QED  BY <2>1, <2>2, AllRead DEF SymbolTableSound
<1> QED  BY <1>1, <1>2, SymbolStep, PTL DEF Spec

----------------------------------------------------------------------------
(* The debugger implements RunControl. Simulated cycles that begin no      *)
(* instruction, loading, keys and the turns of a removal that find nothing *)
(* are steps of RunControl that change nothing but perhaps `interrupt`.    *)

\* Outside of what follows only the names of the mapped state are needed.
LEMMA NothingHappens ==
  ASSUME Here' = Here, Go' <=> Go, StepsToGo' = StepsToGo, BpAddresses' = BpAddresses,
         Over' <=> Over
  PROVE  Control!Next
<1>1. Go' = Go  BY DEF Go
<1>2. Over' = Over  BY DEF Over
<1>3. Interrupted' \in BOOLEAN  BY DEF Interrupted
<1> QED  BY <1>1, <1>2, <1>3 DEF Control!Next, Control!Type

LEMMA BpAddressesAreAddresses ==
  ASSUME ListInv
  PROVE  BpAddresses \subseteq BpAddrs /\ \A a \in BpAddresses : a \in Nat
<1>1. \A i \in DOMAIN bpList : bpList[i].address \in BpAddrs
  <2> SUFFICES ASSUME NEW i \in DOMAIN bpList PROVE bpList[i].address \in BpAddrs
    OBVIOUS
  <2>1. bpList \in Seq(Entries)  BY DEF ListInv
  <2>2. i \in 1..Len(bpList)  BY <2>1
  <2>3. bpList[i] \in Entries  BY <2>1, <2>2, ElementOfSeq, Zenon
  <2> QED  BY <2>3 DEF Entries
<1> QED  BY <1>1, BreakpointsAssumption DEF BpAddresses

LEMMA AppendAddsAddress ==
  ASSUME ListInv, NEW e, bpList' = Append(bpList, e)
  PROVE  BpAddresses' = BpAddresses \union {e.address}
<1>1. bpList \in Seq(Entries)  BY DEF ListInv
<1>2. /\ DOMAIN bpList = 1..Len(bpList) /\ Len(bpList) \in Nat
      /\ DOMAIN bpList' = 1..(Len(bpList) + 1)
      /\ \A i \in 1..Len(bpList) : bpList'[i] = bpList[i]
      /\ bpList'[Len(bpList) + 1] = e
  BY <1>1
<1>3. 1..(Len(bpList) + 1) = (1..Len(bpList)) \union {Len(bpList) + 1}
  BY <1>2
<1> QED  BY <1>2, <1>3 DEF BpAddresses

LEMMA RemoveAtTakesAddress ==
  ASSUME bpList \in Seq(Entries), NEW k \in 1..Len(bpList), bpList' = RemoveAt(bpList, k)
  PROVE  \/ BpAddresses' = BpAddresses
         \/ BpAddresses' = BpAddresses \ {bpList[k].address}
<1> DEFINE n == Len(bpList)
           from(i) == IF i < k THEN i ELSE i + 1
<1>1. n \in Nat /\ k \in Nat /\ 1 <= k /\ k <= n /\ DOMAIN bpList = 1..n  OBVIOUS
<1>2. /\ DOMAIN bpList' = 1..(n - 1)
      /\ \A i \in 1..(n - 1) : bpList'[i] = bpList[from(i)]
  <2>1. \A i \in 1..(n - 1) : bpList'[i] = IF i < k THEN bpList[i] ELSE bpList[i + 1]
    BY RemoveAtShifts
  <2>2. bpList' \in Seq(Entries) /\ Len(bpList') = n - 1  BY RemoveAtShifts
  <2> QED  BY <2>1, <2>2
<1>3. \A i \in 1..(n - 1) : from(i) \in (1..n) \ {k}
  BY <1>1
<1>4. \A j \in (1..n) \ {k} : \E i \in 1..(n - 1) : from(i) = j
  <2> SUFFICES ASSUME NEW j \in (1..n) \ {k} PROVE \E i \in 1..(n - 1) : from(i) = j
    OBVIOUS
  <2>1. CASE j < k  BY <1>1, <2>1
  <2>2. CASE ~ (j < k)
    <3>1. j - 1 \in 1..(n - 1) /\ from(j - 1) = j  BY <1>1, <2>2
    <3> QED  BY <3>1
  <2> QED  BY <2>1, <2>2
<1> HIDE DEF from
<1>5. BpAddresses' = {bpList[j].address : j \in (1..n) \ {k}}
  <2>1. BpAddresses' = {bpList'[i].address : i \in 1..(n - 1)}
    BY <1>2 DEF BpAddresses
  <2>2. ASSUME NEW i \in 1..(n - 1)
        PROVE  bpList'[i].address \in {bpList[j].address : j \in (1..n) \ {k}}
    BY <1>2, <1>3, <2>2
  <2>3. ASSUME NEW j \in (1..n) \ {k}
        PROVE  bpList[j].address \in {bpList'[i].address : i \in 1..(n - 1)}
    <3>1. PICK i \in 1..(n - 1) : from(i) = j  BY <1>4, <2>3
    <3>2. bpList'[i] = bpList[j]  BY <1>2, <3>1
    <3> QED  BY <3>2
  <2> QED  BY <2>1, <2>2, <2>3
<1>6. BpAddresses = {bpList[j].address : j \in 1..n}
  BY <1>1 DEF BpAddresses
<1>7. BpAddresses = BpAddresses' \union {bpList[k].address}
  BY <1>1, <1>5, <1>6
<1> QED  BY <1>7

\* While the debugger waits for its user the machine is stopped.
LEMMA WaitingIsStopped ==
  ASSUME MachineInv, ui \in {"command", "stp"} \union Questions
  PROVE  /\ ~ Go /\ StepsToGo = 0 /\ ~ Over
         /\ ~ Restarting /\ Here = executing /\ Control!Stopped
<1>1. /\ mode = "STOPPED" /\ clk = "high" /\ fetch
      /\ ui # "running" /\ ui # "finished"
  BY DEF MachineInv, ModeInv, Questions
<1>2. ~ Restarting  BY <1>1 DEF MachineInv, ClockInv
<1>3. ~ Go /\ ~ Over  BY <1>1 DEF Go, Over
<1>4. StepsToGo = 0  BY <1>1 DEF StepsToGo
<1>5. Here = executing  BY <1>2 DEF Here
<1> QED  BY <1>2, <1>3, <1>4, <1>5 DEF Control!Stopped

\* At the call a fetched instruction has not been executed.
LEMMA CallIsBeforeExecution ==
  ASSUME MachineInv, OnFetch
  PROVE  /\ ~ Go /\ ~ Over /\ ~ Restarting /\ Here = executing
         /\ executing \in DOMAIN Length
<1>1. clk = "high" /\ fetch /\ ui = "running"  BY DEF OnFetch
<1>2. ~ Restarting  BY <1>1 DEF MachineInv, ClockInv
<1>3. ~ Go /\ ~ Over  BY <1>1 DEF Go, Over
<1>4. Here = executing  BY <1>2 DEF Here
<1>5. executing \in DOMAIN Length
  BY <1>2, DebuggerAssumption DEF Restarting, MachineInv, ClockInv
<1> QED  BY <1>2, <1>3, <1>4, <1>5

\* A clock edge executes the instruction at hand, or nothing: during a reset
\* the first instruction stays the one to come.
LEMMA PosedgeImplements == ASSUME MachineInv, Posedge PROVE Control!Next
<1>1. /\ ui = "running" /\ clk = "low" /\ clk' = "high"
      /\ UNCHANGED <<mode, stepsLeft, ui, bpList>>
      /\ Cpu /\ ResetPulse /\ fetch' = FetchHook
  BY DEF Posedge, controlVars, bpVars
<1>2. UNCHANGED <<StepsToGo, BpAddresses>> /\ ~ Over /\ ~ Over'
  BY <1>1 DEF StepsToGo, BpAddresses, Over
<1>3. CASE resetReq \/ reset
  <2>1. Restarting /\ ~ Go /\ Here = ResetPc
    BY <1>3 DEF Restarting, Go, Here
  <2>2. Restarting'
    <3>1. CASE resetReq  BY <1>1, <3>1 DEF ResetPulse, Restarting
    <3>2. CASE reset  BY <1>1, <3>2 DEF Cpu, Restarting
    <3> QED  BY <1>3, <3>1, <3>2
  <2>3. ~ Go' /\ Here' = ResetPc  BY <2>2 DEF Go, Here
  <2> QED  BY <1>2, <2>1, <2>3, NothingHappens
<1>4. CASE ~ resetReq /\ ~ reset
  <2>1. rstCnt = 0
    BY <1>4 DEF MachineInv, ResetInv
  <2>2. ~ resetReq' /\ ~ reset'
    BY <1>1, <1>4, <2>1 DEF ResetPulse
  <2>3. fetch' <=> fetching # None
    BY <1>1, <1>4, <2>1 DEF FetchHook
  <2>4. CASE fetching = None
    <3>1. executing' = executing  BY <1>1, <1>4, <2>4 DEF Cpu
    <3>2. Restarting' <=> Restarting  BY <1>4, <2>2, <3>1 DEF Restarting
    <3>3. Here' = Here  BY <3>1, <3>2 DEF Here
    <3>4. Go' <=> Go  BY <1>1, <2>3, <2>4, <3>2 DEF Go
    <3> QED  BY <1>2, <3>3, <3>4, NothingHappens
  <2>5. CASE fetching # None
    <3>1. executing' = fetching /\ fetching \in Follow[executing]
      BY <1>1, <1>4, <2>5 DEF Cpu, MachineInv, ClockInv
    <3>2. executing' # Vector
      BY <3>1, DebuggerAssumption DEF MachineInv, ClockInv
    <3>3. ~ Restarting' /\ Here' = executing'
      BY <2>2, <3>2 DEF Restarting, Here
    <3>4. ~ Go'  BY <1>1, <2>3, <2>5 DEF Go
    <3>5. CASE executing = Vector
      <4>1. ~ Go /\ Here = ResetPc  BY <3>5 DEF Go, Here, Restarting
      <4>2. executing' = ResetPc  BY <3>1, <3>5, DebuggerAssumption
      <4> QED  BY <1>2, <3>3, <3>4, <4>1, <4>2, NothingHappens
    <3>6. CASE executing # Vector
      <4>1. ~ Restarting /\ Here = executing
        BY <1>4, <3>6 DEF Restarting, Here
      <4>2. Go  BY <1>1, <4>1 DEF Go
      <4>3. Go' = FALSE /\ Over' = Over  BY <1>2, <3>4 DEF Go, Over
      <4>4. Control!Execute
        BY <1>2, <3>1, <3>3, <4>1, <4>2, <4>3 DEF Control!Execute
      <4> QED  BY <4>4 DEF Control!Next, Interrupted
    <3> QED  BY <3>5, <3>6
  <2> QED  BY <2>4, <2>5
<1> QED  BY <1>3, <1>4

\* A call that returns at once, or ends in a prompt or a question.
LEMMA CallImplements == ASSUME MachineInv, ListInv, Callback PROVE Control!Next
<1>1. OnFetch  BY DEF Callback, HandleStp, StopAtOnce, Run, Step
<1>2. /\ ~ Go /\ ~ Over /\ ~ Restarting /\ Here = executing
      /\ executing \in DOMAIN Length /\ ui = "running"
  BY <1>1, CallIsBeforeExecution DEF OnFetch
<1>3. BpAddresses' = BpAddresses
  BY DEF Callback, HandleStp, StopAtOnce, Run, Step, BpAddresses, bpVars
<1>4. UNCHANGED <<executing, fetch, reset, resetReq>>
  BY DEF Callback, HandleStp, StopAtOnce, Run, Step, Prompt, Return, clockVars
<1>5. Here' = Here /\ ~ Restarting'
  BY <1>2, <1>4 DEF Here, Restarting
<1>6. Go = FALSE /\ Over = FALSE  BY <1>2 DEF Go, Over
<1>7. ASSUME ui' \in {"command", "stp"}, mode' = "STOPPED"
      PROVE  Go' = FALSE /\ Over' = FALSE /\ StepsToGo' = 0
  BY <1>7 DEF Go, Over, StepsToGo
<1>8. ASSUME Return
      PROVE  Go' = TRUE /\ Over' = FALSE
  BY <1>5, <1>8 DEF Return, Go, Over
<1>9. executing \in Nat /\ Length[executing] \in Nat
        /\ executing + Length[executing] < AddrSpace /\ AddrSpace \in Nat \ {0}
  BY <1>2, DebuggerAssumption, DebugSymbolsAssumption
<1>10. ASSUME ui' \in {"command", "stp"}, mode' = "STOPPED",
              StepsToGo = 0 \/ Control!Reason
       PROVE  Control!Next
  <2>1. CASE StepsToGo = 0
    BY <1>3, <1>5, <1>6, <1>7, <1>10, <2>1, NothingHappens
  <2>2. CASE StepsToGo # 0 /\ Control!Reason
    <3>1. Control!Stop
      BY <1>3, <1>5, <1>6, <1>7, <1>10, <2>2 DEF Control!Stop, Control!Arrived
    <3> QED  BY <3>1 DEF Control!Next, Interrupted
  <2> QED  BY <1>10, <2>1, <2>2
<1>11. CASE HandleStp
  <2>1. executing \in Halts /\ ui' = "stp" /\ mode' = "STOPPED"
    BY <1>11 DEF HandleStp
  <2>2. Control!Reason  BY <1>2, <2>1 DEF Control!Reason
  <2> QED  BY <1>10, <2>1, <2>2
<1>12. CASE StopAtOnce
  <2>1. mode = "STOPPED" /\ ui' = "command" /\ mode' = "STOPPED"
    BY <1>12 DEF StopAtOnce, Prompt
  <2>2. StepsToGo = 0  BY <2>1 DEF StepsToGo
  <2> QED  BY <1>10, <2>1, <2>2
<1>13. CASE Run
  <2>1. /\ mode = "RUNNING" /\ executing \notin Halts
        /\ IF (PollDue /\ Interrupts # {}) \/ CheckIfAtBp(executing, 0)
             THEN Prompt ELSE Return /\ mode' = mode
    BY <1>13 DEF Run
  <2>2. StepsToGo = Unlimited  BY <1>2, <2>1 DEF StepsToGo
  <2>3. CheckIfAtBp(executing, 0) <=> executing \in BpAddresses
    <3>1. InstrEnd(executing, 0) = executing  BY <1>9 DEF InstrEnd
    <3>2. \A a \in BpAddresses : a \in Nat
      BY BpAddressesAreAddresses
    <3> QED  BY <1>9, <3>1, <3>2 DEF CheckIfAtBp
  <2>4. CASE (PollDue /\ Interrupts # {}) \/ CheckIfAtBp(executing, 0)
    <3>1. ui' = "command" /\ mode' = "STOPPED"  BY <2>1, <2>4 DEF Prompt
    <3>2. Interrupted \/ Here \in BpAddresses
      BY <1>2, <2>3, <2>4 DEF Interrupted
    <3>3. Control!Reason
      BY <2>2, <3>2 DEF Control!Reason, Control!Unlimited, Unlimited
    <3> QED  BY <1>10, <3>1, <3>3
  <2>5. CASE ~ ((PollDue /\ Interrupts # {}) \/ CheckIfAtBp(executing, 0))
    <3>1. Return /\ mode' = mode /\ executing \notin BpAddresses
      BY <2>1, <2>3, <2>5
    <3>2. StepsToGo' = Unlimited  BY <2>1, <3>1 DEF StepsToGo, Return
    <3>3. Control!GoOn
      <4>1. Control!Arrived  BY <1>6, <2>2 DEF Control!Arrived, Unlimited
      <4>2. Control!LessOne(StepsToGo) = Unlimited
        BY <2>2 DEF Control!LessOne, Control!Unlimited, Unlimited
      <4> QED
        BY <1>2, <1>3, <1>5, <1>6, <1>8, <2>1, <3>1, <3>2, <4>1, <4>2 DEF Control!GoOn
    <3> QED  BY <3>3 DEF Control!Next, Interrupted
  <2> QED  BY <2>4, <2>5
<1>14. CASE Step
  <2>1. /\ mode = "STEPPING" /\ executing \notin Halts
        /\ IF StepOn
             THEN Return /\ mode' = mode /\ stepsLeft' = stepsLeft - 1
             ELSE Prompt /\ stepsLeft' = stepsLeft
    BY <1>14 DEF Step
  <2>2. StepsToGo = stepsLeft /\ stepsLeft \in Nat
    BY <2>1 DEF StepsToGo, MachineInv, ModeInv
  <2>3. InstrEnd(executing, Length[executing]) = executing + Length[executing]
    BY <1>9 DEF InstrEnd
  <2>4. CASE StepOn
    <3>1. stepsLeft > 0 /\ ~ CheckIfAtBp(executing, Length[executing])
      BY <2>4 DEF StepOn
    <3>2. executing \notin BpAddresses
      BY <1>9, <2>3, <3>1 DEF CheckIfAtBp
    <3>3. StepsToGo' = stepsLeft - 1
      BY <2>1, <2>4 DEF StepsToGo
    <3>4. Control!LessOne(StepsToGo) = stepsLeft - 1 /\ StepsToGo # 0
      BY <2>2, <3>1 DEF Control!LessOne, Control!Unlimited
    <3>5. Control!GoOn
      BY <1>2, <1>3, <1>5, <1>6, <1>8, <2>1, <2>4, <3>2, <3>3, <3>4
      DEF Control!GoOn, Control!Arrived
    <3> QED  BY <3>5 DEF Control!Next, Interrupted
  <2>5. CASE ~ StepOn
    <3>1. ui' = "command" /\ mode' = "STOPPED"  BY <2>1, <2>5 DEF Prompt
    <3>2. CASE stepsLeft = 0  BY <1>10, <2>2, <3>1, <3>2
    <3>3. CASE stepsLeft # 0
      <4>1. PICK a \in BpAddresses :
              executing <= a /\ a <= InstrEnd(executing, Length[executing])
        BY <2>2, <2>5, <3>3 DEF StepOn, CheckIfAtBp
      <4>2. a \in executing..InstrEnd(executing, Length[executing])
        BY <1>9, <2>3, <4>1, BpAddressesAreAddresses
      <4>3. a \in Touched[Here]
        BY <1>2, <4>2 DEF Touched
      <4>4. StepsToGo # Control!Unlimited  BY <2>2 DEF Control!Unlimited
      <4>5. Control!Reason  BY <4>1, <4>3, <4>4 DEF Control!Reason
      <4> QED  BY <1>10, <3>1, <4>5
    <3> QED  BY <3>2, <3>3
  <2> QED  BY <2>4, <2>5
<1> QED  BY <1>11, <1>12, <1>13, <1>14 DEF Callback

\* A command or an answer is a step of the user's, from a machine at rest.
LEMMA CommandImplements ==
  ASSUME MachineInv, ListInv, Commands
  PROVE  Control!Next
<1>1. ui \in {"command", "stp"} \union Questions
  <2>1. AnswerRestart \/ AnswerExit => ui = "stp"  BY DEF AnswerRestart, AnswerExit
  <2> QED  BY <2>1, CommandTakesLine DEF Commands
<1>2. /\ ~ Go /\ StepsToGo = 0 /\ ~ Over
      /\ ~ Restarting /\ Here = executing /\ Control!Stopped
  BY <1>1, WaitingIsStopped
<1>3. Go = FALSE /\ Over = FALSE  BY <1>2 DEF Go, Over
<1>4. ui = "command" => executing \notin Halts
  BY DEF MachineInv, ModeInv
<1>5. ASSUME UNCHANGED bpVars PROVE BpAddresses' = BpAddresses
  BY <1>5 DEF bpVars, BpAddresses
<1>6. ASSUME UNCHANGED <<clockVars, controlVars>>
      PROVE  Here' = Here /\ StepsToGo' = StepsToGo /\ Go' = Go /\ Over' = Over
  BY <1>6 DEF clockVars, controlVars, Here, StepsToGo, Go, Over, Restarting
<1>7. ASSUME ResumeMachine, resetReq' = resetReq
      PROVE  Here' = Here /\ Go' = TRUE /\ Over' = FALSE
  <2>1. ~ Restarting' /\ executing' = executing
    BY <1>2, <1>7 DEF ResumeMachine, Restarting
  <2>2. Here' = Here  BY <1>2, <2>1 DEF Here
  <2>3. Go' = TRUE  BY <1>7, <2>1 DEF ResumeMachine, Go
  <2>4. Over' = FALSE  BY <1>7 DEF ResumeMachine, Over
  <2> QED  BY <2>2, <2>3, <2>4
<1>8. CASE Continue
  <2>1. /\ ui = "command" /\ ResumeMachine /\ mode' = "RUNNING" /\ resetReq' = resetReq
        /\ UNCHANGED bpVars
    BY <1>8 DEF Continue, ReadsLine
  <2>2. StepsToGo' = Unlimited  BY <2>1 DEF StepsToGo, ResumeMachine
  <2>3. Control!Resume
    BY <1>2, <1>3, <1>4, <1>5, <1>7, <2>1, <2>2
    DEF Control!Resume, Control!Unlimited, Unlimited
  <2> QED  BY <2>3 DEF Control!Next, Interrupted
<1>9. CASE StepCommand
  <2>1. /\ ui = "command" /\ ResumeMachine /\ mode' = "STEPPING" /\ resetReq' = resetReq
        /\ UNCHANGED bpVars /\ \E n \in StepCounts : stepsLeft' = n - 1
    BY <1>9 DEF StepCommand, ReadsLine
  <2>2. StepsToGo' \in Nat  BY <2>1, DebuggerAssumption DEF StepsToGo
  <2>3. Control!Resume
    BY <1>2, <1>3, <1>4, <1>5, <1>7, <2>1, <2>2 DEF Control!Resume
  <2> QED  BY <2>3 DEF Control!Next, Interrupted
<1>10. CASE ResetCommand \/ AnswerRestart
  <2>1. ResumeMachine /\ DbgResetMachine /\ UNCHANGED bpVars
    BY <1>10, Zenon DEF ResetCommand, AnswerRestart
  <2>2. Restarting'  BY <2>1 DEF DbgResetMachine, Restarting
  <2>3. Here' = ResetPc /\ Go' = FALSE  BY <2>2 DEF Here, Go
  <2>4. StepsToGo' = 0  BY <2>1 DEF DbgResetMachine, StepsToGo
  <2>5. Over' = FALSE  BY <2>1 DEF ResumeMachine, Over
  <2>6. Control!ResetMachine
    BY <1>2, <1>3, <1>5, <2>1, <2>3, <2>4, <2>5 DEF Control!ResetMachine
  <2> QED  BY <2>6 DEF Control!Next, Interrupted
<1>11. CASE QuitCommand \/ AnswerExit
  <2>1. Finish /\ UNCHANGED bpVars
    BY <1>11, Zenon DEF QuitCommand, AnswerExit
  <2>2. Here' = Here  BY <2>1 DEF Finish, clockVars, Here, Restarting
  <2>3. Go' = FALSE /\ Over' = TRUE /\ StepsToGo' = 0
    BY <2>1 DEF Finish, Go, Over, StepsToGo
  <2>4. Control!Quit
    BY <1>2, <1>3, <1>5, <2>1, <2>2, <2>3 DEF Control!Quit
  <2> QED  BY <2>4 DEF Control!Next, Interrupted
<1>12. CASE BreakpointCommand
  <2>1. UNCHANGED <<clockVars, controlVars>>
    BY <1>12 DEF BreakpointCommand
  <2>2. ASSUME NEW a, NEW block, Insert(a, block) PROVE Control!Next
    <3>1. a \in BpAddrs /\ bpList' = Append(bpList, [address |-> a, symbol |-> block])
      BY <2>2 DEF Insert
    <3>2. BpAddresses' = BpAddresses \union {a}
      BY <3>1, AppendAddsAddress
    <3>3. Control!SetBreakpoint
      BY <1>2, <1>6, <2>1, <3>1, <3>2 DEF Control!SetBreakpoint
    <3> QED  BY <3>3 DEF Control!Next, Interrupted
  <2>3. CASE SetBpFails
    BY <1>5, <1>6, <2>1, <2>3, NothingHappens DEF SetBpFails
  <2>4. SetBpFails \/ \E a, block : Insert(a, block)
    BY <1>12, Zenon DEF BreakpointCommand, SetBp, SetNamedBp
  <2> QED  BY <2>2, <2>3, <2>4
<1>13. CASE RemoveCommand
  <2>1. UNCHANGED <<clockVars, controlVars>> /\ bpList' = bpList
    BY <1>13 DEF RemoveCommand, RmvBp
  <2>2. BpAddresses' = BpAddresses  BY <2>1 DEF BpAddresses
  <2> QED  BY <1>6, <2>1, <2>2, NothingHappens
<1>14. CASE OtherCommand
  BY <1>5, <1>6, <1>14, NothingHappens DEF OtherCommand
<1>15. CASE MemoryCommand \/ AnswerFrom \/ AnswerTo
  <2>1. OnlyTheUi /\ ui' \in {"command"} \union Questions
    BY <1>15 DEF MemoryCommand, AnswerFrom, AnswerTo, Questions
  <2>2. ui' # "running" /\ ui' # "finished"  BY <2>1 DEF Questions
  <2>3. Here' = Here /\ BpAddresses' = BpAddresses
    BY <1>5, <2>1 DEF OnlyTheUi, clockVars, Here, Restarting
  <2>4. Go' = FALSE /\ Over' = FALSE  BY <2>2 DEF Go, Over
  <2>5. mode = "STOPPED" /\ mode' = mode
    BY <1>1, <2>1 DEF OnlyTheUi, MachineInv, ModeInv
  <2>6. StepsToGo' = 0  BY <2>5 DEF StepsToGo
  <2> QED  BY <1>2, <1>3, <2>3, <2>4, <2>6, NothingHappens
<1> QED
  BY <1>8, <1>9, <1>10, <1>11, <1>12, <1>13, <1>14, <1>15 DEF Commands

\* `rb` takes one entry out at a time: the address goes with its last entry.
LEMMA RemovalImplements ==
  ASSUME MachineInv, ListInv, ScanInv, RemoveLoop
  PROVE  Control!Next
<1>1. ui = "command" /\ RmvBpStep /\ UNCHANGED <<clockVars, controlVars>>
  BY DEF RemoveLoop
<1>2. Control!Stopped  BY <1>1, WaitingIsStopped
<1>3. Here' = Here /\ StepsToGo' = StepsToGo /\ Go' = Go /\ Over' = Over
  BY <1>1 DEF clockVars, controlVars, Here, StepsToGo, Go, Over, Restarting
<1>4. CASE bpList' = bpList
  BY <1>3, <1>4, NothingHappens DEF BpAddresses
<1>5. CASE RmvBpTake
  <2>1. /\ scan.i \in 1..Len(bpList) /\ bpList' = RemoveAt(bpList, scan.i)
        /\ bpList \in Seq(Entries)
    BY <1>5 DEF RmvBpTake, AtMatch, Scanning, ScanInv, ListInv
  <2>2. BpAddresses' = BpAddresses \/ BpAddresses' = BpAddresses \ {bpList[scan.i].address}
    BY <2>1, RemoveAtTakesAddress
  <2>3. CASE BpAddresses' = BpAddresses
    BY <1>3, <2>3, NothingHappens
  <2>4. CASE BpAddresses' = BpAddresses \ {bpList[scan.i].address}
    <3>1. bpList[scan.i].address \in BpAddrs
      BY <2>1, BpAddressesAreAddresses DEF BpAddresses
    <3>2. Control!RemoveBreakpoint
      BY <1>2, <1>3, <2>4, <3>1 DEF Control!RemoveBreakpoint
    <3> QED  BY <3>2 DEF Control!Next, Interrupted
  <2> QED  BY <2>2, <2>3, <2>4
<1> QED  BY <1>1, <1>4, <1>5 DEF RmvBpStep, RmvBpSkip, RmvBpDone

LEMMA StepImplements == TypeInv /\ [Next]_vars => Control!Next
<1> SUFFICES ASSUME MachineInv, ListInv, ScanInv, [Next]_vars PROVE Control!Next
  BY DEF TypeInv
<1>1. ASSUME UNCHANGED <<clockVars, controlVars, bpVars>> PROVE Control!Next
  <2>1. Here' = Here /\ StepsToGo' = StepsToGo /\ Go' = Go /\ Over' = Over
    BY <1>1 DEF clockVars, controlVars, Here, StepsToGo, Go, Over, Restarting
  <2>2. BpAddresses' = BpAddresses  BY <1>1 DEF bpVars, BpAddresses
  <2> QED  BY <2>1, <2>2, NothingHappens
<1>2. CASE Load
  <2>1. /\ ui = "loading" /\ ui' \in {"loading", "running"}
        /\ UNCHANGED <<clockVars, mode, stepsLeft, bpVars>>
    BY <1>2 DEF Load
  <2>2. Restarting /\ mode = "STOPPED"
    BY <2>1 DEF MachineInv, ModeInv, Restarting
  <2>3. Restarting' /\ Here' = Here
    BY <2>1, <2>2 DEF clockVars, Restarting, Here
  <2>4. Go' <=> Go  BY <2>2, <2>3 DEF Go
  <2>5. StepsToGo' = StepsToGo  BY <2>1, <2>2 DEF StepsToGo
  <2>6. Over' <=> Over  BY <2>1 DEF Over
  <2>7. BpAddresses' = BpAddresses  BY <2>1 DEF bpVars, BpAddresses
  <2> QED  BY <2>3, <2>4, <2>5, <2>6, <2>7, NothingHappens
<1>3. CASE Negedge
  <2>1. /\ ~ fetch /\ UNCHANGED <<executing, fetching, fetch, reset, resetReq, rstCnt>>
        /\ UNCHANGED <<controlVars, bpVars>>
    BY <1>3 DEF Negedge
  <2>2. Here' = Here /\ (Restarting' <=> Restarting)
    BY <2>1 DEF Restarting, Here
  <2>3. (Go' <=> Go) /\ StepsToGo' = StepsToGo /\ (Over' <=> Over)
    BY <2>1, <2>2 DEF Go, StepsToGo, Over, controlVars
  <2>4. BpAddresses' = BpAddresses  BY <2>1 DEF bpVars, BpAddresses
  <2> QED  BY <2>2, <2>3, <2>4, NothingHappens
<1>4. CASE UserTypes \/ Ended \/ UNCHANGED vars
  BY <1>1, <1>4 DEF UserTypes, Ended, vars
<1> QED
  BY <1>2, <1>3, <1>4, PosedgeImplements, CallImplements, CommandImplements,
     RemovalImplements DEF Next, Simulates

(***************************************************************************)
(* The debugger implements RunControl: an instruction is executed only     *)
(* when the user has asked for one, a run never passes a breakpoint, an    *)
(* STP or the steps asked for, it never stops without a reason, and a reset*)
(* ends at the first instruction (dbgOnFetch, tb.v): for any program, any  *)
(* breakpoints and any order of cycles, commands and keys.                 *)
(***************************************************************************)
THEOREM DebuggerImplementsRunControl == Spec => ImplementsRunControl
<1>1. Init => Control!Init
  <2> SUFFICES ASSUME Init PROVE Control!Init  OBVIOUS
  <2>1. /\ executing = Vector /\ mode = "STOPPED" /\ ui = "loading"
        /\ tty = <<>> /\ bpList = <<>>
    BY DEF Init, BpInit
  <2>2. Here = ResetPc  BY <2>1 DEF Here, Restarting
  <2>3. Go = FALSE /\ Over = FALSE /\ StepsToGo = 0
    BY <2>1 DEF Go, Over, StepsToGo
  <2>4. BpAddresses = {}  BY <2>1 DEF BpAddresses
  <2>5. Interrupted = FALSE
    <3>1. DOMAIN tty = {}  BY <2>1
    <3> QED  BY <3>1 DEF Interrupted, Interrupts
  <2> QED  BY <2>2, <2>3, <2>4, <2>5 DEF Control!Init
<1>2. TypeInv /\ [Next]_vars => [Control!Next]_Control!vars
  BY StepImplements
<1> QED  BY <1>1, <1>2, TypeInvariant, PTL DEF Spec, ImplementsRunControl, Control!Spec

=============================================================================
