--------------------------- MODULE ConsoleProofs ---------------------------
(***************************************************************************)
(* Theorems about Console.tla for any cycle counts, any boot ROM of        *)
(* well-formed messages, any strings and any number of keys and resets.    *)
(***************************************************************************)
EXTENDS Console, Induction, SequenceTheorems, TLAPS

----------------------------------------------------------------------------
(* The transmitter.                                                        *)

\* The counter holds what is left of the byte being sent, and the software is
\* about to write only after it has seen the transmitter ready.
PaceInv ==
  /\ txCount \in 0..(TxCycles - 1)
  /\ txReady => since = TxCycles
  /\ ~ txReady => since \in 0..(TxCycles - 1) /\ txCount = TxCycles - 1 - since

WriteInv == txReady \in BOOLEAN /\ ~ overrun /\ (at = "acia_write" => txReady)

\* What a step can do to the transmitter, and where the software can be then.
TxStep ==
  \/ Transmit(FALSE) /\ (at' = "acia_write" => at = "acia_write" \/ txReady)
  \/ Transmit(TRUE) /\ at = "acia_write" /\ at' # "acia_write"
  \/ txReady' = TRUE /\ txCount' = 0 /\ since' = TxCycles /\ overrun' = overrun
  \/ UNCHANGED <<txVars, at>>

LEMMA StepsOfTransmitter == [Next]_vars => TxStep
<1> SUFFICES ASSUME [Next]_vars PROVE TxStep  OBVIOUS
<1>1. CASE Idle
  BY <1>1 DEF Idle, Cycle, TxStep, softVars
<1>2. CASE Cpu(Loop)
  <2>1. Transmit(FALSE) /\ Loop  BY <1>2 DEF Cpu, Cycle
  <2>2. at' = "acia_write" => txReady
    BY <2>1 DEF Loop, FetchInline, ReturnInline, FetchChar, AciaWait, TxStatus, GpuWait,
       GpuWrite, RxWait
  <2> QED  BY <2>1, <2>2 DEF TxStep
<1>3. CASE AciaWrite
  BY <1>3 DEF AciaWrite, Cycle, TxStep
<1>4. CASE RxRead
  BY <1>4 DEF RxRead, Cycle, TxStep
<1>5. CASE Cpu(Call)
  BY <1>5 DEF Cpu, Cycle, Call, k_print, do_getc, do_getc_nb, TxStep
<1>6. CASE Reset
  BY <1>6 DEF Reset, TxStep
<1>7. CASE Monitor \/ SendKey \/ UNCHANGED vars
  <2>1. UNCHANGED <<txVars, softVars>>
    <3>1. OpenFifo \/ OpenKeyboard \/ SendKey => UNCHANGED <<txVars, softVars>>
      BY DEF OpenFifo, OpenKeyboard, SendKey
    <3>2. Draw \/ UNCHANGED vars => UNCHANGED <<txVars, softVars>>
      BY DEF Draw, vars
    <3> QED  BY <1>7, <3>1, <3>2 DEF Monitor
  <2>2. UNCHANGED <<txVars, at>>  BY <2>1 DEF softVars
  <2> QED  BY <2>2, Zenon DEF TxStep
<1> QED  BY <1>1, <1>2, <1>3, <1>4, <1>5, <1>6, <1>7 DEF Next, Software

LEMMA PaceKept == PaceInv /\ TxStep => PaceInv'
<1> SUFFICES ASSUME PaceInv, TxStep PROVE PaceInv'  OBVIOUS
<1>1. TxCycles \in Nat \ {0}  BY ConsoleAssumption
<1>2. CASE Transmit(TRUE)
  <2>1. txCount' = TxCycles - 1 /\ ~ txReady' /\ since' = 0
    BY <1>2 DEF Transmit, TxLoad
  <2>2. TxCycles - 1 \in 0..(TxCycles - 1) /\ 0 \in 0..(TxCycles - 1)
    BY <1>1
  <2> QED  BY <1>1, <2>1, <2>2 DEF PaceInv
<1>3. CASE Transmit(FALSE)
  <2>1. CASE txReady
    BY <1>1, <1>3, <2>1 DEF Transmit, PaceInv
  <2>2. CASE ~ txReady /\ txCount = 0
    <3>1. since = TxCycles - 1  BY <1>1, <2>2 DEF PaceInv
    <3>2. since' = TxCycles /\ txReady' /\ txCount' = 0
      BY <1>1, <1>3, <2>2, <3>1 DEF Transmit, TxCountEnd
    <3> QED  BY <1>1, <3>2 DEF PaceInv
  <2>3. CASE ~ txReady /\ txCount # 0
    <3>1. since' = since + 1 /\ ~ txReady' /\ txCount' = txCount - 1
      BY <1>1, <1>3, <2>3 DEF Transmit, TxCountEnd, PaceInv
    <3>2. since \in 0..(TxCycles - 1) /\ txCount = TxCycles - 1 - since /\ txCount # 0
      BY <2>3 DEF PaceInv
    <3>3. since' \in 0..(TxCycles - 1) /\ txCount' = TxCycles - 1 - since'
            /\ txCount' \in 0..(TxCycles - 1)
      BY <1>1, <3>1, <3>2
    <3> QED  BY <3>1, <3>3 DEF PaceInv
  <2> QED  BY <2>1, <2>2, <2>3
<1>4. CASE txReady' = TRUE /\ txCount' = 0 /\ since' = TxCycles
  BY <1>1, <1>4 DEF PaceInv
<1>5. CASE UNCHANGED txVars  BY <1>5 DEF txVars, PaceInv
<1> QED  BY <1>2, <1>3, <1>4, <1>5 DEF TxStep

LEMMA WriteKept == PaceInv /\ WriteInv /\ TxStep => WriteInv'
<1> SUFFICES ASSUME PaceInv, WriteInv, TxStep PROVE WriteInv'  OBVIOUS
<1>1. CASE Transmit(FALSE) /\ (at' = "acia_write" => at = "acia_write" \/ txReady)
  <2>1. CASE txReady
    BY <1>1, <2>1 DEF Transmit, WriteInv
  <2>2. CASE ~ txReady
    <3>1. overrun' = overrun /\ at # "acia_write" /\ at' # "acia_write"
      BY <1>1, <2>2 DEF Transmit, WriteInv
    <3>2. txReady' = TRUE \/ txReady' = txReady
      BY <1>1, <2>2 DEF Transmit
    <3> QED  BY <3>1, <3>2, Zenon DEF WriteInv
  <2> QED  BY <2>1, <2>2
<1>2. CASE Transmit(TRUE) /\ at = "acia_write" /\ at' # "acia_write"
  BY <1>2 DEF Transmit, WriteInv
<1>3. CASE txReady' = TRUE /\ overrun' = overrun
  BY <1>3 DEF WriteInv
<1>4. CASE UNCHANGED <<txVars, at>>  BY <1>4 DEF txVars, WriteInv
<1> QED  BY <1>1, <1>2, <1>3, <1>4 DEF TxStep

LEMMA PaceInvariant == Spec => [](PaceInv /\ WriteInv)
<1>1. Init => PaceInv /\ WriteInv
  BY ConsoleAssumption DEF Init, PaceInv, WriteInv
<1>2. PaceInv /\ WriteInv /\ [Next]_vars => PaceInv' /\ WriteInv'
  BY StepsOfTransmitter, PaceKept, WriteKept
<1> QED  BY <1>1, <1>2, PTL DEF Spec

(***************************************************************************)
(* The software never writes a byte into one that the ACIA is still        *)
(* sending, and the ACIA is busy for ACIA_TX_CYCLES cycles after each      *)
(* (tb.v; the wait loops of boot.s, kernel.c and syscalls.c), resets at any*)
(* moment included.                                                        *)
(***************************************************************************)
THEOREM TxPacedHolds == Spec => []TxPaced
<1>1. PaceInv /\ WriteInv => TxPaced
  BY ConsoleAssumption DEF PaceInv, WriteInv, TxPaced
<1> QED  BY <1>1, PaceInvariant, PTL

----------------------------------------------------------------------------
(* The keys.                                                               *)

\* Where keys are. After the monitor has emptied the file the read position may
\* lie behind its end; it never passes what was typed.
KeyTypes ==
  /\ typed \in 0..MaxKeys /\ pos \in 0..typed /\ rxData \in 0..typed
  /\ file \in Seq(1..typed) /\ Len(file) <= typed
  /\ got \in Seq(1..typed)

PollInv == poll \in 0..PollCycles

\* The software reads the data register only after it has seen a key there, and
\* nobody takes that away.
ReadInv == rxValid \in BOOLEAN /\ (at = "rx_read" => rxValid)

\* What has been read, what is received and what is to be received are in order.
OrderInv ==
  /\ \A i, j \in DOMAIN got : i < j => got[i] < got[j]
  /\ \A i, j \in DOMAIN file : i < j => file[i] < file[j]
  /\ \A i \in DOMAIN got, j \in DOMAIN file : j > pos => got[i] < file[j]
  /\ rxValid => /\ rxData # 0
                /\ \A i \in DOMAIN got : got[i] < rxData
                /\ \A j \in DOMAIN file : j > pos => rxData < file[j]

\* The file holds what was typed after it was emptied, as many keys have been
\* read from it as the position says, and the lost ones are among the first.
Arrived(k) == (\E i \in DOMAIN got : got[i] = k) \/ (rxValid /\ rxData = k)
CompleteInv ==
  /\ early \in 0..typed /\ (monitor # "running" => early = 0)
  /\ Len(file) = typed - early /\ \A i \in 1..Len(file) : file[i] = early + i
  /\ Len(got) + (IF rxValid THEN 1 ELSE 0) = pos
  /\ \A k \in ((2 * early) + 1)..(early + pos) : Arrived(k)

\* What a step can do with the keys.
SameKeys == UNCHANGED <<file, typed, monitor, early>>
RxStep ==
  \/ Receive(FALSE) /\ got' = got /\ SameKeys
       /\ (at' = "rx_read" => at = "rx_read" \/ rxValid)
  \/ Receive(TRUE) /\ got' = Append(got, rxData) /\ SameKeys
       /\ at = "rx_read" /\ at' # "rx_read"
  \/ OpenKeyboard \/ SendKey
  \/ /\ UNCHANGED <<rxVars, got, at, file, typed, early>>
     /\ monitor = "running" => monitor' = "running"
     /\ monitor' = "running" => monitor = "running"

LEMMA StepsOfReceiver == [Next]_vars => RxStep
<1> SUFFICES ASSUME [Next]_vars PROVE RxStep  OBVIOUS
<1>0. UNCHANGED hostVars => SameKeys  BY DEF hostVars, SameKeys
<1>1. CASE Idle
  <2>1. Receive(FALSE) /\ UNCHANGED hostVars /\ got' = got /\ at' = at
    BY <1>1 DEF Idle, Cycle, softVars
  <2> QED  BY <1>0, <2>1, Zenon DEF RxStep
<1>2. CASE Cpu(Loop)
  <2>1. Receive(FALSE) /\ UNCHANGED hostVars /\ got' = got /\ Loop
    BY <1>2 DEF Cpu, Cycle
  <2>2. at' = "rx_read" => rxValid
    BY <2>1 DEF Loop, FetchInline, ReturnInline, FetchChar, AciaWait, GpuWait,
       GpuWrite, RxWait, RxStatus
  <2> QED  BY <1>0, <2>1, <2>2, Zenon DEF RxStep
<1>3. CASE AciaWrite
  <2>1. Receive(FALSE) /\ UNCHANGED hostVars /\ got' = got /\ at' # "rx_read"
    BY <1>3 DEF AciaWrite, Cycle
  <2> QED  BY <1>0, <2>1, Zenon DEF RxStep
<1>4. CASE RxRead
  <2>1. /\ Receive(TRUE) /\ UNCHANGED hostVars /\ got' = Append(got, rxData)
        /\ at = "rx_read" /\ at' # "rx_read"
    BY <1>4 DEF RxRead, Cycle
  <2> QED  BY <1>0, <2>1, Zenon DEF RxStep
<1>5. CASE Cpu(Call)
  <2>1. Receive(FALSE) /\ UNCHANGED hostVars /\ got' = got /\ at' # "rx_read"
    BY <1>5 DEF Cpu, Cycle, Call, k_print, do_getc, do_getc_nb
  <2> QED  BY <1>0, <2>1, Zenon DEF RxStep
<1>6. CASE Reset
  <2>1. Receive(FALSE) /\ UNCHANGED hostVars /\ got' = got /\ at' # "rx_read"
    BY <1>6 DEF Reset
  <2> QED  BY <1>0, <2>1, Zenon DEF RxStep
<1>7. CASE OpenFifo
  BY <1>7 DEF OpenFifo, softVars, RxStep
<1>8. CASE OpenKeyboard \/ SendKey
  BY <1>8, Zenon DEF RxStep
<1>9. CASE Draw \/ UNCHANGED vars
  <2>1. UNCHANGED <<rxVars, got, at, file, typed, early, monitor>>
    BY <1>9 DEF Draw, vars, softVars, hostVars
  <2> QED  BY <2>1 DEF RxStep
<1> QED
  BY <1>1, <1>2, <1>3, <1>4, <1>5, <1>6, <1>7, <1>8, <1>9 DEF Next, Software, Monitor

\* What one cycle of the receiver does.
LEMMA ReceiveCases ==
  ASSUME KeyTypes, NEW read \in BOOLEAN, Receive(read), rxValid \in BOOLEAN
  PROVE  /\ rxValid' \in BOOLEAN
         /\ \/ /\ ~ rxValid /\ pos < Len(file)
               /\ pos' = pos + 1 /\ rxValid' /\ rxData' = file[pos + 1]
            \/ /\ pos' = pos /\ rxData' = rxData
               /\ rxValid' <=> (rxValid /\ ~ read)
  BY DEF Receive

KeysInv == KeyTypes /\ ReadInv /\ OrderInv /\ CompleteInv

\* A poll that finds a key takes the next one of the file.
LEMMA TakeKeepsKeys ==
  ASSUME KeysInv, ~ rxValid, pos < Len(file), SameKeys, got' = got,
         pos' = pos + 1, rxValid' \in BOOLEAN, rxValid', rxData' = file[pos + 1]
  PROVE  KeysInv'
<1>1. /\ typed \in 0..MaxKeys /\ pos \in 0..typed /\ MaxKeys \in Nat
      /\ file \in Seq(1..typed) /\ Len(file) <= typed /\ Len(file) \in Nat
      /\ got \in Seq(1..typed)
      /\ UNCHANGED <<file, typed, monitor, early>>
  BY ConsoleAssumption DEF KeysInv, KeyTypes, SameKeys
<1>2. pos + 1 \in DOMAIN file /\ rxData' \in 1..typed
  BY <1>1
<1>3. KeyTypes'  BY <1>1, <1>2 DEF KeyTypes
<1>4. ReadInv'  BY DEF ReadInv
<1>5. OrderInv'
  <2>1. \A j \in DOMAIN file : j > pos + 1 => rxData' < file[j]
    BY <1>1, <1>2 DEF KeysInv, OrderInv
  <2>2. \A i \in DOMAIN got : got[i] < rxData'
    BY <1>1, <1>2 DEF KeysInv, OrderInv
  <2>3. \A i \in DOMAIN got, j \in DOMAIN file : j > pos + 1 => got[i] < file[j]
    BY <1>1 DEF KeysInv, OrderInv
  <2>4. rxData' # 0  BY <1>1, <1>2
  <2> QED  BY <1>1, <2>1, <2>2, <2>3, <2>4 DEF KeysInv, OrderInv
<1>6. CompleteInv'
  <2>1. /\ early \in 0..typed /\ Len(got) = pos
        /\ \A k \in ((2 * early) + 1)..(early + pos) : \E i \in DOMAIN got : got[i] = k
    BY <1>1 DEF KeysInv, CompleteInv, Arrived
  <2>2. rxData' = early + pos + 1
    BY <1>1, <1>2 DEF KeysInv, CompleteInv
  <2>3. ASSUME NEW k \in ((2 * early) + 1)..(early + pos + 1)
        PROVE  (\E i \in DOMAIN got : got[i] = k) \/ rxData' = k
    <3>1. k \in ((2 * early) + 1)..(early + pos) \/ k = early + pos + 1
      BY <1>1, <2>1
    <3> QED  BY <2>1, <2>2, <3>1
  <2>4. early + pos' = early + pos + 1  BY <1>1, <2>1
  <2>5. \A k \in ((2 * early') + 1)..(early' + pos') : Arrived(k)'
    BY <1>1, <2>3, <2>4 DEF Arrived
  <2>6. Len(got') + (IF rxValid' THEN 1 ELSE 0) = pos'
    BY <1>1, <2>1
  <2> QED  BY <1>1, <2>5, <2>6 DEF KeysInv, CompleteInv
<1> QED  BY <1>3, <1>4, <1>5, <1>6 DEF KeysInv

\* The software's read moves the received key to those it has got.
LEMMA ReadKeepsKeys ==
  ASSUME KeysInv, rxValid, SameKeys, got' = Append(got, rxData),
         pos' = pos, rxData' = rxData, rxValid' = FALSE, at' # "rx_read"
  PROVE  KeysInv'
<1>1. /\ typed \in 0..MaxKeys /\ pos \in 0..typed /\ MaxKeys \in Nat
      /\ file \in Seq(1..typed) /\ Len(file) <= typed /\ Len(file) \in Nat
      /\ got \in Seq(1..typed) /\ Len(got) \in Nat /\ DOMAIN got = 1..Len(got)
      /\ UNCHANGED <<file, typed, monitor, early>>
  BY ConsoleAssumption DEF KeysInv, KeyTypes, SameKeys
<1>2. rxData \in 1..typed
  BY <1>1 DEF KeysInv, KeyTypes, OrderInv
<1>3. /\ got' \in Seq(1..typed) /\ DOMAIN got' = 1..(Len(got) + 1)
      /\ \A i \in 1..Len(got) : got'[i] = got[i]
      /\ got'[Len(got) + 1] = rxData
  BY <1>1, <1>2, AppendProperties
<1>4. KeyTypes'
  BY <1>1, <1>2, <1>3 DEF KeysInv, KeyTypes
<1>5. ReadInv'  BY DEF ReadInv
<1>6. OrderInv'
  <2>1. \A i, j \in DOMAIN got : i < j => got[i] < got[j]
    BY DEF KeysInv, OrderInv
  <2>2. \A i \in DOMAIN got : got[i] < rxData
    BY DEF KeysInv, OrderInv
  <2>3. \A i, j \in DOMAIN got' : i < j => got'[i] < got'[j]
    <3> SUFFICES ASSUME NEW i \in DOMAIN got', NEW j \in DOMAIN got', i < j
                 PROVE  got'[i] < got'[j]
      OBVIOUS
    <3>1. i \in 1..Len(got) /\ got'[i] = got[i]  BY <1>1, <1>3
    <3>2. CASE j \in 1..Len(got)  BY <1>1, <1>3, <2>1, <3>1, <3>2
    <3>3. CASE j = Len(got) + 1  BY <1>1, <1>3, <2>2, <3>1, <3>3
    <3> QED  BY <1>1, <1>3, <3>2, <3>3
  <2>4. \A i \in DOMAIN got', j \in DOMAIN file : j > pos => got'[i] < file[j]
    <3> SUFFICES ASSUME NEW i \in DOMAIN got', NEW j \in DOMAIN file, j > pos
                 PROVE  got'[i] < file[j]
      OBVIOUS
    <3>1. CASE i \in 1..Len(got)  BY <1>1, <1>3, <3>1 DEF KeysInv, OrderInv
    <3>2. CASE i = Len(got) + 1  BY <1>1, <1>3, <3>2 DEF KeysInv, OrderInv
    <3>3. i \in 1..(Len(got) + 1)  BY <1>3
    <3> QED  BY <1>1, <3>1, <3>2, <3>3
  <2>5. \A i, j \in DOMAIN file : i < j => file[i] < file[j]
    BY DEF KeysInv, OrderInv
  <2> QED  BY <1>1, <2>3, <2>4, <2>5 DEF OrderInv
<1>7. CompleteInv'
  <2>1. ASSUME NEW k, Arrived(k) PROVE Arrived(k)'
    <3>1. CASE \E i \in DOMAIN got : got[i] = k
      <4>1. PICK i \in 1..Len(got) : got[i] = k  BY <1>1, <3>1
      <4>2. i \in DOMAIN got' /\ got'[i] = k  BY <1>1, <1>3, <4>1
      <4> QED  BY <4>2 DEF Arrived
    <3>2. CASE rxData = k
      <4>1. Len(got) + 1 \in DOMAIN got'  BY <1>1, <1>3
      <4> QED  BY <1>3, <3>2, <4>1 DEF Arrived
    <3> QED  BY <2>1, <3>1, <3>2 DEF Arrived
  <2>2. \A k \in ((2 * early') + 1)..(early' + pos') : Arrived(k)'
    BY <1>1, <2>1 DEF KeysInv, CompleteInv
  <2>3. Len(got') = Len(got) + 1  BY <1>1, <1>3
  <2>4. Len(got') + (IF rxValid' THEN 1 ELSE 0) = pos'
    BY <1>1, <1>3, <2>3 DEF KeysInv, CompleteInv
  <2> QED  BY <1>1, <2>2, <2>4 DEF KeysInv, CompleteInv
<1> QED  BY <1>4, <1>5, <1>6, <1>7 DEF KeysInv

\* A key typed is behind all others.
LEMMA SendKeepsKeys == KeysInv /\ SendKey => KeysInv'
<1> SUFFICES ASSUME KeysInv, SendKey PROVE KeysInv'  OBVIOUS
<1>1. /\ typed \in 0..MaxKeys /\ pos \in 0..typed /\ MaxKeys \in Nat
      /\ file \in Seq(1..typed) /\ Len(file) <= typed /\ Len(file) \in Nat
      /\ DOMAIN file = 1..Len(file) /\ rxData \in 0..typed
      /\ got \in Seq(1..typed)
  BY ConsoleAssumption DEF KeysInv, KeyTypes
<1>2. /\ typed' = typed + 1 /\ file' = Append(file, typed + 1) /\ typed < MaxKeys
      /\ UNCHANGED <<monitor, early, rxData, rxValid, pos, got, at>>
  BY DEF SendKey, rxVars, softVars
<1>3. file \in Seq(1..(typed + 1)) /\ got \in Seq(1..(typed + 1))
  <2>1. 1..typed \subseteq 1..(typed + 1)  BY <1>1
  <2> QED  BY <1>1, <2>1, SeqMonotonic
<1>4. /\ file' \in Seq(1..(typed + 1)) /\ Len(file') = Len(file) + 1
      /\ DOMAIN file' = 1..(Len(file) + 1)
      /\ \A i \in 1..Len(file) : file'[i] = file[i]
      /\ file'[Len(file) + 1] = typed + 1
  BY <1>1, <1>2, <1>3, AppendProperties
<1>5. KeyTypes'
  BY <1>1, <1>2, <1>3, <1>4 DEF KeyTypes
<1>6. ReadInv'  BY <1>2 DEF KeysInv, ReadInv
<1>7. OrderInv'
  <2>1. /\ \A i \in DOMAIN got : got[i] \in 1..typed
        /\ \A i \in DOMAIN file : file[i] \in 1..typed
    BY <1>1
  <2>2. /\ \A i, j \in DOMAIN got : i < j => got[i] < got[j]
        /\ \A i, j \in DOMAIN file : i < j => file[i] < file[j]
        /\ \A i \in DOMAIN got, j \in DOMAIN file : j > pos => got[i] < file[j]
    BY DEF KeysInv, OrderInv
  <2>3. \A i, j \in DOMAIN file' : i < j => file'[i] < file'[j]
    <3> SUFFICES ASSUME NEW i \in DOMAIN file', NEW j \in DOMAIN file', i < j
                 PROVE  file'[i] < file'[j]
      OBVIOUS
    <3>1. i \in 1..Len(file) /\ file'[i] = file[i]  BY <1>1, <1>4
    <3>2. CASE j \in 1..Len(file)  BY <1>1, <1>4, <2>2, <3>1, <3>2
    <3>3. CASE j = Len(file) + 1  BY <1>1, <1>4, <2>1, <3>1, <3>3
    <3> QED  BY <1>1, <1>4, <3>2, <3>3
  <2>4. \A i \in DOMAIN got, j \in DOMAIN file' : j > pos => got[i] < file'[j]
    <3> SUFFICES ASSUME NEW i \in DOMAIN got, NEW j \in DOMAIN file', j > pos
                 PROVE  got[i] < file'[j]
      OBVIOUS
    <3>1. CASE j \in 1..Len(file)  BY <1>1, <1>4, <2>2, <3>1
    <3>2. CASE j = Len(file) + 1  BY <1>1, <1>4, <2>1, <3>2
    <3> QED  BY <1>1, <1>4, <3>1, <3>2
  <2>5. ASSUME rxValid
        PROVE  /\ rxData # 0 /\ \A i \in DOMAIN got : got[i] < rxData
               /\ \A j \in DOMAIN file' : j > pos => rxData < file'[j]
    <3>1. /\ rxData # 0 /\ \A i \in DOMAIN got : got[i] < rxData
          /\ \A j \in DOMAIN file : j > pos => rxData < file[j]
      BY <2>5 DEF KeysInv, OrderInv
    <3>2. \A j \in DOMAIN file' : j > pos => rxData < file'[j]
      <4> SUFFICES ASSUME NEW j \in DOMAIN file', j > pos PROVE rxData < file'[j]
        OBVIOUS
      <4>1. CASE j \in 1..Len(file)  BY <1>1, <1>4, <3>1, <4>1
      <4>2. CASE j = Len(file) + 1  BY <1>1, <1>4, <4>2
      <4> QED  BY <1>1, <1>4, <4>1, <4>2
    <3> QED  BY <3>1, <3>2
  <2> QED  BY <1>2, <2>2, <2>3, <2>4, <2>5 DEF OrderInv
<1>8. CompleteInv'
  <2>1. early \in 0..typed /\ Len(file) = typed - early
    BY DEF KeysInv, CompleteInv
  <2>2. early' \in 0..typed' /\ Len(file') = typed' - early'
    BY <1>1, <1>2, <1>4, <2>1
  <2>3. ASSUME NEW i \in 1..Len(file') PROVE file'[i] = early' + i
    <3>1. CASE i \in 1..Len(file)
      BY <1>2, <1>4, <3>1 DEF KeysInv, CompleteInv
    <3>2. CASE i = Len(file) + 1
      BY <1>1, <1>2, <1>4, <2>1, <3>2
    <3> QED  BY <1>1, <1>4, <3>1, <3>2
  <2>4. \A k : Arrived(k)' = Arrived(k)  BY <1>2 DEF Arrived
  <2> QED  BY <1>2, <2>2, <2>3, <2>4 DEF KeysInv, CompleteInv
<1> QED  BY <1>5, <1>6, <1>7, <1>8 DEF KeysInv

\* What the file loses was sent before; the position stays, and is not beyond it.
LEMMA OpenKeepsKeys == KeysInv /\ OpenKeyboard => KeysInv'
<1> SUFFICES ASSUME KeysInv, OpenKeyboard PROVE KeysInv'  OBVIOUS
<1>1. /\ monitor = "fifo" /\ monitor' = "running" /\ file' = <<>> /\ early' = typed
      /\ UNCHANGED <<typed, rxData, rxValid, pos, got, at>>
  BY DEF OpenKeyboard, rxVars, softVars
<1>2. typed \in Nat /\ pos \in 0..typed /\ Len(got) + (IF rxValid THEN 1 ELSE 0) = pos
  BY ConsoleAssumption DEF KeysInv, KeyTypes, CompleteInv
<1>3. KeyTypes'  BY <1>1 DEF KeysInv, KeyTypes
<1>4. ReadInv'  BY <1>1 DEF KeysInv, ReadInv
<1>5. OrderInv'
  <2>1. DOMAIN file' = {}  BY <1>1
  <2> QED  BY <1>1, <2>1 DEF KeysInv, OrderInv
<1>6. CompleteInv'
  <2>1. early' \in 0..typed' /\ Len(file') = typed' - early' /\ 1..Len(file') = {}
    BY <1>1, <1>2
  <2>2. ((2 * early') + 1)..(early' + pos') = {}
    BY <1>1, <1>2
  <2> QED  BY <1>1, <1>2, <2>1, <2>2 DEF CompleteInv
<1> QED  BY <1>3, <1>4, <1>5, <1>6 DEF KeysInv

LEMMA KeysKept == KeysInv /\ RxStep => KeysInv'
<1> SUFFICES ASSUME KeysInv, RxStep PROVE KeysInv'  OBVIOUS
<1>1. ASSUME UNCHANGED <<file, typed, early, rxData, rxValid, pos, got>>,
             monitor = "running" <=> monitor' = "running",
             at' = "rx_read" => rxValid
      PROVE  KeysInv'
  <2>1. KeyTypes'  BY <1>1 DEF KeysInv, KeyTypes
  <2>2. ReadInv'  BY <1>1 DEF KeysInv, ReadInv
  <2>3. OrderInv'  BY <1>1 DEF KeysInv, OrderInv
  <2>4. CompleteInv'  BY <1>1 DEF KeysInv, CompleteInv, Arrived
  <2> QED  BY <2>1, <2>2, <2>3, <2>4 DEF KeysInv
<1>2. rxValid \in BOOLEAN /\ (at = "rx_read" => rxValid)
  BY DEF KeysInv, ReadInv
<1>3. CASE Receive(FALSE) /\ got' = got /\ SameKeys
             /\ (at' = "rx_read" => at = "rx_read" \/ rxValid)
  <2>1. CASE ~ rxValid /\ pos < Len(file) /\ pos' = pos + 1 /\ rxValid' /\ rxData' = file[pos + 1]
    BY <1>2, <1>3, <2>1, ReceiveCases, TakeKeepsKeys DEF KeysInv
  <2>2. CASE pos' = pos /\ rxData' = rxData /\ (rxValid' <=> (rxValid /\ ~ FALSE))
    <3>1. rxValid' = rxValid  BY <1>2, <1>3, <2>2, ReceiveCases DEF KeysInv
    <3> QED  BY <1>1, <1>2, <1>3, <2>2, <3>1 DEF SameKeys
  <2> QED  BY <1>2, <1>3, <2>1, <2>2, ReceiveCases DEF KeysInv
<1>4. CASE Receive(TRUE) /\ got' = Append(got, rxData) /\ SameKeys
             /\ at = "rx_read" /\ at' # "rx_read"
  <2>1. pos' = pos /\ rxData' = rxData /\ rxValid' = FALSE
    BY <1>2, <1>4, ReceiveCases DEF KeysInv
  <2> QED  BY <1>2, <1>4, <2>1, ReadKeepsKeys
<1>5. CASE OpenKeyboard \/ SendKey  BY <1>5, OpenKeepsKeys, SendKeepsKeys
<1>6. CASE /\ UNCHANGED <<rxVars, got, at, file, typed, early>>
           /\ monitor = "running" => monitor' = "running"
           /\ monitor' = "running" => monitor = "running"
  BY <1>1, <1>2, <1>6 DEF rxVars
<1> QED  BY <1>3, <1>4, <1>5, <1>6, Zenon DEF RxStep

LEMMA KeysInvariant == Spec => []KeysInv
<1>1. Init => KeysInv
  <2> SUFFICES ASSUME Init PROVE KeysInv  OBVIOUS
  <2>1. /\ typed = 0 /\ pos = 0 /\ rxData = 0 /\ file = <<>> /\ got = <<>>
        /\ rxValid = FALSE /\ at = "fetch" /\ monitor = "starting" /\ early = 0
    BY DEF Init
  <2>2. KeyTypes  BY <2>1, ConsoleAssumption DEF KeyTypes
  <2>3. ReadInv  BY <2>1 DEF ReadInv
  <2>4. OrderInv  BY <2>1 DEF OrderInv
  <2>5. CompleteInv  BY <2>1 DEF CompleteInv
  <2> QED  BY <2>2, <2>3, <2>4, <2>5 DEF KeysInv
<1>2. KeysInv /\ [Next]_vars => KeysInv'  BY StepsOfReceiver, KeysKept
<1> QED  BY <1>1, <1>2, PTL DEF Spec

\* Sequences of increasing keys, one behind the other.
Increasing(s) == \A i, j \in DOMAIN s : i < j => s[i] < s[j]
Within(s, x)  == \E i \in DOMAIN s : s[i] = x

LEMMA IncreasingConcat ==
  ASSUME NEW s \in Seq(Nat), NEW t \in Seq(Nat), Increasing(s), Increasing(t),
         \A i \in DOMAIN s, j \in DOMAIN t : s[i] < t[j]
  PROVE  /\ s \o t \in Seq(Nat) /\ Len(s \o t) = Len(s) + Len(t)
         /\ Increasing(s \o t)
         /\ \A x : Within(s \o t, x) <=> Within(s, x) \/ Within(t, x)
<1> DEFINE u == s \o t
           m == Len(s)
           n == Len(t)
<1>1. m \in Nat /\ n \in Nat /\ DOMAIN s = 1..m /\ DOMAIN t = 1..n  OBVIOUS
<1>2. /\ u \in Seq(Nat) /\ Len(u) = m + n /\ DOMAIN u = 1..(m + n)
      /\ \A i \in 1..(m + n) : u[i] = IF i <= m THEN s[i] ELSE t[i - m]
  BY <1>1, ConcatProperties
<1>3. \A i \in 1..m : s[i] \in Nat  OBVIOUS
<1>4. \A i \in 1..n : t[i] \in Nat  OBVIOUS
<1> HIDE DEF u, m, n
<1>5. ASSUME NEW i \in 1..m PROVE i \in DOMAIN u /\ u[i] = s[i]
  BY <1>1, <1>2
<1>6. ASSUME NEW i \in 1..n PROVE m + i \in DOMAIN u /\ u[m + i] = t[i]
  <2>1. m + i \in 1..(m + n) /\ ~ (m + i <= m) /\ (m + i) - m = i  BY <1>1
  <2> QED  BY <1>2, <2>1
<1>7. ASSUME NEW i \in DOMAIN u
      PROVE  i \in 1..m \/ \E k \in 1..n : i = m + k
  <2>1. CASE i <= m  BY <1>1, <1>2, <2>1
  <2>2. CASE ~ (i <= m)
    <3>1. i - m \in 1..n /\ i = m + (i - m)  BY <1>1, <1>2, <2>2
    <3> QED  BY <3>1
  <2> QED  BY <2>1, <2>2
<1>8. Increasing(u)
  <2> SUFFICES ASSUME NEW i \in DOMAIN u, NEW j \in DOMAIN u, i < j PROVE u[i] < u[j]
    BY DEF Increasing
  <2>1. CASE i \in 1..m /\ j \in 1..m
    BY <1>1, <1>5, <2>1 DEF Increasing
  <2>2. CASE i \in 1..m /\ \E k \in 1..n : j = m + k
    BY <1>1, <1>5, <1>6, <2>2
  <2>3. CASE (\E k \in 1..n : i = m + k) /\ j \in 1..m
    BY <1>1, <2>3
  <2>4. CASE (\E k \in 1..n : i = m + k) /\ (\E k \in 1..n : j = m + k)
    <3>1. PICK k \in 1..n, l \in 1..n : i = m + k /\ j = m + l  BY <2>4
    <3>2. k < l  BY <1>1, <3>1
    <3> QED  BY <1>1, <1>6, <3>1, <3>2 DEF Increasing
  <2> QED  BY <1>7, <2>1, <2>2, <2>3, <2>4
<1>9. ASSUME NEW x PROVE Within(u, x) <=> Within(s, x) \/ Within(t, x)
  <2>1. Within(s, x) => Within(u, x)  BY <1>1, <1>5 DEF Within
  <2>2. Within(t, x) => Within(u, x)  BY <1>1, <1>6 DEF Within
  <2>3. Within(u, x) => Within(s, x) \/ Within(t, x)
    BY <1>1, <1>5, <1>6, <1>7 DEF Within
  <2> QED  BY <2>1, <2>2, <2>3
<1> QED  BY <1>2, <1>8, <1>9 DEF u, m, n

\* What is left of a sequence behind its first p members.
LEMMA RestOfSequence ==
  ASSUME NEW f \in Seq(Nat), NEW p \in Nat
  PROVE  /\ SubSeq(f, p + 1, Len(f)) \in Seq(Nat)
         /\ Len(SubSeq(f, p + 1, Len(f))) >= Len(f) - p
         /\ \A i \in DOMAIN SubSeq(f, p + 1, Len(f)) :
              p + i \in DOMAIN f /\ SubSeq(f, p + 1, Len(f))[i] = f[p + i]
         /\ \A j \in DOMAIN f : j > p => j - p \in DOMAIN SubSeq(f, p + 1, Len(f))
<1> DEFINE n == Len(f)
           r == SubSeq(f, p + 1, n)
<1>1. n \in Nat /\ DOMAIN f = 1..n /\ p + 1 \in Int /\ n \in Int  OBVIOUS
<1>2. \A i \in (p + 1)..n : f[i] \in Nat  BY <1>1
<1> HIDE DEF n
<1>3. /\ r \in Seq(Nat)
      /\ Len(r) = IF p + 1 <= n THEN n - (p + 1) + 1 ELSE 0
      /\ \A i \in 1..(n - (p + 1) + 1) : r[i] = f[(p + 1) + i - 1]
  BY <1>1, <1>2, SubSeqProperties
<1> HIDE DEF r
<1>4. DOMAIN r = 1..Len(r) /\ Len(r) \in Nat  BY <1>3
<1>5. Len(r) >= n - p  BY <1>1, <1>3
<1>6. ASSUME NEW i \in DOMAIN r PROVE p + i \in DOMAIN f /\ r[i] = f[p + i]
  <2>1. i \in Nat /\ 1 <= i /\ p + 1 <= n /\ i <= n - p  BY <1>1, <1>3, <1>4
  <2>2. (p + 1) + i - 1 = p + i /\ i \in 1..(n - (p + 1) + 1)  BY <1>1, <2>1
  <2> QED  BY <1>1, <1>3, <2>1, <2>2
<1>7. ASSUME NEW j \in DOMAIN f, j > p PROVE j - p \in DOMAIN r
  BY <1>1, <1>3, <1>4, <1>7
<1> QED  BY <1>3, <1>5, <1>6, <1>7 DEF r, n

(***************************************************************************)
(* The software reads each key once and in the order of typing, and loses  *)
(* no more keys than the debugger sends before the monitor empties the     *)
(* keyboard file, all of them among the first twice as many (tb.v's poll,  *)
(* do_getc, gpu.c): whatever the poll interval, and across resets too.     *)
(***************************************************************************)
THEOREM KeysArriveHolds == Spec => []KeysArrive
<1>1. KeysInv => KeysArrive
  <2> SUFFICES ASSUME KeysInv PROVE KeysArrive  OBVIOUS
  <2> DEFINE read == got \o Held
             rest == SubSeq(file, pos + 1, Len(file))
  <2>1. /\ typed \in Nat /\ pos \in Nat /\ early \in Nat /\ rxData \in Nat
        /\ got \in Seq(1..typed) /\ file \in Seq(1..typed) /\ rxValid \in BOOLEAN
    BY ConsoleAssumption DEF KeysInv, KeyTypes, ReadInv, CompleteInv
  <2>2. Len(file) = typed - early /\ \A i \in DOMAIN file : file[i] = early + i
    BY <2>1 DEF KeysInv, CompleteInv
  <2>3. got \in Seq(Nat) /\ file \in Seq(Nat)
    <3>1. 1..typed \subseteq Nat  BY <2>1
    <3> QED  BY <2>1, <3>1, SeqMonotonic
  <2>4. /\ Held \in Seq(Nat) /\ Len(got) + Len(Held) = pos
        /\ \A i \in DOMAIN Held : rxValid /\ i = 1 /\ Held[i] = rxData
        /\ \A x : Within(Held, x) <=> rxValid /\ rxData = x
    <3>1. CASE rxValid
      <4>1. Held = <<rxData>>  BY <3>1 DEF Held
      <4>2. Held \in Seq(Nat) /\ Len(Held) = 1 /\ DOMAIN Held = {1} /\ Held[1] = rxData
        BY <2>1, <4>1
      <4>3. Len(got) + 1 = pos  BY <3>1 DEF KeysInv, CompleteInv
      <4> QED  BY <3>1, <4>2, <4>3 DEF Within
    <3>2. CASE ~ rxValid
      <4>1. Held = <<>>  BY <3>2 DEF Held
      <4>2. Held \in Seq(Nat) /\ Len(Held) = 0 /\ DOMAIN Held = {}  BY <4>1
      <4>3. Len(got) + 0 = pos  BY <3>2 DEF KeysInv, CompleteInv
      <4> QED  BY <3>2, <4>2, <4>3 DEF Within
    <3> QED  BY <3>1, <3>2
  <2>5. /\ read \in Seq(Nat) /\ Len(read) = pos /\ Increasing(read)
        /\ \A x : Within(read, x) <=> Within(got, x) \/ Within(Held, x)
    <3>1. Increasing(got)  BY DEF KeysInv, OrderInv, Increasing
    <3>2. Increasing(Held)  BY <2>4 DEF Increasing
    <3>3. \A i \in DOMAIN got, j \in DOMAIN Held : got[i] < Held[j]
      BY <2>4 DEF KeysInv, OrderInv
    <3> QED  BY <2>3, <2>4, <3>1, <3>2, <3>3, IncreasingConcat
  <2>6. /\ rest \in Seq(Nat) /\ Len(rest) >= Len(file) - pos
        /\ \A i \in DOMAIN rest : pos + i \in DOMAIN file /\ rest[i] = file[pos + i]
        /\ \A j \in DOMAIN file : j > pos => j - pos \in DOMAIN rest
    BY <2>1, <2>3, RestOfSequence
  <2> HIDE DEF rest, read
  <2>7. Increasing(rest)
    <3> SUFFICES ASSUME NEW i \in DOMAIN rest, NEW j \in DOMAIN rest, i < j
                 PROVE  rest[i] < rest[j]
      BY DEF Increasing
    <3>1. i \in Nat /\ j \in Nat  BY <2>6
    <3>2. pos + i < pos + j  BY <2>1, <3>1
    <3>3. \A k, l \in DOMAIN file : k < l => file[k] < file[l]  BY DEF KeysInv, OrderInv
    <3> QED  BY <2>6, <3>2, <3>3
  <2>8. ASSUME NEW i \in DOMAIN read, NEW j \in DOMAIN rest PROVE read[i] < rest[j]
    <3>1. j \in Nat /\ j > 0  BY <2>6
    <3>2. pos + j \in DOMAIN file /\ rest[j] = file[pos + j]  BY <2>6
    <3>3. pos + j > pos  BY <2>1, <3>1
    <3>4. Within(got, read[i]) \/ Within(Held, read[i])  BY <2>5 DEF Within
    <3>5. CASE Within(got, read[i])
      <4>1. PICK k \in DOMAIN got : got[k] = read[i]  BY <3>5 DEF Within
      <4>2. got[k] < file[pos + j]  BY <3>2, <3>3 DEF KeysInv, OrderInv
      <4> QED  BY <3>2, <4>1, <4>2
    <3>6. CASE Within(Held, read[i])
      <4>1. rxValid /\ rxData = read[i]  BY <2>4, <3>6
      <4>2. rxData < file[pos + j]  BY <3>2, <3>3, <4>1 DEF KeysInv, OrderInv
      <4> QED  BY <3>2, <4>1, <4>2
    <3> QED  BY <3>4, <3>5, <3>6
  <2>9. /\ Keystrokes \in Seq(Nat) /\ Len(Keystrokes) = pos + Len(rest)
        /\ Increasing(Keystrokes)
        /\ \A x : Within(Keystrokes, x) <=> Within(read, x) \/ Within(rest, x)
    <3>1. Keystrokes = read \o rest  BY <2>3, <2>4, <2>6 DEF Keystrokes, read, rest
    <3> QED  BY <2>5, <2>6, <2>7, <2>8, <3>1, IncreasingConcat
  <2>10. ASSUME NEW i \in 2..Len(Keystrokes) PROVE Keystrokes[i - 1] < Keystrokes[i]
    <3>1. i - 1 \in DOMAIN Keystrokes /\ i \in DOMAIN Keystrokes /\ i - 1 < i
      <4>1. Len(Keystrokes) \in Nat /\ DOMAIN Keystrokes = 1..Len(Keystrokes)  BY <2>9
      <4> HIDE DEF Keystrokes
      <4> QED  BY <4>1
    <3> QED  BY <2>9, <3>1 DEF Increasing
  <2>11. Len(Keystrokes) >= typed - early
    <3>1. Len(rest) \in Nat /\ Len(rest) >= (typed - early) - pos  BY <2>2, <2>6
    <3> QED  BY <2>1, <2>9, <3>1
  <2>12. ASSUME NEW k \in ((2 * early) + 1)..typed PROVE Within(Keystrokes, k)
    <3>1. CASE k <= early + pos
      <4>1. k \in ((2 * early) + 1)..(early + pos)  BY <2>1, <3>1
      <4>2. Arrived(k)  BY <4>1 DEF KeysInv, CompleteInv
      <4>3. Within(got, k) \/ Within(Held, k)  BY <2>4, <4>2 DEF Arrived, Within
      <4> QED  BY <2>5, <2>9, <4>3
    <3>2. CASE ~ (k <= early + pos)
      <4>1. PICK j \in Nat : k = early + j  BY <2>1
      <4>2. j > pos /\ 1 <= j /\ j <= typed - early  BY <2>1, <3>2, <4>1
      <4>3. j \in DOMAIN file  BY <2>1, <2>2, <2>3, <4>1, <4>2
      <4>4. j - pos \in DOMAIN rest /\ pos + (j - pos) = j  BY <2>1, <2>6, <4>1, <4>2, <4>3
      <4>5. rest[j - pos] = k  BY <2>2, <2>6, <4>1, <4>3, <4>4
      <4>6. Within(rest, k)  BY <4>4, <4>5 DEF Within
      <4> QED  BY <2>9, <4>6
    <3> QED  BY <3>1, <3>2
  <2> QED  BY <2>10, <2>11, <2>12 DEF KeysArrive, Within
<1> QED  BY <1>1, KeysInvariant, PTL

----------------------------------------------------------------------------
(* The characters.                                                         *)

\* The string at p has an end, and a call or the kernel behind it.
EndAt(p, n) ==
  /\ n \in p..(Len(Rom) - 1) /\ Rom[n + 1] = Null
  /\ \A m \in p..(n - 1) : Rom[m + 1] # Null
String(p) ==
  p \in Nat /\ \E n \in p..(Len(Rom) - 2) : EndAt(p, n) /\ Rom[n + 2] \in {"jsr", "kernel"}

LEMMA EndIsUnique ==
  ASSUME NEW p \in Nat, NEW n, NEW m, EndAt(p, n), EndAt(p, m)
  PROVE  n = m
<1>1. Len(Rom) \in Nat  BY RomAssumption
<1>2. n \in Nat /\ m \in Nat /\ p <= n /\ p <= m  BY <1>1 DEF EndAt
<1>3. ~ (n < m) /\ ~ (m < n)  BY <1>1, <1>2 DEF EndAt
<1> QED  BY <1>2, <1>3

LEMMA TextEnds ==
  ASSUME NEW p \in Nat, NEW n, EndAt(p, n)
  PROVE  TextAt(p) = SubSeq(Rom, p + 1, n)
<1> DEFINE last == CHOOSE k \in p..(Len(Rom) - 1) :
                     Rom[k + 1] = Null /\ \A m \in p..(k - 1) : Rom[m + 1] # Null
<1>1. EndAt(p, last)  BY DEF EndAt
<1>2. last = n  BY <1>1, EndIsUnique
<1> QED  BY <1>2 DEF TextAt

\* A string is its first character and the string behind that.
LEMMA TextUnfolds ==
  ASSUME NEW p, String(p)
  PROVE  /\ TextAt(p) \in Seq(Bytes) /\ p < Len(Rom) - 1 /\ Rom[p + 1] \in Bytes
         /\ Rom[p + 1] = Null => TextAt(p) = <<>> /\ Rom[p + 2] \in {"jsr", "kernel"}
         /\ Rom[p + 1] # Null =>
              String(p + 1) /\ TextAt(p) = <<Rom[p + 1]>> \o TextAt(p + 1)
<1>1. p \in Nat /\ Rom \in Seq(Bytes) /\ Len(Rom) \in Nat
  BY RomAssumption DEF String
<1>2. PICK n \in p..(Len(Rom) - 2) : EndAt(p, n) /\ Rom[n + 2] \in {"jsr", "kernel"}
  BY DEF String
<1>3. TextAt(p) = SubSeq(Rom, p + 1, n)  BY <1>1, <1>2, TextEnds
<1>4. TextAt(p) \in Seq(Bytes)
  BY <1>1, <1>2, <1>3, SubSeqProperties
<1>5. p < Len(Rom) - 1 /\ Rom[p + 1] \in Bytes  BY <1>1, <1>2
<1>6. ASSUME Rom[p + 1] = Null
      PROVE  TextAt(p) = <<>> /\ Rom[p + 2] \in {"jsr", "kernel"}
  <2>1. EndAt(p, p)  BY <1>1, <1>2, <1>6 DEF EndAt
  <2>2. n = p  BY <1>1, <1>2, <2>1, EndIsUnique
  <2> QED  BY <1>1, <1>2, <1>3, <2>2, SubSeqEmpty
<1>7. ASSUME Rom[p + 1] # Null
      PROVE  String(p + 1) /\ TextAt(p) = <<Rom[p + 1]>> \o TextAt(p + 1)
  <2>1. n # p  BY <1>1, <1>2, <1>7 DEF EndAt
  <2>2. EndAt(p + 1, n) /\ n \in (p + 1)..(Len(Rom) - 2)
    BY <1>1, <1>2, <2>1 DEF EndAt
  <2>3. String(p + 1)  BY <1>1, <1>2, <2>2 DEF String
  <2>4. TextAt(p + 1) = SubSeq(Rom, p + 2, n)
    BY <1>1, <2>2, TextEnds
  <2>5. SubSeq(Rom, p + 1, n) = <<Rom[p + 1]>> \o SubSeq(Rom, p + 2, n)
    BY <1>1, <1>2, <2>2, SubSeqRecursiveFirst
  <2> QED  BY <1>3, <2>3, <2>4, <2>5
<1> QED  BY <1>4, <1>5, <1>6, <1>7

\* Behind a call comes its string.
LEMMA CallHasString ==
  ASSUME NEW a \in Nat, a < Len(Rom), Rom[a + 1] = "jsr"
  PROVE  String(a + 1)
<1>1. Len(Rom) \in Nat  BY RomAssumption
<1>2. PICK n \in (a + 1)..(Len(Rom) - 2) :
        /\ Rom[n + 1] = Null /\ \A m \in (a + 1)..(n - 1) : Rom[m + 1] # Null
        /\ Rom[n + 2] \in {"jsr", "kernel"}
  BY <1>1, RomAssumption, SMTT(60)
<1> QED  BY <1>1, <1>2 DEF String, EndAt

\* ZP_PTR and Y are two digits and an offset.
Digit == 0..(ByteSize - 1)

LEMMA Digits ==
  ASSUME NEW a \in Nat, a < ByteSize * ByteSize
  PROVE  /\ a % ByteSize \in Digit /\ a \div ByteSize \in Digit
         /\ (a \div ByteSize) * ByteSize + (a % ByteSize) = a
<1> DEFINE q == a \div ByteSize
           r == a % ByteSize
<1>1. ByteSize \in Nat \ {0, 1}  BY ConsoleAssumption
<1>2. q \in Nat /\ r \in Digit /\ a = ByteSize * q + r
  BY <1>1 DEF Digit
<1> HIDE DEF q, r
<1>3. ~ (q >= ByteSize)
  <2> SUFFICES ASSUME q >= ByteSize PROVE FALSE  OBVIOUS
  <2>1. ByteSize * q >= ByteSize * ByteSize  BY <1>1, <1>2
  <2> QED  BY <1>1, <1>2, <2>1 DEF Digit
<1> QED  BY <1>1, <1>2, <1>3 DEF q, r, Digit

\* The byte behind the string's end, as puts_inline computes it.
LEMMA ReturnIsBehind ==
  ASSUME lo \in Digit, hi \in Digit, y \in Digit
  PROVE  Pointer \in Nat /\ Return = Pointer + 1
<1>1. /\ ByteSize \in Nat \ {0, 1} /\ lo \in Nat /\ hi \in Nat /\ y \in Nat
      /\ lo <= ByteSize - 1 /\ y <= ByteSize - 1
  BY ConsoleAssumption DEF Digit
<1>2. hi * ByteSize \in Nat /\ (hi + 1) * ByteSize = (hi * ByteSize) + ByteSize
  BY <1>1
<1>3. CASE lo + y < ByteSize
  <2>1. (lo + y) \div ByteSize = 0 /\ (lo + y) % ByteSize = lo + y
    BY <1>1, <1>3
  <2> QED  BY <1>1, <1>2, <2>1 DEF Return, ReturnHigh, Pointer
<1>4. CASE ~ (lo + y < ByteSize)
  <2>1. (lo + y) \div ByteSize = 1 /\ (lo + y) % ByteSize = lo + y - ByteSize
    BY <1>1, <1>4
  <2> QED  BY <1>1, <1>2, <2>1 DEF Return, ReturnHigh, Pointer
<1> QED  BY <1>3, <1>4

\* One character on, across pages too, in a ROM within the address space.
LEMMA PointerMoves ==
  ASSUME lo \in Digit, hi \in Digit, y \in Digit, Pointer + 1 < ByteSize * ByteSize,
         lo' = lo, y' = (y + 1) % ByteSize, hi' = IF y' = 0 THEN hi + 1 ELSE hi
  PROVE  Pointer' = Pointer + 1 /\ y' \in Digit /\ hi' \in Digit
<1>1. /\ ByteSize \in Nat \ {0, 1} /\ lo \in Nat /\ hi \in Nat /\ y \in Nat
      /\ hi <= ByteSize - 1 /\ y <= ByteSize - 1
  BY ConsoleAssumption DEF Digit
<1>2. hi * ByteSize \in Nat /\ (hi + 1) * ByteSize = (hi * ByteSize) + ByteSize
  BY <1>1
<1>3. CASE y + 1 < ByteSize
  <2>1. y' = y + 1 /\ hi' = hi  BY <1>1, <1>3
  <2> QED  BY <1>1, <1>2, <1>3, <2>1 DEF Pointer, Digit
<1>4. CASE y + 1 = ByteSize
  <2>1. y' = 0 /\ hi' = hi + 1  BY <1>1, <1>4
  <2>2. Pointer' = Pointer + 1  BY <1>1, <1>2, <1>4, <2>1 DEF Pointer
  <2>3. ~ (hi + 1 >= ByteSize)
    <3> SUFFICES ASSUME hi + 1 >= ByteSize PROVE FALSE  OBVIOUS
    <3>1. (hi + 1) * ByteSize >= ByteSize * ByteSize  BY <1>1
    <3> QED  BY <1>1, <1>2, <1>4, <3>1 DEF Pointer
  <2> QED  BY <1>1, <2>1, <2>2, <2>3 DEF Digit
<1> QED  BY <1>1, <1>3, <1>4

\* What the software has taken on and not yet given to both devices.
Carrying == {"acia_wait", "acia_write", "gpu_wait", "gpu_write"}
Unprinted ==
  IF boot THEN TextAt(Pointer)
  ELSE IF at \in Carrying THEN <<ch>> \o text
  ELSE IF at = "fetch" THEN text
  ELSE <<>>

SoftTypes ==
  /\ lo \in Digit /\ hi \in Digit /\ y \in Digit
  /\ text \in Seq(Bytes) /\ ch \in Bytes
  /\ gpu \in Seq(Bytes) /\ asked \in Seq(Bytes)

\* puts_inline stands at a character of its string, or at the string's end.
PlaceInv ==
  /\ boot \in BOOLEAN
  /\ boot => String(Pointer) /\ at \in Carrying \union {"fetch", "done"}
  /\ ~ boot => at \in Carrying \union {"fetch", "idle", "rx_wait", "rx_check", "rx_read"}
  /\ boot /\ at \in Carrying => ch = Rom[Pointer + 1] /\ ch # Null
  /\ boot /\ at = "done" => Rom[Pointer + 1] = Null

PrintInv ==
  /\ asked = gpu \o Unprinted
  /\ acia = IF at \in {"gpu_wait", "gpu_write"} THEN Append(gpu, ch) ELSE gpu

SoftInv == SoftTypes /\ PlaceInv /\ PrintInv

\* A step that only moves on between waiting and writing, or between the calls.
LEMMA WaitKeepsText ==
  ASSUME SoftInv, UNCHANGED <<boot, lo, hi, y, text, ch, gpu, asked>>,
         \/ at = "acia_wait" /\ at' \in {"acia_wait", "acia_write"} /\ acia' = acia
         \/ at = "acia_write" /\ at' = "gpu_wait" /\ acia' = Append(acia, ch)
         \/ at = "gpu_wait" /\ at' = "gpu_write" /\ acia' = acia
         \/ /\ at \in {"idle", "rx_wait", "rx_check", "rx_read"}
            /\ at' \in {"idle", "rx_wait", "rx_check", "rx_read"} /\ acia' = acia
         \/ at' = at /\ acia' = acia
  PROVE  SoftInv'
<1>1. SoftTypes'  BY DEF SoftInv, SoftTypes
<1>2. Pointer' = Pointer  BY DEF Pointer
<1>3. (at' \in Carrying <=> at \in Carrying) /\ (at' = "fetch" <=> at = "fetch")
  BY DEF Carrying
<1>4. PlaceInv'
  BY <1>2, <1>3 DEF SoftInv, PlaceInv, Carrying
<1>5. Unprinted' = Unprinted
  BY <1>2, <1>3 DEF Unprinted
<1>6. PrintInv'
  BY <1>5 DEF SoftInv, PrintInv
<1> QED  BY <1>1, <1>4, <1>6 DEF SoftInv

\* puts_inline begins at the call that ends at a.
LEMMA CallBegins ==
  ASSUME NEW a \in Nat, a < Len(Rom), Rom[a + 1] = "jsr",
         boot' = TRUE, at' = "fetch",
         lo' = a % ByteSize, hi' = a \div ByteSize, y' = 1,
         gpu \in Seq(Bytes), gpu' = gpu, acia' = gpu, asked' = gpu \o TextAt(a + 1),
         text' \in Seq(Bytes), ch' \in Bytes
  PROVE  SoftInv'
<1>1. ByteSize \in Nat \ {0, 1} /\ Len(Rom) \in Nat /\ Len(Rom) <= ByteSize * ByteSize
  BY ConsoleAssumption, RomAssumption
<1>2. ByteSize * ByteSize \in Nat  BY <1>1
<1>3. lo' \in Digit /\ hi' \in Digit /\ (hi' * ByteSize) + lo' = a
  <2>1. a < ByteSize * ByteSize  BY <1>1, <1>2, SMTT(60)
  <2>2. /\ a % ByteSize \in Digit /\ a \div ByteSize \in Digit
        /\ ((a \div ByteSize) * ByteSize) + (a % ByteSize) = a
    BY <2>1, Digits
  <2> QED  BY <2>2
<1>4. y' \in Digit  BY <1>1 DEF Digit
<1>5. Pointer' = a + 1  BY <1>3 DEF Pointer
<1>6. String(a + 1)  BY CallHasString
<1>7. TextAt(a + 1) \in Seq(Bytes)  BY <1>6, TextUnfolds
<1>8. asked' \in Seq(Bytes)  BY <1>7, ConcatProperties
<1>9. SoftTypes'  BY <1>3, <1>4, <1>8 DEF SoftTypes
<1>10. PlaceInv'  BY <1>5, <1>6 DEF PlaceInv, Carrying
<1>11. Unprinted' = TextAt(a + 1)  BY <1>5 DEF Unprinted
<1>12. PrintInv'  BY <1>11 DEF PrintInv
<1> QED  BY <1>9, <1>10, <1>12 DEF SoftInv

\* The steps of puts_inline and of k_print's loop.
LEMMA FetchInlineKeepsText == SoftInv /\ FetchInline => SoftInv'
<1> SUFFICES ASSUME SoftInv, FetchInline PROVE SoftInv'  OBVIOUS
<1>1. /\ at = "fetch" /\ boot /\ ch' = Rom[Pointer + 1]
      /\ at' = IF ch' = Null THEN "done" ELSE "acia_wait"
      /\ UNCHANGED <<boot, lo, hi, y, text, acia, gpu, asked>>
  BY DEF FetchInline
<1>2. String(Pointer)  BY <1>1 DEF SoftInv, PlaceInv
<1>3. ch' \in Bytes  BY <1>1, <1>2, TextUnfolds
<1>4. SoftTypes'  BY <1>1, <1>3 DEF SoftInv, SoftTypes
<1>5. Pointer' = Pointer  BY <1>1 DEF Pointer
<1>6. PlaceInv'
  BY <1>1, <1>2, <1>5 DEF SoftInv, PlaceInv, Carrying
<1>7. Unprinted' = Unprinted  BY <1>1, <1>5 DEF Unprinted
<1>8. PrintInv'  BY <1>1, <1>7 DEF SoftInv, PrintInv
<1> QED  BY <1>4, <1>6, <1>8 DEF SoftInv

LEMMA ReturnInlineKeepsText == SoftInv /\ ReturnInline => SoftInv'
<1> SUFFICES ASSUME SoftInv, ReturnInline PROVE SoftInv'  OBVIOUS
<1>1. at = "done" /\ UNCHANGED <<text, ch, acia, gpu>>
  BY DEF ReturnInline
<1>2. boot = TRUE /\ Rom[Pointer + 1] = Null /\ String(Pointer)
  BY <1>1 DEF SoftInv, PlaceInv, Carrying
<1>3. Return = Pointer + 1 /\ Pointer \in Nat
  BY ReturnIsBehind DEF SoftInv, SoftTypes
<1>4. /\ Rom[Return + 1] \in {"jsr", "kernel"} /\ TextAt(Pointer) = <<>>
      /\ Return < Len(Rom) /\ Return \in Nat
  <2>1. Len(Rom) \in Nat  BY RomAssumption
  <2>2. Pointer + 2 = Return + 1  BY <1>3
  <2>3. /\ Pointer < Len(Rom) - 1 /\ TextAt(Pointer) = <<>>
        /\ Rom[Pointer + 2] \in {"jsr", "kernel"}
    BY <1>2, TextUnfolds
  <2> QED  BY <1>3, <2>1, <2>2, <2>3
<1>5. asked = gpu /\ acia = gpu /\ gpu \in Seq(Bytes)
  <2>1. Unprinted = <<>>  BY <1>2, <1>4 DEF Unprinted
  <2> QED  BY <1>1, <2>1, ConcatEmptySeq DEF SoftInv, SoftTypes, PrintInv
<1>6. CASE Rom[Return + 1] = "jsr"
  <2>1. /\ at' = "fetch" /\ boot' = TRUE
        /\ lo' = Return % ByteSize /\ hi' = Return \div ByteSize /\ y' = 1
        /\ asked' = asked \o TextAt(Return + 1)
    BY <1>6 DEF ReturnInline
  <2>2. text' \in Seq(Bytes) /\ ch' \in Bytes
    BY <1>1 DEF SoftInv, SoftTypes
  <2>3. gpu' = gpu /\ acia' = gpu /\ asked' = gpu \o TextAt(Return + 1)
    BY <1>1, <1>5, <2>1
  <2> QED  BY <1>4, <1>5, <1>6, <2>1, <2>2, <2>3, CallBegins
<1>7. CASE Rom[Return + 1] # "jsr"
  <2>1. at' = "idle" /\ boot' = FALSE /\ UNCHANGED <<lo, hi, y, asked>>
    BY <1>4, <1>7 DEF ReturnInline
  <2>2. SoftTypes'  BY <1>1, <2>1 DEF SoftInv, SoftTypes
  <2>3. PlaceInv'  BY <2>1 DEF PlaceInv
  <2>4. Unprinted' = <<>>  BY <2>1 DEF Unprinted, Carrying
  <2>5. PrintInv'  BY <1>1, <1>5, <2>1, <2>4, ConcatEmptySeq DEF PrintInv
  <2> QED  BY <2>2, <2>3, <2>5 DEF SoftInv
<1> QED  BY <1>6, <1>7

LEMMA FetchCharKeepsText == SoftInv /\ FetchChar => SoftInv'
<1> SUFFICES ASSUME SoftInv, FetchChar PROVE SoftInv'  OBVIOUS
<1>1. at = "fetch" /\ boot = FALSE /\ UNCHANGED <<boot, lo, hi, y, acia, gpu, asked>>
  BY DEF FetchChar, SoftInv, PlaceInv
<1>2. Unprinted = text /\ text \in Seq(Bytes)
  BY <1>1 DEF Unprinted, Carrying, SoftInv, SoftTypes
<1>3. CASE text = <<>>
  <2>1. at' = "idle" /\ UNCHANGED <<text, ch>>  BY <1>3 DEF FetchChar
  <2>2. SoftTypes'  BY <1>1, <2>1 DEF SoftInv, SoftTypes
  <2>3. PlaceInv'  BY <1>1, <2>1 DEF PlaceInv
  <2>4. Unprinted' = Unprinted  BY <1>1, <1>2, <1>3, <2>1 DEF Unprinted, Carrying
  <2>5. PrintInv'  BY <1>1, <2>1, <2>4 DEF SoftInv, PrintInv
  <2> QED  BY <2>2, <2>3, <2>5 DEF SoftInv
<1>4. CASE text # <<>>
  <2>1. at' = "acia_wait" /\ ch' = Head(text) /\ text' = Tail(text)
    BY <1>4 DEF FetchChar
  <2>2. Head(text) \in Bytes /\ Tail(text) \in Seq(Bytes) /\ text = <<Head(text)>> \o Tail(text)
    BY <1>2, <1>4, HeadTailProperties
  <2>3. SoftTypes'  BY <1>1, <2>1, <2>2 DEF SoftInv, SoftTypes
  <2>4. PlaceInv'  BY <1>1, <2>1 DEF PlaceInv, Carrying
  <2>5. Unprinted' = Unprinted
    BY <1>1, <1>2, <2>1, <2>2 DEF Unprinted, Carrying
  <2>6. PrintInv'  BY <1>1, <2>1, <2>5 DEF SoftInv, PrintInv
  <2> QED  BY <2>3, <2>4, <2>6 DEF SoftInv
<1> QED  BY <1>3, <1>4

\* Both devices have the character: it is printed.
LEMMA GpuWriteKeepsText == SoftInv /\ GpuWrite => SoftInv'
<1> SUFFICES ASSUME SoftInv, GpuWrite PROVE SoftInv'  OBVIOUS
<1>1. /\ at = "gpu_write" /\ gpu' = Append(gpu, ch) /\ at' = "fetch"
      /\ UNCHANGED <<boot, lo, text, ch, acia, asked>>
  BY DEF GpuWrite
<1>2. /\ gpu \in Seq(Bytes) /\ asked \in Seq(Bytes) /\ text \in Seq(Bytes) /\ ch \in Bytes
      /\ lo \in Digit /\ hi \in Digit /\ y \in Digit
      /\ asked = gpu \o Unprinted /\ acia = Append(gpu, ch)
  BY <1>1 DEF SoftInv, SoftTypes, PrintInv
<1>3. gpu' \in Seq(Bytes) /\ gpu' = gpu \o <<ch>>
  BY <1>1, <1>2, AppendProperties, AppendIsConcat
<1>4. ASSUME NEW rest \in Seq(Bytes), Unprinted = <<ch>> \o rest
      PROVE  asked = gpu' \o rest
  <2>1. <<ch>> \in Seq(Bytes)  BY <1>2
  <2>2. gpu \o (<<ch>> \o rest) = (gpu \o <<ch>>) \o rest
    BY <1>2, <2>1, ConcatAssociative, SMTT(60)
  <2> QED  BY <1>2, <1>3, <1>4, <2>2
<1>5. CASE boot = TRUE
  <2>1. /\ y' = (y + 1) % ByteSize /\ hi' = IF y' = 0 THEN hi + 1 ELSE hi
        /\ String(Pointer) /\ ch = Rom[Pointer + 1] /\ ch # Null
    BY <1>1, <1>5 DEF GpuWrite, SoftInv, PlaceInv, Carrying
  <2>2. Pointer + 1 < ByteSize * ByteSize
    <3>1. Len(Rom) \in Nat /\ Len(Rom) <= ByteSize * ByteSize /\ ByteSize * ByteSize \in Nat
      BY RomAssumption, ConsoleAssumption
    <3>2. Pointer \in Nat /\ Pointer < Len(Rom) - 1
      BY <1>2, <2>1, TextUnfolds, ReturnIsBehind
    <3> QED  BY <3>1, <3>2
  <2>3. Pointer' = Pointer + 1 /\ y' \in Digit /\ hi' \in Digit
    BY <1>1, <1>2, <2>1, <2>2, PointerMoves
  <2>4. String(Pointer + 1) /\ TextAt(Pointer) = <<ch>> \o TextAt(Pointer + 1)
    BY <2>1, TextUnfolds
  <2>5. TextAt(Pointer + 1) \in Seq(Bytes)  BY <2>4, TextUnfolds
  <2>6. Unprinted = <<ch>> \o TextAt(Pointer + 1)
    BY <1>5, <2>4 DEF Unprinted
  <2>7. Unprinted' = TextAt(Pointer + 1)
    BY <1>1, <1>5, <2>3 DEF Unprinted
  <2>8. asked = gpu' \o TextAt(Pointer + 1)  BY <1>4, <2>5, <2>6
  <2>9. SoftTypes'  BY <1>1, <1>2, <1>3, <2>3 DEF SoftTypes
  <2>10. PlaceInv'  BY <1>1, <1>5, <2>3, <2>4 DEF PlaceInv, Carrying
  <2>11. PrintInv'  BY <1>1, <1>2, <2>7, <2>8 DEF PrintInv
  <2> QED  BY <2>9, <2>10, <2>11 DEF SoftInv
<1>6. CASE boot = FALSE
  <2>1. y' = y /\ hi' = hi  BY <1>6 DEF GpuWrite
  <2>2. Unprinted = <<ch>> \o text  BY <1>1, <1>6 DEF Unprinted, Carrying
  <2>3. Unprinted' = text  BY <1>1, <1>6 DEF Unprinted, Carrying
  <2>4. asked = gpu' \o text  BY <1>2, <1>4, <2>2
  <2>5. SoftTypes'  BY <1>1, <1>2, <1>3, <2>1 DEF SoftTypes
  <2>6. PlaceInv'  BY <1>1, <1>6 DEF PlaceInv, Carrying
  <2>7. PrintInv'  BY <1>1, <1>2, <2>3, <2>4 DEF PrintInv
  <2> QED  BY <2>5, <2>6, <2>7 DEF SoftInv
<1>7. boot \in BOOLEAN  BY DEF SoftInv, PlaceInv
<1> QED  BY <1>5, <1>6, <1>7

LEMMA PrintKeepsText == SoftInv /\ k_print => SoftInv'
<1> SUFFICES ASSUME SoftInv, k_print PROVE SoftInv'  OBVIOUS
<1>1. /\ at = "idle" /\ at' = "fetch" /\ UNCHANGED <<boot, lo, hi, y, ch, acia, gpu>>
      /\ \E s \in Strings : text' = s /\ asked' = asked \o s
  BY DEF k_print
<1>2. PICK s \in Strings : text' = s /\ asked' = asked \o s
  BY <1>1
<1>3. s \in Seq(Bytes)  BY ConsoleAssumption
<1>4. boot = FALSE  BY <1>1 DEF SoftInv, PlaceInv, Carrying
<1>5. asked = gpu /\ acia = gpu /\ gpu \in Seq(Bytes)
  <2>1. Unprinted = <<>>  BY <1>1, <1>4 DEF Unprinted, Carrying
  <2> QED  BY <1>1, <2>1, ConcatEmptySeq DEF SoftInv, SoftTypes, PrintInv
<1>6. asked' \in Seq(Bytes)  BY <1>2, <1>3, <1>5, ConcatProperties
<1>7. SoftTypes'  BY <1>1, <1>2, <1>3, <1>6 DEF SoftInv, SoftTypes
<1>8. PlaceInv'  BY <1>1, <1>4 DEF PlaceInv, Carrying
<1>9. Unprinted' = s  BY <1>1, <1>2, <1>4 DEF Unprinted, Carrying
<1>10. PrintInv'  BY <1>1, <1>2, <1>5, <1>9 DEF PrintInv
<1> QED  BY <1>7, <1>8, <1>10 DEF SoftInv

LEMMA ResetKeepsText == SoftInv /\ Reset => SoftInv'
<1> SUFFICES ASSUME SoftInv, Reset PROVE SoftInv'  OBVIOUS
<1>1. /\ at' = "fetch" /\ boot' = TRUE
      /\ lo' = BootStart % ByteSize /\ hi' = BootStart \div ByteSize /\ y' = 1
      /\ text' = <<>> /\ ch' = Null
      /\ asked' = gpu \o TextAt(BootStart + 1) /\ acia' = gpu /\ gpu' = gpu
  BY DEF Reset
<1>2. text' \in Seq(Bytes) /\ ch' \in Bytes /\ gpu \in Seq(Bytes)
  BY <1>1 DEF Bytes, SoftInv, SoftTypes
<1>3. BootStart \in Nat /\ BootStart < Len(Rom) /\ Rom[BootStart + 1] = "jsr"
  BY RomAssumption
<1> QED  BY <1>1, <1>2, <1>3, CallBegins

LEMMA TextKept == SoftInv /\ [Next]_vars => SoftInv'
<1> SUFFICES ASSUME SoftInv, [Next]_vars PROVE SoftInv'  OBVIOUS
<1>1. CASE Cpu(Loop)
  <2>1. Loop  BY <1>1 DEF Cpu
  <2>2. CASE AciaWait \/ GpuWait \/ RxWait
    <3>1. /\ UNCHANGED <<boot, lo, hi, y, text, ch, gpu, asked>> /\ acia' = acia
          /\ \/ at = "acia_wait" /\ at' \in {"acia_wait", "acia_write"}
             \/ at = "gpu_wait" /\ at' = "gpu_write"
             \/ /\ at \in {"idle", "rx_wait", "rx_check", "rx_read"}
                /\ at' \in {"idle", "rx_wait", "rx_check", "rx_read"}
      BY <2>2 DEF AciaWait, GpuWait, RxWait
    <3> QED  BY <3>1, WaitKeepsText
  <2> QED
    BY <2>1, <2>2, FetchInlineKeepsText, ReturnInlineKeepsText, FetchCharKeepsText,
       GpuWriteKeepsText DEF Loop
<1>2. CASE AciaWrite
  BY <1>2, WaitKeepsText DEF AciaWrite
<1>3. CASE RxRead
  BY <1>3, WaitKeepsText DEF RxRead
<1>4. CASE Cpu(Call)
  <2>1. Call  BY <1>4 DEF Cpu
  <2>2. CASE do_getc \/ do_getc_nb
    BY <2>2, WaitKeepsText DEF do_getc, do_getc_nb
  <2> QED  BY <2>1, <2>2, PrintKeepsText DEF Call
<1>5. CASE UNCHANGED softVars
  BY <1>5, WaitKeepsText DEF softVars
<1>6. CASE Idle \/ Monitor \/ SendKey \/ UNCHANGED vars
  <2>1. Idle \/ SendKey \/ UNCHANGED vars => UNCHANGED softVars
    BY DEF Idle, SendKey, vars
  <2>2. Monitor => UNCHANGED softVars
    BY DEF Monitor, OpenFifo, OpenKeyboard, Draw
  <2> QED  BY <1>5, <1>6, <2>1, <2>2
<1> QED
  BY <1>1, <1>2, <1>3, <1>4, <1>6, ResetKeepsText DEF Next, Software

LEMMA TextInvariant == Spec => []SoftInv
<1>1. Init => SoftInv
  <2> SUFFICES ASSUME Init PROVE SoftInv  OBVIOUS
  <2>1. /\ at = "fetch" /\ boot = TRUE
        /\ lo = BootStart % ByteSize /\ hi = BootStart \div ByteSize /\ y = 1
        /\ text = <<>> /\ ch = Null
        /\ acia = <<>> /\ gpu = <<>> /\ asked = TextAt(BootStart + 1)
    BY DEF Init
  <2>2. /\ ByteSize \in Nat \ {0, 1} /\ ByteSize * ByteSize \in Nat /\ Len(Rom) \in Nat
        /\ BootStart \in Nat /\ BootStart < Len(Rom) /\ Rom[BootStart + 1] = "jsr"
        /\ BootStart < ByteSize * ByteSize
    BY ConsoleAssumption, RomAssumption
  <2>3. lo \in Digit /\ hi \in Digit /\ (hi * ByteSize) + lo = BootStart
    <3>1. /\ BootStart % ByteSize \in Digit /\ BootStart \div ByteSize \in Digit
          /\ ((BootStart \div ByteSize) * ByteSize) + (BootStart % ByteSize) = BootStart
      BY <2>2, Digits
    <3> QED  BY <2>1, <3>1
  <2>4. Pointer = BootStart + 1  BY <2>1, <2>3 DEF Pointer
  <2>5. String(BootStart + 1) /\ TextAt(BootStart + 1) \in Seq(Bytes)
    BY <2>2, CallHasString, TextUnfolds
  <2>6. y \in Digit /\ ch \in Bytes  BY <2>1, <2>2 DEF Digit, Bytes
  <2>7. SoftTypes  BY <2>1, <2>3, <2>5, <2>6 DEF SoftTypes
  <2>8. PlaceInv  BY <2>1, <2>4, <2>5 DEF PlaceInv, Carrying
  <2>9. Unprinted = asked  BY <2>1, <2>4 DEF Unprinted
  <2>10. PrintInv  BY <2>1, <2>5, <2>9, ConcatEmptySeq DEF PrintInv
  <2> QED  BY <2>7, <2>8, <2>10 DEF SoftInv
<1> QED  BY <1>1, TextKept, PTL DEF Spec

(***************************************************************************)
(* What is printed reaches the ACIA and the GPU in order and once, the GPU *)
(* at most the character at hand later, and puts_inline comes back behind  *)
(* its string (boot.s, kernel.c): wherever the strings lie with respect to *)
(* the pages, and however long they are.                                   *)
(***************************************************************************)
THEOREM OutputsAgreeHolds == Spec => []OutputsAgree
<1>1. SoftInv => OutputsAgree
  <2> SUFFICES ASSUME SoftInv PROVE OutputsAgree  OBVIOUS
  <2>1. /\ gpu \in Seq(Bytes) /\ asked \in Seq(Bytes) /\ text \in Seq(Bytes) /\ ch \in Bytes
        /\ Len(gpu) \in Nat
        /\ asked = gpu \o Unprinted
        /\ acia = IF at \in {"gpu_wait", "gpu_write"} THEN Append(gpu, ch) ELSE gpu
    BY DEF SoftInv, SoftTypes, PrintInv
  <2>2. at # "lost"  BY DEF SoftInv, PlaceInv, Carrying
  <2>3. boot \in BOOLEAN /\ (boot => String(Pointer))
    BY DEF SoftInv, PlaceInv
  <2>4. Unprinted \in Seq(Bytes)
    <3>1. CASE boot  BY <2>3, <3>1, TextUnfolds DEF Unprinted
    <3>2. CASE ~ boot
      <4>1. <<ch>> \o text \in Seq(Bytes)  BY <2>1, ConcatProperties
      <4> QED  BY <2>1, <3>2, <4>1 DEF Unprinted
    <3> QED  BY <3>1, <3>2
  <2>5. ASSUME NEW a \in Seq(Bytes), NEW b \in Seq(Bytes)
        PROVE  IsPrefix(a, a \o b)
    <3>1. /\ a \o b \in Seq(Bytes) /\ Len(a \o b) = Len(a) + Len(b)
          /\ \A i \in 1..Len(a) : (a \o b)[i] = a[i]
          /\ Len(a) \in Nat /\ Len(b) \in Nat
      BY ConcatProperties
    <3>2. /\ SubSeq(a \o b, 1, Len(a)) \in Seq(Bytes)
          /\ Len(SubSeq(a \o b, 1, Len(a))) = Len(a)
          /\ \A i \in 1..Len(a) : SubSeq(a \o b, 1, Len(a))[i] = a[i]
      BY <3>1, SubSeqProperties
    <3>3. SubSeq(a \o b, 1, Len(a)) = a  BY <3>2, SeqEqual
    <3>4. SubSeq(a, 1, Len(a)) = a  BY SubSeqFull
    <3> QED  BY <3>1, <3>3, <3>4 DEF IsPrefix
  <2>6. CASE at \in {"gpu_wait", "gpu_write"}
    <3>1. acia = Append(gpu, ch) /\ acia \in Seq(Bytes) /\ acia = gpu \o <<ch>>
      BY <2>1, <2>6, AppendProperties, AppendIsConcat
    <3>2. PICK rest \in Seq(Bytes) : Unprinted = <<ch>> \o rest
      <4>1. CASE boot
        <5>1. String(Pointer) /\ ch = Rom[Pointer + 1] /\ ch # Null
          BY <2>6, <4>1 DEF SoftInv, PlaceInv, Carrying
        <5>2. TextAt(Pointer) = <<ch>> \o TextAt(Pointer + 1) /\ TextAt(Pointer + 1) \in Seq(Bytes)
          BY <5>1, TextUnfolds
        <5> QED  BY <4>1, <5>2 DEF Unprinted
      <4>2. CASE ~ boot
        BY <2>1, <2>6, <4>2 DEF Unprinted, Carrying
      <4> QED  BY <4>1, <4>2
    <3>3. gpu \o (<<ch>> \o rest) = (gpu \o <<ch>>) \o rest
      <4>1. gpu \in Seq(Bytes) /\ <<ch>> \in Seq(Bytes)  BY <2>1
      <4> QED  BY <4>1, ConcatAssociative
    <3>4. asked = acia \o rest  BY <2>1, <3>1, <3>2, <3>3
    <3>5. IsPrefix(acia, asked)  BY <2>5, <3>1, <3>4
    <3>6. Front(acia) = gpu
      <4>1. Len(acia) = Len(gpu) + 1 /\ \A i \in 1..Len(gpu) : acia[i] = gpu[i]
        BY <2>1, <3>1, AppendProperties
      <4>2. /\ Front(acia) = SubSeq(acia, 1, Len(gpu))
            /\ SubSeq(acia, 1, Len(gpu)) \in Seq(Bytes)
            /\ Len(SubSeq(acia, 1, Len(gpu))) = Len(gpu)
            /\ \A i \in 1..Len(gpu) : SubSeq(acia, 1, Len(gpu))[i] = acia[i]
        BY <2>1, <3>1, <4>1, SubSeqProperties DEF Front
      <4> QED  BY <2>1, <4>1, <4>2, SeqEqual
    <3> QED  BY <2>2, <2>6, <3>5, <3>6 DEF OutputsAgree
  <2>7. CASE at \notin {"gpu_wait", "gpu_write"}
    <3>1. acia = gpu  BY <2>1, <2>7
    <3>2. IsPrefix(acia, asked)  BY <2>1, <2>4, <2>5, <3>1
    <3>3. ASSUME at \in {"idle", "rx_wait", "rx_check", "rx_read"} PROVE acia = asked
      <4>1. boot = FALSE  BY <2>3, <3>3 DEF SoftInv, PlaceInv, Carrying
      <4>2. Unprinted = <<>>  BY <3>3, <4>1 DEF Unprinted, Carrying
      <4> QED  BY <2>1, <3>1, <4>2, ConcatEmptySeq
    <3> QED  BY <2>2, <2>7, <3>1, <3>2, <3>3 DEF OutputsAgree
  <2> QED  BY <2>6, <2>7
<1> QED  BY <1>1, TextInvariant, PTL

----------------------------------------------------------------------------
(* The screen.                                                             *)

Rowful  == [0..(Cols - 1) -> Printable \union {Blank}]
Screens == [cell : [0..(Rows - 1) -> Rowful], row : 0..(Rows - 1), col : 0..(Cols - 1)]
Papers  == {p \in [lines : Seq(Rowful), col : 0..(Cols - 1)] : Len(p.lines) > 0}

LEMMA ScreenFields ==
  ASSUME NEW s \in Screens
  PROVE  /\ s = [cell |-> s.cell, row |-> s.row, col |-> s.col]
         /\ s.cell \in [0..(Rows - 1) -> Rowful]
         /\ s.row \in 0..(Rows - 1) /\ s.col \in 0..(Cols - 1)
  BY DEF Screens

LEMMA PaperFields ==
  ASSUME NEW p \in Papers
  PROVE  /\ p = [lines |-> p.lines, col |-> p.col]
         /\ p.lines \in Seq(Rowful) /\ p.col \in 0..(Cols - 1)
         /\ Len(p.lines) \in Nat \ {0}
  BY DEF Papers

LEMMA BlankRowTyped == BlankRow \in Rowful /\ ClearScreen \in Screens /\ FreshPaper \in Papers
<1>1. Rows \in Nat \ {0} /\ Cols \in Nat \ {0}  BY ScreenAssumption
<1>2. BlankRow \in Rowful  BY DEF BlankRow, Rowful
<1>3. 0 \in 0..(Rows - 1) /\ 0 \in 0..(Cols - 1)  BY <1>1
<1>4. [y_ \in 0..(Rows - 1) |-> BlankRow] \in [0..(Rows - 1) -> Rowful]  BY <1>2
<1>5. ClearScreen \in Screens  BY <1>3, <1>4 DEF ClearScreen, Screens
<1>6. <<BlankRow>> \in Seq(Rowful) /\ Len(<<BlankRow>>) = 1  BY <1>2
<1>7. FreshPaper \in Papers  BY <1>3, <1>6 DEF FreshPaper, Papers
<1> QED  BY <1>2, <1>5, <1>7

\* The screen shows the last lines of the paper.
Top(n) == IF n > Rows THEN n - Rows ELSE 0
ShownRows(cell, lines) ==
  \A r \in 0..(Rows - 1) :
    cell[r] = IF Top(Len(lines)) + r + 1 <= Len(lines) THEN lines[Top(Len(lines)) + r + 1]
              ELSE BlankRow

LEMMA ShowsParts ==
  ASSUME NEW s, NEW p
  PROVE  Shows(s, p) <=> /\ s.row = Len(p.lines) - Top(Len(p.lines)) - 1 /\ s.col = p.col
                         /\ ShownRows(s.cell, p.lines)
  BY DEF Shows, ShownRows, Top

\* A character in the row of the cursor is one in the paper's last line.
LEMMA WriteShows ==
  ASSUME NEW s \in Screens, NEW p \in Papers, Shows(s, p),
         NEW x \in 0..(Cols - 1), NEW v \in Printable \union {Blank}, NEW k \in 0..(Cols - 1)
  PROVE  LET s2 == [cell |-> [s.cell EXCEPT ![s.row][x] = v], row |-> s.row, col |-> k]
             p2 == [lines |-> [p.lines EXCEPT ![Len(p.lines)][x] = v], col |-> k]
         IN  s2 \in Screens /\ p2 \in Papers /\ Shows(s2, p2)
<1> DEFINE n == Len(p.lines)
           cell2 == [s.cell EXCEPT ![s.row][x] = v]
           lines2 == [p.lines EXCEPT ![n][x] = v]
           s2 == [cell |-> cell2, row |-> s.row, col |-> k]
           p2 == [lines |-> lines2, col |-> k]
<1>1. /\ Rows \in Nat \ {0} /\ n \in Nat \ {0}
      /\ s.cell \in [0..(Rows - 1) -> Rowful] /\ s.row \in 0..(Rows - 1)
      /\ p.lines \in Seq(Rowful) /\ DOMAIN p.lines = 1..n
      /\ s.row = n - Top(n) - 1 /\ ShownRows(s.cell, p.lines)
  BY ScreenAssumption, ScreenFields, PaperFields, ShowsParts
<1>2. /\ s.cell[s.row] \in Rowful /\ p.lines[n] \in Rowful
      /\ s.cell[s.row] = p.lines[n]
  <2>1. Top(n) + s.row + 1 = n  BY <1>1 DEF Top
  <2>2. s.cell[s.row] = p.lines[n]  BY <1>1, <2>1 DEF ShownRows
  <2>3. s.cell[s.row] \in Rowful  BY <1>1
  <2> QED  BY <2>2, <2>3
<1> DEFINE row2 == [p.lines[n] EXCEPT ![x] = v]
<1>3. row2 \in Rowful  BY <1>2 DEF Rowful
<1>4. cell2 = [s.cell EXCEPT ![s.row] = row2]  BY <1>2
<1>5. lines2 = [p.lines EXCEPT ![n] = row2]  OBVIOUS
<1>6. cell2 \in [0..(Rows - 1) -> Rowful]  BY <1>1, <1>3, <1>4
<1> HIDE DEF row2
<1>7. lines2 \in Seq(Rowful) /\ Len(lines2) = n
  BY <1>1, <1>3, <1>5, ExceptSeq
<1>8. /\ \A r \in 0..(Rows - 1) : cell2[r] = IF r = s.row THEN row2 ELSE s.cell[r]
      /\ \A j \in 1..n : lines2[j] = IF j = n THEN row2 ELSE p.lines[j]
  BY <1>1, <1>4, <1>5
<1> HIDE DEF cell2, lines2
<1>9. ShownRows(cell2, lines2)
  <2> SUFFICES ASSUME NEW r \in 0..(Rows - 1)
               PROVE  cell2[r] = IF Top(n) + r + 1 <= n THEN lines2[Top(n) + r + 1] ELSE BlankRow
    BY <1>7 DEF ShownRows
  <2>1. Top(n) \in Nat /\ r \in Nat  BY <1>1 DEF Top
  <2>2. s.cell[r] = IF Top(n) + r + 1 <= n THEN p.lines[Top(n) + r + 1] ELSE BlankRow
    BY <1>1 DEF ShownRows
  <2>3. CASE r = s.row
    <3>1. Top(n) + r + 1 = n  BY <1>1, <2>1, <2>3
    <3> QED  BY <1>1, <1>8, <2>3, <3>1
  <2>4. CASE r # s.row /\ Top(n) + r + 1 <= n
    <3>1. Top(n) + r + 1 \in 1..n /\ Top(n) + r + 1 # n  BY <1>1, <2>1, <2>4
    <3> QED  BY <1>8, <2>2, <2>4, <3>1
  <2>5. CASE r # s.row /\ ~ (Top(n) + r + 1 <= n)
    BY <1>8, <2>2, <2>5
  <2> QED  BY <2>3, <2>4, <2>5
<1>10. s2 \in Screens /\ p2 \in Papers
  BY <1>1, <1>6, <1>7 DEF Screens, Papers
<1>11. Shows(s2, p2)
  BY <1>1, <1>7, <1>9, ShowsParts
<1> QED  BY <1>10, <1>11 DEF cell2, lines2

LEMMA NewLineFields ==
  ASSUME NEW s \in Screens
  PROVE  NewLine(s) = [cell |-> s.cell, row |-> s.row + 1, col |-> 0]
<1> DEFINE a == s.cell
           b == s.row
           c == s.col
           d == b + 1
           e == 0
<1>1. s = [cell |-> a, row |-> b, col |-> c]  BY ScreenFields
<1>2. NewLine(s) = [s EXCEPT !.row = d, !.col = e]  BY Zenon DEF NewLine
<1> HIDE DEF a, b, c, d, e
<1>3. [[cell |-> a, row |-> b, col |-> c] EXCEPT !.row = d, !.col = e]
        = [cell |-> a, row |-> d, col |-> e]
  <2>1. [[cell |-> a, row |-> b, col |-> c] EXCEPT !.row = d] = [cell |-> a, row |-> d, col |-> c]
    OBVIOUS
  <2>2. [[cell |-> a, row |-> d, col |-> c] EXCEPT !.col = e] = [cell |-> a, row |-> d, col |-> e]
    OBVIOUS
  <2>3. [[cell |-> a, row |-> b, col |-> c] EXCEPT !.row = d, !.col = e]
          = [[[cell |-> a, row |-> b, col |-> c] EXCEPT !.row = d] EXCEPT !.col = e]
    OBVIOUS
  <2> QED  BY <2>1, <2>2, <2>3
<1>4. NewLine(s) = [cell |-> a, row |-> d, col |-> e]  BY <1>1, <1>2, <1>3, Zenon
<1> QED  BY <1>4, Zenon DEF a, b, d, e

LEMMA ScrollFields ==
  ASSUME NEW a, NEW b \in Nat, NEW c
  PROVE  /\ b < Rows => ScrollIfNeeded([cell |-> a, row |-> b, col |-> c])
                          = [cell |-> a, row |-> b, col |-> c]
         /\ ~ (b < Rows) => ScrollIfNeeded([cell |-> a, row |-> b, col |-> c])
                              = [cell |-> [r \in 0..(Rows - 1) |->
                                             IF r < Rows - 1 THEN a[r + 1] ELSE BlankRow],
                                 row |-> Rows - 1, col |-> c]
  BY DEF ScrollIfNeeded

LEMMA TopMoves ==
  ASSUME NEW n \in Nat \ {0}
  PROVE  /\ n < Rows => Top(n) = 0 /\ Top(n + 1) = 0
         /\ ~ (n < Rows) => Top(n) = n - Rows /\ Top(n + 1) = n + 1 - Rows
  BY ScreenAssumption DEF Top

\* A new line is one more line of paper, and the screen follows the paper up.
LEMMA LineFeedShows ==
  ASSUME NEW s \in Screens, NEW p \in Papers, Shows(s, p)
  PROVE  /\ ScrollIfNeeded(NewLine(s)) \in Screens /\ Feed(p) \in Papers
         /\ Shows(ScrollIfNeeded(NewLine(s)), Feed(p))
<1> DEFINE n == Len(p.lines)
           lines2 == Append(p.lines, BlankRow)
<1>1. /\ Rows \in Nat \ {0} /\ Cols \in Nat \ {0} /\ n \in Nat \ {0}
      /\ s.cell \in [0..(Rows - 1) -> Rowful] /\ s.row \in 0..(Rows - 1)
      /\ p.lines \in Seq(Rowful)
      /\ s.row = n - Top(n) - 1 /\ ShownRows(s.cell, p.lines)
  BY ScreenAssumption, ScreenFields, PaperFields, ShowsParts
<1>2. /\ lines2 \in Seq(Rowful) /\ Len(lines2) = n + 1
      /\ \A j \in 1..n : lines2[j] = p.lines[j]
      /\ lines2[n + 1] = BlankRow
  BY <1>1, BlankRowTyped, AppendProperties
<1>3. Feed(p) = [lines |-> lines2, col |-> 0]  BY DEF Feed
<1> HIDE DEF lines2
<1>4. 0 \in 0..(Cols - 1)  BY <1>1
<1>5. Feed(p) \in Papers  BY <1>2, <1>3, <1>4 DEF Papers
<1>6. NewLine(s) = [cell |-> s.cell, row |-> s.row + 1, col |-> 0]
  BY NewLineFields
<1>t. /\ n < Rows => Top(n) = 0 /\ Top(n + 1) = 0
      /\ ~ (n < Rows) => Top(n) = n - Rows /\ Top(n + 1) = n + 1 - Rows
  BY <1>1, TopMoves
<1>7. CASE n < Rows
  <2>1. Top(n) = 0 /\ Top(n + 1) = 0 /\ s.row = n - 1  BY <1>1, <1>t, <1>7
  <2>2. ScrollIfNeeded(NewLine(s)) = [cell |-> s.cell, row |-> n, col |-> 0]
    <3>1. s.row + 1 = n /\ n \in Nat  BY <1>1, <2>1
    <3>2. NewLine(s) = [cell |-> s.cell, row |-> n, col |-> 0]  BY <1>6, <3>1
    <3>3. ScrollIfNeeded([cell |-> s.cell, row |-> n, col |-> 0])
            = [cell |-> s.cell, row |-> n, col |-> 0]
      BY <1>7, <3>1, ScrollFields, Zenon
    <3> QED  BY <3>2, <3>3, Zenon
  <2>3. ShownRows(s.cell, lines2)
    <3> SUFFICES ASSUME NEW r \in 0..(Rows - 1)
                 PROVE  s.cell[r] = IF r + 1 <= n + 1 THEN lines2[r + 1] ELSE BlankRow
      BY <1>2, <2>1 DEF ShownRows
    <3>1. s.cell[r] = IF r + 1 <= n THEN p.lines[r + 1] ELSE BlankRow
      BY <1>1, <2>1 DEF ShownRows
    <3>2. CASE r + 1 <= n
      <4>1. r + 1 \in 1..n  BY <1>1, <3>2
      <4> QED  BY <1>1, <1>2, <3>1, <3>2, <4>1
    <3>3. CASE r + 1 = n + 1  BY <1>1, <1>2, <3>1, <3>3
    <3>4. CASE ~ (r + 1 <= n + 1)  BY <1>1, <3>1, <3>4
    <3> QED  BY <1>1, <3>2, <3>3, <3>4
  <2>4. n \in 0..(Rows - 1)  BY <1>1, <1>7
  <2>5. ScrollIfNeeded(NewLine(s)) \in Screens
    BY <1>1, <1>4, <2>2, <2>4 DEF Screens
  <2>6. Shows(ScrollIfNeeded(NewLine(s)), Feed(p))
    <3> DEFINE s2 == ScrollIfNeeded(NewLine(s))
               p2 == Feed(p)
    <3>1. s2.row = n /\ s2.col = 0 /\ s2.cell = s.cell  BY <2>2
    <3>2. p2.lines = lines2 /\ p2.col = 0  BY <1>3
    <3>3. n = Len(lines2) - Top(Len(lines2)) - 1  BY <1>1, <1>2, <2>1
    <3> HIDE DEF s2, p2
    <3>4. Shows(s2, p2)  BY <2>3, <3>1, <3>2, <3>3, ShowsParts, Zenon
    <3> QED  BY <3>4 DEF s2, p2
  <2> QED  BY <1>5, <2>5, <2>6
<1>8. CASE ~ (n < Rows)
  <2> DEFINE cell2 == [r \in 0..(Rows - 1) |->
                         IF r < Rows - 1 THEN s.cell[r + 1] ELSE BlankRow]
  <2>1. Top(n) = n - Rows /\ Top(n + 1) = n + 1 - Rows /\ s.row = Rows - 1
    BY <1>1, <1>t, <1>8
  <2>2. ScrollIfNeeded(NewLine(s)) = [cell |-> cell2, row |-> Rows - 1, col |-> 0]
    <3>1. s.row + 1 = Rows /\ s.row + 1 \in Nat /\ ~ (s.row + 1 < Rows)  BY <1>1, <2>1
    <3> HIDE DEF cell2
    <3> QED  BY <1>6, <3>1, ScrollFields, SMTT(60) DEF cell2
  <2>3. cell2 \in [0..(Rows - 1) -> Rowful]
    <3>1. ASSUME NEW r \in 0..(Rows - 1) PROVE cell2[r] \in Rowful
      <4>1. CASE r < Rows - 1
        <5>1. r + 1 \in 0..(Rows - 1)  BY <1>1, <4>1
        <5> QED  BY <1>1, <4>1, <5>1
      <4>2. CASE ~ (r < Rows - 1)  BY <4>2, BlankRowTyped
      <4> QED  BY <4>1, <4>2
    <3> QED  BY <3>1
  <2>4. ShownRows(cell2, lines2)
    <3> SUFFICES ASSUME NEW r \in 0..(Rows - 1)
                 PROVE  cell2[r] = IF n + 1 - Rows + r + 1 <= n + 1
                                   THEN lines2[n + 1 - Rows + r + 1] ELSE BlankRow
      <4> HIDE DEF cell2
      <4> QED  BY <1>2, <2>1 DEF ShownRows
    <3>1. CASE r < Rows - 1
      <4>1. r + 1 \in 0..(Rows - 1) /\ n - Rows + (r + 1) + 1 <= n
            /\ n + 1 - Rows + r + 1 \in 1..n
        BY <1>1, <1>8, <3>1
      <4>2. s.cell[r + 1] = p.lines[n - Rows + (r + 1) + 1]
        BY <1>1, <2>1, <4>1, SMTT(60) DEF ShownRows
      <4>3. n - Rows + (r + 1) + 1 = n + 1 - Rows + r + 1  BY <1>1, <4>1
      <4>4. lines2[n + 1 - Rows + r + 1] = p.lines[n + 1 - Rows + r + 1]  BY <1>2, <4>1
      <4> QED  BY <1>1, <3>1, <4>1, <4>2, <4>3, <4>4
    <3>2. CASE ~ (r < Rows - 1)
      <4>1. n + 1 - Rows + r + 1 = n + 1  BY <1>1, <3>2
      <4> QED  BY <1>1, <1>2, <3>2, <4>1
    <3> QED  BY <3>1, <3>2
  <2> HIDE DEF cell2
  <2>5. Rows - 1 \in 0..(Rows - 1)  BY <1>1
  <2>6. ScrollIfNeeded(NewLine(s)) \in Screens
    BY <1>1, <1>4, <2>2, <2>3, <2>5 DEF Screens
  <2>7. Shows(ScrollIfNeeded(NewLine(s)), Feed(p))
    <3> DEFINE s2 == ScrollIfNeeded(NewLine(s))
               p2 == Feed(p)
    <3>1. s2.row = Rows - 1 /\ s2.col = 0 /\ s2.cell = cell2  BY <2>2
    <3>2. p2.lines = lines2 /\ p2.col = 0  BY <1>3
    <3>3. Rows - 1 = Len(lines2) - Top(Len(lines2)) - 1  BY <1>1, <1>2, <2>1
    <3> HIDE DEF s2, p2
    <3>4. Shows(s2, p2)  BY <2>4, <3>1, <3>2, <3>3, ShowsParts, Zenon
    <3> QED  BY <3>4 DEF s2, p2
  <2> QED  BY <1>5, <2>6, <2>7
<1> QED  BY <1>7, <1>8

\* What a character does, one character at a time.
LEMMA WrittenCases ==
  ASSUME NEW s, NEW c
  PROVE  /\ c = NL => Written(s, c) = NewLine(s)
         /\ c = CR => Written(s, c) = [s EXCEPT !.col = 0]
         /\ c = BS /\ s.col > 0 =>
              Written(s, c) = [s EXCEPT !.col = @ - 1, !.cell[s.row][s.col - 1] = Blank]
         /\ c = FF => Written(s, c) = ClearScreen
         /\ c \in Printable =>
              Written(s, c) = LET t == [s EXCEPT !.cell[s.row][s.col] = c]
                              IN  IF s.col + 1 >= Cols THEN NewLine(t) ELSE [t EXCEPT !.col = @ + 1]
         /\ c \notin {NL, CR, FF} \union Printable /\ ~ (c = BS /\ s.col > 0) => Written(s, c) = s
  BY CharacterAssumption DEF Written

LEMMA PrintCases ==
  ASSUME NEW p \in Papers, NEW c
  PROVE  /\ c = NL => Print1(p, c) = Feed(p)
         /\ c = CR => Print1(p, c) = [p EXCEPT !.col = 0]
         /\ c = BS /\ p.col > 0 =>
              Print1(p, c) = [p EXCEPT !.col = @ - 1, !.lines[Len(p.lines)][p.col - 1] = Blank]
         /\ c = FF => Print1(p, c) = FreshPaper
         /\ c \in Printable /\ p.col = Cols - 1 =>
              Print1(p, c) = Feed([p EXCEPT !.lines[Len(p.lines)][p.col] = c])
         /\ c \in Printable /\ p.col < Cols - 1 =>
              Print1(p, c) = [p EXCEPT !.lines[Len(p.lines)][p.col] = c, !.col = @ + 1]
         /\ c \notin {NL, CR, FF} \union Printable /\ ~ (c = BS /\ p.col > 0) => Print1(p, c) = p
<1> DEFINE back == [p EXCEPT !.col = @ - 1, !.lines[Len(p.lines)][p.col - 1] = Blank]
           full == Feed([p EXCEPT !.lines[Len(p.lines)][p.col] = c])
           next == [p EXCEPT !.lines[Len(p.lines)][p.col] = c, !.col = @ + 1]
           home == [p EXCEPT !.col = 0]
           last == p.col = Cols - 1
           inner == p.col < Cols - 1
           some == p.col > 0
<1>1. ~ (last /\ inner)  BY ScreenAssumption, PaperFields
<1>2. Print1(p, c) = CASE c = NL -> Feed(p)
                       [] c = CR -> home
                       [] c = BS /\ some -> back
                       [] c = FF -> FreshPaper
                       [] c \in Printable /\ last -> full
                       [] c \in Printable /\ inner -> next
                       [] OTHER -> p
  BY Zenon DEF Print1
<1> HIDE DEF back, full, next, home, last, inner, some
<1>3. /\ c = NL => Print1(p, c) = Feed(p)
      /\ c = CR => Print1(p, c) = home
      /\ c = BS /\ some => Print1(p, c) = back
      /\ c = FF => Print1(p, c) = FreshPaper
      /\ c \in Printable /\ last => Print1(p, c) = full
      /\ c \in Printable /\ inner => Print1(p, c) = next
      /\ c \notin {NL, CR, FF} \union Printable /\ ~ (c = BS /\ some) => Print1(p, c) = p
  BY <1>1, <1>2, CharacterAssumption
<1> QED  BY <1>3, Zenon DEF back, full, next, home, last, inner, some

\* A changed cell and a changed column, field by field.
LEMMA ScreenChanges ==
  ASSUME NEW s, NEW a, NEW b, NEW c, NEW x, NEW v, NEW k,
         s = [cell |-> a, row |-> b, col |-> c]
  PROVE  /\ [s EXCEPT !.col = k] = [cell |-> a, row |-> b, col |-> k]
         /\ [s EXCEPT !.cell[b][x] = v] = [cell |-> [a EXCEPT ![b][x] = v], row |-> b, col |-> c]
         /\ [s EXCEPT !.col = k, !.cell[b][x] = v]
              = [cell |-> [a EXCEPT ![b][x] = v], row |-> b, col |-> k]
<1>1. [s EXCEPT !.col = k] = [cell |-> a, row |-> b, col |-> k]  OBVIOUS
<1>2. [s EXCEPT !.cell[b][x] = v] = [cell |-> [a EXCEPT ![b][x] = v], row |-> b, col |-> c]  OBVIOUS
<1>3. [[cell |-> a, row |-> b, col |-> k] EXCEPT !.cell[b][x] = v]
        = [cell |-> [a EXCEPT ![b][x] = v], row |-> b, col |-> k]
  OBVIOUS
<1>4. [s EXCEPT !.col = k, !.cell[b][x] = v] = [[s EXCEPT !.col = k] EXCEPT !.cell[b][x] = v]
  OBVIOUS
<1>5. [s EXCEPT !.col = k, !.cell[b][x] = v]
        = [cell |-> [a EXCEPT ![b][x] = v], row |-> b, col |-> k]
  BY <1>1, <1>3, <1>4
<1> QED  BY <1>1, <1>2, <1>5, Zenon

LEMMA PaperChanges ==
  ASSUME NEW p, NEW a, NEW n, NEW c, NEW x, NEW v, NEW k, p = [lines |-> a, col |-> c]
  PROVE  /\ [p EXCEPT !.col = k] = [lines |-> a, col |-> k]
         /\ [p EXCEPT !.lines[n][x] = v] = [lines |-> [a EXCEPT ![n][x] = v], col |-> c]
         /\ [p EXCEPT !.col = k, !.lines[n][x] = v]
              = [lines |-> [a EXCEPT ![n][x] = v], col |-> k]
         /\ [p EXCEPT !.lines[n][x] = v, !.col = k]
              = [lines |-> [a EXCEPT ![n][x] = v], col |-> k]
<1> DEFINE a2 == [a EXCEPT ![n][x] = v]
<1>1. [p EXCEPT !.col = k] = [lines |-> a, col |-> k]  OBVIOUS
<1>2. [p EXCEPT !.lines[n][x] = v] = [lines |-> a2, col |-> c]  OBVIOUS
<1>3. [[lines |-> a, col |-> k] EXCEPT !.lines[n][x] = v] = [lines |-> a2, col |-> k]  OBVIOUS
<1>4. [[lines |-> a2, col |-> c] EXCEPT !.col = k] = [lines |-> a2, col |-> k]
  <2> HIDE DEF a2
  <2> QED  OBVIOUS
<1>5. [p EXCEPT !.col = k, !.lines[n][x] = v] = [[p EXCEPT !.col = k] EXCEPT !.lines[n][x] = v]
  OBVIOUS
<1>6. [p EXCEPT !.lines[n][x] = v, !.col = k] = [[p EXCEPT !.lines[n][x] = v] EXCEPT !.col = k]
  OBVIOUS
<1>7. [p EXCEPT !.col = k, !.lines[n][x] = v] = [lines |-> a2, col |-> k]
  BY <1>1, <1>3, <1>5
<1>8. [p EXCEPT !.lines[n][x] = v, !.col = k] = [lines |-> a2, col |-> k]
  BY <1>2, <1>4, <1>6
<1> QED  BY <1>1, <1>2, <1>7, <1>8, Zenon

LEMMA StaysOnScreen ==
  ASSUME NEW s \in Screens  PROVE ScrollIfNeeded(s) = s
  BY ScreenAssumption DEF ScrollIfNeeded, Screens

\* The cursor goes home, or nothing happens.
LEMMA ColumnShows ==
  ASSUME NEW s \in Screens, NEW p \in Papers, Shows(s, p), NEW k \in 0..(Cols - 1)
  PROVE  /\ [s EXCEPT !.col = k] \in Screens /\ [p EXCEPT !.col = k] \in Papers
         /\ Shows([s EXCEPT !.col = k], [p EXCEPT !.col = k])
<1>1. /\ s = [cell |-> s.cell, row |-> s.row, col |-> s.col]
      /\ p = [lines |-> p.lines, col |-> p.col]
  BY ScreenFields, PaperFields
<1> DEFINE s2 == [s EXCEPT !.col = k]
           p2 == [p EXCEPT !.col = k]
<1>2. s2.cell = s.cell /\ s2.row = s.row /\ s2.col = k  BY <1>1
<1>3. p2.lines = p.lines /\ p2.col = k  BY <1>1
<1>4. s2 \in Screens /\ p2 \in Papers  BY DEF Screens, Papers
<1> HIDE DEF s2, p2
<1>5. Shows(s2, p2)  BY <1>2, <1>3, ShowsParts
<1> QED  BY <1>4, <1>5 DEF s2, p2

LEMMA ClearShows == Shows(ClearScreen, FreshPaper)
<1>1. Rows \in Nat \ {0} /\ Top(1) = 0  BY ScreenAssumption DEF Top
<1>2. FreshPaper.lines = <<BlankRow>> /\ Len(<<BlankRow>>) = 1 /\ <<BlankRow>>[1] = BlankRow
      /\ FreshPaper.col = 0
  BY DEF FreshPaper
<1>3. /\ ClearScreen.row = 0 /\ ClearScreen.col = 0
      /\ \A r \in 0..(Rows - 1) : ClearScreen.cell[r] = BlankRow
  BY DEF ClearScreen
<1>4. ShownRows(ClearScreen.cell, <<BlankRow>>)
  BY <1>1, <1>2, <1>3 DEF ShownRows
<1>5. Len(FreshPaper.lines) = 1  BY <1>2
<1>6. ClearScreen.row = Len(FreshPaper.lines) - Top(Len(FreshPaper.lines)) - 1
  BY <1>1, <1>3, <1>5
<1> QED  BY <1>2, <1>3, <1>4, <1>6, ShowsParts

\* tools/gpu.c's put_char keeps the screen the end of the paper, whatever the
\* character.
Follows(s, p) == s \in Screens /\ p \in Papers /\ Shows(s, p)

LEMMA BackspaceShows ==
  ASSUME NEW s, NEW p, Follows(s, p), s.col > 0
  PROVE  Follows(put_char(s, BS), Print1(p, BS))
<1>1. /\ s \in Screens /\ p \in Papers /\ Shows(s, p) /\ s.col = p.col
      /\ s = [cell |-> s.cell, row |-> s.row, col |-> s.col]
      /\ p = [lines |-> p.lines, col |-> p.col]
  BY ScreenFields, PaperFields, ShowsParts DEF Follows
<1> DEFINE k == s.col - 1
           n == Len(p.lines)
<1>2. k \in 0..(Cols - 1)  BY <1>1, ScreenAssumption, ScreenFields
<1>3. Written(s, BS) = [s EXCEPT !.col = k, !.cell[s.row][k] = Blank]
  BY WrittenCases, Zenon
<1>4. Print1(p, BS) = [p EXCEPT !.col = k, !.lines[n][k] = Blank]
  <2>1. p.col > 0 /\ k = p.col - 1  BY <1>1
  <2>2. Print1(p, BS) = [p EXCEPT !.col = @ - 1, !.lines[n][p.col - 1] = Blank]
    BY <1>1, <2>1, PrintCases, Zenon
  <2> HIDE DEF n
  <2> QED  BY <2>1, <2>2
<1>5. Blank \in Printable \union {Blank}  OBVIOUS
<1> HIDE DEF k
<1> DEFINE s2 == [cell |-> [s.cell EXCEPT ![s.row][k] = Blank], row |-> s.row, col |-> k]
           p2 == [lines |-> [p.lines EXCEPT ![n][k] = Blank], col |-> k]
<1>6. Written(s, BS) = s2  BY <1>1, <1>3, ScreenChanges
<1>7. Print1(p, BS) = p2  BY <1>1, <1>4, PaperChanges
<1>8. s2 \in Screens /\ p2 \in Papers /\ Shows(s2, p2)  BY <1>1, <1>2, <1>5, WriteShows
<1> HIDE DEF s2, p2
<1>9. put_char(s, BS) = s2  BY <1>6, <1>8, StaysOnScreen DEF put_char
<1> QED  BY <1>7, <1>8, <1>9 DEF Follows

LEMMA PrintableShows ==
  ASSUME NEW s, NEW p, Follows(s, p), NEW c \in Printable
  PROVE  Follows(put_char(s, c), Print1(p, c))
<1>1. /\ s \in Screens /\ p \in Papers /\ Shows(s, p) /\ s.col = p.col
      /\ s = [cell |-> s.cell, row |-> s.row, col |-> s.col]
      /\ p = [lines |-> p.lines, col |-> p.col]
      /\ s.col \in 0..(Cols - 1) /\ Cols \in Nat \ {0}
  BY ScreenFields, PaperFields, ShowsParts, ScreenAssumption DEF Follows
<1> DEFINE k == s.col
           n == Len(p.lines)
           t == [s EXCEPT !.cell[s.row][k] = c]
           q == [p EXCEPT !.lines[n][k] = c]
           cell2 == [s.cell EXCEPT ![s.row][k] = c]
           lines2 == [p.lines EXCEPT ![n][k] = c]
<1>2. t = [cell |-> cell2, row |-> s.row, col |-> k]
  <2> DEFINE a == s.cell
             b == s.row
  <2>1. s = [cell |-> a, row |-> b, col |-> k]  BY <1>1
  <2> HIDE DEF a, b, k
  <2>2. [s EXCEPT !.cell[b][k] = c] = [cell |-> [a EXCEPT ![b][k] = c], row |-> b, col |-> k]
    BY <2>1
  <2> QED  BY <2>2, Zenon DEF a, b
<1>3. q = [lines |-> lines2, col |-> k]
  <2> DEFINE a == p.lines
  <2>1. p = [lines |-> a, col |-> k]  BY <1>1
  <2> HIDE DEF a, n, k
  <2>2. [p EXCEPT !.lines[n][k] = c] = [lines |-> [a EXCEPT ![n][k] = c], col |-> k]
    BY <2>1
  <2> QED  BY <2>2, Zenon DEF a
<1>4. c \in Printable \union {Blank}  OBVIOUS
<1>5. \A m \in 0..(Cols - 1) :
        Follows([cell |-> cell2, row |-> s.row, col |-> m], [lines |-> lines2, col |-> m])
  BY <1>1, <1>4, WriteShows DEF Follows
<1>6. CASE k + 1 >= Cols
  <2>1. Follows(t, q)  BY <1>1, <1>2, <1>3, <1>5, Zenon
  <2>2. Written(s, c) = NewLine(t)  BY <1>6, WrittenCases, Zenon
  <2>3. Print1(p, c) = Feed(q)
    <3>1. p.col = Cols - 1  BY <1>1, <1>6
    <3>2. p \in Papers /\ p.col = k  BY <1>1
    <3>3. Print1(p, c) = Feed([p EXCEPT !.lines[n][p.col] = c])
      <4> HIDE DEF k
      <4> QED  BY <3>1, <3>2, PrintCases, ZenonT(60)
    <3> QED  BY <3>2, <3>3, Zenon
  <2> HIDE DEF t, q
  <2> QED  BY <2>1, <2>2, <2>3, LineFeedShows DEF put_char, Follows
<1>7. CASE ~ (k + 1 >= Cols)
  <2> DEFINE s2 == [cell |-> cell2, row |-> s.row, col |-> k + 1]
             p2 == [lines |-> lines2, col |-> k + 1]
  <2>1. k + 1 \in 0..(Cols - 1) /\ p.col < Cols - 1  BY <1>1, <1>7
  <2>2. Follows(s2, p2)  BY <1>5, <2>1, Zenon
  <2>3. Written(s, c) = s2
    <3>1. Written(s, c) = [t EXCEPT !.col = @ + 1]  BY <1>7, WrittenCases, Zenon
    <3>2. [t EXCEPT !.col = @ + 1] = [t EXCEPT !.col = k + 1]
      <4>1. t.col = k  BY <1>2
      <4> HIDE DEF t, k
      <4> QED  BY <4>1
    <3> HIDE DEF t, k, cell2
    <3> QED  BY <1>2, <3>1, <3>2, ScreenChanges
  <2>4. Print1(p, c) = p2
    <3>1. Print1(p, c) = [p EXCEPT !.lines[n][k] = c, !.col = k + 1]
      <4>1. Print1(p, c) = [p EXCEPT !.lines[n][p.col] = c, !.col = @ + 1]
        BY <1>1, <2>1, PrintCases, Zenon
      <4>2. p.col = k  BY <1>1
      <4> HIDE DEF k, n
      <4> QED  BY <4>1, <4>2
    <3> HIDE DEF k, n
    <3> QED  BY <1>1, <3>1, PaperChanges DEF lines2
  <2> HIDE DEF s2, p2
  <2>5. put_char(s, c) = s2  BY <2>2, <2>3, StaysOnScreen DEF put_char, Follows
  <2> QED  BY <2>2, <2>4, <2>5
<1> QED  BY <1>6, <1>7

LEMMA PutCharShows ==
  ASSUME NEW s, NEW p, Follows(s, p), NEW c
  PROVE  Follows(put_char(s, c), Print1(p, c))
<1>1. s \in Screens /\ p \in Papers /\ Shows(s, p) /\ s.col = p.col
  BY ShowsParts DEF Follows
<1>2. CASE c = NL
  <2>1. Written(s, c) = NewLine(s) /\ Print1(p, c) = Feed(p)
    BY <1>1, <1>2, WrittenCases, PrintCases, Zenon
  <2> QED  BY <1>1, <2>1, LineFeedShows DEF put_char, Follows
<1>3. CASE c = CR
  <2>1. Written(s, c) = [s EXCEPT !.col = 0] /\ Print1(p, c) = [p EXCEPT !.col = 0]
    BY <1>1, <1>3, WrittenCases, PrintCases, Zenon
  <2>2. 0 \in 0..(Cols - 1)  BY ScreenAssumption
  <2>3. Follows([s EXCEPT !.col = 0], [p EXCEPT !.col = 0])
    BY <1>1, <2>2, ColumnShows DEF Follows
  <2>4. put_char(s, c) = Written(s, c)
    BY <2>1, <2>3, StaysOnScreen, Zenon DEF put_char, Follows
  <2> QED  BY <2>1, <2>3, <2>4, Zenon
<1>4. CASE c = BS /\ s.col > 0  BY <1>4, BackspaceShows
<1>5. CASE c = FF
  <2>1. Written(s, c) = ClearScreen /\ Print1(p, c) = FreshPaper
    BY <1>1, <1>5, WrittenCases, PrintCases, Zenon
  <2>2. Follows(ClearScreen, FreshPaper)  BY ClearShows, BlankRowTyped DEF Follows
  <2>3. put_char(s, c) = ClearScreen
    BY <2>1, <2>2, StaysOnScreen, Zenon DEF put_char, Follows
  <2> QED  BY <2>1, <2>2, <2>3, Zenon
<1>6. CASE c \in Printable  BY <1>6, PrintableShows
<1>7. CASE c \notin {NL, CR, FF} \union Printable /\ ~ (c = BS /\ s.col > 0)
  <2>1. Written(s, c) = s /\ Print1(p, c) = p
    <3>1. c \notin {NL, CR, FF} \union Printable /\ ~ (c = BS /\ p.col > 0)  BY <1>1, <1>7
    <3> QED  BY <1>1, <1>7, <3>1, WrittenCases, PrintCases, Zenon
  <2>2. put_char(s, c) = s  BY <1>1, <2>1, StaysOnScreen DEF put_char
  <2> QED  BY <1>1, <2>1, <2>2, Zenon
<1> QED  BY <1>2, <1>3, <1>4, <1>5, <1>6, <1>7

\* Folding put_char over a text: the screens on the way.
Shown  == {s \in Screens : \E p \in Papers : Shows(s, p)}
Sheets == {p \in Papers : \E s \in Screens : Shows(s, p)}

LEMMA PutCharStays ==
  ASSUME NEW c
  PROVE  /\ \A s \in Shown : put_char(s, c) \in Shown
         /\ \A p \in Sheets : Print1(p, c) \in Sheets
<1>1. ASSUME NEW s, NEW p, Follows(s, p)
      PROVE  Follows(put_char(s, c), Print1(p, c))
  BY <1>1, PutCharShows
<1>2. \A s : s \in Shown <=> \E p : Follows(s, p)  BY Zenon DEF Shown, Follows
<1>3. \A p : p \in Sheets <=> \E s : Follows(s, p)  BY Zenon DEF Sheets, Follows
<1> QED  BY <1>1, <1>2, <1>3, Zenon

ScreenRun(f, s, t) ==
  /\ f[0] = s /\ f[Len(t)] = FoldLeft(put_char, s, t)
  /\ \A m \in 1..Len(t) : f[m] = put_char(f[m - 1], t[m])
PaperRun(f, p, t) ==
  /\ f[0] = p /\ f[Len(t)] = FoldLeft(Print1, p, t)
  /\ \A m \in 1..Len(t) : f[m] = Print1(f[m - 1], t[m])

LEMMA ScreenRuns ==
  ASSUME NEW s \in Shown, NEW E, NEW t \in Seq(E)
  PROVE  \E f : ScreenRun(f, s, t)
<1> DEFINE op == [x \in Shown \X E |-> put_char(x[1], x[2])]
           IsRun(h) == h = [q \in SUBSET DOMAIN t |->
                              IF q = {} THEN s ELSE put_char(h[q \ {Max(q)}], t[Max(q)])]
<1>1. op \in [Shown \X E -> Shown]  BY PutCharStays
<1>2. PICK g \in [SUBSET DOMAIN t -> Shown] : IsFold(g, op, s, t)
  <2> HIDE DEF op
  <2> QED  BY <1>1, FoldExists
<1>n. DOMAIN t = 1..Len(t) /\ Len(t) \in Nat  OBVIOUS
<1>3. ASSUME NEW q \in SUBSET DOMAIN t
      PROVE  g[q] = IF q = {} THEN s ELSE put_char(g[q \ {Max(q)}], t[Max(q)])
  <2>1. CASE q = {}  BY <1>2, <2>1 DEF IsFold
  <2>2. CASE q # {}
    <3>1. Max(q) \in DOMAIN t  BY <1>n, <2>2, MaxOfSome
    <3>2. t[Max(q)] \in E  BY <3>1
    <3>3. g[q \ {Max(q)}] \in Shown  BY <1>2
    <3>4. g[q] = op[<<g[q \ {Max(q)}], t[Max(q)]>>]
      <4> HIDE DEF op
      <4> QED  BY <1>2, <2>2 DEF IsFold
    <3>5. op[<<g[q \ {Max(q)}], t[Max(q)]>>] = put_char(g[q \ {Max(q)}], t[Max(q)])
      BY <3>2, <3>3
    <3> QED  BY <2>2, <3>4, <3>5
  <2> QED  BY <2>1, <2>2
<1>4. IsRun(g)  BY <1>3
<1> DEFINE h == CHOOSE k : IsRun(k)
<1>5. IsRun(h)
  <2> HIDE DEF IsRun
  <2> QED  BY <1>4, Zenon
<1>6. FoldLeft(put_char, s, t) = h[DOMAIN t]  BY Zenon DEF FoldLeft, MapThenFoldSet
<1> HIDE DEF h
<1> DEFINE f == [m \in 0..Len(t) |-> h[1..m]]
<1>7. f[0] = s
  <2>1. 1..0 = {} /\ 0 \in 0..Len(t) /\ {} \in SUBSET DOMAIN t  BY <1>n
  <2> QED  BY <1>5, <2>1
<1>8. f[Len(t)] = FoldLeft(put_char, s, t)  BY <1>6, <1>n
<1>9. ASSUME NEW m \in 1..Len(t) PROVE f[m] = put_char(f[m - 1], t[m])
  <2>1. /\ 1..m \in SUBSET DOMAIN t /\ 1..m # {}
        /\ Max(1..m) = m /\ (1..m) \ {Max(1..m)} = 1..(m - 1)
    BY <1>n, UpTo
  <2>2. h[1..m] = put_char(h[(1..m) \ {Max(1..m)}], t[Max(1..m)])
    BY <1>5, <2>1
  <2>3. m \in 0..Len(t) /\ m - 1 \in 0..Len(t)  BY <1>n
  <2>4. f[m] = h[1..m] /\ f[m - 1] = h[1..(m - 1)]  BY <2>3, Zenon
  <2> QED  BY <2>1, <2>2, <2>4, Zenon
<1> HIDE DEF f
<1> QED  BY <1>7, <1>8, <1>9, Zenon DEF ScreenRun

LEMMA PaperRuns ==
  ASSUME NEW p \in Sheets, NEW E, NEW t \in Seq(E)
  PROVE  \E f : PaperRun(f, p, t)
<1> DEFINE op == [x \in Sheets \X E |-> Print1(x[1], x[2])]
           IsRun(h) == h = [q \in SUBSET DOMAIN t |->
                              IF q = {} THEN p ELSE Print1(h[q \ {Max(q)}], t[Max(q)])]
<1>1. op \in [Sheets \X E -> Sheets]  BY PutCharStays
<1>2. PICK g \in [SUBSET DOMAIN t -> Sheets] : IsFold(g, op, p, t)
  <2> HIDE DEF op
  <2> QED  BY <1>1, FoldExists
<1>n. DOMAIN t = 1..Len(t) /\ Len(t) \in Nat  OBVIOUS
<1>3. ASSUME NEW q \in SUBSET DOMAIN t
      PROVE  g[q] = IF q = {} THEN p ELSE Print1(g[q \ {Max(q)}], t[Max(q)])
  <2>1. CASE q = {}  BY <1>2, <2>1 DEF IsFold
  <2>2. CASE q # {}
    <3>1. Max(q) \in DOMAIN t  BY <1>n, <2>2, MaxOfSome
    <3>2. t[Max(q)] \in E  BY <3>1
    <3>3. g[q \ {Max(q)}] \in Sheets  BY <1>2
    <3>4. g[q] = op[<<g[q \ {Max(q)}], t[Max(q)]>>]
      <4> HIDE DEF op
      <4> QED  BY <1>2, <2>2 DEF IsFold
    <3>5. op[<<g[q \ {Max(q)}], t[Max(q)]>>] = Print1(g[q \ {Max(q)}], t[Max(q)])
      BY <3>2, <3>3
    <3> QED  BY <2>2, <3>4, <3>5
  <2> QED  BY <2>1, <2>2
<1>4. IsRun(g)  BY <1>3
<1> DEFINE h == CHOOSE k : IsRun(k)
<1>5. IsRun(h)
  <2> HIDE DEF IsRun
  <2> QED  BY <1>4, Zenon
<1>6. FoldLeft(Print1, p, t) = h[DOMAIN t]  BY Zenon DEF FoldLeft, MapThenFoldSet
<1> HIDE DEF h
<1> DEFINE f == [m \in 0..Len(t) |-> h[1..m]]
<1>7. f[0] = p
  <2>1. 1..0 = {} /\ 0 \in 0..Len(t) /\ {} \in SUBSET DOMAIN t  BY <1>n
  <2> QED  BY <1>5, <2>1
<1>8. f[Len(t)] = FoldLeft(Print1, p, t)  BY <1>6, <1>n
<1>9. ASSUME NEW m \in 1..Len(t) PROVE f[m] = Print1(f[m - 1], t[m])
  <2>1. /\ 1..m \in SUBSET DOMAIN t /\ 1..m # {}
        /\ Max(1..m) = m /\ (1..m) \ {Max(1..m)} = 1..(m - 1)
    BY <1>n, UpTo
  <2>2. h[1..m] = Print1(h[(1..m) \ {Max(1..m)}], t[Max(1..m)])
    BY <1>5, <2>1
  <2>3. m \in 0..Len(t) /\ m - 1 \in 0..Len(t)  BY <1>n
  <2>4. f[m] = h[1..m] /\ f[m - 1] = h[1..(m - 1)]  BY <2>3, Zenon
  <2> QED  BY <2>1, <2>2, <2>4, Zenon
<1> HIDE DEF f
<1> QED  BY <1>7, <1>8, <1>9, Zenon DEF PaperRun

\* A screen that shows a paper goes on showing it, text after text.
LEMMA FoldsFollow ==
  ASSUME NEW s, NEW p, Follows(s, p), NEW E, NEW t \in Seq(E)
  PROVE  Follows(FoldLeft(put_char, s, t), FoldLeft(Print1, p, t))
<1>1. PICK f : ScreenRun(f, s, t)
  <2>1. s \in Shown  BY Zenon DEF Shown, Follows
  <2> QED  BY <2>1, ScreenRuns
<1>2. PICK g : PaperRun(g, p, t)
  <2>1. p \in Sheets  BY Zenon DEF Sheets, Follows
  <2> QED  BY <2>1, PaperRuns
<1> DEFINE T == {n \in Nat : n <= Len(t) => Follows(f[n], g[n])}
<1>0. \A n \in Nat : n \in T <=> (n <= Len(t) => Follows(f[n], g[n]))  BY Zenon
<1> HIDE DEF T
<1>3. 0 \in T
  <2>1. f[0] = s /\ g[0] = p  BY <1>1, <1>2 DEF ScreenRun, PaperRun
  <2>2. 0 \in Nat  OBVIOUS
  <2> QED  BY <1>0, <2>1, <2>2, Zenon
<1>4. ASSUME NEW n \in Nat, n \in T PROVE n + 1 \in T
  <2> SUFFICES ASSUME n + 1 <= Len(t) PROVE Follows(f[n + 1], g[n + 1])
    <3>1. n + 1 \in Nat  OBVIOUS
    <3> QED  BY <1>0, <3>1, Zenon
  <2>1. n <= Len(t) /\ n + 1 \in 1..Len(t) /\ (n + 1) - 1 = n  OBVIOUS
  <2>2. Follows(f[n], g[n])  BY <1>0, <1>4, <2>1, Zenon
  <2>3. f[n + 1] = put_char(f[n], t[n + 1])
    BY <1>1, <2>1 DEF ScreenRun
  <2>4. g[n + 1] = Print1(g[n], t[n + 1])
    BY <1>2, <2>1 DEF PaperRun
  <2> QED  BY <2>2, <2>3, <2>4, PutCharShows
<1>5. \A n \in Nat : n \in T  BY <1>3, <1>4, InductionOverNat
<1>6. Len(t) \in Nat /\ Len(t) <= Len(t)  OBVIOUS
<1>7. Follows(f[Len(t)], g[Len(t)])  BY <1>0, <1>5, <1>6, Zenon
<1> QED  BY <1>1, <1>2, <1>7, Zenon DEF ScreenRun, PaperRun

\* Printing a text in two parts.
LEMMA PrintsOn ==
  ASSUME NEW p \in Sheets, NEW E, NEW t \in Seq(E), NEW n \in 0..Len(t)
  PROVE  FoldLeft(Print1, p, t)
           = FoldLeft(Print1, FoldLeft(Print1, p, SubSeq(t, 1, n)), SubSeq(t, n + 1, Len(t)))
<1> DEFINE a == SubSeq(t, 1, n)
           b == SubSeq(t, n + 1, Len(t))
<1>1. /\ a \in Seq(E) /\ Len(a) = n /\ \A i \in 1..n : a[i] = t[i]
      /\ b \in Seq(E) /\ Len(b) = Len(t) - n /\ \A i \in 1..(Len(t) - n) : b[i] = t[n + i]
  OBVIOUS
<1>n. Len(t) \in Nat /\ n \in Nat /\ n <= Len(t)  OBVIOUS
<1> HIDE DEF a, b
<1>2. PICK f : PaperRun(f, p, t)  BY PaperRuns
<1>3. PICK g : PaperRun(g, p, a)  BY <1>1, PaperRuns
<1> DEFINE T == {m \in Nat : m <= n => f[m] = g[m] /\ f[m] \in Sheets}
<1>4. \A m \in Nat : m \in T <=> (m <= n => f[m] = g[m] /\ f[m] \in Sheets)  BY Zenon
<1> HIDE DEF T
<1>5. 0 \in T
  <2>1. f[0] = p /\ g[0] = p  BY <1>2, <1>3 DEF PaperRun
  <2>2. 0 \in Nat  OBVIOUS
  <2> QED  BY <1>4, <2>1, <2>2, Zenon
<1>6. ASSUME NEW m \in Nat, m \in T PROVE m + 1 \in T
  <2> SUFFICES ASSUME m + 1 <= n PROVE f[m + 1] = g[m + 1] /\ f[m + 1] \in Sheets
    <3>1. m + 1 \in Nat  OBVIOUS
    <3> QED  BY <1>4, <3>1, Zenon
  <2>1. /\ m <= n /\ m + 1 \in 1..n /\ m + 1 \in 1..Len(t) /\ m + 1 \in 1..Len(a)
        /\ (m + 1) - 1 = m
    BY <1>1, <1>n
  <2>2. f[m] = g[m] /\ f[m] \in Sheets  BY <1>4, <1>6, <2>1, Zenon
  <2>3. f[m + 1] = Print1(f[m], t[m + 1])  BY <1>2, <2>1 DEF PaperRun
  <2>4. g[m + 1] = Print1(g[m], a[m + 1])  BY <1>3, <2>1 DEF PaperRun
  <2>5. a[m + 1] = t[m + 1]  BY <1>1, <2>1
  <2> QED  BY <2>2, <2>3, <2>4, <2>5, PutCharStays
<1>7. \A m \in Nat : m \in T  BY <1>5, <1>6, InductionOverNat
<1>8. f[n] = FoldLeft(Print1, p, a) /\ f[n] \in Sheets
  <2>1. g[n] = FoldLeft(Print1, p, a)  BY <1>1, <1>3 DEF PaperRun
  <2>2. n <= n  BY <1>n
  <2> QED  BY <1>4, <1>7, <1>n, <2>1, <2>2, Zenon
<1> DEFINE mid == FoldLeft(Print1, p, a)
<1>9. mid \in Sheets  BY <1>8
<1> HIDE DEF mid
<1>10. PICK h : PaperRun(h, mid, b)  BY <1>1, <1>9, PaperRuns
<1> DEFINE U == {m \in Nat : m <= Len(t) - n => f[n + m] = h[m]}
<1>11. \A m \in Nat : m \in U <=> (m <= Len(t) - n => f[n + m] = h[m])  BY Zenon
<1> HIDE DEF U
<1>12. 0 \in U
  <2>1. f[n] = h[0]  BY <1>8, <1>10 DEF PaperRun, mid
  <2>2. 0 \in Nat /\ n + 0 = n  BY <1>n
  <2> QED  BY <1>11, <2>1, <2>2
<1>13. ASSUME NEW m \in Nat, m \in U PROVE m + 1 \in U
  <2> SUFFICES ASSUME m + 1 <= Len(t) - n PROVE f[n + (m + 1)] = h[m + 1]
    <3>1. m + 1 \in Nat  OBVIOUS
    <3> QED  BY <1>11, <3>1, Zenon
  <2>1. /\ m <= Len(t) - n /\ m + 1 \in 1..(Len(t) - n) /\ n + (m + 1) \in 1..Len(t)
        /\ m + 1 \in 1..Len(b) /\ (m + 1) - 1 = m /\ (n + (m + 1)) - 1 = n + m
    BY <1>1, <1>n
  <2>2. f[n + m] = h[m]  BY <1>11, <1>13, <2>1, Zenon
  <2>3. f[n + (m + 1)] = Print1(f[n + m], t[n + (m + 1)])  BY <1>2, <2>1 DEF PaperRun
  <2>4. h[m + 1] = Print1(h[m], b[m + 1])  BY <1>10, <2>1 DEF PaperRun
  <2>5. b[m + 1] = t[n + (m + 1)]  BY <1>1, <2>1
  <2> QED  BY <2>2, <2>3, <2>4, <2>5
<1>14. \A m \in Nat : m \in U  BY <1>12, <1>13, InductionOverNat
<1>15. f[Len(t)] = h[Len(t) - n]
  <2>1. Len(t) - n \in Nat /\ Len(t) - n <= Len(t) - n /\ n + (Len(t) - n) = Len(t)  BY <1>n
  <2> QED  BY <1>11, <1>14, <2>1
<1>16. h[Len(t) - n] = FoldLeft(Print1, mid, b)  BY <1>1, <1>10 DEF PaperRun
<1>17. f[Len(t)] = FoldLeft(Print1, p, t)  BY <1>2 DEF PaperRun
<1> QED  BY <1>15, <1>16, <1>17, Zenon DEF mid, a, b

\* The monitor has drawn a part of what was sent, and the screen is that part's.
DrawnInv ==
  /\ drawn \in 0..Len(gpu)
  /\ Follows(screen, Paper(SubSeq(gpu, 1, drawn)))

\* What a step can do with the bytes to the monitor.
SentStep ==
  \/ (gpu' = gpu \/ gpu' = Append(gpu, ch)) /\ drawn' = drawn /\ screen' = screen
  \/ Draw

LEMMA StepsOfSender == [Next]_vars => SentStep
<1> SUFFICES ASSUME [Next]_vars PROVE SentStep  OBVIOUS
<1>1. CASE Idle \/ AciaWrite \/ RxRead \/ Reset \/ UNCHANGED vars
  <2>1. gpu' = gpu /\ UNCHANGED hostVars
    BY <1>1 DEF Idle, AciaWrite, RxRead, Reset, Cycle, softVars, vars
  <2> QED  BY <2>1 DEF hostVars, SentStep
<1>2. CASE Cpu(Loop)
  <2>1. gpu' = gpu \/ gpu' = Append(gpu, ch)
    BY <1>2 DEF Cpu, Loop, FetchInline, ReturnInline, FetchChar, AciaWait, GpuWait, GpuWrite,
       RxWait
  <2>2. UNCHANGED hostVars  BY <1>2 DEF Cpu, Cycle
  <2> QED  BY <2>1, <2>2 DEF hostVars, SentStep
<1>3. CASE Cpu(Call)
  <2>1. gpu' = gpu /\ UNCHANGED hostVars
    BY <1>3 DEF Cpu, Cycle, Call, k_print, do_getc, do_getc_nb
  <2> QED  BY <2>1 DEF hostVars, SentStep
<1>4. CASE OpenFifo \/ OpenKeyboard \/ SendKey
  BY <1>4 DEF OpenFifo, OpenKeyboard, SendKey, softVars, SentStep
<1>5. CASE Draw  BY <1>5, Zenon DEF SentStep
<1> QED  BY <1>1, <1>2, <1>3, <1>4, <1>5 DEF Next, Software, Monitor

LEMMA FreshPaperShows == FreshPaper \in Sheets /\ Follows(ClearScreen, FreshPaper)
  BY ClearShows, BlankRowTyped DEF Follows, Sheets

LEMMA DrawnKept ==
  ASSUME SoftInv, DrawnInv, SentStep
  PROVE  DrawnInv'
<1>1. /\ gpu \in Seq(Bytes) /\ ch \in Bytes /\ Len(gpu) \in Nat
      /\ drawn \in 0..Len(gpu)
  BY DEF SoftInv, SoftTypes, DrawnInv
<1>2. ASSUME drawn' = drawn, screen' = screen, drawn \in 0..Len(gpu'),
             SubSeq(gpu', 1, drawn) = SubSeq(gpu, 1, drawn)
      PROVE  DrawnInv'
  BY <1>2 DEF DrawnInv
<1>3. CASE gpu' = gpu /\ drawn' = drawn /\ screen' = screen
  BY <1>1, <1>2, <1>3
<1>4. CASE gpu' = Append(gpu, ch) /\ drawn' = drawn /\ screen' = screen
  <2>1. /\ gpu' \in Seq(Bytes) /\ Len(gpu') = Len(gpu) + 1
        /\ \A i \in 1..Len(gpu) : gpu'[i] = gpu[i]
    BY <1>1, <1>4, AppendProperties
  <2>2. drawn \in 0..Len(gpu')  BY <1>1, <2>1
  <2>3. SubSeq(gpu', 1, drawn) = SubSeq(gpu, 1, drawn)
    <3>1. /\ SubSeq(gpu', 1, drawn) \in Seq(Bytes) /\ Len(SubSeq(gpu', 1, drawn)) = drawn
          /\ \A i \in 1..drawn : SubSeq(gpu', 1, drawn)[i] = gpu'[i]
      BY <2>1, <2>2
    <3>2. /\ SubSeq(gpu, 1, drawn) \in Seq(Bytes) /\ Len(SubSeq(gpu, 1, drawn)) = drawn
          /\ \A i \in 1..drawn : SubSeq(gpu, 1, drawn)[i] = gpu[i]
      BY <1>1
    <3>3. \A i \in 1..drawn : SubSeq(gpu', 1, drawn)[i] = SubSeq(gpu, 1, drawn)[i]
      BY <1>1, <2>1, <3>1, <3>2
    <3> QED  BY <3>1, <3>2, <3>3, SeqEqual
  <2> QED  BY <1>2, <1>4, <2>2, <2>3
<1>5. CASE Draw
  <2>1. /\ screen' = FoldLeft(put_char, screen, SubSeq(gpu, drawn + 1, Len(gpu)))
        /\ drawn' = Len(gpu) /\ gpu' = gpu
    BY <1>5, Zenon DEF Draw, softVars
  <2> DEFINE rest == SubSeq(gpu, drawn + 1, Len(gpu))
             before == Paper(SubSeq(gpu, 1, drawn))
  <2>2. rest \in Seq(Bytes)  BY <1>1
  <2>3. Follows(screen, before)  BY DEF DrawnInv
  <2>4. Follows(FoldLeft(put_char, screen, rest), FoldLeft(Print1, before, rest))
    <3> HIDE DEF rest, before
    <3> QED  BY <2>2, <2>3, FoldsFollow
  <2>5. Paper(gpu) = FoldLeft(Print1, before, rest)
    BY <1>1, FreshPaperShows, PrintsOn DEF Paper
  <2>6. SubSeq(gpu, 1, Len(gpu)) = gpu
    BY <1>1, SubSeqFull
  <2>7. Follows(screen', Paper(SubSeq(gpu', 1, drawn')))
    BY <2>1, <2>4, <2>5, <2>6, Zenon
  <2>8. drawn' \in 0..Len(gpu')  BY <1>1, <2>1
  <2> QED  BY <2>7, <2>8 DEF DrawnInv
<1> QED  BY <1>3, <1>4, <1>5 DEF SentStep

LEMMA DrawnInvariant == Spec => [](SoftInv /\ DrawnInv)
<1>1. Init => DrawnInv
  <2> SUFFICES ASSUME Init PROVE DrawnInv  OBVIOUS
  <2>1. gpu = <<>> /\ drawn = 0 /\ screen = ClearScreen  BY DEF Init
  <2>2. SubSeq(gpu, 1, drawn) = <<>> /\ drawn \in 0..Len(gpu)  BY <2>1
  <2>3. Paper(<<>>) = FreshPaper
    <3>1. <<>> \in Seq(Bytes) /\ Len(<<>>) = 0  OBVIOUS
    <3>2. PICK f : PaperRun(f, FreshPaper, <<>>)  BY <3>1, FreshPaperShows, PaperRuns
    <3> QED  BY <3>1, <3>2 DEF PaperRun, Paper
  <2> QED  BY <2>1, <2>2, <2>3, FreshPaperShows DEF DrawnInv
<1>2. SoftInv /\ DrawnInv /\ [Next]_vars => DrawnInv'
  BY StepsOfSender, DrawnKept
<1> QED  BY <1>1, <1>2, TextInvariant, PTL DEF Spec

(***************************************************************************)
(* The monitor's screen is the end of an endless sheet of paper that takes *)
(* the bytes as they come (tools/gpu.c's put_char and scroll_if_needed):   *)
(* for every size of the screen, every text and every division of it into  *)
(* the reads of the monitor's loop.                                        *)
(***************************************************************************)
THEOREM ScreenShowsPaperHolds == Spec => []ScreenShowsPaper
<1>1. DrawnInv => ScreenShowsPaper  BY DEF DrawnInv, Follows, ScreenShowsPaper
<1> QED  BY <1>1, DrawnInvariant, PTL

----------------------------------------------------------------------------
(* Types.                                                                  *)

LEMMA PollKept == PollInv /\ [Next]_vars => PollInv'
<1> SUFFICES ASSUME PollInv, [Next]_vars PROVE PollInv'  OBVIOUS
<1>1. RxStep  BY StepsOfReceiver
<1>2. CASE poll' = poll  BY <1>2 DEF PollInv
<1>3. ASSUME NEW read \in BOOLEAN, Receive(read) PROVE PollInv'
  <2>1. poll' = IF poll >= PollCycles THEN 0 ELSE poll + 1  BY <1>3 DEF Receive
  <2> QED  BY <2>1, ConsoleAssumption DEF PollInv
<1>4. OpenKeyboard \/ SendKey \/ UNCHANGED rxVars => poll' = poll
  BY DEF OpenKeyboard, SendKey, rxVars
<1>5. Receive(FALSE) \/ Receive(TRUE) \/ OpenKeyboard \/ SendKey \/ UNCHANGED rxVars
  <2>1. UNCHANGED <<rxVars, got, at, file, typed, early>> => UNCHANGED rxVars
    BY DEF rxVars
  <2> QED  BY <1>1, <2>1, Zenon DEF RxStep
<1> QED  BY <1>2, <1>3, <1>4, <1>5

MonitorInv == monitor \in {"starting", "fifo", "running"}

LEMMA MonitorKept == MonitorInv /\ [Next]_vars => MonitorInv'
<1> SUFFICES ASSUME MonitorInv, [Next]_vars PROVE MonitorInv'  OBVIOUS
<1>1. CASE monitor' = monitor  BY <1>1 DEF MonitorInv
<1>2. CASE OpenFifo \/ OpenKeyboard
  BY <1>2 DEF OpenFifo, OpenKeyboard, MonitorInv
<1>3. Idle \/ Software \/ Cpu(Call) \/ Reset => monitor' = monitor
  BY DEF Idle, Software, Cpu, AciaWrite, RxRead, Reset, Cycle, hostVars
<1>4. Draw \/ SendKey \/ UNCHANGED vars => monitor' = monitor
  BY DEF Draw, SendKey, vars, hostVars
<1> QED  BY <1>1, <1>2, <1>3, <1>4 DEF Next, Monitor

\* Everything stays in range: the transmit counter and the poll counter, the
\* pointer of puts_inline, the cursor and the cells of the screen.
THEOREM TypeOKHolds == Spec => []TypeOK
<1>1. Init => PollInv /\ MonitorInv
  BY ConsoleAssumption DEF Init, PollInv, MonitorInv
<1>2. PollInv /\ MonitorInv /\ [Next]_vars => PollInv' /\ MonitorInv'
  BY PollKept, MonitorKept
<1>3. PaceInv /\ WriteInv /\ KeysInv /\ SoftInv /\ DrawnInv /\ PollInv /\ MonitorInv => TypeOK
  <2> SUFFICES ASSUME PaceInv, WriteInv, KeysInv, SoftInv, DrawnInv, PollInv, MonitorInv
               PROVE  TypeOK
    OBVIOUS
  <2>1. txReady \in BOOLEAN /\ rxValid \in BOOLEAN /\ boot \in BOOLEAN
    BY DEF WriteInv, KeysInv, ReadInv, SoftInv, PlaceInv
  <2>2. txCount \in 0..(TxCycles - 1) /\ poll \in 0..PollCycles  BY DEF PaceInv, PollInv
  <2>3. rxData \in 0..MaxKeys /\ pos \in 0..MaxKeys
    <3>1. MaxKeys \in Nat /\ typed \in 0..MaxKeys /\ pos \in 0..typed /\ rxData \in 0..typed
      BY ConsoleAssumption DEF KeysInv, KeyTypes
    <3> QED  BY <3>1
  <2>4. at \in {"fetch", "acia_wait", "acia_write", "gpu_wait", "gpu_write", "done", "idle",
                "rx_wait", "rx_check", "rx_read", "lost"}
    BY <2>1, Zenon DEF SoftInv, PlaceInv, Carrying
  <2>5. /\ lo \in 0..(ByteSize - 1) /\ hi \in 0..(ByteSize - 1) /\ y \in 0..(ByteSize - 1)
    BY DEF SoftInv, SoftTypes, Digit
  <2>6. screen \in Screens  BY DEF DrawnInv, Follows
  <2>7. screen.row \in 0..(Rows - 1) /\ screen.col \in 0..(Cols - 1)  BY <2>6, ScreenFields
  <2>8. \A r \in 0..(Rows - 1) : screen.cell[r] \in [0..(Cols - 1) -> Printable \union {Blank}]
    BY <2>6, ScreenFields DEF Rowful
  <2>9. monitor \in {"starting", "fifo", "running"}  BY DEF MonitorInv
  <2> QED  BY <2>1, <2>2, <2>3, <2>4, <2>5, <2>7, <2>8, <2>9, Zenon DEF TypeOK
<1> QED  BY <1>1, <1>2, <1>3, PaceInvariant, KeysInvariant, DrawnInvariant, PTL DEF Spec
=============================================================================
