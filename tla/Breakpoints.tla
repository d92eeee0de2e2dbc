---------------------------- MODULE Breakpoints ----------------------------
(***************************************************************************)
(* The debugger's breakpoint list (debugger.c: dbgSetBp, dbgRmvBp): an     *)
(* array that doubles when it is full, whose entries own the memory of     *)
(* their symbol names, and from which every entry at an address is removed *)
(* by a scan that shifts the rest down.                                    *)
(***************************************************************************)
EXTENDS Naturals, Sequences, SequencesExt

CONSTANTS
  BpAddrs,   \* addresses breakpoints are set at
  Blocks,    \* blocks of memory calloc can return
  NoSymbol,  \* not one of them
  FirstSize, \* 10: the array's first size
  MaxBps     \* bound on the list's length

ASSUME BreakpointsAssumption ==
  /\ FirstSize \in Nat \ {0} /\ MaxBps \in Nat
  /\ NoSymbol \notin Blocks /\ BpAddrs \subseteq Nat

VARIABLES
  bpList, \* dbgBpList[0..dbgNofBps-1]
  bpSize, \* dbgBpListSize
  heap,   \* the blocks calloc has given and free has not taken back
  scan    \* dbgRmvBp's address and index, or NoScan

bpVars == <<bpList, bpSize, heap, scan>>

NoScan  == <<>>
Entries == [address : BpAddrs, symbol : Blocks \union {NoSymbol}]

BpInit == bpList = <<>> /\ bpSize = 0 /\ heap = {} /\ scan = NoScan

RoomNoGrowth == IF bpSize = 0 THEN FirstSize ELSE bpSize \* seeded fault
Room ==
  IF bpSize = 0 THEN FirstSize
  ELSE IF Len(bpList) >= bpSize THEN 2 * bpSize ELSE bpSize

Insert(addr, block) ==
  /\ Len(bpList) < MaxBps /\ addr \in BpAddrs
  /\ bpSize' = Room
  /\ bpList' = Append(bpList, [address |-> addr, symbol |-> block])
  /\ scan' = scan

\* A breakpoint with a name gets a block of its own for it from calloc.
SetBp(addr) == Insert(addr, NoSymbol) /\ heap' = heap
SetNamedBp(addr) ==
  \E b \in Blocks \ heap : Insert(addr, b) /\ heap' = heap \union {b}

\* realloc fails: the breakpoint is not set and the old array stays in use.
SetBpFails == bpSize > 0 /\ Len(bpList) >= bpSize /\ UNCHANGED bpVars

RmvBp(addr) ==
  /\ scan' = [address |-> addr, i |-> 1]
  /\ UNCHANGED <<bpList, bpSize, heap>>

Scanning == scan # NoScan
AtMatch  == scan.i <= Len(bpList) /\ bpList[scan.i].address = scan.address

\* One turn of the loop: skip an entry, or free its name and close the gap.
RmvBpSkip ==
  /\ Scanning /\ scan.i <= Len(bpList) /\ ~ AtMatch
  /\ scan' = [scan EXCEPT !.i = @ + 1]
  /\ UNCHANGED <<bpList, bpSize, heap>>

RmvBpTakesAndSkips == \* seeded fault: the entry that moves down is not looked at
  /\ Scanning /\ AtMatch
  /\ bpList' = RemoveAt(bpList, scan.i)
  /\ heap' = heap \ {bpList[scan.i].symbol}
  /\ scan' = [scan EXCEPT !.i = @ + 1]
  /\ bpSize' = bpSize
RmvBpTake ==
  /\ Scanning /\ AtMatch
  /\ bpList' = RemoveAt(bpList, scan.i)
  /\ heap' = heap \ {bpList[scan.i].symbol}
  /\ UNCHANGED <<bpSize, scan>>

RmvBpDone ==
  /\ Scanning /\ scan.i > Len(bpList)
  /\ scan' = NoScan
  /\ UNCHANGED <<bpList, bpSize, heap>>

RmvBpStep == RmvBpSkip \/ RmvBpTake \/ RmvBpDone

BpAddresses == {bpList[i].address : i \in DOMAIN bpList}

----------------------------------------------------------------------------

BpTypeOK ==
  /\ bpList \in Seq(Entries) /\ Len(bpList) <= MaxBps
  /\ bpSize \in Nat /\ heap \subseteq Blocks
  /\ scan = NoScan \/ scan \in [address : Nat, i : 1..(MaxBps + 1)]

\* Memory safety over any order of setting, growing and removing: the list
\* fits its array, every name an entry points to is allocated, no two entries
\* share one (dbgRmvBp frees it), and no name that is left behind leaks.
BpListSound ==
  /\ Len(bpList) <= bpSize
  /\ heap = {bpList[i].symbol : i \in DOMAIN bpList} \ {NoSymbol}
  /\ \A i, j \in DOMAIN bpList :
       bpList[i].symbol = bpList[j].symbol /\ bpList[i].symbol # NoSymbol => i = j

\* `rb` leaves no breakpoint at the address, also when several stood next to
\* each other ("Remove every breakpoint at bp").
RemovalIsComplete ==
  [][Scanning /\ scan' = NoScan => scan.address \notin BpAddresses]_bpVars
=============================================================================
