----------------------------- MODULE MemoryView -----------------------------
(***************************************************************************)
(* The debugger's view of memory: where simReadMem (bbdbg_vpi.c) takes a   *)
(* byte from, against the test bench's read mux (tb.v), and the rows into  *)
(* which `m` (debugger.c) cuts a range. A byte is named by the place it    *)
(* lies in; addresses are 16 bits wide.                                    *)
(***************************************************************************)
EXTENDS AddressSpace, Sequences

Addr16  == 0..(2 * RamBytes - 1)  \* 16 bits
RomBase == 33024      \* $8100
RomWords == 32512
Io      == <<"io">>   \* the window $8000-$80FF

\* tb.v: RAM through the MMU, ROM, and devices between them.
CpuReads(kernel, ppn, a) ==
  IF a < RamBytes THEN <<"ram", RamAddr(kernel, ppn, a)>>
  ELSE IF a >= RomBase THEN <<"rom", a - RomBase>> ELSE Io

\* simReadMem; the I/O window is not read, for a read can change a device.
SimReadMem(kernel, ppn, a) ==
  IF a < RamBytes
    THEN <<"ram", (IF kernel THEN a
                   ELSE ppn[(a \div PageSize) % 32] * PageSize + (a % PageSize)) % RamBytes>>
  ELSE IF a >= RomBase THEN <<"rom", a - RomBase>> ELSE Io

\* One row of dbgShowMem: up to 16 addresses, cut at the end of the range and
\* where 16 bits wrap.
RowAddrs(first, last) ==
  LET cur(n) == (first + n) % 65536
      past   == {n \in 0..15 : cur(n) < first \/ cur(n) > last}
      len    == IF past = {} THEN 16 ELSE CHOOSE n \in past : \A k \in past : n <= k
  IN  [n \in 1..len |-> cur(n - 1)]

LastRowTooEarly(first, last) == last < 16 \/ first >= last - 16 \* seeded fault
LastRow(first, last) == last < 16 \/ first > last - 16

\* The rows; at most two more than the range has sixteens.
ShowMem(start, last) ==
  LET rows[first \in {start + 16 * k : k \in 0..((last - start) \div 16 + 1)}] ==
        IF LastRow(first, last) THEN <<RowAddrs(first, last)>>
        ELSE <<RowAddrs(first, last)>> \o rows[(first + 16) % 65536]
  IN  rows[start]

\* dbgPrintMemRange: the two addresses come from the command line, cut to 16
\* bits, and what is missing there from questions (dbgReadHexU16), which refuse
\* more than 16 bits. Text that is no number ends the command as well.
PrintMemRange(given, answers) ==
  LET range == [i \in DOMAIN given |-> given[i] % 65536] \o answers
  IN  IF (\E i \in DOMAIN answers : answers[i] > 65535) \/ range[2] < range[1]
        THEN <<>> ELSE ShowMem(range[1], range[2])
=============================================================================
