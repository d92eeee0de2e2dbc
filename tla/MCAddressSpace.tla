--------------------------- MODULE MCAddressSpace ---------------------------
(***************************************************************************)
(* Walks a probe over load blocks and addresses and compares the software  *)
(* translations with the MMU's at every stop. All eight blocks and all 32  *)
(* pages are visited; the offsets are the ones where a byte, a 256-byte or *)
(* a page boundary can go wrong.                                           *)
(***************************************************************************)
EXTENDS MemoryView, SequencesExt

CONSTANTS Offsets,       \* offsets in a page to probe
          StackPointers, \* values of SP to probe
          DumpLengths    \* lengths of memory dumps to probe

ASSUME ProbeAssumption ==
  /\ Offsets \subseteq 0..(PageSize - 1) /\ StackPointers \subseteq Byte
  /\ DumpLengths \subseteq Nat \ {0}

VARIABLES base,  \* the block a program is loaded at
          page,  \* the probed virtual page
          off    \* the probed offset in it

vars == <<base, page, off>>

Init == base = 1 /\ page = 0 /\ off = 0

NextBlock  == base' = (base + 1) % 8 /\ UNCHANGED <<page, off>>
NextPage   == page' = (page + 1) % 32 /\ UNCHANGED <<base, off>>
NextOffset == off' \in Offsets /\ UNCHANGED <<base, page>>

Next == NextBlock \/ NextPage \/ NextOffset
Spec == Init /\ [][Next]_vars

table == SpawnPpn(base)
probe == page * PageSize + off

\* spawn_bbx's table is the identity rotated by the block: every physical
\* page is mapped exactly once, and neighbours stay neighbours.
SpawnIsRotation ==
  /\ table[page] = (4 * base + page) % 32
  /\ {table[v] : v \in VPages} = PPages

\* u_ptr and u_zp give the byte the MMU would give the caller: a pointer is
\* translated by its own page, "not blindly through PPN0".
KernelFindsArguments ==
  /\ UPtr(table, probe) = UserAddr(table, probe)
  /\ off < 256 => UZp(table, off) = UserAddr(table, off)

\* _brk_handler finds the number byte at probe from the return address probe + 1,
\* also when the two lie in different 256-byte or 1 KB pages.
KernelFindsNumber ==
  NumberPtr(table, (probe + 1) % 256, ((probe + 1) \div 256) % 256) = UserAddr(table, probe)

\* _brk_handler finds a byte BRK pushed exactly if it has not wrapped: the CPU's
\* pushes wrap inside the stack page, (zp),y goes on into the next one.
KernelFindsFrame ==
  \A sp \in StackPointers, k \in 1..3 :
    (FramePtr(table, sp) + k = UserAddr(table, 256 + ((sp + k) % 256))) <=> sp + k <= 255

\* The loader's copy of a sector ends up where the program, linked at $1000,
\* will look for it; sectors 0..55 fill the address space above it.
SectorsLandWhereLinked ==
  \A b \in 0..55 : SectorVA(b) \div PageSize = page =>
    SectorPA(table, b) + (off % 512) = UserAddr(table, 4096 + b * 512 + (off % 512))

\* A 512-byte transfer stays in the caller's buffer except over the end of
\* physical RAM, although only its start is translated.
TransferStaysInBuffer ==
  \A i \in 0..511 : probe + i \in RamVA =>
    (TransferReaches(table, probe, i) <=> UPtr(table, probe) + i \in RamVA)

\* A dump shows every address of its range once and in order, also at the ends
\* of the 16-bit address space, and beside each the byte the CPU would read
\* there under the MMU's present state, wherever the command takes the range
\* from; a range that is reversed or past 16 bits is refused at the question.
DumpShowsMemory ==
  \A start \in {probe, probe + RamBytes}, n \in DumpLengths :
    start + n <= 65536 =>
      LET last  == start + n - 1
          shown == FlattenSeq(ShowMem(start, last))
      IN  /\ shown = [i \in 1..n |-> start + i - 1]
          /\ \A kernel \in BOOLEAN, i \in 1..n :
               SimReadMem(kernel, table, shown[i]) = CpuReads(kernel, table, shown[i])
          /\ \A k \in 0..2 :
               PrintMemRange(SubSeq(<<start, last>>, 1, k), SubSeq(<<start, last>>, k + 1, 2))
                 = ShowMem(start, last)
          /\ PrintMemRange(<<start>>, <<last + 65536>>) = <<>>
          /\ last < 65535 => PrintMemRange(<<last + 65537>>, <<start>>) = <<>>

\* What syscalls.c says of such a transfer: a buffer that crosses a 1 KB
\* virtual page boundary is not physically contiguous.
CrossingIsNotContiguous ==
  (off > 512 /\ page < 31) => ~ TransferReaches(table, probe, 511)
=============================================================================
