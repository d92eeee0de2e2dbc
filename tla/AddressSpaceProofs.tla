------------------------- MODULE AddressSpaceProofs -------------------------
(***************************************************************************)
(* What the software translations of AddressSpace compute, for every page  *)
(* table and every address; and from that, the invariants of the probe     *)
(* MCAddressSpace, wherever it stops.                                      *)
(***************************************************************************)
EXTENDS MCAddressSpace, Induction, SequenceTheorems, TLAPS

\* Division by the constants that occur below.
LEMMA Div8 ==
  ASSUME NEW n \in Nat
  PROVE  n = 8 * (n \div 8) + (n % 8) /\ n % 8 \in 0..7 /\ n \div 8 \in Nat
  OBVIOUS

LEMMA Mod32 ==
  ASSUME NEW q \in Nat, NEW r \in 0..31
  PROVE  (32 * q + r) % 32 = r
  OBVIOUS

\* A 16-bit address is a number below 2^16.
LEMMA Addr16Is ==
  ASSUME NEW a \in Addr16
  PROVE  a \in Nat /\ a <= 65535
<1>1. PICK m \in Nat : m = 2 * RamBytes
  BY DEF RamBytes
<1>2. a \in 0..(m - 1)
  BY <1>1 DEF Addr16
<1>3. a \in Nat /\ a <= m - 1
  BY <1>1, <1>2
<1>4. m - 1 = 65535
  BY <1>1 DEF RamBytes
<1> QED  BY <1>3, <1>4

LEMMA InRamVA ==
  ASSUME NEW a \in Nat
  PROVE  a \in RamVA <=> a <= 32767
<1>1. PICK m \in Nat : m = RamBytes
  BY DEF RamBytes
<1>2. a \in 0..(m - 1) <=> a <= m - 1
  OBVIOUS
<1>3. a \in RamVA <=> a <= m - 1
  BY <1>1, <1>2 DEF RamVA
<1>4. m - 1 = 32767
  BY <1>1 DEF RamBytes
<1> QED  BY <1>3, <1>4

\* The page a RAM address lies in, and its place there.
InAPage(a) ==
  \E v \in Nat, r \in Nat : v <= 31 /\ r <= 1023 /\ a = 1024 * v + r

LEMMA PageAndOffset ==
  ASSUME NEW a \in RamVA
  PROVE  InAPage(a)
<1>1. PICK n \in Nat : n = a
  BY DEF RamVA
<1>2. n <= 32767
  BY <1>1, InRamVA
<1>3. n = 1024 * (n \div 1024) + (n % 1024)
      /\ n \div 1024 \in Nat /\ n % 1024 \in Nat /\ n \div 1024 <= 31 /\ n % 1024 <= 1023
  BY <1>2
<1> QED  BY <1>1, <1>3 DEF InAPage

(***************************************************************************)
(* spawn_bbx's table is the identity rotated by four pages per base block: *)
(* this is why neighbouring virtual pages stay neighbours in RAM.          *)
(***************************************************************************)
THEOREM SpawnPpnRotates ==
  ASSUME NEW blk \in Nat, NEW i \in VPages
  PROVE  SpawnPpn(blk)[i] = (4 * blk + i) % 32
<1>1. PICK h \in 0..7, l \in 0..3 : i = 4 * h + l /\ i \div 4 = h /\ i % 4 = l
  <2>1. i \div 4 \in 0..7 /\ i % 4 \in 0..3 /\ i = 4 * (i \div 4) + (i % 4)
    BY DEF VPages
  <2> QED  BY <2>1
<1>2. blk + h \in Nat
  OBVIOUS
<1>3. PICK q \in Nat, r \in 0..7 : blk + h = 8 * q + r /\ (blk + h) % 8 = r
  BY <1>2, Div8
<1>4. SpawnPpn(blk)[i] = r * 4 + l
  BY <1>1, <1>3 DEF SpawnPpn
<1>5. 4 * blk + i = 32 * q + (r * 4 + l) /\ r * 4 + l \in 0..31
  BY <1>1, <1>3
<1>6. (32 * q + (r * 4 + l)) % 32 = r * 4 + l
  BY <1>5, Mod32
<1> QED  BY <1>4, <1>5, <1>6

\* The table is a page table, and no two virtual pages share a page.
THEOREM SpawnPpnIsPermutation ==
  ASSUME NEW blk \in Nat
  PROVE  /\ SpawnPpn(blk) \in PageTables
         /\ \A i, j \in VPages : SpawnPpn(blk)[i] = SpawnPpn(blk)[j] => i = j
<1>1. ASSUME NEW i \in VPages
      PROVE  SpawnPpn(blk)[i] \in PPages
  <2>1. (blk + (i \div 4)) % 8 \in 0..7 /\ i % 4 \in 0..3
    BY DEF VPages
  <2>2. SpawnPpn(blk)[i] = ((blk + (i \div 4)) % 8) * 4 + (i % 4)
    BY DEF SpawnPpn
  <2> QED  BY <2>1, <2>2 DEF PPages
<1>2. SpawnPpn(blk) \in PageTables
  BY <1>1 DEF SpawnPpn, PageTables
<1>3. ASSUME NEW i \in VPages, NEW j \in VPages,
             (4 * blk + i) % 32 = (4 * blk + j) % 32
      PROVE  i = j
  BY <1>3 DEF VPages
<1> QED  BY <1>2, <1>3, SpawnPpnRotates

(***************************************************************************)
(* Processes loaded at different blocks have different stack pages, and    *)
(* only a program loaded at block 0 would share the kernel's.              *)
(***************************************************************************)
THEOREM StackPagesDistinct ==
  ASSUME NEW b1 \in Nat, NEW b2 \in Nat
  PROVE  /\ SpawnPpn(b1)[0] = SpawnPpn(b2)[0] => b1 % 8 = b2 % 8
         /\ SpawnPpn(b1)[0] = 0 => b1 % 8 = 0
<1>1. SpawnPpn(b1)[0] = (b1 % 8) * 4 /\ SpawnPpn(b2)[0] = (b2 % 8) * 4
  BY DEF SpawnPpn, VPages
<1> QED  BY <1>1

(***************************************************************************)
(* u_ptr finds the byte the caller means by a RAM address, and u_zp the    *)
(* caller's zero-page slot (syscalls.c against mmu6502.v).                 *)
(***************************************************************************)
THEOREM UPtrTranslates ==
  ASSUME NEW ppn \in PageTables, NEW va \in RamVA, NEW slot \in Byte
  PROVE  /\ UPtr(ppn, va) = UserAddr(ppn, va)
         /\ UZp(ppn, slot) = UserAddr(ppn, slot)
<1>1. UPtr(ppn, va) = UserAddr(ppn, va)
  BY DEF UPtr, UserAddr, Vpn, Offset
<1>2. slot \div 1024 = 0 /\ slot % 1024 = slot
  BY DEF Byte
<1>3. UZp(ppn, slot) = UserAddr(ppn, slot)
  BY <1>2 DEF UZp, UserAddr, Vpn, Offset, PageSize
<1> QED  BY <1>1, <1>3

\* The number byte in page v, in the j-th 256 bytes of it, and a return address
\* behind it.
ByteAt(v, j, lo) == 1024 * v + (256 * j + lo)
ReturnsBehind(pcl, pch, at) == 256 * pch + pcl = at + 1

LEMMA NumberPtrAt ==
  ASSUME NEW ppn \in PageTables, NEW v \in 0..31, NEW j \in 0..3, NEW lo \in 0..255,
         NEW pcl \in Byte, NEW pch \in Byte, ReturnsBehind(pcl, pch, ByteAt(v, j, lo))
  PROVE  NumberPtr(ppn, pcl, pch) = UserAddr(ppn, ByteAt(v, j, lo))
<1>a. 256 * pch + pcl = 1024 * v + 256 * j + lo + 1
  BY DEF ReturnsBehind, ByteAt
<1>1. PICK p \in 0..31 : ppn[v] = p
  BY DEF PageTables, PPages, VPages
<1>2. (p * 4) % 256 = p * 4
  OBVIOUS
<1>3. UserAddr(ppn, 1024 * v + (256 * j + lo)) = p * 1024 + (256 * j + lo)
  <2>1. (1024 * v + (256 * j + lo)) \div 1024 = v
    OBVIOUS
  <2>2. (1024 * v + (256 * j + lo)) % 1024 = 256 * j + lo
    OBVIOUS
  <2>3. v % 32 = v
    OBVIOUS
  <2> QED  BY <1>1, <2>1, <2>2, <2>3 DEF UserAddr, Vpn, Offset, PageSize
<1> DEFINE hi == 4 * v + j
<1>4. hi \in 0..127 /\ hi % 4 = j /\ (hi \div 4) % 32 = v /\ hi % 256 = hi
  <2>1. hi \div 4 = v
    OBVIOUS
  <2> QED  BY <2>1
<1> HIDE DEF hi
<1>5. (pcl + 255) % 256 = lo /\ (pch + (IF pcl = 0 THEN 255 ELSE 256)) % 256 = hi
  <2>1. CASE pcl = 0
    <3>1. lo = 255 /\ pch + 255 = 256 + hi
      BY <1>a, <2>1 DEF Byte, hi
    <3>2. (256 + hi) % 256 = hi
      BY <1>4
    <3> QED  BY <2>1, <3>1, <3>2
  <2>2. CASE pcl # 0
    <3>1. pcl + 255 = 256 + lo /\ pch + 256 = 256 + hi
      BY <1>a, <2>2 DEF Byte, hi
    <3>2. (256 + lo) % 256 = lo /\ (256 + hi) % 256 = hi
      BY <1>4
    <3> QED  BY <2>2, <3>1, <3>2
  <2> QED  BY <2>1, <2>2
<1>6. NumberPtr(ppn, pcl, pch) = (p * 4 + j) * 256 + lo
  <2>1. NumberPtr(ppn, pcl, pch)
          = (((ppn[(hi \div 4) % 32] * 4) % 256) + (hi % 4)) * 256 + lo
    BY <1>5 DEF NumberPtr
  <2>2. (hi \div 4) % 32 = v /\ hi % 4 = j
    BY <1>4
  <2>3. NumberPtr(ppn, pcl, pch) = (((p * 4) % 256) + j) * 256 + lo
    BY <1>1, <2>1, <2>2
  <2> QED  BY <1>2, <2>3
<1>7. (p * 4 + j) * 256 + lo = p * 1024 + (256 * j + lo)
  OBVIOUS
<1> QED  BY <1>3, <1>6, <1>7 DEF ByteAt

(***************************************************************************)
(* _brk_handler reads the number byte of the BRK that trapped, wherever it *)
(* is: across the borrow of PC - 1, and when the return address is already *)
(* in the next 256 bytes or the next page.                                 *)
(***************************************************************************)
THEOREM NumberPtrTranslates ==
  ASSUME NEW ppn \in PageTables, NEW at \in RamVA, NEW pcl \in Byte, NEW pch \in Byte,
         256 * pch + pcl = at + 1
  PROVE  NumberPtr(ppn, pcl, pch) = UserAddr(ppn, at)
<1>1. PICK v \in Nat, r \in Nat : v <= 31 /\ r <= 1023 /\ at = 1024 * v + r
  <2>1. InAPage(at)
    BY PageAndOffset
  <2> QED  BY <2>1 DEF InAPage
<1>2. PICK j \in 0..3, lo \in 0..255 : r = 256 * j + lo
  <2>1. r \div 256 \in 0..3 /\ r % 256 \in 0..255 /\ r = 256 * (r \div 256) + (r % 256)
    BY <1>1
  <2> QED  BY <2>1
<1>3. v \in 0..31 /\ at = 1024 * v + (256 * j + lo)
  BY <1>1, <1>2
<1>4. NumberPtr(ppn, pcl, pch) = UserAddr(ppn, 1024 * v + (256 * j + lo))
  <2>1. ReturnsBehind(pcl, pch, ByteAt(v, j, lo)) /\ v \in 0..31
    BY <1>3 DEF ReturnsBehind, ByteAt
  <2>2. NumberPtr(ppn, pcl, pch) = UserAddr(ppn, ByteAt(v, j, lo))
    BY <2>1, NumberPtrAt
  <2> QED  BY <2>2 DEF ByteAt
<1> QED  BY <1>3, <1>4

(***************************************************************************)
(* _brk_handler finds a byte of the frame BRK pushed exactly if it has not *)
(* wrapped: one that wrapped to the start of the stack page is looked for  *)
(* behind it.                                                              *)
(***************************************************************************)
THEOREM FramePtrTranslates ==
  ASSUME NEW ppn \in PageTables, NEW sp \in Byte, NEW k \in 1..3
  PROVE  (FramePtr(ppn, sp) + k = UserAddr(ppn, 256 + ((sp + k) % 256))) <=> sp + k <= 255
<1>1. CASE sp + k <= 255
  <2>1. (sp + k) % 256 = sp + k  BY <1>1 DEF Byte
  <2>2. (256 + (sp + k)) \div 1024 = 0 /\ (256 + (sp + k)) % 1024 = 256 + (sp + k)
    BY <1>1 DEF Byte
  <2>3. ppn[0] \in 0..31  BY DEF PageTables, PPages, VPages
  <2>4. UserAddr(ppn, 256 + ((sp + k) % 256)) = ppn[0] * 1024 + (256 + (sp + k))
    BY <2>1, <2>2, <2>3 DEF UserAddr, Vpn, Offset, PageSize
  <2>5. FramePtr(ppn, sp) + k = ppn[0] * 1024 + (256 + (sp + k))
    BY <2>3 DEF FramePtr, Byte
  <2> QED  BY <1>1, <2>4, <2>5
<1>2. CASE sp + k > 255
  <2>1. PICK n \in 0..2 : sp + k = 256 + n  BY <1>2 DEF Byte
  <2>2. (sp + k) % 256 = n  BY <2>1
  <2>3. (256 + n) \div 1024 = 0 /\ (256 + n) % 1024 = 256 + n  OBVIOUS
  <2>4. ppn[0] \in 0..31  BY DEF PageTables, PPages, VPages
  <2>5. UserAddr(ppn, 256 + ((sp + k) % 256)) = ppn[0] * 1024 + 256 + n
    BY <2>2, <2>3, <2>4 DEF UserAddr, Vpn, Offset, PageSize
  <2>6. FramePtr(ppn, sp) + k = ppn[0] * 1024 + 512 + n
    BY <2>1, <2>4 DEF FramePtr, Byte
  <2> QED  BY <1>2, <2>1, <2>4, <2>5, <2>6 DEF Byte
<1> QED  BY <1>1, <1>2 DEF Byte

(***************************************************************************)
(* A block transfer, of which only the start is translated, ends in the    *)
(* caller's buffer under a table spawn_bbx built, whichever page boundaries*)
(* it crosses, exactly if it does not run over the end of physical RAM.    *)
(***************************************************************************)
THEOREM TransferReachesBuffer ==
  ASSUME NEW blk \in Nat, NEW va \in RamVA, NEW i \in 0..511, va + i \in RamVA
  PROVE  TransferReaches(SpawnPpn(blk), va, i) <=> UPtr(SpawnPpn(blk), va) + i \in RamVA
<1> DEFINE ppn == SpawnPpn(blk)
<1>0. PICK v \in Nat, r \in Nat : v <= 31 /\ r <= 1023 /\ va = 1024 * v + r
  <2>1. InAPage(va)
    BY PageAndOffset
  <2> QED  BY <2>1 DEF InAPage
<1>1. PICK p \in 0..31 : ppn[v] = p /\ p = (4 * blk + v) % 32
  <2>1. (4 * blk + v) % 32 \in 0..31 /\ v \in VPages
    BY <1>0 DEF VPages
  <2> QED  BY <2>1, SpawnPpnRotates
<1>2. UPtr(ppn, va) = p * 1024 + r
  <2>1. va \div 1024 = v /\ va % 1024 = r
    BY <1>0
  <2>2. v % 32 = v
    BY <1>0
  <2> QED  BY <1>1, <2>1, <2>2 DEF UPtr, PageSize
<1>3. va + i \in Nat /\ 1024 * v + (r + i) <= 32767
  <2>1. va + i \in Nat
    BY DEF RamVA
  <2>2. va + i <= 32767
    BY <2>1, InRamVA
  <2> QED  BY <1>0, <2>1, <2>2
<1>4. UPtr(ppn, va) + i \in RamVA <=> p * 1024 + (r + i) <= 32767
  <2>1. UPtr(ppn, va) + i = p * 1024 + (r + i) /\ p * 1024 + (r + i) \in Nat
    BY <1>2
  <2> QED  BY <2>1, InRamVA
<1>5. CASE r + i < 1024
  <2>1. va + i = 1024 * v + (r + i) /\ r + i \in 0..1023
    BY <1>0, <1>5
  <2>2. Vpn(va + i) = v /\ Offset(va + i) = r + i
    <3>1. (va + i) \div 1024 = v /\ (va + i) % 1024 = r + i
      BY <2>1
    <3>2. v % 32 = v
      BY <1>0
    <3> QED  BY <3>1, <3>2 DEF Vpn, Offset, PageSize
  <2>3. UserAddr(ppn, va + i) = p * 1024 + (r + i)
    BY <1>1, <2>2 DEF UserAddr, PageSize
  <2>4. (p * 1024 + r) + i = p * 1024 + (r + i) /\ p * 1024 + (r + i) <= 32767
    BY <2>1
  <2> QED  BY <1>2, <1>4, <2>3, <2>4 DEF TransferReaches
<1>6. CASE r + i >= 1024
  <2>1. va + i = 1024 * (v + 1) + (r + i - 1024) /\ r + i - 1024 \in 0..1023 /\ v + 1 \in 0..31
    BY <1>0, <1>3, <1>6
  <2>2. Vpn(va + i) = v + 1 /\ Offset(va + i) = r + i - 1024
    <3>1. (va + i) \div 1024 = v + 1 /\ (va + i) % 1024 = r + i - 1024
      BY <2>1
    <3>2. (v + 1) % 32 = v + 1
      BY <2>1
    <3> QED  BY <3>1, <3>2 DEF Vpn, Offset, PageSize
  <2>3. PICK q \in 0..31 : ppn[v + 1] = q /\ (p # 31 => q = p + 1) /\ (p = 31 => q = 0)
    <3>1. v + 1 \in VPages
      BY <2>1 DEF VPages
    <3>2. ppn[v + 1] = (4 * blk + (v + 1)) % 32
      BY <3>1, SpawnPpnRotates
    <3>3. (p # 31 => (4 * blk + (v + 1)) % 32 = p + 1) /\ (p = 31 => (4 * blk + (v + 1)) % 32 = 0)
      BY <1>1
    <3> QED  BY <3>2, <3>3
  <2>4. UserAddr(ppn, va + i) = q * 1024 + (r + i - 1024)
    BY <2>2, <2>3 DEF UserAddr, PageSize
  <2>5. (p * 1024 + r) + i = q * 1024 + (r + i - 1024) <=> p * 1024 + (r + i) <= 32767
    <3>1. CASE p = 31
      BY <1>6, <2>3, <3>1
    <3>2. CASE p # 31
      BY <2>1, <2>3, <3>2
    <3> QED  BY <3>1, <3>2
  <2> QED  BY <1>2, <1>4, <2>4, <2>5 DEF TransferReaches
<1> QED  BY <1>5, <1>6

(***************************************************************************)
(* simReadMem finds what the CPU would read, in either mode and under any  *)
(* page table: its mask never changes a translated address.                *)
(***************************************************************************)
THEOREM SimReadMemIsCpuRead ==
  ASSUME NEW kernel \in BOOLEAN, NEW ppn \in PageTables, NEW a \in Addr16
  PROVE  SimReadMem(kernel, ppn, a) = CpuReads(kernel, ppn, a)
<1>0. a \in Nat /\ a <= 65535
  BY Addr16Is
<1>1. CASE ~ (a < RamBytes)
  BY <1>1 DEF SimReadMem, CpuReads
<1>2. CASE a < RamBytes
  <2>1. (a \div 1024) % 32 = a \div 1024 /\ a = (a \div 1024) * 1024 + (a % 1024)
        /\ a \div 1024 \in 0..31 /\ a % 1024 \in 0..1023
    <3>1. a \in Nat /\ a <= 32767
      BY <1>0, <1>2 DEF RamBytes
    <3>2. a \div 1024 \in 0..31
      BY <3>1
    <3>3. a = (a \div 1024) * 1024 + (a % 1024) /\ a % 1024 \in 0..1023
      BY <3>1
    <3>4. (a \div 1024) % 32 = a \div 1024
      BY <3>2
    <3> QED  BY <3>2, <3>3, <3>4
  <2>2. PICK p \in 0..31 : ppn[(a \div 1024) % 32] = p
    BY <2>1 DEF PageTables, VPages, PPages
  <2>3. (p * 1024 + (a % 1024)) % 32768 = p * 1024 + (a % 1024) /\ a % 32768 = a
    <3>1. \A n \in Nat : n <= 32767 => n % 32768 = n
      OBVIOUS
    <3>2. p * 1024 + (a % 1024) \in Nat /\ p * 1024 + (a % 1024) <= 32767
      BY <2>1
    <3>3. a \in Nat /\ a <= 32767
      BY <1>0, <1>2 DEF RamBytes
    <3> QED  BY <3>1, <3>2, <3>3
  <2>4. KernelAddr(a) = a /\ UserAddr(ppn, a) = p * 1024 + (a % 1024)
    BY <2>1, <2>2 DEF KernelAddr, UserAddr, Vpn, Offset, PageSize
  <2> QED  BY <1>2, <2>2, <2>3, <2>4 DEF SimReadMem, CpuReads, RamAddr, PageSize, RamBytes
<1> QED  BY <1>1, <1>2

----------------------------------------------------------------------------
(* The probe.                                                              *)

Probing == base \in 0..7 /\ page \in 0..31 /\ off \in 0..1023

LEMMA ProbingHolds == Spec => []Probing
<1>1. Init => Probing
  BY DEF Init, Probing
<1>2. Probing /\ [Next]_vars => Probing'
  <2> SUFFICES ASSUME Probing, [Next]_vars PROVE Probing'
    OBVIOUS
  <2>1. CASE NextBlock
    BY <2>1 DEF Probing, NextBlock
  <2>2. CASE NextPage
    BY <2>2 DEF Probing, NextPage
  <2>3. CASE NextOffset
    BY <2>3, ProbeAssumption DEF Probing, NextOffset, PageSize
  <2>4. CASE UNCHANGED vars
    BY <2>4 DEF Probing, vars
  <2> QED  BY <2>1, <2>2, <2>3, <2>4 DEF Next
<1> QED  BY <1>1, <1>2, PTL DEF Spec

\* Where the probe is, and what the process's table holds there.
LEMMA AtProbe ==
  ASSUME Probing
  PROVE  /\ probe = 1024 * page + off /\ probe \in RamVA
         /\ probe \div 1024 = page /\ probe % 1024 = off
         /\ table \in PageTables
         /\ table[page] = (4 * base + page) % 32
<1>1. probe = 1024 * page + off
  BY DEF Probing, probe, PageSize
<1>2. (1024 * page + off) \div 1024 = page /\ (1024 * page + off) % 1024 = off
  BY DEF Probing
<1>3. 1024 * page + off \in Nat /\ 1024 * page + off <= 32767
  BY DEF Probing
<1>4. probe \in RamVA
  BY <1>1, <1>3, InRamVA
<1>5. base \in Nat /\ page \in VPages
  BY DEF Probing, VPages
<1>6. table \in PageTables /\ table[page] = (4 * base + page) % 32
  BY <1>5, SpawnPpnIsPermutation, SpawnPpnRotates DEF table
<1> QED  BY <1>1, <1>2, <1>4, <1>6

\* SpawnIsRotation: every process's table is the identity rotated.
THEOREM SpawnIsRotationHolds == Spec => []SpawnIsRotation
<1>1. ASSUME Probing PROVE SpawnIsRotation
  <2>1. base \in Nat
    BY <1>1 DEF Probing
  <2>2. \A v \in VPages : table[v] = (4 * base + v) % 32
    BY <2>1, SpawnPpnRotates DEF table
  <2>3. ASSUME NEW v \in VPages PROVE table[v] \in PPages
    BY <1>1, AtProbe DEF PageTables
  <2>4. ASSUME NEW p \in PPages PROVE \E v \in VPages : table[v] = p
    <3>1. CASE p >= 4 * base
      <4>1. p - 4 * base \in VPages /\ (4 * base + (p - 4 * base)) % 32 = p
        BY <1>1, <3>1 DEF Probing, PPages, VPages
      <4> QED  BY <2>2, <4>1
    <3>2. CASE ~ (p >= 4 * base)
      <4>1. 32 + p - 4 * base \in VPages /\ (4 * base + (32 + p - 4 * base)) % 32 = p
        BY <1>1, <3>2 DEF Probing, PPages, VPages
      <4> QED  BY <2>2, <4>1
    <3> QED  BY <3>1, <3>2
  <2>5. {table[v] : v \in VPages} = PPages
    BY <2>3, <2>4
  <2> QED  BY <1>1, <2>5, AtProbe DEF SpawnIsRotation
<1>2. Probing => SpawnIsRotation
  BY <1>1
<1> QED  BY <1>2, ProbingHolds, PTL

\* KernelFindsArguments: u_ptr and u_zp agree with the MMU.
THEOREM KernelFindsArgumentsHolds == Spec => []KernelFindsArguments
<1>1. ASSUME Probing PROVE KernelFindsArguments
  <2>1. table \in PageTables /\ probe \in RamVA
    BY <1>1, AtProbe
  <2>2. 0 \in Byte
    BY DEF Byte
  <2>3. UPtr(table, probe) = UserAddr(table, probe)
    BY <2>1, <2>2, UPtrTranslates
  <2>4. ASSUME off < 256 PROVE UZp(table, off) = UserAddr(table, off)
    <3>1. off \in Byte
      BY <1>1, <2>4 DEF Probing, Byte
    <3> QED  BY <2>1, <3>1, UPtrTranslates
  <2> QED  BY <2>3, <2>4 DEF KernelFindsArguments
<1>2. Probing => KernelFindsArguments
  BY <1>1
<1> QED  BY <1>2, ProbingHolds, PTL

\* KernelFindsNumber: the number byte, from the return address one past it.
THEOREM KernelFindsNumberHolds == Spec => []KernelFindsNumber
<1>1. ASSUME Probing PROVE KernelFindsNumber
  <2> DEFINE pcl == (probe + 1) % 256
             pch == ((probe + 1) \div 256) % 256
  <2>1. PICK n \in Nat : n = probe + 1 /\ n <= 32768
    <3>1. 1024 * page + off + 1 \in Nat /\ 1024 * page + off + 1 <= 32768
      BY <1>1 DEF Probing
    <3> QED  BY <1>1, <3>1, AtProbe
  <2>2. n = 256 * (n \div 256) + (n % 256) /\ n % 256 \in 0..255 /\ n \div 256 \in 0..128
    BY <2>1
  <2>3. (n \div 256) % 256 = n \div 256
    BY <2>2
  <2>4. pcl \in Byte /\ pch \in Byte /\ 256 * pch + pcl = probe + 1
    BY <2>1, <2>2, <2>3 DEF Byte
  <2>5. table \in PageTables /\ probe \in RamVA
    BY <1>1, AtProbe
  <2> HIDE DEF pcl, pch
  <2>6. NumberPtr(table, pcl, pch) = UserAddr(table, probe)
    BY <2>4, <2>5, NumberPtrTranslates
  <2> QED  BY <2>6 DEF KernelFindsNumber, pcl, pch
<1>2. Probing => KernelFindsNumber
  BY <1>1
<1> QED  BY <1>2, ProbingHolds, PTL

\* KernelFindsFrame: a byte BRK pushed is found exactly if it has not wrapped.
THEOREM KernelFindsFrameHolds == Spec => []KernelFindsFrame
<1>1. ASSUME Probing PROVE KernelFindsFrame
  <2> SUFFICES ASSUME NEW sp \in StackPointers, NEW k \in 1..3
               PROVE  (FramePtr(table, sp) + k = UserAddr(table, 256 + ((sp + k) % 256)))
                        <=> sp + k <= 255
    BY DEF KernelFindsFrame
  <2>1. sp \in Byte /\ table \in PageTables
    BY <1>1, AtProbe, ProbeAssumption
  <2>2. PICK t \in PageTables : t = table
    BY <2>1
  <2>3. (FramePtr(t, sp) + k = UserAddr(t, 256 + ((sp + k) % 256))) <=> sp + k <= 255
    BY <2>1, FramePtrTranslates DEF Byte
  <2> QED  BY <2>2, <2>3
<1>2. Probing => KernelFindsFrame
  BY <1>1
<1> QED  BY <1>2, ProbingHolds, PTL

\* SectorsLandWhereLinked: the loader puts a sector where the program runs it.
THEOREM SectorsLandWhereLinkedHolds == Spec => []SectorsLandWhereLinked
<1>1. ASSUME Probing PROVE SectorsLandWhereLinked
  <2> SUFFICES ASSUME NEW b \in 0..55, SectorVA(b) \div PageSize = page
               PROVE  SectorPA(table, b) + (off % 512)
                        = UserAddr(table, 4096 + b * 512 + (off % 512))
    BY DEF SectorsLandWhereLinked
  <2>1. PICK c \in 0..27, h \in 0..1 : b = 2 * c + h
    <3>1. b \div 2 \in 0..27 /\ b % 2 \in 0..1 /\ b = 2 * (b \div 2) + (b % 2)
      OBVIOUS
    <3> QED  BY <3>1
  <2>2. PICK r \in 0..511 : off % 512 = r
    BY <1>1 DEF Probing
  <2>3. SectorVA(b) = 1024 * (4 + c) + 512 * h
    BY <2>1 DEF SectorVA
  <2>4. (1024 * (4 + c) + 512 * h) \div 1024 = 4 + c /\ (1024 * (4 + c) + 512 * h) % 1024 = 512 * h
    OBVIOUS
  <2>5. page = 4 + c
    BY <2>3, <2>4 DEF PageSize
  <2>6. PICK p \in 0..31 : table[page] = p
    BY <1>1, AtProbe DEF Probing, PageTables, VPages, PPages
  <2>7. SectorPA(table, b) = p * 1024 + 512 * h
    BY <2>3, <2>4, <2>5, <2>6 DEF SectorPA, PageSize
  <2>8. 4096 + b * 512 + (off % 512) = 1024 * page + (512 * h + r) /\ 512 * h + r \in 0..1023
    BY <2>1, <2>2, <2>5
  <2>9. (1024 * page + (512 * h + r)) \div 1024 = page /\ page % 32 = page
        /\ (1024 * page + (512 * h + r)) % 1024 = 512 * h + r
    BY <1>1, <2>8 DEF Probing
  <2>10. UserAddr(table, 4096 + b * 512 + (off % 512)) = p * 1024 + (512 * h + r)
    BY <2>6, <2>8, <2>9 DEF UserAddr, Vpn, Offset, PageSize
  <2>11. (p * 1024 + 512 * h) + r = p * 1024 + (512 * h + r)
    OBVIOUS
  <2> QED  BY <2>2, <2>7, <2>10, <2>11
<1>2. Probing => SectorsLandWhereLinked
  BY <1>1
<1> QED  BY <1>2, ProbingHolds, PTL

\* TransferStaysInBuffer: only the end of physical RAM breaks a transfer.
THEOREM TransferStaysInBufferHolds == Spec => []TransferStaysInBuffer
<1>1. ASSUME Probing PROVE TransferStaysInBuffer
  <2>1. base \in Nat /\ probe \in RamVA
    BY <1>1, AtProbe DEF Probing
  <2> QED  BY <2>1, TransferReachesBuffer DEF TransferStaysInBuffer, table
<1>2. Probing => TransferStaysInBuffer
  BY <1>1
<1> QED  BY <1>2, ProbingHolds, PTL

----------------------------------------------------------------------------
(* Memory dumps. Sequences by their elements; the two recursive functions  *)
(* involved, dbgShowMem's loop and the concatenation of its rows, have a   *)
(* closed form that satisfies their equation, and are equal to it by       *)
(* induction.                                                              *)

LEMMA Wraps ==
  /\ \A a \in Nat : a < 65536 => a % 65536 = a
  /\ \A a \in Nat : a >= 65536 /\ a < 131072 => a % 65536 = a - 65536
OBVIOUS

\* len consecutive addresses.
Run(first, len) == [n \in 1..len |-> first + n - 1]

LEMMA RunsJoin ==
  ASSUME NEW first \in Nat, NEW l1 \in Nat, NEW l2 \in Nat
  PROVE  Run(first, l1) \o Run(first + l1, l2) = Run(first, l1 + l2)
<1>1. Run(first, l1) \in Seq(Nat) /\ Len(Run(first, l1)) = l1
      /\ Run(first + l1, l2) \in Seq(Nat) /\ Len(Run(first + l1, l2)) = l2
      /\ Run(first, l1 + l2) \in Seq(Nat) /\ Len(Run(first, l1 + l2)) = l1 + l2
  BY DEF Run
<1>2. ASSUME NEW n \in 1..(l1 + l2)
      PROVE  (Run(first, l1) \o Run(first + l1, l2))[n] = Run(first, l1 + l2)[n]
  <2>1. CASE n <= l1
    BY <1>1, <2>1 DEF Run
  <2>2. CASE ~ (n <= l1)
    <3>1. n - l1 \in 1..l2
      BY <2>2
    <3>2. (Run(first, l1) \o Run(first + l1, l2))[n] = Run(first + l1, l2)[n - l1]
      BY <1>1, <2>2, SMTT(60)
    <3>3. Run(first + l1, l2)[n - l1] = (first + l1) + (n - l1) - 1
      BY <3>1 DEF Run
    <3> QED  BY <3>2, <3>3 DEF Run
  <2> QED  BY <2>1, <2>2
<1>3. Run(first, l1) \o Run(first + l1, l2) \in Seq(Nat)
      /\ Len(Run(first, l1) \o Run(first + l1, l2)) = l1 + l2
  BY <1>1, ConcatProperties
<1> QED  BY <1>1, <1>2, <1>3, SeqEqual

\* A row of a dump: sixteen addresses or the rest of the range.
LEMMA RowIs ==
  ASSUME NEW first \in Nat, NEW last \in Nat, first <= last, last < 65536
  PROVE  RowAddrs(first, last) = Run(first, IF last - first >= 15 THEN 16 ELSE last - first + 1)
<1> DEFINE cur(n) == (first + n) % 65536
           past   == {n \in 0..15 : cur(n) < first \/ cur(n) > last}
           len    == IF past = {} THEN 16 ELSE CHOOSE n \in past : \A k \in past : n <= k
<1>1. RowAddrs(first, last) = [n \in 1..len |-> cur(n - 1)]
  BY DEF RowAddrs
<1>2. ASSUME NEW n \in 0..15 PROVE (cur(n) < first \/ cur(n) > last) <=> first + n > last
  <2>1. CASE first + n < 65536
    <3>1. cur(n) = first + n
      BY <2>1, Wraps
    <3> QED  BY <3>1
  <2>2. CASE ~ (first + n < 65536)
    <3>1. first + n \in Nat /\ first + n >= 65536 /\ first + n < 131072
      BY <2>2
    <3>2. cur(n) = first + n - 65536
      BY <3>1, Wraps
    <3> QED  BY <2>2, <3>2
  <2> QED  BY <2>1, <2>2
<1>3. \A n \in 0..15 : first + n <= last => cur(n) = first + n
  <2> SUFFICES ASSUME NEW n \in 0..15, first + n <= last PROVE cur(n) = first + n
    OBVIOUS
  <2>1. first + n \in Nat /\ first + n < 65536
    OBVIOUS
  <2> QED  BY <2>1, Wraps
<1> HIDE DEF cur
<1>4. past = {n \in 0..15 : first + n > last}
  BY <1>2
<1>5. CASE last - first >= 15
  <2>1. past = {}
    BY <1>4, <1>5
  <2>2. len = 16
    BY <2>1
  <2>3. \A n \in 1..16 : cur(n - 1) = first + n - 1
    <3> SUFFICES ASSUME NEW n \in 1..16 PROVE cur(n - 1) = first + n - 1
      OBVIOUS
    <3>1. n - 1 \in 0..15 /\ first + (n - 1) <= last /\ first + (n - 1) = first + n - 1
      BY <1>5
    <3> QED  BY <1>3, <3>1
  <2> HIDE DEF len
  <2>4. [n \in 1..len |-> cur(n - 1)] = [n \in 1..16 |-> first + n - 1]
    BY <2>2, <2>3
  <2> QED  BY <1>1, <1>5, <2>4 DEF Run
<1>6. CASE ~ (last - first >= 15)
  <2> DEFINE c == last - first + 1
  <2>1. c \in past /\ \A k \in past : c <= k /\ k \in Nat
    BY <1>4, <1>6
  <2>2. c \in Nat /\ c <= 15
    BY <1>6
  <2> HIDE DEF past, c
  <2>3. len = c
    <3>1. past # {}
      BY <2>1
    <3>2. len \in past /\ \A k \in past : len <= k
      BY <2>1, <3>1
    <3>3. len <= c /\ c <= len /\ len \in Nat
      BY <2>1, <3>2
    <3> HIDE DEF len
    <3> QED  BY <2>2, <3>3
  <2>4. \A n \in 1..c : cur(n - 1) = first + n - 1
    <3> SUFFICES ASSUME NEW n \in 1..c PROVE cur(n - 1) = first + n - 1
      OBVIOUS
    <3>1. n - 1 \in 0..15 /\ first + (n - 1) <= last /\ first + (n - 1) = first + n - 1
      BY <2>2 DEF c
    <3> QED  BY <1>3, <3>1
  <2> HIDE DEF len
  <2>5. [n \in 1..len |-> cur(n - 1)] = [n \in 1..c |-> first + n - 1]
    BY <2>3, <2>4
  <2> QED  BY <1>1, <1>6, <2>5 DEF Run, c
<1> QED  BY <1>5, <1>6

\* A function that satisfies the equation of FlattenSeq's is FlattenSeq's.
IsFlat(f, rows, n) == f = [i \in 1..n |-> IF i = 1 THEN rows[i] ELSE f[i - 1] \o rows[i]]

LEMMA Flattens ==
  ASSUME NEW S, NEW n \in Nat, n > 0, NEW rows \in [1..n -> S],
         NEW whole, IsFlat(whole, rows, n)
  PROVE  FlattenSeq(rows) = whole[n]
<1> DEFINE flat == CHOOSE f : IsFlat(f, rows, n)
           Same(i) == i + 1 <= n => flat[i + 1] = whole[i + 1]
           T == {i \in Nat : Same(i)}
<1>1. Len(rows) = n /\ Len(rows) # 0
  OBVIOUS
<1>2. IsFlat(flat, rows, n)
  BY Zenon
<1>3. FlattenSeq(rows) = flat[n]
  BY <1>1 DEF FlattenSeq, IsFlat
<1> HIDE DEF flat
<1>4. \A i \in 1..n : flat[i] = IF i = 1 THEN rows[i] ELSE flat[i - 1] \o rows[i]
  BY <1>2 DEF IsFlat
<1>5. \A i \in 1..n : whole[i] = IF i = 1 THEN rows[i] ELSE whole[i - 1] \o rows[i]
  BY DEF IsFlat
<1>6. Same(0)
  BY <1>4, <1>5
<1>7. ASSUME NEW i \in Nat, Same(i) PROVE Same(i + 1)
  <2> SUFFICES ASSUME (i + 1) + 1 <= n PROVE flat[(i + 1) + 1] = whole[(i + 1) + 1]
    OBVIOUS
  <2>1. (i + 1) + 1 \in 1..n /\ (i + 1) + 1 # 1 /\ ((i + 1) + 1) - 1 = i + 1 /\ i + 1 <= n
    OBVIOUS
  <2>2. flat[i + 1] = whole[i + 1]
    BY <1>7, <2>1
  <2>3. flat[(i + 1) + 1] = flat[i + 1] \o rows[(i + 1) + 1]
    BY <1>4, <2>1
  <2>4. whole[(i + 1) + 1] = whole[i + 1] \o rows[(i + 1) + 1]
    BY <1>5, <2>1
  <2> QED  BY <2>2, <2>3, <2>4
<1> HIDE DEF Same
<1>8. 0 \in T /\ \A i \in Nat : i \in T => i + 1 \in T
  BY <1>6, <1>7
<1>9. \A i \in T : Same(i)
  OBVIOUS
<1> HIDE DEF T
<1>10. \A i \in Nat : i \in T
  BY <1>8, InductionOverNat
<1>11. n - 1 \in Nat /\ (n - 1) + 1 = n /\ (n - 1) + 1 <= n
  OBVIOUS
<1>12. Same(n - 1)
  BY <1>9, <1>10, <1>11
<1> QED  BY <1>3, <1>11, <1>12 DEF Same

\* Where row k starts.
RowAt(start, k) == start + 16 * k

\* The rows from row k on, of l + 1 rows; past the end there is one more.
RowsFrom(start, last, l, k) ==
  [j \in 1..(IF k <= l THEN l - k + 1 ELSE 1) |-> RowAddrs(RowAt(start, k + j - 1), last)]

LEMMA RowsUnfold ==
  ASSUME NEW start \in Nat, NEW last \in Nat, NEW l \in Nat, NEW k \in 0..(l + 1)
  PROVE  /\ k >= l => RowsFrom(start, last, l, k) = <<RowAddrs(RowAt(start, k), last)>>
         /\ k < l => RowsFrom(start, last, l, k)
                       = <<RowAddrs(RowAt(start, k), last)>> \o RowsFrom(start, last, l, k + 1)
<1> DEFINE S == {RowAddrs(RowAt(start, j), last) : j \in Nat}
           Row(j) == RowAddrs(RowAt(start, j), last)
<1>1. ASSUME k >= l PROVE RowsFrom(start, last, l, k) = <<Row(k)>>
  <2>1. (IF k <= l THEN l - k + 1 ELSE 1) = 1 /\ k + 1 - 1 = k
    BY <1>1
  <2> DEFINE r(j) == RowAddrs(RowAt(start, k + j - 1), last)
  <2>2. RowsFrom(start, last, l, k) = [j \in 1..1 |-> r(j)]
    BY <2>1 DEF RowsFrom
  <2>3. r(1) = Row(k)
    BY <2>1
  <2> HIDE DEF r, Row
  <2>4. [j \in 1..1 |-> r(j)] = <<r(1)>>
    OBVIOUS
  <2> QED  BY <2>2, <2>3, <2>4
<1>2. ASSUME k < l PROVE RowsFrom(start, last, l, k) = <<Row(k)>> \o RowsFrom(start, last, l, k + 1)
  <2> DEFINE m == l - k
  <2>1. m \in Nat /\ m >= 1 /\ m = l - k /\ k + 1 <= l /\ k <= l
    BY <1>2
  <2>2. RowsFrom(start, last, l, k) = [j \in 1..(m + 1) |-> RowAddrs(RowAt(start, k + j - 1), last)]
    BY <2>1 DEF RowsFrom
  <2>3. RowsFrom(start, last, l, k + 1) = [j \in 1..m |-> RowAddrs(RowAt(start, (k + 1) + j - 1), last)]
    <3>1. l - (k + 1) + 1 = m
      BY <2>1
    <3> QED  BY <2>1, <3>1 DEF RowsFrom
  <2> HIDE DEF m
  <2>4. ASSUME NEW j \in 1..(m + 1) PROVE RowAddrs(RowAt(start, k + j - 1), last) \in S
    <3>1. k + j - 1 \in Nat
      OBVIOUS
    <3> QED  BY <3>1
  <2>5. ASSUME NEW j \in 1..m PROVE RowAddrs(RowAt(start, (k + 1) + j - 1), last) \in S
    <3>1. (k + 1) + j - 1 \in Nat
      OBVIOUS
    <3> QED  BY <3>1
  <2>6. Row(k) \in S
    OBVIOUS
  <2> HIDE DEF S, Row
  <2>7. RowsFrom(start, last, l, k) \in Seq(S) /\ Len(RowsFrom(start, last, l, k)) = m + 1
    BY <2>1, <2>2, <2>4
  <2>8. RowsFrom(start, last, l, k + 1) \in Seq(S) /\ Len(RowsFrom(start, last, l, k + 1)) = m
    BY <2>1, <2>3, <2>5
  <2>9. <<Row(k)>> \in Seq(S) /\ Len(<<Row(k)>>) = 1 /\ <<Row(k)>>[1] = Row(k)
    BY <2>6
  <2> DEFINE whole == <<Row(k)>> \o RowsFrom(start, last, l, k + 1)
  <2>10. /\ whole \in Seq(S) /\ Len(whole) = 1 + m
         /\ \A i \in 1..(1 + m) : whole[i] = IF i <= 1 THEN <<Row(k)>>[i]
                                             ELSE RowsFrom(start, last, l, k + 1)[i - 1]
    BY <2>8, <2>9, ConcatProperties
  <2> HIDE DEF whole
  <2>11. ASSUME NEW i \in 1..(m + 1) PROVE whole[i] = RowsFrom(start, last, l, k)[i]
    <3>1. CASE i = 1
      <4>1. whole[i] = Row(k)
        BY <2>1, <2>9, <2>10, <3>1
      <4>2. RowsFrom(start, last, l, k)[i] = RowAddrs(RowAt(start, k + 1 - 1), last) /\ k + 1 - 1 = k
        BY <2>1, <2>2, <3>1
      <4> QED  BY <4>1, <4>2 DEF Row
    <3>2. CASE i # 1
      <4>1. i - 1 \in 1..m /\ i \in 1..(1 + m) /\ ~ (i <= 1)
        BY <2>1, <3>2
      <4>2. whole[i] = RowAddrs(RowAt(start, (k + 1) + (i - 1) - 1), last)
        BY <2>3, <2>10, <4>1
      <4>3. (k + 1) + (i - 1) - 1 = k + i - 1
        OBVIOUS
      <4> QED  BY <2>2, <4>2, <4>3
    <3> QED  BY <3>1, <3>2
  <2>12. Len(whole) = Len(RowsFrom(start, last, l, k)) /\ 1 + m = m + 1
    BY <2>1, <2>7, <2>10
  <2>13. whole = RowsFrom(start, last, l, k)
    BY <2>7, <2>10, <2>11, <2>12, SeqEqual
  <2> QED  BY <2>13 DEF whole
<1> QED  BY <1>1, <1>2

\* l: the number of the last row.
Spans(start, last, l) ==
  /\ start \in Nat /\ last \in Nat /\ last < 65536 /\ l \in Nat
  /\ l = (last - start) \div 16 /\ 16 * l <= last - start /\ last - start < 16 * l + 16

RowStarts(start, last) == {RowAt(start, k) : k \in 0..((last - start) \div 16 + 1)}
NextRows(f, first, last) ==
  IF LastRow(first, last) THEN <<RowAddrs(first, last)>>
  ELSE <<RowAddrs(first, last)>> \o f[(first + 16) % 65536]
IsDump(f, start, last) == f = [first \in RowStarts(start, last) |-> NextRows(f, first, last)]

LEMMA RowStart ==
  ASSUME NEW start, NEW last, NEW l, Spans(start, last, l)
  PROVE  /\ \A k \in 0..(l + 1) : RowAt(start, k) \in RowStarts(start, last)
         /\ \A first \in RowStarts(start, last) : \E k \in 0..(l + 1) : first = RowAt(start, k)
BY DEF RowStarts, Spans

LEMMA LoopEnds ==
  ASSUME NEW start, NEW last, NEW l, Spans(start, last, l), NEW k \in 0..(l + 1)
  PROVE  /\ LastRow(RowAt(start, k), last) <=> k >= l
         /\ k < l => (RowAt(start, k) + 16) % 65536 = RowAt(start, k + 1)
<1>1. start \in Nat /\ last \in Nat /\ last < 65536 /\ l \in Nat
      /\ 16 * l <= last - start /\ last - start < 16 * l + 16
  BY DEF Spans
<1>2. CASE k >= l
  BY <1>1, <1>2 DEF LastRow, RowAt
<1>3. CASE k < l
  <2>1. 16 * k + 16 <= 16 * l /\ k \in Nat
    BY <1>1, <1>3
  <2>2. ~ LastRow(RowAt(start, k), last)
    BY <1>1, <2>1 DEF LastRow, RowAt
  <2>3. RowAt(start, k) + 16 \in Nat /\ RowAt(start, k) + 16 < 65536
    BY <1>1, <2>1 DEF RowAt
  <2>4. (RowAt(start, k) + 16) % 65536 = RowAt(start, k) + 16
    BY <2>3, Wraps
  <2>5. RowAt(start, k) + 16 = RowAt(start, k + 1)
    BY <1>1, <2>1 DEF RowAt
  <2> QED  BY <1>1, <1>3, <2>2, <2>4, <2>5
<1>4. k >= l \/ k < l
  BY <1>1
<1> QED  BY <1>2, <1>3, <1>4

LEMMA DumpExists ==
  ASSUME NEW start, NEW last, NEW l, Spans(start, last, l)
  PROVE  \E f : IsDump(f, start, last)
<1> DEFINE g == [first \in RowStarts(start, last) |-> RowsFrom(start, last, l, (first - start) \div 16)]
<1>1. start \in Nat /\ last \in Nat /\ l \in Nat
  BY DEF Spans
<1>2. ASSUME NEW k \in 0..(l + 1) PROVE g[RowAt(start, k)] = RowsFrom(start, last, l, k)
  <2>1. RowAt(start, k) \in RowStarts(start, last)
    BY RowStart
  <2>2. (RowAt(start, k) - start) \div 16 = k
    <3>1. RowAt(start, k) - start = 16 * k /\ k \in Nat
      BY <1>1 DEF RowAt
    <3>2. (16 * k) \div 16 = k
      BY <3>1
    <3> QED  BY <3>1, <3>2
  <2> QED  BY <2>1, <2>2
<1> HIDE DEF g
<1>3. ASSUME NEW k \in 0..(l + 1) PROVE g[RowAt(start, k)] = NextRows(g, RowAt(start, k), last)
  <2>1. CASE k >= l
    <3>1. RowsFrom(start, last, l, k) = <<RowAddrs(RowAt(start, k), last)>>
      BY <1>1, <2>1, RowsUnfold
    <3>2. LastRow(RowAt(start, k), last)
      BY <2>1, LoopEnds
    <3> QED  BY <1>2, <3>1, <3>2 DEF NextRows
  <2>2. CASE k < l
    <3>1. RowsFrom(start, last, l, k)
            = <<RowAddrs(RowAt(start, k), last)>> \o RowsFrom(start, last, l, k + 1)
      BY <1>1, <2>2, RowsUnfold
    <3>2. ~ LastRow(RowAt(start, k), last) /\ (RowAt(start, k) + 16) % 65536 = RowAt(start, k + 1)
      <4>1. ~ (k >= l)
        BY <1>1, <2>2
      <4> QED  BY <2>2, <4>1, LoopEnds
    <3>3. k + 1 \in 0..(l + 1)
      BY <1>1, <2>2
    <3>4. g[RowAt(start, k + 1)] = RowsFrom(start, last, l, k + 1)
      BY <1>2, <3>3
    <3>5. NextRows(g, RowAt(start, k), last)
            = <<RowAddrs(RowAt(start, k), last)>> \o g[(RowAt(start, k) + 16) % 65536]
      BY <3>2 DEF NextRows
    <3> QED  BY <1>2, <3>1, <3>2, <3>4, <3>5, SMTT(60)
  <2>3. k >= l \/ k < l
    BY <1>1
  <2> QED  BY <2>1, <2>2, <2>3
<1>4. \A first \in RowStarts(start, last) : g[first] = NextRows(g, first, last)
  BY <1>3, RowStart
<1>5. g = [first \in RowStarts(start, last) |-> g[first]]
  BY DEF g
<1>6. g = [first \in RowStarts(start, last) |-> NextRows(g, first, last)]
  BY <1>4, <1>5
<1>7. IsDump(g, start, last)
  BY <1>6 DEF IsDump
<1> QED  BY <1>7

LEMMA DumpIs ==
  ASSUME NEW start, NEW last, NEW l, Spans(start, last, l), NEW f, IsDump(f, start, last)
  PROVE  f[start] = RowsFrom(start, last, l, 0)
<1> DEFINE Same(j) == j <= l => f[RowAt(start, l - j)] = RowsFrom(start, last, l, l - j)
           T == {j \in Nat : Same(j)}
<1>1. start \in Nat /\ last \in Nat /\ l \in Nat
  BY DEF Spans
<1>2. ASSUME NEW k \in 0..(l + 1)
      PROVE  f[RowAt(start, k)] = NextRows(f, RowAt(start, k), last)
  <2>1. RowAt(start, k) \in RowStarts(start, last)
    BY RowStart
  <2> QED  BY <2>1 DEF IsDump
<1>3. Same(0)
  <2>1. PICK k \in 0..(l + 1) : k = l - 0 /\ k >= l
    BY <1>1
  <2>2. LastRow(RowAt(start, k), last)
    BY <2>1, LoopEnds
  <2>3. RowsFrom(start, last, l, k) = <<RowAddrs(RowAt(start, k), last)>>
    BY <1>1, <2>1, RowsUnfold
  <2>4. f[RowAt(start, k)] = <<RowAddrs(RowAt(start, k), last)>>
    <3>1. f[RowAt(start, k)] = NextRows(f, RowAt(start, k), last)
      BY <1>2
    <3>2. NextRows(f, RowAt(start, k), last) = <<RowAddrs(RowAt(start, k), last)>>
      BY <2>2 DEF NextRows
    <3> QED  BY <3>1, <3>2
  <2> QED  BY <2>1, <2>3, <2>4
<1>4. ASSUME NEW j \in Nat, Same(j) PROVE Same(j + 1)
  <2> SUFFICES ASSUME j + 1 <= l
               PROVE  f[RowAt(start, l - (j + 1))] = RowsFrom(start, last, l, l - (j + 1))
    OBVIOUS
  <2>1. PICK k \in 0..(l + 1) : k = l - (j + 1) /\ k < l /\ k + 1 = l - j /\ j <= l
    BY <1>1
  <2>2. ~ (k >= l)
    BY <1>1, <2>1
  <2>3. ~ LastRow(RowAt(start, k), last) /\ (RowAt(start, k) + 16) % 65536 = RowAt(start, k + 1)
    BY <2>1, <2>2, LoopEnds
  <2>4. RowsFrom(start, last, l, k)
          = <<RowAddrs(RowAt(start, k), last)>> \o RowsFrom(start, last, l, k + 1)
    BY <1>1, <2>1, RowsUnfold, SMTT(60)
  <2>5. f[RowAt(start, k + 1)] = RowsFrom(start, last, l, k + 1)
    BY <1>4, <2>1
  <2>6. f[RowAt(start, k)] = <<RowAddrs(RowAt(start, k), last)>> \o f[RowAt(start, k + 1)]
    <3>1. f[RowAt(start, k)] = NextRows(f, RowAt(start, k), last)
      BY <1>2
    <3>2. NextRows(f, RowAt(start, k), last)
            = <<RowAddrs(RowAt(start, k), last)>> \o f[(RowAt(start, k) + 16) % 65536]
      BY <2>3 DEF NextRows
    <3> QED  BY <2>3, <3>1, <3>2
  <2>7. f[RowAt(start, k)] = RowsFrom(start, last, l, k)
    BY <2>4, <2>5, <2>6
  <2> QED  BY <2>1, <2>7
<1> HIDE DEF Same
<1>5. 0 \in T /\ \A j \in Nat : j \in T => j + 1 \in T
  BY <1>3, <1>4
<1>6. \A j \in T : Same(j)
  OBVIOUS
<1> HIDE DEF T
<1>7. \A j \in Nat : j \in T
  BY <1>5, InductionOverNat
<1>8. Same(l)
  BY <1>1, <1>6, <1>7
<1>9. l <= l /\ l - l = 0 /\ RowAt(start, 0) = start
  BY <1>1 DEF RowAt
<1> QED  BY <1>8, <1>9 DEF Same

LEMMA ShowMemIs ==
  ASSUME NEW start, NEW last, NEW l, Spans(start, last, l)
  PROVE  ShowMem(start, last) = RowsFrom(start, last, l, 0)
<1> DEFINE rows == CHOOSE f : IsDump(f, start, last)
<1>1. IsDump(rows, start, last)
  BY DumpExists, Zenon
<1>2. ShowMem(start, last) = rows[start]
  BY DEF ShowMem, IsDump, RowStarts, NextRows, RowAt
<1> HIDE DEF rows
<1> QED  BY <1>1, <1>2, DumpIs

\* A dump, row by row and end to end.
LEMMA DumpFlattens ==
  ASSUME NEW start, NEW last, NEW l, Spans(start, last, l)
  PROVE  FlattenSeq(ShowMem(start, last)) = Run(start, last - start + 1)
<1> DEFINE rows == [j \in 1..(l + 1) |-> RowAddrs(RowAt(start, j - 1), last)]
           S == {RowAddrs(RowAt(start, k), last) : k \in Nat}
           total == last - start + 1
           upto(j) == IF j = l + 1 THEN total ELSE 16 * j
           whole == [j \in 1..(l + 1) |-> Run(start, upto(j))]
<1>1. start \in Nat /\ last \in Nat /\ last < 65536 /\ l \in Nat
      /\ 16 * l <= last - start /\ last - start < 16 * l + 16
  BY DEF Spans
<1>2. ShowMem(start, last) = rows
  <2>1. ShowMem(start, last) = RowsFrom(start, last, l, 0)
    BY ShowMemIs
  <2>2. (IF 0 <= l THEN l - 0 + 1 ELSE 1) = l + 1 /\ \A j \in 1..(l + 1) : 0 + j - 1 = j - 1
    BY <1>1
  <2>3. RowsFrom(start, last, l, 0) = [j \in 1..(l + 1) |-> RowAddrs(RowAt(start, 0 + j - 1), last)]
    BY <2>2 DEF RowsFrom
  <2>4. [j \in 1..(l + 1) |-> RowAddrs(RowAt(start, 0 + j - 1), last)] = rows
    BY <2>2
  <2> QED  BY <2>1, <2>3, <2>4
<1>3. rows \in [1..(l + 1) -> S]
  <2>1. \A j \in 1..(l + 1) : j - 1 \in Nat
    BY <1>1
  <2> QED  BY <2>1
<1>4. ASSUME NEW j \in 1..(l + 1)
      PROVE  rows[j] = Run(RowAt(start, j - 1), IF j = l + 1 THEN total - 16 * l ELSE 16)
  <2>1. RowAt(start, j - 1) \in Nat /\ RowAt(start, j - 1) <= last
    BY <1>1 DEF RowAt
  <2>2. RowAddrs(RowAt(start, j - 1), last)
          = Run(RowAt(start, j - 1), IF last - RowAt(start, j - 1) >= 15 THEN 16
                                     ELSE last - RowAt(start, j - 1) + 1)
    BY <1>1, <2>1, RowIs
  <2>3. (IF last - RowAt(start, j - 1) >= 15 THEN 16 ELSE last - RowAt(start, j - 1) + 1)
          = (IF j = l + 1 THEN total - 16 * l ELSE 16)
    <3>1. CASE j = l + 1
      BY <1>1, <3>1 DEF RowAt
    <3>2. CASE j # l + 1
      BY <1>1, <3>2 DEF RowAt
    <3> QED  BY <3>1, <3>2
  <2> QED  BY <2>2, <2>3
<1>5. ASSUME NEW j \in 1..(l + 1), j # 1
      PROVE  Run(start, upto(j)) = Run(start, upto(j - 1)) \o rows[j]
  <2>1. j - 1 \in 1..(l + 1) /\ j - 1 # l + 1 /\ upto(j - 1) = 16 * (j - 1) /\ 16 * (j - 1) \in Nat
        /\ RowAt(start, j - 1) = start + 16 * (j - 1)
    BY <1>1, <1>5 DEF RowAt
  <2> DEFINE len == IF j = l + 1 THEN total - 16 * l ELSE 16
  <2>2. len \in Nat /\ upto(j) = 16 * (j - 1) + len
    <3>1. CASE j = l + 1
      BY <1>1, <3>1
    <3>2. CASE j # l + 1
      BY <1>1, <3>2
    <3> QED  BY <3>1, <3>2
  <2>3. rows[j] = Run(start + 16 * (j - 1), len)
    BY <1>4, <2>1
  <2> HIDE DEF len, upto, rows
  <2>4. Run(start, 16 * (j - 1)) \o Run(start + 16 * (j - 1), len) = Run(start, 16 * (j - 1) + len)
    <3> DEFINE before == 16 * (j - 1)
    <3>1. before \in Nat /\ start \in Nat /\ len \in Nat
      BY <1>1, <2>1, <2>2
    <3> HIDE DEF before
    <3>2. Run(start, before) \o Run(start + before, len) = Run(start, before + len)
      BY <3>1, RunsJoin
    <3> QED  BY <3>2 DEF before
  <2> QED  BY <2>1, <2>2, <2>3, <2>4
<1>6. Run(start, upto(1)) = rows[1]
  <2>1. 1 \in 1..(l + 1) /\ RowAt(start, 1 - 1) = start
    BY <1>1 DEF RowAt
  <2>2. upto(1) = IF 1 = l + 1 THEN total - 16 * l ELSE 16
    BY <1>1
  <2>3. rows[1] = Run(RowAt(start, 1 - 1), IF 1 = l + 1 THEN total - 16 * l ELSE 16)
    BY <1>4, <2>1
  <2> HIDE DEF upto, rows
  <2> QED  BY <2>1, <2>2, <2>3
<1>7. l + 1 \in Nat /\ l + 1 > 0 /\ l + 1 \in 1..(l + 1) /\ upto(l + 1) = total
  BY <1>1
<1> HIDE DEF rows, S, upto
<1>8. \A j \in 1..(l + 1) : whole[j] = IF j = 1 THEN rows[j] ELSE whole[j - 1] \o rows[j]
  <2> SUFFICES ASSUME NEW j \in 1..(l + 1)
               PROVE  whole[j] = IF j = 1 THEN rows[j] ELSE whole[j - 1] \o rows[j]
    OBVIOUS
  <2>1. whole[j] = Run(start, upto(j))
    OBVIOUS
  <2>2. CASE j = 1
    BY <1>6, <2>1, <2>2
  <2>3. CASE j # 1
    <3>1. j - 1 \in 1..(l + 1)
      BY <1>1, <2>3
    <3>2. whole[j - 1] = Run(start, upto(j - 1))
      BY <3>1
    <3> QED  BY <1>5, <2>1, <2>3, <3>2
  <2> QED  BY <2>2, <2>3
<1>9. whole = [j \in 1..(l + 1) |-> whole[j]]
  OBVIOUS
<1>10. whole[l + 1] = Run(start, total)
  BY <1>7
<1> HIDE DEF whole, total
<1>11. IsFlat(whole, rows, l + 1)
  BY <1>8, <1>9 DEF IsFlat
<1>12. FlattenSeq(rows) = whole[l + 1]
  BY <1>3, <1>7, <1>11, Flattens
<1> QED  BY <1>2, <1>10, <1>12 DEF total

LEMMA InAddr16 ==
  ASSUME NEW a \in Nat, a < 65536
  PROVE  a \in Addr16
<1>1. PICK m \in Nat : m = 2 * RamBytes
  BY DEF RamBytes
<1>2. a <= m - 1
  BY <1>1 DEF RamBytes
<1>3. a \in 0..(m - 1)
  BY <1>2
<1> QED  BY <1>1, <1>3 DEF Addr16

\* PrintMemRange in parts: the low 16 bits of a number, the addresses the
\* command line gives, an answer the question refuses, a range that ends the
\* command, and what becomes of a pair of addresses.
Low(a) == a % 65536
Cut(given) == [i \in DOMAIN given |-> given[i] % 65536]
TooBig(v) == v > 65535
Refused(answers, x, y) == (\E i \in DOMAIN answers : TooBig(answers[i])) \/ y < x
InRange(start, last) ==
  Low(start) = start /\ Low(last) = last /\ ~ TooBig(start) /\ ~ TooBig(last) /\ ~ (last < start)
Displays(given, answers, x, y) == PrintMemRange(given, answers) = ShowMem(x, y)
DisplaysAfter(start, last, k) ==
  PrintMemRange(SubSeq(<<start, last>>, 1, k), SubSeq(<<start, last>>, k + 1, 2)) = ShowMem(start, last)
Rejects(a, b) == PrintMemRange(<<a>>, <<b>>) = <<>>

\* A pair of addresses and its parts.
LEMMA Pair ==
  ASSUME NEW a, NEW b
  PROVE  /\ <<a, b>>[1] = a /\ <<a, b>>[2] = b
         /\ SubSeq(<<a, b>>, 1, 0) = <<>> /\ SubSeq(<<a, b>>, 3, 2) = <<>>
         /\ SubSeq(<<a, b>>, 1, 1) = <<a>> /\ SubSeq(<<a, b>>, 2, 2) = <<b>>
         /\ SubSeq(<<a, b>>, 1, 2) = <<a, b>>
<1>1. <<a, b>>[1] = a /\ <<a, b>>[2] = b
  OBVIOUS
<1>2. SubSeq(<<a, b>>, 1, 0) = <<>> /\ SubSeq(<<a, b>>, 3, 2) = <<>>
  BY SubSeqEmpty
<1>3. <<a, b>> \in Seq({a, b}) /\ Len(<<a, b>>) = 2
  OBVIOUS
<1>4. SubSeq(<<a, b>>, 1, 2) = <<a, b>>
  BY <1>3, SubSeqFull
<1>5. SubSeq(<<a, b>>, 2, 2) = <<b>>
  <2>1. SubSeq(<<a, b>>, 2, 2) = << <<a, b>>[2] >> \o SubSeq(<<a, b>>, 3, 2)
    <3>1. 2 \in 1..Len(<<a, b>>) /\ 2 \in 2..Len(<<a, b>>) /\ 2 + 1 = 3
      BY <1>3
    <3> QED  BY <1>3, <3>1, SubSeqRecursiveFirst
  <2>2. <<b>> \in Seq({b})
    OBVIOUS
  <2>3. <<b>> \o <<>> = <<b>>
    BY <2>2, ConcatEmptySeq
  <2> QED  BY <1>1, <1>2, <2>1, <2>3
<1>6. SubSeq(<<a, b>>, 1, 1) = <<a>>
  <2>1. SubSeq(<<a, b>>, 1, 1) = << <<a, b>>[1] >> \o SubSeq(<<a, b>>, 2, 1)
    <3>1. 1 \in 1..Len(<<a, b>>) /\ 1 \in 1..Len(<<a, b>>) /\ 1 + 1 = 2
      BY <1>3
    <3> QED  BY <1>3, <3>1, SubSeqRecursiveFirst
  <2>2. <<a>> \in Seq({a})
    OBVIOUS
  <2>3. <<a>> \o <<>> = <<a>>
    BY <2>2, ConcatEmptySeq
  <2>4. SubSeq(<<a, b>>, 2, 1) = <<>>
    BY SubSeqEmpty
  <2> QED  BY <1>1, <2>1, <2>3, <2>4
<1> QED  BY <1>1, <1>2, <1>4, <1>5, <1>6

\* What the command line gives, cut to 16 bits.
LEMMA CutIs ==
  /\ Cut(<<>>) = <<>>
  /\ \A a : Cut(<<a>>) = <<Low(a)>>
  /\ \A a, b : Cut(<<a, b>>) = <<Low(a), Low(b)>>
<1>1. Cut(<<>>) = <<>>
  BY DEF Cut, Low
<1>2. ASSUME NEW a PROVE Cut(<<a>>) = <<Low(a)>>
  <2>1. DOMAIN <<a>> = {1} /\ <<a>>[1] = a
    OBVIOUS
  <2>2. Cut(<<a>>) = [i \in {1} |-> Low(a)]
    BY <2>1 DEF Cut, Low
  <2>3. ASSUME NEW c PROVE [i \in {1} |-> c] = <<c>>
    OBVIOUS
  <2> QED  BY <2>2, <2>3
<1>3. ASSUME NEW a, NEW b PROVE Cut(<<a, b>>) = <<Low(a), Low(b)>>
  <2>1. DOMAIN <<a, b>> = 1..2 /\ <<a, b>>[1] = a /\ <<a, b>>[2] = b
    OBVIOUS
  <2>2. ASSUME NEW f, f = [i \in 1..2 |-> f[i]] PROVE f = <<f[1], f[2]>>
    BY <2>2
  <2>3. Cut(<<a, b>>) = [i \in 1..2 |-> Cut(<<a, b>>)[i]]
    BY <2>1 DEF Cut, Low
  <2>4. Cut(<<a, b>>)[1] = Low(a) /\ Cut(<<a, b>>)[2] = Low(b)
    BY <2>1 DEF Cut, Low
  <2> QED  BY <2>2, <2>3, <2>4
<1> QED  BY <1>1, <1>2, <1>3

\* A pair put together from its parts.
LEMMA Joined ==
  ASSUME NEW a, NEW b
  PROVE  /\ <<>> \o <<a, b>> = <<a, b>>
         /\ <<a, b>> \o <<>> = <<a, b>>
         /\ <<a>> \o <<b>> = <<a, b>>
<1>1. <<a, b>> \in Seq({a, b})
  OBVIOUS
<1>2. <<>> \o <<a, b>> = <<a, b>> /\ <<a, b>> \o <<>> = <<a, b>>
  BY <1>1, ConcatEmptySeq
<1>3. <<a>> \o <<b>> = <<a, b>>
  <2>1. <<a>> \in Seq({a, b}) /\ <<b>> \in Seq({a, b}) /\ Len(<<a>>) = 1 /\ Len(<<b>>) = 1
        /\ <<a>>[1] = a /\ <<b>>[1] = b
    OBVIOUS
  <2> DEFINE j == <<a>> \o <<b>>
  <2>2. j \in Seq({a, b}) /\ Len(j) = 2 /\ j[1] = a /\ j[2] = b
    <3>1. /\ j \in Seq({a, b})
          /\ Len(j) = Len(<<a>>) + Len(<<b>>)
          /\ \A i \in 1..(Len(<<a>>) + Len(<<b>>)) :
               j[i] = IF i <= Len(<<a>>) THEN <<a>>[i] ELSE <<b>>[i - Len(<<a>>)]
      BY <2>1, ConcatProperties
    <3> HIDE DEF j
    <3>2. Len(<<a>>) + Len(<<b>>) = 2 /\ 1 \in 1..2 /\ 2 \in 1..2 /\ 2 - 1 = 1
      BY <2>1
    <3> QED  BY <2>1, <3>1, <3>2
  <2> HIDE DEF j
  <2>3. j = <<a, b>>
    BY <2>2
  <2> QED  BY <2>3 DEF j
<1> QED  BY <1>2, <1>3
\* The range made of what is given and what is answered, each way.
LEMMA Answered ==
  ASSUME NEW a, NEW b
  PROVE  /\ Cut(<<>>) \o <<a, b>> = <<a, b>>
         /\ Cut(<<a>>) \o <<b>> = <<Low(a), b>>
         /\ Cut(<<a, b>>) \o <<>> = <<Low(a), Low(b)>>
<1>1. Cut(<<>>) = <<>> /\ Cut(<<a>>) = <<Low(a)>> /\ Cut(<<a, b>>) = <<Low(a), Low(b)>>
  BY CutIs, Zenon
<1>2. <<>> \o <<a, b>> = <<a, b>> /\ <<Low(a)>> \o <<b>> = <<Low(a), b>>
      /\ <<Low(a), Low(b)>> \o <<>> = <<Low(a), Low(b)>>
  BY Joined, Zenon
<1> QED  BY <1>1, <1>2, Zenon

\* What PrintMemRange does with the range it arrives at.
LEMMA RangeIs ==
  ASSUME NEW given, NEW answers, NEW x, NEW y, Cut(given) \o answers = <<x, y>>
  PROVE  /\ Refused(answers, x, y) => PrintMemRange(given, answers) = <<>>
         /\ ~ Refused(answers, x, y) => PrintMemRange(given, answers) = ShowMem(x, y)
<1> DEFINE c == [i \in DOMAIN given |-> given[i] % 65536]
<1>1. c = Cut(given)
  BY DEF Cut
<1>2. PrintMemRange(given, answers)
        = IF Refused(answers, (c \o answers)[1], (c \o answers)[2])
          THEN <<>> ELSE ShowMem((c \o answers)[1], (c \o answers)[2])
  BY DEF PrintMemRange, Refused, TooBig
<1> HIDE DEF c
<1>3. <<x, y>>[1] = x /\ <<x, y>>[2] = y
  BY Pair, Zenon
<1>4. (c \o answers)[1] = x /\ (c \o answers)[2] = y
  BY <1>1, <1>3, Zenon
<1>5. PrintMemRange(given, answers) = IF Refused(answers, x, y) THEN <<>> ELSE ShowMem(x, y)
  BY <1>2, <1>4, Zenon
<1> QED  BY <1>5, Zenon

\* A range is refused for an answer above 16 bits or for ending before it starts.
LEMMA RefusedIs ==
  ASSUME NEW a, NEW b, NEW x, NEW y
  PROVE  /\ Refused(<<>>, x, y) <=> y < x
         /\ Refused(<<a>>, x, y) <=> TooBig(a) \/ y < x
         /\ Refused(<<a, b>>, x, y) <=> TooBig(a) \/ TooBig(b) \/ y < x
<1>1. Refused(<<>>, x, y) <=> y < x
  BY DEF Refused
<1>2. Refused(<<a>>, x, y) <=> TooBig(a) \/ y < x
  <2>1. DOMAIN <<a>> = {1} /\ <<a>>[1] = a
    OBVIOUS
  <2> QED  BY <2>1, Zenon DEF Refused
<1>3. Refused(<<a, b>>, x, y) <=> TooBig(a) \/ TooBig(b) \/ y < x
  <2>1. DOMAIN <<a, b>> = {1, 2} /\ <<a, b>>[1] = a /\ <<a, b>>[2] = b
    OBVIOUS
  <2> QED  BY <2>1, Zenon DEF Refused
<1> QED  BY <1>1, <1>2, <1>3, Zenon

\* A range not refused is shown.
LEMMA Shows ==
  ASSUME NEW given, NEW answers, NEW x, NEW y,
         Cut(given) \o answers = <<x, y>>, ~ Refused(answers, x, y)
  PROVE  Displays(given, answers, x, y)
BY RangeIs, Zenon DEF Displays

\* The command takes the range from its arguments or from the questions.
LEMMA RangeGiven ==
  ASSUME NEW start, NEW last, InRange(start, last)
  PROVE  /\ Displays(<<>>, <<start, last>>, start, last)
         /\ Displays(<<start>>, <<last>>, start, last)
         /\ Displays(<<start, last>>, <<>>, start, last)
<1>1. Displays(<<>>, <<start, last>>, start, last)
  <2>1. Cut(<<>>) \o <<start, last>> = <<start, last>>
    BY Answered, Zenon DEF InRange
  <2>2. ~ Refused(<<start, last>>, start, last)
    BY RefusedIs, Zenon DEF InRange
  <2> QED  BY <2>1, <2>2, Shows, Zenon
<1>2. Displays(<<start>>, <<last>>, start, last)
  <2>1. Cut(<<start>>) \o <<last>> = <<start, last>>
    BY Answered, ZenonT(60) DEF InRange
  <2>2. ~ Refused(<<last>>, start, last)
    BY RefusedIs, Zenon DEF InRange
  <2> QED  BY <2>1, <2>2, Shows, Zenon
<1>3. Displays(<<start, last>>, <<>>, start, last)
  <2>1. Cut(<<start, last>>) \o <<>> = <<start, last>>
    BY Answered, ZenonT(60) DEF InRange
  <2>2. ~ Refused(<<>>, start, last)
    BY RefusedIs, Zenon DEF InRange
  <2> QED  BY <2>1, <2>2, Shows, Zenon
<1> QED  BY <1>1, <1>2, <1>3, Zenon

\* An address above 16 bits is refused as an answer and wraps as an argument.
LEMMA RangeRefused ==
  ASSUME NEW a, NEW b, Low(a) = a
  PROVE  /\ TooBig(b) => Rejects(a, b)
         /\ \A c : a < Low(c) => Rejects(c, a)
<1>1. ASSUME TooBig(b) PROVE PrintMemRange(<<a>>, <<b>>) = <<>>
  <2>1. Cut(<<a>>) \o <<b>> = <<a, b>>
    BY Answered, Zenon
  <2>2. Refused(<<b>>, a, b)
    BY <1>1, RefusedIs, Zenon
  <2> QED  BY <2>1, <2>2, RangeIs, Zenon
<1>2. ASSUME NEW c, a < Low(c) PROVE PrintMemRange(<<c>>, <<a>>) = <<>>
  <2>1. Cut(<<c>>) \o <<a>> = <<Low(c), a>>
    BY Answered, Zenon
  <2>2. Refused(<<a>>, Low(c), a)
    BY <1>2, RefusedIs, Zenon
  <2> QED  BY <2>1, <2>2, RangeIs, Zenon
<1> QED  BY <1>1, <1>2, Zenon DEF Rejects

\* None, one or both of the addresses given, the rest asked for.
LEMMA ThreeWays ==
  ASSUME NEW start, NEW last, NEW k \in 0..2, InRange(start, last)
  PROVE  DisplaysAfter(start, last, k)
<1>1. /\ Displays(<<>>, <<start, last>>, start, last)
      /\ Displays(<<start>>, <<last>>, start, last)
      /\ Displays(<<start, last>>, <<>>, start, last)
  BY RangeGiven, Zenon
<1>2. (k = 0 /\ k + 1 = 1) \/ (k = 1 /\ k + 1 = 2) \/ (k = 2 /\ k + 1 = 3)
  OBVIOUS
<1>3. SubSeq(<<start, last>>, 1, 0) = <<>> /\ SubSeq(<<start, last>>, 1, 2) = <<start, last>>
      /\ SubSeq(<<start, last>>, 3, 2) = <<>> /\ SubSeq(<<start, last>>, 1, 1) = <<start>>
      /\ SubSeq(<<start, last>>, 2, 2) = <<last>>
  BY Pair, Zenon
<1> QED  BY <1>1, <1>2, <1>3, Zenon DEF DisplaysAfter, Displays


\* All of the above for a range of 16-bit addresses.
LEMMA RangeTaken ==
  ASSUME NEW start \in Nat, NEW last \in Nat, start <= last, last < 65536
  PROVE  /\ \A k \in 0..2 :
              PrintMemRange(SubSeq(<<start, last>>, 1, k), SubSeq(<<start, last>>, k + 1, 2))
                = ShowMem(start, last)
         /\ PrintMemRange(<<start>>, <<last + 65536>>) = <<>>
         /\ last < 65535 => PrintMemRange(<<last + 65537>>, <<start>>) = <<>>
<1>1. start % 65536 = start /\ last % 65536 = last
  BY Wraps
<1>2. InRange(start, last) /\ Low(start) = start
  BY <1>1 DEF InRange, Low, TooBig
<1>3. ASSUME NEW k \in 0..2
      PROVE  PrintMemRange(SubSeq(<<start, last>>, 1, k), SubSeq(<<start, last>>, k + 1, 2))
               = ShowMem(start, last)
  <2>1. DisplaysAfter(start, last, k)
    BY <1>2, ThreeWays
  <2> QED  BY <2>1 DEF DisplaysAfter
<1>4. PrintMemRange(<<start>>, <<last + 65536>>) = <<>>
  <2>1. TooBig(last + 65536)
    BY DEF TooBig
  <2>2. Rejects(start, last + 65536)
    BY <1>2, <2>1, RangeRefused
  <2> QED  BY <2>2 DEF Rejects
<1>5. ASSUME last < 65535 PROVE PrintMemRange(<<last + 65537>>, <<start>>) = <<>>
  <2>1. Low(last + 65537) = last + 1
    <3>1. last + 65537 \in Nat /\ last + 65537 >= 65536 /\ last + 65537 < 131072
      BY <1>5
    <3>2. (last + 65537) % 65536 = (last + 65537) - 65536
      BY <3>1, Wraps
    <3> QED  BY <3>2 DEF Low
  <2>2. start < Low(last + 65537)
    BY <2>1
  <2>3. Rejects(last + 65537, start)
    BY <1>2, <2>2, RangeRefused
  <2> QED  BY <2>3 DEF Rejects
<1> QED  BY <1>3, <1>4, <1>5

(***************************************************************************)
(* DumpShowsMemory: a dump of any length anywhere in the address space is  *)
(* complete, in order and shows what the CPU reads.                        *)
(***************************************************************************)
THEOREM DumpShowsMemoryHolds == Spec => []DumpShowsMemory
<1>1. ASSUME Probing PROVE DumpShowsMemory
  <2> SUFFICES ASSUME NEW start \in {probe, probe + RamBytes}, NEW n \in DumpLengths,
                      start + n <= 65536
               PROVE  LET last  == start + n - 1
                          shown == FlattenSeq(ShowMem(start, last))
                      IN  /\ shown = [i \in 1..n |-> start + i - 1]
                          /\ \A kernel \in BOOLEAN, i \in 1..n :
                               SimReadMem(kernel, table, shown[i]) = CpuReads(kernel, table, shown[i])
                          /\ \A k \in 0..2 :
                               PrintMemRange(SubSeq(<<start, last>>, 1, k),
                                             SubSeq(<<start, last>>, k + 1, 2))
                                 = ShowMem(start, last)
                          /\ PrintMemRange(<<start>>, <<last + 65536>>) = <<>>
                          /\ last < 65535 => PrintMemRange(<<last + 65537>>, <<start>>) = <<>>
    BY DEF DumpShowsMemory
  <2> DEFINE last == start + n - 1
             shown == FlattenSeq(ShowMem(start, last))
  <2>1. n \in Nat /\ n > 0
    BY ProbeAssumption
  <2>2. start \in Nat
    <3>1. probe \in Nat
      BY <1>1, AtProbe DEF RamVA
    <3> QED  BY <3>1 DEF RamBytes
  <2>3. last \in Nat /\ start <= last /\ last < 65536 /\ last - start + 1 = n
    BY <2>1, <2>2
  <2> HIDE DEF last
  <2>4. PICK l : Spans(start, last, l)
    <3>1. PICK d \in Nat : d = last - start
      BY <2>2, <2>3
    <3>2. d \div 16 \in Nat /\ 16 * (d \div 16) <= d /\ d < 16 * (d \div 16) + 16
      OBVIOUS
    <3>3. Spans(start, last, d \div 16)
      BY <2>2, <2>3, <3>1, <3>2 DEF Spans
    <3> QED  BY <3>3
  <2>5. shown = Run(start, n)
    BY <2>3, <2>4, DumpFlattens
  <2> HIDE DEF shown
  <2>6. shown = [i \in 1..n |-> start + i - 1]
    BY <2>5 DEF Run
  <2>7. ASSUME NEW kernel \in BOOLEAN, NEW i \in 1..n
        PROVE  SimReadMem(kernel, table, shown[i]) = CpuReads(kernel, table, shown[i])
    <3>1. shown[i] = start + i - 1
      BY <2>6
    <3>2. start + i - 1 \in Nat /\ start + i - 1 < 65536
      BY <2>1, <2>2
    <3>3. shown[i] \in Addr16
      BY <3>1, <3>2, InAddr16
    <3>4. table \in PageTables
      BY <1>1, AtProbe
    <3> QED  BY <3>3, <3>4, SimReadMemIsCpuRead
  <2>8. /\ \A k \in 0..2 :
             PrintMemRange(SubSeq(<<start, last>>, 1, k), SubSeq(<<start, last>>, k + 1, 2))
               = ShowMem(start, last)
        /\ PrintMemRange(<<start>>, <<last + 65536>>) = <<>>
        /\ last < 65535 => PrintMemRange(<<last + 65537>>, <<start>>) = <<>>
    BY <2>2, <2>3, RangeTaken
  <2> QED  BY <2>6, <2>7, <2>8 DEF last, shown
<1>2. Probing => DumpShowsMemory
  BY <1>1
<1> QED  BY <1>2, ProbingHolds, PTL
=============================================================================
