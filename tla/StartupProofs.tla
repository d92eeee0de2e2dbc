--------------------------- MODULE StartupProofs ---------------------------
(***************************************************************************)
(* The start of the system, for every layout the kernel's programs can     *)
(* have: whatever happened to the disk, and whenever the machine is reset, *)
(* the kernel in RAM is the one on the disk and every process has its      *)
(* program.                                                                *)
(***************************************************************************)
EXTENDS Startup, TLAPS

----------------------------------------------------------------------------
(* Names for the places and blocks of a program, and what the assumptions  *)
(* on the layout say of them. The proofs below do no arithmetic on them.   *)

Table(q)    == SpawnPpn(Programs[q].base)
BlockNos(q) == 0..(Programs[q].nblocks - 1)
Place(q, n) == 8 * Programs[q].base + 8 + n   \* the sector of block n
Block(q, n) == Programs[q].lba + n
KernelImage == 1..KernelUsed
KernelArea  == {0, KernelCStack} \union KernelBss

LEMMA CallTypes ==
  ASSUME NEW q \in Calls
  PROVE  /\ Programs[q].lba \in Nat
         /\ Programs[q].nblocks \in 1..56 /\ Programs[q].base \in 1..6
         /\ \A n \in BlockNos(q) : 8 * Programs[q].base + 8 + n < 56 /\ n \in 0..55
<1>1. Programs[q].lba \in Nat /\ Programs[q].nblocks \in 1..56 /\ Programs[q].base \in 1..6
  BY StartupAssumption, LayoutAssumption
<1>2. \A s \in ImageSectors(q) : s < 56
  BY LayoutAssumption
<1>3. ASSUME NEW n \in BlockNos(q)
      PROVE  8 * Programs[q].base + 8 + n < 56 /\ n \in 0..55
  <2>1. n \in 0..55
    BY <1>1 DEF BlockNos
  <2>2. 8 * Programs[q].base + 8 + n \in ImageSectors(q)
    BY <1>1 DEF BlockNos, ImageSectors
  <2> QED  BY <1>2, <2>1, <2>2
<1> QED  BY <1>1, <1>3

LEMMA Fits ==
  ASSUME NEW q \in Calls
  PROVE  /\ StackSector(q) \in Sectors /\ CStackSector(q) \in Sectors
         /\ \A n \in BlockNos(q) : Place(q, n) \in Sectors
<1>1. Programs[q].base \in 1..6
  BY CallTypes
<1>2. StackSector(q) \in Sectors /\ CStackSector(q) \in Sectors
  BY <1>1 DEF StackSector, CStackSector, Sectors
<1>3. ASSUME NEW n \in BlockNos(q) PROVE Place(q, n) \in Sectors
  <2>1. 8 * Programs[q].base + 8 + n < 56 /\ n \in 0..55
    BY CallTypes
  <2> QED  BY <1>1, <2>1 DEF Place, Sectors
<1> QED  BY <1>2, <1>3

LEMMA ApartFromKernel ==
  ASSUME NEW q \in Calls
  PROVE  /\ StackSector(q) \notin KernelImage \union KernelArea
         /\ CStackSector(q) \notin KernelImage \union KernelArea
         /\ \A n \in BlockNos(q) : Place(q, n) \notin KernelImage \union KernelArea
         /\ \A m \in 1..KernelNsec : m # StackSector(q) /\ \A n \in BlockNos(q) : m # Place(q, n)
         /\ \A m \in 1..KernelNsec : m \in Sectors /\ m \notin KernelArea
<1>1. Programs[q].base \in 1..6 /\ KernelNsec \in 1..62 /\ KernelUsed \in 1..KernelNsec
      /\ KernelNsec < 8 * Programs[q].base /\ KernelUsed < 8 * Programs[q].base - 1
  BY CallTypes, StartupAssumption, LayoutAssumption DEF StackSector, CStackSector
<1>2. StackSector(q) \notin KernelImage \union KernelArea
  BY <1>1 DEF StackSector, KernelImage, KernelArea, KernelCStack, KernelBss
<1>3. CStackSector(q) \notin KernelImage \union KernelArea
  BY <1>1 DEF CStackSector, KernelImage, KernelArea, KernelCStack, KernelBss
<1>4. ASSUME NEW n \in BlockNos(q) PROVE Place(q, n) \notin KernelImage \union KernelArea
  <2>1. 8 * Programs[q].base + 8 + n < 56 /\ n \in 0..55
    BY CallTypes
  <2> QED  BY <1>1, <2>1 DEF Place, KernelImage, KernelArea, KernelCStack, KernelBss
<1>5. ASSUME NEW m \in 1..KernelNsec
      PROVE  /\ m # StackSector(q) /\ m \in Sectors /\ m \notin KernelArea
             /\ \A n \in BlockNos(q) : m # Place(q, n)
  <2>1. m # StackSector(q)
    BY <1>1 DEF StackSector
  <2>2. m \in Sectors /\ m \notin KernelArea
    BY <1>1 DEF Sectors, KernelArea, KernelCStack, KernelBss
  <2>3. ASSUME NEW n \in BlockNos(q) PROVE m # Place(q, n)
    <3>1. n \in 0..55
      BY CallTypes
    <3> QED  BY <1>1, <3>1 DEF Place
  <2> QED  BY <2>1, <2>2, <2>3
<1> QED  BY <1>2, <1>3, <1>4, <1>5

LEMMA ApartFromOthers ==
  ASSUME NEW q \in Calls, NEW r \in Calls, q # r
  PROVE  /\ StackSector(q) # StackSector(r) /\ CStackSector(q) # StackSector(r)
         /\ \A n \in BlockNos(r) : StackSector(q) # Place(r, n) /\ CStackSector(q) # Place(r, n)
         /\ \A n \in BlockNos(q) : Place(q, n) # StackSector(r)
         /\ \A n \in BlockNos(q), m \in BlockNos(r) : Place(q, n) # Place(r, m)
<1>1. Own(q) \intersect (Own(r) \union {CStackSector(r)}) = {}
      /\ Own(r) \intersect (Own(q) \union {CStackSector(q)}) = {}
  BY LayoutAssumption
<1>2. ASSUME NEW t \in Calls PROVE StackSector(t) \in Own(t) /\ \A n \in BlockNos(t) : Place(t, n) \in Own(t)
  <2>1. Programs[t].base \in 1..6 /\ Programs[t].nblocks \in 1..56
    BY CallTypes
  <2>2. ASSUME NEW n \in BlockNos(t) PROVE Place(t, n) \in ImageSectors(t)
    BY <2>1 DEF BlockNos, Place, ImageSectors
  <2> QED  BY <2>2 DEF Own
<1> QED  BY <1>1, <1>2, Zenon

LEMMA ApartInside ==
  ASSUME NEW q \in Calls
  PROVE  /\ StackSector(q) # CStackSector(q)
         /\ \A n \in BlockNos(q) : StackSector(q) # Place(q, n) /\ CStackSector(q) # Place(q, n)
         /\ \A n, m \in BlockNos(q) : Place(q, n) = Place(q, m) => n = m
<1>1. Programs[q].base \in 1..6 /\ BlockNos(q) \subseteq Nat
  BY CallTypes
<1> QED  BY <1>1 DEF StackSector, CStackSector, Place

----------------------------------------------------------------------------
(* Where the page tables put things.                                       *)

LEMMA StackPlace ==
  ASSUME NEW q \in Calls
  PROVE  /\ SectorOf(UserAddr(Table(q), StackVA)) = StackSector(q)
         /\ SectorOf(UserAddr(Table(q), FrameVA)) = StackSector(q)
         /\ SectorOf(Table(q)[0] * PageSize + FrameVA) = StackSector(q)
         /\ SectorOf(UserAddr(Table(q), CStackVA)) = CStackSector(q)
<1>1. PICK k \in 1..6 : Programs[q].base = k
  BY CallTypes
<1>2. Table(q)[0] = 4 * k /\ Table(q)[31] = 4 * k - 1
  <2>1. 0 \in VPages /\ 31 \in VPages
    BY DEF VPages
  <2>2. SpawnPpn(k)[0] = (k % 8) * 4 /\ SpawnPpn(k)[31] = ((k + 7) % 8) * 4 + 3
    BY <2>1 DEF SpawnPpn
  <2>3. k % 8 = k /\ (k + 7) % 8 = k - 1
    OBVIOUS
  <2>4. (k - 1) * 4 + 3 = 4 * k - 1
    OBVIOUS
  <2> QED  BY <1>1, <2>2, <2>3, <2>4 DEF Table
<1>3. UserAddr(Table(q), StackVA) = 4096 * k + 511 /\ UserAddr(Table(q), FrameVA) = 4096 * k + 509
      /\ UserAddr(Table(q), CStackVA) = 512 * (8 * k - 1) + 255
      /\ Table(q)[0] * PageSize + FrameVA = 4096 * k + 509
  BY <1>2 DEF UserAddr, Vpn, Offset, PageSize, StackVA, FrameVA, CStackVA
<1>4. (4096 * k + 511) \div 512 = 8 * k /\ (4096 * k + 509) \div 512 = 8 * k
      /\ (512 * (8 * k - 1) + 255) \div 512 = 8 * k - 1
  OBVIOUS
<1> QED  BY <1>1, <1>3, <1>4 DEF SectorOf, StackSector, CStackSector

LEMMA ImagePlace ==
  ASSUME NEW q \in Calls, NEW n \in BlockNos(q)
  PROVE  /\ SectorOf(SectorPA(Table(q), n)) = Place(q, n)
         /\ SectorOf(UserAddr(Table(q), SectorVA(n))) = Place(q, n)
<1>1. PICK k \in 1..6 : Programs[q].base = k
  BY CallTypes
<1>2. n \in 0..55 /\ 8 * k + 8 + n < 56
  BY <1>1, CallTypes
<1>3. PICK g \in 0..6, c \in 0..3, h \in 0..1 : n = 8 * g + 2 * c + h
  <2>1. n \div 8 \in 0..6 /\ n % 8 \in 0..7 /\ n = 8 * (n \div 8) + (n % 8)
    BY <1>2
  <2>2. PICK e \in 0..7 : n % 8 = e
    BY <2>1
  <2>3. e \div 2 \in 0..3 /\ e % 2 \in 0..1 /\ e = 2 * (e \div 2) + (e % 2)
    OBVIOUS
  <2> QED  BY <2>1, <2>2, <2>3
<1>4. SectorVA(n) = 1024 * (4 + (4 * g + c)) + 512 * h
  BY <1>2, <1>3 DEF SectorVA
<1>5. SectorVA(n) \div 1024 = 4 + (4 * g + c) /\ SectorVA(n) % 1024 = 512 * h
  <2>1. (1024 * (4 + (4 * g + c)) + 512 * h) \div 1024 = 4 + (4 * g + c)
        /\ (1024 * (4 + (4 * g + c)) + 512 * h) % 1024 = 512 * h
    OBVIOUS
  <2> QED  BY <1>4, <2>1
<1>6. Table(q)[4 + (4 * g + c)] = 4 * (k + 1 + g) + c
  <2>1. k + 1 + g <= 6 /\ 4 + (4 * g + c) <= 31
    BY <1>2, <1>3
  <2>2. 4 + (4 * g + c) \in VPages
    BY <2>1 DEF VPages
  <2>3. (4 + (4 * g + c)) \div 4 = 1 + g /\ (4 + (4 * g + c)) % 4 = c
    OBVIOUS
  <2>4. SpawnPpn(k)[4 + (4 * g + c)] = ((k + (1 + g)) % 8) * 4 + c
    BY <2>2, <2>3 DEF SpawnPpn
  <2>5. (k + (1 + g)) % 8 = k + 1 + g
    BY <2>1
  <2> QED  BY <1>1, <2>4, <2>5 DEF Table
<1>7. (4 + (4 * g + c)) % 32 = 4 + (4 * g + c)
  BY <1>2, <1>3
<1>8. SectorPA(Table(q), n) = (4 * (k + 1 + g) + c) * 1024 + 512 * h
  BY <1>5, <1>6 DEF SectorPA, PageSize
<1>9. UserAddr(Table(q), SectorVA(n)) = (4 * (k + 1 + g) + c) * 1024 + 512 * h
  BY <1>5, <1>6, <1>7 DEF UserAddr, Vpn, Offset, PageSize
<1>10. ((4 * (k + 1 + g) + c) * 1024 + 512 * h) \div 512 = 8 * k + 8 + (8 * g + 2 * c + h)
  <2>1. (4 * (k + 1 + g) + c) * 1024 + 512 * h = 512 * (8 * k + 8 + (8 * g + 2 * c + h))
    OBVIOUS
  <2>2. (512 * (8 * k + 8 + (8 * g + 2 * c + h))) \div 512 = 8 * k + 8 + (8 * g + 2 * c + h)
    OBVIOUS
  <2> QED  BY <2>1, <2>2
<1> QED  BY <1>1, <1>3, <1>8, <1>9, <1>10 DEF SectorOf, Place

----------------------------------------------------------------------------
(* The boot ROM's counters.                                                *)

LEMMA ValueOfBytes ==
  ASSUME NEW n \in Nat, n \div 65536 < 65536
  PROVE  Bytes4(n) \in [0..3 -> Byte] /\ Value4(Bytes4(n)) = n
<1>1. PICK h \in Nat, l \in Nat : n = 65536 * h + l /\ l < 65536 /\ h < 65536
  <2>1. n = 65536 * (n \div 65536) + (n % 65536) /\ n % 65536 \in Nat /\ n % 65536 < 65536
        /\ n \div 65536 \in Nat
    OBVIOUS
  <2> QED  BY <2>1
<1>2. PICK h1 \in Nat, h0 \in Nat : h = 256 * h1 + h0 /\ h1 <= 255 /\ h0 <= 255
  <2>1. h \div 256 \in Nat /\ h % 256 \in Nat /\ h = 256 * (h \div 256) + (h % 256)
        /\ h \div 256 <= 255 /\ h % 256 <= 255
    BY <1>1
  <2> QED  BY <2>1
<1>3. PICK l1 \in Nat, l0 \in Nat : l = 256 * l1 + l0 /\ l1 <= 255 /\ l0 <= 255
  <2>1. l \div 256 \in Nat /\ l % 256 \in Nat /\ l = 256 * (l \div 256) + (l % 256)
        /\ l \div 256 <= 255 /\ l % 256 <= 255
    BY <1>1
  <2> QED  BY <2>1
<1>a. h1 \in 0..255 /\ h0 \in 0..255 /\ l1 \in 0..255 /\ l0 \in 0..255
  BY <1>2, <1>3
<1>4. n = 16777216 * h1 + 65536 * h0 + 256 * l1 + l0
  BY <1>1, <1>2, <1>3
<1>5. (n \div 1) % 256 = l0 /\ (n \div 256) % 256 = l1
  <2>1. n \div 1 = n /\ n % 256 = l0
    BY <1>4, <1>a
  <2>2. n \div 256 = 256 * (256 * h1 + h0) + l1
    BY <1>4, <1>a
  <2>3. (256 * (256 * h1 + h0) + l1) % 256 = l1
    BY <1>a
  <2> QED  BY <2>1, <2>2, <2>3
<1>6. (n \div 65536) % 256 = h0 /\ (n \div 16777216) % 256 = h1
  <2>1. n \div 65536 = 256 * h1 + h0 /\ n \div 16777216 = h1
    BY <1>4, <1>a
  <2>2. (256 * h1 + h0) % 256 = h0 /\ h1 % 256 = h1
    BY <1>a
  <2> QED  BY <2>1, <2>2
<1>7. Bytes4(n)[0] = l0 /\ Bytes4(n)[1] = l1 /\ Bytes4(n)[2] = h0 /\ Bytes4(n)[3] = h1
  BY <1>5, <1>6 DEF Bytes4, PlaceValue
<1>8. Value4(Bytes4(n)) = n
  BY <1>4, <1>7, <1>a DEF Value4
<1>9. \A i \in 0..3 : Bytes4(n)[i] \in Byte
  BY <1>7, <1>a DEF Byte
<1>10. Bytes4(n) \in [0..3 -> Byte]
  BY <1>9 DEF Bytes4
<1> QED  BY <1>8, <1>10

\* Four increments and their carries count up by one.
LEMMA IncCounts ==
  ASSUME NEW v \in [0..3 -> Byte], Value4(v) + 1 < 65536 * 65536
  PROVE  IncLba(v) \in [0..3 -> Byte] /\ Value4(IncLba(v)) = Value4(v) + 1
<1>0. v[0] \in Byte /\ v[1] \in Byte /\ v[2] \in Byte /\ v[3] \in Byte
  BY DEF Byte
<1>a. PICK b0 \in 0..255 : v[0] = b0
  BY <1>0 DEF Byte
<1>b. PICK b1 \in 0..255 : v[1] = b1
  BY <1>0 DEF Byte
<1>c. PICK b2 \in 0..255 : v[2] = b2
  BY <1>0 DEF Byte
<1>d. PICK b3 \in 0..255 : v[3] = b3
  BY <1>0 DEF Byte
<1>1. v[0] = b0 /\ v[1] = b1 /\ v[2] = b2 /\ v[3] = b3
  BY <1>a, <1>b, <1>c, <1>d
<1>2. /\ IncLba(v)[0] = (b0 + 1) % 256
      /\ IncLba(v)[1] = IF b0 = 255 THEN (b1 + 1) % 256 ELSE b1
      /\ IncLba(v)[2] = IF b0 = 255 /\ b1 = 255 THEN (b2 + 1) % 256 ELSE b2
      /\ IncLba(v)[3] = IF b0 = 255 /\ b1 = 255 /\ b2 = 255 THEN (b3 + 1) % 256 ELSE b3
  BY <1>1 DEF IncLba
<1>3. \A n \in 0..255 : (n = 255 => (n + 1) % 256 = 0) /\ (n # 255 => (n + 1) % 256 = n + 1)
  OBVIOUS
<1>4. Value4(v) = b0 + 256 * b1 + 65536 * b2 + 16777216 * b3
  BY <1>1 DEF Value4
<1>5. ~ (b0 = 255 /\ b1 = 255 /\ b2 = 255 /\ b3 = 255)
  BY <1>4
<1>6. Value4(IncLba(v)) = Value4(v) + 1
  <2>1. CASE b0 # 255
    BY <1>2, <1>3, <1>4, <2>1 DEF Value4
  <2>2. CASE b0 = 255 /\ b1 # 255
    BY <1>2, <1>3, <1>4, <2>2 DEF Value4
  <2>3. CASE b0 = 255 /\ b1 = 255 /\ b2 # 255
    BY <1>2, <1>3, <1>4, <2>3 DEF Value4
  <2>4. CASE b0 = 255 /\ b1 = 255 /\ b2 = 255
    BY <1>2, <1>3, <1>4, <1>5, <2>4 DEF Value4
  <2> QED  BY <2>1, <2>2, <2>3, <2>4
<1>7. \A i \in 0..3 : IncLba(v)[i] \in Byte
  BY <1>2, <1>3 DEF Byte
<1>8. IncLba(v) \in [0..3 -> Byte]
  BY <1>7 DEF IncLba
<1> QED  BY <1>6, <1>8

LEMMA DecCounts ==
  ASSUME NEW c \in [lo : Byte, hi : Byte], 256 * c.hi + c.lo > 0
  PROVE  DecCount(c) \in [lo : Byte, hi : Byte]
         /\ 256 * DecCount(c).hi + DecCount(c).lo = (256 * c.hi + c.lo) - 1
<1>1. PICK l \in 0..255, h \in 0..255 : c.lo = l /\ c.hi = h
  BY DEF Byte
<1>2. CASE l = 0
  <2>1. h >= 1
    BY <1>1, <1>2
  <2>2. (l + 255) % 256 = 255 /\ (h + 255) % 256 = h - 1
    BY <1>2, <2>1
  <2>3. DecCount(c) = [lo |-> 255, hi |-> h - 1]
    BY <1>1, <1>2, <2>2 DEF DecCount
  <2> QED  BY <1>1, <1>2, <2>1, <2>3 DEF Byte
<1>3. CASE l # 0
  <2>1. (l + 255) % 256 = l - 1
    BY <1>3
  <2>2. DecCount(c) = [lo |-> l - 1, hi |-> h]
    BY <1>1, <1>3, <2>1 DEF DecCount
  <2> QED  BY <1>1, <1>3, <2>2 DEF Byte
<1> QED  BY <1>2, <1>3

----------------------------------------------------------------------------
(* The inductive invariant.                                                *)

PageTablesUsed == {Identity} \union {SpawnPpn(n) : n \in 0..7}
Procs == [state : {"exited", "waiting", "running"}, lba : Byte, sp : {0, FirstSP, YieldSP},
          table : PageTablesUsed]

\* Types, b's and ptr's bounds aside.
Types ==
  /\ pc \in {"reset", "boot_record", "load", "halt", "kentry", "hang", "spawn", "copy",
             "sched_start", "user", "lost"}
  /\ DOMAIN ram = Sectors /\ handler \in {"none", "early_brk", "brk_handler"}
  /\ ptr \in Nat /\ ptr <= 65535 /\ lba \in [0..3 -> Byte] /\ count \in [lo : Byte, hi : Byte]
  /\ call \in 1..(Len(Programs) + 1) /\ b \in Nat
  /\ plist \in [0..3 -> Procs] /\ nprocs \in 0..4 /\ cur \in 0..3 /\ mmu \in PageTablesUsed

\* Either no block can be read, and the machine gets no further than the boot
\* record, or the boot record and the kernel can.
DiskWorks ==
  /\ BootRecLba \in unreadable => (pc \in {"reset", "boot_record", "halt"} /\ buf = Unset)
  /\ BootRecLba \notin unreadable => unreadable \subseteq Flaky

KernelUntouched ==
  /\ \A s \in KernelArea : ram[s] = Unset
  /\ KernelRuns => \A n \in KernelImage : ram[n] = Contents(KernelLba + n - 1)

\* The boot ROM's loop after n sectors.
Loaded(n) ==
  /\ ptr = 512 * (n + 1) /\ Value4(lba) = KernelLba + n
  /\ 256 * count.hi + count.lo = KernelNsec - n
  /\ \A m \in 1..n : ram[m] = Contents(KernelLba + m - 1)
Loading == pc = "load" => \E n \in 0..KernelNsec : Loaded(n)

\* The call with program q succeeds.
Good(q) == Programs[q].lba \notin foreign /\ \A n \in BlockNos(q) : Block(q, n) \notin unreadable

\* spawn_bbx's loop after b blocks.
Copying ==
  /\ pc \in {"spawn", "copy"} => call \in Calls
  /\ pc = "copy" =>
       /\ nprocs < 4 /\ plist[nprocs].table = Table(call)
       /\ b <= Programs[call].nblocks
       /\ Programs[call].lba \notin foreign /\ Programs[call].lba \notin unreadable
       /\ b = 0 => buf = Contents(Block(call, 0))
       /\ \A n \in BlockNos(call) : n < b =>
            Block(call, n) \notin unreadable /\ ram[Place(call, n)] = Contents(Block(call, n))

\* Process p is program q.
Runs(p, q) ==
  /\ plist[p].lba = Programs[q].lba % 256 /\ plist[p].table = Table(q)
  /\ \A n \in BlockNos(q) : ram[Place(q, n)] = Contents(Block(q, n))
  /\ ram[StackSector(q)] \in {<<"frame", plist[p].lba>>, <<"data", plist[p].lba>>}

\* Every counted process is a program, loaded by an earlier call.
Placed ==
  \A p \in 0..(nprocs - 1) : \E q \in Calls : Runs(p, q) /\ (pc \in {"spawn", "copy"} => q < call)

\* If there ever was a process there is one again at the end of every boot:
\* what sched_start takes for a process, it or an earlier boot has made.
Counted ==
  /\ pc = "kentry" => nprocs = 0
  /\ pc = "sched_start" => call = Len(Programs) + 1
  /\ (nprocs > 0 \/ plist[0].sp # 0) => \E q \in Calls : Good(q)
  /\ pc \in {"spawn", "copy", "sched_start"} => \A q \in Calls : q < call /\ Good(q) => nprocs > 0
  /\ pc = "user" => (cur < nprocs /\ mmu = plist[cur].table)

StartupInv ==
  /\ Types /\ DiskWorks /\ KernelUntouched /\ Loading /\ Copying /\ Placed /\ Counted

----------------------------------------------------------------------------
(* Facts the steps below share.                                            *)

LEMMA SomeCall == 1 \in Calls /\ Calls \subseteq Nat
BY StartupAssumption DEF Calls

LEMMA KernelSectors ==
  \A m \in 1..KernelNsec : m \in Sectors /\ m \notin KernelArea
BY SomeCall, ApartFromKernel

LEMMA Disk ==
  ASSUME DiskWorks, BootRecLba \notin unreadable
  PROVE  \A n \in 0..(KernelNsec - 1) : KernelLba + n \notin unreadable
<1>1. unreadable \subseteq {0} \union UNION {ProgramBlocks(q) : q \in Calls}
  BY StartupAssumption DEF DiskWorks
<1>2. KernelBlocks \intersect ({0} \union UNION {ProgramBlocks(q) : q \in Calls}) = {}
  BY LayoutAssumption
<1>3. ASSUME NEW n \in 0..(KernelNsec - 1) PROVE KernelLba + n \in KernelBlocks
  BY StartupAssumption DEF KernelBlocks
<1> QED  BY <1>1, <1>2, <1>3

LEMMA ContentsKept ==
  ASSUME UNCHANGED still
  PROVE  /\ foreign' = foreign /\ unreadable' = unreadable
         /\ \A q \in Calls : Good(q)' <=> Good(q)
BY DEF still, Good

\* What a write elsewhere leaves of a process.
LEMMA RunsKept ==
  ASSUME NEW p, NEW q \in Calls, Runs(p, q), foreign' = foreign,
         plist'[p].lba = plist[p].lba, plist'[p].table = plist[p].table,
         \A n \in BlockNos(q) : ram'[Place(q, n)] = ram[Place(q, n)],
         ram'[StackSector(q)] = ram[StackSector(q)]
  PROVE  Runs(p, q)'
BY DEF Runs, Contents

\* Steps that leave RAM, the process table and the disk alone.
LEMMA PlacedKept ==
  ASSUME Placed, foreign' = foreign, ram' = ram, nprocs' = nprocs, plist' = plist,
         pc' \in {"spawn", "copy"} => (pc \in {"spawn", "copy"} /\ call' = call)
  PROVE  Placed'
<1> SUFFICES ASSUME NEW p \in 0..(nprocs - 1)
             PROVE  \E q \in Calls : Runs(p, q)' /\ (pc' \in {"spawn", "copy"} => q < call')
  BY DEF Placed
<1>1. PICK q \in Calls : Runs(p, q) /\ (pc \in {"spawn", "copy"} => q < call)
  BY DEF Placed
<1>2. Runs(p, q)'
  BY <1>1, RunsKept
<1> QED  BY <1>1, <1>2

LEMMA ProcessTable ==
  ASSUME NEW pl \in [0..3 -> Procs], NEW i \in 0..3, NEW st \in {"exited", "waiting", "running"},
         NEW t \in PageTablesUsed, NEW l \in Byte, NEW sp \in {0, FirstSP, YieldSP}
  PROVE  /\ [pl EXCEPT ![i].state = st] \in [0..3 -> Procs]
         /\ [pl EXCEPT ![i].table = t] \in [0..3 -> Procs]
         /\ [pl EXCEPT ![i].state = st, ![i].lba = l, ![i].sp = sp] \in [0..3 -> Procs]
         /\ [pl EXCEPT ![i].state = st, ![i].sp = sp] \in [0..3 -> Procs]
<1>1. pl[i] \in Procs
  OBVIOUS
<1>2. [pl[i] EXCEPT !.state = st] \in Procs /\ [pl[i] EXCEPT !.table = t] \in Procs
  BY <1>1 DEF Procs
<1>3. [[[pl[i] EXCEPT !.state = st] EXCEPT !.lba = l] EXCEPT !.sp = sp] \in Procs
  BY <1>1 DEF Procs
<1>4. [[pl[i] EXCEPT !.state = st] EXCEPT !.sp = sp] \in Procs
  BY <1>1 DEF Procs
<1>5. [pl EXCEPT ![i].state = st] \in [0..3 -> Procs] /\ [pl EXCEPT ![i].table = t] \in [0..3 -> Procs]
  BY <1>2
<1>6. [pl EXCEPT ![i].state = st, ![i].lba = l, ![i].sp = sp] \in [0..3 -> Procs]
  BY <1>3
<1>7. [pl EXCEPT ![i].state = st, ![i].sp = sp] \in [0..3 -> Procs]
  BY <1>4
<1> QED  BY <1>5, <1>6, <1>7

----------------------------------------------------------------------------
(* The invariant holds at first, and every step keeps it.                  *)

LEMMA ZeroBytes == Bytes4(0) \in [0..3 -> Byte]
<1>1. 0 \in Nat /\ 0 \div 65536 < 65536
  OBVIOUS
<1> QED  BY <1>1, ValueOfBytes

LEMMA InitInv == Init => StartupInv
<1> SUFFICES ASSUME Init PROVE StartupInv
  OBVIOUS
<1> USE DEF Init
<1>1. Types
  <2>1. NoProc \in Procs
    BY DEF NoProc, Procs, PageTablesUsed, Byte
  <2>2. plist \in [0..3 -> Procs]
    BY <2>1 DEF MaxProcs
  <2>3. lba \in [0..3 -> Byte]
    BY ZeroBytes
  <2>4. count \in [lo : Byte, hi : Byte]
    BY DEF Byte
  <2>5. call \in 1..(Len(Programs) + 1)
    BY StartupAssumption
  <2> QED  BY <2>2, <2>3, <2>4, <2>5 DEF Types, PageTablesUsed
<1>2. DiskWorks
  <2>1. BootRecLba \in AllBlocks
    BY DEF AllBlocks, Written
  <2>2. BootRecLba \notin Flaky
    <3>1. {BootRecLba} \intersect ({0} \union UNION {ProgramBlocks(q) : q \in Calls}) = {}
      BY LayoutAssumption
    <3> QED  BY <3>1, StartupAssumption
  <2> QED  BY <2>1, <2>2 DEF DiskWorks
<1>3. KernelUntouched
  <2>1. KernelArea \subseteq Sectors
    BY DEF KernelArea, Sectors, KernelCStack, KernelBss
  <2> QED  BY <2>1 DEF KernelUntouched, KernelRuns
<1>4. Loading /\ Copying
  BY DEF Loading, Copying
<1>5. Placed
  BY DEF Placed
<1>6. Counted
  BY DEF Counted, NoProc, MaxProcs
<1> QED  BY <1>1, <1>2, <1>3, <1>4, <1>5, <1>6 DEF StartupInv

LEMMA MachineResetInv == StartupInv /\ MachineReset => StartupInv'
<1> SUFFICES ASSUME StartupInv, MachineReset PROVE StartupInv'
  OBVIOUS
<1>0. foreign' = foreign /\ unreadable' = unreadable /\ (\A q \in Calls : Good(q)' <=> Good(q))
  BY DEF MachineReset, Good
<1>1. Types'
  BY DEF StartupInv, Types, MachineReset, PageTablesUsed, boot
<1>2. DiskWorks'
  BY DEF StartupInv, DiskWorks, MachineReset
<1>3. KernelUntouched'
  BY DEF StartupInv, KernelUntouched, KernelRuns, MachineReset
<1>4. Loading' /\ Copying'
  BY DEF MachineReset, Loading, Copying
<1>5. Placed'
  BY <1>0, PlacedKept DEF StartupInv, MachineReset
<1>6. Counted'
  BY <1>0 DEF StartupInv, Counted, MachineReset
<1> QED  BY <1>1, <1>2, <1>3, <1>4, <1>5, <1>6 DEF StartupInv

LEMMA ResetInv == StartupInv /\ Reset => StartupInv'
<1> SUFFICES ASSUME StartupInv, Reset PROVE StartupInv'
  OBVIOUS
<1>0. foreign' = foreign /\ unreadable' = unreadable /\ (\A q \in Calls : Good(q)' <=> Good(q))
  BY ContentsKept DEF Reset
<1>1. Types'
  BY DEF StartupInv, Types, Reset, boot
<1>2. DiskWorks'
  BY <1>0 DEF StartupInv, DiskWorks, Reset
<1>3. KernelUntouched'
  BY DEF StartupInv, KernelUntouched, KernelRuns, Reset
<1>4. Loading' /\ Copying'
  BY DEF Reset, Loading, Copying
<1>5. Placed'
  BY <1>0, PlacedKept DEF StartupInv, Reset
<1>6. Counted'
  BY <1>0 DEF StartupInv, Counted, Reset
<1> QED  BY <1>1, <1>2, <1>3, <1>4, <1>5, <1>6 DEF StartupInv

\* A sector written where the kernel is loaded touches no process and none of
\* the kernel's own data.
LEMMA KernelSectorWritten ==
  ASSUME StartupInv, NEW m \in 1..KernelNsec, NEW c, ram' = [ram EXCEPT ![m] = c],
         foreign' = foreign, plist' = plist, nprocs' = nprocs, pc' \notin {"spawn", "copy"}
  PROVE  /\ DOMAIN ram' = Sectors /\ ram'[m] = c
         /\ \A s \in KernelArea : ram'[s] = Unset
         /\ Placed'
<1>1. m \in Sectors /\ m \notin KernelArea
  BY KernelSectors
<1>2. DOMAIN ram = Sectors /\ \A s \in KernelArea : ram[s] = Unset
  BY DEF StartupInv, Types, KernelUntouched
<1>3. KernelArea \subseteq Sectors
  BY DEF KernelArea, Sectors, KernelCStack, KernelBss
<1>4. DOMAIN ram' = Sectors /\ ram'[m] = c /\ \A s \in Sectors \ {m} : ram'[s] = ram[s]
  BY <1>1, <1>2
<1>5. \A s \in KernelArea : ram'[s] = Unset
  BY <1>1, <1>2, <1>3, <1>4
<1>6. Placed'
  <2> SUFFICES ASSUME NEW p \in 0..(nprocs - 1) PROVE \E q \in Calls : Runs(p, q)'
    BY DEF Placed
  <2>1. PICK q \in Calls : Runs(p, q)
    BY DEF StartupInv, Placed
  <2>2. m # StackSector(q) /\ \A n \in BlockNos(q) : m # Place(q, n)
    BY ApartFromKernel
  <2>3. ram'[StackSector(q)] = ram[StackSector(q)]
        /\ \A n \in BlockNos(q) : ram'[Place(q, n)] = ram[Place(q, n)]
    BY <1>4, <2>2, Fits
  <2>4. Runs(p, q)'
    BY <2>1, <2>3, RunsKept
  <2> QED  BY <2>4
<1> QED  BY <1>4, <1>5, <1>6

LEMMA StageSector == SectorOf(Stage) = 1
BY DEF SectorOf, Stage

LEMMA KernelLbaFits ==
  /\ KernelLba \in Nat /\ KernelNsec \in 1..62 /\ KernelUsed \in 1..KernelNsec
  /\ KernelLba + KernelNsec < 65536 * 65536 /\ KernelLba \div 65536 < 65536
<1>1. PICK s \in Nat, d \in Nat : s = KernelLba + KernelNsec /\ d = KernelNsec /\ s - d = KernelLba
  BY StartupAssumption
<1>2. s \div 65536 < 65536
  BY <1>1, LayoutAssumption
<1>3. s < 65536 * 65536
  BY <1>2
<1>4. KernelLba \in Nat /\ KernelLba < 65536 * 65536
  BY <1>1, <1>3, StartupAssumption
<1>5. KernelLba \div 65536 < 65536
  BY <1>4
<1> QED  BY <1>1, <1>3, <1>5, StartupAssumption

LEMMA BootRecordInv == StartupInv /\ BootRecord => StartupInv'
<1> SUFFICES ASSUME StartupInv, BootRecord PROVE StartupInv'
  OBVIOUS
<1>0. foreign' = foreign /\ unreadable' = unreadable /\ (\A q \in Calls : Good(q)' <=> Good(q))
  BY ContentsKept DEF BootRecord
<1>1. pc = "boot_record" /\ pc' \in {"load", "halt"} /\ ram' = [ram EXCEPT ![1] = buf']
      /\ UNCHANGED <<handler, call, b, plist, nprocs, cur, mmu>>
  BY StageSector DEF BootRecord
<1>2. 1 \in 1..KernelNsec
  BY KernelLbaFits
<1>3. DOMAIN ram' = Sectors /\ (\A s \in KernelArea : ram'[s] = Unset) /\ Placed'
  BY <1>0, <1>1, <1>2, KernelSectorWritten
<1>4. buf' = <<"written", BootRecLba>> => BootRecLba \notin unreadable
  <2>1. ASSUME BootRecLba \in unreadable PROVE buf' # <<"written", BootRecLba>>
    <3>1. buf' = Unset
      BY <2>1 DEF StartupInv, DiskWorks, BootRecord, Fetched
    <3> QED  BY <3>1 DEF Unset
  <2> QED  BY <2>1
<1>5. CASE buf' = <<"written", BootRecLba>>
  <2>1. lba' = Bytes4(KernelLba) /\ pc' = "load" /\ ptr' = 512
        /\ count' = [lo |-> KernelNsec % 256, hi |-> KernelNsec \div 256]
    BY <1>5 DEF BootRecord, Stage
  <2>2. Bytes4(KernelLba) \in [0..3 -> Byte] /\ Value4(Bytes4(KernelLba)) = KernelLba
    BY KernelLbaFits, ValueOfBytes
  <2>3. KernelNsec % 256 = KernelNsec /\ KernelNsec \div 256 = 0
    BY KernelLbaFits
  <2>4. count' = [lo |-> KernelNsec, hi |-> 0] /\ KernelNsec \in 0..255
    BY <2>1, <2>3, KernelLbaFits
  <2>5. Types'
    <3>1. count' \in [lo : Byte, hi : Byte]
      BY <2>4 DEF Byte
    <3> QED  BY <1>1, <1>3, <2>1, <2>2, <3>1 DEF StartupInv, Types, PageTablesUsed
  <2>6. DiskWorks'
    BY <1>0, <1>4, <1>5 DEF StartupInv, DiskWorks
  <2>7. KernelUntouched'
    BY <1>3, <2>1 DEF KernelUntouched, KernelRuns
  <2>8. Loading'
    <3>1. ptr' = 512 * (0 + 1) /\ Value4(lba)' = KernelLba + 0
      <4>1. Value4(lba)' = Value4(lba')
        BY DEF Value4
      <4> QED  BY <2>1, <2>2, <4>1, KernelLbaFits
    <3>2. (256 * count.hi + count.lo)' = KernelNsec - 0
      BY <2>4
    <3>3. Loaded(0)'
      BY <3>1, <3>2 DEF Loaded
    <3>4. 0 \in 0..KernelNsec
      BY KernelLbaFits
    <3> QED  BY <3>3, <3>4 DEF Loading
  <2>9. Copying' /\ Counted'
    BY <1>0, <1>1, <2>1 DEF StartupInv, Copying, Counted
  <2> QED  BY <1>3, <2>5, <2>6, <2>7, <2>8, <2>9 DEF StartupInv
<1>6. CASE buf' # <<"written", BootRecLba>>
  <2>1. pc' = "halt" /\ lba' = lba /\ count' = count /\ ptr' = 512
    BY <1>6 DEF BootRecord, Stage
  <2>2. Types'
    BY <1>1, <1>3, <2>1 DEF StartupInv, Types, PageTablesUsed
  <2>3. DiskWorks'
    BY <1>0, <1>1, <2>1 DEF StartupInv, DiskWorks, BootRecord, Fetched
  <2>4. KernelUntouched'
    BY <1>3, <2>1 DEF KernelUntouched, KernelRuns
  <2>5. Loading' /\ Copying' /\ Counted'
    BY <1>0, <1>1, <2>1 DEF StartupInv, Loading, Copying, Counted
  <2> QED  BY <1>3, <2>2, <2>3, <2>4, <2>5 DEF StartupInv
<1> QED  BY <1>5, <1>6

LEMMA LoadSectorInv == StartupInv /\ LoadSector => StartupInv'
<1> SUFFICES ASSUME StartupInv, LoadSector PROVE StartupInv'
  OBVIOUS
<1>0. foreign' = foreign /\ unreadable' = unreadable /\ (\A q \in Calls : Good(q)' <=> Good(q))
  BY ContentsKept DEF LoadSector
<1>1. pc = "load" /\ pc' = "load" /\ UNCHANGED <<handler, call, b, plist, nprocs, cur, mmu>>
  BY DEF LoadSector
<1>2. PICK n \in 0..KernelNsec : Loaded(n)
  BY <1>1 DEF StartupInv, Loading
<1>3. count \in [lo : Byte, hi : Byte] /\ lba \in [0..3 -> Byte]
  BY DEF StartupInv, Types
<1>4. 256 * count.hi + count.lo > 0 /\ n < KernelNsec
  <2>1. count.hi \in 0..255 /\ count.lo \in 0..255 /\ (count.lo # 0 \/ count.hi # 0)
    BY <1>3 DEF LoadSector, Byte
  <2>2. 256 * count.hi + count.lo > 0
    <3>1. PICK h \in 0..255, l \in 0..255 : count.hi = h /\ count.lo = l
      BY <2>1
    <3>2. h # 0 \/ l # 0
      BY <2>1, <3>1
    <3>3. 256 * h + l > 0
      BY <3>2
    <3> QED  BY <3>1, <3>3
  <2> QED  BY <1>2, <2>2, KernelLbaFits DEF Loaded
<1>5. ptr = 512 * (n + 1) /\ Value4(lba) = KernelLba + n
      /\ 256 * count.hi + count.lo = KernelNsec - n
      /\ \A m \in 1..n : ram[m] = Contents(KernelLba + m - 1)
  BY <1>2 DEF Loaded
<1>6. n + 1 \in 1..KernelNsec /\ n \in 0..(KernelNsec - 1) /\ n \in 0..61
  BY <1>4, KernelLbaFits
<1>7. SectorOf(ptr) = n + 1 /\ ptr' = 512 * (n + 2)
  <2>1. (512 * (n + 1)) \div 512 = n + 1
    BY <1>6
  <2>2. (512 * (n + 1) + 512) % 65536 = 512 * (n + 2)
    <3>1. 512 * (n + 1) + 512 = 512 * (n + 2) /\ 512 * (n + 2) \in Nat /\ 512 * (n + 2) < 65536
      BY <1>6
    <3> QED  BY <3>1
  <2> QED  BY <1>5, <2>1, <2>2 DEF SectorOf, LoadSector
<1>8. buf' = Contents(KernelLba + n)
  <2>1. BootRecLba \notin unreadable
    BY <1>1 DEF StartupInv, DiskWorks
  <2>2. KernelLba + n \notin unreadable
    BY <1>6, <2>1, Disk DEF StartupInv
  <2> QED  BY <1>5, <2>2 DEF LoadSector, Fetched
<1>9. ram' = [ram EXCEPT ![n + 1] = buf']
  BY <1>7 DEF LoadSector
<1>10. DOMAIN ram' = Sectors /\ ram'[n + 1] = buf'
       /\ (\A s \in KernelArea : ram'[s] = Unset) /\ Placed'
  BY <1>0, <1>1, <1>6, <1>9, KernelSectorWritten
<1>11. lba' \in [0..3 -> Byte] /\ Value4(lba') = KernelLba + (n + 1)
  <2>1. Value4(lba) + 1 < 65536 * 65536
    BY <1>4, <1>5, KernelLbaFits
  <2>2. IncLba(lba) \in [0..3 -> Byte] /\ Value4(IncLba(lba)) = Value4(lba) + 1
    BY <1>3, <2>1, IncCounts
  <2>3. (KernelLba + n) + 1 = KernelLba + (n + 1)
    BY <1>6, KernelLbaFits
  <2> QED  BY <1>5, <2>2, <2>3 DEF LoadSector
<1>12. count' \in [lo : Byte, hi : Byte] /\ 256 * count'.hi + count'.lo = KernelNsec - (n + 1)
  <2>1. DecCount(count) \in [lo : Byte, hi : Byte]
        /\ 256 * DecCount(count).hi + DecCount(count).lo = (256 * count.hi + count.lo) - 1
    BY <1>3, <1>4, DecCounts
  <2>2. (KernelNsec - n) - 1 = KernelNsec - (n + 1)
    BY <1>6, KernelLbaFits
  <2> QED  BY <1>5, <2>1, <2>2 DEF LoadSector
<1>13. Types'
  <2>1. ptr' \in Nat /\ ptr' <= 65535
    BY <1>6, <1>7
  <2> QED  BY <1>1, <1>10, <1>11, <1>12, <2>1 DEF StartupInv, Types, PageTablesUsed
<1>14. DiskWorks'
  BY <1>0, <1>1 DEF StartupInv, DiskWorks
<1>15. KernelUntouched'
  BY <1>1, <1>10 DEF KernelUntouched, KernelRuns
<1>16. Loading'
  <2>2. ASSUME NEW m \in 1..(n + 1) PROVE ram'[m] = Contents(KernelLba + m - 1)
    <3>1. CASE m = n + 1
      <4>1. KernelLba + (n + 1) - 1 = KernelLba + n
        BY <1>6, KernelLbaFits
      <4> QED  BY <1>8, <1>10, <3>1, <4>1
    <3>2. CASE m # n + 1
      <4>1. m \in 1..n
        BY <1>6, <3>2
      <4>2. m \in 1..KernelNsec
        BY <1>6, <4>1, KernelLbaFits
      <4>3. m \in DOMAIN ram
        BY <4>2, KernelSectors DEF StartupInv, Types
      <4>4. ram'[m] = ram[m]
        BY <1>9, <3>2, <4>3
      <4> QED  BY <1>5, <4>1, <4>4
    <3> QED  BY <3>1, <3>2
  <2>3. Value4(lba)' = Value4(lba')
    BY DEF Value4
  <2>4. ptr' = 512 * ((n + 1) + 1)
    BY <1>6, <1>7
  <2>6. Loaded(n + 1)'
    BY <1>11, <1>12, <2>3, <2>4, <2>2, <1>0 DEF Loaded, Contents
  <2>7. n + 1 \in 0..KernelNsec
    BY <1>6, KernelLbaFits
  <2> QED  BY <2>6, <2>7 DEF Loading
<1>17. Copying' /\ Counted'
  BY <1>0, <1>1 DEF StartupInv, Copying, Counted
<1> QED  BY <1>10, <1>13, <1>14, <1>15, <1>16, <1>17 DEF StartupInv

LEMMA LoadDoneInv == StartupInv /\ LoadDone => StartupInv'
<1> SUFFICES ASSUME StartupInv, LoadDone PROVE StartupInv'
  OBVIOUS
<1>0. foreign' = foreign /\ unreadable' = unreadable /\ (\A q \in Calls : Good(q)' <=> Good(q))
  BY ContentsKept DEF LoadDone
<1>1. /\ pc = "load" /\ count.lo = 0 /\ count.hi = 0
      /\ (pc' = "kentry" /\ nprocs' = 0) \/ (pc' = "halt" /\ nprocs' = nprocs)
      /\ UNCHANGED <<ram, buf, handler, ptr, lba, count, call, b, plist, cur, mmu>>
  BY DEF LoadDone, Bss, boot
<1>2. Types'
  BY <1>1 DEF StartupInv, Types, PageTablesUsed
<1>3. DiskWorks'
  BY <1>0, <1>1 DEF StartupInv, DiskWorks
<1>4. KernelUntouched'
  <2>1. PICK n \in 0..KernelNsec : Loaded(n)
    BY <1>1 DEF StartupInv, Loading
  <2>2. n = KernelNsec /\ \A m \in 1..n : ram[m] = Contents(KernelLba + m - 1)
    <3>1. 0 = KernelNsec - n
      BY <1>1, <2>1 DEF Loaded
    <3> QED  BY <2>1, <3>1, KernelLbaFits DEF Loaded
  <2>3. \A m \in KernelImage : ram[m] = Contents(KernelLba + m - 1)
    BY <2>2, KernelLbaFits DEF KernelImage
  <2>4. \A s \in KernelArea : ram[s] = Unset
    BY DEF StartupInv, KernelUntouched
  <2> QED  BY <1>0, <1>1, <2>3, <2>4 DEF KernelUntouched, Contents
<1>5. Loading' /\ Copying'
  BY <1>1 DEF Loading, Copying
<1>6. Placed'
  <2>1. CASE nprocs' = nprocs
    BY <1>0, <1>1, <2>1, PlacedKept DEF StartupInv
  <2>2. CASE nprocs' = 0
    BY <2>2 DEF Placed
  <2> QED  BY <1>1, <2>1, <2>2
<1>7. Counted'
  BY <1>0, <1>1 DEF StartupInv, Counted
<1> QED  BY <1>2, <1>3, <1>4, <1>5, <1>6, <1>7 DEF StartupInv

\* The kernel goes on: RAM as it is.
LEMMA KernelKept ==
  ASSUME StartupInv, KernelRuns, ram' = ram, foreign' = foreign
  PROVE  KernelUntouched'
BY DEF StartupInv, KernelUntouched, Contents

LEMMA MainInv == StartupInv /\ Main => StartupInv'
<1> SUFFICES ASSUME StartupInv, Main PROVE StartupInv'
  OBVIOUS
<1>0. foreign' = foreign /\ unreadable' = unreadable /\ (\A q \in Calls : Good(q)' <=> Good(q))
  BY ContentsKept DEF Main
<1>1. /\ pc = "kentry" /\ pc' \in {"hang", "spawn"} /\ call' = 1 /\ mmu' = Identity
      /\ handler' = "brk_handler"
      /\ UNCHANGED <<ram, ptr, lba, count, b, plist, nprocs, cur>>
  BY DEF Main, boot
<1>2. Types'
  <2>1. 1 \in 1..(Len(Programs) + 1)
    BY StartupAssumption
  <2> QED  BY <1>1, <2>1 DEF StartupInv, Types, PageTablesUsed
<1>3. DiskWorks'
  BY <1>0, <1>1 DEF StartupInv, DiskWorks
<1>4. KernelUntouched'
  BY <1>0, <1>1, KernelKept DEF KernelRuns
<1>5. Loading' /\ Copying'
  BY <1>1, SomeCall DEF Loading, Copying
<1>6. nprocs = 0 /\ nprocs' = 0
  BY <1>1 DEF StartupInv, Counted
<1>7. Placed'
  BY <1>6 DEF Placed
<1>8. Counted'
  <2>1. \A q \in Calls : ~ (q < 1)
    BY DEF Calls
  <2> QED  BY <1>0, <1>1, <1>6, <2>1 DEF StartupInv, Counted
<1> QED  BY <1>2, <1>3, <1>4, <1>5, <1>7, <1>8 DEF StartupInv

\* A call that made no process: it could not, or there is one already.
LEMMA FailedCall ==
  ASSUME StartupInv, Return, pc \in {"spawn", "copy"},
         UNCHANGED <<still, handler, boot, cur, mmu, ram, nprocs>>,
         plist' \in [0..3 -> Procs], b' \in Nat,
         \A p \in 0..3 : plist'[p].lba = plist[p].lba /\ plist'[p].sp = plist[p].sp,
         \A p \in 0..3 : p # nprocs => plist'[p].table = plist[p].table,
         Good(call) => nprocs > 0
  PROVE  StartupInv'
<1>0. foreign' = foreign /\ unreadable' = unreadable /\ (\A q \in Calls : Good(q)' <=> Good(q))
  BY ContentsKept
<1>1. call \in Calls /\ call \in Nat
  BY SomeCall DEF StartupInv, Copying
<1>2. call' = call + 1 /\ pc' \in {"spawn", "sched_start"}
      /\ (pc' = "spawn" => call' \in Calls) /\ (pc' = "sched_start" => call' = Len(Programs) + 1)
  BY <1>1, StartupAssumption DEF Return, Calls
<1>3. UNCHANGED <<handler, ptr, lba, count, cur, mmu, ram, nprocs>>
  BY DEF boot
<1>4. Types'
  <2>1. call' \in 1..(Len(Programs) + 1)
    BY <1>1, <1>2, StartupAssumption DEF Calls
  <2> QED  BY <1>2, <1>3, <2>1 DEF StartupInv, Types, PageTablesUsed
<1>5. DiskWorks'
  BY <1>0, <1>2 DEF StartupInv, DiskWorks
<1>6. KernelUntouched'
  BY <1>0, <1>3, KernelKept DEF KernelRuns
<1>7. Loading' /\ Copying'
  BY <1>2 DEF Loading, Copying
<1>8. nprocs \in 0..4
  BY DEF StartupInv, Types
<1>9. Placed'
  <2> SUFFICES ASSUME NEW p \in 0..(nprocs - 1)
               PROVE  \E q \in Calls : Runs(p, q)' /\ q < call'
    BY <1>3 DEF Placed
  <2>1. PICK q \in Calls : Runs(p, q) /\ q < call
    BY DEF StartupInv, Placed
  <2>2. p \in 0..3 /\ p # nprocs
    BY <1>8
  <2>3. Runs(p, q)'
    BY <1>0, <1>3, <2>1, <2>2, RunsKept
  <2>4. q < call'
    BY <1>1, <1>2, <2>1, SomeCall
  <2> QED  BY <2>3, <2>4
<1>10. Counted'
  <2>1. ASSUME NEW q \in Calls, q < call', Good(q) PROVE nprocs > 0
    <3>1. q < call \/ q = call
      BY <1>1, <1>2, <2>1, SomeCall
    <3>2. CASE q = call
      BY <2>1, <3>2
    <3>3. CASE q < call
      BY <2>1, <3>3 DEF StartupInv, Counted
    <3> QED  BY <3>1, <3>2, <3>3
  <2>2. plist'[0].sp = plist[0].sp
    OBVIOUS
  <2>3. (nprocs > 0 \/ plist[0].sp # 0) => \E q \in Calls : Good(q)
    BY DEF StartupInv, Counted
  <2> QED  BY <1>0, <1>2, <1>3, <2>1, <2>2, <2>3 DEF Counted
<1> QED  BY <1>4, <1>5, <1>6, <1>7, <1>9, <1>10 DEF StartupInv

SpawnKeeps == UNCHANGED <<still, handler, boot, cur, mmu>>

LEMMA FirstBlock ==
  ASSUME NEW q \in Calls
  PROVE  0 \in BlockNos(q) /\ Block(q, 0) = Programs[q].lba /\ Table(q) \in PageTablesUsed
<1>1. Programs[q].lba \in Nat /\ Programs[q].nblocks \in 1..56 /\ Programs[q].base \in 1..6
  BY CallTypes
<1>2. Programs[q].base \in 0..7
  BY <1>1
<1>3. 0 \in BlockNos(q) /\ Block(q, 0) = Programs[q].lba
  BY <1>1 DEF BlockNos, Block
<1> QED  BY <1>2, <1>3 DEF Table, PageTablesUsed

LEMMA SpawnHeaderInv == StartupInv /\ SpawnHeader /\ SpawnKeeps => StartupInv'
<1> SUFFICES ASSUME StartupInv, SpawnHeader, SpawnKeeps PROVE StartupInv'
  OBVIOUS
<1>0. foreign' = foreign /\ unreadable' = unreadable /\ (\A q \in Calls : Good(q)' <=> Good(q))
  BY ContentsKept DEF SpawnKeeps
<1>1. pc = "spawn" /\ ram' = ram /\ nprocs' = nprocs /\ nprocs \in 0..4 /\ call \in Calls
      /\ plist \in [0..3 -> Procs] /\ b \in Nat
  BY DEF SpawnHeader, StartupInv, Types, Copying
<1>2. CASE nprocs >= MaxProcs
  <2>1. Return /\ plist' = plist /\ b' = b
    BY <1>2 DEF SpawnHeader
  <2>2. nprocs > 0
    BY <1>1, <1>2 DEF MaxProcs
  <2> QED  BY <1>1, <2>1, <2>2, FailedCall DEF SpawnKeeps
<1>3. CASE ~ (nprocs >= MaxProcs)
  <2>1. nprocs \in 0..3 /\ nprocs < 4
    BY <1>1, <1>3 DEF MaxProcs
  <2>2. plist' = [plist EXCEPT ![nprocs].table = Table(call)] /\ b' = 0
        /\ buf' = Fetched(Programs[call].lba)
    BY <1>3 DEF SpawnHeader, Table
  <2>3. plist' \in [0..3 -> Procs]
    BY <1>1, <2>1, <2>2, FirstBlock, ProcessTable DEF Procs
  <2>4. /\ \A p \in 0..3 : plist'[p].lba = plist[p].lba /\ plist'[p].sp = plist[p].sp
        /\ \A p \in 0..3 : p # nprocs => plist'[p].table = plist[p].table
        /\ plist'[nprocs].table = Table(call)
    <3>1. plist[nprocs] \in Procs
      BY <1>1, <2>1
    <3>2. plist'[nprocs] = [plist[nprocs] EXCEPT !.table = Table(call)]
          /\ \A p \in 0..3 : p # nprocs => plist'[p] = plist[p]
      BY <1>1, <2>1, <2>2
    <3>3. plist'[nprocs].lba = plist[nprocs].lba /\ plist'[nprocs].sp = plist[nprocs].sp
          /\ plist'[nprocs].table = Table(call)
      BY <3>1, <3>2 DEF Procs
    <3> QED  BY <3>2, <3>3
  <2>5. CASE Programs[call].lba \in unreadable \/ ~ IsBbx(buf')
    <3>1. Return
      BY <1>3, <2>5 DEF SpawnHeader
    <3>2. ~ Good(call)
      <4>1. CASE Programs[call].lba \in unreadable
        BY <1>1, <4>1, FirstBlock DEF Good
      <4>2. CASE Programs[call].lba \notin unreadable /\ ~ IsBbx(buf')
        <5>1. buf' = Contents(Programs[call].lba)
          BY <2>2, <4>2 DEF Fetched
        <5>2. Programs[call].lba \in Written /\ Programs[call].lba \in BbxHeads
          <6>1. Programs[call].lba \in BbxHeads
            BY <1>1 DEF BbxHeads
          <6>2. Programs[call].lba \in ProgramBlocks(call)
            BY <1>1, CallTypes DEF ProgramBlocks
          <6> QED  BY <1>1, <6>1, <6>2 DEF Written
        <5>3. ASSUME Programs[call].lba \notin foreign PROVE IsBbx(buf')
          BY <5>1, <5>2, <5>3 DEF Contents, IsBbx
        <5> QED  BY <4>2, <5>3 DEF Good
      <4> QED  BY <2>5, <4>1, <4>2
    <3>3. b' \in Nat
      BY <2>2
    <3> QED  BY <1>1, <2>3, <2>4, <3>1, <3>2, <3>3, FailedCall DEF SpawnKeeps
  <2>6. CASE ~ (Programs[call].lba \in unreadable \/ ~ IsBbx(buf'))
    <3>1. pc' = "copy" /\ call' = call
      BY <1>3, <2>6 DEF SpawnHeader
    <3>2. buf' = Contents(Programs[call].lba) /\ Programs[call].lba \notin foreign
      <4>1. buf' = Contents(Programs[call].lba)
        BY <2>2, <2>6 DEF Fetched
      <4>2. ASSUME Programs[call].lba \in foreign PROVE ~ IsBbx(buf')
        <5>1. buf' = <<"other", Programs[call].lba>>
          BY <4>1, <4>2 DEF Contents
        <5> QED  BY <5>1 DEF IsBbx
      <4> QED  BY <2>6, <4>1, <4>2
    <3>3. UNCHANGED <<handler, ptr, lba, count, cur, mmu>>
      BY DEF SpawnKeeps, boot
    <3>4. Types'
      BY <1>1, <2>2, <2>3, <3>1, <3>3 DEF StartupInv, Types, PageTablesUsed
    <3>5. DiskWorks'
      BY <1>0, <1>1, <3>1 DEF StartupInv, DiskWorks
    <3>6. KernelUntouched'
      BY <1>0, <1>1, KernelKept DEF KernelRuns
    <3>7. Loading'
      BY <3>1 DEF Loading
    <3>8. Copying'
      <4>1. 0 <= Programs[call].nblocks /\ \A n \in BlockNos(call) : ~ (n < 0)
        BY <1>1, CallTypes DEF BlockNos
      <4>2. Contents(Block(call, 0))' = Contents(Block(call, 0))
        BY <1>0, <3>1 DEF Contents, Block
      <4>3. buf' = Contents(Block(call, 0))
        BY <1>1, <3>2, FirstBlock
      <4> QED  BY <1>0, <1>1, <2>1, <2>2, <2>4, <2>6, <3>1, <3>2, <4>1, <4>2, <4>3 DEF Copying
    <3>9. Placed'
      <4> SUFFICES ASSUME NEW p \in 0..(nprocs - 1)
                   PROVE  \E q \in Calls : Runs(p, q)' /\ q < call
        BY <1>1, <3>1 DEF Placed
      <4>1. PICK q \in Calls : Runs(p, q) /\ q < call
        BY <1>1 DEF StartupInv, Placed
      <4>2. p \in 0..3 /\ p # nprocs
        BY <2>1
      <4>3. Runs(p, q)'
        BY <1>0, <1>1, <2>4, <4>1, <4>2, RunsKept
      <4> QED  BY <4>1, <4>3
    <3>10. Counted'
      <4>1. plist'[0].sp = plist[0].sp
        BY <2>4
      <4>2. (nprocs > 0 \/ plist[0].sp # 0) => \E q \in Calls : Good(q)
        BY DEF StartupInv, Counted
      <4>3. \A q \in Calls : q < call /\ Good(q) => nprocs > 0
        BY <1>1 DEF StartupInv, Counted
      <4> QED  BY <1>0, <1>1, <3>1, <4>1, <4>2, <4>3 DEF Counted
    <3> QED  BY <3>4, <3>5, <3>6, <3>7, <3>8, <3>9, <3>10 DEF StartupInv
  <2> QED  BY <2>5, <2>6
<1> QED  BY <1>2, <1>3

\* A program writes to its own image, its stack page or its C stack: the other
\* programs and the kernel do not see it.
OwnSectors(q) == {StackSector(q), CStackSector(q)} \union {Place(q, n) : n \in BlockNos(q)}

LEMMA OwnSectorWritten ==
  ASSUME StartupInv, NEW q \in Calls, NEW at \in OwnSectors(q), NEW c,
         ram' = [ram EXCEPT ![at] = c], foreign' = foreign, KernelRuns
  PROVE  /\ DOMAIN ram' = Sectors /\ ram'[at] = c /\ at \in Sectors
         /\ \A s \in Sectors : s # at => ram'[s] = ram[s]
         /\ KernelUntouched'
         /\ \A r \in Calls : r # q =>
              /\ ram'[StackSector(r)] = ram[StackSector(r)]
              /\ \A n \in BlockNos(r) : ram'[Place(r, n)] = ram[Place(r, n)]
<1>1. at \in Sectors /\ at \notin KernelImage \union KernelArea
  <2>1. CASE at \in {StackSector(q), CStackSector(q)}
    BY <2>1, Fits, ApartFromKernel
  <2>2. CASE at \in {Place(q, n) : n \in BlockNos(q)}
    BY <2>2, Fits, ApartFromKernel
  <2> QED  BY <2>1, <2>2 DEF OwnSectors
<1>2. DOMAIN ram = Sectors
  BY DEF StartupInv, Types
<1>3. DOMAIN ram' = Sectors /\ ram'[at] = c /\ \A s \in Sectors : s # at => ram'[s] = ram[s]
  BY <1>1, <1>2
<1>4. KernelUntouched'
  <2>1. KernelArea \subseteq Sectors
    BY DEF KernelArea, Sectors, KernelCStack, KernelBss
  <2>2. KernelImage \subseteq Sectors
    BY KernelLbaFits, KernelSectors DEF KernelImage
  <2>3. ASSUME NEW s \in KernelArea PROVE ram'[s] = Unset
    BY <1>1, <1>3, <2>1 DEF StartupInv, KernelUntouched
  <2>4. ASSUME NEW n \in KernelImage PROVE ram'[n] = Contents(KernelLba + n - 1)
    <3>1. ram[n] = Contents(KernelLba + n - 1)
      BY DEF StartupInv, KernelUntouched
    <3>2. ram'[n] = ram[n]
      BY <1>1, <1>3, <2>2
    <3> QED  BY <3>1, <3>2
  <2> QED  BY <2>3, <2>4 DEF KernelUntouched, Contents
<1>5. ASSUME NEW r \in Calls, r # q
      PROVE  /\ at # StackSector(r)
             /\ \A n \in BlockNos(r) : at # Place(r, n)
  <2>1. CASE at \in {StackSector(q), CStackSector(q)}
    BY <1>5, <2>1, ApartFromOthers
  <2>2. CASE at \in {Place(q, n) : n \in BlockNos(q)}
    BY <1>5, <2>2, ApartFromOthers
  <2> QED  BY <2>1, <2>2 DEF OwnSectors
<1>6. ASSUME NEW r \in Calls, r # q
      PROVE  /\ ram'[StackSector(r)] = ram[StackSector(r)]
             /\ \A n \in BlockNos(r) : ram'[Place(r, n)] = ram[Place(r, n)]
  BY <1>3, <1>5, <1>6, Fits
<1> QED  BY <1>1, <1>3, <1>4, <1>6

LEMMA SpawnBlockInv == StartupInv /\ SpawnBlock /\ SpawnKeeps => StartupInv'
<1> SUFFICES ASSUME StartupInv, SpawnBlock, SpawnKeeps PROVE StartupInv'
  OBVIOUS
<1>0. foreign' = foreign /\ unreadable' = unreadable /\ (\A q \in Calls : Good(q)' <=> Good(q))
  BY ContentsKept DEF SpawnKeeps
<1>1. /\ pc = "copy" /\ plist' = plist /\ nprocs' = nprocs /\ call \in Calls
      /\ nprocs \in 0..3 /\ plist[nprocs].table = Table(call)
      /\ plist \in [0..3 -> Procs] /\ b \in Nat /\ b < Programs[call].nblocks
      /\ Programs[call].lba \notin foreign /\ Programs[call].lba \notin unreadable
      /\ b = 0 => buf = Contents(Block(call, 0))
  <2>1. nprocs \in 0..4 /\ nprocs < 4
    BY DEF SpawnBlock, StartupInv, Types, Copying
  <2>2. b < Programs[call].nblocks
    BY DEF SpawnBlock, MoreBlocks
  <2>3. nprocs \in 0..3
    BY <2>1
  <2> QED  BY <2>2, <2>3 DEF SpawnBlock, StartupInv, Types, Copying
<1>2. b \in BlockNos(call) /\ Programs[call].lba + b = Block(call, b)
  BY <1>1, CallTypes DEF BlockNos, Block
<1>3. CASE b # 0 /\ Block(call, b) \in unreadable
  <2>1. Return /\ ram' = ram /\ buf' = buf /\ b' = b
    BY <1>2, <1>3 DEF SpawnBlock
  <2>2. ~ Good(call)
    BY <1>1, <1>2, <1>3 DEF Good
  <2> QED  BY <1>1, <2>1, <2>2, FailedCall DEF SpawnKeeps
<1>4. CASE ~ (b # 0 /\ Block(call, b) \in unreadable)
  <2>1. /\ buf' = (IF b = 0 THEN buf ELSE Fetched(Block(call, b)))
        /\ ram' = [ram EXCEPT ![SectorOf(SectorPA(Table(call), b))] = buf']
        /\ b' = b + 1 /\ pc' = "copy" /\ call' = call
    BY <1>1, <1>2, <1>4 DEF SpawnBlock, CopyTarget
  <2>2. buf' = Contents(Block(call, b)) /\ Block(call, b) \notin unreadable
    <3>1. CASE b = 0
      BY <1>1, <2>1, <3>1, FirstBlock
    <3>2. CASE b # 0
      BY <1>4, <2>1, <3>2 DEF Fetched
    <3> QED  BY <3>1, <3>2
  <2>3. ram' = [ram EXCEPT ![Place(call, b)] = buf'] /\ Place(call, b) \in OwnSectors(call)
    BY <1>1, <1>2, <2>1, ImagePlace DEF OwnSectors
  <2>4. /\ DOMAIN ram' = Sectors /\ ram'[Place(call, b)] = buf'
        /\ \A s \in Sectors : s # Place(call, b) => ram'[s] = ram[s]
        /\ KernelUntouched'
        /\ \A r \in Calls : r # call =>
             /\ ram'[StackSector(r)] = ram[StackSector(r)]
             /\ \A n \in BlockNos(r) : ram'[Place(r, n)] = ram[Place(r, n)]
    BY <1>0, <1>1, <2>3, OwnSectorWritten DEF KernelRuns
  <2>5. UNCHANGED <<handler, ptr, lba, count, cur, mmu>>
    BY DEF SpawnKeeps, boot
  <2>6. Types'
    BY <1>1, <2>1, <2>4, <2>5 DEF StartupInv, Types, PageTablesUsed
  <2>7. DiskWorks'
    BY <1>0, <1>1, <2>1 DEF StartupInv, DiskWorks
  <2>8. Loading'
    BY <2>1 DEF Loading
  <2>9. Copying'
    <3>1. ASSUME NEW n \in BlockNos(call), n < b + 1
          PROVE  Block(call, n) \notin unreadable /\ ram'[Place(call, n)] = Contents(Block(call, n))
      <4>1. CASE n = b
        BY <2>2, <2>4, <4>1
      <4>2. CASE n # b
        <5>1. n < b /\ n \in Nat
          BY <1>1, <3>1, <4>2 DEF BlockNos
        <5>2. Block(call, n) \notin unreadable /\ ram[Place(call, n)] = Contents(Block(call, n))
          BY <1>1, <5>1 DEF StartupInv, Copying
        <5>3. Place(call, n) # Place(call, b) /\ Place(call, n) \in Sectors
          BY <1>1, <1>2, <4>2, ApartInside, Fits
        <5> QED  BY <2>4, <5>2, <5>3
      <4> QED  BY <4>1, <4>2
    <3>2. b + 1 <= Programs[call].nblocks /\ b + 1 # 0
      BY <1>1, CallTypes
    <3>3. \A n \in BlockNos(call) : n < b' => (Block(call, n) \notin unreadable
            /\ ram'[Place(call, n)] = Contents(Block(call, n)))
      BY <2>1, <3>1
    <3>4. nprocs < 4
      BY <1>1
    <3>5. b' <= Programs[call].nblocks /\ b' # 0
      BY <2>1, <3>2
    <3>6. \A n \in BlockNos(call) :
            Contents(Block(call, n))' = Contents(Block(call, n)) /\ Block(call, n)' = Block(call, n)
            /\ Place(call, n)' = Place(call, n)
      BY <1>0, <2>1 DEF Contents, Block, Place
    <3>7. BlockNos(call)' = BlockNos(call) /\ Table(call)' = Table(call)
          /\ Contents(Block(call, 0))' = Contents(Block(call, 0))
      BY <1>0, <2>1 DEF BlockNos, Table, Contents, Block
    <3>8. \A n \in BlockNos(call)' : n < b' => (Block(call, n)' \notin unreadable'
            /\ ram'[Place(call, n)'] = Contents(Block(call, n))')
      BY <1>0, <3>3, <3>6, <3>7
    <3> QED  BY <1>0, <1>1, <2>1, <3>4, <3>5, <3>7, <3>8 DEF Copying
  <2>10. Placed'
    <3> SUFFICES ASSUME NEW p \in 0..(nprocs - 1)
                 PROVE  \E q \in Calls : Runs(p, q)' /\ q < call
      BY <1>1, <2>1 DEF Placed
    <3>1. PICK q \in Calls : Runs(p, q) /\ q < call
      BY <1>1 DEF StartupInv, Placed
    <3>2. q # call
      BY <1>1, <3>1, SomeCall
    <3>3. Runs(p, q)'
      BY <1>0, <1>1, <2>4, <3>1, <3>2, RunsKept
    <3> QED  BY <3>1, <3>3
  <2>11. Counted'
    <3>1. (nprocs > 0 \/ plist[0].sp # 0) => \E q \in Calls : Good(q)
      BY DEF StartupInv, Counted
    <3>2. \A q \in Calls : q < call /\ Good(q) => nprocs > 0
      BY <1>1 DEF StartupInv, Counted
    <3> QED  BY <1>0, <1>1, <2>1, <3>1, <3>2 DEF Counted
  <2> QED  BY <2>4, <2>6, <2>7, <2>8, <2>9, <2>10, <2>11 DEF StartupInv
<1> QED  BY <1>3, <1>4

LEMMA SpawnDoneInv == StartupInv /\ SpawnDone /\ SpawnKeeps => StartupInv'
<1> SUFFICES ASSUME StartupInv, SpawnDone, SpawnKeeps PROVE StartupInv'
  OBVIOUS
<1>0. foreign' = foreign /\ unreadable' = unreadable /\ (\A q \in Calls : Good(q)' <=> Good(q))
  BY ContentsKept DEF SpawnKeeps
<1>1. /\ pc = "copy" /\ call \in Calls
      /\ nprocs \in 0..3 /\ plist[nprocs].table = Table(call)
      /\ plist \in [0..3 -> Procs] /\ b \in Nat /\ b = Programs[call].nblocks
      /\ Programs[call].lba \notin foreign
      /\ \A n \in BlockNos(call) :
           Block(call, n) \notin unreadable /\ ram[Place(call, n)] = Contents(Block(call, n))
  <2>1. nprocs \in 0..4 /\ nprocs < 4 /\ pc = "copy" /\ call \in Calls
        /\ b \in Nat /\ b <= Programs[call].nblocks /\ plist[nprocs].table = Table(call)
        /\ plist \in [0..3 -> Procs] /\ Programs[call].lba \notin foreign
    BY DEF SpawnDone, StartupInv, Types, Copying
  <2>2. nprocs \in 0..3
    BY <2>1
  <2>3. ~ (b < Programs[call].nblocks)
    BY DEF SpawnDone, MoreBlocks
  <2>4. b = Programs[call].nblocks
    BY <2>1, <2>3, CallTypes
  <2>5. \A n \in BlockNos(call) : n < b
    BY <2>1, <2>4, CallTypes DEF BlockNos
  <2>6. \A n \in BlockNos(call) :
          Block(call, n) \notin unreadable /\ ram[Place(call, n)] = Contents(Block(call, n))
    BY <2>1, <2>5 DEF StartupInv, Copying
  <2> QED  BY <2>1, <2>2, <2>4, <2>6
<1>2. Good(call)
  BY <1>1 DEF Good
<1> DEFINE l == Programs[call].lba % 256
<1>3. /\ ram' = [ram EXCEPT ![StackSector(call)] = <<"frame", l>>]
      /\ plist' = [plist EXCEPT ![nprocs].state = "waiting", ![nprocs].lba = l, ![nprocs].sp = FirstSP]
      /\ nprocs' = nprocs + 1 /\ Return /\ UNCHANGED <<buf, b>>
  BY <1>1, StackPlace DEF SpawnDone
<1>4. l \in Byte
  BY <1>1, CallTypes DEF Byte
<1> HIDE DEF l
<1>5. call' = call + 1 /\ call \in Nat /\ pc' \in {"spawn", "sched_start"}
      /\ (pc' = "spawn" => call' \in Calls) /\ (pc' = "sched_start" => call' = Len(Programs) + 1)
      /\ call' \in 1..(Len(Programs) + 1)
  <2>1. call \in Nat
    BY <1>1, SomeCall
  <2> QED  BY <1>1, <1>3, <2>1, StartupAssumption DEF Return, Calls
<1>6. UNCHANGED <<handler, ptr, lba, count, cur, mmu>>
  BY DEF SpawnKeeps, boot
<1>7. StackSector(call) \in OwnSectors(call)
  BY DEF OwnSectors
<1>8. /\ DOMAIN ram' = Sectors /\ ram'[StackSector(call)] = <<"frame", l>>
      /\ \A s \in Sectors : s # StackSector(call) => ram'[s] = ram[s]
      /\ KernelUntouched'
      /\ \A r \in Calls : r # call =>
           /\ ram'[StackSector(r)] = ram[StackSector(r)]
           /\ \A n \in BlockNos(r) : ram'[Place(r, n)] = ram[Place(r, n)]
  BY <1>0, <1>1, <1>3, <1>7, OwnSectorWritten DEF KernelRuns
<1>9. plist' \in [0..3 -> Procs]
  BY <1>1, <1>3, <1>4, FirstBlock, ProcessTable
<1>10. /\ plist'[nprocs].lba = l /\ plist'[nprocs].table = Table(call)
       /\ \A p \in 0..3 : p # nprocs => plist'[p] = plist[p]
  <2>1. plist[nprocs] \in Procs
    BY <1>1
  <2>2. plist'[nprocs] = [plist[nprocs] EXCEPT !.state = "waiting", !.lba = l, !.sp = FirstSP]
        /\ \A p \in 0..3 : p # nprocs => plist'[p] = plist[p]
    BY <1>1, <1>3
  <2>3. plist'[nprocs].lba = l /\ plist'[nprocs].table = plist[nprocs].table
    BY <2>1, <2>2 DEF Procs
  <2> QED  BY <1>1, <2>2, <2>3
<1>11. Types'
  <2>1. nprocs' \in 0..4
    BY <1>1, <1>3
  <2> QED  BY <1>3, <1>5, <1>6, <1>8, <1>9, <2>1 DEF StartupInv, Types, PageTablesUsed
<1>12. DiskWorks'
  BY <1>0, <1>1, <1>5 DEF StartupInv, DiskWorks
<1>13. Loading' /\ Copying'
  BY <1>5 DEF Loading, Copying
<1>14. Placed'
  <2> SUFFICES ASSUME NEW p \in 0..nprocs
               PROVE  \E q \in Calls : Runs(p, q)' /\ q < call'
    <3>1. nprocs' - 1 = nprocs
      BY <1>1, <1>3
    <3> QED  BY <1>5, <3>1 DEF Placed
  <2>1. CASE p = nprocs
    <3>1. ram'[StackSector(call)] = <<"frame", plist'[p].lba>>
      BY <1>8, <1>10, <2>1
    <3>2. ASSUME NEW n \in BlockNos(call) PROVE ram'[Place(call, n)] = Contents(Block(call, n))
      <4>1. Place(call, n) # StackSector(call) /\ Place(call, n) \in Sectors
        BY <1>1, ApartInside, Fits
      <4> QED  BY <1>1, <1>8, <4>1
    <3>3. PICK q \in Calls : q = call
      BY <1>1
    <3>4. plist'[p].lba = Programs[q].lba % 256 /\ plist'[p].table = Table(q)
      BY <1>10, <2>1, <3>3 DEF l
    <3>5. Runs(p, q)'
      BY <1>0, <3>1, <3>2, <3>3, <3>4 DEF Runs, Contents
    <3>6. q < call'
      BY <1>5, <3>3
    <3> QED  BY <3>5, <3>6
  <2>2. CASE p # nprocs
    <3>1. p \in 0..(nprocs - 1) /\ p \in 0..3
      BY <1>1, <2>2
    <3>2. PICK q \in Calls : Runs(p, q) /\ q < call
      BY <1>1, <3>1 DEF StartupInv, Placed
    <3>3. q # call /\ q < call'
      BY <1>1, <1>5, <3>2, SomeCall
    <3>4. Runs(p, q)'
      BY <1>0, <1>8, <1>10, <2>2, <3>1, <3>2, <3>3, RunsKept
    <3> QED  BY <3>3, <3>4
  <2> QED  BY <2>1, <2>2
<1>15. Counted'
  <2>1. nprocs' > 0
    BY <1>1, <1>3
  <2>2. \E q \in Calls : Good(q)'
    BY <1>0, <1>1, <1>2
  <2> QED  BY <1>5, <2>1, <2>2 DEF Counted
<1> QED  BY <1>8, <1>11, <1>12, <1>13, <1>14, <1>15 DEF StartupInv

LEMMA SchedStartInv == StartupInv /\ SchedStart => StartupInv'
<1> SUFFICES ASSUME StartupInv, SchedStart PROVE StartupInv'
  OBVIOUS
<1>0. foreign' = foreign /\ unreadable' = unreadable /\ (\A q \in Calls : Good(q)' <=> Good(q))
  BY ContentsKept DEF SchedStart
<1>1. /\ pc = "sched_start" /\ cur' = 0 /\ plist' = [plist EXCEPT ![0].state = "running"]
      /\ mmu' = plist[0].table /\ pc' = (IF FrameFound(0) THEN "user" ELSE "lost")
      /\ UNCHANGED <<ram, buf, handler, ptr, lba, count, call, b, nprocs>>
      /\ plist \in [0..3 -> Procs] /\ nprocs \in 0..4
  BY DEF SchedStart, boot, StartupInv, Types
<1>2. plist' \in [0..3 -> Procs]
  <2>1. 0 \in 0..3 /\ 0 \in Byte /\ Identity \in PageTablesUsed /\ FirstSP \in {0, FirstSP, YieldSP}
        /\ "running" \in {"exited", "waiting", "running"}
    BY DEF Byte, PageTablesUsed
  <2>2. [plist EXCEPT ![0].state = "running"] \in [0..3 -> Procs]
    BY <1>1, <2>1, ProcessTable, Zenon
  <2> QED  BY <1>1, <2>2
<1>3. \A p \in 0..3 : plist'[p].lba = plist[p].lba /\ plist'[p].sp = plist[p].sp
                      /\ plist'[p].table = plist[p].table
  <2>1. plist[0] \in Procs
    BY <1>1
  <2>2. plist'[0] = [plist[0] EXCEPT !.state = "running"] /\ \A p \in 0..3 : p # 0 => plist'[p] = plist[p]
    BY <1>1
  <2>3. plist'[0].lba = plist[0].lba /\ plist'[0].sp = plist[0].sp /\ plist'[0].table = plist[0].table
    BY <2>1, <2>2 DEF Procs
  <2> QED  BY <2>2, <2>3
<1>4. Types'
  <2>1. plist[0].table \in PageTablesUsed
    BY <1>1 DEF Procs
  <2> QED  BY <1>1, <1>2, <2>1 DEF StartupInv, Types, PageTablesUsed
<1>5. DiskWorks'
  BY <1>0, <1>1 DEF StartupInv, DiskWorks
<1>6. KernelUntouched'
  BY <1>0, <1>1, KernelKept DEF KernelRuns
<1>7. Loading' /\ Copying'
  BY <1>1 DEF Loading, Copying
<1>8. Placed'
  <2> SUFFICES ASSUME NEW p \in 0..(nprocs - 1) PROVE \E q \in Calls : Runs(p, q)'
    BY <1>1 DEF Placed
  <2>1. PICK q \in Calls : Runs(p, q)
    BY DEF StartupInv, Placed
  <2>2. p \in 0..3
    BY <1>1
  <2>3. Runs(p, q)'
    BY <1>0, <1>1, <1>3, <2>1, <2>2, RunsKept
  <2> QED  BY <2>3
<1>9. Counted'
  <2>1. (nprocs > 0 \/ plist[0].sp # 0) => \E q \in Calls : Good(q)
    BY DEF StartupInv, Counted
  <2>2. plist'[0].sp = plist[0].sp /\ plist'[0].table = plist[0].table
    BY <1>3
  <2>3. ASSUME pc' = "user" PROVE cur' < nprocs
    <3>1. plist[0].sp # 0
      BY <1>1, <2>3 DEF FrameFound, FirstSP
    <3>2. PICK q \in Calls : Good(q)
      BY <2>1, <3>1
    <3>3. q < call
      <4>1. call = Len(Programs) + 1
        BY <1>1 DEF StartupInv, Counted
      <4> QED  BY <4>1, StartupAssumption DEF Calls
    <3>4. nprocs > 0
      BY <1>1, <3>2, <3>3 DEF StartupInv, Counted
    <3> QED  BY <1>1, <3>4
  <2> QED  BY <1>0, <1>1, <2>1, <2>2, <2>3 DEF Counted
<1> QED  BY <1>4, <1>5, <1>6, <1>7, <1>8, <1>9 DEF StartupInv

LEMMA StoreInv == ASSUME NEW va \in {StackVA, CStackVA} PROVE StartupInv /\ Store(va) => StartupInv'
<1> SUFFICES ASSUME StartupInv, Store(va) PROVE StartupInv'
  OBVIOUS
<1>0. foreign' = foreign /\ unreadable' = unreadable /\ (\A q \in Calls : Good(q)' <=> Good(q))
  BY ContentsKept DEF Store
<1>1. /\ pc = "user" /\ pc' = "user"
      /\ UNCHANGED <<buf, handler, ptr, lba, count, call, b, plist, nprocs, cur, mmu>>
      /\ cur \in 0..3 /\ nprocs \in 0..4 /\ cur < nprocs /\ mmu = plist[cur].table
  BY DEF Store, boot, StartupInv, Types, Counted
<1>2. cur \in 0..(nprocs - 1)
  BY <1>1
<1>3. PICK q \in Calls : Runs(cur, q)
  BY <1>2 DEF StartupInv, Placed
<1>4. PICK at \in {StackSector(q), CStackSector(q)} : SectorOf(UserAddr(mmu, va)) = at
  <2>1. mmu = Table(q)
    BY <1>1, <1>3 DEF Runs
  <2> QED  BY <2>1, StackPlace
<1>5. ram' = [ram EXCEPT ![at] = <<"data", plist[cur].lba>>] /\ at \in OwnSectors(q)
  BY <1>4 DEF Store, OwnSectors
<1>6. /\ DOMAIN ram' = Sectors /\ ram'[at] = <<"data", plist[cur].lba>>
      /\ \A s \in Sectors : s # at => ram'[s] = ram[s]
      /\ KernelUntouched'
      /\ \A r \in Calls : r # q =>
           /\ ram'[StackSector(r)] = ram[StackSector(r)]
           /\ \A n \in BlockNos(r) : ram'[Place(r, n)] = ram[Place(r, n)]
  BY <1>0, <1>1, <1>5, OwnSectorWritten DEF KernelRuns
<1>7. Types'
  BY <1>1, <1>6 DEF StartupInv, Types, PageTablesUsed
<1>8. DiskWorks'
  BY <1>0, <1>1 DEF StartupInv, DiskWorks
<1>9. Loading' /\ Copying'
  BY <1>1 DEF Loading, Copying
<1>10. Placed'
  <2> SUFFICES ASSUME NEW p \in 0..(nprocs - 1) PROVE \E r \in Calls : Runs(p, r)'
    BY <1>1 DEF Placed
  <2>1. PICK r \in Calls : Runs(p, r)
    BY DEF StartupInv, Placed
  <2>2. CASE r = q
    <3>1. plist[p].lba = plist[cur].lba
      BY <1>3, <2>1, <2>2 DEF Runs
    <3>2. ram'[StackSector(r)] = ram[StackSector(r)] \/ ram'[StackSector(r)] = <<"data", plist[p].lba>>
      BY <1>6, <3>1, Fits
    <3>3. \A n \in BlockNos(r) : ram'[Place(r, n)] = ram[Place(r, n)]
      BY <1>6, <2>2, Fits, ApartInside
    <3>4. Runs(p, r)'
      BY <1>0, <1>1, <2>1, <3>2, <3>3 DEF Runs, Contents
    <3> QED  BY <3>4
  <2>3. CASE r # q
    <3>1. Runs(p, r)'
      BY <1>0, <1>1, <1>6, <2>1, <2>3, RunsKept
    <3> QED  BY <3>1
  <2> QED  BY <2>2, <2>3
<1>11. Counted'
  BY <1>0, <1>1 DEF StartupInv, Counted
<1> QED  BY <1>6, <1>7, <1>8, <1>9, <1>10, <1>11 DEF StartupInv

LEMMA YieldInv == StartupInv /\ Yield => StartupInv'
<1> SUFFICES ASSUME StartupInv, Yield PROVE StartupInv'
  OBVIOUS
<1>0. foreign' = foreign /\ unreadable' = unreadable /\ (\A q \in Calls : Good(q)' <=> Good(q))
  BY ContentsKept DEF Yield
<1> DEFINE mid == [plist EXCEPT ![cur].state = "waiting", ![cur].sp = YieldSP]
           next == (cur + 1) % nprocs
<1>1. /\ pc = "user" /\ pc' = "user" /\ cur' = next
      /\ plist' = [mid EXCEPT ![next].state = "running"] /\ mmu' = plist[next].table
      /\ UNCHANGED <<ram, buf, handler, ptr, lba, count, call, b, nprocs>>
      /\ plist \in [0..3 -> Procs] /\ nprocs \in 0..4 /\ cur \in 0..3 /\ cur < nprocs
  BY DEF Yield, boot, StartupInv, Types, Counted
<1>2. next \in 0..3 /\ next < nprocs
  <2>1. nprocs \in 1..4
    BY <1>1
  <2>2. PICK n \in 1..4, c \in 0..3 : n = nprocs /\ c = cur
    BY <1>1, <2>1
  <2>3. (c + 1) % n \in 0..(n - 1)
    <3>1. n \in Nat /\ n > 0 /\ c + 1 \in Nat
      OBVIOUS
    <3> QED  BY <3>1
  <2> QED  BY <2>2, <2>3
<1>3. 0 \in Byte /\ Identity \in PageTablesUsed /\ YieldSP \in {0, FirstSP, YieldSP}
      /\ "running" \in {"exited", "waiting", "running"} /\ "waiting" \in {"exited", "waiting", "running"}
  BY DEF Byte, PageTablesUsed
<1>4. mid \in [0..3 -> Procs]
  <2>1. cur \in 0..3 /\ plist \in [0..3 -> Procs]
    BY <1>1
  <2> QED  BY <1>3, <2>1, ProcessTable, Zenon
<1>5. \A p \in 0..3 : mid[p].lba = plist[p].lba /\ mid[p].table = plist[p].table
                      /\ (mid[p].sp = plist[p].sp \/ p = cur)
  <2>1. plist[cur] \in Procs
    BY <1>1
  <2>2. mid[cur] = [plist[cur] EXCEPT !.state = "waiting", !.sp = YieldSP]
        /\ \A p \in 0..3 : p # cur => mid[p] = plist[p]
    BY <1>1
  <2>3. \A r \in Procs : /\ [r EXCEPT !.state = "waiting", !.sp = YieldSP].lba = r.lba
                          /\ [r EXCEPT !.state = "waiting", !.sp = YieldSP].table = r.table
    BY DEF Procs
  <2>4. mid[cur].lba = plist[cur].lba /\ mid[cur].table = plist[cur].table
    <3> HIDE DEF mid
    <3> QED  BY <2>1, <2>2, <2>3
  <2> HIDE DEF mid
  <2> QED  BY <2>2, <2>4
<1> HIDE DEF mid, next
<1>6. plist' \in [0..3 -> Procs]
  <2>1. [mid EXCEPT ![next].state = "running"] \in [0..3 -> Procs]
    BY <1>2, <1>3, <1>4, ProcessTable, Zenon
  <2> QED  BY <1>1, <2>1
<1>7. \A p \in 0..3 : plist'[p].lba = plist[p].lba /\ plist'[p].table = plist[p].table
  <2>1. mid[next] \in Procs
    BY <1>2, <1>4
  <2>2. plist'[next] = [mid[next] EXCEPT !.state = "running"]
        /\ \A p \in 0..3 : p # next => plist'[p] = mid[p]
    BY <1>1, <1>2, <1>4
  <2>3. plist'[next].lba = mid[next].lba /\ plist'[next].table = mid[next].table
    BY <2>1, <2>2 DEF Procs
  <2> QED  BY <1>5, <2>2, <2>3
<1>8. Types'
  <2>1. plist[next].table \in PageTablesUsed
    BY <1>1, <1>2 DEF Procs
  <2> QED  BY <1>1, <1>2, <1>6, <2>1 DEF StartupInv, Types, PageTablesUsed
<1>9. DiskWorks'
  BY <1>0, <1>1 DEF StartupInv, DiskWorks
<1>10. KernelUntouched'
  BY <1>0, <1>1, KernelKept DEF KernelRuns
<1>11. Loading' /\ Copying'
  BY <1>1 DEF Loading, Copying
<1>12. Placed'
  <2> SUFFICES ASSUME NEW p \in 0..(nprocs - 1) PROVE \E q \in Calls : Runs(p, q)'
    BY <1>1 DEF Placed
  <2>1. PICK q \in Calls : Runs(p, q)
    BY DEF StartupInv, Placed
  <2>2. p \in 0..3
    BY <1>1
  <2>3. Runs(p, q)'
    BY <1>0, <1>1, <1>7, <2>1, <2>2, RunsKept
  <2> QED  BY <2>3
<1>13. Counted'
  <2>1. \E q \in Calls : Good(q)
    BY <1>1 DEF StartupInv, Counted
  <2>2. mmu' = plist'[next].table /\ cur' < nprocs
    BY <1>1, <1>2, <1>7
  <2> QED  BY <1>0, <1>1, <2>1, <2>2 DEF Counted
<1> QED  BY <1>8, <1>9, <1>10, <1>11, <1>12, <1>13 DEF StartupInv

LEMMA StutterInv == StartupInv /\ UNCHANGED vars => StartupInv'
<1> SUFFICES ASSUME StartupInv, UNCHANGED vars PROVE StartupInv'
  OBVIOUS
<1>0. foreign' = foreign /\ unreadable' = unreadable /\ (\A q \in Calls : Good(q)' <=> Good(q))
  BY DEF vars, Good
<1>1. Types'
  BY DEF StartupInv, Types, vars, PageTablesUsed
<1>2. DiskWorks'
  BY DEF StartupInv, DiskWorks, vars
<1>3. KernelUntouched'
  BY DEF StartupInv, KernelUntouched, KernelRuns, Contents, vars
<1>4. Loading'
  BY DEF StartupInv, Loading, Loaded, Contents, Value4, vars
<1>5. Copying'
  BY DEF StartupInv, Copying, Contents, vars
<1>6. Placed'
  BY <1>0, PlacedKept DEF StartupInv, vars
<1>7. Counted'
  BY <1>0 DEF StartupInv, Counted, vars
<1> QED  BY <1>1, <1>2, <1>3, <1>4, <1>5, <1>6, <1>7 DEF StartupInv

LEMMA NextInv == StartupInv /\ [Next]_vars => StartupInv'
<1> SUFFICES ASSUME StartupInv, [Next]_vars PROVE StartupInv'
  OBVIOUS
<1>1. CASE MachineReset
  BY <1>1, MachineResetInv
<1>2. CASE Reset
  BY <1>2, ResetInv
<1>3. CASE BootRecord
  BY <1>3, BootRecordInv
<1>4. CASE LoadSector
  BY <1>4, LoadSectorInv
<1>5. CASE LoadDone
  BY <1>5, LoadDoneInv
<1>6. CASE Main
  BY <1>6, MainInv
<1>7. CASE Spawn /\ UNCHANGED <<still, handler, boot, cur, mmu>>
  <2>1. SpawnKeeps
    BY <1>7 DEF SpawnKeeps
  <2> QED  BY <1>7, <2>1, SpawnHeaderInv, SpawnBlockInv, SpawnDoneInv DEF Spawn
<1>8. CASE SchedStart
  BY <1>8, SchedStartInv
<1>9. CASE \E va \in {StackVA, CStackVA} : Store(va)
  BY <1>9, StoreInv
<1>10. CASE Yield
  BY <1>10, YieldInv
<1>11. CASE Spin
  BY <1>11, StutterInv DEF Spin
<1>12. CASE UNCHANGED vars
  BY <1>12, StutterInv
<1> QED
  BY <1>1, <1>2, <1>3, <1>4, <1>5, <1>6, <1>7, <1>8, <1>9, <1>10, <1>11, <1>12 DEF Next, CpuStep

LEMMA StartupInvHolds == Spec => []StartupInv
BY InitInv, NextInv, PTL DEF Spec

----------------------------------------------------------------------------
(* What follows.                                                           *)

(***************************************************************************)
(* Every variable of the boot ROM, the loader and the scheduler keeps its  *)
(* type, and spawn_bbx's copy loop its bound.                              *)
(***************************************************************************)
THEOREM TypeOKHolds == Spec => []TypeOK
<1>1. StartupInv => TypeOK
  <2> SUFFICES ASSUME StartupInv PROVE TypeOK
    OBVIOUS
  <2>1. PICK m \in Nat : m = 2 * RamBytes - 1
    BY DEF RamBytes
  <2>2. ptr \in Nat /\ ptr <= m
    BY <2>1 DEF StartupInv, Types, RamBytes
  <2>3. ptr \in 0..(2 * RamBytes - 1)
    BY <2>1, <2>2
  <2>4. DOMAIN plist = 0..(MaxProcs - 1) /\ nprocs \in 0..MaxProcs /\ cur \in 0..(MaxProcs - 1)
    BY DEF StartupInv, Types, MaxProcs
  <2>5. pc = "copy" => b <= Programs[call].nblocks
    BY DEF StartupInv, Copying
  <2>6. mmu \in {Identity} \union {SpawnPpn(n) : n \in 0..7}
    BY DEF StartupInv, Types, PageTablesUsed
  <2> QED  BY <2>3, <2>4, <2>5, <2>6 DEF StartupInv, Types, TypeOK
<1> QED  BY <1>1, StartupInvHolds, PTL

(***************************************************************************)
(* KernelIntact: from its entry point on the kernel in RAM is the one on   *)
(* the disk, and no load, stack or C stack of a program reaches it or its  *)
(* data, for every layout the assumptions allow.                           *)
(***************************************************************************)
THEOREM KernelIntactHolds == Spec => []KernelIntact
<1>1. StartupInv => KernelIntact
  BY DEF StartupInv, KernelUntouched, KernelIntact, KernelArea, KernelImage
<1> QED  BY <1>1, StartupInvHolds, PTL

(***************************************************************************)
(* ProgramsIntact: whichever calls of spawn_bbx failed and whenever the    *)
(* machine was reset, each process counted has one program's table, the    *)
(* whole image where that program runs it, and its own stack page.         *)
(***************************************************************************)
THEOREM ProgramsIntactHolds == Spec => []ProgramsIntact
<1>1. StartupInv => ProgramsIntact
  <2> SUFFICES ASSUME StartupInv, NEW p \in 0..(nprocs - 1)
               PROVE  \E q \in Calls :
                        /\ plist[p].lba = Programs[q].lba % 256
                        /\ plist[p].table = SpawnPpn(Programs[q].base)
                        /\ \A n \in 0..(Programs[q].nblocks - 1) :
                             ram[SectorOf(UserAddr(plist[p].table, SectorVA(n)))]
                               = Contents(Programs[q].lba + n)
                        /\ ram[SectorOf(UserAddr(plist[p].table, StackVA))] \in
                             {<<"frame", plist[p].lba>>, <<"data", plist[p].lba>>}
    BY DEF ProgramsIntact
  <2>1. PICK q \in Calls : Runs(p, q)
    BY DEF StartupInv, Placed
  <2>2. plist[p].table = Table(q) /\ plist[p].lba = Programs[q].lba % 256
    BY <2>1 DEF Runs
  <2>3. SectorOf(UserAddr(plist[p].table, StackVA)) = StackSector(q)
    BY <2>2, StackPlace
  <2>4. ASSUME NEW n \in BlockNos(q)
        PROVE  ram[SectorOf(UserAddr(plist[p].table, SectorVA(n)))] = Contents(Block(q, n))
    <3>1. SectorOf(UserAddr(plist[p].table, SectorVA(n))) = Place(q, n)
      BY <2>2, ImagePlace
    <3> QED  BY <2>1, <3>1 DEF Runs
  <2>5. ram[StackSector(q)] \in {<<"frame", plist[p].lba>>, <<"data", plist[p].lba>>}
    BY <2>1 DEF Runs
  <2>6. plist[p].table = SpawnPpn(Programs[q].base)
    BY <2>2 DEF Table
  <2>7. \A n \in 0..(Programs[q].nblocks - 1) :
          ram[SectorOf(UserAddr(plist[p].table, SectorVA(n)))] = Contents(Programs[q].lba + n)
    BY <2>4 DEF BlockNos, Block
  <2> QED  BY <2>2, <2>3, <2>5, <2>6, <2>7
<1> QED  BY <1>1, StartupInvHolds, PTL

----------------------------------------------------------------------------
(* Where a boot ends.                                                      *)

\* From its first load to its start, process 0 is one of this boot: it has not
\* run, and the frame spawn_bbx built is on its stack page.
Fresh ==
  pc \in {"spawn", "copy", "sched_start"} /\ nprocs > 0 =>
    \E q \in Calls :
      /\ plist[0].table = Table(q) /\ plist[0].sp = FirstSP
      /\ ram[StackSector(q)] = <<"frame", plist[0].lba>>
      /\ pc # "sched_start" => q < call

\* The reason why the machine stands where it does.
Reasons ==
  /\ BootRecLba \in unreadable => 0 \in unreadable
  /\ pc = "halt" => BootRecLba \in unreadable \/ BootRecLba \in foreign \/ KernelLba \in foreign
  /\ pc = "hang" => 0 \in unreadable
  /\ pc = "lost" => \A q \in Calls : ~ Good(q)

EndInv == StartupInv /\ Fresh /\ Reasons

\* Only the kernel's main is in the states Fresh speaks of.
LEMMA FreshElsewhere ==
  pc' \notin {"spawn", "copy", "sched_start"} => Fresh'
BY DEF Fresh

\* Steps that lead to none of the ends.
LEMMA ReasonsKept ==
  ASSUME Reasons, foreign' = foreign, unreadable' = unreadable,
         pc' \in {"halt", "hang", "lost"} => pc' = pc
  PROVE  Reasons'
BY DEF Reasons, Good

LEMMA BootRecordEnds == EndInv /\ BootRecord => Reasons'
<1> SUFFICES ASSUME EndInv, BootRecord PROVE Reasons'
  OBVIOUS
<1>1. foreign' = foreign /\ unreadable' = unreadable /\ pc' \in {"load", "halt"}
  BY DEF BootRecord, still
<1>2. CASE BootRecLba \in unreadable \/ BootRecLba \in foreign
  BY <1>1, <1>2 DEF EndInv, Reasons
<1>3. CASE ~ (BootRecLba \in unreadable \/ BootRecLba \in foreign)
  <2>1. Fetched(BootRecLba) = Contents(BootRecLba)
    BY <1>3 DEF Fetched
  <2>2. BootRecLba \in Written
    BY DEF Written
  <2>3. buf' = <<"written", BootRecLba>>
    BY <1>3, <2>1, <2>2 DEF BootRecord, Contents
  <2>4. pc' = "load"
    BY <2>3 DEF BootRecord
  <2> QED  BY <1>1, <2>4 DEF EndInv, Reasons
<1> QED  BY <1>2, <1>3

\* The kernel's first sector replaces the boot record.
LEMMA LoadDoneEnds == EndInv /\ LoadDone => Reasons'
<1> SUFFICES ASSUME EndInv, LoadDone PROVE Reasons'
  OBVIOUS
<1>1. /\ foreign' = foreign /\ unreadable' = unreadable
      /\ pc = "load" /\ count.lo = 0 /\ count.hi = 0
      /\ pc' = IF IsBbx(ram[1]) THEN "kentry" ELSE "halt"
  BY StageSector DEF LoadDone, still
<1>2. PICK n \in 0..KernelNsec : Loaded(n)
  BY <1>1 DEF EndInv, StartupInv, Loading
<1>3. 0 = KernelNsec - n
  BY <1>1, <1>2 DEF Loaded
<1>4. 1 \in 1..n /\ KernelLba + 1 - 1 = KernelLba /\ KernelLba \in KernelBlocks
  BY <1>3, KernelLbaFits DEF KernelBlocks
<1>5. ram[1] = Contents(KernelLba)
  BY <1>2, <1>4 DEF Loaded
<1>6. CASE KernelLba \in foreign
  BY <1>1, <1>6 DEF EndInv, Reasons
<1>7. CASE KernelLba \notin foreign
  <2>1. KernelLba \in Written /\ KernelLba \in BbxHeads
    BY <1>4 DEF Written, BbxHeads
  <2>2. IsBbx(ram[1])
    BY <1>5, <1>7, <2>1 DEF Contents, IsBbx
  <2> QED  BY <1>1, <2>2 DEF EndInv, Reasons
<1> QED  BY <1>6, <1>7

LEMMA MainEnds == EndInv /\ Main => Fresh' /\ Reasons'
<1> SUFFICES ASSUME EndInv, Main PROVE Fresh' /\ Reasons'
  OBVIOUS
<1>1. nprocs' = 0
  BY DEF Main, EndInv, StartupInv, Counted
<1>2. foreign' = foreign /\ unreadable' = unreadable
      /\ pc' = IF 0 \in unreadable THEN "hang" ELSE "spawn"
  BY DEF Main, still
<1>3. Fresh'
  BY <1>1 DEF Fresh
<1>4. Reasons'
  BY <1>2 DEF EndInv, Reasons
<1> QED  BY <1>3, <1>4

\* What a step of spawn_bbx leaves of process 0, once there is one.
LEMMA FreshKept ==
  ASSUME Fresh, pc \in {"spawn", "copy"}, nprocs > 0, nprocs' > 0, call \in Nat,
         plist'[0].table = plist[0].table, plist'[0].lba = plist[0].lba,
         plist'[0].sp = plist[0].sp, call' \in {call, call + 1},
         \A q \in Calls : q # call => ram'[StackSector(q)] = ram[StackSector(q)]
  PROVE  Fresh'
<1>1. PICK q \in Calls : /\ plist[0].table = Table(q) /\ plist[0].sp = FirstSP
                         /\ ram[StackSector(q)] = <<"frame", plist[0].lba>> /\ q < call
  BY DEF Fresh
<1>2. q \in Nat /\ q # call /\ q < call'
  BY <1>1, SomeCall
<1>3. ram'[StackSector(q)] = <<"frame", plist'[0].lba>>
  BY <1>1, <1>2
<1> QED  BY <1>1, <1>2, <1>3 DEF Fresh

LEMMA SpawnHeaderEnds == EndInv /\ SpawnHeader => Fresh'
<1> SUFFICES ASSUME EndInv, SpawnHeader PROVE Fresh'
  OBVIOUS
<1>1. /\ pc = "spawn" /\ ram' = ram /\ nprocs' = nprocs /\ nprocs \in 0..4
      /\ plist \in [0..3 -> Procs] /\ call \in Nat /\ call' \in {call, call + 1}
  BY SomeCall DEF SpawnHeader, Return, EndInv, StartupInv, Types, Copying
<1>2. CASE nprocs = 0
  BY <1>1, <1>2 DEF Fresh
<1>3. CASE nprocs > 0
  <2>1. plist'[0] = plist[0]
    <3>1. CASE nprocs >= MaxProcs
      BY <3>1 DEF SpawnHeader
    <3>2. CASE ~ (nprocs >= MaxProcs)
      BY <1>1, <1>3, <3>2 DEF SpawnHeader
    <3> QED  BY <3>1, <3>2
  <2> QED  BY <1>1, <1>3, <2>1, FreshKept DEF EndInv
<1> QED  BY <1>1, <1>2, <1>3

LEMMA SpawnBlockEnds == EndInv /\ SpawnBlock /\ SpawnKeeps => Fresh'
<1> SUFFICES ASSUME EndInv, SpawnBlock, SpawnKeeps PROVE Fresh'
  OBVIOUS
<1>1. /\ pc = "copy" /\ plist' = plist /\ nprocs' = nprocs /\ nprocs \in 0..4 /\ nprocs < 4
      /\ call \in Calls /\ call \in Nat /\ call' \in {call, call + 1}
      /\ plist[nprocs].table = Table(call) /\ b \in Nat /\ b < Programs[call].nblocks
  BY SomeCall DEF SpawnBlock, MoreBlocks, Return, EndInv, StartupInv, Types, Copying
<1>2. b \in BlockNos(call) /\ foreign' = foreign
  BY <1>1, CallTypes DEF BlockNos, SpawnKeeps, still
<1>3. \A q \in Calls : q # call => ram'[StackSector(q)] = ram[StackSector(q)]
  <2>1. CASE ram' = ram
    BY <2>1
  <2>2. CASE ram' # ram
    <3>1. ram' = [ram EXCEPT ![SectorOf(SectorPA(Table(call), b))] = buf']
      BY <1>1, <2>2 DEF SpawnBlock, CopyTarget
    <3>2. ram' = [ram EXCEPT ![Place(call, b)] = buf'] /\ Place(call, b) \in OwnSectors(call)
      BY <1>1, <1>2, <3>1, ImagePlace DEF OwnSectors
    <3>3. StartupInv /\ KernelRuns
      BY <1>1 DEF EndInv, KernelRuns
    <3>4. \A r \in Calls : r # call => ram'[StackSector(r)] = ram[StackSector(r)]
      <4>1. call \in Calls /\ foreign' = foreign
        BY <1>1, <1>2
      <4>2. PICK at, c : at \in OwnSectors(call) /\ ram' = [ram EXCEPT ![at] = c]
        BY <3>2
      <4> QED  BY <3>3, <4>1, <4>2, OwnSectorWritten
    <3> QED  BY <3>4
  <2> QED  BY <2>1, <2>2
<1>4. CASE nprocs = 0
  BY <1>1, <1>4 DEF Fresh
<1>5. CASE nprocs > 0
  BY <1>1, <1>3, <1>5, FreshKept DEF EndInv
<1> QED  BY <1>1, <1>4, <1>5

LEMMA SpawnDoneEnds == EndInv /\ SpawnDone /\ SpawnKeeps => Fresh'
<1> SUFFICES ASSUME EndInv, SpawnDone, SpawnKeeps PROVE Fresh'
  OBVIOUS
<1> DEFINE l == Programs[call].lba % 256
<1>1. /\ pc = "copy" /\ nprocs \in 0..3 /\ call \in Calls /\ call \in Nat /\ call' = call + 1
      /\ plist \in [0..3 -> Procs] /\ plist[nprocs].table = Table(call)
      /\ nprocs' = nprocs + 1 /\ foreign' = foreign
  <2>1. nprocs \in 0..4 /\ nprocs < 4
    BY DEF SpawnDone, EndInv, StartupInv, Types, Copying
  <2>2. nprocs \in 0..3
    BY <2>1
  <2>3. foreign' = foreign /\ call' = call + 1 /\ nprocs' = nprocs + 1 /\ pc = "copy"
    BY DEF SpawnDone, Return, SpawnKeeps, still
  <2>4. call \in Calls /\ plist[nprocs].table = Table(call) /\ plist \in [0..3 -> Procs]
    BY <2>3 DEF EndInv, StartupInv, Types, Copying
  <2> QED  BY <2>2, <2>3, <2>4, SomeCall
<1>2. /\ ram' = [ram EXCEPT ![StackSector(call)] = <<"frame", l>>]
      /\ plist' = [plist EXCEPT ![nprocs].state = "waiting", ![nprocs].lba = l, ![nprocs].sp = FirstSP]
  BY <1>1, StackPlace DEF SpawnDone
<1> HIDE DEF l
<1>3. StackSector(call) \in OwnSectors(call)
  BY DEF OwnSectors
<1>4. /\ ram'[StackSector(call)] = <<"frame", l>>
      /\ \A q \in Calls : q # call => ram'[StackSector(q)] = ram[StackSector(q)]
  BY <1>1, <1>2, <1>3, OwnSectorWritten DEF EndInv, KernelRuns
<1>5. CASE nprocs = 0
  <2>1. plist[0] \in Procs
    BY <1>1
  <2>2. plist'[0] = [plist[0] EXCEPT !.state = "waiting", !.lba = l, !.sp = FirstSP]
    BY <1>1, <1>2, <1>5
  <2>3. plist'[0].lba = l /\ plist'[0].sp = FirstSP /\ plist'[0].table = Table(call)
    BY <1>1, <1>5, <2>1, <2>2 DEF Procs
  <2>4. call < call'
    BY <1>1
  <2>5. PICK q \in Calls : q = call
    BY <1>1
  <2> QED  BY <1>4, <2>3, <2>4, <2>5 DEF Fresh
<1>6. CASE nprocs # 0
  <2>1. nprocs > 0 /\ nprocs' > 0
    BY <1>1, <1>6
  <2>2. plist'[0] = plist[0]
    BY <1>1, <1>2, <1>6
  <2> QED  BY <1>1, <1>4, <2>1, <2>2, FreshKept DEF EndInv
<1> QED  BY <1>5, <1>6

\* sched_start finds the frame if there is a process, and there is one if a
\* program could be loaded.
LEMMA SchedStartEnds == EndInv /\ SchedStart => Reasons'
<1> SUFFICES ASSUME EndInv, SchedStart PROVE Reasons'
  OBVIOUS
<1>1. /\ foreign' = foreign /\ unreadable' = unreadable /\ pc = "sched_start"
      /\ pc' = IF FrameFound(0) THEN "user" ELSE "lost"
  BY DEF SchedStart, still
<1>2. CASE \E q \in Calls : Good(q)
  <2>1. PICK g \in Calls : Good(g)
    BY <1>2
  <2>2. g < call
    <3>1. call = Len(Programs) + 1
      BY <1>1 DEF EndInv, StartupInv, Counted
    <3> QED  BY <3>1, StartupAssumption DEF Calls
  <2>3. nprocs > 0
    BY <1>1, <2>1, <2>2 DEF EndInv, StartupInv, Counted
  <2>4. PICK q \in Calls : /\ plist[0].table = Table(q) /\ plist[0].sp = FirstSP
                           /\ ram[StackSector(q)] = <<"frame", plist[0].lba>>
    BY <1>1, <2>3 DEF EndInv, Fresh
  <2>5. SectorOf(UserAddr(plist[0].table, FrameVA)) = StackSector(q)
    BY <2>4, StackPlace
  <2>6. FrameFound(0)
    BY <2>4, <2>5 DEF FrameFound
  <2> QED  BY <1>1, <2>6 DEF EndInv, Reasons
<1>3. CASE ~ \E q \in Calls : Good(q)
  BY <1>1, <1>3 DEF EndInv, Reasons, Good
<1> QED  BY <1>2, <1>3

LEMMA EndInvInit == Init => EndInv
<1> SUFFICES ASSUME Init PROVE EndInv
  OBVIOUS
<1>1. StartupInv
  BY InitInv
<1>2. Fresh /\ pc = "reset"
  BY DEF Init, Fresh
<1>3. BootRecLba \in unreadable => 0 \in unreadable
  <2>1. CASE unreadable = AllBlocks
    BY <2>1 DEF AllBlocks
  <2>2. CASE unreadable \in SUBSET Flaky
    <3>1. BootRecLba \notin Flaky
      <4>1. BootRecLba \in {BootRecLba} \union KernelBlocks
        OBVIOUS
      <4>2. BootRecLba \notin {0} \union UNION {ProgramBlocks(q) : q \in Calls}
        BY <4>1, LayoutAssumption
      <4>3. Flaky \subseteq {0} \union UNION {ProgramBlocks(q) : q \in Calls}
        BY StartupAssumption
      <4> QED  BY <4>2, <4>3
    <3> QED  BY <2>2, <3>1
  <2> QED  BY <2>1, <2>2 DEF Init
<1> QED  BY <1>1, <1>2, <1>3 DEF EndInv, Reasons

LEMMA EndInvNext == EndInv /\ [Next]_vars => EndInv'
<1> SUFFICES ASSUME EndInv, [Next]_vars PROVE EndInv'
  OBVIOUS
<1>0. StartupInv'
  BY NextInv DEF EndInv
<1> SUFFICES Fresh' /\ Reasons'
  BY <1>0 DEF EndInv
<1>1. CASE MachineReset
  <2>1. pc' = "reset" /\ foreign' = foreign /\ unreadable' = unreadable
    BY <1>1 DEF MachineReset
  <2> QED  BY <2>1, FreshElsewhere, ReasonsKept DEF EndInv
<1>2. CASE Reset
  <2>1. pc' = "boot_record" /\ foreign' = foreign /\ unreadable' = unreadable
    BY <1>2 DEF Reset, still
  <2> QED  BY <2>1, FreshElsewhere, ReasonsKept DEF EndInv
<1>3. CASE BootRecord
  <2>1. pc' \in {"load", "halt"}
    BY <1>3 DEF BootRecord
  <2> QED  BY <1>3, <2>1, FreshElsewhere, BootRecordEnds
<1>4. CASE LoadSector
  <2>1. pc' = "load" /\ foreign' = foreign /\ unreadable' = unreadable
    BY <1>4 DEF LoadSector, still
  <2> QED  BY <2>1, FreshElsewhere, ReasonsKept DEF EndInv
<1>5. CASE LoadDone
  <2>1. pc' \in {"kentry", "halt"}
    BY <1>5 DEF LoadDone
  <2> QED  BY <1>5, <2>1, FreshElsewhere, LoadDoneEnds
<1>6. CASE Main
  BY <1>6, MainEnds
<1>7. CASE Spawn /\ UNCHANGED <<still, handler, boot, cur, mmu>>
  <2>1. SpawnKeeps /\ foreign' = foreign /\ unreadable' = unreadable
    BY <1>7 DEF SpawnKeeps, still
  <2>2. Fresh'
    BY <1>7, <2>1, SpawnHeaderEnds, SpawnBlockEnds, SpawnDoneEnds DEF Spawn
  <2>3. pc' \in {"spawn", "copy", "sched_start"}
    BY <1>7 DEF Spawn, SpawnHeader, SpawnBlock, SpawnDone, Return
  <2> QED  BY <2>1, <2>2, <2>3, ReasonsKept DEF EndInv
<1>8. CASE SchedStart
  <2>1. pc' \in {"user", "lost"}
    BY <1>8 DEF SchedStart
  <2> QED  BY <1>8, <2>1, FreshElsewhere, SchedStartEnds
<1>9. CASE (\E va \in {StackVA, CStackVA} : Store(va)) \/ Yield
  <2>1. pc' = "user" /\ foreign' = foreign /\ unreadable' = unreadable
    BY <1>9 DEF Store, Yield, still
  <2> QED  BY <2>1, FreshElsewhere, ReasonsKept DEF EndInv
<1>10. CASE Spin \/ UNCHANGED vars
  <2>1. UNCHANGED vars
    BY <1>10 DEF Spin
  <2>2. Fresh'
    BY <2>1 DEF vars, EndInv, Fresh
  <2>3. Reasons'
    BY <2>1, ReasonsKept DEF vars, EndInv
  <2> QED  BY <2>2, <2>3
<1> QED
  BY <1>1, <1>2, <1>3, <1>4, <1>5, <1>6, <1>7, <1>8, <1>9, <1>10 DEF Next, CpuStep

(***************************************************************************)
(* NeverStranded: with a boot record, a kernel and one good program on the *)
(* disk no boot ends in the boot ROM's halt, in main's endless loop or in  *)
(* an RTI without a frame, however many resets came before it.             *)
(***************************************************************************)
THEOREM NeverStrandedHolds == Spec => []NeverStranded
<1>1. EndInv => NeverStranded
  <2> SUFFICES ASSUME EndInv, Bootable PROVE pc \notin {"halt", "hang", "lost"}
    BY DEF NeverStranded
  <2>1. PICK q \in Calls : Loadable(q)
    BY DEF Bootable
  <2>2. ASSUME NEW n \in BlockNos(q) PROVE Block(q, n) \in ProgramBlocks(q)
    <3>1. PICK l \in Nat, m \in Nat : Programs[q].lba = l /\ Programs[q].nblocks = m
      BY CallTypes
    <3>2. n \in 0..(m - 1)
      BY <2>2, <3>1 DEF BlockNos
    <3>3. l + n \in l..(l + m - 1)
      BY <3>1, <3>2
    <3> QED  BY <3>1, <3>3 DEF Block, ProgramBlocks
  <2>3. Programs[q].lba \in ProgramBlocks(q)
    BY <2>2, FirstBlock
  <2>4. Good(q)
    BY <2>1, <2>2, <2>3 DEF Loadable, Good
  <2> QED  BY <2>4 DEF Bootable, EndInv, Reasons
<1> QED  BY <1>1, EndInvInit, EndInvNext, PTL DEF Spec

----------------------------------------------------------------------------
(* Every boot ends: what it still has to do grows less with every step.    *)

\* An upper bound on the steps that are left. A call of spawn_bbx has at most
\* 56 blocks to copy.
CallsAhead == 60 * (Len(Programs) - call)
Remaining ==
  CASE pc = "reset"       -> 60 * Len(Programs) + KernelNsec + 6
    [] pc = "boot_record" -> 60 * Len(Programs) + KernelNsec + 5
    [] pc = "load"        -> 60 * Len(Programs) + (256 * count.hi + count.lo) + 4
    [] pc = "kentry"      -> 60 * Len(Programs) + 3
    [] pc = "spawn"       -> CallsAhead + 62
    [] pc = "copy"        -> CallsAhead + (Programs[call].nblocks - b) + 3
    [] pc = "sched_start" -> 1
    [] OTHER              -> 0
Booting == pc \notin {"user", "halt", "hang", "lost"}

LEMMA RemainingIs ==
  /\ pc = "reset" => Remaining = 60 * Len(Programs) + KernelNsec + 6
  /\ pc = "boot_record" => Remaining = 60 * Len(Programs) + KernelNsec + 5
  /\ pc = "load" => Remaining = 60 * Len(Programs) + (256 * count.hi + count.lo) + 4
  /\ pc = "kentry" => Remaining = 60 * Len(Programs) + 3
  /\ pc = "spawn" => Remaining = CallsAhead + 62
  /\ pc = "copy" => Remaining = CallsAhead + (Programs[call].nblocks - b) + 3
  /\ pc = "sched_start" => Remaining = 1
  /\ pc \in {"user", "halt", "hang", "lost"} => Remaining = 0
BY DEF Remaining

LEMMA RemainingBecomes ==
  /\ pc' = "boot_record" => Remaining' = 60 * Len(Programs) + KernelNsec + 5
  /\ pc' = "load" => Remaining' = 60 * Len(Programs) + (256 * count'.hi + count'.lo) + 4
  /\ pc' = "kentry" => Remaining' = 60 * Len(Programs) + 3
  /\ pc' = "spawn" => Remaining' = 60 * (Len(Programs) - call') + 62
  /\ pc' = "copy" => Remaining' = 60 * (Len(Programs) - call') + (Programs[call'].nblocks - b') + 3
  /\ pc' = "sched_start" => Remaining' = 1
  /\ pc' \in {"user", "halt", "hang", "lost"} => Remaining' = 0
BY DEF Remaining, CallsAhead

Advances == Remaining' \in Nat /\ Remaining' < Remaining

LEMMA LoaderAdvances ==
  ASSUME StartupInv, Reset \/ BootRecord \/ LoadSector \/ LoadDone \/ Main
  PROVE  Advances
<1>1. PICK L \in Nat, N \in Nat : Len(Programs) = L /\ KernelNsec = N /\ N <= 62
  BY StartupAssumption
<1>2. CASE Reset
  BY <1>1, <1>2, RemainingIs, RemainingBecomes DEF Reset, Advances
<1>3. CASE BootRecord
  <2>1. Remaining = 60 * L + N + 5
    BY <1>1, <1>3, RemainingIs DEF BootRecord
  <2>2. CASE pc' = "load"
    <3>1. count' = [lo |-> N % 256, hi |-> N \div 256]
      BY <1>1, <1>3, <2>2 DEF BootRecord
    <3>2. N % 256 = N /\ N \div 256 = 0
      BY <1>1
    <3>3. 256 * count'.hi + count'.lo = N
      BY <1>1, <3>1, <3>2
    <3>4. Remaining' = 60 * L + N + 4
      BY <1>1, <2>2, <3>3, RemainingBecomes
    <3> QED  BY <2>1, <3>4 DEF Advances
  <2>3. CASE pc' = "halt"
    BY <2>1, <2>3, RemainingBecomes DEF Advances
  <2> QED  BY <1>3, <2>2, <2>3 DEF BootRecord
<1>4. CASE LoadSector \/ LoadDone
  <2>1. count \in [lo : Byte, hi : Byte] /\ pc = "load"
    BY <1>4 DEF StartupInv, Types, LoadSector, LoadDone
  <2>2. PICK h \in Nat, l \in Nat : count.hi = h /\ count.lo = l
    <3>1. count.hi \in Byte /\ count.lo \in Byte
      BY <2>1
    <3>2. \A u \in Byte : u \in Nat
      BY DEF Byte
    <3> QED  BY <3>1, <3>2
  <2>3. Remaining = 60 * L + (256 * h + l) + 4
    BY <1>1, <2>1, <2>2, RemainingIs
  <2>4. CASE LoadSector
    <3>1. 256 * count.hi + count.lo > 0
      <4>1. h # 0 \/ l # 0
        BY <2>2, <2>4 DEF LoadSector
      <4> QED  BY <2>2, <4>1
    <3>2. DecCount(count) \in [lo : Byte, hi : Byte]
          /\ 256 * DecCount(count).hi + DecCount(count).lo = (256 * count.hi + count.lo) - 1
      BY <2>1, <3>1, DecCounts
    <3>3. PICK d \in Nat : d = 256 * h + l /\ d > 0
      BY <2>2, <3>1
    <3>4. 256 * count'.hi + count'.lo = d - 1
      BY <2>2, <2>4, <3>2, <3>3 DEF LoadSector
    <3>5. pc' = "load"
      BY <2>4 DEF LoadSector
    <3>6. Remaining' = 60 * L + (d - 1) + 4
      BY <1>1, <3>4, <3>5, RemainingBecomes
    <3> QED  BY <2>3, <3>3, <3>6 DEF Advances
  <2>5. CASE LoadDone
    <3>1. pc' \in {"kentry", "halt"}
      BY <2>5 DEF LoadDone
    <3>2. Remaining' = 60 * L + 3 \/ Remaining' = 0
      BY <1>1, <3>1, RemainingBecomes
    <3> QED  BY <2>3, <3>2 DEF Advances
  <2> QED  BY <1>4, <2>4, <2>5
<1>5. CASE Main
  <2>1. Remaining = 60 * L + 3
    BY <1>1, <1>5, RemainingIs DEF Main
  <2>2. pc' \in {"hang", "spawn"} /\ call' = 1
    BY <1>5 DEF Main
  <2>3. Remaining' = 60 * (L - 1) + 62 \/ Remaining' = 0
    BY <1>1, <2>2, RemainingBecomes
  <2>4. L >= 1
    BY <1>1, StartupAssumption
  <2> QED  BY <2>1, <2>3, <2>4 DEF Advances
<1> QED  BY <1>2, <1>3, <1>4, <1>5

LEMMA SpawnAdvances ==
  ASSUME StartupInv, Spawn PROVE Advances
<1>1. pc \in {"spawn", "copy"} /\ call \in Calls /\ b \in Nat
  BY DEF Spawn, SpawnHeader, SpawnBlock, SpawnDone, StartupInv, Types, Copying
<1>2. PICK L \in Nat, c \in Nat, m \in Nat :
        Len(Programs) = L /\ call = c /\ c <= L /\ Programs[call].nblocks = m /\ m <= 56
  <2>1. Programs[call].nblocks \in 1..56
    BY <1>1, CallTypes
  <2>2. PICK m \in Nat : Programs[call].nblocks = m /\ m <= 56
    BY <2>1
  <2>3. PICK L \in Nat : Len(Programs) = L
    BY StartupAssumption
  <2>4. call \in Nat /\ call <= L
    BY <1>1, <2>3 DEF Calls
  <2> QED  BY <2>2, <2>3, <2>4
<1>3. /\ pc = "spawn" => Remaining = 60 * (L - c) + 62
      /\ pc = "copy" => Remaining = 60 * (L - c) + (m - b) + 3 /\ b <= m
  BY <1>2, RemainingIs DEF CallsAhead, StartupInv, Copying
<1>4. CASE Return
  <2>1. call' = c + 1 /\ pc' = IF c < L THEN "spawn" ELSE "sched_start"
    BY <1>2, <1>4 DEF Return
  <2>2. CASE c < L
    <3>1. Remaining' = 60 * (L - (c + 1)) + 62
      BY <1>2, <2>1, <2>2, RemainingBecomes
    <3> QED  BY <1>1, <1>2, <1>3, <2>2, <3>1 DEF Advances
  <2>3. CASE ~ (c < L)
    <3>1. Remaining' = 1
      BY <2>1, <2>3, RemainingBecomes
    <3> QED  BY <1>1, <1>2, <1>3, <3>1 DEF Advances
  <2> QED  BY <2>2, <2>3
<1>5. CASE ~ Return
  <2>1. pc' = "copy" /\ call' = call
        /\ ((pc = "spawn" /\ b' = 0) \/ (pc = "copy" /\ b' = b + 1 /\ b < m))
    <3>1. CASE SpawnHeader
      <4>1. CASE nprocs >= MaxProcs
        BY <1>5, <3>1, <4>1 DEF SpawnHeader
      <4>2. CASE ~ (nprocs >= MaxProcs)
        <5>1. pc = "spawn" /\ b' = 0
          BY <3>1, <4>2 DEF SpawnHeader
        <5>2. Return \/ (pc' = "copy" /\ call' = call)
          BY <3>1, <4>2 DEF SpawnHeader
        <5>3. pc' = "copy" /\ call' = call
          BY <1>5, <5>2, Zenon
        <5> QED  BY <5>1, <5>3
      <4> QED  BY <4>1, <4>2
    <3>2. CASE SpawnBlock
      BY <1>2, <1>5, <3>2 DEF SpawnBlock, MoreBlocks
    <3>3. CASE SpawnDone
      BY <1>5, <3>3 DEF SpawnDone
    <3> QED  BY <3>1, <3>2, <3>3 DEF Spawn
  <2>2. Remaining' = 60 * (L - c) + (m - b') + 3
    BY <1>2, <2>1, RemainingBecomes
  <2>3. CASE pc = "spawn" /\ b' = 0
    BY <1>2, <1>3, <2>2, <2>3 DEF Advances
  <2>4. CASE pc = "copy" /\ b' = b + 1 /\ b < m
    BY <1>1, <1>2, <1>3, <2>2, <2>4 DEF Advances
  <2> QED  BY <2>1, <2>3, <2>4
<1> QED  BY <1>4, <1>5

(***************************************************************************)
(* Every step of the boot ROM, of main and of the loader brings the end of *)
(* the boot nearer, by a measure of natural numbers, unless it is a reset: *)
(* no boot goes on for ever. With NeverStranded, Boots needs no more of    *)
(* fairness than that steps are taken.                                     *)
(***************************************************************************)
THEOREM BootAdvances == Spec => [][Booting /\ pc' # "reset" => Advances]_vars
<1>1. StartupInv /\ [Next]_vars => [Booting /\ pc' # "reset" => Advances]_vars
  <2> SUFFICES ASSUME StartupInv, Next, Booting, pc' # "reset" PROVE Advances
    OBVIOUS
  <2>1. CASE Reset \/ BootRecord \/ LoadSector \/ LoadDone \/ Main
    BY <2>1, LoaderAdvances
  <2>2. CASE Spawn
    BY <2>2, SpawnAdvances
  <2>3. CASE SchedStart
    <3>1. pc = "sched_start" /\ pc' \in {"user", "lost"}
      BY <2>3 DEF SchedStart
    <3> QED  BY <3>1, RemainingIs, RemainingBecomes DEF Advances
  <2>4. ~ MachineReset /\ ~ Yield /\ ~ Spin /\ ~ \E va \in {StackVA, CStackVA} : Store(va)
    BY DEF Booting, MachineReset, Yield, Spin, Store
  <2> QED  BY <2>1, <2>2, <2>3, <2>4 DEF Next, CpuStep
<1> QED  BY <1>1, StartupInvHolds, PTL DEF Spec
=============================================================================
