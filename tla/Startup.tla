------------------------------- MODULE Startup -------------------------------
(***************************************************************************)
(* From reset to the first process: the boot ROM (boot.s) stages the boot  *)
(* record and loads the kernel, the kernel (crt0.s, main.c) loads the demo *)
(* programs (spawn_bbx) and starts the scheduler, and the programs write   *)
(* to the memory they were given. The debugger may reset the machine at    *)
(* any point; RAM, the disk and its registers stay as they are.            *)
(*                                                                         *)
(* RAM is 64 sectors of 512 bytes and a sector's contents are a tag: which *)
(* disk block it was copied from or who wrote it last. The kernel's writes *)
(* to its own variables are not recorded. Reset to scheduler is one        *)
(* thread in kernel mode, so nothing happens between two lines of an       *)
(* action; what varies is the disk.                                        *)
(***************************************************************************)
EXTENDS AddressSpace, Sequences

CONSTANTS
  KernelLba, KernelNsec, \* the boot record's fields
  KernelUsed,            \* sectors of the kernel image that are not padding
  Programs,              \* main's calls: <<[lba, nblocks, base], ...>>
  Flaky,                 \* blocks whose read may fail while others succeed
  MaxResets              \* bound on the resets after power-on

BootRecLba == 100
MaxProcs   == 4
Sectors    == 0..63
Stage      == 512              \* STAGE_ADDR, $0200
StackVA    == 511              \* top of the hardware stack, $01FF
CStackVA   == 32511            \* top of the cc65 stack, $7EFF
FirstSP    == 252              \* SP of a process that has not run
YieldSP    == 240              \* and of one that has: any other value
FrameVA    == 509              \* where spawn_bbx builds the RTI frame, $01FD
KernelBss  == {56, 57}         \* plist and block_buf, $7000-$72FF
KernelCStack == 63             \* $7EFF down

Calls        == 1..Len(Programs)
KernelBlocks == KernelLba..(KernelLba + KernelNsec - 1)
ProgramBlocks(q) == Programs[q].lba..(Programs[q].lba + Programs[q].nblocks - 1)
Written  == {BootRecLba} \union KernelBlocks \union UNION {ProgramBlocks(q) : q \in Calls}
BbxHeads == {KernelLba} \union {Programs[q].lba : q \in Calls}
AllBlocks == {0} \union Written

ASSUME StartupAssumption ==
  /\ KernelLba \in Nat /\ KernelNsec \in 1..62 /\ KernelUsed \in 1..KernelNsec
  /\ Len(Programs) \in Nat \ {0}
  /\ \A q \in Calls : Programs[q].nblocks \in 1..56 /\ Programs[q].base \in 1..6
  /\ MaxResets \in Nat
  /\ Flaky \subseteq {0} \union UNION {ProgramBlocks(q) : q \in Calls}

\* Where a program is in RAM: its zero page and stack, its image, and the C
\* stack, which the rotated page table puts below its block.
StackSector(q)  == 8 * Programs[q].base
ImageSectors(q) == (8 * Programs[q].base + 8)..(8 * Programs[q].base + 7 + Programs[q].nblocks)
CStackSector(q) == 8 * Programs[q].base - 1
Own(q)          == {StackSector(q)} \union ImageSectors(q)

\* What main.c's numbers and the sizes of kernel.cfg have to be for all this
\* to fit; the block number of the boot record is 32 bits wide.
ASSUME LayoutAssumption ==
  /\ (KernelLba + KernelNsec) \div 65536 < 65536
  /\ ({BootRecLba} \union KernelBlocks)
       \intersect ({0} \union UNION {ProgramBlocks(q) : q \in Calls}) = {}
  /\ \A q \in Calls :
       /\ Programs[q].lba \in Nat
       /\ KernelNsec < StackSector(q) /\ KernelUsed < CStackSector(q)
       /\ \A s \in ImageSectors(q) : s < 56 \* KernelBss
       /\ \A r \in Calls \ {q} : Own(q) \intersect (Own(r) \union {CStackSector(r)}) = {}

VARIABLES
  foreign,    \* blocks with a magic number that something else overwrote
  unreadable, \* blocks whose read reports an error
  pc,
  ram,
  buf,        \* the controller's sector buffer, and block_buf drained from it
  handler,    \* what $FE/$FF points at
  ptr, lba, count, \* the boot ROM's ZP_PTR, ZP_LBA, ZP_COUNT
  call, b,    \* main's call of spawn_bbx, and its loop counter
  plist, nprocs, cur, mmu,
  resets      \* resets so far (only bounds the runs)

still == <<foreign, unreadable, resets>>
boot == <<ptr, lba, count>>
vars == <<foreign, unreadable, pc, ram, buf, handler, ptr, lba, count, call, b,
          plist, nprocs, cur, mmu, resets>>

Identity == [i \in VPages |-> i]
PlaceValue == <<1, 256, 65536, 16777216>>
Bytes4(n) == [i \in 0..3 |-> (n \div PlaceValue[i + 1]) % 256]
Value4(v) == v[0] + 256 * v[1] + 65536 * v[2] + 16777216 * v[3]
Unset    == <<"unset", 0>>
NoProc   == [state |-> "exited", lba |-> 0, sp |-> 0, table |-> Identity]

\* Any of the sectors with a magic number may have been overwritten by files
\* copied onto the disk; reads fail for all blocks (no image attached) or for
\* some of Flaky (what the error bit allows, though the test bench never does).
Init ==
  /\ foreign \in SUBSET ({BootRecLba} \union BbxHeads)
  /\ unreadable \in {AllBlocks} \union SUBSET Flaky
  /\ pc = "reset" /\ ram = [s \in Sectors |-> Unset] /\ buf = Unset
  /\ handler = "none" /\ ptr = 0 /\ lba = Bytes4(0) /\ count = [lo |-> 0, hi |-> 0]
  /\ call = 1 /\ b = 0
  /\ plist = [i \in 0..(MaxProcs - 1) |-> NoProc] /\ nprocs = 0 /\ cur = 0
  /\ mmu = Identity /\ resets = 0

Contents(l) == IF l \in Written \ foreign THEN <<"written", l>> ELSE <<"other", l>>
\* A failed read leaves the buffer as it was.
Fetched(l) == IF l \in unreadable THEN buf ELSE Contents(l)
IsBbx(c)   == c \in {<<"written", l>> : l \in BbxHeads}
SectorOf(pa) == pa \div 512

----------------------------------------------------------------------------
(* Reset, and the boot ROM. It polls BUSY but never looks at the error bit. *)

\* dbgResetMachine: RST for 16 cycles, which also resets the MMU.
MachineReset ==
  /\ resets < MaxResets /\ resets' = resets + 1
  /\ pc' = "reset" /\ mmu' = Identity
  /\ UNCHANGED <<foreign, unreadable, ram, buf, handler, boot, call, b, plist, nprocs, cur>>

Reset ==
  /\ pc = "reset"
  /\ handler' = "early_brk" /\ pc' = "boot_record"
  /\ UNCHANGED <<still, ram, buf, boot, call, b, plist, nprocs, cur, mmu>>

BootRecord ==
  /\ pc = "boot_record"
  /\ buf' = Fetched(BootRecLba)
  /\ ram' = [ram EXCEPT ![SectorOf(Stage)] = buf']
  /\ ptr' = Stage
  /\ IF buf' = <<"written", BootRecLba>>
     THEN /\ lba' = Bytes4(KernelLba) /\ pc' = "load"
          /\ count' = [lo |-> KernelNsec % 256, hi |-> KernelNsec \div 256]
     ELSE pc' = "halt" /\ UNCHANGED <<lba, count>>
  /\ UNCHANGED <<still, handler, call, b, plist, nprocs, cur, mmu>>

\* inc ZP_LBA+0; bne; inc ZP_LBA+1; ... Seeded fault: no carry.
IncLbaNoCarry(v) == [v EXCEPT ![0] = (@ + 1) % 256]
IncLba(v) == [i \in 0..3 |-> IF \A j \in 0..(i - 1) : v[j] = 255 THEN (v[i] + 1) % 256 ELSE v[i]]

DecCount(c) == [lo |-> (c.lo + 255) % 256,
                hi |-> IF c.lo = 0 THEN (c.hi + 255) % 256 ELSE c.hi]

LoadSector ==
  /\ pc = "load" /\ (count.lo # 0 \/ count.hi # 0)
  /\ buf' = Fetched(Value4(lba))
  /\ ram' = [ram EXCEPT ![SectorOf(ptr)] = buf']
  /\ ptr' = (ptr + 512) % 65536
  /\ lba' = IncLba(lba) /\ count' = DecCount(count)
  /\ UNCHANGED <<still, pc, handler, call, b, plist, nprocs, cur, mmu>>

\* What nprocs is when the kernel starts: the BSS is part of the loaded image
\* (kernel.cfg). Seeded fault: it is not, and keeps what RAM held.
BssKept(old) == old
Bss(old) == 0

\* load_done: the kernel's header has replaced the boot record.
LoadDone ==
  /\ pc = "load" /\ count.lo = 0 /\ count.hi = 0
  /\ IF IsBbx(ram[SectorOf(Stage)]) THEN pc' = "kentry" /\ nprocs' = Bss(nprocs)
                                   ELSE pc' = "halt" /\ nprocs' = nprocs
  /\ UNCHANGED <<still, ram, buf, handler, boot, call, b, plist, cur, mmu>>

----------------------------------------------------------------------------
(* The kernel's main.                                                      *)

Main ==
  /\ pc = "kentry"
  /\ handler' = "brk_handler" /\ mmu' = Identity
  /\ buf' = Fetched(0) /\ call' = 1
  /\ pc' = IF 0 \in unreadable THEN "hang" ELSE "spawn"
  /\ UNCHANGED <<still, ram, boot, b, plist, nprocs, cur>>

\* Seeded faults: the image copied to its virtual address; one block too many.
CopyTargetUntranslated(table, n) == SectorVA(n)
MoreBlocksThanNblocks(n) == n <= Programs[call].nblocks

\* spawn_bbx returns; main goes on with the next call whatever the result.
Return ==
  /\ call' = call + 1
  /\ pc' = IF call < Len(Programs) THEN "spawn" ELSE "sched_start"

CopyTarget(table, n) == SectorPA(table, n)
MoreBlocks(n) == n < Programs[call].nblocks

\* Up to the magic number. The page table goes into the next free entry
\* before anything has been read.
SpawnHeader ==
  /\ pc = "spawn"
  /\ IF nprocs >= MaxProcs THEN Return /\ UNCHANGED <<plist, buf, b>>
     ELSE /\ plist' = [plist EXCEPT ![nprocs].table = SpawnPpn(Programs[call].base)]
          /\ buf' = Fetched(Programs[call].lba)
          /\ IF Programs[call].lba \in unreadable \/ ~ IsBbx(buf') THEN Return
             ELSE pc' = "copy" /\ call' = call
          /\ b' = 0
  /\ UNCHANGED <<ram, nprocs>>

\* One turn of the copy loop: block 0 is in the buffer already.
SpawnBlock ==
  /\ pc = "copy" /\ MoreBlocks(b)
  /\ LET l == Programs[call].lba + b IN
     IF b # 0 /\ l \in unreadable THEN Return /\ UNCHANGED <<ram, buf, b>>
     ELSE /\ buf' = IF b = 0 THEN buf ELSE Fetched(l)
          /\ ram' = [ram EXCEPT ![SectorOf(CopyTarget(plist[nprocs].table, b))] = buf']
          /\ b' = b + 1
          /\ UNCHANGED <<pc, call>>
  /\ UNCHANGED <<plist, nprocs>>

SpawnDone ==
  /\ pc = "copy" /\ ~ MoreBlocks(b)
  /\ LET l == Programs[call].lba % 256 IN
     /\ ram' = [ram EXCEPT ![SectorOf(plist[nprocs].table[0] * PageSize + FrameVA)] = <<"frame", l>>]
     /\ plist' = [plist EXCEPT ![nprocs].state = "waiting", ![nprocs].lba = l, ![nprocs].sp = FirstSP]
  /\ nprocs' = nprocs + 1
  /\ Return
  /\ UNCHANGED <<buf, b>>

Spawn == SpawnHeader \/ SpawnBlock \/ SpawnDone

\* sched_start takes plist[0] as it is. The RTI of ret_user_mode finds a frame
\* if spawn_bbx built one there.
FrameFound(p) ==
  /\ plist[p].sp = FirstSP
  /\ ram[SectorOf(UserAddr(plist[p].table, FrameVA))] = <<"frame", plist[p].lba>>

SchedStart ==
  /\ pc = "sched_start"
  /\ cur' = 0 /\ plist' = [plist EXCEPT ![0].state = "running"]
  /\ mmu' = plist[0].table
  /\ pc' = IF FrameFound(0) THEN "user" ELSE "lost"
  /\ UNCHANGED <<still, ram, buf, handler, boot, call, b, nprocs>>

----------------------------------------------------------------------------
(* The programs: what they store outside their images, and the switch from *)
(* one to the next (in detail in module Kernel).                           *)

Store(va) ==
  /\ pc = "user"
  /\ ram' = [ram EXCEPT ![SectorOf(UserAddr(mmu, va))] = <<"data", plist[cur].lba>>]
  /\ UNCHANGED <<still, pc, buf, handler, boot, call, b, plist, nprocs, cur, mmu>>

Yield ==
  /\ pc = "user"
  /\ cur' = (cur + 1) % nprocs
  /\ plist' = [[plist EXCEPT ![cur].state = "waiting", ![cur].sp = YieldSP]
                EXCEPT ![cur'].state = "running"]
  /\ mmu' = plist[cur'].table
  /\ UNCHANGED <<still, pc, ram, buf, handler, boot, call, b, nprocs>>

\* bra halt; while (1); or a CPU executing what it found at a random address.
Spin == pc \in {"halt", "hang", "lost"} /\ UNCHANGED vars

CpuStep ==
  \/ Reset \/ BootRecord \/ LoadSector \/ LoadDone
  \/ Main
  \/ Spawn /\ UNCHANGED <<still, handler, boot, cur, mmu>>
  \/ SchedStart
  \/ \E va \in {StackVA, CStackVA} : Store(va)
  \/ Yield
  \/ Spin
Next == CpuStep \/ MachineReset

Spec == Init /\ [][Next]_vars
FairSpec == Spec /\ WF_vars(CpuStep) \* the CPU keeps running

----------------------------------------------------------------------------
(* Properties.                                                             *)

\* Every variable has its type; the copy loop stays within the program's blocks
\* and the process count within the table.
TypeOK ==
  /\ pc \in {"reset", "boot_record", "load", "halt", "kentry", "hang", "spawn", "copy",
             "sched_start", "user", "lost"}
  /\ DOMAIN ram = Sectors /\ handler \in {"none", "early_brk", "brk_handler"}
  /\ ptr \in 0..(2 * RamBytes - 1) /\ lba \in [0..3 -> Byte] /\ count \in [lo : Byte, hi : Byte]
  /\ call \in 1..(Len(Programs) + 1)
  /\ pc = "copy" => b <= Programs[call].nblocks
  /\ DOMAIN plist = 0..(MaxProcs - 1) /\ nprocs \in 0..MaxProcs /\ cur \in 0..(MaxProcs - 1)
  /\ mmu \in {Identity} \union {SpawnPpn(k) : k \in 0..7}

KernelRuns == pc \in {"kentry", "hang", "spawn", "copy", "sched_start", "user"}

\* While the kernel runs, its image is the one on the disk, block by block in
\* order, and neither a program's image nor anything a program stores (its C
\* stack is mapped into the block below its own) has touched it or the
\* kernel's zero page, stack, process table, disk buffer and C stack.
KernelIntact ==
  KernelRuns =>
    /\ \A n \in 1..KernelUsed : ram[n] = Contents(KernelLba + n - 1)
    /\ \A s \in {0, KernelCStack} \union KernelBss : ram[s] = Unset

\* However the spawns before and after it ended, every process that was
\* counted has the page table of its program, its whole image where the
\* program was linked to find it, and a stack page nobody else has written.
ProgramsIntact ==
  \A p \in 0..(nprocs - 1) : \E q \in Calls :
    /\ plist[p].lba = Programs[q].lba % 256
    /\ plist[p].table = SpawnPpn(Programs[q].base)
    /\ \A n \in 0..(Programs[q].nblocks - 1) :
         ram[SectorOf(UserAddr(plist[p].table, SectorVA(n)))] = Contents(Programs[q].lba + n)
    /\ ram[SectorOf(UserAddr(plist[p].table, StackVA))] \in
         {<<"frame", plist[p].lba>>, <<"data", plist[p].lba>>}

\* With a boot record, a kernel and one good program on the disk the machine
\* gets to user mode, whichever other programs are missing or unreadable, and
\* gets there again after a reset at any point.
Loadable(q) == ProgramBlocks(q) \intersect (unreadable \union foreign) = {}
Bootable ==
  /\ {BootRecLba, KernelLba} \intersect foreign = {} /\ 0 \notin unreadable
  /\ \E q \in Calls : Loadable(q)
Boots == Bootable ~> (pc = "user")

\* What Boots needs of safety: such a machine never halts in the boot ROM, hangs
\* in main or leaves the kernel through a frame nobody built, in whatever state
\* of the process table and of the programs a reset found it.
NeverStranded == Bootable => pc \notin {"halt", "hang", "lost"}

\* docs/processes.md, "Starting": the RTI pops the frame spawn_bbx built, so
\* the process starts at its entry point.
StartsAtEntry == pc # "lost"
=============================================================================
