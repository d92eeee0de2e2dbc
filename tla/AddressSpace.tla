---------------------------- MODULE AddressSpace ----------------------------
(***************************************************************************)
(* The address arithmetic of the BB6502: how the MMU (rtl/mmu6502.v) turns *)
(* a CPU address into a RAM address, and the software translations that    *)
(* have to agree with it: the loader's page tables (proc.c) and the        *)
(* kernel's view of a process (syscalls.c, brk.s). Numbers are the         *)
(* machine's own: 32 pages of 1 KB, 16-bit addresses, 8-bit bytes.         *)
(***************************************************************************)
EXTENDS Integers

PageSize == 1024
VPages   == 0..31                 \* virtual pages, addr[14:10]
PPages   == 0..31                 \* physical pages, PPN_WIDTH = 5
RamBytes == 32768
Byte     == 0..255
RamVA    == 0..(RamBytes - 1)     \* addresses with bit 15 clear: RAM
PageTables == [VPages -> PPages]

----------------------------------------------------------------------------
(* The MMU. *)

Vpn(va)    == (va \div PageSize) % 32
Offset(va) == va % PageSize

\* ram_addr: the page table in user mode, the identity in kernel mode.
UserAddr(ppn, va) == ppn[Vpn(va)] * PageSize + Offset(va)
KernelAddr(va)    == Vpn(va) * PageSize + Offset(va)
RamAddr(kernel, ppn, va) == IF kernel THEN KernelAddr(va) ELSE UserAddr(ppn, va)

----------------------------------------------------------------------------
(* Seeded faults: wrong forms of definitions below, used only to see that  *)
(* the properties notice them.                                             *)

\* virtual pages counted as blocks.
SpawnPpnByBlock(base) == [i \in VPages |-> ((base + i) % 8) * 4 + (i % 4)]

\* the block is not translated, only added to.
SectorPAFromFirstPage(ppn, b) == ppn[4] * PageSize + (b * 1024)

\* every pointer translated through page 0.
UPtrThroughPage0(ppn, va) == ppn[0] * PageSize + (va % PageSize)

\* the stack's own page number forgotten.
FramePtrUntranslated(ppn, sp) == 256 + sp

\* the borrow of PC - 1 is dropped.
NumberPtrNoBorrow(ppn, pcl, pch) ==
  ((ppn[(pch \div 4) % 32] * 4) + (pch % 4)) * 256 + ((pcl + 255) % 256)

----------------------------------------------------------------------------
(* The page table spawn_bbx builds for a program loaded at 4 KB block      *)
(* `base`: ((base + (i >> 2)) & 7) << 2 | (i & 3).                         *)

SpawnPpn(base) == [i \in VPages |-> ((base + (i \div 4)) % 8) * 4 + (i % 4)]

\* The physical address spawn_bbx copies sector b of the image to. The
\* 16-bit virtual address wraps; a page number past 31 reads past the table.
SectorVA(b) == (4096 + b * 512) % 65536
SectorPA(ppn, b) == ppn[SectorVA(b) \div PageSize] * PageSize + (SectorVA(b) % PageSize)

----------------------------------------------------------------------------
(* The kernel's translations, made while the MMU registers still hold the  *)
(* caller's page table.                                                    *)

\* u_zp: a slot of the caller's zero page.
UZp(ppn, off) == ppn[0] * PageSize + off

\* u_ptr: the start of a caller's buffer.
UPtr(ppn, va) == ppn[(va \div PageSize) % 32] * PageSize + (va % PageSize)

\* _brk_handler: ZP_MEM_PTR, high byte (ppn[0] << 2) | 1, low byte SP; the
\* frame is read at ZP_MEM_PTR + k with (zp),y, which does not wrap in the page.
FramePtr(ppn, sp) == (((ppn[0] * 4) % 256) + 1) * 256 + sp

\* _brk_handler: ZP_SYS_NUM_PTR, made a byte at a time from the return
\* address pcl/pch that BRK pushed (the address after the number byte).
NumberPtr(ppn, pcl, pch) ==
  LET lo   == (pcl + 255) % 256                             \* sec; sbc #1
      hi   == (pch + (IF pcl = 0 THEN 255 ELSE 256)) % 256  \* sbc #0
      page == (hi \div 4) % 32
  IN  (((ppn[page] * 4) % 256) + (hi % 4)) * 256 + lo

----------------------------------------------------------------------------
(* A 512-byte transfer runs on from a physical start address, so its byte  *)
(* i is the caller's byte i only while the caller's pages are consecutive. *)

TransferReaches(ppn, va, i) == UPtr(ppn, va) + i = UserAddr(ppn, va + i)
=============================================================================
