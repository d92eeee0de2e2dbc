-------------------------------- MODULE Disk --------------------------------
(***************************************************************************)
(* The disk: the controller's registers (rtl/tb.v) and the kernel's driver *)
(* (block.c), one register access or one byte at a time. The driver runs   *)
(* in kernel mode, so a buffer is a physical address; it is called by the  *)
(* loader and by do_block_read / do_block_write, one call at a time.       *)
(*                                                                         *)
(* The sizes are parameters: a sector is two "pages" of PageLen bytes, as  *)
(* block_read's two-level loop sees it, and a block number is LbaBytes     *)
(* bytes of Base values. Blocks past the end of the image file read as     *)
(* zeros, like a file extended by a write behind its end, so the image is  *)
(* a total function.                                                       *)
(***************************************************************************)
EXTENDS Integers

CONSTANTS
  PageLen,   \* 256: the range of the Y register
  Base,      \* 256: values of a byte of the block number
  LbaBytes,  \* 4: DISK_LBA0..3
  Buffers,   \* addresses callers pass
  InitialImage, InitialMemory, \* what is on the disk and in RAM at first
  MaxCalls   \* bound on the number of calls

SectorSize == 2 * PageLen
Indices  == 0..(SectorSize - 1)
LbaIdx   == 0..(LbaBytes - 1)
Power[j \in 0..LbaBytes] == IF j = 0 THEN 1 ELSE Base * Power[j - 1]
Blocks   == 0..(Power[LbaBytes] - 1)
Digit(n, k) == (n \div Power[k]) % Base
NoRequest == [op |-> "none", block |-> 0, addr |-> 0, served |-> FALSE]

ASSUME DiskAssumption ==
  /\ PageLen \in Nat \ {0} /\ Base \in Nat \ {0, 1} /\ LbaBytes \in Nat \ {0}
  /\ MaxCalls \in Nat /\ Buffers \subseteq Nat
  /\ InitialImage = [b \in Blocks |-> [i \in Indices |-> InitialImage[b][i]]]
  /\ InitialMemory = [a \in DOMAIN InitialMemory |-> InitialMemory[a]]
  /\ \A a \in Buffers : \A i \in Indices : a + i \in DOMAIN InitialMemory

VARIABLES
  attached,              \* is a disk image open (disk_fd # 0)? never changes
  img, mem,              \* the image file; RAM
  lba, buf, dptr, busy, err, \* the controller's registers
  pc,                    \* where the driver is
  op, block, addr,       \* the call: block_read or block_write, lba, buf
  k,                     \* loop counter: LBA byte, or block_write's i
  zp, x, y,              \* block_read's zp_ptr, X and Y
  res,                   \* the last call's return value
  calls                  \* calls made so far (only bounds the runs)

controller == <<lba, buf, dptr, busy, err>>
call == <<op, block, addr>>
vars == <<attached, img, mem, lba, buf, dptr, busy, err, pc, op, block, addr, k, zp, x, y, res, calls>>

Init ==
  /\ attached \in BOOLEAN
  /\ img = InitialImage /\ mem = InitialMemory
  /\ lba = [j \in LbaIdx |-> 0] /\ buf = [i \in Indices |-> 0] /\ dptr = 0
  /\ busy = FALSE /\ err = FALSE
  /\ pc = "idle" /\ op = "none" /\ block = 0 /\ addr = 0
  /\ k = 0 /\ zp = 0 /\ x = 0 /\ y = 0 /\ res = 0 /\ calls = 0

----------------------------------------------------------------------------
(* The controller.                                                         *)

RegisterBlock == \* the number in the LBA registers: three of four would be stale
  LET value[j \in 0..LbaBytes] ==
        IF j = 0 THEN 0 ELSE value[j - 1] + lba[j - 1] * Power[j - 1]
  IN  value[LbaBytes]

\* The data pointer moves on after every access of DATA and stays at the last
\* byte. Seeded fault: it does not stop there.
BumpUnbounded == dptr' = dptr + 1
Bump == dptr' = IF dptr < SectorSize - 1 THEN dptr + 1 ELSE dptr

\* Commands finish within the clock edge that starts them. Seeded fault: a
\* read with no image leaves BUSY up.
ReadCommandHangs ==
  /\ buf' = IF attached THEN img[RegisterBlock] ELSE buf
  /\ err' = ~ attached /\ busy' = ~ attached /\ dptr' = 0
  /\ UNCHANGED <<img, lba>>
ReadCommand ==
  /\ buf' = IF attached THEN img[RegisterBlock] ELSE buf
  /\ err' = ~ attached /\ busy' = FALSE /\ dptr' = 0
  /\ UNCHANGED <<img, lba>>
WriteCommand ==
  /\ img' = IF attached THEN [img EXCEPT ![RegisterBlock] = buf] ELSE img
  /\ err' = ~ attached /\ busy' = FALSE
  /\ UNCHANGED <<lba, buf, dptr>>

----------------------------------------------------------------------------
(* The driver.                                                             *)

At(p) == pc = p
Goto(p) == pc' = p
Stay == UNCHANGED <<mem, op, block, addr, zp, x, y, res, calls>>

\* block_read starts with set_lba, block_write with DPTR = 0.
Call(o, b, a) ==
  /\ At("idle") /\ calls < MaxCalls
  /\ op' = o /\ block' = b /\ addr' = a /\ k' = 0 /\ calls' = calls + 1
  /\ Goto(IF o = "read" THEN "set_lba" ELSE "dptr")
  /\ UNCHANGED <<img, mem, lba, buf, dptr, busy, err, zp, x, y, res>>

SetLba ==
  /\ At("set_lba")
  /\ lba' = [lba EXCEPT ![k] = Digit(block, k)]
  /\ IF k = LbaBytes - 1 THEN Goto("command") /\ k' = 0 ELSE Goto("set_lba") /\ k' = k + 1
  /\ UNCHANGED <<img, buf, dptr, busy, err>> /\ Stay

Command ==
  /\ At("command")
  /\ IF op = "read" THEN ReadCommand ELSE WriteCommand
  /\ Goto("poll") /\ k' = k /\ Stay

\* while (STATUS & BUSY); then the error bit.
Poll ==
  /\ At("poll") /\ ~ busy
  /\ Goto(IF err \/ op = "write" THEN "return" ELSE "dptr")
  /\ UNCHANGED <<img, lba, buf, dptr, busy, err, k>> /\ Stay

\* DPTR = 0, and the setup of the transfer loop. Seeded fault: block_write
\* takes up the pointer where the last transfer left it.
ResetDptrForReadOnly == dptr' = IF op = "read" THEN 0 ELSE dptr
ResetDptr == dptr' = 0

Dptr ==
  /\ At("dptr")
  /\ ResetDptr
  /\ IF op = "read" THEN Goto("drain") /\ zp' = addr /\ x' = 2 /\ y' = 0
                    ELSE Goto("fill") /\ UNCHANGED <<zp, x, y>>
  /\ k' = 0
  /\ UNCHANGED <<img, mem, lba, buf, busy, err, op, block, addr, res, calls>>

\* One byte of block_read's loop: lda DATA, sta (zp_ptr),y, and the counters.
Drain ==
  /\ At("drain")
  /\ mem' = [mem EXCEPT ![zp + y] = buf[dptr]]
  /\ Bump
  /\ y' = (y + 1) % PageLen
  /\ IF y' # 0 THEN UNCHANGED <<zp, x>> /\ Goto("drain")
     ELSE /\ x' = x - 1
          /\ IF x' # 0 THEN zp' = zp + PageLen /\ Goto("drain")
             ELSE zp' = zp + PageLen - 2 * PageLen /\ Goto("return")
  /\ UNCHANGED <<img, lba, buf, busy, err, op, block, addr, k, res, calls>>

\* One byte of block_write's loop.
Fill ==
  /\ At("fill")
  /\ buf' = [buf EXCEPT ![dptr] = mem[addr + k]]
  /\ Bump
  /\ IF k = SectorSize - 1 THEN Goto("set_lba") /\ k' = 0 ELSE Goto("fill") /\ k' = k + 1
  /\ UNCHANGED <<img, lba, busy, err>> /\ Stay

Return ==
  /\ At("return") /\ Goto("idle")
  /\ res' = IF err THEN 1 ELSE 0
  /\ UNCHANGED <<img, mem, lba, buf, dptr, busy, err, op, block, addr, k, zp, x, y, calls>>

Step == SetLba \/ Command \/ Poll \/ Dptr \/ Drain \/ Fill \/ Return
Next ==
  /\ attached' = attached
  /\ \/ \E o \in {"read", "write"}, b \in Blocks, a \in Buffers : Call(o, b, a)
     \/ Step

Spec == Init /\ [][Next]_vars
\* The CPU keeps executing the driver.
FairSpec == Spec /\ WF_vars(Step /\ attached' = attached)

----------------------------------------------------------------------------
(* Properties.                                                             *)

TypeOK ==
  /\ attached \in BOOLEAN
  /\ DOMAIN img = Blocks /\ DOMAIN mem = DOMAIN InitialMemory
  /\ lba \in [LbaIdx -> 0..(Base - 1)] /\ DOMAIN buf = Indices /\ dptr \in Indices
  /\ busy \in BOOLEAN /\ err \in BOOLEAN
  /\ pc \in {"idle", "set_lba", "command", "poll", "dptr", "drain", "fill", "return"}
  /\ op \in {"none", "read", "write"} /\ block \in Blocks
  /\ k \in Indices \union LbaIdx /\ x \in 0..2 /\ y \in 0..(PageLen - 1)
  /\ res \in {0, 1}

\* A call that was made returns.
CallsComplete == (pc # "idle") ~> (pc = "idle")

----------------------------------------------------------------------------
(* The driver and the controller together implement BlockDevice. A request *)
(* is served by the command; the bytes of a read that are still in the     *)
(* controller's buffer count as moved.                                     *)

Moved == IF pc \in {"poll", "dptr"} THEN 0 ELSE IF pc = "drain" THEN zp - addr + y ELSE SectorSize
Arriving == op = "read" /\ attached /\ pc \in {"poll", "dptr", "drain"}
Served == pc \in {"poll", "return"} \/ (op = "read" /\ pc \in {"dptr", "drain"})

MemView ==
  [a \in DOMAIN mem |-> IF Arriving /\ a \in (addr + Moved)..(addr + SectorSize - 1)
                        THEN buf[a - addr] ELSE mem[a]]
ReqView == IF pc = "idle" THEN NoRequest
           ELSE [op |-> op, block |-> block, addr |-> addr, served |-> Served]
Abstract == INSTANCE BlockDevice WITH mem <- MemView, req <- ReqView

\* Register by register and byte by byte, the driver moves exactly the
\* sector that was asked for, to or from exactly the caller's bytes.
ImplementsBlockDevice == Abstract!Spec
=============================================================================
