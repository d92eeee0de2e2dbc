-------------------------------- MODULE Mmu --------------------------------
(***************************************************************************)
(* The memory management unit (rtl/mmu6502.v) and the bus around it        *)
(* (rtl/tb.v), half a clock at a time. A bus cycle begins after a rising   *)
(* edge, when the CPU puts address, data, WE and VPB on the bus. At the    *)
(* falling edge the MMU updates its registers and its mode; at the next    *)
(* rising edge RAM and the CPU take the data, through whatever translation *)
(* is in force by then.                                                    *)
(*                                                                         *)
(* The CPU is external (an unmodified core): any legal sequence of bus     *)
(* cycles. A byte is the set of its bits that are 1. `began`, `hit`,       *)
(* `owed` and `written` only record what happened.                         *)
(***************************************************************************)
EXTENDS Integers

CONSTANTS
  ByteBits,  \* bits of a data byte: 8
  PermBytes, \* bytes of u_bits (and of w_bits): 4
  PpnWidth,  \* PPN_WIDTH: 5
  Writes,    \* control registers the CPU may write (bounds the runs)
  Values     \* bytes the CPU may write

NPages  == ByteBits * PermBytes
Pages   == 0..(NPages - 1)
Bytes   == SUBSET (0..(ByteBits - 1))
Frames  == SUBSET (0..(PpnWidth - 1))
PermIdx == 0..(PermBytes - 1)
NoStore == {ByteBits}   \* no frame number has this bit

\* Control registers, by kind and index: $00-$1F, $20-$23, $24-$27, $28, rest.
Registers == ({"ppn"} \X Pages) \union ({"u", "w"} \X PermIdx)
               \union {<<"mode", 0>>, <<"reserved", 0>>}
\* An address in RAM names its page and also carries the low bits that would
\* select a register, were it a control address.
Addresses == [region : {"ram", "ctrl", "other"}, page : Pages, reg : Registers]

ASSUME MmuAssumption ==
  /\ ByteBits \in Nat \ {0} /\ PermBytes \in Nat \ {0} /\ PpnWidth \in 1..ByteBits
  /\ Writes \subseteq Registers /\ Values \subseteq Bytes

VARIABLES
  edge,     \* the clock edge that comes next: "fall" or "rise"
  bus,      \* [addr, we, vpb, data]: what the CPU drives in this cycle
  kernel, ppn, ubits, wbits, \* the MMU's mode and registers
  faultReg, \* the registered fault; faultb is its inverse
  nmi,      \* the CPU's NMI input
  began,    \* <<kernel, ppn>> when the cycle began
  hit,      \* the frame the last cycle stored into, or NoStore
  owed,     \* faults that NMI has not signalled yet
  written   \* what each control register was last set to

registers == <<kernel, ppn, ubits, wbits>>
vars == <<edge, bus, kernel, ppn, ubits, wbits, faultReg, nmi, began, hit, owed, written>>

\* Bits of a page number, as a frame number: physical = virtual.
Identity(p) == {n \in 0..(PpnWidth - 1) : (p \div 2^n) % 2 = 1}
PermPage(k, n) == ByteBits * k + n

----------------------------------------------------------------------------
(* Combinational logic.                                                    *)

IsCtrlByOffset(a) == a.region # "other"     \* seeded fault: addr[15:6] not looked at
IsCtrl(a) == a.region = "ctrl"

\* ram_addr's page half.
RamFrame(a) == IF kernel THEN Identity(a.page) ELSE ppn[a.page]

FaultU(b) == b.addr.region = "ram" /\ ~ kernel /\ b.addr.page \notin ubits
FaultW(b) == b.addr.region = "ram" /\ ~ kernel /\ b.we /\ b.addr.page \notin wbits
FaultCtrl(b) == b.addr.region = "ctrl" /\ ~ kernel /\ b.we
Fault(b) == FaultU(b) \/ FaultW(b) \/ FaultCtrl(b)

\* ctrl_rd: what reading a control register gives.
CtrlRead(r) ==
  CASE r[1] = "ppn"      -> ppn[r[2]]
    [] r[1] = "u"        -> {n \in 0..(ByteBits - 1) : PermPage(r[2], n) \in ubits}
    [] r[1] = "w"        -> {n \in 0..(ByteBits - 1) : PermPage(r[2], n) \in wbits}
    [] r[1] = "mode"     -> IF kernel THEN {0} ELSE {}
    [] r[1] = "reserved" -> {}

\* The register file a write leaves: bits past PPN_WIDTH are dropped.
SetPpnUntruncated(r, d) == IF r[1] = "ppn" THEN [ppn EXCEPT ![r[2]] = d] ELSE ppn \* seeded fault
SetPpn(r, d) == IF r[1] = "ppn" THEN [ppn EXCEPT ![r[2]] = d \intersect (0..(PpnWidth - 1))] ELSE ppn
SetBitsKeepingOld(bits, k, d) == \* seeded fault: bits are only ever set
  bits \union {PermPage(k, n) : n \in d}
SetBits(bits, k, d) ==
  {p \in bits : p \div ByteBits # k} \union {PermPage(k, n) : n \in d}

----------------------------------------------------------------------------
(* The clock edges.                                                        *)

\* Reset: physical = virtual, all pages writable, none open to user code.
Init ==
  /\ edge = "fall"
  /\ bus = [addr |-> [region |-> "other", page |-> 0, reg |-> <<"reserved", 0>>],
            we |-> FALSE, vpb |-> FALSE, data |-> {}]
  /\ kernel = TRUE /\ ppn = [p \in Pages |-> Identity(p)]
  /\ ubits = {} /\ wbits = Pages
  /\ faultReg = FALSE /\ nmi = TRUE
  /\ began = <<kernel, ppn>> /\ hit = NoStore /\ owed = 0
  /\ written = [r \in Registers |-> CtrlRead(r)]

\* Seeded fault: a fault raises NMI but leaves the MMU in user mode.
ToKernelOnVectorOnly(b) == b.vpb
\* VPB low (a vector fetch) or a fault.
ToKernel(b) == b.vpb \/ Fault(b)
CtrlWrite(b) == ~ ToKernel(b) /\ IsCtrl(b.addr) /\ b.we /\ kernel

Fall ==
  /\ edge = "fall" /\ edge' = "rise"
  /\ LET r == bus.addr.reg
         wr == CtrlWrite(bus)
     IN  /\ kernel' = IF ToKernel(bus) THEN TRUE
                      ELSE IF wr /\ r[1] = "mode" THEN 0 \in bus.data ELSE kernel
         /\ ppn' = IF wr THEN SetPpn(r, bus.data) ELSE ppn
         /\ ubits' = IF wr /\ r[1] = "u" THEN SetBits(ubits, r[2], bus.data) ELSE ubits
         /\ wbits' = IF wr /\ r[1] = "w" THEN SetBits(wbits, r[2], bus.data) ELSE wbits
         /\ written' =
              [q \in Registers |->
                 IF q = <<"mode", 0>> THEN (IF kernel' THEN {0} ELSE {})
                 ELSE IF wr /\ q = r /\ q # <<"reserved", 0>>
                      THEN (IF q[1] = "ppn" THEN bus.data \intersect (0..(PpnWidth - 1))
                                            ELSE bus.data)
                 ELSE written[q]]
  /\ faultReg' = Fault(bus)
  /\ owed' = owed + (IF Fault(bus) THEN 1 ELSE 0)
  /\ UNCHANGED <<bus, nmi, began, hit>>

\* The next bus cycle: a vector fetch (a read of ROM), an access to ROM or a
\* device, a read or a write of RAM, a write to one of `Writes`. Reads of
\* control registers change nothing and have no cycle of their own.
Cycle(region, pages, regs, we, data) ==
  [addr : [region : {region}, page : pages, reg : regs], we : {we}, vpb : {FALSE}, data : data]
VectorFetch ==
  [addr |-> [region |-> "other", page |-> 0, reg |-> <<"reserved", 0>>],
   we |-> FALSE, vpb |-> TRUE, data |-> {}]
Cycles ==
  {VectorFetch} \union Cycle("other", {0}, {<<"reserved", 0>>}, FALSE, {{}})
  \union Cycle("ram", Pages, {<<"reserved", 0>>}, FALSE, {{}})
  \union Cycle("ram", Pages, Writes, TRUE, Values)
  \union Cycle("ctrl", {0}, Writes, TRUE, Values)

\* NMI <= ~faultb
NmiRegister ==
  /\ nmi' = faultReg
  /\ owed' = owed - (IF faultReg /\ ~ nmi THEN 1 ELSE 0)

\* The RAM's write, and the CPU goes on to its next cycle.
Rise ==
  /\ edge = "rise" /\ edge' = "fall"
  /\ hit' = IF bus.we /\ bus.addr.region = "ram" THEN RamFrame(bus.addr) ELSE NoStore
  /\ NmiRegister
  /\ began' = <<kernel, ppn>>
  /\ bus' \in Cycles
  /\ UNCHANGED <<kernel, ppn, ubits, wbits, faultReg, written>>

Next == Fall \/ Rise
Spec == Init /\ [][Next]_vars

----------------------------------------------------------------------------
(* Properties.                                                             *)

TypeOK ==
  /\ edge \in {"fall", "rise"}
  /\ bus \in [addr : Addresses, we : BOOLEAN, vpb : BOOLEAN, data : Bytes]
  /\ kernel \in BOOLEAN /\ ppn \in [Pages -> Frames]
  /\ ubits \subseteq Pages /\ wbits \subseteq Pages
  /\ faultReg \in BOOLEAN /\ nmi \in BOOLEAN
  /\ hit \in Frames \union {NoStore}

\* Each faulting cycle gives exactly one rising edge of NMI, at the rising
\* clock edge that ends it: faults are neither merged nor reported twice.
OneNmiPerFault == owed = IF edge = "rise" /\ faultReg THEN 1 ELSE 0

\* A store lands in the frame its page had when the cycle began, although RAM
\* takes it half a clock after mode and table may change. One that faults is not
\* dropped: the MMU is in kernel mode by then, and the store goes to the frame
\* of the page's own number, never to the one the process has mapped.
StoresLand ==
  [][edge = "rise" /\ bus.we /\ bus.addr.region = "ram" =>
       hit' = IF began[1] \/ faultReg THEN Identity(bus.addr.page)
              ELSE began[2][bus.addr.page]]_vars

\* A control register reads back what was written to it (in PPN_WIDTH bits):
\* do_yield saves a process's page table by reading the MMU.
ReadBack == \A r \in Registers : CtrlRead(r) = written[r]
=============================================================================
