----------------------------- MODULE MmuProofs -----------------------------
(***************************************************************************)
(* Theorems about Mmu.tla for any byte and page-number widths and any      *)
(* registers the CPU may write.                                            *)
(***************************************************************************)
EXTENDS Mmu, TLAPS

\* A registered fault has already forced kernel mode, and a fault can only be
\* registered while NMI is low, so that NMI will rise.
FaultInv ==
  /\ edge \in {"fall", "rise"}
  /\ faultReg => kernel
  /\ edge = "fall" /\ nmi => kernel
  /\ edge = "rise" /\ faultReg => ~ nmi
  /\ OneNmiPerFault

LEMMA FaultInitially == Init => FaultInv
BY DEF Init, FaultInv, OneNmiPerFault

LEMMA FaultStep == FaultInv /\ [Next]_vars => FaultInv'
<1> SUFFICES ASSUME FaultInv, [Next]_vars PROVE FaultInv'  OBVIOUS
<1>1. CASE Fall
  <2>1. Fault(bus) => ~ kernel
    BY DEF Fault, FaultU, FaultW, FaultCtrl
  <2>2. Fault(bus) => kernel' = TRUE
    BY <1>1 DEF Fall, ToKernel
  <2>3. /\ edge = "fall" /\ edge' = "rise" /\ nmi' = nmi
        /\ faultReg' = Fault(bus) /\ owed' = owed + (IF Fault(bus) THEN 1 ELSE 0)
    BY <1>1 DEF Fall
  <2>4. owed = 0  BY <2>3 DEF FaultInv, OneNmiPerFault
  <2>5. OneNmiPerFault'  BY <2>3, <2>4 DEF OneNmiPerFault
  <2> QED  BY <2>1, <2>2, <2>3, <2>5 DEF FaultInv
<1>2. CASE Rise
  BY <1>2 DEF Rise, NmiRegister, FaultInv, OneNmiPerFault
<1>3. CASE UNCHANGED vars
  BY <1>3 DEF vars, FaultInv, OneNmiPerFault
<1> QED  BY <1>1, <1>2, <1>3 DEF Next

\* Every faulting bus cycle is signalled to the CPU by one rising edge of
\* NMI and no other edge ever occurs (mmu6502.v's fault_reg, tb.v's NMI).
THEOREM OneNmiPerFaultHolds == Spec => []OneNmiPerFault
<1>1. FaultInv => OneNmiPerFault  BY DEF FaultInv
<1> QED  BY <1>1, FaultInitially, FaultStep, PTL DEF Spec

----------------------------------------------------------------------------

\* Until a falling edge, and past it unless the cycle faulted, a cycle on RAM
\* sees the mode and table it began with.
CycleInv ==
  /\ edge \in {"fall", "rise"}
  /\ bus.vpb => bus.addr.region = "other"
  /\ edge = "fall" => began = <<kernel, ppn>>
  /\ edge = "rise" /\ bus.addr.region = "ram" /\ ~ faultReg => began = <<kernel, ppn>>
  /\ edge = "rise" /\ faultReg => kernel

LEMMA VectorsAreInRom ==
  ASSUME NEW b \in Cycles, b.vpb PROVE b.addr.region = "other"
<1>1. ASSUME NEW region, NEW pages, NEW regs, NEW we, NEW data,
             b \in Cycle(region, pages, regs, we, data)
      PROVE  b.vpb \in {FALSE}
  BY <1>1, Zenon DEF Cycle
<1>2. b = VectorFetch
  BY <1>1, Zenon DEF Cycles
<1> QED  BY <1>2 DEF VectorFetch

LEMMA CycleStep == CycleInv /\ [Next]_vars => CycleInv'
<1> SUFFICES ASSUME CycleInv, [Next]_vars PROVE CycleInv'  OBVIOUS
<1>1. CASE Fall
  <2>1. /\ edge = "fall" /\ edge' = "rise" /\ bus' = bus /\ began' = began
        /\ faultReg' = Fault(bus)
    BY <1>1 DEF Fall
  <2>2. ASSUME bus.addr.region = "ram", ~ Fault(bus)
        PROVE  kernel' = kernel /\ ppn' = ppn
    <3>1. ~ bus.vpb  BY <2>2 DEF CycleInv
    <3>2. ~ ToKernel(bus) /\ ~ CtrlWrite(bus)
      BY <2>2, <3>1 DEF ToKernel, CtrlWrite, IsCtrl
    <3> QED  BY <1>1, <3>2 DEF Fall
  <2>3. Fault(bus) => kernel'
    BY <1>1 DEF Fall, ToKernel
  <2> QED  BY <2>1, <2>2, <2>3 DEF CycleInv
<1>2. CASE Rise
  <2>1. bus' \in Cycles /\ edge' = "fall" /\ began' = <<kernel, ppn>>
        /\ kernel' = kernel /\ ppn' = ppn
    BY <1>2 DEF Rise, NmiRegister
  <2>2. bus'.vpb => bus'.addr.region = "other"
    BY <2>1, VectorsAreInRom
  <2> QED  BY <2>1, <2>2 DEF CycleInv
<1>3. CASE UNCHANGED vars
  BY <1>3 DEF vars, CycleInv
<1> QED  BY <1>1, <1>2, <1>3 DEF Next

\* RAM takes a store half a clock after the MMU may have changed mode and
\* table, and still uses the translation the cycle began with, or the kernel's
\* if the store faulted (tb.v's write port behind mmu6502.v's ram_addr).
THEOREM StoresLandHolds == Spec => StoresLand
<1> DEFINE Lands ==
      edge = "rise" /\ bus.we /\ bus.addr.region = "ram" =>
        hit' = IF began[1] \/ faultReg THEN Identity(bus.addr.page)
               ELSE began[2][bus.addr.page]
<1>1. Init => CycleInv  BY DEF Init, CycleInv
<1>2. CycleInv /\ [Next]_vars => [Lands]_vars
  <2> SUFFICES ASSUME CycleInv, Next, edge = "rise", bus.we, bus.addr.region = "ram"
               PROVE  hit' = IF began[1] \/ faultReg THEN Identity(bus.addr.page)
                             ELSE began[2][bus.addr.page]
    OBVIOUS
  <2>1. Rise  BY DEF Next, Fall
  <2>2. hit' = IF kernel THEN Identity(bus.addr.page) ELSE ppn[bus.addr.page]
    BY <2>1 DEF Rise, NmiRegister, RamFrame
  <2>3. CASE faultReg  BY <2>2, <2>3 DEF CycleInv
  <2>4. CASE ~ faultReg  BY <2>2, <2>4 DEF CycleInv
  <2> QED  BY <2>3, <2>4
<1> QED  BY <1>1, <1>2, CycleStep, PTL DEF Spec, StoresLand

----------------------------------------------------------------------------
(* The registers: every variable keeps its type, and a control register    *)
(* gives back what was written to it.                                      *)

\* A permission register's bits are a row of the page numbers: bit n of byte
\* k stands for page ByteBits * k + n, and for no other byte's bit.
LEMMA RowsOfPages ==
  ASSUME NEW k \in PermIdx, NEW n \in 0..(ByteBits - 1)
  PROVE  PermPage(k, n) \in Pages /\ PermPage(k, n) \div ByteBits = k
<1>1. /\ ByteBits \in Nat \ {0} /\ PermBytes \in Nat \ {0}
      /\ k \in 0..(PermBytes - 1)
  BY MmuAssumption DEF PermIdx
<1> DEFINE B == ByteBits
           P == PermBytes
<1> HIDE DEF B, P
<1>2. B \in Nat \ {0} /\ P \in Nat \ {0} /\ k \in 0..(P - 1) /\ n \in 0..(B - 1)
  BY <1>1 DEF B, P
<1>3. \A i, j \in Int : i < j => B * i + B <= B * j  BY <1>2
<1>4. B * k + n \in 0..(B * P - 1)  BY <1>2, <1>3
<1>5. (B * k + n) \div B = k  BY <1>2
<1> QED  BY <1>4, <1>5 DEF PermPage, Pages, NPages, B, P

LEMMA BitsSet ==
  ASSUME NEW bits, bits \subseteq Pages, NEW k \in PermIdx, NEW d \in Bytes
  PROVE  /\ SetBits(bits, k, d) \subseteq Pages
         /\ \A j \in PermIdx, n \in 0..(ByteBits - 1) :
              PermPage(j, n) \in SetBits(bits, k, d)
                <=> IF j = k THEN n \in d ELSE PermPage(j, n) \in bits
<1>1. d \subseteq 0..(ByteBits - 1)  BY DEF Bytes
<1>2. \A q : q \in SetBits(bits, k, d)
               <=> (q \in bits /\ q \div ByteBits # k) \/ \E n \in d : q = PermPage(k, n)
  BY DEF SetBits
<1>3. SetBits(bits, k, d) \subseteq Pages  BY <1>1, <1>2, RowsOfPages
<1>4. ASSUME NEW j \in PermIdx, NEW n \in 0..(ByteBits - 1)
      PROVE  PermPage(j, n) \in SetBits(bits, k, d)
               <=> IF j = k THEN n \in d ELSE PermPage(j, n) \in bits
  <2>1. PermPage(j, n) \div ByteBits = j  BY RowsOfPages
  <2>2. \A m \in d : PermPage(k, m) \div ByteBits = k  BY <1>1, RowsOfPages
  <2>3. CASE j # k  BY <1>2, <2>1, <2>2, <2>3
  <2>4. CASE j = k
    <3>1. \A m \in d : PermPage(k, m) = PermPage(k, n) => m = n
      <4>1. ByteBits \in Int /\ k \in Int /\ n \in Int
        BY MmuAssumption DEF PermIdx
      <4>2. ByteBits * k \in Int  BY <4>1
      <4>3. \A m \in d : m \in Int  BY <1>1
      <4> QED  BY <4>1, <4>2, <4>3 DEF PermPage
    <3> QED  BY <1>2, <2>1, <2>4, <3>1
  <2> QED  BY <2>3, <2>4
<1> QED  BY <1>3, <1>4

LEMMA RegistersAre ==
  ASSUME NEW r \in Registers
  PROVE  \/ r[1] = "ppn" /\ r[2] \in Pages
         \/ r[1] \in {"u", "w"} /\ r[2] \in PermIdx
         \/ r = <<"mode", 0>> \/ r = <<"reserved", 0>>
BY DEF Registers

LEMMA IdentityIsFrame == ASSUME NEW q PROVE Identity(q) \in Frames
BY DEF Identity, Frames

LEMMA CyclesTyped ==
  ASSUME NEW c \in Cycles
  PROVE  c \in [addr : Addresses, we : BOOLEAN, vpb : BOOLEAN, data : Bytes]
<1>1. 0 \in Pages /\ <<"reserved", 0>> \in Registers /\ {} \in Bytes
  <2>1. 0 \in PermIdx /\ 0 \in 0..(ByteBits - 1)  BY MmuAssumption DEF PermIdx
  <2>2. PermPage(0, 0) = 0  BY MmuAssumption DEF PermPage
  <2> QED  BY <2>1, <2>2, RowsOfPages DEF Registers, Bytes
<1>2. Writes \subseteq Registers /\ Values \subseteq Bytes  BY MmuAssumption
<1>4. VectorFetch \in [addr : Addresses, we : BOOLEAN, vpb : BOOLEAN, data : Bytes]
  BY <1>1 DEF VectorFetch, Addresses
<1>5. \/ c = VectorFetch \/ c \in Cycle("other", {0}, {<<"reserved", 0>>}, FALSE, {{}})
      \/ c \in Cycle("ram", Pages, {<<"reserved", 0>>}, FALSE, {{}})
      \/ c \in Cycle("ram", Pages, Writes, TRUE, Values)
      \/ c \in Cycle("ctrl", {0}, Writes, TRUE, Values)
  BY DEF Cycles
<1> DEFINE Typed == c \in [addr : Addresses, we : BOOLEAN, vpb : BOOLEAN, data : Bytes]
<1>6. c \in Cycle("other", {0}, {<<"reserved", 0>>}, FALSE, {{}}) => Typed
  BY <1>1 DEF Cycle, Addresses
<1>7. c \in Cycle("ram", Pages, {<<"reserved", 0>>}, FALSE, {{}}) => Typed
  BY <1>1 DEF Cycle, Addresses
<1>8. c \in Cycle("ram", Pages, Writes, TRUE, Values) => Typed
  BY <1>2 DEF Cycle, Addresses
<1>9. c \in Cycle("ctrl", {0}, Writes, TRUE, Values) => Typed
  BY <1>1, <1>2 DEF Cycle, Addresses
<1> HIDE DEF Typed
<1> QED  BY <1>4, <1>5, <1>6, <1>7, <1>8, <1>9 DEF Typed

RegistersOK ==
  /\ kernel \in BOOLEAN /\ ppn \in [Pages -> Frames]
  /\ ubits \subseteq Pages /\ wbits \subseteq Pages

\* What a falling edge leaves in the registers.
LEMMA FallTypes ==
  ASSUME TypeOK, Fall PROVE RegistersOK'
<1>1. bus.addr.reg \in Registers /\ bus.data \in Bytes  BY DEF TypeOK, Addresses
<1> DEFINE r == bus.addr.reg
           d == bus.data
           wr == CtrlWrite(bus)
<1>2. /\ ppn' = IF wr THEN SetPpn(r, d) ELSE ppn
      /\ ubits' = IF wr /\ r[1] = "u" THEN SetBits(ubits, r[2], d) ELSE ubits
      /\ wbits' = IF wr /\ r[1] = "w" THEN SetBits(wbits, r[2], d) ELSE wbits
  BY DEF Fall
<1> HIDE DEF wr
<1>5. kernel' \in BOOLEAN
  <2>1. CASE ToKernel(bus)  BY <2>1 DEF Fall
  <2>2. CASE ~ ToKernel(bus) /\ CtrlWrite(bus) /\ r[1] = "mode"
    <3>1. kernel' = (0 \in d)  BY <2>2, Zenon DEF Fall
    <3>2. (0 \in d) \in BOOLEAN  OBVIOUS
    <3> QED  BY <3>1, <3>2, Zenon
  <2>3. CASE ~ ToKernel(bus) /\ ~ (CtrlWrite(bus) /\ r[1] = "mode")
    BY <2>3 DEF Fall, TypeOK
  <2> QED  BY <2>1, <2>2, <2>3
<1>3. ppn' \in [Pages -> Frames]
  BY <1>1, <1>2, RegistersAre DEF SetPpn, Frames, TypeOK
<1>4. ubits' \subseteq Pages /\ wbits' \subseteq Pages
  <2>1. r[1] \in {"u", "w"} => r[2] \in PermIdx
    <3>1. r[1] = "ppn" \/ r[2] \in PermIdx \/ r[1] \in {"mode", "reserved"}
      BY <1>1, RegistersAre
    <3> QED  BY <3>1
  <2>2. ubits \subseteq Pages /\ wbits \subseteq Pages  BY DEF TypeOK
  <2>3. CASE wr /\ r[1] \in {"u", "w"}
    <3>1. r[2] \in PermIdx /\ d \in Bytes  BY <1>1, <2>1, <2>3
    <3> HIDE DEF r, d
    <3>2. SetBits(ubits, r[2], d) \subseteq Pages  BY <2>2, <3>1, BitsSet, Zenon
    <3>3. SetBits(wbits, r[2], d) \subseteq Pages  BY <2>2, <3>1, BitsSet, Zenon
    <3> QED  BY <1>2, <2>2, <3>2, <3>3
  <2>4. CASE ~ (wr /\ r[1] \in {"u", "w"})  BY <1>2, <2>2, <2>4
  <2> QED  BY <2>3, <2>4
<1> QED  BY <1>3, <1>4, <1>5 DEF RegistersOK

LEMMA TypesStep == TypeOK /\ [Next]_vars => TypeOK'
<1> SUFFICES ASSUME TypeOK, [Next]_vars PROVE TypeOK'  OBVIOUS
<1>1. CASE Fall
  <2>1. RegistersOK'  BY <1>1, FallTypes
  <2>2. Fault(bus) \in BOOLEAN
    BY DEF Fault, FaultU, FaultW, FaultCtrl
  <2> QED  BY <1>1, <2>1, <2>2 DEF Fall, RegistersOK, TypeOK
<1>2. CASE Rise
  <2>1. bus' \in [addr : Addresses, we : BOOLEAN, vpb : BOOLEAN, data : Bytes]
    BY <1>2, CyclesTyped DEF Rise, NmiRegister
  <2>2. bus.addr.page \in Pages  BY DEF TypeOK, Addresses
  <2>3. RamFrame(bus.addr) \in Frames  BY <2>2, IdentityIsFrame DEF RamFrame, TypeOK
  <2> QED  BY <1>2, <2>1, <2>3 DEF Rise, NmiRegister, TypeOK
<1>3. CASE UNCHANGED vars  BY <1>3 DEF vars, TypeOK
<1> QED  BY <1>1, <1>2, <1>3 DEF Next

LEMMA TypesInit == Init => TypeOK
<1> SUFFICES ASSUME Init PROVE TypeOK  OBVIOUS
<1>1. /\ bus = [addr |-> [region |-> "other", page |-> 0, reg |-> <<"reserved", 0>>],
                we |-> FALSE, vpb |-> FALSE, data |-> {}]
  BY DEF Init
<1>2. bus \in Cycles
  BY <1>1, Zenon DEF Cycles, Cycle
<1>3. ppn \in [Pages -> Frames]  BY IdentityIsFrame DEF Init
<1> QED  BY <1>2, <1>3, CyclesTyped DEF Init, TypeOK

\* The MMU's registers, the bus and the fault signal keep their types: a page
\* table holds PPN_WIDTH-bit frame numbers whatever byte is written to it.
THEOREM TypeOKHolds == Spec => []TypeOK
BY TypesInit, TypesStep, PTL DEF Spec

\* A falling edge that does not write register r leaves it as it reads, and one
\* that does leaves the byte written, in as many bits as the register has.
LEMMA FallReads ==
  ASSUME TypeOK, Fall, NEW r \in Registers, r # <<"mode", 0>>
  PROVE  CtrlRead(r)' =
           IF CtrlWrite(bus) /\ r = bus.addr.reg /\ r # <<"reserved", 0>>
           THEN IF r[1] = "ppn" THEN bus.data \intersect (0..(PpnWidth - 1)) ELSE bus.data
           ELSE CtrlRead(r)
<1> DEFINE q == bus.addr.reg
           d == bus.data
           wr == CtrlWrite(bus)
           row == 0..(ByteBits - 1)
<1>1. /\ ppn' = IF wr THEN SetPpn(q, d) ELSE ppn
      /\ ubits' = IF wr /\ q[1] = "u" THEN SetBits(ubits, q[2], d) ELSE ubits
      /\ wbits' = IF wr /\ q[1] = "w" THEN SetBits(wbits, q[2], d) ELSE wbits
  BY DEF Fall
<1>2. q \in Registers /\ d \subseteq row /\ d \in Bytes /\ ppn \in [Pages -> Frames]
      /\ ubits \subseteq Pages /\ wbits \subseteq Pages
  BY DEF TypeOK, Addresses, Bytes
<1> HIDE DEF q, d, wr, row
<1>3. CASE r[1] = "ppn"
  <2>1. CtrlRead(r) = ppn[r[2]] /\ CtrlRead(r)' = ppn'[r[2]]  BY <1>3 DEF CtrlRead
  <2>2. r[2] \in Pages /\ r = <<"ppn", r[2]>>  BY <1>3 DEF Registers
  <2>3. q[1] = "ppn" => q = <<"ppn", q[2]>> /\ q[2] \in Pages  BY <1>2 DEF Registers
  <2>4. r # <<"reserved", 0>>  BY <1>3
  <2>5. ppn'[r[2]] = IF wr /\ r = q THEN d \intersect (0..(PpnWidth - 1)) ELSE ppn[r[2]]
    BY <1>1, <1>2, <2>2, <2>3 DEF SetPpn
  <2> QED  BY <1>3, <2>1, <2>4, <2>5 DEF q, d, wr
<1>4. ASSUME NEW kind \in {"u", "w"}, NEW bits, NEW bits2, bits \subseteq Pages, r[1] = kind,
             bits2 = IF wr /\ q[1] = kind THEN SetBits(bits, q[2], d) ELSE bits
      PROVE  {n \in row : PermPage(r[2], n) \in bits2}
               = IF wr /\ r = q THEN d ELSE {n \in row : PermPage(r[2], n) \in bits}
  <2>1. r[2] \in PermIdx /\ r = <<kind, r[2]>>  BY <1>4 DEF Registers
  <2>2. q[1] = kind => q = <<kind, q[2]>> /\ q[2] \in PermIdx  BY <1>2 DEF Registers
  <2>3. CASE wr /\ q[1] = kind
    <3>1. \A n \in row : PermPage(r[2], n) \in bits2
                           <=> IF r[2] = q[2] THEN n \in d ELSE PermPage(r[2], n) \in bits
      BY <1>2, <1>4, <2>1, <2>2, <2>3, BitsSet DEF row
    <3>2. r = q <=> r[2] = q[2]  BY <2>1, <2>2, <2>3
    <3> QED  BY <1>2, <2>3, <3>1, <3>2
  <2>4. CASE ~ (wr /\ q[1] = kind)
    <3>1. ~ (wr /\ r = q)  BY <1>4, <2>4
    <3>2. bits2 = bits  BY <1>4, <2>4
    <3> QED  BY <3>1, <3>2
  <2> QED  BY <2>3, <2>4
<1>5. CASE r[1] = "u"
  <2>1. /\ CtrlRead(r) = {n \in row : PermPage(r[2], n) \in ubits}
        /\ CtrlRead(r)' = {n \in row : PermPage(r[2], n) \in ubits'}
    BY <1>5 DEF CtrlRead, row
  <2>2. {n \in row : PermPage(r[2], n) \in ubits'}
          = IF wr /\ r = q THEN d ELSE {n \in row : PermPage(r[2], n) \in ubits}
    BY <1>1, <1>2, <1>4, <1>5
  <2> QED  BY <1>5, <2>1, <2>2 DEF q, d, wr
<1>6. CASE r[1] = "w"
  <2>1. /\ CtrlRead(r) = {n \in row : PermPage(r[2], n) \in wbits}
        /\ CtrlRead(r)' = {n \in row : PermPage(r[2], n) \in wbits'}
    BY <1>6 DEF CtrlRead, row
  <2>2. {n \in row : PermPage(r[2], n) \in wbits'}
          = IF wr /\ r = q THEN d ELSE {n \in row : PermPage(r[2], n) \in wbits}
    BY <1>1, <1>2, <1>4, <1>6
  <2> QED  BY <1>6, <2>1, <2>2 DEF q, d, wr
<1>7. CASE r = <<"reserved", 0>>
  BY <1>7 DEF CtrlRead
<1> QED  BY <1>3, <1>5, <1>6, <1>7, RegistersAre

ReadBackInv == TypeOK /\ ReadBack /\ DOMAIN written = Registers

LEMMA ReadBackStep == ReadBackInv /\ [Next]_vars => ReadBackInv'
<1> SUFFICES ASSUME ReadBackInv, [Next]_vars PROVE ReadBackInv'  OBVIOUS
<1>1. TypeOK'  BY TypesStep DEF ReadBackInv
<1>2. CASE Fall
  <2>1. DOMAIN written' = Registers  BY <1>2 DEF Fall
  <2>2. ASSUME NEW r \in Registers PROVE CtrlRead(r)' = written'[r]
    <3>1. CASE r = <<"mode", 0>>
      <4>1. written'[r] = IF kernel' THEN {0} ELSE {}  BY <1>2, <3>1 DEF Fall
      <4> QED  BY <3>1, <4>1 DEF CtrlRead
    <3>2. CASE r # <<"mode", 0>>
      <4>1. written'[r] = IF CtrlWrite(bus) /\ r = bus.addr.reg /\ r # <<"reserved", 0>>
                          THEN IF r[1] = "ppn" THEN bus.data \intersect (0..(PpnWidth - 1))
                               ELSE bus.data
                          ELSE written[r]
        BY <1>2, <3>2 DEF Fall
      <4>2. written[r] = CtrlRead(r)  BY DEF ReadBackInv, ReadBack
      <4> QED  BY <1>2, <3>2, <4>1, <4>2, FallReads DEF ReadBackInv
    <3> QED  BY <3>1, <3>2
  <2> QED  BY <1>1, <2>1, <2>2 DEF ReadBackInv, ReadBack
<1>3. CASE Rise \/ UNCHANGED vars
  <2>1. UNCHANGED <<kernel, ppn, ubits, wbits, written>>  BY <1>3 DEF Rise, NmiRegister, vars
  <2>2. ReadBack'  BY <2>1 DEF ReadBackInv, ReadBack, CtrlRead
  <2> QED  BY <1>1, <2>1, <2>2 DEF ReadBackInv
<1> QED  BY <1>2, <1>3 DEF Next

\* What the kernel reads from a control register is what was last written to it
\* (mmu6502.v's ctrl_rd and its write cases): no write disturbs another
\* register, so the page table do_yield saves is the one it loaded.
THEOREM ReadBackHolds == Spec => []ReadBack
<1>1. Init => ReadBackInv
  <2> SUFFICES ASSUME Init PROVE ReadBackInv  OBVIOUS
  <2>1. TypeOK  BY TypesInit
  <2>2. written = [r \in Registers |-> CtrlRead(r)]  BY DEF Init
  <2> QED  BY <2>1, <2>2 DEF ReadBackInv, ReadBack
<1>2. ReadBackInv => ReadBack  BY DEF ReadBackInv
<1> QED  BY <1>1, <1>2, ReadBackStep, PTL DEF Spec
=============================================================================
