----------------------------- MODULE DiskProofs -----------------------------
(***************************************************************************)
(* The driver's register accesses and the controller together move whole   *)
(* sectors: the inductive invariant of Disk, and the refinement of         *)
(* BlockDevice, for every sector size, number of bytes in a block number   *)
(* and set of buffers.                                                     *)
(***************************************************************************)
EXTENDS Disk, Induction

----------------------------------------------------------------------------
(* Place values, and the number a sequence of digits stands for.           *)

LEMMA PowerIs ==
  /\ Power[0] = 1
  /\ \A j \in 1..LbaBytes : Power[j] = Base * Power[j - 1]
  /\ \A j \in 0..LbaBytes : Power[j] \in Nat \ {0}
<1> DEFINE P == Nat \ {0}
           f0 == [u \in P \X (1..LbaBytes) |-> Base * u[1]]
           IsPower(f) == f = [j \in 0..LbaBytes |-> IF j = 0 THEN 1 ELSE Base * f[j - 1]]
<1>n. LbaBytes \in Nat /\ Base \in P
  BY DiskAssumption
<1>1. f0 \in [P \X (1..LbaBytes) -> P]
  <2>1. ASSUME NEW u \in P \X (1..LbaBytes) PROVE Base * u[1] \in P
    <3>1. u[1] \in P
      OBVIOUS
    <3>2. \A m \in P : Base * m \in P
      BY <1>n
    <3> QED  BY <3>1, <3>2
  <2> QED  BY <2>1
<1>2. 1 \in P
  OBVIOUS
<1>3. PICK f \in [0..LbaBytes -> P] : IsRecursion(f, LbaBytes, 1, f0)
  <2> HIDE DEF f0, P
  <2> QED  BY <1>n, <1>1, <1>2, RecursionExists, Zenon
<1>4. ASSUME NEW j \in 0..LbaBytes PROVE f[j] = IF j = 0 THEN 1 ELSE Base * f[j - 1]
  <2>1. CASE j = 0
    BY <1>3, <2>1 DEF IsRecursion
  <2>2. CASE j # 0
    <3>1. j \in 1..LbaBytes /\ j - 1 \in 0..LbaBytes
      BY <1>n, <2>2
    <3>2. f[j] = f0[<<f[j - 1], j>>]
      <4> HIDE DEF f0
      <4> QED  BY <1>3, <3>1 DEF IsRecursion
    <3>3. f[j - 1] \in P
      BY <3>1
    <3>4. f0[<<f[j - 1], j>>] = Base * f[j - 1]
      BY <3>1, <3>3
    <3> QED  BY <2>2, <3>2, <3>4
  <2> QED  BY <2>1, <2>2
<1>5. IsPower(f)
  BY <1>4
<1>6. Power = CHOOSE g : IsPower(g)
  BY Zenon DEF Power
<1>7. IsPower(Power)
  <2> HIDE DEF IsPower
  <2> QED  BY <1>5, <1>6, Zenon
<1>8. \A j \in 0..LbaBytes : Power[j] = IF j = 0 THEN 1 ELSE Base * Power[j - 1]
  <2>1. Power = [j \in 0..LbaBytes |-> IF j = 0 THEN 1 ELSE Base * Power[j - 1]]
    BY <1>7
  <2> QED  BY <2>1
<1>9. Power[0] = 1 /\ \A j \in 1..LbaBytes : Power[j] = Base * Power[j - 1]
  <2>1. 0 \in 0..LbaBytes /\ \A j \in 1..LbaBytes : j \in 0..LbaBytes /\ j # 0
    BY <1>n
  <2> QED  BY <1>8, <2>1
<1>10. \A m \in Nat : m \in 0..LbaBytes => Power[m] \in P
  <2> DEFINE T == {m \in Nat : m \in 0..LbaBytes => Power[m] \in P}
  <2>0. \A m \in Nat : m \in T <=> (m \in 0..LbaBytes => Power[m] \in P)
    BY Zenon
  <2> HIDE DEF T, P
  <2>1. 0 \in T
    BY <1>2, <1>9, <2>0
  <2>2. ASSUME NEW m \in Nat, m \in T PROVE m + 1 \in T
    <3> SUFFICES ASSUME m + 1 \in 0..LbaBytes PROVE Power[m + 1] \in P
      BY <2>0
    <3>1. m \in 0..LbaBytes /\ m + 1 \in 1..LbaBytes /\ (m + 1) - 1 = m
      BY <1>n
    <3>2. Power[m + 1] = Base * Power[m]
      BY <1>9, <3>1
    <3>3. Power[m] \in P
      BY <2>0, <2>2, <3>1
    <3> QED  BY <1>n, <3>2, <3>3 DEF P
  <2>3. \A m \in Nat : m \in T
    BY <2>1, <2>2, InductionOverNat
  <2> QED  BY <2>0, <2>3
<1>11. \A j \in 0..LbaBytes : j \in Nat
  OBVIOUS
<1> QED  BY <1>9, <1>10, <1>11

LEMMA Regroup ==
  ASSUME NEW p \in Nat, NEW d \in Nat, NEW s \in Nat, NEW t \in Nat, NEW r \in Nat
  PROVE  p * (d * s + t) + r = (d * p) * s + (t * p + r)
  OBVIOUS

LEMMA Below ==
  ASSUME NEW p \in Nat \ {0}, NEW d \in Nat \ {0}, NEW t \in Nat, NEW r \in Nat,
         t <= d - 1, r <= p - 1
  PROVE  t * p + r \in Nat /\ t * p + r <= d * p - 1
<1>1. t * p <= (d - 1) * p
  OBVIOUS
<1>2. (d - 1) * p = d * p - p
  OBVIOUS
<1>3. t * p \in Nat /\ d * p \in Nat
  OBVIOUS
<1> QED  BY <1>1, <1>2, <1>3

LEMMA SplitOff ==
  ASSUME NEW n \in Nat, NEW p \in Nat \ {0}, NEW d \in Nat \ {0}
  PROVE  /\ (n % p) + ((n \div p) % d) * p = n % (d * p)
         /\ (n \div p) % d \in 0..(d - 1)
<1> DEFINE q == n \div p
           r == n % p
           s == q \div d
           t == q % d
<1>1. q \in Nat /\ r \in Nat /\ r <= p - 1 /\ n = p * q + r
  OBVIOUS
<1> HIDE DEF q, r
<1>2. s \in Nat /\ t \in Nat /\ t <= d - 1 /\ q = d * s + t
  BY <1>1
<1> HIDE DEF s, t
<1>3. n = p * (d * s + t) + r
  BY <1>1, <1>2, Zenon
<1>4. n = (d * p) * s + (t * p + r)
  BY <1>1, <1>2, <1>3, Regroup
<1>5. t * p + r \in Nat /\ t * p + r <= d * p - 1
  BY <1>1, <1>2, Below
<1>6. d * p \in Nat \ {0}
  OBVIOUS
<1>7. \A m \in Nat \ {0}, u \in Nat, w \in Nat : w <= m - 1 => (m * u + w) % m = w
  OBVIOUS
<1>8. n % (d * p) = t * p + r
  BY <1>2, <1>4, <1>5, <1>6, <1>7
<1>9. t * p \in Nat
  BY <1>2
<1>10. r + t * p = t * p + r
  BY <1>1, <1>9
<1>11. t \in 0..(d - 1)
  BY <1>2
<1> QED  BY <1>8, <1>10, <1>11, Zenon DEF q, r, t

\* The controller reads back the block number the driver wrote.
LEMMA RegistersHoldBlock ==
  ASSUME NEW n \in Blocks, lba \in [LbaIdx -> 0..(Base - 1)], \A j \in LbaIdx : lba[j] = Digit(n, j)
  PROVE  RegisterBlock = n
<1> DEFINE v0 == [u \in Nat \X (1..LbaBytes) |-> u[1] + lba[u[2] - 1] * Power[u[2] - 1]]
           IsValue(f) == f = [j \in 0..LbaBytes |->
                                IF j = 0 THEN 0 ELSE f[j - 1] + lba[j - 1] * Power[j - 1]]
<1>n. LbaBytes \in Nat \ {0} /\ Base \in Nat \ {0}
  BY DiskAssumption
<1>i. \A j \in 1..LbaBytes : j \in 0..LbaBytes /\ j - 1 \in 0..LbaBytes /\ j - 1 \in LbaIdx /\ j # 0
  BY <1>n DEF LbaIdx
<1>l. \A j \in LbaIdx : lba[j] \in Nat
  BY <1>n
<1>p. \A j \in 0..LbaBytes : Power[j] \in Nat \ {0}
  BY PowerIs
<1>1. v0 \in [Nat \X (1..LbaBytes) -> Nat]
  <2>1. ASSUME NEW u \in Nat \X (1..LbaBytes) PROVE u[1] + lba[u[2] - 1] * Power[u[2] - 1] \in Nat
    <3>1. u[1] \in Nat /\ u[2] \in 1..LbaBytes
      OBVIOUS
    <3>2. lba[u[2] - 1] \in Nat /\ Power[u[2] - 1] \in Nat
      BY <1>i, <1>l, <1>p, <3>1
    <3>3. \A a1, a2, a3 \in Nat : a1 + a2 * a3 \in Nat
      OBVIOUS
    <3> QED  BY <3>1, <3>2, <3>3
  <2> QED  BY <2>1
<1>2. PICK f \in [0..LbaBytes -> Nat] : IsRecursion(f, LbaBytes, 0, v0)
  <2> HIDE DEF v0
  <2> QED  BY <1>n, <1>1, RecursionExists
<1>3. ASSUME NEW j \in 0..LbaBytes
      PROVE  f[j] = IF j = 0 THEN 0 ELSE f[j - 1] + lba[j - 1] * Power[j - 1]
  <2>1. CASE j = 0
    BY <1>2, <2>1 DEF IsRecursion
  <2>2. CASE j # 0
    <3>1. j \in 1..LbaBytes /\ j - 1 \in 0..LbaBytes
      BY <1>n, <2>2
    <3>2. f[j] = v0[<<f[j - 1], j>>]
      <4> HIDE DEF v0
      <4> QED  BY <1>2, <3>1 DEF IsRecursion
    <3>3. f[j - 1] \in Nat
      BY <3>1
    <3>4. v0[<<f[j - 1], j>>] = f[j - 1] + lba[j - 1] * Power[j - 1]
      BY <3>1, <3>3
    <3> QED  BY <2>2, <3>2, <3>4
  <2> QED  BY <2>1, <2>2
<1>4. IsValue(f)
  BY <1>3
<1> DEFINE val == CHOOSE g : IsValue(g)
<1>5. RegisterBlock = val[LbaBytes]
  BY Zenon DEF RegisterBlock
<1>6. IsValue(val)
  <2> HIDE DEF IsValue
  <2> QED  BY <1>4, Zenon
<1> HIDE DEF val
<1>7. \A j \in 0..LbaBytes : val[j] = IF j = 0 THEN 0 ELSE val[j - 1] + lba[j - 1] * Power[j - 1]
  <2>1. val = [j \in 0..LbaBytes |-> IF j = 0 THEN 0 ELSE val[j - 1] + lba[j - 1] * Power[j - 1]]
    BY <1>6
  <2> QED  BY <2>1
<1>8. n \in Nat /\ n <= Power[LbaBytes] - 1
  <2>1. LbaBytes \in 0..LbaBytes
    BY <1>n
  <2>2. Power[LbaBytes] \in Nat
    BY <1>p, <2>1
  <2> QED  BY <2>2 DEF Blocks
<1> DEFINE T == {m \in Nat : m \in 0..LbaBytes => val[m] = n % Power[m]}
<1>9. \A m \in Nat : m \in T <=> (m \in 0..LbaBytes => val[m] = n % Power[m])
  BY Zenon
<1> HIDE DEF T
<1>10. 0 \in T
  <2>1. 0 \in 0..LbaBytes
    BY <1>n
  <2>2. val[0] = 0
    BY <1>7, <2>1
  <2>3. n % Power[0] = 0
    BY <1>8, PowerIs
  <2> QED  BY <1>9, <2>2, <2>3
<1>11. ASSUME NEW m \in Nat, m \in T PROVE m + 1 \in T
  <2> SUFFICES ASSUME m + 1 \in 0..LbaBytes PROVE val[m + 1] = n % Power[m + 1]
    BY <1>9
  <2>1. m \in 0..LbaBytes /\ m + 1 \in 1..LbaBytes /\ (m + 1) - 1 = m /\ m \in LbaIdx /\ m + 1 # 0
    BY <1>n DEF LbaIdx
  <2>2. val[m] = n % Power[m]
    BY <1>9, <1>11, <2>1
  <2>3. val[m + 1] = val[m] + lba[m] * Power[m]
    BY <1>7, <2>1
  <2>4. Power[m + 1] = Base * Power[m] /\ Power[m] \in Nat \ {0}
    BY <2>1, PowerIs
  <2>5. lba[m] = (n \div Power[m]) % Base
    BY <2>1 DEF Digit
  <2>6. (n % Power[m]) + ((n \div Power[m]) % Base) * Power[m] = n % (Base * Power[m])
    BY <1>n, <1>8, <2>4, SplitOff
  <2> QED  BY <2>2, <2>3, <2>4, <2>5, <2>6, Zenon
<1>12. \A m \in Nat : m \in T
  BY <1>10, <1>11, InductionOverNat
<1>13. LbaBytes \in Nat /\ LbaBytes \in 0..LbaBytes
  BY <1>n
<1>14. val[LbaBytes] = n % Power[LbaBytes]
  BY <1>9, <1>12, <1>13
<1>15. n % Power[LbaBytes] = n
  <2>1. Power[LbaBytes] \in Nat \ {0}
    BY <1>p, <1>13
  <2> QED  BY <1>8, <2>1
<1> QED  BY <1>5, <1>14, <1>15

LEMMA DigitInRange ==
  ASSUME NEW n \in Blocks, NEW j \in LbaIdx
  PROVE  Digit(n, j) \in 0..(Base - 1)
<1>1. Base \in Nat \ {0} /\ LbaBytes \in Nat /\ j \in 0..LbaBytes /\ LbaBytes \in 0..LbaBytes
  BY DiskAssumption DEF LbaIdx
<1>2. Power[j] \in Nat \ {0} /\ Power[LbaBytes] \in Nat
  BY <1>1, PowerIs
<1>3. n \in Nat
  BY <1>2 DEF Blocks
<1>4. (n \div Power[j]) % Base \in 0..(Base - 1)
  BY <1>1, <1>2, <1>3, SplitOff
<1> QED  BY <1>4 DEF Digit

----------------------------------------------------------------------------
(* The inductive invariant.                                                *)

States == {"idle", "set_lba", "command", "poll", "dptr", "drain", "fill", "return"}

Data ==
  /\ attached \in BOOLEAN
  /\ DOMAIN img = Blocks /\ \A b \in Blocks : img[b] = [i \in Indices |-> img[b][i]]
  /\ DOMAIN mem = DOMAIN InitialMemory /\ mem = [a \in DOMAIN mem |-> mem[a]]
  /\ DOMAIN buf = Indices /\ buf = [i \in Indices |-> buf[i]]
  /\ img = [b \in Blocks |-> img[b]]

Registers ==
  /\ lba \in [LbaIdx -> 0..(Base - 1)] /\ dptr \in Indices /\ busy = FALSE /\ err \in BOOLEAN
  /\ pc \in {"poll", "return"} => (err <=> ~ attached)
  /\ (op = "read" /\ pc \in {"dptr", "drain"}) => (attached /\ ~ err)

Requested ==
  /\ pc \in States /\ op \in {"none", "read", "write"} /\ block \in Blocks
  /\ pc # "idle" => (op \in {"read", "write"} /\ addr \in Buffers)
  /\ x \in 0..2 /\ y \in 0..(PageLen - 1) /\ res \in {0, 1}

\* The digits of the block number that set_lba has written.
LbaWritten ==
  /\ k \in (IF pc = "set_lba" THEN LbaIdx ELSE IF pc = "fill" THEN Indices ELSE {0})
  /\ pc = "set_lba" => \A j \in 0..(k - 1) : lba[j] = Digit(block, j)
  /\ pc = "command" => \A j \in LbaIdx : lba[j] = Digit(block, j)

\* block_read's pointers and the controller's agree on the next byte.
Draining ==
  pc = "drain" =>
    /\ op = "read"
    /\ \/ x = 2 /\ zp = addr /\ dptr = y
       \/ x = 1 /\ zp = addr + PageLen /\ dptr = PageLen + y

\* block_write's counter and the controller's agree; the bytes behind are in
\* the buffer, and all of them are there by the time the command is given.
Filling ==
  /\ pc = "fill" => (op = "write" /\ dptr = k /\ \A i \in 0..(k - 1) : buf[i] = mem[addr + i])
  /\ (op = "write" /\ pc \in {"set_lba", "command"}) => \A i \in Indices : buf[i] = mem[addr + i]

DiskInv == Data /\ Registers /\ Requested /\ LbaWritten /\ Draining /\ Filling

LEMMA Sizes ==
  /\ PageLen \in Nat \ {0} /\ LbaBytes \in Nat \ {0} /\ Base \in Nat \ {0, 1}
  /\ SectorSize = PageLen + PageLen /\ SectorSize \in Nat \ {0}
  /\ \A i : i \in Indices <=> i \in Nat /\ i < PageLen + PageLen
  /\ \A j : j \in LbaIdx <=> j \in Nat /\ j < LbaBytes
  /\ 0 \in Blocks
<1>1. PageLen \in Nat \ {0} /\ LbaBytes \in Nat \ {0} /\ Base \in Nat \ {0, 1}
  BY DiskAssumption
<1>2. SectorSize = PageLen + PageLen /\ SectorSize \in Nat \ {0}
  BY <1>1 DEF SectorSize
<1>3. \A i : i \in Indices <=> i \in Nat /\ i < PageLen + PageLen
  BY <1>1, <1>2 DEF Indices
<1>4. \A j : j \in LbaIdx <=> j \in Nat /\ j < LbaBytes
  BY <1>1 DEF LbaIdx
<1>5. Power[LbaBytes] \in Nat \ {0}
  BY <1>1, PowerIs
<1>6. 0 \in Blocks
  BY <1>5 DEF Blocks
<1> QED  BY <1>1, <1>2, <1>3, <1>4, <1>6

LEMMA InitInv == Init => DiskInv
<1> SUFFICES ASSUME Init PROVE DiskInv
  OBVIOUS
<1>1. Data
  <2>1. /\ InitialImage = [b \in Blocks |-> [i \in Indices |-> InitialImage[b][i]]]
        /\ InitialMemory = [a \in DOMAIN InitialMemory |-> InitialMemory[a]]
    BY DiskAssumption
  <2>2. DOMAIN InitialImage = Blocks
    BY <2>1
  <2>3. \A b \in Blocks : InitialImage[b] = [i \in Indices |-> InitialImage[b][i]]
    BY <2>1
  <2>4. InitialImage = [b \in Blocks |-> InitialImage[b]]
    BY <2>1, <2>3
  <2> QED  BY <2>1, <2>2, <2>3, <2>4 DEF Data, Init
<1>2. Registers
  <2>1. 0 \in 0..(Base - 1) /\ 0 \in Indices
    BY Sizes
  <2> QED  BY <2>1 DEF Registers, Init
<1>3. Requested
  <2>1. 0 \in 0..(PageLen - 1)
    BY Sizes
  <2> QED  BY <2>1, Sizes DEF Requested, Init, States
<1>4. LbaWritten /\ Draining /\ Filling
  BY DEF LbaWritten, Draining, Filling, Init
<1> QED  BY <1>1, <1>2, <1>3, <1>4 DEF DiskInv

LEMMA CallInv ==
  ASSUME DiskInv, attached' = attached,
         NEW o \in {"read", "write"}, NEW b \in Blocks, NEW a \in Buffers, Call(o, b, a)
  PROVE  DiskInv'
<1>1. Data'
  BY DEF DiskInv, Data, Call
<1>2. pc = "idle" /\ pc' \in {"set_lba", "dptr"} /\ k' = 0 /\ (pc' = "dptr" => op' = "write")
      /\ (pc' = "set_lba" => op' = "read")
  BY DEF Call, At, Goto
<1>3. Registers'
  BY <1>2 DEF DiskInv, Registers, Call
<1>4. Requested'
  BY <1>2 DEF DiskInv, Requested, Call, States
<1>5. LbaWritten'
  <2>1. 0 \in LbaIdx /\ 0..(0 - 1) = {}
    BY Sizes
  <2> QED  BY <1>2, <2>1 DEF LbaWritten
<1>6. Draining' /\ Filling'
  BY <1>2 DEF Draining, Filling
<1> QED  BY <1>1, <1>3, <1>4, <1>5, <1>6 DEF DiskInv

LEMMA SetLbaInv ==
  ASSUME DiskInv, attached' = attached, SetLba
  PROVE  DiskInv'
<1> USE DEF DiskInv
<1>1. Data'
  BY DEF Data, SetLba, Stay
<1>2. pc = "set_lba" /\ k \in LbaIdx /\ Digit(block, k) \in 0..(Base - 1)
  BY DigitInRange DEF SetLba, At, LbaWritten, Requested
<1>3. lba' = [lba EXCEPT ![k] = Digit(block, k)] /\ block' = block
  BY DEF SetLba, Stay
<1>4. /\ \/ k = LbaBytes - 1 /\ pc' = "command" /\ k' = 0
         \/ k # LbaBytes - 1 /\ pc' = "set_lba" /\ k' = k + 1
  BY DEF SetLba, Goto
<1>5. Registers'
  <2>1. lba' \in [LbaIdx -> 0..(Base - 1)]
    BY <1>2, <1>3 DEF Registers
  <2> QED  BY <1>4, <2>1 DEF Registers, SetLba, Stay
<1>6. Requested'
  BY <1>2, <1>4 DEF Requested, SetLba, Stay, States
<1>7. LbaWritten'
  <2>1. \A j \in 0..k : lba'[j] = Digit(block, j)
    <3>1. \A j \in 0..k : j \in LbaIdx /\ (j # k => j \in 0..(k - 1))
      BY <1>2, Sizes
    <3> QED  BY <1>2, <1>3, <3>1 DEF Registers, LbaWritten
  <2>2. CASE k = LbaBytes - 1
    <3>1. \A j \in LbaIdx : j \in 0..k
      BY <2>2, Sizes
    <3> QED  BY <1>3, <1>4, <2>1, <2>2, <3>1 DEF LbaWritten
  <2>3. CASE k # LbaBytes - 1
    <3>1. k + 1 \in LbaIdx /\ (k + 1) - 1 = k
      BY <1>2, <2>3, Sizes
    <3> QED  BY <1>3, <1>4, <2>1, <2>3, <3>1 DEF LbaWritten
  <2> QED  BY <2>2, <2>3
<1>8. Draining' /\ Filling'
  BY <1>2, <1>4 DEF Draining, Filling, SetLba, Stay
<1> QED  BY <1>1, <1>5, <1>6, <1>7, <1>8

LEMMA CommandBlock ==
  ASSUME DiskInv, pc = "command"
  PROVE  RegisterBlock = block
BY RegistersHoldBlock DEF DiskInv, LbaWritten, Registers, Requested

LEMMA CommandInv ==
  ASSUME DiskInv, attached' = attached, Command
  PROVE  DiskInv'
<1> USE DEF DiskInv
<1>1. pc = "command" /\ pc' = "poll" /\ k' = k /\ RegisterBlock = block /\ Stay
  BY CommandBlock DEF Command, At, Goto
<1>2. op \in {"read", "write"} /\ block \in Blocks
  BY <1>1 DEF Requested
<1>3. /\ img' = img \/ (img' = [img EXCEPT ![block] = buf])
      /\ buf' = buf \/ buf' = img[block]
      /\ lba' = lba /\ busy' = FALSE /\ err' = ~ attached /\ (dptr' = dptr \/ dptr' = 0)
  BY <1>1 DEF Command, ReadCommand, WriteCommand
<1>4. Data'
  <2>1. DOMAIN buf' = Indices /\ buf' = [i \in Indices |-> buf'[i]]
    BY <1>2, <1>3 DEF Data
  <2>2. DOMAIN img' = Blocks /\ img' = [b \in Blocks |-> img'[b]]
    BY <1>3 DEF Data
  <2>3. ASSUME NEW b \in Blocks PROVE img'[b] = [i \in Indices |-> img'[b][i]]
    <3>1. img'[b] = img[b] \/ img'[b] = buf
      BY <1>3 DEF Data
    <3> QED  BY <3>1 DEF Data
  <2>4. mem' = mem
    BY <1>1 DEF Stay
  <2> QED  BY <2>1, <2>2, <2>3, <2>4 DEF Data
<1>5. Registers'
  <2>1. 0 \in Indices
    BY Sizes
  <2>2. dptr' \in Indices /\ lba' \in [LbaIdx -> 0..(Base - 1)] /\ busy' = FALSE
    BY <1>3, <2>1 DEF Registers
  <2>3. attached' \in BOOLEAN /\ (err' <=> ~ attached') /\ err' \in BOOLEAN
    BY <1>3, <1>4 DEF Data
  <2> QED  BY <1>1, <2>2, <2>3 DEF Registers
<1>6. Requested'
  BY <1>1, <1>2 DEF Requested, Stay, States
<1>7. LbaWritten' /\ Draining' /\ Filling'
  BY <1>1 DEF LbaWritten, Draining, Filling, Stay
<1> QED  BY <1>4, <1>5, <1>6, <1>7

LEMMA PollInv ==
  ASSUME DiskInv, attached' = attached, Poll
  PROVE  DiskInv'
<1> USE DEF DiskInv
<1>1. /\ pc = "poll" /\ UNCHANGED <<img, lba, buf, dptr, busy, err, k>> /\ Stay
      /\ pc' = IF err \/ op = "write" THEN "return" ELSE "dptr"
  BY DEF Poll, At, Goto
<1>2. op \in {"read", "write"} /\ (err <=> ~ attached) /\ err \in BOOLEAN
  BY <1>1 DEF Requested, Registers
<1>3. pc' \in {"return", "dptr"} /\ (pc' = "dptr" => attached /\ ~ err)
  BY <1>1, <1>2
<1>4. Data'
  BY <1>1 DEF Data, Stay
<1>5. Registers'
  <2>1. (err' <=> ~ attached') /\ (pc' = "dptr" => attached' /\ ~ err')
    BY <1>1, <1>2, <1>3
  <2>2. pc' # "drain"
    BY <1>3
  <2>3. lba' \in [LbaIdx -> 0..(Base - 1)] /\ dptr' \in Indices /\ busy' = FALSE /\ err' \in BOOLEAN
    BY <1>1 DEF Registers
  <2> QED  BY <2>1, <2>2, <2>3 DEF Registers
<1>6. Requested'
  BY <1>1, <1>3 DEF Requested, Stay, States
<1>7. LbaWritten' /\ Draining' /\ Filling'
  BY <1>1, <1>3 DEF LbaWritten, Draining, Filling
<1> QED  BY <1>4, <1>5, <1>6, <1>7

LEMMA DptrInv ==
  ASSUME DiskInv, attached' = attached, Dptr
  PROVE  DiskInv'
<1> USE DEF DiskInv
<1>1. /\ pc = "dptr" /\ dptr' = 0 /\ k' = 0
      /\ UNCHANGED <<img, mem, lba, buf, busy, err, op, block, addr, res>>
      /\ op \in {"read", "write"}
  BY DEF Dptr, At, ResetDptr, Requested
<1>2. \/ op = "read" /\ pc' = "drain" /\ zp' = addr /\ x' = 2 /\ y' = 0
      \/ op = "write" /\ pc' = "fill" /\ zp' = zp /\ x' = x /\ y' = y
  BY <1>1 DEF Dptr, Goto
<1>3. Data'
  BY <1>1 DEF Data
<1>4. 0 \in Indices /\ 0 \in 0..(PageLen - 1) /\ 0..(0 - 1) = {}
  BY Sizes
<1>5. Registers'
  <2>1. lba' \in [LbaIdx -> 0..(Base - 1)] /\ dptr' \in Indices /\ busy' = FALSE /\ err' \in BOOLEAN
    BY <1>1, <1>4 DEF Registers
  <2>2. op = "read" => attached' /\ ~ err'
    BY <1>1 DEF Registers
  <2>3. pc' \notin {"poll", "return"} /\ op' = op
    BY <1>1, <1>2
  <2> QED  BY <2>1, <2>2, <2>3 DEF Registers
<1>6. Requested'
  BY <1>1, <1>2, <1>4 DEF Requested, States
<1>7. LbaWritten'
  BY <1>1, <1>2, <1>4 DEF LbaWritten
<1>8. Draining' /\ Filling'
  BY <1>1, <1>2, <1>4 DEF Draining, Filling
<1> QED  BY <1>3, <1>5, <1>6, <1>7, <1>8

\* Where block_read's loop is: the byte it moves next, and what its counters
\* will be then.
DrainingAt(j) ==
  /\ j \in Indices /\ dptr = j /\ zp + y = addr + j
  /\ y \in 0..(PageLen - 1) /\ x \in {1, 2} /\ (x = 2 <=> j < PageLen)
  /\ zp = addr + (IF x = 2 THEN 0 ELSE PageLen) /\ j = y + (IF x = 2 THEN 0 ELSE PageLen)

LEMMA DrainingPlace ==
  ASSUME DiskInv, pc = "drain"
  PROVE  DrainingAt(dptr) /\ op = "read" /\ addr \in Buffers /\ addr \in Nat
<1> USE DEF DiskInv
<1>1. op = "read" /\ addr \in Buffers /\ addr \in Nat /\ dptr \in Indices /\ y \in 0..(PageLen - 1)
  BY DiskAssumption DEF Draining, Requested, Registers
<1>2. CASE x = 2 /\ zp = addr /\ dptr = y
  BY <1>1, <1>2, Sizes DEF DrainingAt
<1>3. CASE x = 1 /\ zp = addr + PageLen /\ dptr = PageLen + y
  BY <1>1, <1>3, Sizes DEF DrainingAt
<1> QED  BY <1>1, <1>2, <1>3 DEF Draining

\* One turn of the loop: the next byte, or the end of the second page.
LEMMA DrainMoves ==
  ASSUME DiskInv, Drain
  PROVE  /\ x' \in 0..2 /\ y' \in 0..(PageLen - 1) /\ pc' \in {"drain", "return"}
         /\ pc' = "drain" =>
              /\ dptr' = dptr + 1 /\ dptr' \in Indices /\ zp' + y' = addr + dptr + 1
              /\ \/ x' = 2 /\ zp' = addr /\ dptr' = y'
                 \/ x' = 1 /\ zp' = addr + PageLen /\ dptr' = PageLen + y'
         /\ pc' = "return" => dptr = SectorSize - 1 /\ dptr' = dptr
<1>1. DrainingAt(dptr) /\ addr \in Nat
  BY DrainingPlace DEF Drain, At
<1>2. /\ dptr' = IF dptr < SectorSize - 1 THEN dptr + 1 ELSE dptr
      /\ y' = (y + 1) % PageLen
      /\ \/ y' # 0 /\ zp' = zp /\ x' = x /\ pc' = "drain"
         \/ y' = 0 /\ x' = x - 1 /\ x' # 0 /\ zp' = zp + PageLen /\ pc' = "drain"
         \/ y' = 0 /\ x' = x - 1 /\ x' = 0 /\ pc' = "return"
  BY DEF Drain, Bump, Goto
<1>3. y \in Nat /\ y <= PageLen - 1 /\ PageLen \in Nat \ {0} /\ SectorSize = PageLen + PageLen
  BY <1>1, Sizes DEF DrainingAt
<1>4. CASE y < PageLen - 1
  <2>1. y' = y + 1
    <3>1. \A m \in Nat \ {0}, n \in Nat : n < m => n % m = n
      OBVIOUS
    <3>2. y + 1 \in Nat /\ y + 1 < PageLen
      BY <1>3, <1>4
    <3> QED  BY <1>2, <1>3, <3>1, <3>2
  <2>2. y' # 0 /\ y' \in 0..(PageLen - 1)
    BY <1>3, <1>4, <2>1
  <2>3. zp' = zp /\ x' = x /\ pc' = "drain"
    BY <1>2, <2>2
  <2>4. dptr \in Nat /\ dptr < SectorSize - 1 /\ dptr' = dptr + 1 /\ dptr' \in Indices
    BY <1>1, <1>2, <1>3, <1>4, Sizes DEF DrainingAt
  <2>5. zp' + y' = addr + dptr + 1
    BY <1>1, <1>3, <2>1, <2>3, <2>4 DEF DrainingAt
  <2>6. \/ x' = 2 /\ zp' = addr /\ dptr' = y'
        \/ x' = 1 /\ zp' = addr + PageLen /\ dptr' = PageLen + y'
    BY <1>1, <1>3, <2>1, <2>3, <2>4 DEF DrainingAt
  <2>7. x' \in 0..2
    BY <1>1, <2>3 DEF DrainingAt
  <2> QED  BY <2>2, <2>3, <2>4, <2>5, <2>6, <2>7
<1>5. CASE y = PageLen - 1
  <2>1. y' = 0
    <3>1. \A m \in Nat \ {0} : m % m = 0
      OBVIOUS
    <3>2. y + 1 = PageLen
      BY <1>3, <1>5
    <3> QED  BY <1>2, <1>3, <3>1, <3>2
  <2>2. y' \in 0..(PageLen - 1)
    BY <1>3, <2>1
  <2>3. CASE x = 2
    <3>1. x' = 1 /\ zp' = zp + PageLen /\ pc' = "drain"
      BY <1>2, <2>1, <2>3
    <3>2. dptr = PageLen - 1 /\ dptr' = dptr + 1 /\ dptr' \in Indices /\ dptr' = PageLen + y' /\ zp = addr
      BY <1>1, <1>2, <1>3, <1>5, <2>1, <2>3, Sizes DEF DrainingAt
    <3>3. zp' = addr + PageLen /\ zp' + y' = addr + dptr + 1
      BY <1>1, <1>3, <2>1, <3>1, <3>2
    <3> QED  BY <2>2, <3>1, <3>2, <3>3
  <2>4. CASE x = 1
    <3>1. x' = 0 /\ pc' = "return"
      BY <1>2, <2>1, <2>4
    <3>2. dptr = SectorSize - 1 /\ dptr' = dptr
      BY <1>1, <1>2, <1>3, <1>5, <2>4 DEF DrainingAt
    <3> QED  BY <2>2, <3>1, <3>2
  <2> QED  BY <1>1, <2>3, <2>4 DEF DrainingAt
<1> QED  BY <1>3, <1>4, <1>5

LEMMA DrainInv ==
  ASSUME DiskInv, attached' = attached, Drain
  PROVE  DiskInv'
<1>1. pc = "drain" /\ mem' = [mem EXCEPT ![zp + y] = buf[dptr]]
      /\ UNCHANGED <<img, lba, buf, busy, err, op, block, addr, k, res>>
  BY DEF Drain, At
<1>2. DrainingAt(dptr) /\ op = "read" /\ addr \in Buffers /\ pc' \in {"drain", "return"}
  BY <1>1, DrainingPlace, DrainMoves
<1>3. Data'
  <2>1. DOMAIN mem' = DOMAIN InitialMemory /\ mem' = [a \in DOMAIN mem' |-> mem'[a]]
    BY <1>1 DEF DiskInv, Data
  <2> QED  BY <1>1, <2>1 DEF DiskInv, Data
<1>4. Registers'
  <2>1. dptr' \in Indices
    BY <1>2, DrainMoves DEF DrainingAt
  <2>2. attached /\ ~ err
    BY <1>1, <1>2 DEF DiskInv, Registers
  <2>3. (err' <=> ~ attached') /\ attached' /\ ~ err'
    BY <1>1, <2>2
  <2> QED  BY <1>1, <2>1, <2>3 DEF DiskInv, Registers
<1>5. Requested'
  BY <1>1, <1>2, DrainMoves DEF DiskInv, Requested, States
<1>6. LbaWritten' /\ Filling'
  BY <1>1, <1>2 DEF DiskInv, LbaWritten, Filling
<1>7. Draining'
  BY <1>1, <1>2, DrainMoves DEF Draining
<1> QED  BY <1>3, <1>4, <1>5, <1>6, <1>7 DEF DiskInv

LEMMA FillInv ==
  ASSUME DiskInv, attached' = attached, Fill
  PROVE  DiskInv'
<1> USE DEF DiskInv
<1>1. /\ pc = "fill" /\ op = "write" /\ dptr = k /\ k \in Indices
      /\ buf' = [buf EXCEPT ![k] = mem[addr + k]]
      /\ UNCHANGED <<img, lba, busy, err>> /\ Stay
  BY DEF Fill, At, Filling, LbaWritten
<1>2. \/ k = SectorSize - 1 /\ pc' = "set_lba" /\ k' = 0
      \/ k # SectorSize - 1 /\ pc' = "fill" /\ k' = k + 1
  BY DEF Fill, Goto
<1>3. dptr' = IF k < SectorSize - 1 THEN k + 1 ELSE k
  BY <1>1 DEF Fill, Bump
<1>4. k \in Nat /\ k <= SectorSize - 1 /\ SectorSize \in Nat
  BY <1>1, Sizes
<1>5. Data'
  BY <1>1 DEF Data, Stay
<1>6. dptr' \in Indices /\ (k # SectorSize - 1 => k' \in Indices /\ dptr' = k' /\ k' - 1 = k)
  BY <1>1, <1>2, <1>3, <1>4, Sizes
<1>7. Registers'
  BY <1>1, <1>2, <1>6 DEF Registers, Stay
<1>8. Requested'
  BY <1>1, <1>2 DEF Requested, Stay, States
<1>9. LbaWritten'
  <2>1. 0 \in LbaIdx /\ 0..(0 - 1) = {}
    BY Sizes
  <2> QED  BY <1>2, <1>6, <2>1 DEF LbaWritten
<1>10. Draining'
  BY <1>2 DEF Draining
<1>11. \A i \in 0..k : buf'[i] = mem'[addr' + i]
  <2>1. \A i \in 0..k : i \in Indices /\ (i # k => i \in 0..(k - 1))
    BY <1>4, Sizes
  <2>2. mem' = mem /\ addr' = addr /\ DOMAIN buf = Indices
    BY <1>1 DEF Stay, Data
  <2> QED  BY <1>1, <2>1, <2>2 DEF Filling
<1>12. Filling'
  <2>1. CASE k = SectorSize - 1
    <3>1. \A i \in Indices : i \in 0..k
      BY <1>4, <2>1, Sizes
    <3> QED  BY <1>2, <1>11, <2>1, <3>1 DEF Filling
  <2>2. CASE k # SectorSize - 1
    <3>1. op' = "write" /\ 0..(k' - 1) = 0..k /\ pc' = "fill"
      BY <1>1, <1>2, <1>6, <2>2 DEF Stay
    <3> QED  BY <1>6, <1>11, <2>2, <3>1 DEF Filling
  <2> QED  BY <2>1, <2>2
<1> QED  BY <1>5, <1>7, <1>8, <1>9, <1>10, <1>12

LEMMA ReturnInv ==
  ASSUME DiskInv, attached' = attached, Return
  PROVE  DiskInv'
<1> USE DEF DiskInv
<1>1. pc = "return" /\ pc' = "idle" /\ res' \in {0, 1}
      /\ UNCHANGED <<img, mem, lba, buf, dptr, busy, err, op, block, addr, k, zp, x, y>>
  BY DEF Return, At, Goto
<1>2. Data' /\ Registers'
  BY <1>1 DEF Data, Registers
<1>3. Requested'
  BY <1>1 DEF Requested, States
<1>4. LbaWritten' /\ Draining' /\ Filling'
  BY <1>1 DEF LbaWritten, Draining, Filling
<1> QED  BY <1>2, <1>3, <1>4

LEMMA StutterInv ==
  ASSUME DiskInv, UNCHANGED vars
  PROVE  DiskInv'
<1>1. Data'  BY DEF DiskInv, vars, Data, controller, call
<1>2. Registers'  BY DEF DiskInv, vars, Registers, controller, call
<1>3. Requested'  BY DEF DiskInv, vars, Requested, controller, call
<1>4. LbaWritten'  BY DEF DiskInv, vars, LbaWritten, controller, call
<1>5. Draining'  BY DEF DiskInv, vars, Draining, controller, call
<1>6. Filling'  BY DEF DiskInv, vars, Filling, controller, call
<1> QED  BY <1>1, <1>2, <1>3, <1>4, <1>5, <1>6 DEF DiskInv

LEMMA DiskInvHolds == Spec => []DiskInv
<1>1. DiskInv /\ [Next]_vars => DiskInv'
  <2> SUFFICES ASSUME DiskInv, [Next]_vars PROVE DiskInv'
    OBVIOUS
  <2>1. ASSUME NEW o \in {"read", "write"}, NEW b \in Blocks, NEW a \in Buffers,
               attached' = attached, Call(o, b, a)
        PROVE  DiskInv'
    BY <2>1, CallInv
  <2>2. ASSUME attached' = attached, Step PROVE DiskInv'
    BY <2>2, SetLbaInv, CommandInv, PollInv, DptrInv, DrainInv, FillInv, ReturnInv, Zenon DEF Step
  <2>3. CASE UNCHANGED vars
    BY <2>3, StutterInv
  <2> QED  BY <2>1, <2>2, <2>3 DEF Next
<1> QED  BY <1>1, InitInv, PTL DEF Spec

\* TypeOK: the controller's pointer stays in its buffer, among others.
THEOREM TypeOKHolds == Spec => []TypeOK
<1>1. ASSUME DiskInv PROVE TypeOK
  <2>1. k \in Indices \union LbaIdx
    BY <1>1, Sizes DEF DiskInv, LbaWritten
  <2> QED  BY <1>1, <2>1 DEF DiskInv, TypeOK, Data, Registers, Requested, States
<1>2. DiskInv => TypeOK
  BY <1>1
<1> QED  BY <1>2, DiskInvHolds, PTL

----------------------------------------------------------------------------
(* The refinement. At rest RAM is what it is; while a sector is arriving,  *)
(* the part still to be moved is taken from the controller's buffer.       *)

LEMMA AtRest == DiskInv /\ ~ Arriving => MemView = mem
BY DEF DiskInv, Data, MemView

LEMMA AtRestNext == (DiskInv /\ ~ Arriving => MemView = mem)'
BY AtRest, PTL

LEMMA DrainingPointers == DiskInv /\ pc = "drain" => zp - addr + y = dptr
BY DrainingPlace, Sizes DEF DrainingAt

LEMMA DrainingPointersNext == (DiskInv /\ pc = "drain" => zp - addr + y = dptr)'
BY DrainingPointers, PTL

LEMMA CallRequests ==
  ASSUME DiskInv, DiskInv', attached' = attached,
         NEW o \in {"read", "write"}, NEW b \in Blocks, NEW a \in Buffers, Call(o, b, a)
  PROVE  Abstract!Request(o, b, a)
<1>1. pc = "idle" /\ pc' \in {"set_lba", "dptr"} /\ (pc' = "dptr" => op' = "write")
      /\ op' = o /\ block' = b /\ addr' = a /\ UNCHANGED <<img, mem, res>>
  BY DEF Call, At, Goto
<1>2. MemView = mem
  <2>1. ~ Arriving
    BY <1>1 DEF Arriving
  <2> QED  BY <2>1, AtRest
<1>3. MemView' = mem'
  <2>1. ~ Arriving'
    BY <1>1 DEF Arriving
  <2> QED  BY <2>1, AtRestNext
<1>4. ReqView = NoRequest
  BY <1>1 DEF ReqView
<1>5. ~ Served' /\ Served' \in BOOLEAN
  BY <1>1 DEF Served
<1>6. ReqView' = [op |-> o, block |-> b, addr |-> a, served |-> FALSE]
  BY <1>1, <1>5 DEF ReqView
<1> QED  BY <1>1, <1>2, <1>3, <1>4, <1>6 DEF Abstract!Request

\* A step that neither starts nor ends a request, and leaves RAM as it looks.
LEMMA SameRequest ==
  ASSUME pc # "idle", pc' # "idle", UNCHANGED <<op, block, addr>>, Served' = Served
  PROVE  ReqView' = ReqView
BY DEF ReqView

LEMMA SetLbaStutters ==
  ASSUME DiskInv, DiskInv', attached' = attached, SetLba
  PROVE  UNCHANGED Abstract!vars
<1>1. pc = "set_lba" /\ pc' \in {"set_lba", "command"} /\ UNCHANGED <<img, mem, res, op, block, addr>>
  BY DEF SetLba, At, Goto, Stay
<1>2. ~ Arriving /\ ~ Arriving'
  BY <1>1 DEF Arriving
<1>3. Served' = Served
  BY <1>1 DEF Served
<1>4. ReqView' = ReqView
  BY <1>1, <1>3, SameRequest
<1>5. MemView' = MemView
  BY <1>1, <1>2, AtRest, AtRestNext
<1> QED  BY <1>1, <1>4, <1>5 DEF Abstract!vars

LEMMA CommandServes ==
  ASSUME DiskInv, DiskInv', attached' = attached, Command
  PROVE  Abstract!Serve
<1>1. pc = "command" /\ pc' = "poll" /\ RegisterBlock = block /\ UNCHANGED <<mem, op, block, addr, res>>
  BY CommandBlock DEF Command, At, Goto, Stay
<1>2. op \in {"read", "write"} /\ block \in Blocks /\ addr \in Nat
  BY <1>1, DiskAssumption DEF DiskInv, Requested
<1>3. MemView = mem
  <2>1. ~ Arriving
    BY <1>1 DEF Arriving
  <2> QED  BY <2>1, AtRest
<1>4. ReqView = [op |-> op, block |-> block, addr |-> addr, served |-> FALSE]
  <2>1. Served = FALSE
    BY <1>1 DEF Served
  <2> QED  BY <1>1, <2>1 DEF ReqView
<1>5. ReqView' = [op |-> op, block |-> block, addr |-> addr, served |-> TRUE]
  <2>1. Served' = TRUE
    BY <1>1 DEF Served
  <2> QED  BY <1>1, <2>1 DEF ReqView
<1>6. /\ ReqView # NoRequest /\ ~ ReqView.served
      /\ ReqView.op = op /\ ReqView.block = block /\ ReqView.addr = addr
      /\ ReqView' = [ReqView EXCEPT !.served = TRUE]
  <2>1. ReqView # NoRequest
    <3>1. ReqView.op = op /\ NoRequest.op = "none"
      BY <1>4 DEF NoRequest
    <3> QED  BY <1>2, <3>1
  <2>2. ReqView' = [ReqView EXCEPT !.served = TRUE]
    <3>1. \A o, b, a, f, t : [op |-> o, block |-> b, addr |-> a, served |-> t]
            = [[op |-> o, block |-> b, addr |-> a, served |-> f] EXCEPT !.served = t]
      OBVIOUS
    <3> DEFINE no  == FALSE
               yes == TRUE
    <3>2. /\ ReqView  = [op |-> op, block |-> block, addr |-> addr, served |-> no]
          /\ ReqView' = [op |-> op, block |-> block, addr |-> addr, served |-> yes]
      BY <1>4, <1>5
    <3> HIDE DEF no, yes
    <3>3. ReqView' = [ReqView EXCEPT !.served = yes]
      BY <3>1, <3>2
    <3> QED  BY <3>3 DEF yes
  <2>3. ReqView.op = op /\ ReqView.block = block /\ ReqView.addr = addr /\ ReqView.served = FALSE
    BY <1>4
  <2> QED  BY <2>1, <2>2, <2>3
<1>7. img' = IF attached /\ op = "write" THEN [img EXCEPT ![block] = Abstract!Sector(mem, addr)] ELSE img
  <2>1. CASE op = "write"
    <3>1. buf = [i \in Indices |-> mem[addr + i]]
      BY <1>1, <2>1 DEF DiskInv, Data, Filling
    <3>2. buf = Abstract!Sector(mem, addr)
      BY <3>1 DEF Abstract!Sector, Indices
    <3>3. img' = IF attached THEN [img EXCEPT ![block] = buf] ELSE img
      BY <1>1, <2>1 DEF Command, WriteCommand
    <3> QED  BY <2>1, <3>2, <3>3
  <2>2. CASE op = "read"
    BY <2>2 DEF Command, ReadCommand
  <2> QED  BY <1>2, <2>1, <2>2
<1>8. MemView' = IF attached /\ op = "read" THEN Abstract!Overlay(mem, addr, img[block]) ELSE mem
  <2>1. CASE attached /\ op = "read"
    <3>1. Arriving' /\ Moved' = 0 /\ buf' = img[block]
      BY <1>1, <2>1 DEF Arriving, Moved, Command, ReadCommand
    <3>2. addr + 0 = addr
      BY <1>2
    <3>3. MemView' = [a \in DOMAIN mem |-> IF a \in addr..(addr + SectorSize - 1)
                                           THEN img[block][a - addr] ELSE mem[a]]
      BY <1>1, <3>1, <3>2 DEF MemView
    <3> QED  BY <2>1, <3>3 DEF Abstract!Overlay
  <2>2. CASE ~ (attached /\ op = "read")
    <3>1. ~ Arriving'
      BY <1>1, <2>2 DEF Arriving
    <3> QED  BY <1>1, <2>2, <3>1, AtRestNext
  <2> QED  BY <2>1, <2>2
<1> QED  BY <1>1, <1>3, <1>6, <1>7, <1>8, Zenon DEF Abstract!Serve

LEMMA PollStutters ==
  ASSUME DiskInv, DiskInv', attached' = attached, Poll
  PROVE  UNCHANGED Abstract!vars
<1>1. /\ pc = "poll" /\ UNCHANGED <<img, mem, buf, err, res, op, block, addr>>
      /\ pc' = IF err \/ op = "write" THEN "return" ELSE "dptr"
  BY DEF Poll, At, Goto, Stay
<1>2. op \in {"read", "write"} /\ (err <=> ~ attached)
  BY <1>1 DEF DiskInv, Requested, Registers
<1>3. pc' = "return" \/ (pc' = "dptr" /\ op = "read")
  BY <1>1, <1>2
<1>4. ReqView' = ReqView
  <2>1. Served = TRUE /\ Served' = TRUE
    BY <1>1, <1>3 DEF Served
  <2> QED  BY <1>1, <1>3, <2>1, SameRequest
<1>5. MemView' = MemView
  <2>1. CASE err \/ op = "write"
    <3>1. ~ Arriving /\ ~ Arriving'
      BY <1>1, <1>2, <2>1 DEF Arriving
    <3> QED  BY <1>1, <3>1, AtRest, AtRestNext
  <2>2. CASE ~ (err \/ op = "write")
    <3>1. Arriving /\ Arriving' /\ Moved = 0 /\ Moved' = 0
      BY <1>1, <1>2, <2>2 DEF Arriving, Moved
    <3> QED  BY <1>1, <3>1 DEF MemView
  <2> QED  BY <2>1, <2>2
<1> QED  BY <1>1, <1>4, <1>5 DEF Abstract!vars

LEMMA DptrStutters ==
  ASSUME DiskInv, DiskInv', attached' = attached, Dptr
  PROVE  UNCHANGED Abstract!vars
<1>1. /\ pc = "dptr" /\ UNCHANGED <<img, mem, buf, res, op, block, addr>>
      /\ op \in {"read", "write"}
  BY DEF Dptr, At, DiskInv, Requested
<1>2. \/ op = "read" /\ pc' = "drain" /\ zp' = addr /\ y' = 0
      \/ op = "write" /\ pc' = "fill"
  BY <1>1 DEF Dptr, Goto
<1>3. ReqView' = ReqView
  <2>1. Served' = Served
    BY <1>1, <1>2 DEF Served
  <2> QED  BY <1>1, <1>2, <2>1, SameRequest
<1>4. MemView' = MemView
  <2>1. CASE op = "write"
    <3>1. ~ Arriving /\ ~ Arriving'
      BY <1>1, <2>1 DEF Arriving
    <3> QED  BY <1>1, <3>1, AtRest, AtRestNext
  <2>2. CASE op = "read"
    <3>1. attached /\ addr \in Nat
      BY <1>1, <2>2, DiskAssumption DEF DiskInv, Registers, Requested
    <3>2. Moved = 0 /\ Moved' = zp' - addr' + y' /\ zp' - addr' + y' = 0
      BY <1>1, <1>2, <2>2, <3>1 DEF Moved
    <3>3. Arriving /\ Arriving'
      BY <1>1, <1>2, <2>2, <3>1 DEF Arriving
    <3> QED  BY <1>1, <3>2, <3>3 DEF MemView
  <2> QED  BY <1>1, <2>1, <2>2
<1> QED  BY <1>1, <1>3, <1>4 DEF Abstract!vars

LEMMA DrainStutters ==
  ASSUME DiskInv, DiskInv', attached' = attached, Drain
  PROVE  UNCHANGED Abstract!vars
<1>1. /\ pc = "drain" /\ mem' = [mem EXCEPT ![zp + y] = buf[dptr]]
      /\ UNCHANGED <<img, buf, res, op, block, addr>>
  BY DEF Drain, At
<1>2. DrainingAt(dptr) /\ op = "read" /\ addr \in Nat /\ pc' \in {"drain", "return"}
  BY <1>1, DrainingPlace, DrainMoves
<1>3. attached
  BY <1>1, <1>2 DEF DiskInv, Registers
<1>4. ReqView' = ReqView
  <2>1. Served = TRUE /\ Served' = TRUE
    BY <1>1, <1>2 DEF Served
  <2> QED  BY <1>1, <1>2, <2>1, SameRequest
<1> DEFINE View(f, m) == [a \in DOMAIN f |-> IF a \in (addr + m)..(addr + SectorSize - 1)
                                             THEN buf[a - addr] ELSE f[a]]
<1>5. PICK d \in Nat : d = dptr /\ d <= SectorSize - 1 /\ zp + y = addr + d /\ zp - addr + y = d
  BY <1>2, Sizes DEF DrainingAt
<1>6. MemView = View(mem, d)
  <2>1. Arriving /\ Moved = d
    BY <1>1, <1>2, <1>3, <1>5 DEF Arriving, Moved
  <2> QED  BY <2>1 DEF MemView
<1>7. mem' = [mem EXCEPT ![addr + d] = buf[d]] /\ DOMAIN mem' = DOMAIN mem
  BY <1>1, <1>5
<1>8. MemView' = View(mem', d + 1)
  <2>1. CASE pc' = "drain"
    <3>1. dptr' = d + 1 /\ pc' = "drain"
      BY <1>5, <2>1, DrainMoves
    <3>2. zp' - addr' + y' = d + 1
      BY <3>1, DrainingPointersNext
    <3>3. Arriving' /\ Moved' = d + 1
      BY <1>1, <1>2, <1>3, <2>1, <3>2 DEF Arriving, Moved
    <3> QED  BY <1>1, <3>3 DEF MemView
  <2>2. CASE pc' = "return"
    <3>1. d + 1 = SectorSize
      BY <1>5, <2>2, DrainMoves, Sizes
    <3>2. \A a : a \notin (addr + (d + 1))..(addr + SectorSize - 1)
      BY <1>2, <3>1, Sizes
    <3>3. ~ Arriving'
      BY <2>2 DEF Arriving
    <3>4. MemView' = mem'
      BY <3>3, AtRestNext
    <3>5. mem' = [a \in DOMAIN mem' |-> mem'[a]]
      BY DEF DiskInv, Data
    <3> QED  BY <3>2, <3>4, <3>5
  <2> QED  BY <1>2, <2>1, <2>2
<1>9. View(mem', d + 1) = View(mem, d)
  <2>1. ASSUME NEW a \in DOMAIN mem
        PROVE  (IF a \in (addr + (d + 1))..(addr + SectorSize - 1) THEN buf[a - addr] ELSE mem'[a])
                 = (IF a \in (addr + d)..(addr + SectorSize - 1) THEN buf[a - addr] ELSE mem[a])
    <3>1. CASE a = addr + d
      <4>1. a \notin (addr + (d + 1))..(addr + SectorSize - 1) /\ a \in (addr + d)..(addr + SectorSize - 1)
            /\ a - addr = d
        BY <1>2, <1>5, <3>1, Sizes
      <4>2. mem'[a] = buf[d]
        BY <1>7, <3>1
      <4> QED  BY <4>1, <4>2
    <3>2. CASE a # addr + d
      <4>1. a \in (addr + (d + 1))..(addr + SectorSize - 1) <=> a \in (addr + d)..(addr + SectorSize - 1)
        BY <1>2, <1>5, <3>2, Sizes
      <4>2. mem'[a] = mem[a]
        BY <1>7, <3>2
      <4> QED  BY <4>1, <4>2
    <3> QED  BY <3>1, <3>2
  <2> QED  BY <1>7, <2>1
<1> HIDE DEF View
<1> QED  BY <1>1, <1>4, <1>6, <1>8, <1>9 DEF Abstract!vars

LEMMA FillStutters ==
  ASSUME DiskInv, DiskInv', attached' = attached, Fill
  PROVE  UNCHANGED Abstract!vars
<1>1. /\ pc = "fill" /\ pc' \in {"fill", "set_lba"} /\ op = "write"
      /\ UNCHANGED <<img, mem, res, op, block, addr>>
  BY DEF Fill, At, Goto, Stay, DiskInv, Filling
<1>2. ~ Arriving /\ ~ Arriving' /\ Served = FALSE /\ Served' = FALSE
  BY <1>1 DEF Arriving, Served
<1>3. ReqView' = ReqView
  BY <1>1, <1>2, SameRequest
<1>4. MemView' = MemView
  BY <1>1, <1>2, AtRest, AtRestNext
<1> QED  BY <1>1, <1>3, <1>4 DEF Abstract!vars

LEMMA ReturnReturns ==
  ASSUME DiskInv, DiskInv', attached' = attached, Return
  PROVE  Abstract!Return
<1>1. /\ pc = "return" /\ pc' = "idle" /\ res' = IF err THEN 1 ELSE 0
      /\ UNCHANGED <<img, mem, op, block, addr>>
  BY DEF Return, At, Goto
<1>2. op \in {"read", "write"} /\ (err <=> ~ attached)
  BY <1>1 DEF DiskInv, Requested, Registers
<1>3. MemView' = MemView
  <2>1. ~ Arriving /\ ~ Arriving'
    BY <1>1 DEF Arriving
  <2> QED  BY <1>1, <2>1, AtRest, AtRestNext
<1>4. ReqView = [op |-> op, block |-> block, addr |-> addr, served |-> TRUE]
  <2>1. Served = TRUE
    BY <1>1 DEF Served
  <2> QED  BY <1>1, <2>1 DEF ReqView
<1>5. ReqView # NoRequest /\ ReqView.served
  <2>1. ReqView.op = op /\ NoRequest.op = "none"
    BY <1>4 DEF NoRequest
  <2> QED  BY <1>2, <1>4, <2>1
<1>6. ReqView' = NoRequest
  BY <1>1 DEF ReqView
<1>7. res' = IF attached THEN 0 ELSE 1
  BY <1>1, <1>2
<1> QED  BY <1>1, <1>3, <1>5, <1>6, <1>7 DEF Abstract!Return

(***************************************************************************)
(* ImplementsBlockDevice: for every sector size and block number width,    *)
(* the byte-by-byte driver on the register-level controller moves exactly  *)
(* the requested sector to or from exactly the caller's bytes, or reports  *)
(* that there is no image and moves nothing (block.c, tb.v).               *)
(***************************************************************************)
THEOREM DiskImplementsBlockDevice == Spec => ImplementsBlockDevice
<1>1. Init => Abstract!Init
  <2> SUFFICES ASSUME Init PROVE Abstract!Init
    OBVIOUS
  <2>1. MemView = mem
    <3>1. ~ Arriving
      BY DEF Init, Arriving
    <3> QED  BY <3>1, AtRest, InitInv
  <2>2. ReqView = NoRequest
    BY DEF Init, ReqView
  <2> QED  BY <2>1, <2>2 DEF Init, Abstract!Init
<1>2. DiskInv /\ DiskInv' /\ [Next]_vars => [Abstract!Next]_(Abstract!vars)
  <2> SUFFICES ASSUME DiskInv, DiskInv', [Next]_vars
               PROVE  Abstract!Next \/ UNCHANGED Abstract!vars
    OBVIOUS
  <2>1. ASSUME NEW o \in {"read", "write"}, NEW b \in Blocks, NEW a \in Buffers,
               attached' = attached, Call(o, b, a)
        PROVE  Abstract!Next
    <3>1. Abstract!Request(o, b, a)
      BY <2>1, CallRequests
    <3> QED  BY <3>1 DEF Abstract!Next
  <2>2. ASSUME attached' = attached, Step PROVE Abstract!Next \/ UNCHANGED Abstract!vars
    <3>1. ASSUME Command PROVE Abstract!Next
      <4>1. Abstract!Serve
        BY <2>2, <3>1, CommandServes
      <4> QED  BY <4>1 DEF Abstract!Next
    <3>2. ASSUME Return PROVE Abstract!Next
      <4>1. Abstract!Return
        BY <2>2, <3>2, ReturnReturns
      <4> QED  BY <4>1 DEF Abstract!Next
    <3> QED
      BY <2>2, <3>1, <3>2, SetLbaStutters, PollStutters, DptrStutters, DrainStutters, FillStutters,
         Zenon DEF Step
  <2>3. CASE UNCHANGED vars
    BY <2>3 DEF vars, Abstract!vars, MemView, ReqView, Arriving, Moved, Served
  <2> QED  BY <2>1, <2>2, <2>3 DEF Next
<1> QED  BY <1>1, <1>2, DiskInvHolds, PTL DEF Spec, ImplementsBlockDevice, Abstract!Spec

----------------------------------------------------------------------------
(* Every call ends: the steps that are left become fewer.                  *)

\* An upper bound on the steps a call still has to take. A read writes the
\* block number and gives its command before the transfer, a write after it.
Remaining ==
  CASE pc = "idle"    -> 0
    [] pc = "return"  -> 1
    [] pc = "poll"    -> IF op = "read" THEN SectorSize + 3 ELSE 2
    [] pc = "command" -> IF op = "read" THEN SectorSize + 4 ELSE 3
    [] pc = "set_lba" -> (LbaBytes - k) + IF op = "read" THEN SectorSize + 4 ELSE 3
    [] pc = "dptr"    -> IF op = "read" THEN SectorSize + 2 ELSE SectorSize + LbaBytes + 5
    [] pc = "drain"   -> (SectorSize - dptr) + 1
    [] pc = "fill"    -> (SectorSize - k) + LbaBytes + 4

Advances == Remaining' \in Nat /\ Remaining' < Remaining

LEMMA RemainingIs ==
  /\ pc = "return" => Remaining = 1
  /\ pc = "poll" => Remaining = IF op = "read" THEN SectorSize + 3 ELSE 2
  /\ pc = "command" => Remaining = IF op = "read" THEN SectorSize + 4 ELSE 3
  /\ pc = "set_lba" => Remaining = (LbaBytes - k) + IF op = "read" THEN SectorSize + 4 ELSE 3
  /\ pc = "dptr" => Remaining = IF op = "read" THEN SectorSize + 2
                                ELSE SectorSize + LbaBytes + 5
  /\ pc = "drain" => Remaining = (SectorSize - dptr) + 1
  /\ pc = "fill" => Remaining = (SectorSize - k) + LbaBytes + 4
BY DEF Remaining

LEMMA RemainingBecomes ==
  /\ pc' = "idle" => Remaining' = 0
  /\ pc' = "return" => Remaining' = 1
  /\ pc' = "poll" => Remaining' = IF op' = "read" THEN SectorSize + 3 ELSE 2
  /\ pc' = "command" => Remaining' = IF op' = "read" THEN SectorSize + 4 ELSE 3
  /\ pc' = "set_lba" => Remaining' = (LbaBytes - k') + IF op' = "read" THEN SectorSize + 4 ELSE 3
  /\ pc' = "dptr" => Remaining' = IF op' = "read" THEN SectorSize + 2
                                  ELSE SectorSize + LbaBytes + 5
  /\ pc' = "drain" => Remaining' = (SectorSize - dptr') + 1
  /\ pc' = "fill" => Remaining' = (SectorSize - k') + LbaBytes + 4
BY DEF Remaining

LEMMA StepAdvances ==
  ASSUME DiskInv, Step PROVE Advances
<1> DEFINE S == SectorSize
           L == LbaBytes
<1>1. S \in Nat /\ S > 0 /\ L \in Nat /\ L > 0
  BY Sizes
<1> HIDE DEF S, L
<1>2. CASE SetLba
  <2>1. pc = "set_lba" /\ op' = op /\ k \in Nat /\ k <= L - 1
    BY <1>2, Sizes DEF SetLba, At, Stay, DiskInv, LbaWritten, L
  <2>2. PICK r \in Nat : r = (IF op = "read" THEN S + 4 ELSE 3)
    BY <1>1
  <2>3. Remaining = (L - k) + r
    BY <2>1, <2>2, RemainingIs DEF S, L
  <2>4. CASE k = L - 1
    <3>1. pc' = "command"
      BY <1>2, <2>4 DEF SetLba, Goto, L
    <3>2. Remaining' = r
      BY <2>1, <2>2, <3>1, RemainingBecomes DEF S
    <3> QED  BY <1>1, <2>1, <2>3, <3>2 DEF Advances
  <2>5. CASE k # L - 1
    <3>1. pc' = "set_lba" /\ k' = k + 1
      BY <1>2, <2>5 DEF SetLba, Goto, L
    <3>2. Remaining' = (L - (k + 1)) + r
      BY <2>1, <2>2, <3>1, RemainingBecomes DEF S, L
    <3> QED  BY <1>1, <2>1, <2>3, <3>2 DEF Advances
  <2> QED  BY <2>4, <2>5
<1>3. CASE Command
  <2>1. pc = "command" /\ pc' = "poll" /\ op' = op
    BY <1>3 DEF Command, At, Goto, Stay
  <2>2. CASE op = "read"
    <3>1. Remaining = S + 4 /\ Remaining' = S + 3
      BY <2>1, <2>2, RemainingIs, RemainingBecomes DEF S
    <3> QED  BY <1>1, <3>1 DEF Advances
  <2>3. CASE op # "read"
    <3>1. Remaining = 3 /\ Remaining' = 2
      BY <2>1, <2>3, RemainingIs, RemainingBecomes
    <3> QED  BY <3>1 DEF Advances
  <2> QED  BY <2>2, <2>3
<1>4. CASE Poll
  <2>1. pc = "poll" /\ op' = op /\ op \in {"read", "write"}
        /\ pc' = IF err \/ op = "write" THEN "return" ELSE "dptr"
    BY <1>4 DEF Poll, At, Goto, Stay, DiskInv, Requested
  <2>2. CASE op = "read"
    <3>1. Remaining = S + 3 /\ (Remaining' = 1 \/ Remaining' = S + 2)
      BY <2>1, <2>2, RemainingIs, RemainingBecomes DEF S
    <3> QED  BY <1>1, <3>1 DEF Advances
  <2>3. CASE op = "write"
    <3>1. Remaining = 2 /\ Remaining' = 1
      BY <2>1, <2>3, RemainingIs, RemainingBecomes
    <3> QED  BY <3>1 DEF Advances
  <2> QED  BY <2>1, <2>2, <2>3
<1>5. CASE Dptr
  <2>1. pc = "dptr" /\ op' = op /\ dptr' = 0 /\ k' = 0
        /\ pc' = IF op = "read" THEN "drain" ELSE "fill"
    BY <1>5 DEF Dptr, ResetDptr, At, Goto
  <2>2. CASE op = "read"
    <3>1. Remaining = S + 2 /\ Remaining' = (S - 0) + 1
      BY <2>1, <2>2, RemainingIs, RemainingBecomes DEF S
    <3> QED  BY <1>1, <3>1 DEF Advances
  <2>3. CASE op # "read"
    <3>1. Remaining = S + L + 5 /\ Remaining' = (S - 0) + L + 4
      BY <2>1, <2>3, RemainingIs, RemainingBecomes DEF S, L
    <3> QED  BY <1>1, <3>1 DEF Advances
  <2> QED  BY <2>2, <2>3
<1>6. CASE Drain
  <2>1. pc = "drain" /\ dptr \in Nat /\ dptr <= S - 1 /\ pc' \in {"drain", "return"}
        /\ (pc' = "drain" => dptr' = dptr + 1 /\ dptr' <= S - 1)
    <3>1. \A i : i \in Indices => i \in Nat /\ i <= S - 1
      BY Sizes DEF S
    <3>2. pc = "drain" /\ dptr \in Indices
      BY <1>6 DEF Drain, At, DiskInv, Registers
    <3>3. pc' \in {"drain", "return"} /\ (pc' = "drain" => dptr' = dptr + 1 /\ dptr' \in Indices)
      BY <1>6, DrainMoves
    <3> QED  BY <3>1, <3>2, <3>3
  <2>2. Remaining = (S - dptr) + 1
        /\ (Remaining' = 1 \/ (pc' = "drain" /\ Remaining' = (S - dptr') + 1))
    BY <2>1, RemainingIs, RemainingBecomes DEF S
  <2> QED  BY <1>1, <2>1, <2>2 DEF Advances
<1>7. CASE Fill
  <2>1. pc = "fill" /\ op = "write" /\ op' = op /\ k \in Nat /\ k <= S - 1
    BY <1>7, Sizes DEF Fill, At, Stay, DiskInv, LbaWritten, Filling, S
  <2>2. Remaining = (S - k) + L + 4
    BY <2>1, RemainingIs DEF S, L
  <2>3. CASE k = S - 1
    <3>1. pc' = "set_lba" /\ k' = 0
      BY <1>7, <2>3 DEF Fill, Goto, S
    <3>2. Remaining' = (L - 0) + 3
      BY <2>1, <3>1, RemainingBecomes DEF L
    <3> QED  BY <1>1, <2>1, <2>2, <3>2 DEF Advances
  <2>4. CASE k # S - 1
    <3>1. pc' = "fill" /\ k' = k + 1
      BY <1>7, <2>4 DEF Fill, Goto, S
    <3>2. Remaining' = (S - (k + 1)) + L + 4
      BY <3>1, RemainingBecomes DEF S, L
    <3> QED  BY <1>1, <2>1, <2>2, <3>2 DEF Advances
  <2> QED  BY <2>3, <2>4
<1>8. CASE Return
  <2>1. pc = "return" /\ pc' = "idle"
    BY <1>8 DEF Return, At, Goto
  <2> QED  BY <2>1, RemainingIs, RemainingBecomes DEF Advances
<1> QED  BY <1>2, <1>3, <1>4, <1>5, <1>6, <1>7, <1>8 DEF Step

(***************************************************************************)
(* A call never waits for BUSY (tb.v ends a command in the clock edge that *)
(* starts it), and each of its steps brings its return nearer, by a        *)
(* measure of natural numbers, for every sector size and block number      *)
(* width. CallsComplete needs no more of fairness than that steps are      *)
(* taken.                                                                  *)
(***************************************************************************)
THEOREM CallsAdvance == Spec => []~ busy /\ [][pc # "idle" => Advances]_vars
<1>1. DiskInv => ~ busy
  BY DEF DiskInv, Registers
<1>2. DiskInv /\ [Next]_vars => [pc # "idle" => Advances]_vars
  <2> SUFFICES ASSUME DiskInv, Next, pc # "idle" PROVE Advances
    OBVIOUS
  <2>1. Step
    BY DEF Next, Call, At
  <2> QED  BY <2>1, StepAdvances
<1> QED  BY <1>1, <1>2, DiskInvHolds, PTL DEF Spec
=============================================================================
