------------------------------ MODULE Induction ------------------------------
(***************************************************************************)
(* Induction over the natural numbers for sets of numbers. (The induction  *)
(* theorems of the library speak of operators, which cannot be             *)
(* instantiated with the provers at hand; a property of numbers is used    *)
(* here as the set of the numbers that have it.)                           *)
(***************************************************************************)
EXTENDS Integers, Sequences, FiniteSetsExt, FiniteSetTheorems, TLAPS

\* A set of natural numbers has a least element: the finite sets 0..n-1 are
\* well-founded under inclusion, and inclusion orders them as numbers are.
LEMMA LeastNumber ==
  ASSUME NEW T, T \subseteq Nat, T # {}
  PROVE  \E m \in T : \A k \in T : m <= k
<1> DEFINE Below(n) == 0..(n - 1)
           U == {Below(n) : n \in T}
<1>1. U \subseteq FiniteSubsetsOf(Nat)
  <2>1. ASSUME NEW n \in T PROVE IsFiniteSet(Below(n)) /\ Below(n) \subseteq Nat
    BY FS_Interval
  <2> QED  BY <2>1 DEF FiniteSubsetsOf
<1>2. U # {}  OBVIOUS
<1>3. \E u \in U : \A v \in U : <<v, u>> \notin StrictSubsetOrdering(Nat)
  <2>1. IsWellFoundedOn(StrictSubsetOrdering(Nat), FiniteSubsetsOf(Nat))
    BY FS_StrictSubsetOrderingWellFounded, Zenon
  <2> HIDE DEF U
  <2> QED  BY <1>1, <1>2, <2>1, WFMin, Zenon
<1>4. PICK m \in T : \A v \in U : <<v, Below(m)>> \notin StrictSubsetOrdering(Nat)
  BY <1>3
<1>5. ASSUME NEW k \in T, ~ (m <= k) PROVE FALSE
  <2>1. Below(k) \in SUBSET Nat /\ Below(m) \in SUBSET Nat /\ Below(k) \subseteq Below(m)
    BY <1>5
  <2>2. m - 1 \in Below(m) /\ m - 1 \notin Below(k)
    BY <1>5
  <2>3. <<Below(k), Below(m)>> \in StrictSubsetOrdering(Nat)
    <3> HIDE DEF Below
    <3> QED  BY <2>1, <2>2 DEF StrictSubsetOrdering
  <2> QED  BY <1>4, <2>3
<1> QED  BY <1>5

LEMMA InductionOverNat ==
  ASSUME NEW T, 0 \in T, \A n \in Nat : n \in T => n + 1 \in T
  PROVE  \A n \in Nat : n \in T
<1> DEFINE Missing == {n \in Nat : n \notin T}
<1> SUFFICES ASSUME Missing # {} PROVE FALSE  OBVIOUS
<1>1. PICK m \in Missing : \A k \in Missing : m <= k
  <2>1. Missing \subseteq Nat  OBVIOUS
  <2> HIDE DEF Missing
  <2> QED  BY <2>1, LeastNumber
<1>2. m # 0 /\ m - 1 \in Nat  OBVIOUS
<1>3. m - 1 \in T  BY <1>1, <1>2
<1> QED  BY <1>2, <1>3

----------------------------------------------------------------------------
(* Folding a sequence. The community modules define FoldLeft by a function *)
(* on the subsets of its domain: there is such a function.                 *)

LEMMA MaxOfUpTo ==
  ASSUME NEW n \in Nat, NEW q, q \subseteq 1..(n + 1), n + 1 \in q
  PROVE  Max(q) = n + 1
<1>1. \A k \in q : k \in Nat /\ n + 1 >= k  OBVIOUS
<1>2. \E x \in q : \A k \in q : x >= k  BY <1>1
<1>3. Max(q) \in q /\ \A k \in q : Max(q) >= k  BY <1>2 DEF Max
<1>4. Max(q) \in Nat /\ n + 1 >= Max(q) /\ Max(q) >= n + 1  BY <1>1, <1>3
<1> HIDE DEF Max
<1> QED  BY <1>4

IsFold(g, op, b, t) ==
  \A q \in SUBSET DOMAIN t :
    g[q] = IF q = {} THEN b ELSE op[<<g[q \ {Max(q)}], t[Max(q)]>>]

LEMMA FoldExists ==
  ASSUME NEW D, NEW E, NEW op \in [D \X E -> D], NEW b \in D, NEW t \in Seq(E)
  PROVE  \E g \in [SUBSET DOMAIN t -> D] : IsFold(g, op, b, t)
<1> DEFINE Folds(g, n) ==
             \A q \in SUBSET (1..n) :
               g[q] = IF q = {} THEN b ELSE op[<<g[q \ {Max(q)}], t[Max(q)]>>]
           T == {n \in Nat : n <= Len(t) => \E g \in [SUBSET (1..n) -> D] : Folds(g, n)}
<1>0. \A n \in Nat :
        n \in T <=> (n <= Len(t) => \E g \in [SUBSET (1..n) -> D] : Folds(g, n))
  BY Zenon
<1> HIDE DEF T
<1>1. 0 \in T
  <2>1. \A q \in SUBSET (1..0) : q = {}  OBVIOUS
  <2>2. [q \in SUBSET (1..0) |-> b] \in [SUBSET (1..0) -> D]  OBVIOUS
  <2>3. Folds([q \in SUBSET (1..0) |-> b], 0)  BY <2>1
  <2> HIDE DEF Folds
  <2> QED  BY <1>0, <2>2, <2>3
<1>2. ASSUME NEW n \in Nat, n \in T PROVE n + 1 \in T
  <2> SUFFICES ASSUME n + 1 <= Len(t)
               PROVE  \E g \in [SUBSET (1..(n + 1)) -> D] : Folds(g, n + 1)
    <3> HIDE DEF Folds
    <3>1. n + 1 \in Nat  OBVIOUS
    <3> QED  BY <1>0, <3>1
  <2>1. n <= Len(t) /\ t[n + 1] \in E  OBVIOUS
  <2>2. PICK g \in [SUBSET (1..n) -> D] : Folds(g, n)
    <3> HIDE DEF Folds
    <3> QED  BY <1>0, <1>2, <2>1
  <2> DEFINE h == [q \in SUBSET (1..(n + 1)) |->
                     IF n + 1 \in q THEN op[<<g[q \ {n + 1}], t[n + 1]>>] ELSE g[q]]
  <2>3. \A q \in SUBSET (1..(n + 1)) :
          q \ {n + 1} \in SUBSET (1..n) /\ (n + 1 \notin q => q \in SUBSET (1..n))
    <3>1. 1..(n + 1) = (1..n) \union {n + 1}  OBVIOUS
    <3> QED  BY <3>1
  <2>4. h \in [SUBSET (1..(n + 1)) -> D]
    <3>1. ASSUME NEW q \in SUBSET (1..(n + 1)) PROVE h[q] \in D
      <4>1. g[q \ {n + 1}] \in D  BY <2>2, <2>3
      <4>2. n + 1 \notin q => g[q] \in D  BY <2>2, <2>3
      <4>3. op[<<g[q \ {n + 1}], t[n + 1]>>] \in D  BY <2>1, <4>1
      <4> QED  BY <4>2, <4>3
    <3> QED  BY <3>1
  <2>5. ASSUME NEW q \in SUBSET (1..(n + 1))
        PROVE  h[q] = IF q = {} THEN b ELSE op[<<h[q \ {Max(q)}], t[Max(q)]>>]
    <3>1. CASE n + 1 \in q
      <4>1. Max(q) = n + 1  BY <3>1, MaxOfUpTo
      <4>2. q \ {n + 1} \in SUBSET (1..(n + 1)) /\ n + 1 \notin q \ {n + 1}  OBVIOUS
      <4>3. h[q \ {n + 1}] = g[q \ {n + 1}]  BY <4>2
      <4> QED  BY <3>1, <4>1, <4>3
    <3>2. CASE n + 1 \notin q
      <4>1. q \in SUBSET (1..n) /\ h[q] = g[q]  BY <2>3, <3>2
      <4>2. q \ {Max(q)} \in SUBSET (1..(n + 1)) /\ n + 1 \notin q \ {Max(q)}  BY <3>2
      <4>3. h[q \ {Max(q)}] = g[q \ {Max(q)}]  BY <4>2
      <4> QED  BY <2>2, <4>1, <4>3
    <3> QED  BY <3>1, <3>2
  <2> HIDE DEF h
  <2> QED  BY <2>4, <2>5
<1>3. \A n \in Nat : n \in T  BY <1>1, <1>2, InductionOverNat
<1>4. DOMAIN t = 1..Len(t) /\ Len(t) \in Nat  OBVIOUS
<1>5. \E g \in [SUBSET (1..Len(t)) -> D] : Folds(g, Len(t))
  <2> HIDE DEF Folds
  <2>1. Len(t) <= Len(t)  BY <1>4
  <2> QED  BY <1>0, <1>3, <1>4, <2>1
<1> QED  BY <1>4, <1>5, Zenon DEF IsFold

LEMMA MaxOfSome ==
  ASSUME NEW n \in Nat, NEW q, q \subseteq 1..n, q # {}
  PROVE  Max(q) \in q
<1> DEFINE U == {n - k : k \in q}
<1>1. U \subseteq Nat /\ U # {}  OBVIOUS
<1>2. PICK m \in U : \A k \in U : m <= k
  <2> HIDE DEF U
  <2> QED  BY <1>1, LeastNumber
<1>3. PICK x \in q : m = n - x  OBVIOUS
<1>4. \A k \in q : x >= k
  <2> SUFFICES ASSUME NEW k \in q PROVE x >= k  OBVIOUS
  <2>1. m <= n - k  BY <1>2
  <2> QED  BY <1>3, <2>1
<1>5. \E y \in q : \A k \in q : y >= k  BY <1>4
<1> QED  BY <1>5 DEF Max

LEMMA UpTo ==
  ASSUME NEW n \in Nat, NEW m \in 1..n
  PROVE  /\ 1..m \in SUBSET (1..n) /\ 1..m # {}
         /\ Max(1..m) = m /\ (1..m) \ {Max(1..m)} = 1..(m - 1)
<1>1. m - 1 \in Nat /\ 1..m \subseteq 1..((m - 1) + 1) /\ (m - 1) + 1 \in 1..m /\ (m - 1) + 1 = m
  OBVIOUS
<1>2. Max(1..m) = m  BY <1>1, MaxOfUpTo, Zenon
<1>3. 1..m \in SUBSET (1..n) /\ m \in 1..m /\ (1..m) \ {m} = 1..(m - 1)  OBVIOUS
<1>4. 1..m # {}  BY <1>3, Zenon
<1> QED  BY <1>2, <1>3, <1>4, Zenon

----------------------------------------------------------------------------
(* A function on 0..n defined by recursion: there is such a function.      *)

IsRecursion(f, n, b, op) ==
  f[0] = b /\ \A j \in 1..n : f[j] = op[<<f[j - 1], j>>]

LEMMA RecursionExists ==
  ASSUME NEW D, NEW b \in D, NEW n \in Nat, NEW op \in [D \X (1..n) -> D]
  PROVE  \E f \in [0..n -> D] : IsRecursion(f, n, b, op)
<1> DEFINE Some(m) == \E f \in [0..m -> D] : IsRecursion(f, m, b, op)
           T == {m \in Nat : m <= n => Some(m)}
<1>0. \A m \in Nat : m \in T <=> (m <= n => Some(m))
  BY Zenon
<1> HIDE DEF T
<1>1. 0 \in T
  <2>1. [j \in 0..0 |-> b] \in [0..0 -> D]  OBVIOUS
  <2>2. IsRecursion([j \in 0..0 |-> b], 0, b, op)  BY DEF IsRecursion
  <2>3. Some(0)  BY <2>1, <2>2
  <2> HIDE DEF Some
  <2> QED  BY <1>0, <2>3
<1>2. ASSUME NEW m \in Nat, m \in T PROVE m + 1 \in T
  <2> SUFFICES ASSUME m + 1 <= n PROVE Some(m + 1)
    <3> HIDE DEF Some
    <3>1. m + 1 \in Nat  OBVIOUS
    <3> QED  BY <1>0, <3>1
  <2>1. Some(m)
    <3> HIDE DEF Some
    <3>1. m <= n  OBVIOUS
    <3> QED  BY <1>0, <1>2, <3>1
  <2>2. PICK f \in [0..m -> D] : IsRecursion(f, m, b, op)
    BY <2>1
  <2> DEFINE g == [j \in 0..(m + 1) |-> IF j = m + 1 THEN op[<<f[m], m + 1>>] ELSE f[j]]
  <2>3. op[<<f[m], m + 1>>] \in D
    <3>1. f[m] \in D /\ m + 1 \in 1..n  OBVIOUS
    <3> QED  BY <3>1
  <2>4. \A j \in 0..(m + 1) : j # m + 1 => j \in 0..m  OBVIOUS
  <2>5. g \in [0..(m + 1) -> D]
    <3>1. ASSUME NEW j \in 0..(m + 1)
          PROVE  (IF j = m + 1 THEN op[<<f[m], m + 1>>] ELSE f[j]) \in D
      <4>1. CASE j = m + 1  BY <2>3, <4>1
      <4>2. CASE j # m + 1
        <5>1. f[j] \in D  BY <2>4, <4>2
        <5> QED  BY <4>2, <5>1
      <4> QED  BY <4>1, <4>2
    <3> QED  BY <3>1
  <2>6. g[0] = b
    <3>1. 0 \in 0..(m + 1) /\ 0 # m + 1  OBVIOUS
    <3>2. f[0] = b  BY <2>2 DEF IsRecursion
    <3> QED  BY <3>1, <3>2
  <2>7. ASSUME NEW j \in 1..(m + 1) PROVE g[j] = op[<<g[j - 1], j>>]
    <3>1. j \in 0..(m + 1) /\ j - 1 \in 0..(m + 1) /\ j - 1 # m + 1  OBVIOUS
    <3>2. g[j - 1] = f[j - 1]  BY <3>1
    <3>3. CASE j = m + 1
      <4>1. j - 1 = m  BY <3>3
      <4>2. g[j] = op[<<f[m], m + 1>>]  BY <3>1, <3>3
      <4> QED  BY <3>2, <3>3, <4>1, <4>2
    <3>4. CASE j # m + 1
      <4>1. j \in 1..m  BY <3>4
      <4>2. f[j] = op[<<f[j - 1], j>>]  BY <2>2, <4>1 DEF IsRecursion
      <4>3. g[j] = f[j]  BY <3>1, <3>4
      <4> QED  BY <3>2, <4>2, <4>3
    <3> QED  BY <3>3, <3>4
  <2> HIDE DEF g
  <2>8. IsRecursion(g, m + 1, b, op)  BY <2>6, <2>7 DEF IsRecursion
  <2> QED  BY <2>5, <2>8
<1>3. \A m \in Nat : m \in T  BY <1>1, <1>2, InductionOverNat
<1>4. n <= n  OBVIOUS
<1> HIDE DEF Some
<1>5. Some(n)  BY <1>0, <1>3, <1>4
<1> QED  BY <1>5 DEF Some
=============================================================================
