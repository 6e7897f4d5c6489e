--------------------------- MODULE HeatLayoutProofs ---------------------------
(* Proofs about HeatLayout, for every set of racers and of clients, and every *)
(* capacity.                                                                  *)
EXTENDS HeatLayout, FiniteSetTheorems, SequenceTheorems, TLAPS

-----------------------------------------------------------------------------
(* Numbers.                                                                   *)

LEMMA MinIs ==
  ASSUME NEW S \in SUBSET Nat, S # {}
  PROVE  Min(S) \in S /\ \A y \in S : Min(S) <= y
<1> DEFINE Less == OpToRel(<, Nat)
<1>1. IsWellFoundedOn(Less, Nat)
  BY NatLessThanWellFounded
<1>2. \A d, e \in Nat : d < e => <<d, e>> \in Less
  BY DEF OpToRel
<1> HIDE DEF Less
<1>3. \E d \in S : \A e \in S : ~(<<e, d>> \in Less)
  BY <1>1, WFMin, Zenon
<1>4. \E d \in S : \A e \in S : d <= e
  <2>1. PICK d \in S : \A e \in S : ~(<<e, d>> \in Less)
    BY <1>3
  <2>2. \A e \in S : ~(e < d)
    BY <1>2, <2>1
  <2>3. \A e \in S : d <= e
    BY <2>2, SMT
  <2>4. QED
    BY <2>3
<1>5. QED
  BY <1>4 DEF Min

LEMMA MaxIs ==
  ASSUME NEW S \in SUBSET Nat, S # {}, NEW b \in Nat, \A y \in S : y <= b
  PROVE  Max(S) \in S /\ \A y \in S : y <= Max(S)
<1> DEFINE T == {d \in 0..b : b - d \in S}
<1>1. ASSUME NEW y \in S PROVE b - y \in T
  <2>1. y \in Nat /\ y <= b
    OBVIOUS
  <2>2. b - y \in 0..b /\ b - (b - y) = y
    BY <2>1
  <2>3. QED
    BY <2>2
<1>2. \A d \in T : d \in Nat /\ d <= b /\ b - d \in S
  OBVIOUS
<1> HIDE DEF T
<1>3. T \in SUBSET Nat /\ T # {}
  <2>1. PICK y \in S : TRUE
    OBVIOUS
  <2>2. b - y \in T
    BY <1>1, <2>1
  <2>3. QED
    BY <1>2, <2>2
<1>4. PICK m \in T : \A d \in T : m <= d
  BY <1>3, MinIs
<1>5. b - m \in S /\ \A y \in S : b - m >= y
  <2>1. b - m \in S /\ m \in Nat
    BY <1>2
  <2>2. ASSUME NEW y \in S PROVE b - m >= y
    <3>1. m <= b - y /\ y \in Nat
      BY <1>1, <1>4
    <3>2. QED
      BY <2>1, <3>1
  <2>3. QED
    BY <2>1, <2>2
<1>6. QED
  BY <1>5 DEF Max

\* Induction up to a bound, over the set of the numbers a fact holds of.
LEMMA Reaches ==
  ASSUME NEW n \in Nat, NEW S, 0 \in S, \A i \in 0..n : i \in S /\ i < n => i + 1 \in S
  PROVE  0..n \subseteq S
<1> SUFFICES ASSUME ~(0..n \subseteq S) PROVE FALSE
  OBVIOUS
<1> DEFINE T == {i \in 0..n : i \notin S}
<1>1. T \in SUBSET Nat /\ T # {}
  OBVIOUS
<1>2. PICK m \in T : \A i \in T : m <= i
  BY <1>1, MinIs
<1>3. m \in Nat /\ m # 0 /\ m - 1 \in 0..n /\ m - 1 \notin T
  BY <1>2
<1>4. m - 1 \in S /\ m - 1 < n
  BY <1>2, <1>3
<1>5. m \in S
  BY <1>3, <1>4
<1>6. QED
  BY <1>2, <1>5

-----------------------------------------------------------------------------
(* Orders.                                                                    *)

Slotted(S, ps) ==
  /\ \A r \in S : ps[r].slot \in Nat
  /\ \A r, s \in S : ps[r].slot = ps[s].slot => r = s
Ahead(S, ps, r) == {s \in S : ps[s].slot < ps[r].slot}

LEMMA RankIs ==
  ASSUME NEW S, IsFiniteSet(S), NEW ps, Slotted(S, ps)
  PROVE  /\ \A r \in S : Cardinality(Ahead(S, ps, r)) \in 0..(Cardinality(S) - 1)
         /\ \A r, s \in S : ps[r].slot < ps[s].slot
              <=> Cardinality(Ahead(S, ps, r)) < Cardinality(Ahead(S, ps, s))
<1>1. ASSUME NEW r \in S
      PROVE  /\ Cardinality(Ahead(S, ps, r)) \in 0..(Cardinality(S) - 1)
             /\ Ahead(S, ps, r) \in SUBSET S /\ r \notin Ahead(S, ps, r)
             /\ IsFiniteSet(Ahead(S, ps, r))
  <2>1. r \notin Ahead(S, ps, r) /\ Ahead(S, ps, r) \in SUBSET (S \ {r})
    BY DEF Ahead, Slotted
  <2>2. IsFiniteSet(S \ {r}) /\ Cardinality(S \ {r}) = Cardinality(S) - 1
    BY FS_RemoveElement
  <2>3. Cardinality(S) \in Nat
    BY FS_CardinalityType
  <2>4. /\ IsFiniteSet(Ahead(S, ps, r))
        /\ Cardinality(Ahead(S, ps, r)) <= Cardinality(S \ {r})
    BY <2>1, <2>2, FS_Subset
  <2>5. Cardinality(Ahead(S, ps, r)) \in Nat
    BY <2>4, FS_CardinalityType
  <2>6. QED
    BY <2>1, <2>2, <2>3, <2>4, <2>5
<1>2. ASSUME NEW r \in S, NEW s \in S, ps[r].slot < ps[s].slot
      PROVE  Cardinality(Ahead(S, ps, r)) < Cardinality(Ahead(S, ps, s))
  <2>1. Ahead(S, ps, r) \in SUBSET Ahead(S, ps, s) /\ r \in Ahead(S, ps, s)
    BY <1>2 DEF Ahead, Slotted
  <2>2. Ahead(S, ps, r) # Ahead(S, ps, s)
    BY <1>1, <2>1
  <2>3. /\ Cardinality(Ahead(S, ps, r)) <= Cardinality(Ahead(S, ps, s))
        /\ Cardinality(Ahead(S, ps, r)) # Cardinality(Ahead(S, ps, s))
    BY <1>1, <2>1, <2>2, FS_Subset
  <2>4. /\ Cardinality(Ahead(S, ps, r)) \in Nat
        /\ Cardinality(Ahead(S, ps, s)) \in Nat
    BY <1>1, FS_CardinalityType
  <2>5. QED
    BY <2>3, <2>4
<1>3. ASSUME NEW r \in S, NEW s \in S,
             Cardinality(Ahead(S, ps, r)) < Cardinality(Ahead(S, ps, s))
      PROVE  ps[r].slot < ps[s].slot
  <2>1. SUFFICES ASSUME ~(ps[r].slot < ps[s].slot) PROVE FALSE
    OBVIOUS
  <2>2. ps[r].slot \in Nat /\ ps[s].slot \in Nat
    BY DEF Slotted
  <2>3. /\ Cardinality(Ahead(S, ps, r)) \in Nat
        /\ Cardinality(Ahead(S, ps, s)) \in Nat
    BY <1>1, FS_CardinalityType
  <2>4. CASE ps[r].slot = ps[s].slot
    <3>1. r = s
      BY <2>4 DEF Slotted
    <3>2. QED
      BY <1>3, <2>3, <3>1
  <2>5. CASE ps[s].slot < ps[r].slot
    BY <1>2, <1>3, <2>3, <2>5
  <2>6. QED
    BY <2>1, <2>2, <2>4, <2>5
<1>4. QED
  BY <1>1, <1>2, <1>3

LEMMA InOrderIs ==
  ASSUME NEW S, IsFiniteSet(S), NEW ps, Slotted(S, ps)
  PROVE  /\ Cardinality(S) \in Nat
         /\ InOrder(S, ps) \in [1..Cardinality(S) -> S]
         /\ \A i \in 1..Cardinality(S) : Cardinality(Ahead(S, ps, InOrder(S, ps)[i])) = i - 1
         /\ \A r \in S : \E i \in 1..Cardinality(S) : InOrder(S, ps)[i] = r
         /\ \A i, j \in 1..Cardinality(S) :
              i < j <=> ps[InOrder(S, ps)[i]].slot < ps[InOrder(S, ps)[j]].slot
<1> DEFINE n == Cardinality(S)
<1> DEFINE rank == [r \in S |-> Cardinality(Ahead(S, ps, r))]
<1>0. n \in Nat
  BY FS_CardinalityType
<1>1. /\ rank \in [S -> 0..(n - 1)]
      /\ \A r, s \in S : ps[r].slot < ps[s].slot <=> rank[r] < rank[s]
  BY RankIs
<1>2. \A r, s \in S : rank[r] = rank[s] => r = s
  <2>1. SUFFICES ASSUME NEW r \in S, NEW s \in S, rank[r] = rank[s] PROVE r = s
    OBVIOUS
  <2>2. ~(ps[r].slot < ps[s].slot) /\ ~(ps[s].slot < ps[r].slot)
    BY <1>0, <1>1, <2>1
  <2>3. ps[r].slot = ps[s].slot
    BY <2>2 DEF Slotted
  <2>4. QED
    BY <2>3 DEF Slotted
<1>3. IsFiniteSet(0..(n - 1)) /\ Cardinality(0..(n - 1)) = n
  BY <1>0, FS_Interval
<1>4. rank \in Injection(S, 0..(n - 1))
  BY <1>1, <1>2 DEF Injection, IsInjective
<1> HIDE DEF rank, n
<1>5. rank \in Surjection(S, 0..(n - 1))
  BY <1>3, <1>4, FS_Injection DEF n
<1>6. \A k \in 0..(n - 1) : \E r \in S : rank[r] = k
  BY <1>5 DEF Surjection
<1> USE DEF n
<1>7. \A i \in 1..n : InOrder(S, ps)[i] \in S /\ rank[InOrder(S, ps)[i]] = i - 1
  <2>1. SUFFICES ASSUME NEW i \in 1..n
                 PROVE  InOrder(S, ps)[i] \in S /\ rank[InOrder(S, ps)[i]] = i - 1
    OBVIOUS
  <2>2. InOrder(S, ps)[i] = CHOOSE r \in S : rank[r] = i - 1
    BY DEF InOrder, Ahead, rank
  <2>3. \E r \in S : rank[r] = i - 1
    BY <1>0, <1>6
  <2>4. QED
    BY <2>2, <2>3
<1>8. InOrder(S, ps) \in [1..n -> S]
  BY <1>7 DEF InOrder
<1>9. \A r \in S : \E i \in 1..n : InOrder(S, ps)[i] = r
  <2>1. SUFFICES ASSUME NEW r \in S PROVE \E i \in 1..n : InOrder(S, ps)[i] = r
    OBVIOUS
  <2>2. rank[r] + 1 \in 1..n /\ (rank[r] + 1) - 1 = rank[r]
    BY <1>0, <1>1
  <2>3. InOrder(S, ps)[rank[r] + 1] = r
    BY <1>2, <1>7, <2>2
  <2>4. QED
    BY <2>2, <2>3
<1>10. \A i, j \in 1..n : i < j <=> ps[InOrder(S, ps)[i]].slot < ps[InOrder(S, ps)[j]].slot
  BY <1>0, <1>1, <1>7
<1>11. \A i \in 1..n : Cardinality(Ahead(S, ps, InOrder(S, ps)[i])) = i - 1
  BY <1>7 DEF rank
<1>12. QED
  BY <1>0, <1>8, <1>9, <1>10, <1>11

\* The racers of S fill the slots 1..k.
Filled(S, ps, k) ==
  /\ Slotted(S, ps)
  /\ \A r \in S : ps[r].slot \in 1..k
  /\ \A i \in 1..k : \E r \in S : ps[r].slot = i

LEMMA FilledSize ==
  ASSUME NEW S, IsFiniteSet(S), NEW ps, NEW k \in Nat, Filled(S, ps, k)
  PROVE  Cardinality(S) = k
<1> DEFINE f == [r \in S |-> ps[r].slot]
<1>1. f \in Bijection(S, 1..k)
  BY DEF Filled, Slotted, Bijection, Injection, Surjection, IsInjective
<1>2. Cardinality(1..k) = k
  BY FS_Interval
<1>3. ExistsBijection(S, 1..k)
  BY <1>1 DEF ExistsBijection
<1>4. QED
  BY <1>2, <1>3, FS_Bijection

LEMMA FilledBelow ==
  ASSUME NEW S, NEW ps, NEW k \in Nat, Filled(S, ps, k), NEW j \in 0..k
  PROVE  Filled({s \in S : ps[s].slot <= j}, ps, j)
<1>1. \A r \in S : ps[r].slot \in Nat /\ ps[r].slot \in 1..k
  BY DEF Filled, Slotted
<1>2. \A i \in 1..j : \E r \in S : ps[r].slot = i /\ ps[r].slot <= j
  <2>1. SUFFICES ASSUME NEW i \in 1..j PROVE \E r \in S : ps[r].slot = i /\ ps[r].slot <= j
    OBVIOUS
  <2>2. i \in 1..k /\ i <= j
    OBVIOUS
  <2>3. QED
    BY <2>2 DEF Filled
<1>3. \A r \in S : ps[r].slot <= j => ps[r].slot \in 1..j
  BY <1>1
<1>4. Slotted({s \in S : ps[s].slot <= j}, ps)
  BY DEF Filled, Slotted
<1>5. QED
  BY <1>2, <1>3, <1>4 DEF Filled

LEMMA FilledPast ==
  ASSUME NEW S, IsFiniteSet(S), NEW ps, NEW k \in Nat, Filled(S, ps, k), NEW j \in 0..k
  PROVE  Cardinality({s \in S : ps[s].slot > j}) = k - j
<1> DEFINE L == {s \in S : ps[s].slot <= j}
<1>1. Filled(L, ps, j)
  BY FilledBelow
<1>2. IsFiniteSet(L) /\ L \in SUBSET S
  BY FS_Subset
<1>3. Cardinality(L) = j
  BY <1>1, <1>2, FilledSize
<1>4. \A r \in S : ps[r].slot \in Nat
  BY DEF Filled, Slotted
<1>5. {s \in S : ps[s].slot > j} = S \ L
  BY <1>4
<1>6. S \cap L = L
  OBVIOUS
<1>7. Cardinality(S \ L) = Cardinality(S) - Cardinality(L)
  BY <1>6, FS_Difference
<1>8. QED
  BY <1>3, <1>5, <1>7, FilledSize

LEMMA FilledInOrder ==
  ASSUME NEW S, IsFiniteSet(S), NEW ps, NEW k \in Nat, Filled(S, ps, k)
  PROVE  /\ InOrder(S, ps) \in [1..k -> S]
         /\ \A i \in 1..k : ps[InOrder(S, ps)[i]].slot = i
         /\ \A r \in S : InOrder(S, ps)[ps[r].slot] = r
<1>1. Cardinality(S) = k
  BY FilledSize
<1>2. Slotted(S, ps)
  BY DEF Filled
<1>3. \A r \in S : Cardinality(Ahead(S, ps, r)) = ps[r].slot - 1
  <2>1. SUFFICES ASSUME NEW r \in S PROVE Cardinality(Ahead(S, ps, r)) = ps[r].slot - 1
    OBVIOUS
  <2>2. \A s \in S : ps[s].slot \in 1..k
    BY DEF Filled
  <2>3. ps[r].slot - 1 \in 0..k /\ ps[r].slot - 1 \in Nat
    BY <2>2
  <2>4. Ahead(S, ps, r) = {s \in S : ps[s].slot <= ps[r].slot - 1}
    BY <2>2 DEF Ahead
  <2>5. Filled(Ahead(S, ps, r), ps, ps[r].slot - 1)
    BY <2>3, <2>4, FilledBelow
  <2>6. IsFiniteSet(Ahead(S, ps, r))
    BY FS_Subset DEF Ahead
  <2>7. QED
    BY <2>3, <2>5, <2>6, FilledSize
<1>4. /\ InOrder(S, ps) \in [1..k -> S]
      /\ \A i \in 1..k : Cardinality(Ahead(S, ps, InOrder(S, ps)[i])) = i - 1
  BY <1>1, <1>2, InOrderIs
<1>5. \A i \in 1..k : ps[InOrder(S, ps)[i]].slot = i
  <2>1. SUFFICES ASSUME NEW i \in 1..k PROVE ps[InOrder(S, ps)[i]].slot = i
    OBVIOUS
  <2>2. InOrder(S, ps)[i] \in S
    BY <1>4
  <2>3. ps[InOrder(S, ps)[i]].slot - 1 = i - 1 /\ ps[InOrder(S, ps)[i]].slot \in Nat
    BY <1>2, <1>3, <1>4, <2>2 DEF Slotted
  <2>4. QED
    BY <2>3
<1>6. \A r \in S : InOrder(S, ps)[ps[r].slot] = r
  <2>1. SUFFICES ASSUME NEW r \in S PROVE InOrder(S, ps)[ps[r].slot] = r
    OBVIOUS
  <2>2. ps[r].slot \in 1..k
    BY DEF Filled
  <2>3. InOrder(S, ps)[ps[r].slot] \in S /\ ps[InOrder(S, ps)[ps[r].slot]].slot = ps[r].slot
    BY <1>4, <1>5, <2>2
  <2>4. QED
    BY <1>2, <2>3 DEF Slotted
<1>7. QED
  BY <1>4, <1>5, <1>6

-----------------------------------------------------------------------------
(* The recursive functions of the model are defined.                          *)

FoldNext(L) == IF Runnable(L) THEN L ELSE FoldTail(L)

LEMMA FoldingIs ==
  ASSUME NEW L, NEW n \in Nat, Cardinality(DOMAIN L) = n
  PROVE  /\ DOMAIN Folding(L) = 0..n /\ Folding(L)[0] = L
         /\ \A k \in 0..n : k < n => Folding(L)[k + 1] = FoldNext(Folding(L)[k])
<1> DEFINE G == {k \in 0..n : \E f : f = [j \in 0..k |-> IF j = 0 THEN L ELSE FoldNext(f[j - 1])]}
<1>1. 0 \in G
  <2> DEFINE f == [j \in 0..0 |-> L]
  <2>1. \A j \in 0..0 : j = 0
    OBVIOUS
  <2>2. f = [j \in 0..0 |-> IF j = 0 THEN L ELSE FoldNext(f[j - 1])]
    BY <2>1
  <2>3. \E g : g = [j \in 0..0 |-> IF j = 0 THEN L ELSE FoldNext(g[j - 1])]
    BY <2>2
  <2>4. QED
    BY <2>3
<1>2. ASSUME NEW k \in 0..n, k \in G, k < n PROVE k + 1 \in G
  <2>1. PICK f : f = [j \in 0..k |-> IF j = 0 THEN L ELSE FoldNext(f[j - 1])]
    BY <1>2
  <2> DEFINE g == [j \in 0..(k + 1) |-> IF j = k + 1 THEN FoldNext(f[k]) ELSE f[j]]
  <2>2. \A j \in 0..(k + 1) : g[j] = IF j = 0 THEN L ELSE FoldNext(g[j - 1])
    <3>1. SUFFICES ASSUME NEW j \in 0..(k + 1) PROVE g[j] = IF j = 0 THEN L ELSE FoldNext(g[j - 1])
      OBVIOUS
    <3>2. CASE j = 0
      BY <2>1, <3>2
    <3>3. CASE j # 0 /\ j # k + 1
      <4>1. j \in 0..k /\ j - 1 \in 0..(k + 1) /\ j - 1 # k + 1
        BY <3>3
      <4>2. g[j - 1] = f[j - 1] /\ g[j] = f[j]
        BY <3>3, <4>1
      <4>3. QED
        BY <2>1, <3>3, <4>1, <4>2
    <3>4. CASE j = k + 1
      <4>1. j - 1 = k /\ k \in 0..(k + 1) /\ k # k + 1 /\ j # 0
        BY <3>4
      <4>2. g[j - 1] = f[k] /\ g[j] = FoldNext(f[k])
        BY <3>4, <4>1
      <4>3. QED
        BY <3>4, <4>1, <4>2
    <3>5. QED
      BY <3>2, <3>3, <3>4
  <2>3. g = [j \in 0..(k + 1) |-> IF j = 0 THEN L ELSE FoldNext(g[j - 1])]
    BY <2>2
  <2>4. \E h : h = [j \in 0..(k + 1) |-> IF j = 0 THEN L ELSE FoldNext(h[j - 1])]
    BY <2>3
  <2>5. k + 1 \in 0..n
    BY <1>2
  <2>6. QED
    BY <2>4, <2>5
<1>3. n \in G
  <2> HIDE DEF G
  <2>1. 0..n \subseteq G
    BY <1>1, <1>2, Reaches
  <2>2. QED
    BY <2>1
<1>4. \E f : f = [j \in 0..n |-> IF j = 0 THEN L ELSE FoldNext(f[j - 1])]
  BY <1>3
<1>5. Folding(L) = CHOOSE f : f = [j \in 0..n |-> IF j = 0 THEN L ELSE FoldNext(f[j - 1])]
  BY DEF Folding, FoldNext
<1>6. Folding(L) = [j \in 0..n |-> IF j = 0 THEN L ELSE FoldNext(Folding(L)[j - 1])]
  BY <1>4, <1>5
<1>7. ASSUME NEW k \in 0..n, k < n PROVE Folding(L)[k + 1] = FoldNext(Folding(L)[k])
  <2>1. k + 1 \in 0..n /\ k + 1 # 0
    BY <1>7
  <2>2. QED
    BY <1>6, <2>1
<1>8. QED
  BY <1>6, <1>7

SplitNext(L) == IF Restored(L) THEN L ELSE SplitHeat(L)

LEMMA SplittingIs ==
  ASSUME NEW L, FinalCapacity \in Nat
  PROVE  /\ DOMAIN Splitting(L) = 0..FinalCapacity /\ Splitting(L)[0] = L
         /\ \A k \in 0..FinalCapacity : k < FinalCapacity => Splitting(L)[k + 1] = SplitNext(Splitting(L)[k])
<1> DEFINE G == {k \in 0..FinalCapacity : \E f : f = [j \in 0..k |-> IF j = 0 THEN L ELSE SplitNext(f[j - 1])]}
<1>1. 0 \in G
  <2> DEFINE f == [j \in 0..0 |-> L]
  <2>1. \A j \in 0..0 : j = 0
    OBVIOUS
  <2>2. f = [j \in 0..0 |-> IF j = 0 THEN L ELSE SplitNext(f[j - 1])]
    BY <2>1
  <2>3. \E g : g = [j \in 0..0 |-> IF j = 0 THEN L ELSE SplitNext(g[j - 1])]
    BY <2>2
  <2>4. QED
    BY <2>3
<1>2. ASSUME NEW k \in 0..FinalCapacity, k \in G, k < FinalCapacity PROVE k + 1 \in G
  <2>1. PICK f : f = [j \in 0..k |-> IF j = 0 THEN L ELSE SplitNext(f[j - 1])]
    BY <1>2
  <2> DEFINE g == [j \in 0..(k + 1) |-> IF j = k + 1 THEN SplitNext(f[k]) ELSE f[j]]
  <2>2. \A j \in 0..(k + 1) : g[j] = IF j = 0 THEN L ELSE SplitNext(g[j - 1])
    <3>1. SUFFICES ASSUME NEW j \in 0..(k + 1) PROVE g[j] = IF j = 0 THEN L ELSE SplitNext(g[j - 1])
      OBVIOUS
    <3>2. CASE j = 0
      BY <2>1, <3>2
    <3>3. CASE j # 0 /\ j # k + 1
      <4>1. j \in 0..k /\ j - 1 \in 0..(k + 1) /\ j - 1 # k + 1
        BY <3>3
      <4>2. g[j - 1] = f[j - 1] /\ g[j] = f[j]
        BY <3>3, <4>1
      <4>3. QED
        BY <2>1, <3>3, <4>1, <4>2
    <3>4. CASE j = k + 1
      <4>1. j - 1 = k /\ k \in 0..(k + 1) /\ k # k + 1 /\ j # 0
        BY <3>4
      <4>2. g[j - 1] = f[k] /\ g[j] = SplitNext(f[k])
        BY <3>4, <4>1
      <4>3. QED
        BY <3>4, <4>1, <4>2
    <3>5. QED
      BY <3>2, <3>3, <3>4
  <2>3. g = [j \in 0..(k + 1) |-> IF j = 0 THEN L ELSE SplitNext(g[j - 1])]
    BY <2>2
  <2>4. \E h : h = [j \in 0..(k + 1) |-> IF j = 0 THEN L ELSE SplitNext(h[j - 1])]
    BY <2>3
  <2>5. k + 1 \in 0..FinalCapacity
    BY <1>2
  <2>6. QED
    BY <2>4, <2>5
<1>3. FinalCapacity \in G
  <2> HIDE DEF G
  <2>1. 0..FinalCapacity \subseteq G
    BY <1>1, <1>2, Reaches
  <2>2. QED
    BY <2>1
<1>4. \E f : f = [j \in 0..FinalCapacity |-> IF j = 0 THEN L ELSE SplitNext(f[j - 1])]
  BY <1>3
<1>5. Splitting(L) = CHOOSE f : f = [j \in 0..FinalCapacity |-> IF j = 0 THEN L ELSE SplitNext(f[j - 1])]
  BY DEF Splitting, SplitNext
<1>6. Splitting(L) = [j \in 0..FinalCapacity |-> IF j = 0 THEN L ELSE SplitNext(Splitting(L)[j - 1])]
  BY <1>4, <1>5
<1>7. ASSUME NEW k \in 0..FinalCapacity, k < FinalCapacity PROVE Splitting(L)[k + 1] = SplitNext(Splitting(L)[k])
  <2>1. k + 1 \in 0..FinalCapacity /\ k + 1 # 0
    BY <1>7
  <2>2. QED
    BY <1>6, <2>1
<1>8. QED
  BY <1>6, <1>7

LEMMA FoldIs ==
  ASSUME NEW q, NEW n \in Nat, Len(q.passes) = n
  PROVE  /\ DOMAIN Fold(q) = 0..n /\ Fold(q)[0] = Untouched
         /\ \A k \in 0..n : k < n => Fold(q)[k + 1] = Merge(q, Fold(q)[k], q.passes[k + 1])
<1> DEFINE G == {k \in 0..n : \E f : f = [j \in 0..k |-> IF j = 0 THEN Untouched ELSE Merge(q, f[j - 1], q.passes[j])]}
<1>1. 0 \in G
  <2> DEFINE f == [j \in 0..0 |-> Untouched]
  <2>1. \A j \in 0..0 : j = 0
    OBVIOUS
  <2>2. f = [j \in 0..0 |-> IF j = 0 THEN Untouched ELSE Merge(q, f[j - 1], q.passes[j])]
    BY <2>1
  <2>3. \E g : g = [j \in 0..0 |-> IF j = 0 THEN Untouched ELSE Merge(q, g[j - 1], q.passes[j])]
    BY <2>2
  <2>4. QED
    BY <2>3
<1>2. ASSUME NEW k \in 0..n, k \in G, k < n PROVE k + 1 \in G
  <2>1. PICK f : f = [j \in 0..k |-> IF j = 0 THEN Untouched ELSE Merge(q, f[j - 1], q.passes[j])]
    BY <1>2
  <2> DEFINE g == [j \in 0..(k + 1) |-> IF j = k + 1 THEN Merge(q, f[k], q.passes[k + 1]) ELSE f[j]]
  <2>2. \A j \in 0..(k + 1) : g[j] = IF j = 0 THEN Untouched ELSE Merge(q, g[j - 1], q.passes[j])
    <3>1. SUFFICES ASSUME NEW j \in 0..(k + 1) PROVE g[j] = IF j = 0 THEN Untouched ELSE Merge(q, g[j - 1], q.passes[j])
      OBVIOUS
    <3>2. CASE j = 0
      BY <2>1, <3>2
    <3>3. CASE j # 0 /\ j # k + 1
      <4>1. j \in 0..k /\ j - 1 \in 0..(k + 1) /\ j - 1 # k + 1
        BY <3>3
      <4>2. g[j - 1] = f[j - 1] /\ g[j] = f[j]
        BY <3>3, <4>1
      <4>3. QED
        BY <2>1, <3>3, <4>1, <4>2
    <3>4. CASE j = k + 1
      <4>1. j - 1 = k /\ k \in 0..(k + 1) /\ k # k + 1 /\ j # 0
        BY <3>4
      <4>2. g[j - 1] = f[k] /\ g[j] = Merge(q, f[k], q.passes[k + 1])
        BY <3>4, <4>1
      <4>3. QED
        BY <3>4, <4>1, <4>2
    <3>5. QED
      BY <3>2, <3>3, <3>4
  <2>3. g = [j \in 0..(k + 1) |-> IF j = 0 THEN Untouched ELSE Merge(q, g[j - 1], q.passes[j])]
    BY <2>2
  <2>4. \E h : h = [j \in 0..(k + 1) |-> IF j = 0 THEN Untouched ELSE Merge(q, h[j - 1], q.passes[j])]
    BY <2>3
  <2>5. k + 1 \in 0..n
    BY <1>2
  <2>6. QED
    BY <2>4, <2>5
<1>3. n \in G
  <2> HIDE DEF G
  <2>1. 0..n \subseteq G
    BY <1>1, <1>2, Reaches
  <2>2. QED
    BY <2>1
<1>4. \E f : f = [j \in 0..n |-> IF j = 0 THEN Untouched ELSE Merge(q, f[j - 1], q.passes[j])]
  BY <1>3
<1>5. Fold(q) = CHOOSE f : f = [j \in 0..n |-> IF j = 0 THEN Untouched ELSE Merge(q, f[j - 1], q.passes[j])]
  BY DEF Fold
<1>6. Fold(q) = [j \in 0..n |-> IF j = 0 THEN Untouched ELSE Merge(q, Fold(q)[j - 1], q.passes[j])]
  BY <1>4, <1>5
<1>7. ASSUME NEW k \in 0..n, k < n PROVE Fold(q)[k + 1] = Merge(q, Fold(q)[k], q.passes[k + 1])
  <2>1. k + 1 \in 0..n /\ k + 1 # 0
    BY <1>7
  <2>2. QED
    BY <1>6, <2>1
<1>8. QED
  BY <1>6, <1>7

LEMMA UnfoldIs ==
  ASSUME NEW q, NEW n \in Nat, Len(q.passes) = n
  PROVE  /\ DOMAIN Unfold(q) = 0..n /\ Unfold(q)[0] = Untouched
         /\ \A k \in 0..n : k < n => Unfold(q)[k + 1] = Split(q, Unfold(q)[k], q.passes[k + 1])
<1> DEFINE G == {k \in 0..n : \E f : f = [j \in 0..k |-> IF j = 0 THEN Untouched ELSE Split(q, f[j - 1], q.passes[j])]}
<1>1. 0 \in G
  <2> DEFINE f == [j \in 0..0 |-> Untouched]
  <2>1. \A j \in 0..0 : j = 0
    OBVIOUS
  <2>2. f = [j \in 0..0 |-> IF j = 0 THEN Untouched ELSE Split(q, f[j - 1], q.passes[j])]
    BY <2>1
  <2>3. \E g : g = [j \in 0..0 |-> IF j = 0 THEN Untouched ELSE Split(q, g[j - 1], q.passes[j])]
    BY <2>2
  <2>4. QED
    BY <2>3
<1>2. ASSUME NEW k \in 0..n, k \in G, k < n PROVE k + 1 \in G
  <2>1. PICK f : f = [j \in 0..k |-> IF j = 0 THEN Untouched ELSE Split(q, f[j - 1], q.passes[j])]
    BY <1>2
  <2> DEFINE g == [j \in 0..(k + 1) |-> IF j = k + 1 THEN Split(q, f[k], q.passes[k + 1]) ELSE f[j]]
  <2>2. \A j \in 0..(k + 1) : g[j] = IF j = 0 THEN Untouched ELSE Split(q, g[j - 1], q.passes[j])
    <3>1. SUFFICES ASSUME NEW j \in 0..(k + 1) PROVE g[j] = IF j = 0 THEN Untouched ELSE Split(q, g[j - 1], q.passes[j])
      OBVIOUS
    <3>2. CASE j = 0
      BY <2>1, <3>2
    <3>3. CASE j # 0 /\ j # k + 1
      <4>1. j \in 0..k /\ j - 1 \in 0..(k + 1) /\ j - 1 # k + 1
        BY <3>3
      <4>2. g[j - 1] = f[j - 1] /\ g[j] = f[j]
        BY <3>3, <4>1
      <4>3. QED
        BY <2>1, <3>3, <4>1, <4>2
    <3>4. CASE j = k + 1
      <4>1. j - 1 = k /\ k \in 0..(k + 1) /\ k # k + 1 /\ j # 0
        BY <3>4
      <4>2. g[j - 1] = f[k] /\ g[j] = Split(q, f[k], q.passes[k + 1])
        BY <3>4, <4>1
      <4>3. QED
        BY <3>4, <4>1, <4>2
    <3>5. QED
      BY <3>2, <3>3, <3>4
  <2>3. g = [j \in 0..(k + 1) |-> IF j = 0 THEN Untouched ELSE Split(q, g[j - 1], q.passes[j])]
    BY <2>2
  <2>4. \E h : h = [j \in 0..(k + 1) |-> IF j = 0 THEN Untouched ELSE Split(q, h[j - 1], q.passes[j])]
    BY <2>3
  <2>5. k + 1 \in 0..n
    BY <1>2
  <2>6. QED
    BY <2>4, <2>5
<1>3. n \in G
  <2> HIDE DEF G
  <2>1. 0..n \subseteq G
    BY <1>1, <1>2, Reaches
  <2>2. QED
    BY <2>1
<1>4. \E f : f = [j \in 0..n |-> IF j = 0 THEN Untouched ELSE Split(q, f[j - 1], q.passes[j])]
  BY <1>3
<1>5. Unfold(q) = CHOOSE f : f = [j \in 0..n |-> IF j = 0 THEN Untouched ELSE Split(q, f[j - 1], q.passes[j])]
  BY DEF Unfold
<1>6. Unfold(q) = [j \in 0..n |-> IF j = 0 THEN Untouched ELSE Split(q, Unfold(q)[j - 1], q.passes[j])]
  BY <1>4, <1>5
<1>7. ASSUME NEW k \in 0..n, k < n PROVE Unfold(q)[k + 1] = Split(q, Unfold(q)[k], q.passes[k + 1])
  <2>1. k + 1 \in 0..n /\ k + 1 # 0
    BY <1>7
  <2>2. QED
    BY <1>6, <2>1
<1>8. QED
  BY <1>6, <1>7

-----------------------------------------------------------------------------
(* Layouts and the passes planned over them.                                  *)

Slate == [target : Nat \ {0}, roster : Seq(Racers)]
LayoutTo(b, L) == DOMAIN L \in SUBSET (1..b) /\ L \in [DOMAIN L -> Slate]

LEMMA Constants ==
  /\ IsFiniteSet(Racers) /\ MinimumHeatSize \in Nat \ {0} /\ Capacity \in Nat \ {0}
  /\ FinalCapacity \in Nat \ {0} /\ MaxHeat \in Nat
BY LayoutAssumption

LEMMA LayoutSize ==
  ASSUME NEW b \in Nat, NEW L, LayoutTo(b, L)
  PROVE  /\ IsFiniteSet(DOMAIN L) /\ Cardinality(DOMAIN L) \in Nat
         /\ DOMAIN L \in SUBSET Nat /\ \A n \in DOMAIN L : n <= b
<1>1. IsFiniteSet(1..b)
  BY FS_Interval
<1>2. IsFiniteSet(DOMAIN L)
  BY <1>1, FS_Subset DEF LayoutTo
<1>3. QED
  BY <1>2, FS_CardinalityType DEF LayoutTo

FoldPasses(b) == [into : 1..b, count : Nat, from : 1..b, moved : Seq(Racers)]

\* What a fold makes of a layout.
FoldOf(b, L, into, from) ==
  /\ into \in DOMAIN L /\ from \in DOMAIN L /\ into < from
  /\ FoldPass(L) \in FoldPasses(b)
  /\ FoldPass(L) = [into |-> into, count |-> Len(L[into].roster),
                    from |-> from, moved |-> L[from].roster]
  /\ LayoutTo(b, FoldTail(L)) /\ DOMAIN FoldTail(L) = DOMAIN L \ {from}
  /\ FoldTail(L)[into].roster = L[into].roster \o L[from].roster
  /\ \A n \in DOMAIN L \ {into, from} : FoldTail(L)[n] = L[n]
  /\ Cardinality(DOMAIN FoldTail(L)) = Cardinality(DOMAIN L) - 1

LEMMA FoldTailIs ==
  ASSUME NEW b \in Nat, NEW L, LayoutTo(b, L), ~Runnable(L),
         NEW into, NEW from, into = BeforeTail(L), from = TailOf(L)
  PROVE  FoldOf(b, L, into, from)
<1>1. /\ IsFiniteSet(DOMAIN L) /\ Cardinality(DOMAIN L) \in Nat
      /\ DOMAIN L \in SUBSET Nat /\ \A n \in DOMAIN L : n <= b
  BY LayoutSize
<1>2. Cardinality(DOMAIN L) > 1
  BY <1>1 DEF Runnable
<1>3. DOMAIN L # {}
  BY <1>2, FS_EmptySet
<1>4. from \in DOMAIN L /\ \A n \in DOMAIN L : n <= from
  BY <1>1, <1>3, MaxIs DEF TailOf
<1>5. Cardinality(DOMAIN L \ {from}) = Cardinality(DOMAIN L) - 1
  BY <1>1, <1>4, FS_RemoveElement
<1>6. DOMAIN L \ {from} # {}
  BY <1>1, <1>2, <1>5, FS_EmptySet
<1>7. into \in DOMAIN L \ {from}
  BY <1>1, <1>6, MaxIs DEF BeforeTail, TailOf
<1>8. into < from
  BY <1>1, <1>4, <1>7
<1>9. /\ \A n \in DOMAIN L : L[n] \in Slate /\ n \in 1..b
      /\ L[into].roster \in Seq(Racers) /\ L[from].roster \in Seq(Racers)
  BY <1>4, <1>7 DEF LayoutTo, Slate
<1>10. FoldPass(L) = [into |-> into, count |-> Len(L[into].roster),
                      from |-> from, moved |-> L[from].roster]
  BY DEF FoldPass
<1>11. FoldPass(L) \in FoldPasses(b)
  BY <1>4, <1>7, <1>9, <1>10, LenProperties DEF FoldPasses
<1>12. FoldTail(L) = [n \in DOMAIN L \ {from} |->
                        IF n = into THEN [L[n] EXCEPT !.roster = @ \o L[from].roster] ELSE L[n]]
  BY <1>10 DEF FoldTail
<1>13. L[into].roster \o L[from].roster \in Seq(Racers)
  BY <1>9, ConcatProperties
<1>14. FoldTail(L)[into] = [L[into] EXCEPT !.roster = @ \o L[from].roster]
  BY <1>7, <1>12
<1>15. FoldTail(L)[into].roster = L[into].roster \o L[from].roster /\ FoldTail(L)[into] \in Slate
  BY <1>7, <1>9, <1>13, <1>14 DEF Slate
<1>16. \A n \in DOMAIN L \ {into, from} : FoldTail(L)[n] = L[n]
  BY <1>12
<1>17. DOMAIN FoldTail(L) = DOMAIN L \ {from}
  BY <1>12
<1>18. \A n \in DOMAIN FoldTail(L) : FoldTail(L)[n] \in Slate /\ n \in 1..b
  BY <1>9, <1>15, <1>16, <1>17
<1>19. FoldTail(L) = [n \in DOMAIN FoldTail(L) |-> FoldTail(L)[n]]
  BY <1>12
<1>20. LayoutTo(b, FoldTail(L))
  BY <1>18, <1>19 DEF LayoutTo
<1>21. QED
  BY <1>4, <1>5, <1>7, <1>8, <1>10, <1>11, <1>15, <1>16, <1>17, <1>20 DEF FoldOf

\* The passes of a plan over the layouts they lead through.
MergesOver(b, L, m) ==
  LET F == Folding(L)
  IN  /\ F[0] = L /\ \A k \in 0..m : LayoutTo(b, F[k])
      /\ \A k \in 0..m : k < m => /\ ~Runnable(F[k]) /\ F[k + 1] = FoldTail(F[k])
                                  /\ Merges(L)[k + 1] = FoldPass(F[k])
      /\ Runnable(F[m])
      /\ Merges(L) \in Seq(FoldPasses(b)) /\ Len(Merges(L)) = m

LEMMA FoldingTypes ==
  ASSUME NEW b \in Nat, NEW L, LayoutTo(b, L), NEW n \in Nat, Cardinality(DOMAIN L) = n
  PROVE  \A k \in 0..n : /\ LayoutTo(b, Folding(L)[k])
                         /\ \/ Cardinality(DOMAIN Folding(L)[k]) = n - k
                            \/ \E j \in 0..k : Runnable(Folding(L)[j])
<1> DEFINE F == Folding(L)
<1> DEFINE P == {k \in 0..n : /\ LayoutTo(b, F[k])
                              /\ \/ Cardinality(DOMAIN F[k]) = n - k
                                 \/ \E j \in 0..k : Runnable(F[j])}
<1>0. F[0] = L /\ \A k \in 0..n : k < n => F[k + 1] = FoldNext(F[k])
  BY FoldingIs
<1> HIDE DEF F
<1>1. 0 \in P
  BY <1>0
<1>2. ASSUME NEW k \in 0..n, k \in P, k < n PROVE k + 1 \in P
  <2>1. F[k + 1] = FoldNext(F[k]) /\ k + 1 \in 0..n /\ LayoutTo(b, F[k])
    BY <1>0, <1>2
  <2>2. CASE Runnable(F[k])
    <3>1. F[k + 1] = F[k] /\ k \in 0..(k + 1)
      BY <2>1, <2>2 DEF FoldNext
    <3>2. QED
      BY <2>1, <2>2, <3>1
  <2>3. CASE ~Runnable(F[k])
    <3>1. F[k + 1] = FoldTail(F[k])
      BY <2>1, <2>3 DEF FoldNext
    <3>2. /\ LayoutTo(b, F[k + 1])
          /\ Cardinality(DOMAIN F[k + 1]) = Cardinality(DOMAIN F[k]) - 1
      <4>1. /\ LayoutTo(b, FoldTail(F[k]))
            /\ Cardinality(DOMAIN FoldTail(F[k])) = Cardinality(DOMAIN F[k]) - 1
        BY <2>1, <2>3, FoldTailIs DEF FoldOf
      <4>2. QED
        BY <3>1, <4>1
    <3>3. CASE Cardinality(DOMAIN F[k]) = n - k
      <4>1. Cardinality(DOMAIN F[k + 1]) = n - (k + 1)
        BY <3>2, <3>3
      <4>2. QED
        BY <2>1, <3>2, <4>1
    <3>4. CASE \E j \in 0..k : Runnable(F[j])
      <4>1. \E j \in 0..(k + 1) : Runnable(F[j])
        BY <3>4
      <4>2. QED
        BY <2>1, <3>2, <4>1
    <3>5. QED
      BY <1>2, <3>3, <3>4
  <2>4. QED
    BY <2>2, <2>3
<1>3. \A k \in 0..n : k \in P
  <2> HIDE DEF P
  <2>1. 0..n \subseteq P
    BY <1>1, <1>2, Reaches
  <2>2. QED
    BY <2>1
<1>4. QED
  BY <1>3 DEF F

LEMMA MergesIs ==
  ASSUME NEW b \in Nat, NEW L, LayoutTo(b, L)
  PROVE  \E m \in Nat : MergesOver(b, L, m)
<1> DEFINE F == Folding(L)
<1>0. PICK n \in Nat : Cardinality(DOMAIN L) = n
  BY LayoutSize
<1>1. DOMAIN F = 0..n /\ F[0] = L /\ \A k \in 0..n : k < n => F[k + 1] = FoldNext(F[k])
  BY <1>0, FoldingIs
<1>2. \A k \in 0..n : LayoutTo(b, F[k])
  BY <1>0, FoldingTypes
<1>3. \E j \in 0..n : Runnable(F[j])
  <2>1. n \in 0..n
    OBVIOUS
  <2>2. Cardinality(DOMAIN F[n]) = n - n \/ \E j \in 0..n : Runnable(F[j])
    BY <1>0, <2>1, FoldingTypes
  <2>3. Cardinality(DOMAIN F[n]) = n - n => Runnable(F[n])
    BY DEF Runnable
  <2>4. QED
    BY <2>1, <2>2, <2>3
<1> DEFINE T == {j \in DOMAIN F : Runnable(F[j])}
<1> DEFINE m == Min(T)
<1>4. Merges(L) = [k \in 1..m |-> FoldPass(F[k - 1])]
  BY DEF Merges
<1> HIDE DEF F
<1>5. T \in SUBSET Nat /\ T # {}
  BY <1>1, <1>3
<1>6. m \in T /\ \A j \in T : m <= j
  BY <1>5, MinIs
<1>7. m \in 0..n /\ Runnable(F[m]) /\ \A k \in 0..n : k < m => ~Runnable(F[k])
  <2> HIDE DEF m
  <2>1. m \in 0..n /\ Runnable(F[m])
    BY <1>1, <1>6
  <2>2. ASSUME NEW k \in 0..n, Runnable(F[k]) PROVE m <= k
    <3>1. k \in T
      BY <1>1, <2>2
    <3>2. QED
      BY <1>6, <3>1
  <2>3. QED
    BY <2>1, <2>2
<1> HIDE DEF m, T
<1>8. ASSUME NEW k \in 0..m, k < m
      PROVE  /\ ~Runnable(F[k]) /\ F[k + 1] = FoldTail(F[k])
             /\ Merges(L)[k + 1] = FoldPass(F[k]) /\ FoldPass(F[k]) \in FoldPasses(b)
  <2>1. k \in 0..n /\ k < n /\ k + 1 \in 1..m /\ (k + 1) - 1 = k
    BY <1>7, <1>8
  <2>2. ~Runnable(F[k])
    BY <1>7, <1>8, <2>1
  <2>3. F[k + 1] = FoldTail(F[k])
    BY <1>1, <2>1, <2>2 DEF FoldNext
  <2>4. Merges(L)[k + 1] = FoldPass(F[k])
    BY <1>4, <2>1
  <2>5. FoldPass(F[k]) \in FoldPasses(b)
    BY <1>2, <2>1, <2>2, FoldTailIs DEF FoldOf
  <2>6. QED
    BY <2>2, <2>3, <2>4, <2>5
<1>9. \A i \in 1..m : Merges(L)[i] \in FoldPasses(b)
  <2>1. SUFFICES ASSUME NEW i \in 1..m PROVE Merges(L)[i] \in FoldPasses(b)
    OBVIOUS
  <2>2. i - 1 \in 0..m /\ i - 1 < m /\ (i - 1) + 1 = i
    BY <1>7
  <2>3. QED
    BY <1>8, <2>2
<1>10. Merges(L) \in [1..m -> FoldPasses(b)]
  BY <1>4, <1>9
<1>11. Merges(L) \in Seq(FoldPasses(b)) /\ Len(Merges(L)) = m
  <2>1. m \in Nat
    BY <1>7
  <2>2. Merges(L) \in Seq(FoldPasses(b))
    BY <1>10, <2>1, SeqDef
  <2>3. QED
    BY <1>10, <2>1, <2>2, LenProperties
<1>12. \A k \in 0..m : LayoutTo(b, F[k])
  BY <1>2, <1>7
<1>13. MergesOver(b, L, m) /\ m \in Nat
  BY <1>1, <1>7, <1>8, <1>11, <1>12 DEF MergesOver, F
<1>14. QED
  BY <1>13

SplitPasses ==
  {p \in [from : Nat \ {0}, keeps : Nat \ {0}, into : Nat \ {0}, moved : Seq(Racers)] :
     p.from < p.into}

\* What a split makes of a layout.
SplitOf(L, N, from, keeps, into) ==
  /\ from \in DOMAIN L /\ into \notin DOMAIN L
  /\ keeps = L[from].target /\ keeps < Len(L[from].roster)
  /\ \A n \in DOMAIN L : n < into
  /\ SplitPass(L) = [from |-> from, keeps |-> keeps, into |-> into,
                     moved |-> SubSeq(L[from].roster, keeps + 1, Len(L[from].roster))]
  /\ DOMAIN N = DOMAIN L \cup {into}
  /\ N[into] = [target |-> Capacity,
                roster |-> SubSeq(L[from].roster, keeps + 1, Len(L[from].roster))]
  /\ N[from] = [target |-> Capacity, roster |-> SubSeq(L[from].roster, 1, keeps)]
  /\ \A n \in DOMAIN L \ {from} : N[n] = L[n]

LEMMA SplitHeatIs ==
  ASSUME NEW b \in Nat, NEW L, LayoutTo(b, L), ~Restored(L)
  PROVE  /\ LayoutTo(b + 1, SplitHeat(L)) /\ SplitPass(L) \in SplitPasses
         /\ Cardinality(DOMAIN SplitHeat(L)) = Cardinality(DOMAIN L) + 1
         /\ \E from, into \in Nat \ {0}, keeps \in Nat \ {0} :
              SplitOf(L, SplitHeat(L), from, keeps, into)
<1> DEFINE from == Min(Over(L))
<1> DEFINE keeps == L[from].target
<1> DEFINE into == Max(DOMAIN L) + 1
<1> DEFINE moved == SubSeq(L[from].roster, keeps + 1, Len(L[from].roster))
<1> DEFINE N == SplitHeat(L)
<1>1. /\ IsFiniteSet(DOMAIN L) /\ Cardinality(DOMAIN L) \in Nat
      /\ DOMAIN L \in SUBSET Nat /\ \A n \in DOMAIN L : n <= b
  BY LayoutSize
<1>2. SplitPass(L) = [from |-> from, keeps |-> keeps, into |-> into, moved |-> moved]
  BY DEF SplitPass
<1>3. N = [n \in DOMAIN L \cup {into} |->
             CASE n = into -> [target |-> Capacity, roster |-> moved]
               [] n = from -> [target |-> Capacity, roster |-> SubSeq(L[n].roster, 1, keeps)]
               [] OTHER -> L[n]]
  BY <1>2 DEF SplitHeat
<1>4. Over(L) \in SUBSET Nat /\ Over(L) # {} /\ Over(L) \subseteq DOMAIN L
  BY <1>1 DEF Restored, Over
<1>5. from \in Over(L)
  BY <1>4, MinIs
<1>6. Max(DOMAIN L) \in DOMAIN L /\ \A n \in DOMAIN L : n <= Max(DOMAIN L)
  BY <1>1, <1>4, MaxIs
<1> HIDE DEF from, into, N
<1>7. \A n \in DOMAIN L : L[n] \in Slate /\ n \in 1..b
  BY DEF LayoutTo
<1>8. /\ from \in DOMAIN L /\ from \in Nat \ {0} /\ keeps \in Nat \ {0}
      /\ L[from].roster \in Seq(Racers) /\ keeps < Len(L[from].roster)
  BY <1>4, <1>5, <1>7 DEF Over, Slate
<1>9. into \in 1..(b + 1) /\ into \in Nat \ {0} /\ \A n \in DOMAIN L : n < into
  BY <1>6, <1>7 DEF into
<1>10. into \notin DOMAIN L
  BY <1>1, <1>9
<1>11. Len(L[from].roster) \in Nat /\ \A i \in 1..Len(L[from].roster) : L[from].roster[i] \in Racers
  BY <1>8, LenProperties
<1>12. moved \in Seq(Racers)
  <2>1. \A i \in (keeps + 1)..Len(L[from].roster) : L[from].roster[i] \in Racers
    BY <1>8, <1>11
  <2>2. keeps + 1 \in Int /\ Len(L[from].roster) \in Int
    BY <1>8, <1>11
  <2>3. QED
    BY <2>1, <2>2, SubSeqProperties
<1>13. SubSeq(L[from].roster, 1, keeps) \in Seq(Racers)
  <2>1. \A i \in 1..keeps : L[from].roster[i] \in Racers
    BY <1>8, <1>11
  <2>2. QED
    BY <1>8, <2>1, SubSeqProperties
<1> HIDE DEF moved, keeps
<1>14. /\ N[into] = [target |-> Capacity, roster |-> moved]
       /\ N[from] = [target |-> Capacity, roster |-> SubSeq(L[from].roster, 1, keeps)]
       /\ \A n \in DOMAIN L \ {from} : N[n] = L[n]
       /\ DOMAIN N = DOMAIN L \cup {into} /\ N = [n \in DOMAIN N |-> N[n]]
  BY <1>3, <1>8, <1>10
<1>15. \A n \in DOMAIN N : N[n] \in Slate /\ n \in 1..(b + 1)
  <2>1. N[into] \in Slate /\ N[from] \in Slate
    BY <1>12, <1>13, <1>14, Constants DEF Slate
  <2>2. \A n \in DOMAIN L : n \in 1..(b + 1)
    BY <1>7
  <2>3. QED
    BY <1>7, <1>9, <1>14, <2>1, <2>2
<1>16. LayoutTo(b + 1, N)
  BY <1>14, <1>15 DEF LayoutTo
<1>17. SplitPass(L) \in SplitPasses
  BY <1>2, <1>8, <1>9, <1>12 DEF SplitPasses
<1>18. Cardinality(DOMAIN N) = Cardinality(DOMAIN L) + 1
  BY <1>1, <1>10, <1>14, FS_AddElement
<1>19. SplitOf(L, N, from, keeps, into)
  BY <1>2, <1>8, <1>9, <1>10, <1>14 DEF SplitOf, keeps, moved
<1>20. QED
  BY <1>8, <1>9, <1>16, <1>17, <1>18, <1>19 DEF N

SplitsOver(b, L, m) ==
  LET F == Splitting(L)
  IN  /\ F[0] = L /\ \A k \in 0..m : LayoutTo(b + k, F[k])
      /\ \A k \in 0..m : k < m => /\ ~Restored(F[k]) /\ F[k + 1] = SplitHeat(F[k])
                                  /\ Splits(L)[k + 1] = SplitPass(F[k])
      /\ Restored(F[m])
      /\ Splits(L) \in Seq(SplitPasses) /\ Len(Splits(L)) = m

LEMMA SplittingTypes ==
  ASSUME NEW b \in Nat, NEW L, LayoutTo(b, L)
  PROVE  \A k \in 0..FinalCapacity :
           /\ LayoutTo(b + k, Splitting(L)[k])
           /\ \/ Cardinality(DOMAIN Splitting(L)[k]) >= k
              \/ \E j \in 0..k : Restored(Splitting(L)[j])
<1> DEFINE F == Splitting(L)
<1> DEFINE P == {k \in 0..FinalCapacity :
                   /\ LayoutTo(b + k, F[k])
                   /\ \/ Cardinality(DOMAIN F[k]) >= k
                      \/ \E j \in 0..k : Restored(F[j])}
<1>0. /\ F[0] = L /\ FinalCapacity \in Nat
      /\ \A k \in 0..FinalCapacity : k < FinalCapacity => F[k + 1] = SplitNext(F[k])
  BY SplittingIs, Constants
<1> HIDE DEF F
<1>1. 0 \in P
  <2>1. Cardinality(DOMAIN L) \in Nat
    BY LayoutSize
  <2>2. b + 0 = b
    OBVIOUS
  <2>3. QED
    BY <1>0, <2>1, <2>2
<1>2. ASSUME NEW k \in 0..FinalCapacity, k \in P, k < FinalCapacity PROVE k + 1 \in P
  <2>1. F[k + 1] = SplitNext(F[k]) /\ k + 1 \in 0..FinalCapacity /\ LayoutTo(b + k, F[k])
    BY <1>0, <1>2
  <2>2. b + k \in Nat /\ (b + k) + 1 = b + (k + 1)
    BY <1>0
  <2>3. CASE Restored(F[k])
    <3>1. F[k + 1] = F[k] /\ k \in 0..(k + 1)
      BY <2>1, <2>3 DEF SplitNext
    <3>2. LayoutTo(b + (k + 1), F[k])
      <4>1. DOMAIN F[k] \in SUBSET (1..(b + (k + 1)))
        BY <2>1, <2>2 DEF LayoutTo
      <4>2. QED
        BY <2>1, <4>1 DEF LayoutTo
    <3>3. QED
      BY <2>1, <2>3, <3>1, <3>2
  <2>4. CASE ~Restored(F[k])
    <3>1. F[k + 1] = SplitHeat(F[k])
      BY <2>1, <2>4 DEF SplitNext
    <3>2. /\ LayoutTo((b + k) + 1, SplitHeat(F[k]))
          /\ Cardinality(DOMAIN SplitHeat(F[k])) = Cardinality(DOMAIN F[k]) + 1
      BY <2>1, <2>2, <2>4, SplitHeatIs
    <3>3. LayoutTo(b + (k + 1), F[k + 1])
      BY <2>2, <3>1, <3>2
    <3>4. CASE Cardinality(DOMAIN F[k]) >= k
      <4>1. Cardinality(DOMAIN F[k]) \in Nat
        BY <2>1, <2>2, LayoutSize
      <4>2. Cardinality(DOMAIN F[k + 1]) >= k + 1
        BY <3>1, <3>2, <3>4, <4>1
      <4>3. QED
        BY <2>1, <3>3, <4>2
    <3>5. CASE \E j \in 0..k : Restored(F[j])
      <4>1. \E j \in 0..(k + 1) : Restored(F[j])
        BY <3>5
      <4>2. QED
        BY <2>1, <3>3, <4>1
    <3>6. QED
      BY <1>2, <3>4, <3>5
  <2>5. QED
    BY <2>3, <2>4
<1>3. \A k \in 0..FinalCapacity : k \in P
  <2> HIDE DEF P
  <2>1. 0..FinalCapacity \subseteq P
    BY <1>0, <1>1, <1>2, Reaches
  <2>2. QED
    BY <2>1
<1>4. QED
  BY <1>3 DEF F

LEMMA SplitsIs ==
  ASSUME NEW b \in Nat, NEW L, LayoutTo(b, L)
  PROVE  \E m \in Nat : SplitsOver(b, L, m)
<1> DEFINE F == Splitting(L)
<1> DEFINE n == FinalCapacity
<1>1. /\ DOMAIN F = 0..n /\ F[0] = L /\ \A k \in 0..n : k < n => F[k + 1] = SplitNext(F[k])
      /\ n \in Nat
  BY SplittingIs, Constants
<1>2. \A k \in 0..n : LayoutTo(b + k, F[k])
  BY SplittingTypes
<1>3. \E j \in 0..n : Restored(F[j])
  <2>1. n \in 0..n
    BY <1>1
  <2>2. Cardinality(DOMAIN F[n]) >= n \/ \E j \in 0..n : Restored(F[j])
    BY <2>1, SplittingTypes
  <2>3. Cardinality(DOMAIN F[n]) >= n => Restored(F[n])
    BY DEF Restored
  <2>4. QED
    BY <2>1, <2>2, <2>3
<1> DEFINE T == {j \in DOMAIN F : Restored(F[j])}
<1> DEFINE m == Min(T)
<1>4. Splits(L) = [k \in 1..m |-> SplitPass(F[k - 1])]
  BY DEF Splits
<1> HIDE DEF F, n
<1>5. T \in SUBSET Nat /\ T # {}
  BY <1>1, <1>3
<1>6. m \in T /\ \A j \in T : m <= j
  BY <1>5, MinIs
<1>7. m \in 0..n /\ Restored(F[m]) /\ \A k \in 0..n : k < m => ~Restored(F[k])
  <2> HIDE DEF m
  <2>1. m \in 0..n /\ Restored(F[m])
    BY <1>1, <1>6
  <2>2. ASSUME NEW k \in 0..n, Restored(F[k]) PROVE m <= k
    <3>1. k \in T
      BY <1>1, <2>2
    <3>2. QED
      BY <1>6, <3>1
  <2>3. QED
    BY <1>1, <2>1, <2>2
<1> HIDE DEF m, T
<1>8. ASSUME NEW k \in 0..m, k < m
      PROVE  /\ ~Restored(F[k]) /\ F[k + 1] = SplitHeat(F[k])
             /\ Splits(L)[k + 1] = SplitPass(F[k]) /\ SplitPass(F[k]) \in SplitPasses
  <2>1. k \in 0..n /\ k < n /\ k + 1 \in 1..m /\ (k + 1) - 1 = k /\ b + k \in Nat
    BY <1>1, <1>7, <1>8
  <2>2. ~Restored(F[k])
    BY <1>7, <1>8, <2>1
  <2>3. F[k + 1] = SplitHeat(F[k])
    BY <1>1, <2>1, <2>2 DEF SplitNext
  <2>4. Splits(L)[k + 1] = SplitPass(F[k])
    BY <1>4, <2>1
  <2>5. SplitPass(F[k]) \in SplitPasses
    BY <1>2, <2>1, <2>2, SplitHeatIs
  <2>6. QED
    BY <2>2, <2>3, <2>4, <2>5
<1>9. \A i \in 1..m : Splits(L)[i] \in SplitPasses
  <2>1. SUFFICES ASSUME NEW i \in 1..m PROVE Splits(L)[i] \in SplitPasses
    OBVIOUS
  <2>2. i - 1 \in 0..m /\ i - 1 < m /\ (i - 1) + 1 = i
    BY <1>1, <1>7
  <2>3. QED
    BY <1>8, <2>2
<1>10. Splits(L) \in [1..m -> SplitPasses]
  BY <1>4, <1>9
<1>11. Splits(L) \in Seq(SplitPasses) /\ Len(Splits(L)) = m
  <2>1. m \in Nat
    BY <1>1, <1>7
  <2>2. Splits(L) \in Seq(SplitPasses)
    BY <1>10, <2>1, SeqDef
  <2>3. QED
    BY <1>10, <2>1, <2>2, LenProperties
<1>12. \A k \in 0..m : LayoutTo(b + k, F[k])
  BY <1>1, <1>2, <1>7
<1>13. SplitsOver(b, L, m) /\ m \in Nat
  BY <1>1, <1>7, <1>8, <1>11, <1>12 DEF SplitsOver, F
<1>14. QED
  BY <1>13

-----------------------------------------------------------------------------
(* Transactions leave sound heats, whatever they were planned against.        *)

Rows == {NoHeat} \cup [status : {"PLANNED", "LOADING"}, target : Nat \ {0}]
Places == [Racers -> [heat : Nat, slot : Nat]]

Sound(hs, ps) ==
  /\ hs \in [Numbers -> Rows] /\ Cardinality(Heats(hs)) <= FinalCapacity
  /\ ps \in Places /\ Distinct(ps)
  /\ \A r \in Racers : ps[r] = Nowhere \/ (ps[r].heat \in Heats(hs) /\ ps[r].slot # 0)

Unlocked(hs) == \A n \in Numbers : hs[n].status # "LOADING"
SamePlaced(ps, qs) == \A r \in Racers : qs[r] = Nowhere <=> ps[r] = Nowhere
\* The heats hs with their places ps may become ks and qs.
Follows(hs, ps, ks, qs) ==
  Sound(ks, qs) /\ (Unlocked(hs) => Unlocked(ks)) /\ SamePlaced(ps, qs)

LEMMA HeatsFinite ==
  ASSUME NEW hs
  PROVE  /\ Heats(hs) \in SUBSET Numbers /\ IsFiniteSet(Heats(hs))
         /\ Cardinality(Heats(hs)) \in Nat
<1>1. IsFiniteSet(Numbers)
  BY Constants, FS_Interval DEF Numbers
<1>2. Heats(hs) \in SUBSET Numbers
  BY DEF Heats
<1>3. QED
  BY <1>1, <1>2, FS_Subset, FS_CardinalityType

LEMMA InFinite ==
  ASSUME NEW ps, NEW n
  PROVE  /\ In(ps, n) \in SUBSET Racers /\ IsFiniteSet(In(ps, n))
         /\ Size(ps, n) \in Nat /\ Size(ps, n) = Cardinality(In(ps, n))
         /\ Size(ps, n) = 0 <=> In(ps, n) = {}
<1>1. In(ps, n) \in SUBSET Racers
  BY DEF In
<1>2. IsFiniteSet(In(ps, n))
  BY <1>1, Constants, FS_Subset
<1>3. Size(ps, n) = Cardinality(In(ps, n))
  BY DEF Size
<1>4. QED
  BY <1>1, <1>2, <1>3, FS_CardinalityType, FS_EmptySet

\* N is what the moves make of the places ps.
MovedTo(q, ps, moved, from, into, base, N) ==
  /\ N \in Places
  /\ \A r \in Racers :
       \/ N[r] = ps[r]
       \/ /\ ps[r].heat = from
          /\ \E i \in 1..Len(moved) : moved[i] = r /\ N[r] = [heat |-> into, slot |-> base + i]
  /\ \A i \in 1..Len(moved) :
       (/\ \A j \in 1..Len(moved) : moved[j] = moved[i] => j = i
        /\ q.stale = {} /\ q.dead = {} /\ ps[moved[i]].heat = from)
       => N[moved[i]] = [heat |-> into, slot |-> base + i]

LEMMA MovesIs ==
  ASSUME NEW q, NEW ps \in Places, NEW moved \in Seq(Racers), NEW from \in Nat,
         NEW into \in Nat, NEW base \in Nat
  PROVE  MovedTo(q, ps, moved, from, into, base, Moves(q, ps, moved, from, into, base))
<1> DEFINE at(r) == {i \in 1..Len(moved) : moved[i] = r}
<1> DEFINE N == Moves(q, ps, moved, from, into, base)
<1> DEFINE goes(r) == at(r) # {} /\ r \notin q.stale /\ ps[r].heat = from /\ from \notin q.dead
<1>1. N = [r \in Racers |-> IF goes(r) THEN [heat |-> into, slot |-> base + Min(at(r))] ELSE ps[r]]
  BY DEF Moves
<1>2. Len(moved) \in Nat /\ \A i \in 1..Len(moved) : moved[i] \in Racers
  BY LenProperties
<1>3. ASSUME NEW r \in Racers, at(r) # {} PROVE Min(at(r)) \in 1..Len(moved) /\ moved[Min(at(r))] = r
  <2>1. at(r) \in SUBSET Nat
    BY <1>2
  <2>2. Min(at(r)) \in at(r)
    BY <1>3, <2>1, MinIs
  <2>3. QED
    BY <2>2
<1> HIDE DEF N, at
<1>4. ASSUME NEW r \in Racers
      PROVE  /\ N[r] \in [heat : Nat, slot : Nat]
             /\ \/ N[r] = ps[r]
                \/ /\ ps[r].heat = from
                   /\ \E i \in 1..Len(moved) : moved[i] = r /\ N[r] = [heat |-> into, slot |-> base + i]
  <2>1. CASE goes(r)
    <3>1. N[r] = [heat |-> into, slot |-> base + Min(at(r))]
      BY <1>1, <2>1
    <3>2. Min(at(r)) \in 1..Len(moved) /\ moved[Min(at(r))] = r
      BY <1>3, <2>1
    <3>3. Min(at(r)) \in Nat
      BY <1>2, <3>2
    <3>4. QED
      BY <2>1, <3>1, <3>2, <3>3
  <2>2. CASE ~goes(r)
    <3>1. N[r] = ps[r]
      BY <1>1, <2>2
    <3>2. QED
      BY <3>1 DEF Places
  <2>3. QED
    BY <2>1, <2>2
<1>5. ASSUME NEW i \in 1..Len(moved),
             \A j \in 1..Len(moved) : moved[j] = moved[i] => j = i,
             q.stale = {}, q.dead = {}, ps[moved[i]].heat = from
      PROVE  N[moved[i]] = [heat |-> into, slot |-> base + i]
  <2>1. at(moved[i]) # {} /\ moved[i] \in Racers
    BY <1>2 DEF at
  <2>2. goes(moved[i])
    BY <1>5, <2>1
  <2>3. Min(at(moved[i])) = i
    BY <1>3, <1>5, <2>1
  <2>4. QED
    BY <1>1, <2>1, <2>2, <2>3
<1>6. N \in Places
  BY <1>1, <1>4 DEF Places
<1>7. QED
  BY <1>4, <1>5, <1>6 DEF N, MovedTo

LEMMA MergeSound ==
  ASSUME NEW q, NEW b, NEW pass \in FoldPasses(MaxHeat), Sound(b.heat, b.place),
         Merge(q, b, pass).ok
  PROVE  b.ok /\ Follows(b.heat, b.place, Merge(q, b, pass).heat, Merge(q, b, pass).place)
<1> DEFINE claims == Live(q, b.heat, pass.into)
<1> DEFINE size == Size(b.place, pass.into)
<1> DEFINE ps == IF claims
                 THEN Moves(q, b.place, pass.moved, pass.from, pass.into, pass.count)
                 ELSE b.place
<1> DEFINE deletes == Live(q, b.heat, pass.from)
<1> DEFINE claimed == IF claims THEN [b.heat EXCEPT ![pass.into].target = size] ELSE b.heat
<1> DEFINE hs == IF deletes THEN [claimed EXCEPT ![pass.from] = NoHeat] ELSE claimed
<1>1. /\ Merge(q, b, pass).place = ps /\ Merge(q, b, pass).heat = hs
      /\ b.ok /\ Distinct(ps)
      /\ claims => size > 0
      /\ deletes => In(ps, pass.from) = {}
  BY DEF Merge
<1>2. /\ pass.into \in Numbers /\ pass.from \in Numbers /\ pass.count \in Nat
      /\ pass.moved \in Seq(Racers) /\ pass.into \in Nat \ {0} /\ pass.from \in Nat
  BY Constants DEF FoldPasses, Numbers
<1>3. size \in Nat
  BY InFinite
<1>4. b.heat \in [Numbers -> Rows] /\ b.place \in Places
  BY DEF Sound
<1>5. ps \in Places
      /\ \A r \in Racers : \/ ps[r] = b.place[r]
                           \/ /\ claims /\ ps[r].heat = pass.into /\ ps[r].slot # 0
                              /\ b.place[r].heat = pass.from
  <2>1. CASE claims
    <3> DEFINE N == Moves(q, b.place, pass.moved, pass.from, pass.into, pass.count)
    <3>1. ps = N
      BY <2>1
    <3>2. MovedTo(q, b.place, pass.moved, pass.from, pass.into, pass.count, N)
      BY <1>2, <1>4, MovesIs
    <3> HIDE DEF N
    <3>3. \A i \in 1..Len(pass.moved) : pass.count + i # 0
      BY <1>2, LenProperties
    <3>4. ps \in Places
      BY <3>1, <3>2 DEF MovedTo
    <3>5. ASSUME NEW r \in Racers, ps[r] # b.place[r]
          PROVE  ps[r].heat = pass.into /\ ps[r].slot # 0 /\ b.place[r].heat = pass.from
      <4>1. PICK i \in 1..Len(pass.moved) : ps[r] = [heat |-> pass.into, slot |-> pass.count + i]
        BY <3>1, <3>2, <3>5 DEF MovedTo
      <4>2. b.place[r].heat = pass.from
        BY <3>1, <3>2, <3>5 DEF MovedTo
      <4>3. QED
        BY <3>3, <4>1, <4>2
    <3>6. QED
      BY <2>1, <3>4, <3>5
  <2>2. CASE ~claims
    BY <1>4, <2>2
  <2>3. QED
    BY <2>1, <2>2
<1> HIDE DEF size, ps
<1>6. claimed \in [Numbers -> Rows] /\ Heats(claimed) = Heats(b.heat)
      /\ (Unlocked(b.heat) => Unlocked(claimed))
  <2>1. CASE claims
    <3>1. b.heat[pass.into].status = "PLANNED" /\ b.heat[pass.into] \in Rows
      BY <1>2, <1>4, <2>1 DEF Live
    <3>2. [b.heat[pass.into] EXCEPT !.target = size] \in Rows
          /\ [b.heat[pass.into] EXCEPT !.target = size].status = "PLANNED"
      BY <1>1, <1>3, <2>1, <3>1 DEF Rows, NoHeat
    <3>3. claimed = [b.heat EXCEPT ![pass.into] = [b.heat[pass.into] EXCEPT !.target = size]]
      BY <1>2, <1>4, <2>1
    <3>4. QED
      BY <1>2, <1>4, <3>1, <3>2, <3>3 DEF Heats, Unlocked
  <2>2. CASE ~claims
    BY <1>4, <2>2
  <2>3. QED
    BY <2>1, <2>2
<1> HIDE DEF claimed
<1>7. /\ hs \in [Numbers -> Rows] /\ Heats(hs) \in SUBSET Heats(b.heat)
      /\ \A n \in Heats(b.heat) : n \in Heats(hs) \/ (deletes /\ n = pass.from)
      /\ (Unlocked(claimed) => Unlocked(hs))
  <2>1. NoHeat \in Rows /\ NoHeat.status = "none"
    BY DEF Rows, NoHeat
  <2>2. QED
    BY <1>2, <1>6, <2>1 DEF Heats, Unlocked
<1> HIDE DEF hs
<1>8. Cardinality(Heats(hs)) <= FinalCapacity
  <2>1. Cardinality(Heats(hs)) <= Cardinality(Heats(b.heat))
    BY <1>7, HeatsFinite, FS_Subset
  <2>2. QED
    BY <2>1, HeatsFinite, Constants DEF Sound
<1>9. ASSUME NEW r \in Racers
      PROVE  ps[r] = Nowhere \/ (ps[r].heat \in Heats(hs) /\ ps[r].slot # 0)
  <2>1. ps[r] = Nowhere \/ (ps[r].heat \in Heats(b.heat) /\ ps[r].slot # 0)
    <3>1. claims => pass.into \in Heats(b.heat)
      BY <1>2 DEF Live, Heats
    <3>2. QED
      BY <1>5, <3>1 DEF Sound
  <2>2. deletes => ps[r].heat # pass.from
    BY <1>1 DEF In
  <2>3. QED
    BY <1>7, <2>1, <2>2
<1>10. Sound(hs, ps)
  BY <1>1, <1>5, <1>7, <1>8, <1>9 DEF Sound
<1>11. SamePlaced(b.place, ps)
  <2>1. pass.into # 0 /\ pass.from # 0
    BY <1>2, Constants DEF Numbers
  <2>2. Nowhere.heat = 0
    BY DEF Nowhere
  <2>3. QED
    BY <1>5, <2>1, <2>2 DEF SamePlaced
<1>12. Follows(b.heat, b.place, hs, ps)
  <2>1. Unlocked(b.heat) => Unlocked(hs)
    BY <1>6, <1>7
  <2>2. QED
    BY <1>10, <1>11, <2>1 DEF Follows
<1>13. QED
  BY <1>1, <1>12

LEMMA SplitSound ==
  ASSUME NEW q, NEW b, NEW pass \in SplitPasses, pass.into \in Numbers,
         Sound(b.heat, b.place), Split(q, b, pass).ok
  PROVE  b.ok /\ Follows(b.heat, b.place, Split(q, b, pass).heat, Split(q, b, pass).place)
<1> DEFINE inserts == SplitFits(q, b, pass)
<1> DEFINE ps == Moves(q, b.place, pass.moved, pass.from, pass.into, 0)
<1> DEFINE returned == IF Live(q, b.heat, pass.from)
                       THEN [b.heat EXCEPT ![pass.from].target = Capacity] ELSE b.heat
<1> DEFINE hs == IF inserts THEN [returned EXCEPT ![pass.into] = Planned(Capacity)] ELSE returned
<1>1. /\ Split(q, b, pass).place = ps /\ Split(q, b, pass).heat = hs
      /\ b.ok /\ Distinct(ps)
      /\ inserts => b.heat[pass.into] = NoHeat
      /\ ps # b.place => inserts
  BY DEF Split
<1>2. /\ pass.into \in Numbers /\ pass.from \in Numbers /\ pass.moved \in Seq(Racers)
      /\ pass.into \in Nat /\ pass.from \in Nat /\ pass.into # pass.from
  BY Constants DEF SplitPasses, Numbers
<1>3. b.heat \in [Numbers -> Rows] /\ b.place \in Places
  BY DEF Sound
<1>4. MovedTo(q, b.place, pass.moved, pass.from, pass.into, 0, ps)
  BY <1>2, <1>3, MovesIs
<1> HIDE DEF ps
<1>5. ps \in Places
      /\ \A r \in Racers : \/ ps[r] = b.place[r]
                           \/ /\ ps[r].heat = pass.into /\ ps[r].slot # 0
                              /\ b.place[r].heat = pass.from
  <2>1. ps \in Places
    BY <1>4 DEF MovedTo
  <2>2. ASSUME NEW r \in Racers, ps[r] # b.place[r]
        PROVE  ps[r].heat = pass.into /\ ps[r].slot # 0 /\ b.place[r].heat = pass.from
    <3>1. PICK i \in 1..Len(pass.moved) : ps[r] = [heat |-> pass.into, slot |-> 0 + i]
      BY <1>4, <2>2 DEF MovedTo
    <3>2. 0 + i # 0
      BY <1>2, LenProperties
    <3>3. b.place[r].heat = pass.from
      BY <1>4, <2>2 DEF MovedTo
    <3>4. QED
      BY <3>1, <3>2, <3>3
  <2>3. QED
    BY <2>1, <2>2
<1>6. returned \in [Numbers -> Rows] /\ Heats(returned) = Heats(b.heat)
      /\ (inserts => returned[pass.into] = NoHeat)
      /\ (Unlocked(b.heat) => Unlocked(returned))
  <2>1. CASE Live(q, b.heat, pass.from)
    <3>1. b.heat[pass.from].status = "PLANNED" /\ b.heat[pass.from] \in Rows
      BY <1>2, <1>3, <2>1 DEF Live
    <3>2. [b.heat[pass.from] EXCEPT !.target = Capacity] \in Rows
          /\ [b.heat[pass.from] EXCEPT !.target = Capacity].status = "PLANNED"
      BY <3>1, Constants DEF Rows, NoHeat
    <3>3. returned = [b.heat EXCEPT ![pass.from] = [b.heat[pass.from] EXCEPT !.target = Capacity]]
      BY <1>2, <1>3, <2>1
    <3>4. QED
      BY <1>1, <1>2, <1>3, <3>1, <3>2, <3>3 DEF Heats, Unlocked
  <2>2. CASE ~Live(q, b.heat, pass.from)
    BY <1>1, <1>3, <2>2
  <2>3. QED
    BY <2>1, <2>2
<1> HIDE DEF returned
<1>b. SamePlaced(b.place, ps)
  <2>1. pass.into # 0 /\ pass.from # 0
    BY <1>2, Constants DEF Numbers
  <2>2. Nowhere.heat = 0
    BY DEF Nowhere
  <2>3. QED
    BY <1>5, <2>1, <2>2 DEF SamePlaced
<1>7. CASE inserts
  <2>1. /\ Planned(Capacity) \in Rows /\ Planned(Capacity).status = "PLANNED"
        /\ NoHeat.status = "none"
    BY Constants DEF Rows, Planned, NoHeat
  <2>2. /\ hs \in [Numbers -> Rows] /\ Heats(hs) = Heats(b.heat) \cup {pass.into}
        /\ pass.into \notin Heats(b.heat) /\ (Unlocked(returned) => Unlocked(hs))
    BY <1>2, <1>6, <1>7, <2>1 DEF Heats, Unlocked
  <2> HIDE DEF hs
  <2>3. Cardinality(Heats(hs)) = Cardinality(Heats(b.heat)) + 1
    BY <2>2, HeatsFinite, FS_AddElement
  <2>4. Cardinality(Heats(b.heat)) < FinalCapacity
    BY <1>7 DEF SplitFits
  <2>5. Cardinality(Heats(hs)) <= FinalCapacity
    BY <2>3, <2>4, HeatsFinite, Constants
  <2>6. ASSUME NEW r \in Racers
        PROVE  ps[r] = Nowhere \/ (ps[r].heat \in Heats(hs) /\ ps[r].slot # 0)
    BY <1>5, <2>2 DEF Sound
  <2>7. Sound(hs, ps)
    BY <1>1, <1>5, <2>2, <2>5, <2>6 DEF Sound
  <2>8. QED
    BY <1>1, <1>6, <1>b, <2>2, <2>7 DEF Follows
<1>8. CASE ~inserts
  <2>1. ps = b.place /\ hs = returned
    BY <1>1, <1>8
  <2>2. Sound(hs, ps)
    BY <1>1, <1>6, <2>1 DEF Sound
  <2>3. QED
    BY <1>1, <1>6, <1>b, <2>1, <2>2 DEF Follows
<1>9. QED
  BY <1>7, <1>8

\* The transactions of a closing and of a reopening.
CloseRequests == [op : {"close"}, passes : Seq(FoldPasses(MaxHeat)),
                  dead : SUBSET Numbers, stale : SUBSET Racers]
ReopenRequests ==
  {q \in [op : {"reopen"}, passes : Seq(SplitPasses), dead : SUBSET Numbers,
          stale : SUBSET Racers] : \A i \in 1..Len(q.passes) : q.passes[i].into \in Numbers}

LEMMA FoldedSound ==
  ASSUME NEW q \in CloseRequests, Sound(heat, place), Folded(q).ok
  PROVE  Follows(heat, place, Folded(q).heat, Folded(q).place)
<1> DEFINE n == Len(q.passes)
<1> DEFINE run == Fold(q)
<1>1. n \in Nat /\ \A i \in 1..n : q.passes[i] \in FoldPasses(MaxHeat)
  BY LenProperties DEF CloseRequests
<1>2. run[0] = Untouched /\ \A k \in 0..n : k < n => run[k + 1] = Merge(q, run[k], q.passes[k + 1])
  BY <1>1, FoldIs
<1>3. Folded(q) = run[n]
  BY DEF Folded
<1> HIDE DEF n, run
<1> DEFINE P == {k \in 0..n : run[k].ok => Follows(heat, place, run[k].heat, run[k].place)}
<1>4. 0 \in P
  BY <1>1, <1>2 DEF Untouched, Follows, SamePlaced
<1>5. ASSUME NEW k \in 0..n, k \in P, k < n PROVE k + 1 \in P
  <2>1. k + 1 \in 0..n /\ k + 1 \in 1..n
    BY <1>1, <1>5
  <2>2. run[k + 1] = Merge(q, run[k], q.passes[k + 1])
    BY <1>2, <1>5
  <2>3. q.passes[k + 1] \in FoldPasses(MaxHeat)
    BY <1>1, <2>1
  <2>4. SUFFICES ASSUME run[k + 1].ok
                 PROVE  Follows(heat, place, run[k + 1].heat, run[k + 1].place)
    BY <2>1
  <2>5. Merge(q, run[k], q.passes[k + 1]).ok
    BY <2>2, <2>4
  <2>6. run[k].ok
    BY <2>5 DEF Merge
  <2>7. Follows(heat, place, run[k].heat, run[k].place)
    BY <1>5, <2>6
  <2> DEFINE next == Merge(q, run[k], q.passes[k + 1])
  <2>8. Follows(run[k].heat, run[k].place, next.heat, next.place)
    BY <2>3, <2>5, <2>7, MergeSound DEF Follows
  <2>9. QED
    BY <2>2, <2>7, <2>8 DEF Follows, SamePlaced
<1>6. 0..n \subseteq P
  <2> HIDE DEF P
  <2>1. QED
    BY <1>1, <1>4, <1>5, Reaches
<1>7. QED
  BY <1>1, <1>3, <1>6

LEMMA UnfoldedSound ==
  ASSUME NEW q \in ReopenRequests, Sound(heat, place), Unfolded(q).ok
  PROVE  Follows(heat, place, Unfolded(q).heat, Unfolded(q).place)
<1> DEFINE n == Len(q.passes)
<1> DEFINE run == Unfold(q)
<1>1. /\ n \in Nat
      /\ \A i \in 1..n : q.passes[i] \in SplitPasses /\ q.passes[i].into \in Numbers
  BY LenProperties DEF ReopenRequests
<1>2. run[0] = Untouched /\ \A k \in 0..n : k < n => run[k + 1] = Split(q, run[k], q.passes[k + 1])
  BY <1>1, UnfoldIs
<1>3. Unfolded(q) = run[n]
  BY DEF Unfolded
<1> HIDE DEF n, run
<1> DEFINE P == {k \in 0..n : run[k].ok => Follows(heat, place, run[k].heat, run[k].place)}
<1>4. 0 \in P
  BY <1>1, <1>2 DEF Untouched, Follows, SamePlaced
<1>5. ASSUME NEW k \in 0..n, k \in P, k < n PROVE k + 1 \in P
  <2>1. k + 1 \in 0..n /\ k + 1 \in 1..n
    BY <1>1, <1>5
  <2>2. run[k + 1] = Split(q, run[k], q.passes[k + 1])
    BY <1>2, <1>5
  <2>3. q.passes[k + 1] \in SplitPasses /\ q.passes[k + 1].into \in Numbers
    BY <1>1, <2>1
  <2>4. SUFFICES ASSUME run[k + 1].ok
                 PROVE  Follows(heat, place, run[k + 1].heat, run[k + 1].place)
    BY <2>1
  <2>5. Split(q, run[k], q.passes[k + 1]).ok
    BY <2>2, <2>4
  <2>6. run[k].ok
    BY <2>5 DEF Split
  <2>7. Follows(heat, place, run[k].heat, run[k].place)
    BY <1>5, <2>6
  <2> DEFINE next == Split(q, run[k], q.passes[k + 1])
  <2>8. Follows(run[k].heat, run[k].place, next.heat, next.place)
    BY <2>3, <2>5, <2>7, SplitSound DEF Follows
  <2>9. QED
    BY <2>2, <2>7, <2>8 DEF Follows, SamePlaced
<1>6. 0..n \subseteq P
  <2> HIDE DEF P
  <2>1. QED
    BY <1>1, <1>4, <1>5, Reaches
<1>7. QED
  BY <1>1, <1>3, <1>6

-----------------------------------------------------------------------------
(* Rosters, layouts and lineups of sound heats.                               *)

LEMMA SlottedIn ==
  ASSUME NEW ps \in Places, Distinct(ps), NEW S \in SUBSET Racers, NEW n \in Nat \ {0},
         \A r \in S : ps[r].heat = n
  PROVE  Slotted(S, ps) /\ IsFiniteSet(S)
<1>1. \A r \in Racers : ps[r] \in [heat : Nat, slot : Nat]
  BY DEF Places
<1>2. ASSUME NEW r \in S, NEW s \in S, ps[r].slot = ps[s].slot PROVE r = s
  <2>1. ps[r] = [heat |-> n, slot |-> ps[r].slot] /\ ps[s] = [heat |-> n, slot |-> ps[s].slot]
    BY <1>1
  <2>2. ps[r] = ps[s] /\ ps[r].heat # 0
    BY <1>2, <2>1
  <2>3. QED
    BY <2>2 DEF Distinct
<1>3. IsFiniteSet(S)
  BY Constants, FS_Subset
<1>4. QED
  BY <1>1, <1>2, <1>3 DEF Slotted

LEMMA RosterIs ==
  ASSUME NEW ps \in Places, Distinct(ps), NEW S \in SUBSET Racers, NEW n \in Nat \ {0},
         \A r \in S : ps[r].heat = n
  PROVE  /\ InOrder(S, ps) \in Seq(Racers) /\ Len(InOrder(S, ps)) = Cardinality(S)
         /\ \A i \in 1..Len(InOrder(S, ps)) : InOrder(S, ps)[i] \in S
         /\ \A r \in S : \E i \in 1..Len(InOrder(S, ps)) : InOrder(S, ps)[i] = r
         /\ \A i, j \in 1..Len(InOrder(S, ps)) :
              i < j <=> ps[InOrder(S, ps)[i]].slot < ps[InOrder(S, ps)[j]].slot
<1>1. Slotted(S, ps) /\ IsFiniteSet(S)
  BY SlottedIn
<1>2. /\ Cardinality(S) \in Nat
      /\ InOrder(S, ps) \in [1..Cardinality(S) -> S]
      /\ \A r \in S : \E i \in 1..Cardinality(S) : InOrder(S, ps)[i] = r
      /\ \A i, j \in 1..Cardinality(S) :
           i < j <=> ps[InOrder(S, ps)[i]].slot < ps[InOrder(S, ps)[j]].slot
  BY <1>1, InOrderIs
<1> DEFINE seq == InOrder(S, ps)
<1> HIDE DEF seq
<1>3. seq \in [1..Cardinality(S) -> Racers]
  BY <1>2 DEF seq
<1>4. seq \in Seq(Racers)
  BY <1>2, <1>3, SeqDef
<1>5. Len(seq) = Cardinality(S)
  BY <1>2, <1>3, <1>4, LenProperties
<1>6. QED
  BY <1>2, <1>4, <1>5 DEF seq

LEMMA LayoutIs ==
  ASSUME Sound(heat, place)
  PROVE  /\ LayoutTo(MaxHeat, Layout)
         /\ DOMAIN Layout = {n \in Numbers : heat[n].status = "PLANNED"}
         /\ \A n \in DOMAIN Layout : /\ Layout[n].target = heat[n].target
                                     /\ Layout[n].roster = Roster(place, n)
<1>1. Layout = [n \in {m \in Numbers : heat[m].status = "PLANNED"} |->
                  [target |-> heat[n].target, roster |-> Roster(place, n)]]
  BY DEF Layout
<1>2. ASSUME NEW n \in Numbers, heat[n].status = "PLANNED" PROVE heat[n].target \in Nat \ {0}
  <2>1. heat[n] \in Rows
    BY DEF Sound
  <2>2. QED
    BY <1>2, <2>1 DEF Rows, NoHeat
<1>3. ASSUME NEW n \in Numbers PROVE Roster(place, n) \in Seq(Racers)
  <2>1. n \in Nat \ {0} /\ In(place, n) \in SUBSET Racers /\ \A r \in In(place, n) : place[r].heat = n
    BY Constants DEF Numbers, In
  <2>2. QED
    BY <2>1, RosterIs DEF Roster, Sound
<1> HIDE DEF Layout
<1>4. /\ DOMAIN Layout = {n \in Numbers : heat[n].status = "PLANNED"}
      /\ \A n \in DOMAIN Layout : /\ Layout[n].target = heat[n].target
                                  /\ Layout[n].roster = Roster(place, n)
                                  /\ Layout[n] \in Slate
  BY <1>1, <1>2, <1>3 DEF Slate
<1>5. LayoutTo(MaxHeat, Layout)
  BY <1>1, <1>4 DEF LayoutTo, Numbers
<1>6. QED
  BY <1>4, <1>5

LEMMA PlansAreTyped ==
  ASSUME Sound(heat, place)
  PROVE  Merges(Layout) \in Seq(FoldPasses(MaxHeat)) /\ Splits(Layout) \in Seq(SplitPasses)
<1>1. LayoutTo(MaxHeat, Layout) /\ MaxHeat \in Nat
  BY LayoutIs, Constants
<1>2. PICK m \in Nat : MergesOver(MaxHeat, Layout, m)
  BY <1>1, MergesIs
<1>3. PICK k \in Nat : SplitsOver(MaxHeat, Layout, k)
  BY <1>1, SplitsIs
<1>4. QED
  BY <1>2, <1>3 DEF MergesOver, SplitsOver

\* The new rosters of heat n: who may race, in the order of their places, and at
\* most one more at the end.
LineupOf(n, ids) ==
  /\ ids \in Seq(Racers)
  /\ \A i \in 1..Len(ids) : /\ MayRace(ids[i])
                            /\ place[ids[i]] = Nowhere \/ place[ids[i]].heat = n
  /\ \A i, j \in 1..Len(ids) : ids[i] = ids[j] => i = j
  /\ \A i, j \in 1..Len(ids) :
       place[ids[i]].heat = n /\ place[ids[j]].heat = n
       => (i < j <=> place[ids[i]].slot < place[ids[j]].slot)

LEMMA LineupsAre ==
  ASSUME place \in Places, Distinct(place), NEW n \in Numbers, NEW ids \in Lineups(n)
  PROVE  LineupOf(n, ids)
<1> DEFINE stay == {r \in In(place, n) : MayRace(r)}
<1>0. n \in Nat \ {0}
  BY Constants DEF Numbers
<1>1. ASSUME NEW S \in SUBSET stay
      PROVE  /\ LineupOf(n, InOrder(S, place))
             /\ \A i \in 1..Len(InOrder(S, place)) : InOrder(S, place)[i] \in S
  <2> DEFINE seq == InOrder(S, place)
  <2>1. S \in SUBSET Racers /\ \A r \in S : place[r].heat = n /\ MayRace(r)
    BY DEF In
  <2>2. /\ seq \in Seq(Racers)
        /\ \A i \in 1..Len(seq) : seq[i] \in S
        /\ \A i, j \in 1..Len(seq) : i < j <=> place[seq[i]].slot < place[seq[j]].slot
    BY <1>0, <2>1, RosterIs
  <2> HIDE DEF seq
  <2>3. Len(seq) \in Nat
    BY <2>2, LenProperties
  <2>4. ASSUME NEW i \in 1..Len(seq), NEW j \in 1..Len(seq), seq[i] = seq[j] PROVE i = j
    <3>1. place[seq[i]].slot \in Nat
      BY <2>1, <2>2 DEF Places
    <3>2. ~(i < j) /\ ~(j < i)
      BY <2>2, <2>4, <3>1
    <3>3. QED
      BY <2>3, <3>2
  <2>5. LineupOf(n, seq)
    BY <2>1, <2>2, <2>4 DEF LineupOf
  <2>6. QED
    BY <2>2, <2>5 DEF seq
<1>2. CASE \E S \in SUBSET stay : ids = InOrder(S, place)
  BY <1>1, <1>2
<1>3. ASSUME NEW r \in Racers, place[r] = Nowhere, MayRace(r), ids = Append(InOrder(stay, place), r)
      PROVE  LineupOf(n, ids)
  <2> DEFINE seq == InOrder(stay, place)
  <2>1. LineupOf(n, seq) /\ \A i \in 1..Len(seq) : seq[i] \in stay
    BY <1>1
  <2>2. seq \in Seq(Racers)
    BY <2>1 DEF LineupOf
  <2>3. \A s \in stay : place[s].heat = n
    BY DEF In
  <2>4. r \notin stay /\ place[r].heat # n
    BY <1>0, <1>3, <2>3 DEF Nowhere
  <2> HIDE DEF seq, stay
  <2>5. Len(seq) \in Nat
    BY <2>2, LenProperties
  <2>6. /\ ids \in Seq(Racers) /\ Len(ids) = Len(seq) + 1
        /\ ids[Len(seq) + 1] = r /\ \A i \in 1..Len(seq) : ids[i] = seq[i]
    BY <1>3, <2>2, <2>5 DEF seq
  <2>7. \A i \in 1..Len(ids) : i \in 1..Len(seq) \/ i = Len(seq) + 1
    BY <2>5, <2>6
  <2>8. ASSUME NEW i \in 1..Len(ids), NEW j \in 1..Len(ids), ids[i] = ids[j] PROVE i = j
    <3>1. CASE i \in 1..Len(seq) /\ j \in 1..Len(seq)
      <4>1. seq[i] = seq[j]
        BY <2>6, <2>8, <3>1
      <4>2. QED
        BY <2>1, <3>1, <4>1 DEF LineupOf
    <3>2. CASE i = Len(seq) + 1 /\ j \in 1..Len(seq)
      BY <2>1, <2>4, <2>6, <2>8, <3>2
    <3>3. CASE j = Len(seq) + 1 /\ i \in 1..Len(seq)
      BY <2>1, <2>4, <2>6, <2>8, <3>3
    <3>4. QED
      BY <2>7, <3>1, <3>2, <3>3
  <2>9. ASSUME NEW i \in 1..Len(ids)
        PROVE  MayRace(ids[i]) /\ (place[ids[i]] = Nowhere \/ place[ids[i]].heat = n)
    <3>1. CASE i \in 1..Len(seq)
      BY <2>1, <2>6, <3>1 DEF LineupOf
    <3>2. CASE i = Len(seq) + 1
      BY <1>3, <2>6, <3>2
    <3>3. QED
      BY <2>7, <3>1, <3>2
  <2>10. ASSUME NEW i \in 1..Len(ids), NEW j \in 1..Len(ids),
                place[ids[i]].heat = n, place[ids[j]].heat = n
         PROVE  i < j <=> place[ids[i]].slot < place[ids[j]].slot
    <3>1. i \in 1..Len(seq) /\ j \in 1..Len(seq)
      BY <2>4, <2>6, <2>7, <2>10
    <3>2. ids[i] = seq[i] /\ ids[j] = seq[j]
      BY <2>6, <3>1
    <3>3. QED
      BY <2>1, <2>10, <3>1, <3>2 DEF LineupOf
  <2>11. QED
    BY <2>6, <2>8, <2>9, <2>10 DEF LineupOf
<1>4. QED
  <2>1. \/ \E S \in {stay} \cup {stay \ {r} : r \in stay} : ids = InOrder(S, place)
        \/ \E r \in {x \in Unplaced : MayRace(x)} : ids = Append(InOrder(stay, place), r)
    BY DEF Lineups
  <2>2. \A S \in {stay} \cup {stay \ {r} : r \in stay} : S \in SUBSET stay
    OBVIOUS
  <2>3. \A r \in {x \in Unplaced : MayRace(x)} : r \in Racers /\ place[r] = Nowhere /\ MayRace(r)
    BY DEF Unplaced
  <2> HIDE DEF stay
  <2>4. QED
    BY <1>2, <1>3, <2>1, <2>2, <2>3

-----------------------------------------------------------------------------
(* The state has its type, whatever overtakes what.                           *)

PairRequests == [op : {"pair"}, racer : Racers, kind : {"keep", "join", "new"},
                 heat : Numbers, dead : SUBSET Numbers, stale : SUBSET Racers]
Requests == {Idle} \cup PairRequests \cup CloseRequests \cup ReopenRequests

Typed ==
  /\ event \in {"OPEN", "CLOSED", "ROUND_ONE"}
  /\ Sound(heat, place)
  /\ event # "ROUND_ONE" => Unlocked(heat)
  /\ reg \in [Racers -> {"absent", "SUBMITTED", "ACTIVE", "WITHDRAWN"}]
  /\ held \in SUBSET Racers
  /\ \A r \in Racers : reg[r] = "absent" => r \notin held /\ place[r] = Nowhere
  /\ req \in [Clients -> Requests]

LEMMA RequestIs ==
  ASSUME NEW q \in Requests
  PROVE  /\ q.op \in {"idle", "pair", "close", "reopen"}
         /\ q.op = "idle" <=> q = Idle
         /\ q.op = "pair" <=> q \in PairRequests
         /\ q.op = "close" <=> q \in CloseRequests
         /\ q.op = "reopen" <=> q \in ReopenRequests
BY DEF Requests, PairRequests, CloseRequests, ReopenRequests, Idle

\* What stays of a request that learns that rows are gone.
Remains(q, p) ==
  /\ p \in Requests /\ p.op = q.op
  /\ q.op = "pair" => p.racer = q.racer /\ p.kind = q.kind /\ p.heat = q.heat
  /\ q.op \in {"close", "reopen"} => p.passes = q.passes
  /\ q = Idle => p = Idle

LEMMA ForgetsIs ==
  ASSUME NEW q \in Requests, NEW H \in SUBSET Numbers, NEW R \in SUBSET Racers
  PROVE  /\ Remains(q, Forgets(q, H, R))
         /\ q # Idle => /\ Forgets(q, H, R).dead = q.dead \cup H
                        /\ Forgets(q, H, R).stale = q.stale \cup R
<1>1. CASE q = Idle
  BY <1>1 DEF Forgets, Remains, Requests, Idle
<1>2. CASE q # Idle
  <2> DEFINE p == [q EXCEPT !.dead = @ \cup H, !.stale = @ \cup R]
  <2>1. Forgets(q, H, R) = p
    BY <1>2 DEF Forgets
  <2>2. CASE q \in PairRequests
    BY <2>1, <2>2 DEF Remains, Requests, PairRequests, Idle
  <2>3. CASE q \in CloseRequests
    BY <2>1, <2>3 DEF Remains, Requests, CloseRequests, Idle
  <2>4. CASE q \in ReopenRequests
    BY <2>1, <2>4 DEF Remains, Requests, ReopenRequests, Idle
  <2>5. QED
    BY <1>2, <2>2, <2>3, <2>4 DEF Requests
<1>3. QED
  BY <1>1, <1>2

LEMMA EndsIs ==
  ASSUME Typed, NEW c \in Clients, NEW H \in SUBSET Numbers, NEW R \in SUBSET Racers,
         Ends(c, H, R)
  PROVE  /\ req' \in [Clients -> Requests] /\ req'[c] = Idle
         /\ \A k \in Clients : k # c => /\ req'[k] = Forgets(req[k], H, R)
                                        /\ Remains(req[k], req'[k])
<1>1. \A k \in Clients : req[k] \in Requests
  BY DEF Typed
<1>2. \A k \in Clients : Remains(req[k], Forgets(req[k], H, R))
  BY <1>1, ForgetsIs
<1>3. \A k \in Clients : Forgets(req[k], H, R) \in Requests
  BY <1>2 DEF Remains
<1>4. req' = [k \in Clients |-> IF k = c THEN Idle ELSE Forgets(req[k], H, R)]
  BY DEF Ends
<1>5. \A k \in Clients : req'[k] = IF k = c THEN Idle ELSE Forgets(req[k], H, R)
  BY <1>4
<1>6. \A k \in Clients : req'[k] \in Requests
  BY <1>3, <1>5 DEF Requests
<1>7. req' \in [Clients -> Requests]
  BY <1>4, <1>6
<1>8. QED
  BY <1>2, <1>5, <1>7

\* What a new roster makes of the places.
Replaced(ps, n, ids) ==
  [r \in Racers |->
     IF \E i \in 1..Len(ids) : ids[i] = r
     THEN [heat |-> n, slot |-> CHOOSE i \in 1..Len(ids) : ids[i] = r]
     ELSE IF ps[r].heat = n THEN Nowhere ELSE ps[r]]

LEMMA ReplacedIs ==
  ASSUME NEW ps \in Places, NEW n \in Numbers, NEW ids \in Seq(Racers),
         \A i, j \in 1..Len(ids) : ids[i] = ids[j] => i = j
  PROVE  /\ \A i \in 1..Len(ids) : Replaced(ps, n, ids)[ids[i]] = [heat |-> n, slot |-> i]
         /\ \A r \in Racers : \/ \E i \in 1..Len(ids) : r = ids[i]
                              \/ ps[r].heat = n /\ Replaced(ps, n, ids)[r] = Nowhere
                              \/ ps[r].heat # n /\ Replaced(ps, n, ids)[r] = ps[r]
         /\ Replaced(ps, n, ids) \in Places
<1>1. n \in Nat /\ Len(ids) \in Nat /\ \A i \in 1..Len(ids) : ids[i] \in Racers
  BY Constants, LenProperties DEF Numbers
<1>2. ASSUME NEW i \in 1..Len(ids)
      PROVE  Replaced(ps, n, ids)[ids[i]] = [heat |-> n, slot |-> i]
  <2>1. PICK r \in Racers : r = ids[i]
    BY <1>1
  <2> DEFINE k == CHOOSE j \in 1..Len(ids) : ids[j] = r
  <2>2. k \in 1..Len(ids) /\ ids[k] = r
    BY <2>1
  <2>3. k = i
    BY <2>1, <2>2
  <2>4. Replaced(ps, n, ids)[r] = [heat |-> n, slot |-> k]
    <3>1. \E j \in 1..Len(ids) : ids[j] = r
      BY <2>1
    <3>2. Replaced(ps, n, ids)[r] = IF \E j \in 1..Len(ids) : ids[j] = r
                                    THEN [heat |-> n, slot |-> k]
                                    ELSE IF ps[r].heat = n THEN Nowhere ELSE ps[r]
      BY Zenon DEF Replaced
    <3>3. QED
      BY <3>1, <3>2
  <2>5. QED
    BY <2>1, <2>3, <2>4
<1>3. ASSUME NEW r \in Racers, ~\E i \in 1..Len(ids) : r = ids[i]
      PROVE  Replaced(ps, n, ids)[r] = IF ps[r].heat = n THEN Nowhere ELSE ps[r]
  BY <1>3 DEF Replaced
<1>4. ASSUME NEW r \in Racers PROVE Replaced(ps, n, ids)[r] \in [heat : Nat, slot : Nat]
  <2>1. CASE \E i \in 1..Len(ids) : r = ids[i]
    <3>1. PICK i \in 1..Len(ids) : r = ids[i]
      BY <2>1
    <3>2. Replaced(ps, n, ids)[r] = [heat |-> n, slot |-> i]
      BY <1>2, <3>1
    <3>3. QED
      BY <1>1, <3>2
  <2>2. CASE ~\E i \in 1..Len(ids) : r = ids[i]
    BY <1>3, <2>2 DEF Places, Nowhere
  <2>3. QED
    BY <2>1, <2>2
<1>5. Replaced(ps, n, ids) \in Places
  BY <1>4 DEF Places, Replaced
<1>6. QED
  BY <1>2, <1>3, <1>5

\* What a pairing that commits does.
Seats(q) ==
  /\ q.racer \notin held /\ held' = held \cup {q.racer}
  /\ reg' = [reg EXCEPT ![q.racer] = "ACTIVE"]
  /\ \/ heat' = heat /\ place' = place
     \/ /\ place[q.racer] = Nowhere
        /\ place' = [place EXCEPT ![q.racer] = [heat |-> q.heat,
                                                slot |-> Size(place, q.heat) + 1]]
        /\ \/ heat' = heat /\ q.heat \in Heats(heat)
           \/ heat[q.heat] = NoHeat /\ heat' = [heat EXCEPT ![q.heat] = Planned(Capacity)]

LEMMA PairIs ==
  ASSUME Typed, NEW c \in Clients, CommitPair(c)
  PROVE  /\ req[c] \in PairRequests /\ Ends(c, {}, {}) /\ event' = event
         /\ \/ UNCHANGED <<heat, place, reg, held>>
            \/ Seats(req[c]) /\ Sound(heat', place') /\ (Unlocked(heat) => Unlocked(heat'))
<1> DEFINE q == req[c]
<1> DEFINE hs == NewHeat(q)
<1> DEFINE entry == [heat |-> q.heat, slot |-> Size(place, q.heat) + 1]
<1> DEFINE ps == IF q.kind = "keep" THEN place ELSE [place EXCEPT ![q.racer] = entry]
<1> DEFINE commits == Accepts(q, hs) /\ Distinct(ps)
<1>1. /\ q.op = "pair" /\ Ends(c, {}, {}) /\ event' = event
      /\ heat' = IF commits THEN hs ELSE heat
      /\ place' = IF commits THEN ps ELSE place
      /\ reg' = IF commits THEN [reg EXCEPT ![q.racer] = "ACTIVE"] ELSE reg
      /\ held' = IF commits THEN held \cup {q.racer} ELSE held
  BY DEF CommitPair
<1>2. q \in PairRequests
  BY <1>1, RequestIs DEF Typed
<1>3. /\ q.racer \in Racers /\ q.heat \in Numbers /\ q.heat \in Nat \ {0}
      /\ q.kind \in {"keep", "join", "new"} /\ entry \in [heat : Nat, slot : Nat]
      /\ entry.slot # 0 /\ entry.heat = q.heat
  <2>1. q.racer \in Racers /\ q.heat \in Numbers /\ q.kind \in {"keep", "join", "new"}
    BY <1>2 DEF PairRequests
  <2>2. Size(place, q.heat) \in Nat /\ MaxHeat \in Nat
    BY InFinite, Constants
  <2>3. QED
    BY <2>1, <2>2 DEF Numbers
<1>4. Sound(heat, place) /\ heat \in [Numbers -> Rows] /\ place \in Places
  BY DEF Typed, Sound
<1> HIDE DEF q, entry
<1>5. CASE ~commits
  BY <1>1, <1>2, <1>5 DEF q
<1>6. CASE commits
  <2>1. /\ heat' = hs /\ place' = ps /\ held' = held \cup {q.racer}
        /\ reg' = [reg EXCEPT ![q.racer] = "ACTIVE"]
    BY <1>1, <1>6
  <2>2. /\ q.racer \notin held
        /\ q.kind = "new" => hs # heat /\ heat[q.heat] = NoHeat
        /\ q.kind = "join" => hs[q.heat] # NoHeat
        /\ q.kind # "keep" => place[q.racer] = Nowhere
        /\ Distinct(ps)
    BY <1>6 DEF Accepts
  <2>3. hs = IF q.kind = "new" /\ Cardinality(Heats(heat)) < FinalCapacity
             THEN [heat EXCEPT ![q.heat] = Planned(Capacity)] ELSE heat
    BY DEF NewHeat
  <2>4. /\ NoHeat.status = "none" /\ Planned(Capacity).status = "PLANNED"
        /\ Planned(Capacity) \in Rows /\ \A x \in Rows : x.status = "none" => x = NoHeat
    BY Constants DEF NoHeat, Planned, Rows
  <2> HIDE DEF hs
  <2>5. CASE q.kind = "new"
    <3>1. /\ hs = [heat EXCEPT ![q.heat] = Planned(Capacity)]
          /\ Cardinality(Heats(heat)) < FinalCapacity /\ heat[q.heat] = NoHeat
          /\ ps = [place EXCEPT ![q.racer] = entry] /\ place[q.racer] = Nowhere
      BY <2>2, <2>3, <2>5
    <3>2. /\ hs \in [Numbers -> Rows] /\ Heats(hs) = Heats(heat) \cup {q.heat}
          /\ q.heat \notin Heats(heat) /\ (Unlocked(heat) => Unlocked(hs))
      BY <1>3, <1>4, <2>4, <3>1 DEF Heats, Unlocked
    <3>3. Cardinality(Heats(hs)) = Cardinality(Heats(heat)) + 1
      BY <3>2, HeatsFinite, FS_AddElement
    <3>4. Cardinality(Heats(hs)) <= FinalCapacity
      BY <3>1, <3>3, HeatsFinite, Constants
    <3>5. ps \in Places
      BY <1>3, <1>4, <3>1 DEF Places
    <3>6. \A r \in Racers : ps[r] = Nowhere \/ (ps[r].heat \in Heats(hs) /\ ps[r].slot # 0)
      BY <1>3, <1>4, <3>1, <3>2 DEF Sound, Places
    <3>7. Sound(hs, ps)
      BY <2>2, <3>2, <3>4, <3>5, <3>6 DEF Sound
    <3>8. Seats(q)
      BY <2>1, <2>2, <3>1 DEF Seats, entry
    <3>9. QED
      BY <1>1, <1>2, <2>1, <3>2, <3>7, <3>8 DEF q
  <2>6. CASE q.kind = "join"
    <3>1. /\ hs = heat /\ q.heat \in Heats(heat)
          /\ ps = [place EXCEPT ![q.racer] = entry] /\ place[q.racer] = Nowhere
      BY <1>3, <1>4, <2>2, <2>3, <2>4, <2>6 DEF Heats
    <3>2. ps \in Places
      BY <1>3, <1>4, <3>1 DEF Places
    <3>3. \A r \in Racers : ps[r] = Nowhere \/ (ps[r].heat \in Heats(hs) /\ ps[r].slot # 0)
      BY <1>3, <1>4, <3>1 DEF Sound, Places
    <3>4. Sound(hs, ps)
      BY <1>4, <2>2, <3>1, <3>2, <3>3 DEF Sound
    <3>5. Seats(q)
      BY <2>1, <2>2, <3>1 DEF Seats, entry
    <3>6. QED
      BY <1>1, <1>2, <2>1, <3>1, <3>4, <3>5 DEF q
  <2>7. CASE q.kind = "keep"
    <3>1. hs = heat /\ ps = place
      BY <2>3, <2>7
    <3>2. Seats(q)
      BY <2>1, <2>2, <3>1 DEF Seats
    <3>3. QED
      BY <1>1, <1>2, <1>4, <2>1, <3>1, <3>2 DEF q
  <2>8. QED
    BY <1>3, <2>5, <2>6, <2>7
<1>7. QED
  BY <1>5, <1>6

\* What a new roster does.
Relists(n, ids) ==
  /\ heat[n].status = "PLANNED" /\ LineupOf(n, ids) /\ ids # <<>>
  /\ place' = Replaced(place, n, ids)
  /\ heat' = [heat EXCEPT ![n].target = Len(ids)]
  /\ Len(ids) \in Nat \ {0}

LEMMA ReplaceIs ==
  ASSUME Typed, NEW n \in Numbers, ReplaceRoster(n)
  PROVE  /\ event = "CLOSED" /\ (OvertakeReopening \/ ~Reopening)
         /\ UNCHANGED <<event, reg, held>>
         /\ req' = [c \in Clients |-> Forgets(req[c], {}, In(place, n))]
         /\ Sound(heat', place') /\ Unlocked(heat') /\ Heats(heat') = Heats(heat)
         /\ \E ids \in Seq(Racers) : Relists(n, ids)
<1>1. PICK ids \in Lineups(n) :
        /\ ids # <<>> /\ place' = Replaced(place, n, ids)
        /\ heat' = [heat EXCEPT ![n].target = Len(ids)]
  BY DEF ReplaceRoster, Replaced
<1>2. /\ event = "CLOSED" /\ heat[n].status = "PLANNED"
      /\ (OvertakeReopening \/ ~Reopening) /\ UNCHANGED <<event, reg, held>>
      /\ req' = [c \in Clients |-> Forgets(req[c], {}, In(place, n))]
  BY DEF ReplaceRoster
<1>3. /\ place \in Places /\ Distinct(place) /\ heat \in [Numbers -> Rows] /\ Unlocked(heat)
      /\ Sound(heat, place) /\ n \in Nat /\ n # 0
  BY <1>2, Constants DEF Typed, Sound, Numbers
<1>4. LineupOf(n, ids) /\ ids \in Seq(Racers)
  BY <1>3, LineupsAre DEF LineupOf
<1>5. Len(ids) \in Nat \ {0}
  BY <1>1, <1>4, EmptySeq
<1>6. \A i, j \in 1..Len(ids) : ids[i] = ids[j] => i = j
  BY <1>4 DEF LineupOf
<1>7. /\ \A i \in 1..Len(ids) : place'[ids[i]] = [heat |-> n, slot |-> i]
      /\ \A r \in Racers : \/ \E i \in 1..Len(ids) : r = ids[i]
                           \/ place[r].heat = n /\ place'[r] = Nowhere
                           \/ place[r].heat # n /\ place'[r] = place[r]
      /\ place' \in Places
  <2> DEFINE N == Replaced(place, n, ids)
  <2>1. /\ \A i \in 1..Len(ids) : N[ids[i]] = [heat |-> n, slot |-> i]
        /\ \A r \in Racers : \/ \E i \in 1..Len(ids) : r = ids[i]
                             \/ place[r].heat = n /\ N[r] = Nowhere
                             \/ place[r].heat # n /\ N[r] = place[r]
        /\ N \in Places
    BY <1>3, <1>4, <1>6, ReplacedIs
  <2> HIDE DEF N
  <2>2. place' = N
    BY <1>1 DEF N
  <2>3. QED
    BY <2>1, <2>2
<1>b. \A r \in Racers : \/ place'[r].heat = n
                        \/ place'[r] = Nowhere
                        \/ place'[r] = place[r] /\ place[r].heat # n
  <2>1. SUFFICES ASSUME NEW r \in Racers, \E i \in 1..Len(ids) : r = ids[i]
                 PROVE  place'[r].heat = n
    BY <1>7
  <2>2. PICK i \in 1..Len(ids) : r = ids[i]
    BY <2>1
  <2>3. place'[r] = [heat |-> n, slot |-> i]
    BY <1>7, <2>2
  <2>4. QED
    BY <2>3
<1>8. /\ heat' \in [Numbers -> Rows] /\ Heats(heat') = Heats(heat) /\ Unlocked(heat')
      /\ n \in Heats(heat)
  <2>1. heat[n] \in Rows /\ heat[n] # NoHeat
    BY <1>2, <1>3 DEF NoHeat
  <2>2. [heat[n] EXCEPT !.target = Len(ids)] \in Rows
        /\ [heat[n] EXCEPT !.target = Len(ids)].status = "PLANNED"
    BY <1>2, <1>5, <2>1 DEF Rows
  <2>3. heat' = [heat EXCEPT ![n] = [heat[n] EXCEPT !.target = Len(ids)]]
    BY <1>1, <1>3
  <2>4. QED
    BY <1>2, <1>3, <2>2, <2>3 DEF Heats, Unlocked
<1>9. ASSUME NEW r \in Racers, NEW s \in Racers, r # s, place'[r].heat # 0
      PROVE  place'[r] # place'[s]
  <2>1. CASE place'[r].heat = n
    <3>1. PICK i \in 1..Len(ids) : r = ids[i]
      BY <1>3, <1>7, <2>1 DEF Nowhere
    <3>2. CASE \E j \in 1..Len(ids) : s = ids[j]
      <4>1. PICK j \in 1..Len(ids) : s = ids[j]
        BY <3>2
      <4>2. place'[r] = [heat |-> n, slot |-> i] /\ place'[s] = [heat |-> n, slot |-> j]
        BY <1>7, <3>1, <4>1
      <4>3. i # j
        BY <1>9, <3>1, <4>1
      <4>4. QED
        BY <4>2, <4>3
    <3>3. CASE ~\E j \in 1..Len(ids) : s = ids[j]
      <4>1. place'[s].heat # n
        BY <1>3, <1>7, <3>3 DEF Nowhere
      <4>2. QED
        BY <2>1, <4>1
    <3>4. QED
      BY <3>2, <3>3
  <2>2. CASE place'[r].heat # n
    <3>1. place'[r] = place[r] /\ place[r].heat # n /\ place[r].heat # 0
      BY <1>b, <1>9, <2>2 DEF Nowhere
    <3>2. CASE place'[s] = place[s]
      BY <1>3, <1>9, <3>1, <3>2 DEF Distinct
    <3>3. CASE place'[s].heat = n \/ place'[s] = Nowhere
      BY <1>9, <2>2, <3>3 DEF Nowhere
    <3>4. QED
      BY <1>b, <3>2, <3>3
  <2>3. QED
    BY <2>1, <2>2
<1>10. \A r \in Racers : place'[r] = Nowhere \/ (place'[r].heat \in Heats(heat') /\ place'[r].slot # 0)
  <2>1. SUFFICES ASSUME NEW r \in Racers
                 PROVE  place'[r] = Nowhere \/ (place'[r].heat \in Heats(heat') /\ place'[r].slot # 0)
    OBVIOUS
  <2>2. CASE \E i \in 1..Len(ids) : r = ids[i]
    <3>1. PICK i \in 1..Len(ids) : r = ids[i]
      BY <2>2
    <3>2. place'[r] = [heat |-> n, slot |-> i] /\ i # 0
      BY <1>5, <1>7, <3>1
    <3>3. QED
      BY <1>8, <3>2
  <2>3. CASE place'[r] = Nowhere
    BY <2>3
  <2>4. CASE place'[r] = place[r]
    BY <1>3, <1>8, <2>4 DEF Sound
  <2>5. QED
    BY <1>7, <2>2, <2>3, <2>4
<1>11. Sound(heat', place')
  BY <1>3, <1>7, <1>8, <1>9, <1>10 DEF Sound, Distinct
<1>12. Relists(n, ids)
  BY <1>1, <1>2, <1>4, <1>5 DEF Relists
<1>13. QED
  BY <1>2, <1>4, <1>8, <1>11, <1>12

\* The states of the heats and of the others that a step may lead to.
LEMMA TypedAfter ==
  ASSUME Typed, event' \in {"OPEN", "CLOSED", "ROUND_ONE"}, Sound(heat', place'),
         event' # "ROUND_ONE" => Unlocked(heat'),
         UNCHANGED <<reg, held>>, SamePlaced(place, place'), req' \in [Clients -> Requests]
  PROVE  Typed'
<1>1. \A r \in Racers : reg'[r] = "absent" => r \notin held' /\ place'[r] = Nowhere
  BY DEF Typed, SamePlaced
<1>2. QED
  BY <1>1 DEF Typed

LEMMA BeginCloseIs ==
  ASSUME Typed, NEW c \in Clients, BeginClose(c)
  PROVE  /\ UNCHANGED <<event, heat, place, reg, held>> /\ event = "OPEN" /\ req[c] = Idle
         /\ \E passes \in {<<>>, Merges(Layout)} :
              /\ Request("close", passes) \in CloseRequests
              /\ req' = [req EXCEPT ![c] = Request("close", passes)]
         /\ req' \in [Clients -> Requests]
<1>1. PICK passes \in {<<>>, Merges(Layout)} : req' = [req EXCEPT ![c] = Request("close", passes)]
  BY DEF BeginClose, Disagreement
<1>2. passes \in Seq(FoldPasses(MaxHeat))
  BY PlansAreTyped, EmptySeq DEF Typed
<1>3. Request("close", passes) \in CloseRequests
  BY <1>2 DEF Request, CloseRequests
<1>4. req' \in [Clients -> Requests]
  BY <1>1, <1>3 DEF Typed, Requests
<1>5. QED
  BY <1>1, <1>3, <1>4 DEF BeginClose

LEMMA BeginReopenIs ==
  ASSUME Typed, NEW c \in Clients, BeginReopen(c)
  PROVE  /\ UNCHANGED <<event, heat, place, reg, held>> /\ event = "CLOSED" /\ req[c] = Idle
         /\ OvertakeReopening \/ ~Reopening
         /\ \E passes \in {<<>>, Splits(Layout)} :
              /\ Request("reopen", passes) \in ReopenRequests
              /\ req' = [req EXCEPT ![c] = Request("reopen", passes)]
         /\ req' \in [Clients -> Requests]
<1>1. PICK passes \in {<<>>, Splits(Layout)} :
        /\ \A i \in 1..Len(passes) : passes[i].into \in Numbers
        /\ req' = [req EXCEPT ![c] = Request("reopen", passes)]
  BY DEF BeginReopen, Disagreement
<1>2. passes \in Seq(SplitPasses)
  BY PlansAreTyped, EmptySeq DEF Typed
<1>3. Request("reopen", passes) \in ReopenRequests
  BY <1>1, <1>2 DEF Request, ReopenRequests
<1>4. req' \in [Clients -> Requests]
  BY <1>1, <1>3 DEF Typed, Requests
<1>5. QED
  BY <1>1, <1>3, <1>4 DEF BeginReopen

LEMMA CommitCloseIs ==
  ASSUME Typed, NEW c \in Clients, CommitClose(c)
  PROVE  /\ req[c] \in CloseRequests /\ UNCHANGED <<reg, held>>
         /\ \/ UNCHANGED <<event, heat, place>> /\ Ends(c, {}, {})
            \/ /\ event = "OPEN" /\ event' = "CLOSED" /\ Folded(req[c]).ok
               /\ heat' = Folded(req[c]).heat /\ place' = Folded(req[c]).place
               /\ Follows(heat, place, heat', place')
               /\ Ends(c, Heats(heat) \ Heats(heat'), {})
<1> DEFINE b == Folded(req[c])
<1> DEFINE commits == event = "OPEN" /\ b.ok
<1>1. /\ req[c].op = "close" /\ UNCHANGED <<reg, held>>
      /\ event' = IF commits THEN "CLOSED" ELSE event
      /\ heat' = IF commits THEN b.heat ELSE heat
      /\ place' = IF commits THEN b.place ELSE place
      /\ Ends(c, IF commits THEN Heats(heat) \ Heats(b.heat) ELSE {}, {})
  BY DEF CommitClose
<1>2. req[c] \in CloseRequests
  BY <1>1, RequestIs DEF Typed
<1> HIDE DEF b
<1>3. CASE commits
  <2>1. b.ok => Follows(heat, place, b.heat, b.place)
    BY <1>2, FoldedSound DEF Typed, b
  <2>2. heat' = b.heat /\ place' = b.place /\ event = "OPEN" /\ event' = "CLOSED" /\ b.ok
    BY <1>1, <1>3
  <2>3. Ends(c, Heats(heat) \ Heats(heat'), {})
    BY <1>1, <1>3, <2>2
  <2>4. Follows(heat, place, heat', place')
    BY <2>1, <2>2
  <2>5. QED
    BY <1>1, <1>2, <2>2, <2>3, <2>4 DEF b
<1>4. CASE ~commits
  BY <1>1, <1>2, <1>4
<1>5. QED
  BY <1>3, <1>4

LEMMA CommitReopenIs ==
  ASSUME Typed, NEW c \in Clients, CommitReopen(c)
  PROVE  /\ req[c] \in ReopenRequests /\ UNCHANGED <<reg, held>> /\ Ends(c, {}, {})
         /\ OvertakeClosing \/ ~Closing
         /\ \/ UNCHANGED <<event, heat, place>>
            \/ /\ event = "CLOSED" /\ event' = "OPEN" /\ Unfolded(req[c]).ok
               /\ heat' = Unfolded(req[c]).heat /\ place' = Unfolded(req[c]).place
               /\ Follows(heat, place, heat', place')
<1> DEFINE b == Unfolded(req[c])
<1> DEFINE commits == /\ event = "CLOSED" /\ b.ok
                      /\ \A n \in Heats(heat) : heat[n].status = "PLANNED"
<1>1. /\ req[c].op = "reopen" /\ UNCHANGED <<reg, held>> /\ Ends(c, {}, {})
      /\ OvertakeClosing \/ ~Closing
      /\ event' = IF commits THEN "OPEN" ELSE event
      /\ heat' = IF commits THEN b.heat ELSE heat
      /\ place' = IF commits THEN b.place ELSE place
  BY DEF CommitReopen
<1>2. req[c] \in ReopenRequests
  BY <1>1, RequestIs DEF Typed
<1> HIDE DEF b
<1>3. CASE commits
  <2>1. b.ok => Follows(heat, place, b.heat, b.place)
    BY <1>2, UnfoldedSound DEF Typed, b
  <2>2. heat' = b.heat /\ place' = b.place /\ event = "CLOSED" /\ event' = "OPEN" /\ b.ok
    BY <1>1, <1>3
  <2>3. Follows(heat, place, heat', place')
    BY <2>1, <2>2
  <2>4. QED
    BY <1>1, <1>2, <2>2, <2>3 DEF b
<1>4. CASE ~commits
  BY <1>1, <1>2, <1>4
<1>5. QED
  BY <1>3, <1>4

\* A request to pair a racer who has no duck.
BeginsPair(c, r) ==
  /\ req[c] = Idle /\ event # "ROUND_ONE" /\ reg[r] = "SUBMITTED" /\ r \notin held
  /\ UNCHANGED <<event, heat, place, reg, held>>
  /\ \E q \in PairRequests : q.racer = r /\ req' = [req EXCEPT ![c] = q]
  /\ req' \in [Clients -> Requests]

LEMMA BeginPairIs ==
  ASSUME Typed, NEW c \in Clients, NEW r \in Racers, BeginPair(c, r)
  PROVE  BeginsPair(c, r)
<1>1. PICK choice \in Chosen(r) :
        req' = [req EXCEPT ![c] = [op |-> "pair", racer |-> r, kind |-> choice.kind,
                                   heat |-> choice.heat, dead |-> {}, stale |-> {}]]
  BY DEF BeginPair
<1>2. choice.kind \in {"keep", "join", "new"} /\ choice.heat \in Numbers
  <2> DEFINE roomy == {n \in Heats(heat) : Size(place, n) < Capacity}
  <2>1. CASE place[r].heat # 0
    <3>1. choice = [kind |-> "keep", heat |-> place[r].heat]
      BY <2>1 DEF Chosen
    <3>2. place[r].heat \in Numbers
      BY <2>1, HeatsFinite DEF Typed, Sound, Nowhere
    <3>3. QED
      BY <3>1, <3>2
  <2>2. CASE place[r].heat = 0 /\ roomy # {}
    <3>1. choice = [kind |-> "join", heat |-> Min(roomy)]
      BY <2>2 DEF Chosen
    <3>2. roomy \in SUBSET Nat /\ roomy \in SUBSET Numbers
      BY Constants, HeatsFinite DEF Numbers
    <3>3. Min(roomy) \in Numbers
      BY <2>2, <3>2, MinIs
    <3>4. QED
      BY <3>1, <3>3
  <2>3. CASE place[r].heat = 0 /\ roomy = {}
    <3>1. \E n \in Numbers : choice = [kind |-> "new", heat |-> n]
      BY <2>3 DEF Chosen
    <3>2. QED
      BY <3>1
  <2>4. QED
    BY <2>1, <2>2, <2>3
<1> DEFINE q == [op |-> "pair", racer |-> r, kind |-> choice.kind,
                 heat |-> choice.heat, dead |-> {}, stale |-> {}]
<1>3. q \in PairRequests /\ q.racer = r
  BY <1>2 DEF PairRequests
<1> HIDE DEF q
<1>4. req' = [req EXCEPT ![c] = q]
  BY <1>1 DEF q
<1>5. req' \in [Clients -> Requests]
  BY <1>3, <1>4 DEF Typed, Requests
<1>6. QED
  BY <1>3, <1>4, <1>5 DEF BeginPair, BeginsPair

LEMMA TypedInit == Init => Typed
<1> SUFFICES ASSUME Init PROVE Typed
  OBVIOUS
<1>1. /\ event = "OPEN" /\ heat = [n \in Numbers |-> NoHeat]
      /\ place = [r \in Racers |-> Nowhere] /\ held = {}
      /\ reg = [r \in Racers |-> IF r \in Early THEN "SUBMITTED" ELSE "absent"]
      /\ req = [c \in Clients |-> Idle]
  BY DEF Init
<1>2. Heats(heat) = {}
  BY <1>1 DEF Heats, NoHeat
<1>3. Cardinality(Heats(heat)) <= FinalCapacity
  BY <1>2, FS_EmptySet, Constants
<1>4. place \in Places /\ Distinct(place) /\ \A r \in Racers : place[r] = Nowhere
  BY <1>1 DEF Places, Distinct, Nowhere
<1>5. heat \in [Numbers -> Rows] /\ Unlocked(heat)
  BY <1>1 DEF Rows, Unlocked, NoHeat
<1>6. Sound(heat, place)
  BY <1>3, <1>4, <1>5 DEF Sound
<1>7. req \in [Clients -> Requests]
  BY <1>1 DEF Requests
<1>8. QED
  BY <1>1, <1>4, <1>5, <1>6, <1>7 DEF Typed

LEMMA TypedStep ==
  ASSUME Typed, [Next]_vars
  PROVE  Typed'
<1>0. SamePlaced(place, place)
  BY DEF SamePlaced
<1>1. ASSUME NEW c \in Clients, BeginClose(c) PROVE Typed'
  BY <1>0, <1>1, BeginCloseIs DEF Typed
<1>2. ASSUME NEW c \in Clients, CommitClose(c) PROVE Typed'
  <2>1. /\ UNCHANGED <<reg, held>>
        /\ \/ UNCHANGED <<event, heat, place>> /\ Ends(c, {}, {})
           \/ /\ event = "OPEN" /\ event' = "CLOSED" /\ Follows(heat, place, heat', place')
              /\ Ends(c, Heats(heat) \ Heats(heat'), {})
    BY <1>2, CommitCloseIs
  <2>2. req' \in [Clients -> Requests]
    <3>1. Heats(heat) \ Heats(heat') \in SUBSET Numbers
      BY HeatsFinite
    <3>2. QED
      BY <2>1, <3>1, EndsIs
  <2>3. CASE UNCHANGED <<event, heat, place>>
    BY <2>1, <2>2, <2>3 DEF Typed
  <2>4. CASE event = "OPEN" /\ event' = "CLOSED" /\ Follows(heat, place, heat', place')
    BY <2>1, <2>2, <2>4, TypedAfter DEF Typed, Follows
  <2>5. QED
    BY <2>1, <2>3, <2>4
<1>3. ASSUME NEW c \in Clients, BeginReopen(c) PROVE Typed'
  BY <1>0, <1>3, BeginReopenIs DEF Typed
<1>4. ASSUME NEW c \in Clients, CommitReopen(c) PROVE Typed'
  <2>1. /\ UNCHANGED <<reg, held>> /\ Ends(c, {}, {})
        /\ \/ UNCHANGED <<event, heat, place>>
           \/ event = "CLOSED" /\ event' = "OPEN" /\ Follows(heat, place, heat', place')
    BY <1>4, CommitReopenIs
  <2>2. req' \in [Clients -> Requests]
    BY <2>1, EndsIs
  <2>3. CASE UNCHANGED <<event, heat, place>>
    BY <2>1, <2>2, <2>3 DEF Typed
  <2>4. CASE event = "CLOSED" /\ event' = "OPEN" /\ Follows(heat, place, heat', place')
    BY <2>1, <2>2, <2>4, TypedAfter DEF Typed, Follows
  <2>5. QED
    BY <2>1, <2>3, <2>4
<1>5. ASSUME NEW c \in Clients, CommitPair(c) PROVE Typed'
  <2> DEFINE q == req[c]
  <2>1. /\ q \in PairRequests /\ Ends(c, {}, {}) /\ event' = event
        /\ \/ UNCHANGED <<heat, place, reg, held>>
           \/ Seats(q) /\ Sound(heat', place') /\ (Unlocked(heat) => Unlocked(heat'))
    BY <1>5, PairIs
  <2>2. req' \in [Clients -> Requests]
    BY <2>1, EndsIs
  <2>3. CASE UNCHANGED <<heat, place, reg, held>>
    BY <2>1, <2>2, <2>3 DEF Typed
  <2>4. CASE Seats(q) /\ Sound(heat', place') /\ (Unlocked(heat) => Unlocked(heat'))
    <3>1. q.racer \in Racers
      BY <2>1 DEF PairRequests
    <3> HIDE DEF q
    <3>2. /\ held' = held \cup {q.racer} /\ reg' = [reg EXCEPT ![q.racer] = "ACTIVE"]
          /\ \A r \in Racers : r # q.racer => place'[r] = place[r]
      BY <2>4 DEF Seats, Typed, Sound, Places
    <3>3. \A r \in Racers : reg'[r] = "absent" => r \notin held' /\ place'[r] = Nowhere
      BY <3>1, <3>2 DEF Typed
    <3>4. reg' \in [Racers -> {"absent", "SUBMITTED", "ACTIVE", "WITHDRAWN"}]
          /\ held' \in SUBSET Racers
      BY <3>1, <3>2 DEF Typed
    <3>5. QED
      BY <2>1, <2>2, <2>4, <3>3, <3>4 DEF Typed
  <2>5. QED
    BY <2>1, <2>3, <2>4
<1>6. ASSUME NEW c \in Clients, NEW r \in Racers, BeginPair(c, r) PROVE Typed'
  BY <1>6, BeginPairIs DEF Typed, BeginsPair
<1>7. ASSUME NEW n \in Numbers, ReplaceRoster(n) PROVE Typed'
  <2>1. /\ event = "CLOSED" /\ UNCHANGED <<event, reg, held>>
        /\ req' = [c \in Clients |-> Forgets(req[c], {}, In(place, n))]
        /\ Sound(heat', place') /\ Unlocked(heat')
    BY <1>7, ReplaceIs
  <2>2. PICK ids \in Seq(Racers) : Relists(n, ids)
    BY <1>7, ReplaceIs
  <2>3. \A c \in Clients : Forgets(req[c], {}, In(place, n)) \in Requests
    BY InFinite, ForgetsIs DEF Typed, Remains
  <2>4. req' \in [Clients -> Requests]
    BY <2>1, <2>3
  <2>5. ASSUME NEW r \in Racers, reg[r] = "absent" PROVE place'[r] = Nowhere
    <3>1. /\ place \in Places /\ LineupOf(n, ids) /\ place' = Replaced(place, n, ids)
          /\ n # 0
      BY <2>2, Constants DEF Typed, Sound, Relists, Numbers
    <3>2. \A i, j \in 1..Len(ids) : ids[i] = ids[j] => i = j
      BY <3>1 DEF LineupOf
    <3>3. \A i \in 1..Len(ids) : reg[ids[i]] = "ACTIVE"
      BY <3>1 DEF LineupOf, MayRace
    <3>4. ~\E i \in 1..Len(ids) : r = ids[i]
      BY <2>5, <3>3
    <3>5. place[r] = Nowhere
      BY <2>5 DEF Typed
    <3>6. Replaced(place, n, ids)[r] = Nowhere
      BY <3>1, <3>2, <3>4, <3>5, ReplacedIs DEF Nowhere
    <3>7. QED
      BY <3>1, <3>6
  <2>6. QED
    BY <2>1, <2>4, <2>5 DEF Typed
<1>8. ASSUME NEW r \in Racers, Register(r) \/ Withdraw(r) \/ Reactivate(r) PROVE Typed'
  <2>1. /\ UNCHANGED <<event, heat, place, held, req>>
        /\ \E s \in {"SUBMITTED", "ACTIVE", "WITHDRAWN"} : reg' = [reg EXCEPT ![r] = s]
    BY <1>8 DEF Register, Withdraw, Reactivate
  <2>2. QED
    BY <2>1 DEF Typed
<1>9. ASSUME NEW r \in Racers, LoseDuck(r) PROVE Typed'
  <2>1. /\ UNCHANGED <<event, heat, place, req>> /\ held' = held \ {r}
        /\ reg' = [reg EXCEPT ![r] = IF reg[r] = "ACTIVE" THEN "SUBMITTED" ELSE reg[r]]
    BY <1>9 DEF LoseDuck
  <2>2. QED
    BY <2>1 DEF Typed
<1>10. ASSUME StartRoundOne PROVE Typed'
  <2>1. /\ UNCHANGED <<place, reg, held, req>> /\ event' = "ROUND_ONE"
        /\ heat' = [n \in Numbers |-> IF heat[n].status = "PLANNED"
                                      THEN [heat[n] EXCEPT !.status = "LOADING"] ELSE heat[n]]
    BY <1>10 DEF StartRoundOne
  <2>2. \A n \in Numbers : heat[n] \in Rows
    BY DEF Typed, Sound
  <2>3. \A n \in Numbers : heat'[n] \in Rows /\ (heat'[n].status = "none" <=> heat[n].status = "none")
    BY <2>1, <2>2 DEF Rows, NoHeat
  <2>4. heat' \in [Numbers -> Rows]
    BY <2>1, <2>3
  <2>5. Heats(heat') = Heats(heat)
    BY <2>3 DEF Heats
  <2>6. Sound(heat', place')
    BY <2>1, <2>4, <2>5 DEF Typed, Sound
  <2>7. QED
    BY <2>1, <2>6 DEF Typed
<1>11. CASE UNCHANGED vars
  BY <1>11 DEF vars, Typed
<1>12. QED
  BY <1>1, <1>2, <1>3, <1>4, <1>5, <1>6, <1>7, <1>8, <1>9, <1>10, <1>11 DEF Next

LEMMA TypedIsTypeOK == Typed => TypeOK
<1> SUFFICES ASSUME Typed PROVE TypeOK
  OBVIOUS
<1>1. heat \in [Numbers -> {NoHeat} \cup [status : {"PLANNED", "LOADING"}, target : Nat \ {0}]]
  BY DEF Typed, Sound, Rows
<1>2. \A r \in Racers : place[r] = Nowhere \/ (place[r].heat \in Heats(heat) /\ place[r].slot \in Nat \ {0})
  BY DEF Typed, Sound, Places
<1>3. ASSUME NEW c \in Clients
      PROVE  /\ req[c].op \in {"idle", "pair", "close", "reopen"}
             /\ req[c].op = "pair" => /\ req[c].racer \in Racers
                                      /\ req[c].kind \in {"keep", "join", "new"}
                                      /\ req[c].heat \in Numbers
  <2>1. req[c] \in Requests
    BY DEF Typed
  <2>2. QED
    BY <2>1, RequestIs DEF PairRequests
<1>4. QED
  BY <1>1, <1>2, <1>3 DEF Typed, TypeOK

\* Every reachable state has its type: an entry lies in a heat that exists, and no
\* transaction, however late, leaves one behind in a heat it deleted.
THEOREM TypeCorrect == Spec => []TypeOK
<1>1. Typed /\ [Next]_vars => Typed'
  BY TypedStep
<1>2. QED
  BY <1>1, TypedInit, TypedIsTypeOK, PTL DEF Spec

-----------------------------------------------------------------------------
(* The round runs on locked heats.                                            *)

\* Who is being paired waits for a duck, or has got one from another desk; once
\* the round runs, the latter.
Promised ==
  \A c \in Clients : req[c].op = "pair" =>
    /\ reg[req[c].racer] = "SUBMITTED" \/ req[c].racer \in held
    /\ reg[req[c].racer] \in {"SUBMITTED", "ACTIVE"}
    /\ event = "ROUND_ONE" => req[c].racer \in held

LEMMA LockedStep ==
  ASSUME LeaveDuringPairing = FALSE, Typed, Promised, RoundIsLocked, [Next]_vars
  PROVE  Promised' /\ RoundIsLocked'
<1>0. \A c \in Clients : req[c] \in Requests
  BY DEF Typed
<1>1. ASSUME NEW c \in Clients, NEW q, req' = [req EXCEPT ![c] = q], q.op # "pair",
             UNCHANGED <<event, heat, place, reg, held>>
      PROVE  Promised' /\ RoundIsLocked'
  <2>1. \A k \in Clients : req'[k] = IF k = c THEN q ELSE req[k]
    BY <1>1 DEF Typed
  <2>2. QED
    BY <1>1, <2>1 DEF Promised, RoundIsLocked, Heats, Size, In
<1>2. ASSUME NEW c \in Clients, BeginClose(c) PROVE Promised' /\ RoundIsLocked'
  <2>1. PICK passes : req' = [req EXCEPT ![c] = Request("close", passes)]
    BY <1>2, BeginCloseIs
  <2>2. Request("close", passes).op # "pair" /\ UNCHANGED <<event, heat, place, reg, held>>
    BY <1>2 DEF Request, BeginClose
  <2>3. QED
    BY <1>1, <2>1, <2>2
<1>3. ASSUME NEW c \in Clients, BeginReopen(c) PROVE Promised' /\ RoundIsLocked'
  <2>1. PICK passes : req' = [req EXCEPT ![c] = Request("reopen", passes)]
    BY <1>3, BeginReopenIs
  <2>2. Request("reopen", passes).op # "pair" /\ UNCHANGED <<event, heat, place, reg, held>>
    BY <1>3 DEF Request, BeginReopen
  <2>3. QED
    BY <1>1, <2>1, <2>2
\* A transaction ends one request and leaves the racers of the others.
<1>4. ASSUME NEW c \in Clients, NEW H \in SUBSET Numbers, Ends(c, H, {}), UNCHANGED <<reg, held>>,
             event # "ROUND_ONE" => event' # "ROUND_ONE",
             event = "ROUND_ONE" => UNCHANGED <<event, heat, place>>
      PROVE  Promised' /\ RoundIsLocked'
  <2>1. req'[c] = Idle /\ \A k \in Clients : k # c => Remains(req[k], req'[k])
    BY <1>4, EndsIs
  <2>2. \A k \in Clients : req'[k].op = "pair" => req[k].op = "pair" /\ req'[k].racer = req[k].racer
    BY <2>1 DEF Remains, Idle
  <2>3. Promised'
    BY <1>4, <2>2 DEF Promised
  <2>4. RoundIsLocked'
    BY <1>4 DEF RoundIsLocked, Heats, Size, In
  <2>5. QED
    BY <2>3, <2>4
<1>5. ASSUME NEW c \in Clients, CommitClose(c) PROVE Promised' /\ RoundIsLocked'
  <2>1. /\ UNCHANGED <<reg, held>>
        /\ \/ UNCHANGED <<event, heat, place>> /\ Ends(c, {}, {})
           \/ event = "OPEN" /\ event' = "CLOSED" /\ Ends(c, Heats(heat) \ Heats(heat'), {})
    BY <1>5, CommitCloseIs
  <2>2. Heats(heat) \ Heats(heat') \in SUBSET Numbers
    BY HeatsFinite
  <2>3. QED
    BY <1>4, <2>1, <2>2
<1>6. ASSUME NEW c \in Clients, CommitReopen(c) PROVE Promised' /\ RoundIsLocked'
  <2>1. /\ UNCHANGED <<reg, held>> /\ Ends(c, {}, {})
        /\ \/ UNCHANGED <<event, heat, place>>
           \/ event = "CLOSED" /\ event' = "OPEN"
    BY <1>6, CommitReopenIs
  <2>2. QED
    BY <1>4, <2>1
<1>7. ASSUME NEW c \in Clients, CommitPair(c) PROVE Promised' /\ RoundIsLocked'
  <2>1. /\ req[c] \in PairRequests /\ Ends(c, {}, {}) /\ event' = event
        /\ UNCHANGED <<heat, place, reg, held>> \/ Seats(req[c])
    BY <1>7, PairIs
  <2>2. CASE UNCHANGED <<heat, place, reg, held>>
    BY <1>4, <2>1, <2>2
  <2>3. CASE Seats(req[c])
    <3>1. /\ req[c].racer \notin held /\ held' = held \cup {req[c].racer}
          /\ reg' = [reg EXCEPT ![req[c].racer] = "ACTIVE"] /\ req[c].racer \in Racers
      BY <2>1, <2>3 DEF Seats, PairRequests
    <3>2. event # "ROUND_ONE" /\ event' # "ROUND_ONE"
      BY <2>1, <3>1, RequestIs DEF Promised, PairRequests
    <3>3. req'[c] = Idle /\ \A k \in Clients : k # c => Remains(req[k], req'[k])
      BY <2>1, EndsIs
    <3>4. \A k \in Clients : req'[k].op = "pair" => req[k].op = "pair" /\ req'[k].racer = req[k].racer
      BY <3>3 DEF Remains, Idle
    <3>5. \A r \in Racers : reg'[r] = reg[r] \/ (reg'[r] = "ACTIVE" /\ r \in held')
      BY <3>1 DEF Typed
    <3>6. \A k \in Clients : req[k].op = "pair" => req[k].racer \in Racers
      BY <1>0, RequestIs DEF PairRequests
    <3>7. Promised'
      BY <3>1, <3>2, <3>4, <3>5, <3>6 DEF Promised
    <3>8. QED
      BY <3>2, <3>7 DEF RoundIsLocked
  <2>4. QED
    BY <2>1, <2>2, <2>3
<1>8. ASSUME NEW c \in Clients, NEW r \in Racers, BeginPair(c, r) PROVE Promised' /\ RoundIsLocked'
  <2>1. BeginsPair(c, r)
    BY <1>8, BeginPairIs
  <2>2. PICK q \in PairRequests : q.racer = r /\ req' = [req EXCEPT ![c] = q]
    BY <2>1 DEF BeginsPair
  <2>3. \A k \in Clients : req'[k] = IF k = c THEN q ELSE req[k]
    BY <2>2 DEF Typed
  <2>4. QED
    BY <2>1, <2>2, <2>3 DEF BeginsPair, Promised, RoundIsLocked
<1>9. ASSUME NEW n \in Numbers, ReplaceRoster(n) PROVE Promised' /\ RoundIsLocked'
  <2>1. /\ event = "CLOSED" /\ UNCHANGED <<event, reg, held>>
        /\ req' = [c \in Clients |-> Forgets(req[c], {}, In(place, n))]
    BY <1>9, ReplaceIs
  <2>2. \A c \in Clients : Remains(req[c], Forgets(req[c], {}, In(place, n)))
    BY <1>0, InFinite, ForgetsIs
  <2>3. \A k \in Clients : req'[k].op = "pair" => req[k].op = "pair" /\ req'[k].racer = req[k].racer
    BY <2>1, <2>2 DEF Remains
  <2>4. QED
    BY <2>1, <2>3 DEF Promised, RoundIsLocked
\* A registration changes by itself only before the round.
<1>10. ASSUME NEW r \in Racers, Register(r) \/ Withdraw(r) \/ Reactivate(r) \/ LoseDuck(r)
       PROVE  Promised' /\ RoundIsLocked'
  <2>1. UNCHANGED <<event, heat, place, req>>
    BY <1>10 DEF Register, Withdraw, Reactivate, LoseDuck
  <2>2. RoundIsLocked'
    BY <2>1 DEF RoundIsLocked, Heats, Size, In
  <2>3. ASSUME NEW c \in Clients, req[c].op = "pair", event = "ROUND_ONE"
        PROVE  held' = held
    BY <1>10, <2>3 DEF Register, LoseDuck, Withdraw, Reactivate
  <2>4. ASSUME NEW c \in Clients, req[c].op = "pair"
        PROVE  /\ reg'[req[c].racer] = "SUBMITTED" \/ req[c].racer \in held'
               /\ reg'[req[c].racer] \in {"SUBMITTED", "ACTIVE"}
    <3> DEFINE s == req[c].racer
    <3>1. /\ s \in Racers /\ (reg[s] = "SUBMITTED" \/ s \in held)
          /\ reg[s] \in {"SUBMITTED", "ACTIVE"}
      BY <1>0, <2>4, RequestIs DEF PairRequests, Promised
    <3>2. CASE Withdraw(r)
      <4>1. s # r
        BY <2>4, <3>2 DEF Withdraw, Pairing
      <4>2. reg'[s] = reg[s] /\ held' = held
        BY <3>1, <3>2, <4>1 DEF Withdraw, Typed
      <4>3. QED
        BY <3>1, <4>2
    <3> HIDE DEF s
    <3>3. CASE Register(r) \/ Reactivate(r)
      <4>1. reg[r] \in {"absent", "WITHDRAWN"} /\ held' = held
            /\ \E x : reg' = [reg EXCEPT ![r] = x]
        BY <3>3 DEF Register, Reactivate
      <4>2. reg'[s] = reg[s]
        BY <3>1, <4>1 DEF Typed
      <4>3. QED
        BY <3>1, <4>1, <4>2 DEF s
    <3>4. CASE LoseDuck(r)
      <4>1. /\ held' = held \ {r}
            /\ reg' = [reg EXCEPT ![r] = IF reg[r] = "ACTIVE" THEN "SUBMITTED" ELSE reg[r]]
        BY <3>4 DEF LoseDuck
      <4>2. /\ reg'[s] \in {"SUBMITTED", "ACTIVE"}
            /\ s = r => reg'[s] = "SUBMITTED"
            /\ s # r => reg'[s] = reg[s] /\ (s \in held' <=> s \in held)
        BY <3>1, <4>1 DEF Typed
      <4>3. QED
        BY <3>1, <4>2 DEF s
    <3>5. QED
      BY <1>10, <3>2, <3>3, <3>4
  <2>5. Promised'
    BY <2>1, <2>3, <2>4 DEF Promised
  <2>6. QED
    BY <2>2, <2>5
<1>11. ASSUME StartRoundOne PROVE Promised' /\ RoundIsLocked'
  <2>1. /\ UNCHANGED <<place, reg, held, req>> /\ event' = "ROUND_ONE" /\ event = "CLOSED"
        /\ \A r \in Racers : reg[r] # "SUBMITTED"
        /\ \A n \in Heats(heat) : Size(place, n) >= MinimumHeatSize
        /\ heat' = [n \in Numbers |-> IF heat[n].status = "PLANNED"
                                      THEN [heat[n] EXCEPT !.status = "LOADING"] ELSE heat[n]]
    BY <1>11 DEF StartRoundOne, Startable
  <2>2. Promised'
    <3>1. \A c \in Clients : req[c].op = "pair" => req[c].racer \in Racers
      BY <1>0, RequestIs DEF PairRequests
    <3>2. QED
      BY <2>1, <3>1 DEF Promised
  <2>3. ASSUME NEW n \in Heats(heat')
        PROVE  heat'[n].status = "LOADING" /\ Size(place', n) >= MinimumHeatSize
    <3>1. n \in Numbers /\ heat'[n].status # "none" /\ heat[n] \in Rows
      BY <2>3 DEF Heats, Typed, Sound
    <3>2. heat[n].status \in {"PLANNED", "LOADING", "none"}
      BY <3>1 DEF Rows, NoHeat
    <3>3. heat[n].status # "LOADING"
      BY <2>1, <3>1 DEF Typed, Unlocked
    <3>4. heat[n].status # "none"
      BY <2>1, <3>1, <3>2, <3>3
    <3>5. n \in Heats(heat) /\ heat[n].status = "PLANNED"
      BY <3>1, <3>2, <3>3, <3>4 DEF Heats
    <3>6. heat[n] # NoHeat
      BY <3>5 DEF NoHeat
    <3>7. heat'[n].status = "LOADING"
      BY <2>1, <3>1, <3>5, <3>6 DEF Rows
    <3>8. Size(place', n) = Size(place, n)
      BY <2>1
    <3>9. QED
      BY <2>1, <3>5, <3>7, <3>8
  <2>4. QED
    BY <2>2, <2>3 DEF RoundIsLocked
<1>12. CASE UNCHANGED vars
  BY <1>12 DEF vars, Promised, RoundIsLocked, Heats, Size, In
<1>13. QED
  BY <1>2, <1>3, <1>5, <1>6, <1>7, <1>8, <1>9, <1>10, <1>11, <1>12 DEF Next

\* Unless a racer withdraws while a desk is pairing them, the round runs only on
\* locked heats that are large enough: what a desk chose before the start never
\* commits after it.
THEOREM RoundIsLockedHolds ==
  ASSUME LeaveDuringPairing = FALSE
  PROVE  Spec => []RoundIsLocked
<1>1. Init => Promised /\ RoundIsLocked
  BY DEF Init, Promised, RoundIsLocked, Idle
<1>2. Typed /\ Promised /\ RoundIsLocked /\ [Next]_vars
        => Typed' /\ Promised' /\ RoundIsLocked'
  BY TypedStep, LockedStep
<1>3. QED
  BY <1>1, <1>2, TypedInit, PTL DEF Spec

-----------------------------------------------------------------------------
(* Heats without gaps.                                                        *)

Full(ps) == \A n \in Numbers : Filled(In(ps, n), ps, Size(ps, n))
Manned(hs, ps) == \A n \in Heats(hs) : In(ps, n) # {}
\* Whoever has a place has it in a heat that may exist.
Within(ps) == \A r \in Racers : ps[r].heat \in Numbers \cup {0}

LEMMA SoundWithin ==
  ASSUME NEW hs, NEW ps, Sound(hs, ps)
  PROVE  Within(ps) /\ ps \in Places /\ \A n \in Numbers : hs[n] = NoHeat => In(ps, n) = {}
<1>1. Within(ps)
  BY HeatsFinite DEF Sound, Within, Nowhere
<1>2. ASSUME NEW n \in Numbers, hs[n] = NoHeat, NEW r \in In(ps, n) PROVE FALSE
  <2>1. n \notin Heats(hs) /\ n # 0 /\ r \in Racers /\ ps[r].heat = n
    BY <1>2, Constants DEF Heats, NoHeat, In, Numbers
  <2>2. QED
    BY <2>1 DEF Sound, Nowhere
<1>3. QED
  BY <1>1, <1>2 DEF Sound

LEMMA FilledIn ==
  ASSUME NEW ps, NEW n \in Numbers, NEW k \in Nat, Filled(In(ps, n), ps, k)
  PROVE  Size(ps, n) = k
BY InFinite, FilledSize

LEMMA FullDistinct ==
  ASSUME NEW ps, Full(ps), Within(ps)
  PROVE  Distinct(ps)
<1> SUFFICES ASSUME NEW r \in Racers, NEW s \in Racers, r # s, ps[r].heat # 0, ps[r] = ps[s]
             PROVE  FALSE
  BY DEF Distinct
<1>1. PICK n \in Numbers : ps[r].heat = n /\ ps[s].heat = n
  BY DEF Within
<1>2. r \in In(ps, n) /\ s \in In(ps, n) /\ ps[r].slot = ps[s].slot
  BY <1>1 DEF In
<1>3. Slotted(In(ps, n), ps)
  BY DEF Full, Filled
<1>4. QED
  BY <1>2, <1>3 DEF Slotted

LEMMA FullSame ==
  ASSUME NEW ps, NEW qs, NEW n \in Numbers, Full(ps), In(qs, n) = In(ps, n),
         \A r \in In(ps, n) : qs[r] = ps[r]
  PROVE  Filled(In(qs, n), qs, Size(qs, n)) /\ Size(qs, n) = Size(ps, n)
<1>1. Size(qs, n) = Size(ps, n)
  BY DEF Size
<1>2. Filled(In(ps, n), ps, Size(ps, n))
  BY DEF Full
<1>3. QED
  BY <1>1, <1>2 DEF Filled, Slotted

LEMMA FullSlots ==
  ASSUME NEW ps, Full(ps), NEW n \in Numbers, NEW r \in In(ps, n)
  PROVE  ps[r].slot \in 1..Size(ps, n) /\ ps[r].slot \in Nat \ {0}
<1>1. Filled(In(ps, n), ps, Size(ps, n)) /\ Size(ps, n) \in Nat
  BY InFinite DEF Full
<1>2. QED
  BY <1>1 DEF Filled

\* Heat `from` has been put behind the `count` racers of heat `into`.
Joined(ps, qs, into, from, count) ==
  \A r \in Racers : qs[r] = IF ps[r].heat = from
                            THEN [heat |-> into, slot |-> count + ps[r].slot] ELSE ps[r]

LEMMA JoinedIs ==
  ASSUME NEW ps, NEW qs, NEW into \in Numbers, NEW from \in Numbers, into # from,
         NEW count, count = Size(ps, into), Full(ps), Joined(ps, qs, into, from, count)
  PROVE  /\ Full(qs) /\ In(qs, from) = {} /\ In(qs, into) = In(ps, into) \cup In(ps, from)
         /\ \A n \in Numbers \ {into, from} : In(qs, n) = In(ps, n)
         /\ Size(qs, into) = Size(ps, into) + Size(ps, from)
         /\ \A n \in Numbers \ {into, from} : Size(qs, n) = Size(ps, n)
         /\ \A r, s \in Racers : Before(ps, r, s) => Before(qs, r, s)
<1>1. /\ \A r \in In(ps, from) : qs[r] = [heat |-> into, slot |-> count + ps[r].slot]
      /\ \A r \in Racers \ In(ps, from) : qs[r] = ps[r]
  BY DEF Joined, In
<1>b. /\ \A r \in Racers : qs[r].heat = IF ps[r].heat = from THEN into ELSE ps[r].heat
      /\ \A r \in In(ps, from) : qs[r].slot = count + ps[r].slot
  <2>1. ASSUME NEW r \in In(ps, from)
        PROVE  qs[r].heat = into /\ qs[r].slot = count + ps[r].slot
    <3> DEFINE i == count + ps[r].slot
    <3>1. qs[r] = [heat |-> into, slot |-> i]
      BY <1>1
    <3> HIDE DEF i
    <3>2. qs[r].heat = into /\ qs[r].slot = i
      BY <3>1
    <3>3. QED
      BY <3>2 DEF i
  <2>2. ASSUME NEW r \in Racers
        PROVE  qs[r].heat = IF ps[r].heat = from THEN into ELSE ps[r].heat
    <3>1. CASE r \in In(ps, from)
      BY <2>1, <3>1 DEF In
    <3>2. CASE r \notin In(ps, from)
      BY <1>1, <3>2 DEF In
    <3>3. QED
      BY <3>1, <3>2
  <2>3. QED
    BY <2>1, <2>2
<1>2. /\ In(qs, from) = {} /\ In(qs, into) = In(ps, into) \cup In(ps, from)
      /\ \A n \in Numbers \ {into, from} : In(qs, n) = In(ps, n)
  BY <1>b DEF In
<1>3. /\ count \in Nat /\ Size(ps, from) \in Nat
      /\ Filled(In(ps, into), ps, count) /\ Filled(In(ps, from), ps, Size(ps, from))
  BY InFinite DEF Full
<1> DEFINE k == count + Size(ps, from)
<1>4. Filled(In(qs, into), qs, k)
  <2>1. \A r \in In(ps, into) : qs[r] = ps[r]
    BY <1>1 DEF In
  <2>2. /\ \A r \in In(ps, into) : qs[r].slot \in 1..count
        /\ \A r \in In(ps, from) : qs[r].slot \in (count + 1)..k
    <3>1. \A r \in In(ps, from) : ps[r].slot \in 1..Size(ps, from) /\ qs[r].slot = count + ps[r].slot
      BY <1>b, <1>3 DEF Filled
    <3>2. QED
      BY <1>3, <2>1, <3>1 DEF Filled
  <2>3. \A r \in In(qs, into) : qs[r].slot \in 1..k
    BY <1>2, <1>3, <2>2
  <2>4. ASSUME NEW r \in In(qs, into), NEW s \in In(qs, into), qs[r].slot = qs[s].slot PROVE r = s
    <3>1. CASE r \in In(ps, into) /\ s \in In(ps, into)
      BY <1>3, <2>1, <2>4, <3>1 DEF Filled, Slotted
    <3>2. CASE r \in In(ps, from) /\ s \in In(ps, from)
      <4>1. /\ count + ps[r].slot = count + ps[s].slot
            /\ ps[r].slot \in Nat /\ ps[s].slot \in Nat
        BY <1>b, <1>3, <2>4, <3>2 DEF Filled, Slotted
      <4>2. QED
        BY <1>3, <3>2, <4>1 DEF Filled, Slotted
    <3>3. CASE r \in In(ps, into) /\ s \in In(ps, from)
      BY <1>3, <2>2, <2>4, <3>3
    <3>4. CASE r \in In(ps, from) /\ s \in In(ps, into)
      BY <1>3, <2>2, <2>4, <3>4
    <3>5. QED
      BY <1>2, <3>1, <3>2, <3>3, <3>4
  <2>5. ASSUME NEW i \in 1..k PROVE \E r \in In(qs, into) : qs[r].slot = i
    <3>1. CASE i <= count
      <4>1. PICK r \in In(ps, into) : ps[r].slot = i
        BY <1>3, <3>1 DEF Filled
      <4>2. QED
        BY <1>2, <2>1, <4>1
    <3>2. CASE i > count
      <4>1. i - count \in 1..Size(ps, from)
        BY <1>3, <3>2
      <4>2. PICK r \in In(ps, from) : ps[r].slot = i - count
        BY <1>3, <4>1 DEF Filled
      <4>3. qs[r].slot = i
        BY <1>b, <1>3, <4>2
      <4>4. QED
        BY <1>2, <4>3
    <3>3. QED
      BY <1>3, <3>1, <3>2
  <2>6. \A r \in In(qs, into) : qs[r].slot \in Nat
    BY <1>3, <2>3
  <2>7. QED
    BY <2>3, <2>4, <2>5, <2>6 DEF Filled, Slotted
<1>5. Size(qs, into) = k
  BY <1>3, <1>4, FilledIn
<1>6. Filled(In(qs, from), qs, Size(qs, from))
  <2>1. Size(qs, from) = 0
    BY <1>2, InFinite
  <2>2. QED
    BY <1>2, <2>1 DEF Filled, Slotted
<1>7. ASSUME NEW n \in Numbers \ {into, from}
      PROVE  Filled(In(qs, n), qs, Size(qs, n)) /\ Size(qs, n) = Size(ps, n)
  <2>1. In(qs, n) = In(ps, n) /\ \A r \in In(ps, n) : qs[r] = ps[r]
    BY <1>1, <1>2, <1>7 DEF In
  <2>2. QED
    BY <2>1, FullSame
<1>8. Full(qs)
  BY <1>4, <1>5, <1>6, <1>7 DEF Full
<1>9. ASSUME NEW r \in Racers, NEW s \in Racers, Before(ps, r, s) PROVE Before(qs, r, s)
  <2>1. ps[r].heat # 0 /\ ps[r].heat = ps[s].heat /\ ps[r].slot < ps[s].slot
    BY <1>9 DEF Before, Together
  <2>2. CASE ps[r].heat = from
    <3>a. r \in In(ps, from) /\ s \in In(ps, from)
      BY <2>1, <2>2 DEF In
    <3>1. /\ qs[r] = [heat |-> into, slot |-> count + ps[r].slot]
          /\ qs[s] = [heat |-> into, slot |-> count + ps[s].slot]
          /\ ps[r].slot \in Nat /\ ps[s].slot \in Nat /\ into # 0
      BY <1>1, <3>a, FullSlots, Constants DEF Numbers
    <3>2. QED
      BY <1>3, <2>1, <3>1 DEF Before, Together
  <2>3. CASE ps[r].heat # from
    <3>1. qs[r] = ps[r] /\ qs[s] = ps[s]
      BY <1>1, <2>1, <2>3 DEF In
    <3>2. QED
      BY <2>1, <3>1 DEF Before, Together
  <2>4. QED
    BY <2>2, <2>3
<1>10. QED
  BY <1>2, <1>5, <1>7, <1>8, <1>9

\* The racers of heat `from` past its first `keeps` have been put into heat `into`.
Past(ps, from, keeps) == {r \in In(ps, from) : ps[r].slot > keeps}
Parted(ps, qs, from, into, keeps) ==
  /\ \A r \in Past(ps, from, keeps) : qs[r].heat = into /\ qs[r].slot = ps[r].slot - keeps
  /\ \A r \in Racers \ Past(ps, from, keeps) : qs[r] = ps[r]

LEMMA PartedIs ==
  ASSUME NEW ps, NEW qs, NEW from \in Numbers, NEW into \in Numbers, into # from,
         NEW keeps \in Nat, keeps <= Size(ps, from), Full(ps), In(ps, into) = {},
         Parted(ps, qs, from, into, keeps)
  PROVE  /\ Full(qs) /\ In(qs, into) = Past(ps, from, keeps)
         /\ In(qs, from) = {r \in In(ps, from) : ps[r].slot <= keeps}
         /\ \A n \in Numbers \ {into, from} : In(qs, n) = In(ps, n)
         /\ Size(qs, into) = Size(ps, from) - keeps /\ Size(qs, from) = keeps
         /\ \A n \in Numbers \ {into, from} : Size(qs, n) = Size(ps, n)
         /\ \A r, s \in Racers : Before(qs, r, s) => Before(ps, r, s)
<1> DEFINE P == Past(ps, from, keeps)
<1>1. /\ \A r \in P : qs[r].heat = into /\ qs[r].slot = ps[r].slot - keeps
      /\ \A r \in Racers \ P : qs[r] = ps[r]
  BY DEF Parted
<1>2. \A r \in In(ps, from) : ps[r].slot \in 1..Size(ps, from) /\ ps[r].slot \in Nat
  BY FullSlots
<1>3. /\ Size(ps, from) \in Nat /\ IsFiniteSet(In(ps, from))
      /\ Filled(In(ps, from), ps, Size(ps, from)) /\ keeps \in 0..Size(ps, from)
  BY InFinite DEF Full
<1>4. P = {r \in In(ps, from) : ps[r].slot > keeps} /\ P \subseteq In(ps, from)
  BY DEF Past
<1> HIDE DEF P
<1>5. In(qs, into) = P
  BY <1>1, <1>4 DEF In
<1>6. In(qs, from) = {r \in In(ps, from) : ps[r].slot <= keeps}
  <2>1. In(qs, from) = In(ps, from) \ P
    BY <1>1, <1>4 DEF In
  <2>2. QED
    BY <1>2, <1>4, <2>1
<1>7. \A n \in Numbers \ {into, from} : In(qs, n) = In(ps, n)
  BY <1>1, <1>4 DEF In
<1>8. Filled(In(qs, from), qs, keeps)
  <2>1. Filled(In(qs, from), ps, keeps)
    BY <1>3, <1>6, FilledBelow
  <2>2. \A r \in In(qs, from) : qs[r] = ps[r]
    BY <1>1, <1>2, <1>4, <1>6 DEF In
  <2>3. QED
    BY <2>1, <2>2 DEF Filled, Slotted
<1> DEFINE k == Size(ps, from) - keeps
<1>9. k \in Nat
  BY <1>3
<1>10. Filled(In(qs, into), qs, k)
  <2>1. \A r \in P : ps[r].slot \in (keeps + 1)..Size(ps, from) /\ qs[r].slot = ps[r].slot - keeps
    BY <1>1, <1>2, <1>3, <1>4
  <2>2. \A r \in P : qs[r].slot \in 1..k /\ qs[r].slot \in Nat
    BY <1>3, <2>1
  <2>3. ASSUME NEW r \in P, NEW s \in P, qs[r].slot = qs[s].slot PROVE r = s
    <3>1. ps[r].slot = ps[s].slot
      BY <1>3, <2>1, <2>3
    <3>2. QED
      BY <1>3, <1>4, <3>1 DEF Filled, Slotted
  <2>4. ASSUME NEW i \in 1..k PROVE \E r \in P : qs[r].slot = i
    <3>1. keeps + i \in 1..Size(ps, from) /\ keeps + i > keeps
      BY <1>3
    <3>2. PICK r \in In(ps, from) : ps[r].slot = keeps + i
      BY <1>3, <3>1 DEF Filled
    <3>3. r \in P
      BY <1>4, <3>1, <3>2
    <3>4. QED
      BY <1>3, <2>1, <3>2, <3>3
  <2>5. QED
    BY <1>5, <2>2, <2>3, <2>4 DEF Filled, Slotted
<1>11. Size(qs, into) = k /\ Size(qs, from) = keeps
  BY <1>8, <1>9, <1>10, FilledIn
<1>12. ASSUME NEW n \in Numbers \ {into, from}
       PROVE  Filled(In(qs, n), qs, Size(qs, n)) /\ Size(qs, n) = Size(ps, n)
  <2>1. In(qs, n) = In(ps, n) /\ \A r \in In(ps, n) : qs[r] = ps[r]
    BY <1>1, <1>4, <1>7, <1>12 DEF In
  <2>2. QED
    BY <2>1, FullSame
<1>13. Full(qs)
  BY <1>8, <1>10, <1>11, <1>12 DEF Full
<1>14. ASSUME NEW r \in Racers, NEW s \in Racers, Before(qs, r, s) PROVE Before(ps, r, s)
  <2>1. qs[r].heat # 0 /\ qs[r].heat = qs[s].heat /\ qs[r].slot < qs[s].slot
    BY <1>14 DEF Before, Together
  <2>2. CASE r \in P
    <3>1. qs[s].heat = into
      BY <1>1, <2>1, <2>2
    <3>2. s \in P
      BY <1>5, <3>1 DEF In
    <3>3. ps[r].heat = from /\ ps[s].heat = from /\ from # 0
      BY <1>4, <2>2, <3>2, Constants DEF In, Numbers
    <3>4. ps[r].slot < ps[s].slot
      <4>1. ps[r].slot \in Nat /\ ps[s].slot \in Nat
        BY <1>2, <1>4, <2>2, <3>2
      <4>2. ps[r].slot - keeps < ps[s].slot - keeps
        BY <1>1, <2>1, <2>2, <3>2
      <4>3. QED
        BY <4>1, <4>2
    <3>5. QED
      BY <3>3, <3>4 DEF Before, Together
  <2>3. CASE r \notin P
    <3>1. qs[r] = ps[r] /\ ps[r].heat # into
      <4>1. qs[r] = ps[r]
        BY <1>1, <2>3
      <4>2. QED
        BY <4>1 DEF In
    <3>2. s \notin P
      BY <1>1, <2>1, <3>1
    <3>3. qs[s] = ps[s]
      BY <1>1, <3>2
    <3>4. QED
      BY <2>1, <3>1, <3>3 DEF Before, Together
  <2>4. QED
    BY <2>2, <2>3
<1>15. QED
  BY <1>5, <1>6, <1>7, <1>11, <1>12, <1>13, <1>14 DEF P

-----------------------------------------------------------------------------
(* A pass that finds the layout it was planned over.                          *)

\* The heats are unlocked, and their first racers are those of the layout.
Reads(L, hs, ps) ==
  \A n \in DOMAIN L :
    /\ hs[n].status = "PLANNED" /\ L[n].roster # <<>>
    /\ \A i \in 1..Len(L[n].roster) : /\ ps[L[n].roster[i]].heat = n
                                      /\ ps[L[n].roster[i]].slot = i
\* Nothing has been added to them.
Exact(L, hs, ps) ==
  /\ Reads(L, hs, ps) /\ DOMAIN L = Heats(hs)
  /\ \A n \in DOMAIN L : Len(L[n].roster) = Size(ps, n)
Fresh(q) == q.dead = {} /\ q.stale = {}

\* What a fold of two heats that are there makes of a batch.
Merged(q, b, pass, N) ==
  /\ N.heat[pass.into].status = "PLANNED" /\ N.heat[pass.from] = NoHeat
  /\ \A n \in Numbers \ {pass.into, pass.from} : N.heat[n] = b.heat[n]
  /\ MovedTo(q, b.place, pass.moved, pass.from, pass.into, pass.count, N.place)
  /\ N.ok <=> /\ b.ok /\ Distinct(N.place)
              /\ Size(b.place, pass.into) = pass.count /\ pass.count > 0
              /\ In(N.place, pass.from) = {}

LEMMA MergedIs ==
  ASSUME NEW q, q.dead = {}, NEW b, Sound(b.heat, b.place), NEW pass \in FoldPasses(MaxHeat),
         pass.into # pass.from,
         b.heat[pass.into].status = "PLANNED", b.heat[pass.from].status = "PLANNED"
  PROVE  Merged(q, b, pass, Merge(q, b, pass))
<1> DEFINE size == Size(b.place, pass.into)
<1> DEFINE ps == Moves(q, b.place, pass.moved, pass.from, pass.into, pass.count)
<1> DEFINE claimed == [b.heat EXCEPT ![pass.into].target = size]
<1> DEFINE hs == [claimed EXCEPT ![pass.from] = NoHeat]
<1>1. /\ pass.into \in Numbers /\ pass.from \in Numbers /\ pass.count \in Nat
      /\ pass.moved \in Seq(Racers) /\ pass.into \in Nat /\ pass.from \in Nat
  BY Constants DEF FoldPasses, Numbers
<1>2. b.heat \in [Numbers -> Rows] /\ b.place \in Places
  BY DEF Sound
<1>3. Live(q, b.heat, pass.into) /\ Live(q, b.heat, pass.from)
  BY DEF Live
<1>4. /\ Merge(q, b, pass).place = ps /\ Merge(q, b, pass).heat = hs
      /\ Merge(q, b, pass).ok <=> /\ b.ok /\ Distinct(ps) /\ size = pass.count /\ size > 0
                                  /\ In(ps, pass.from) = {}
  BY <1>3 DEF Merge
<1>5. MovedTo(q, b.place, pass.moved, pass.from, pass.into, pass.count, ps)
  BY <1>1, <1>2, MovesIs
<1>6. /\ hs[pass.into].status = "PLANNED" /\ hs[pass.from] = NoHeat
      /\ \A n \in Numbers \ {pass.into, pass.from} : hs[n] = b.heat[n]
  <2>1. b.heat[pass.into] \in Rows /\ b.heat[pass.into].status = "PLANNED"
    BY <1>1, <1>2
  <2>2. [b.heat[pass.into] EXCEPT !.target = size].status = "PLANNED"
    BY <2>1 DEF Rows, NoHeat
  <2>3. claimed = [b.heat EXCEPT ![pass.into] = [b.heat[pass.into] EXCEPT !.target = size]]
    BY <1>1, <1>2
  <2>4. QED
    BY <1>1, <1>2, <2>2, <2>3
<1> HIDE DEF ps, hs
<1>7. QED
  BY <1>4, <1>5, <1>6 DEF Merged

\* The heats and places hs and ps are without gaps.
Tight(hs, ps) == Sound(hs, ps) /\ Full(ps) /\ Manned(hs, ps)

LEMMA ConcatIs ==
  ASSUME NEW s \in Seq(Racers), NEW t \in Seq(Racers), s # <<>>
  PROVE  /\ s \o t # <<>> /\ Len(s) \in Nat /\ Len(t) \in Nat
         /\ \A i \in 1..Len(s \o t) :
              \/ i \in 1..Len(s) /\ (s \o t)[i] = s[i]
              \/ \E j \in 1..Len(t) : i = Len(s) + j /\ (s \o t)[i] = t[j]
<1>1. Len(s) \in Nat \ {0} /\ Len(t) \in Nat
  BY EmptySeq, LenProperties
<1>2. /\ Len(s \o t) = Len(s) + Len(t)
      /\ \A i \in 1..(Len(s) + Len(t)) :
           (s \o t)[i] = IF i <= Len(s) THEN s[i] ELSE t[i - Len(s)]
  BY ConcatProperties
<1>3. s \o t # <<>>
  <2>1. Len(s \o t) # 0
    BY <1>1, <1>2
  <2>2. QED
    BY <2>1, EmptySeq
<1>4. ASSUME NEW i \in 1..Len(s \o t)
      PROVE  \/ i \in 1..Len(s) /\ (s \o t)[i] = s[i]
             \/ \E j \in 1..Len(t) : i = Len(s) + j /\ (s \o t)[i] = t[j]
  <2>1. i \in 1..(Len(s) + Len(t))
    BY <1>2
  <2>2. CASE i <= Len(s)
    BY <1>1, <1>2, <2>1, <2>2
  <2>3. CASE i > Len(s)
    <3>1. (s \o t)[i] = t[i - Len(s)]
      BY <1>1, <1>2, <2>1, <2>3
    <3>2. i - Len(s) \in 1..Len(t) /\ i = Len(s) + (i - Len(s))
      BY <1>1, <2>1, <2>3
    <3>3. QED
      BY <3>1, <3>2
  <2>4. QED
    BY <1>1, <2>1, <2>2, <2>3
<1>5. QED
  BY <1>1, <1>3, <1>4

\* The fold puts all of the tail behind its target, if it leaves nobody there or
\* moves as many as there are.
LEMMA MergeJoins ==
  ASSUME NEW q, Fresh(q), NEW b, Tight(b.heat, b.place), NEW L, LayoutTo(MaxHeat, L),
         ~Runnable(L), Reads(L, b.heat, b.place), NEW into, NEW from,
         into = BeforeTail(L), from = TailOf(L), NEW N, Merged(q, b, FoldPass(L), N),
         Size(b.place, into) = Len(L[into].roster),
         In(N.place, from) = {} \/ Size(b.place, from) = Len(L[from].roster)
  PROVE  Joined(b.place, N.place, into, from, Size(b.place, into))
<1> DEFINE ps == b.place
<1> DEFINE qs == N.place
<1> DEFINE moved == L[from].roster
<1> DEFINE count == Len(L[into].roster)
<1>a. FoldOf(MaxHeat, L, into, from)
  BY Constants, FoldTailIs
<1>1. /\ into \in DOMAIN L /\ from \in DOMAIN L /\ into < from
      /\ FoldPass(L) = [into |-> into, count |-> count, from |-> from, moved |-> moved]
  BY <1>a DEF FoldOf
<1>2. MovedTo(q, ps, moved, from, into, count, qs)
  BY <1>1 DEF Merged
<1>3. /\ Len(moved) \in Nat
      /\ \A i \in 1..Len(moved) : ps[moved[i]].heat = from /\ ps[moved[i]].slot = i
  BY <1>1, LenProperties DEF LayoutTo, Slate, Reads
<1>4. from \in Numbers
  BY <1>1 DEF LayoutTo, Numbers
<1>5. moved \in Seq(Racers)
  BY <1>1 DEF LayoutTo, Slate
<1> SUFFICES ASSUME NEW r \in Racers
             PROVE  qs[r] = IF ps[r].heat = from
                            THEN [heat |-> into, slot |-> count + ps[r].slot] ELSE ps[r]
  BY DEF Joined
<1> HIDE DEF ps, qs, moved, count
<1>6. CASE ps[r].heat # from
  BY <1>2, <1>6 DEF MovedTo
<1>7. CASE ps[r].heat = from
  <2>1. \E i \in 1..Len(moved) : moved[i] = r /\ qs[r] = [heat |-> into, slot |-> count + i]
    <3>1. CASE In(qs, from) = {}
      <4>1. qs[r] # ps[r]
        BY <1>7, <3>1 DEF In
      <4>2. QED
        BY <1>2, <4>1 DEF MovedTo
    <3>2. CASE Size(ps, from) = Len(moved)
      <4>1. r \in In(ps, from) /\ Filled(In(ps, from), ps, Len(moved))
        BY <1>4, <1>7, <3>2 DEF In, Full, Tight, ps
      <4>2. PICK i \in 1..Len(moved) : ps[r].slot = i
        BY <4>1 DEF Filled
      <4>3. moved[i] \in In(ps, from)
        BY <1>3, <1>5, <4>2, ElementOfSeq DEF In
      <4>4. moved[i] = r
        BY <1>3, <4>1, <4>2, <4>3 DEF Filled, Slotted
      <4>5. qs[moved[i]] = [heat |-> into, slot |-> count + i]
        BY <1>2, <1>3, <4>2 DEF MovedTo, Fresh
      <4>6. QED
        BY <4>2, <4>4, <4>5
    <3>3. QED
      BY <3>1, <3>2 DEF ps, qs, moved
  <2>2. PICK i \in 1..Len(moved) : moved[i] = r /\ qs[r] = [heat |-> into, slot |-> count + i]
    BY <2>1
  <2>3. ps[r].slot = i
    BY <1>3, <2>2
  <2>4. QED
    BY <1>7, <2>2, <2>3
<1>8. QED
  BY <1>6, <1>7

LEMMA FoldedReads ==
  ASSUME NEW q, NEW b, Tight(b.heat, b.place), NEW L, LayoutTo(MaxHeat, L),
         ~Runnable(L), Reads(L, b.heat, b.place), NEW into, NEW from,
         into = BeforeTail(L), from = TailOf(L), NEW N, Merged(q, b, FoldPass(L), N),
         Size(b.place, into) = Len(L[into].roster), N.place \in Places,
         Joined(b.place, N.place, into, from, Size(b.place, into))
  PROVE  /\ Reads(FoldTail(L), N.heat, N.place) /\ Full(N.place) /\ Manned(N.heat, N.place)
         /\ Within(N.place) /\ Heats(N.heat) = Heats(b.heat) \ {from}
         /\ In(N.place, from) = {}
         /\ Exact(L, b.heat, b.place) => Exact(FoldTail(L), N.heat, N.place)
         /\ \A r, s \in Racers : Before(b.place, r, s) => Before(N.place, r, s)
<1> DEFINE ps == b.place
<1> DEFINE qs == N.place
<1> DEFINE count == Len(L[into].roster)
<1>a. FoldOf(MaxHeat, L, into, from)
  BY Constants, FoldTailIs
<1>1. /\ into \in DOMAIN L /\ from \in DOMAIN L /\ into < from
      /\ FoldPass(L) = [into |-> into, count |-> count, from |-> from, moved |-> L[from].roster]
      /\ LayoutTo(MaxHeat, FoldTail(L)) /\ DOMAIN FoldTail(L) = DOMAIN L \ {from}
      /\ FoldTail(L)[into].roster = L[into].roster \o L[from].roster
      /\ \A n \in DOMAIN L \ {into, from} : FoldTail(L)[n] = L[n]
  BY <1>a DEF FoldOf
<1>2. /\ into \in Numbers /\ from \in Numbers /\ into # from
      /\ DOMAIN L \in SUBSET Numbers /\ \A n \in DOMAIN L : L[n].roster \in Seq(Racers)
  BY <1>1 DEF LayoutTo, Numbers, Slate
<1>3. /\ Full(qs) /\ In(qs, from) = {} /\ In(qs, into) = In(ps, into) \cup In(ps, from)
      /\ \A n \in Numbers \ {into, from} : In(qs, n) = In(ps, n)
      /\ Size(qs, into) = Size(ps, into) + Size(ps, from)
      /\ \A n \in Numbers \ {into, from} : Size(qs, n) = Size(ps, n)
      /\ \A r, s \in Racers : Before(ps, r, s) => Before(qs, r, s)
  BY <1>2, JoinedIs DEF Tight
<1>4. /\ N.heat[into].status = "PLANNED" /\ N.heat[from] = NoHeat
      /\ \A n \in Numbers \ {into, from} : N.heat[n] = b.heat[n]
  BY <1>1 DEF Merged
<1>5. b.heat[into].status = "PLANNED" /\ b.heat[from].status = "PLANNED"
  BY <1>1 DEF Reads
<1>6. Heats(N.heat) = Heats(b.heat) \ {from}
  BY <1>2, <1>4, <1>5 DEF Heats, NoHeat
<1>7. Manned(N.heat, qs)
  <2>1. ASSUME NEW n \in Heats(N.heat) PROVE In(qs, n) # {}
    <3>1. n \in Heats(b.heat) /\ n # from /\ In(ps, n) # {} /\ n \in Numbers
      BY <1>6, <2>1, HeatsFinite DEF Manned, Tight
    <3>2. QED
      BY <1>3, <3>1
  <2>2. QED
    BY <2>1 DEF Manned
<1>8. /\ \A r \in Racers : ps[r].heat # from => qs[r] = ps[r]
      /\ \A r \in Racers : ps[r].heat = from
                             => qs[r] = [heat |-> into, slot |-> Size(ps, into) + ps[r].slot]
  BY DEF Joined
<1>9. Within(qs)
  <2>1. Within(ps)
    BY SoundWithin DEF Tight
  <2>2. ASSUME NEW r \in Racers PROVE qs[r].heat \in Numbers \cup {0}
    <3>1. CASE ps[r].heat # from
      BY <1>8, <2>1, <3>1 DEF Within
    <3>2. CASE ps[r].heat = from
      <4>1. r \in In(qs, into)
        BY <1>3, <3>2 DEF In
      <4>2. QED
        BY <1>2, <4>1 DEF In
    <3>3. QED
      BY <3>1, <3>2
  <2>3. QED
    BY <2>2 DEF Within
<1>10. Reads(FoldTail(L), N.heat, qs)
  <2>1. ASSUME NEW n \in DOMAIN L \ {into, from}, NEW i \in 1..Len(L[n].roster)
        PROVE  qs[L[n].roster[i]].heat = n /\ qs[L[n].roster[i]].slot = i
    <3>1. L[n].roster[i] \in Racers
      BY <1>2, <2>1, ElementOfSeq
    <3>2. ps[L[n].roster[i]].heat = n /\ ps[L[n].roster[i]].slot = i
      BY <2>1 DEF Reads
    <3>3. QED
      BY <1>8, <2>1, <3>1, <3>2
  <2>2. ASSUME NEW n \in DOMAIN L \ {into, from}
        PROVE  N.heat[n].status = "PLANNED" /\ L[n].roster # <<>>
    BY <1>2, <1>4, <2>2 DEF Reads
  <2> DEFINE whole == L[into].roster \o L[from].roster
  <2>3. /\ L[into].roster \in Seq(Racers) /\ L[from].roster \in Seq(Racers)
        /\ L[into].roster # <<>> /\ count \in Nat /\ Len(L[from].roster) \in Nat
    BY <1>1, <1>2, LenProperties DEF Reads
  <2>4. /\ whole # <<>> /\ Len(L[into].roster) \in Nat /\ Len(L[from].roster) \in Nat
        /\ \A i \in 1..Len(whole) :
             \/ i \in 1..Len(L[into].roster) /\ whole[i] = L[into].roster[i]
             \/ \E j \in 1..Len(L[from].roster) :
                  i = Len(L[into].roster) + j /\ whole[i] = L[from].roster[j]
    BY <2>3, ConcatIs
  <2> HIDE DEF whole
  <2>5. ASSUME NEW i \in 1..Len(whole) PROVE qs[whole[i]].heat = into /\ qs[whole[i]].slot = i
    <3>1. CASE i \in 1..Len(L[into].roster) /\ whole[i] = L[into].roster[i]
      <4>1. whole[i] \in Racers
        BY <2>3, <3>1, ElementOfSeq
      <4>2. ps[whole[i]].heat = into /\ ps[whole[i]].slot = i
        BY <1>1, <3>1 DEF Reads
      <4>3. QED
        BY <1>2, <1>8, <4>1, <4>2
    <3>2. CASE \E j \in 1..Len(L[from].roster) :
                 i = Len(L[into].roster) + j /\ whole[i] = L[from].roster[j]
      <4>1. PICK j \in 1..Len(L[from].roster) :
              i = Len(L[into].roster) + j /\ whole[i] = L[from].roster[j]
        BY <3>2
      <4>2. whole[i] \in Racers
        BY <2>3, <4>1, ElementOfSeq
      <4>3. ps[whole[i]].heat = from /\ ps[whole[i]].slot = j
        BY <1>1, <4>1 DEF Reads
      <4>4. qs[whole[i]] = [heat |-> into, slot |-> Size(ps, into) + j]
        BY <1>8, <4>2, <4>3
      <4>5. Size(ps, into) + j = i
        BY <4>1
      <4>6. QED
        BY <4>4, <4>5
    <3>3. QED
      BY <2>4, <3>1, <3>2
  <2>6. FoldTail(L)[into].roster = whole
    BY <1>1 DEF whole
  <2>7. ASSUME NEW n \in DOMAIN FoldTail(L)
        PROVE  /\ N.heat[n].status = "PLANNED" /\ FoldTail(L)[n].roster # <<>>
               /\ \A i \in 1..Len(FoldTail(L)[n].roster) :
                    /\ qs[FoldTail(L)[n].roster[i]].heat = n
                    /\ qs[FoldTail(L)[n].roster[i]].slot = i
    <3>1. CASE n = into
      BY <1>4, <2>4, <2>5, <2>6, <3>1
    <3>2. CASE n # into
      <4>1. n \in DOMAIN L \ {into, from} /\ FoldTail(L)[n] = L[n]
        BY <1>1, <2>7, <3>2
      <4>2. QED
        BY <2>1, <2>2, <4>1
    <3>3. QED
      BY <3>1, <3>2
  <2>8. QED
    BY <2>7 DEF Reads
<1>11. ASSUME Exact(L, b.heat, b.place) PROVE Exact(FoldTail(L), N.heat, qs)
  <2>1. DOMAIN FoldTail(L) = Heats(N.heat)
    BY <1>1, <1>6, <1>11 DEF Exact
  <2>2. Len(FoldTail(L)[into].roster) = Size(qs, into)
    <3>1. Size(ps, into) = Len(L[into].roster) /\ Size(ps, from) = Len(L[from].roster)
      BY <1>1, <1>11 DEF Exact
    <3>2. L[into].roster \in Seq(Racers) /\ L[from].roster \in Seq(Racers)
      BY <1>1, <1>2
    <3>3. QED
      BY <1>1, <1>3, <3>1, <3>2, ConcatProperties
  <2>3. ASSUME NEW n \in DOMAIN FoldTail(L), n # into
        PROVE  Len(FoldTail(L)[n].roster) = Size(qs, n)
    BY <1>1, <1>2, <1>3, <1>11, <2>3 DEF Exact
  <2>4. QED
    BY <1>10, <2>1, <2>2, <2>3 DEF Exact
<1>12. QED
  BY <1>3, <1>6, <1>7, <1>9, <1>10, <1>11

\* The order of the racers of a heat in ps is that in qs.
Orders(ps, qs) == \A r, s \in Racers : Before(ps, r, s) => Before(qs, r, s)

LEMMA FoldMerges ==
  ASSUME NEW q, Fresh(q), NEW b, Tight(b.heat, b.place), NEW L, LayoutTo(MaxHeat, L),
         ~Runnable(L), Reads(L, b.heat, b.place)
  PROVE  /\ FoldPass(L) \in FoldPasses(MaxHeat)
         /\ FoldOf(MaxHeat, L, BeforeTail(L), TailOf(L))
         /\ FoldPass(L).into = BeforeTail(L) /\ FoldPass(L).from = TailOf(L)
         /\ FoldPass(L).count = Len(L[BeforeTail(L)].roster)
         /\ BeforeTail(L) \in Numbers /\ TailOf(L) \in Numbers
         /\ Merged(q, b, FoldPass(L), Merge(q, b, FoldPass(L)))
         /\ Merge(q, b, FoldPass(L)).place \in Places
<1>1. FoldOf(MaxHeat, L, BeforeTail(L), TailOf(L))
  BY Constants, FoldTailIs
<1>2. /\ BeforeTail(L) \in DOMAIN L /\ TailOf(L) \in DOMAIN L /\ BeforeTail(L) < TailOf(L)
      /\ FoldPass(L) \in FoldPasses(MaxHeat)
      /\ FoldPass(L) = [into |-> BeforeTail(L), count |-> Len(L[BeforeTail(L)].roster),
                        from |-> TailOf(L), moved |-> L[TailOf(L)].roster]
  BY <1>1 DEF FoldOf
<1>3. /\ FoldPass(L).into = BeforeTail(L) /\ FoldPass(L).from = TailOf(L)
      /\ FoldPass(L).count = Len(L[BeforeTail(L)].roster)
  BY <1>2
<1>4. BeforeTail(L) \in Numbers /\ TailOf(L) \in Numbers
  BY <1>2 DEF LayoutTo, Numbers
<1>5. /\ b.heat[FoldPass(L).into].status = "PLANNED" /\ b.heat[FoldPass(L).from].status = "PLANNED"
      /\ FoldPass(L).into # FoldPass(L).from
  BY <1>2, <1>3, <1>4, Constants DEF Reads, Numbers
<1>6. Merged(q, b, FoldPass(L), Merge(q, b, FoldPass(L)))
  BY <1>2, <1>5, MergedIs DEF Fresh, Tight
<1>7. Merge(q, b, FoldPass(L)).place \in Places
  BY <1>6 DEF Merged, MovedTo
<1>8. QED
  BY <1>1, <1>2, <1>3, <1>4, <1>6, <1>7

LEMMA MergeExact ==
  ASSUME NEW q, Fresh(q), NEW b, Tight(b.heat, b.place), NEW L, LayoutTo(MaxHeat, L),
         ~Runnable(L), Reads(L, b.heat, b.place),
         NEW N, N = Merge(q, b, FoldPass(L)), N.ok
  PROVE  /\ b.ok /\ Tight(N.heat, N.place) /\ Orders(b.place, N.place)
         /\ Reads(FoldTail(L), N.heat, N.place)
<1> DEFINE into == BeforeTail(L)
<1> DEFINE from == TailOf(L)
<1>1. /\ FoldPass(L) \in FoldPasses(MaxHeat) /\ Merged(q, b, FoldPass(L), N)
      /\ FoldPass(L).into = into /\ FoldPass(L).from = from
      /\ FoldPass(L).count = Len(L[into].roster) /\ N.place \in Places
  BY FoldMerges
<1>2. b.ok /\ Sound(N.heat, N.place)
  BY <1>1, MergeSound DEF Tight, Follows
<1>3. Size(b.place, into) = Len(L[into].roster) /\ In(N.place, from) = {}
  BY <1>1 DEF Merged
<1>4. Joined(b.place, N.place, into, from, Size(b.place, into))
  BY <1>1, <1>3, MergeJoins
<1>5. /\ Reads(FoldTail(L), N.heat, N.place) /\ Full(N.place) /\ Manned(N.heat, N.place)
      /\ \A r, s \in Racers : Before(b.place, r, s) => Before(N.place, r, s)
  BY <1>1, <1>3, <1>4, FoldedReads
<1>6. QED
  BY <1>2, <1>5 DEF Tight, Orders

LEMMA MergeFresh ==
  ASSUME NEW q, Fresh(q), NEW b, Tight(b.heat, b.place), NEW L, LayoutTo(MaxHeat, L),
         ~Runnable(L), Exact(L, b.heat, b.place), b.ok,
         NEW N, N = Merge(q, b, FoldPass(L))
  PROVE  N.ok /\ Exact(FoldTail(L), N.heat, N.place)
<1> DEFINE into == BeforeTail(L)
<1> DEFINE from == TailOf(L)
<1>r. Reads(L, b.heat, b.place)
  BY DEF Exact
<1>1. /\ FoldPass(L) \in FoldPasses(MaxHeat) /\ Merged(q, b, FoldPass(L), N)
      /\ FoldOf(MaxHeat, L, into, from)
      /\ FoldPass(L).into = into /\ FoldPass(L).from = from
      /\ FoldPass(L).count = Len(L[into].roster) /\ N.place \in Places
  BY <1>r, FoldMerges
<1>2. into \in DOMAIN L /\ from \in DOMAIN L
  BY <1>1 DEF FoldOf
<1>3. /\ Size(b.place, into) = Len(L[into].roster) /\ Size(b.place, from) = Len(L[from].roster)
      /\ L[into].roster # <<>> /\ L[into].roster \in Seq(Racers)
  BY <1>2 DEF Exact, Reads, LayoutTo, Slate
<1>4. Joined(b.place, N.place, into, from, Size(b.place, into))
  BY <1>r, <1>1, <1>3, MergeJoins
<1>5. /\ Exact(FoldTail(L), N.heat, N.place) /\ Full(N.place) /\ Within(N.place)
      /\ In(N.place, from) = {}
  BY <1>r, <1>1, <1>3, <1>4, FoldedReads
<1>6. Distinct(N.place)
  BY <1>5, FullDistinct
<1>7. Len(L[into].roster) > 0
  BY <1>3, EmptySeq
<1>8. N.ok
  BY <1>1, <1>3, <1>5, <1>6, <1>7 DEF Merged
<1>9. QED
  BY <1>5, <1>8

\* A batch that keeps the heats without gaps, and the order of everybody in them.
Closes(b) == b.ok => Tight(b.heat, b.place) /\ Orders(place, b.place)

LEMMA FoldRuns ==
  ASSUME Tight(heat, place), NEW q, Fresh(q), NEW L, LayoutTo(MaxHeat, L),
         Reads(L, heat, place), NEW m \in Nat, MergesOver(MaxHeat, L, m), q.passes = Merges(L)
  PROVE  /\ Closes(Folded(q))
         /\ Exact(L, heat, place)
              => Folded(q).ok /\ Exact(Folding(L)[m], Folded(q).heat, Folded(q).place)
<1> DEFINE F == Folding(L)
<1> DEFINE run == Fold(q)
<1>1. /\ F[0] = L /\ \A k \in 0..m : LayoutTo(MaxHeat, F[k])
      /\ \A k \in 0..m : k < m => /\ ~Runnable(F[k]) /\ F[k + 1] = FoldTail(F[k])
                                  /\ q.passes[k + 1] = FoldPass(F[k])
      /\ Len(q.passes) = m
  BY DEF MergesOver
<1>2. run[0] = Untouched /\ \A k \in 0..m : k < m => run[k + 1] = Merge(q, run[k], q.passes[k + 1])
  BY <1>1, FoldIs
<1>3. Folded(q) = run[m]
  BY <1>1 DEF Folded
<1> HIDE DEF F, run
<1> DEFINE P == {k \in 0..m : /\ Closes(run[k])
                              /\ run[k].ok => Reads(F[k], run[k].heat, run[k].place)
                              /\ Exact(L, heat, place)
                                   => run[k].ok /\ Exact(F[k], run[k].heat, run[k].place)}
<1>4. 0 \in P
  <2>1. run[0].ok /\ run[0].heat = heat /\ run[0].place = place /\ F[0] = L
    BY <1>1, <1>2 DEF Untouched
  <2>2. QED
    BY <2>1 DEF Closes, Orders
<1>5. ASSUME NEW k \in 0..m, k \in P, k < m PROVE k + 1 \in P
  <2>1. k + 1 \in 0..m
    BY <1>5
  <2> DEFINE b == run[k]
  <2> DEFINE N == Merge(q, b, FoldPass(F[k]))
  <2>2. run[k + 1] = N /\ LayoutTo(MaxHeat, F[k]) /\ ~Runnable(F[k]) /\ F[k + 1] = FoldTail(F[k])
    BY <1>1, <1>2, <1>5
  <2>3. /\ Closes(b)
        /\ b.ok => Reads(F[k], b.heat, b.place)
        /\ Exact(L, heat, place) => b.ok /\ Exact(F[k], b.heat, b.place)
    BY <1>5
  <2>4. N.ok => b.ok
    BY DEF Merge
  <2> HIDE DEF b, N
  <2>5. ASSUME N.ok
        PROVE  /\ Tight(N.heat, N.place) /\ Reads(FoldTail(F[k]), N.heat, N.place)
               /\ Orders(b.place, N.place) /\ Orders(place, b.place)
    <3>1. Tight(b.heat, b.place) /\ Reads(F[k], b.heat, b.place) /\ Orders(place, b.place)
      BY <2>3, <2>4, <2>5 DEF Closes
    <3>2. QED
      BY <2>2, <2>5, <3>1, MergeExact DEF N
  <2>6. Closes(N)
    BY <2>5 DEF Closes, Orders
  <2>7. ASSUME Exact(L, heat, place)
        PROVE  N.ok /\ Exact(FoldTail(F[k]), N.heat, N.place)
    <3>1. b.ok /\ Tight(b.heat, b.place) /\ Exact(F[k], b.heat, b.place)
      BY <2>3, <2>7 DEF Closes
    <3>2. QED
      BY <2>2, <3>1, MergeFresh DEF N
  <2>8. QED
    BY <2>1, <2>2, <2>5, <2>6, <2>7
<1>6. m \in P
  <2> HIDE DEF P
  <2>1. 0..m \subseteq P
    BY <1>4, <1>5, Reaches
  <2>2. QED
    BY <2>1
<1>7. QED
  BY <1>3, <1>6 DEF F

\* The sequence s is t, of length k, and u.
Cut(s, k, t, u) ==
  /\ t \in Seq(Racers) /\ Len(t) = k /\ t # <<>> /\ Len(s) \in Nat
  /\ u \in Seq(Racers) /\ Len(u) = Len(s) - k /\ u # <<>>
  /\ \A i \in 1..k : i \in 1..Len(s) /\ t[i] = s[i]
  /\ \A i \in 1..Len(u) : k + i \in 1..Len(s) /\ u[i] = s[k + i]

LEMMA CutIs ==
  ASSUME NEW s \in Seq(Racers), NEW k \in Nat \ {0}, k < Len(s), NEW t, NEW u,
         t = SubSeq(s, 1, k), u = SubSeq(s, k + 1, Len(s))
  PROVE  Cut(s, k, t, u)
<1>1. Len(s) \in Nat /\ \A i \in 1..Len(s) : s[i] \in Racers
  BY LenProperties, ElementOfSeq
<1>2. /\ t \in Seq(Racers) /\ Len(t) = k
      /\ \A i \in 1..k : i \in 1..Len(s) /\ t[i] = s[i]
  <2>1. \A i \in 1..k : s[i] \in Racers /\ i \in 1..Len(s)
    BY <1>1
  <2>2. /\ t \in Seq(Racers) /\ Len(t) = IF 1 <= k THEN k - 1 + 1 ELSE 0
        /\ \A i \in 1..(k - 1 + 1) : t[i] = s[1 + i - 1]
    BY <2>1, SubSeqProperties
  <2>3. \A i \in 1..k : t[i] = s[i]
    <3>1. ASSUME NEW i \in 1..k PROVE t[i] = s[i]
      <4>1. i \in 1..(k - 1 + 1) /\ 1 + i - 1 = i
        OBVIOUS
      <4>2. QED
        BY <2>2, <4>1
    <3>2. QED
      BY <3>1
  <2>4. QED
    BY <2>1, <2>2, <2>3
<1>3. /\ u \in Seq(Racers) /\ Len(u) = Len(s) - k
      /\ \A i \in 1..Len(u) : k + i \in 1..Len(s) /\ u[i] = s[k + i]
  <2>1. \A i \in (k + 1)..Len(s) : s[i] \in Racers
    BY <1>1
  <2>2. /\ u \in Seq(Racers)
        /\ Len(u) = IF k + 1 <= Len(s) THEN Len(s) - (k + 1) + 1 ELSE 0
        /\ \A i \in 1..(Len(s) - (k + 1) + 1) : u[i] = s[(k + 1) + i - 1]
    BY <1>1, <2>1, SubSeqProperties
  <2>3. Len(u) = Len(s) - k
    BY <1>1, <2>2
  <2>4. ASSUME NEW i \in 1..Len(u) PROVE k + i \in 1..Len(s) /\ u[i] = s[k + i]
    <3>1. i \in 1..(Len(s) - (k + 1) + 1) /\ (k + 1) + i - 1 = k + i /\ k + i \in 1..Len(s)
      BY <1>1, <2>3
    <3>2. QED
      BY <2>2, <3>1
  <2>5. QED
    BY <2>2, <2>3, <2>4
<1>4. t # <<>> /\ u # <<>>
  <2>1. Len(t) # 0 /\ Len(u) # 0
    BY <1>1, <1>2, <1>3
  <2>2. QED
    BY <2>1, EmptySeq
<1>5. QED
  BY <1>1, <1>2, <1>3, <1>4 DEF Cut

\* What a split of a heat that is there makes of a batch.
Fits(b, pass) ==
  /\ Cardinality(Past(b.place, pass.from, pass.keeps)) = Len(pass.moved)
  /\ Cardinality(Heats(b.heat)) < FinalCapacity
Forked(q, b, pass, N) ==
  /\ MovedTo(q, b.place, pass.moved, pass.from, pass.into, 0, N.place)
  /\ N.ok <=> /\ b.ok /\ Distinct(N.place)
              /\ Fits(b, pass) => b.heat[pass.into] = NoHeat
              /\ N.place # b.place => Fits(b, pass)
  /\ Fits(b, pass) => /\ N.heat[pass.from].status = "PLANNED"
                      /\ N.heat[pass.from].target = Capacity
                      /\ N.heat[pass.into] = Planned(Capacity)
                      /\ \A n \in Numbers \ {pass.into, pass.from} : N.heat[n] = b.heat[n]

LEMMA ForkedIs ==
  ASSUME NEW q, q.dead = {}, NEW b, Sound(b.heat, b.place), NEW pass \in SplitPasses,
         pass.into \in Numbers, b.heat[pass.from].status = "PLANNED"
  PROVE  Forked(q, b, pass, Split(q, b, pass))
<1> DEFINE ps == Moves(q, b.place, pass.moved, pass.from, pass.into, 0)
<1> DEFINE returned == [b.heat EXCEPT ![pass.from].target = Capacity]
<1> DEFINE hs == IF SplitFits(q, b, pass)
                 THEN [returned EXCEPT ![pass.into] = Planned(Capacity)] ELSE returned
<1>1. /\ pass.into \in Numbers /\ pass.from \in Numbers /\ pass.moved \in Seq(Racers)
      /\ pass.into \in Nat /\ pass.from \in Nat /\ pass.into # pass.from
  BY Constants DEF SplitPasses, Numbers
<1>2. b.heat \in [Numbers -> Rows] /\ b.place \in Places
  BY DEF Sound
<1>3. Live(q, b.heat, pass.from)
  BY DEF Live
<1>4. SplitFits(q, b, pass) <=> Fits(b, pass)
  BY <1>3 DEF SplitFits, Fits, Past
<1>5. /\ Split(q, b, pass).place = ps /\ Split(q, b, pass).heat = hs
      /\ Split(q, b, pass).ok <=> /\ b.ok /\ Distinct(ps)
                                  /\ SplitFits(q, b, pass) => b.heat[pass.into] = NoHeat
                                  /\ ps # b.place => SplitFits(q, b, pass)
  BY <1>3 DEF Split
<1>6. MovedTo(q, b.place, pass.moved, pass.from, pass.into, 0, ps)
  BY <1>1, <1>2, MovesIs
<1>7. ASSUME SplitFits(q, b, pass)
      PROVE  /\ hs[pass.from].status = "PLANNED" /\ hs[pass.from].target = Capacity
             /\ hs[pass.into] = Planned(Capacity)
             /\ \A n \in Numbers \ {pass.into, pass.from} : hs[n] = b.heat[n]
  <2>1. b.heat[pass.from] \in Rows /\ b.heat[pass.from].status = "PLANNED"
    BY <1>1, <1>2
  <2>2. /\ [b.heat[pass.from] EXCEPT !.target = Capacity].status = "PLANNED"
        /\ [b.heat[pass.from] EXCEPT !.target = Capacity].target = Capacity
    BY <2>1 DEF Rows, NoHeat
  <2>3. returned = [b.heat EXCEPT ![pass.from] = [b.heat[pass.from] EXCEPT !.target = Capacity]]
    BY <1>1, <1>2
  <2>4. QED
    BY <1>1, <1>2, <1>7, <2>2, <2>3
<1> HIDE DEF ps, hs
<1>8. QED
  BY <1>4, <1>5, <1>6, <1>7 DEF Forked

\* A split that fits moves exactly the racers past the slots the heat keeps.
LEMMA SplitParts ==
  ASSUME NEW q, Fresh(q), NEW b, Tight(b.heat, b.place), NEW B \in Nat, NEW L, LayoutTo(B, L),
         Reads(L, b.heat, b.place),
         NEW from \in Nat \ {0}, NEW into \in Numbers, NEW keeps \in Nat \ {0},
         SplitOf(L, SplitHeat(L), from, keeps, into),
         NEW N, Forked(q, b, SplitPass(L), N), Fits(b, SplitPass(L))
  PROVE  /\ Parted(b.place, N.place, from, into, keeps)
         /\ Size(b.place, from) = Len(L[from].roster)
<1> DEFINE ps == b.place
<1> DEFINE qs == N.place
<1> DEFINE roster == L[from].roster
<1> DEFINE moved == SubSeq(roster, keeps + 1, Len(roster))
<1>1. /\ from \in DOMAIN L /\ keeps < Len(roster) /\ from < into
      /\ SplitPass(L) = [from |-> from, keeps |-> keeps, into |-> into, moved |-> moved]
  BY DEF SplitOf
<1>2. from \in Numbers /\ roster \in Seq(Racers) /\ from # into
  BY <1>1, Constants DEF LayoutTo, Slate, Numbers
<1> HIDE DEF roster
<1>3. /\ moved \in Seq(Racers) /\ Len(moved) = Len(roster) - keeps
      /\ \A i \in 1..Len(moved) : keeps + i \in 1..Len(roster) /\ moved[i] = roster[keeps + i]
  <2>1. Cut(roster, keeps, SubSeq(roster, 1, keeps), moved)
    BY <1>1, <1>2, CutIs
  <2>2. QED
    BY <2>1 DEF Cut
<1>4. MovedTo(q, ps, moved, from, into, 0, qs)
  BY <1>1 DEF Forked
<1>5. Cardinality(Past(ps, from, keeps)) = Len(moved)
  BY <1>1 DEF Fits
<1>6. \A i \in 1..Len(roster) : /\ ps[roster[i]].heat = from /\ ps[roster[i]].slot = i
                                /\ roster[i] \in In(ps, from)
  <2>1. \A i \in 1..Len(roster) : ps[roster[i]].heat = from /\ ps[roster[i]].slot = i
    BY <1>1 DEF Reads, roster
  <2>2. \A i \in 1..Len(roster) : roster[i] \in Racers
    BY <1>2, ElementOfSeq
  <2>3. QED
    BY <2>1, <2>2 DEF In
<1>7. /\ Filled(In(ps, from), ps, Size(ps, from)) /\ IsFiniteSet(In(ps, from))
      /\ Size(ps, from) \in Nat /\ Len(roster) \in Nat /\ Len(moved) \in Nat
  BY <1>2, <1>3, InFinite, LenProperties DEF Tight, Full
<1> HIDE DEF ps, qs, moved
<1>m. ASSUME NEW i \in 1..Len(moved)
      PROVE  qs[moved[i]] = [heat |-> into, slot |-> 0 + i]
  <2>1. ps[moved[i]].heat = from
    BY <1>3, <1>6
  <2>2. \A j \in 1..Len(moved) : moved[j] = moved[i] => j = i
    <3>1. \A j \in 1..Len(moved) : ps[moved[j]].slot = keeps + j
      BY <1>3, <1>6
    <3>2. \A j \in 1..Len(moved) : keeps + j = keeps + i => j = i
      BY <1>7
    <3>3. QED
      BY <3>1, <3>2
  <2>3. QED
    BY <1>4, <2>1, <2>2 DEF MovedTo, Fresh
<1>8. Len(roster) <= Size(ps, from)
  <2>1. Len(roster) \in 1..Len(roster)
    BY <1>1, <1>7
  <2>2. Len(roster) \in 1..Size(ps, from)
    BY <1>6, <1>7, <2>1 DEF Filled
  <2>3. QED
    BY <1>7, <2>2
<1>9. Size(ps, from) = Len(roster)
  <2>1. keeps \in 0..Size(ps, from)
    BY <1>1, <1>7, <1>8
  <2>2. Cardinality({s \in In(ps, from) : ps[s].slot > keeps}) = Size(ps, from) - keeps
    BY <1>7, <2>1, FilledPast
  <2>3. QED
    BY <1>3, <1>5, <1>7, <2>2 DEF Past
<1>10. ASSUME NEW r \in Past(ps, from, keeps)
       PROVE  qs[r].heat = into /\ qs[r].slot = ps[r].slot - keeps
  <2>1. r \in In(ps, from) /\ ps[r].slot > keeps /\ ps[r].slot \in 1..Len(roster)
    BY <1>7, <1>9, <1>10 DEF Past, Filled
  <2>2. PICK k \in 1..Len(roster) : ps[r].slot = k
    BY <2>1
  <2> DEFINE i == k - keeps
  <2>3. i \in 1..Len(moved) /\ keeps + i = k /\ i \in Nat
    BY <1>3, <1>7, <2>1, <2>2
  <2> HIDE DEF i
  <2>4. moved[i] = roster[k]
    BY <1>3, <2>3
  <2>5. roster[k] = r
    BY <1>6, <1>7, <2>1, <2>2 DEF Filled, Slotted
  <2>6. qs[r] = [heat |-> into, slot |-> 0 + i]
    BY <1>m, <2>3, <2>4, <2>5
  <2>7. ps[r].slot - keeps = i
    BY <2>2 DEF i
  <2>8. QED
    BY <2>3, <2>6, <2>7
<1>11. ASSUME NEW r \in Racers \ Past(ps, from, keeps), qs[r] # ps[r] PROVE FALSE
  <2>1. PICK i \in 1..Len(moved) : moved[i] = r
    BY <1>4, <1>11 DEF MovedTo
  <2>2. keeps + i \in 1..Len(roster) /\ roster[keeps + i] = r
    BY <1>3, <2>1
  <2>3. r \in In(ps, from) /\ ps[r].slot = keeps + i
    BY <1>6, <2>2
  <2>4. keeps + i > keeps
    BY <1>7
  <2>5. QED
    BY <1>11, <2>3, <2>4 DEF Past
<1>12. Parted(ps, qs, from, into, keeps)
  BY <1>10, <1>11 DEF Parted
<1>13. QED
  BY <1>9, <1>12 DEF ps, qs, roster

\* The heats own the slots the layout says.
Targets(L, hs) == \A n \in DOMAIN L : hs[n].target = L[n].target

LEMMA ForkedReads ==
  ASSUME NEW q, NEW b, Tight(b.heat, b.place), NEW B \in Nat, NEW L, LayoutTo(B, L),
         Reads(L, b.heat, b.place),
         NEW from \in Nat \ {0}, NEW into \in Numbers, NEW keeps \in Nat \ {0},
         SplitOf(L, SplitHeat(L), from, keeps, into), b.heat[into] = NoHeat,
         NEW N, Forked(q, b, SplitPass(L), N), Fits(b, SplitPass(L)),
         Parted(b.place, N.place, from, into, keeps),
         Size(b.place, from) = Len(L[from].roster)
  PROVE  /\ Reads(SplitHeat(L), N.heat, N.place) /\ Full(N.place) /\ Manned(N.heat, N.place)
         /\ Within(N.place) /\ Orders(N.place, b.place)
         /\ Targets(L, b.heat) => Targets(SplitHeat(L), N.heat)
         /\ Exact(L, b.heat, b.place) => Exact(SplitHeat(L), N.heat, N.place)
<1> DEFINE ps == b.place
<1> DEFINE qs == N.place
<1> DEFINE roster == L[from].roster
<1> DEFINE kept == SubSeq(roster, 1, keeps)
<1> DEFINE moved == SubSeq(roster, keeps + 1, Len(roster))
<1> DEFINE M == SplitHeat(L)
<1>1. /\ from \in DOMAIN L /\ into \notin DOMAIN L /\ keeps < Len(roster)
      /\ \A n \in DOMAIN L : n < into
      /\ SplitPass(L) = [from |-> from, keeps |-> keeps, into |-> into, moved |-> moved]
      /\ DOMAIN M = DOMAIN L \cup {into}
      /\ M[into] = [target |-> Capacity, roster |-> moved]
      /\ M[from] = [target |-> Capacity, roster |-> kept]
      /\ \A n \in DOMAIN L \ {from} : M[n] = L[n]
  BY DEF SplitOf
<1>2. /\ from \in Numbers /\ roster \in Seq(Racers) /\ from # into /\ DOMAIN L \subseteq Numbers
      /\ \A n \in DOMAIN L : L[n].roster \in Seq(Racers)
  <2>1. \A n \in DOMAIN L : n \in Nat \ {0} /\ L[n] \in Slate
    BY DEF LayoutTo
  <2>2. \A n \in DOMAIN L : n \in Numbers /\ n # into
    BY <1>1, <2>1, Constants DEF Numbers
  <2>3. QED
    BY <1>1, <2>1, <2>2 DEF Slate
<1>3. /\ N.heat[from].status = "PLANNED" /\ N.heat[from].target = Capacity
      /\ N.heat[into] = Planned(Capacity)
      /\ \A n \in Numbers \ {into, from} : N.heat[n] = b.heat[n]
  BY <1>1 DEF Forked
<1>4. b.heat[from].status = "PLANNED"
  BY <1>1 DEF Reads
<1>5. In(ps, into) = {} /\ Full(ps) /\ Within(ps)
  BY SoundWithin DEF Tight
<1> HIDE DEF roster, M
<1>6. /\ kept # <<>> /\ Len(kept) = keeps /\ moved # <<>> /\ Len(moved) = Len(roster) - keeps
      /\ kept \in Seq(Racers) /\ moved \in Seq(Racers) /\ Len(roster) \in Nat
      /\ \A i \in 1..keeps : i \in 1..Len(roster) /\ kept[i] = roster[i]
      /\ \A i \in 1..Len(moved) : keeps + i \in 1..Len(roster) /\ moved[i] = roster[keeps + i]
  <2>1. Cut(roster, keeps, kept, moved)
    BY <1>1, <1>2, CutIs
  <2> HIDE DEF kept, moved
  <2>2. QED
    BY <2>1 DEF Cut
<1> HIDE DEF kept, moved
<1>7. Size(ps, from) = Len(roster) /\ keeps <= Size(ps, from)
  BY <1>1, <1>6 DEF roster
<1> HIDE DEF ps, qs
<1>8. Parted(ps, qs, from, into, keeps)
  BY DEF ps, qs
<1>9. /\ Full(qs) /\ In(qs, into) = Past(ps, from, keeps)
      /\ In(qs, from) = {r \in In(ps, from) : ps[r].slot <= keeps}
      /\ \A n \in Numbers \ {into, from} : In(qs, n) = In(ps, n)
      /\ Size(qs, into) = Size(ps, from) - keeps /\ Size(qs, from) = keeps
      /\ \A n \in Numbers \ {into, from} : Size(qs, n) = Size(ps, n)
      /\ \A r, s \in Racers : Before(qs, r, s) => Before(ps, r, s)
  BY <1>2, <1>5, <1>7, <1>8, PartedIs
<1>10. /\ \A r \in Past(ps, from, keeps) : qs[r].heat = into /\ qs[r].slot = ps[r].slot - keeps
       /\ \A r \in Racers \ Past(ps, from, keeps) : qs[r] = ps[r]
  BY <1>8 DEF Parted
<1>11. \A i \in 1..Len(roster) : /\ ps[roster[i]].heat = from /\ ps[roster[i]].slot = i
                                 /\ roster[i] \in In(ps, from) /\ roster[i] \in Racers
  <2>1. \A i \in 1..Len(roster) : ps[roster[i]].heat = from /\ ps[roster[i]].slot = i
    BY <1>1 DEF Reads, roster, ps
  <2>2. \A i \in 1..Len(roster) : roster[i] \in Racers
    BY <1>2, ElementOfSeq
  <2>3. QED
    BY <2>1, <2>2 DEF In
<1>12. Heats(N.heat) = Heats(b.heat) \cup {into}
  <2>1. \A n \in Numbers : N.heat[n].status # "none" <=> b.heat[n].status # "none" \/ n = into
    <3>1. N.heat[into].status # "none"
      BY <1>3 DEF Planned
    <3>2. QED
      BY <1>3, <1>4, <3>1
  <2>2. QED
    BY <1>2, <2>1 DEF Heats
<1>13. Manned(N.heat, qs)
  <2>1. In(qs, into) # {} /\ In(qs, from) # {}
    <3>1. Size(qs, into) # 0 /\ Size(qs, from) # 0
      BY <1>1, <1>6, <1>7, <1>9
    <3>2. QED
      BY <3>1, InFinite
  <2>2. ASSUME NEW n \in Heats(N.heat) \ {into, from} PROVE In(qs, n) # {}
    <3>1. n \in Heats(b.heat) /\ In(ps, n) # {} /\ n \in Numbers
      BY <1>12, <2>2, HeatsFinite DEF Manned, Tight, ps
    <3>2. QED
      BY <1>9, <2>2, <3>1
  <2>3. QED
    BY <2>1, <2>2 DEF Manned
<1>14. Within(qs)
  <2>1. ASSUME NEW r \in Racers PROVE qs[r].heat \in Numbers \cup {0}
    BY <1>5, <1>10 DEF Within
  <2>2. QED
    BY <2>1 DEF Within
<1>15. ASSUME NEW n \in DOMAIN M
       PROVE  /\ N.heat[n].status = "PLANNED" /\ M[n].roster # <<>>
              /\ \A i \in 1..Len(M[n].roster) :
                   /\ qs[M[n].roster[i]].heat = n /\ qs[M[n].roster[i]].slot = i
  <2>1. CASE n = into
    <3>1. ASSUME NEW i \in 1..Len(moved) PROVE qs[moved[i]].heat = into /\ qs[moved[i]].slot = i
      <4>1. keeps + i \in 1..Len(roster) /\ moved[i] = roster[keeps + i]
        BY <1>6
      <4>2. moved[i] \in In(ps, from) /\ ps[moved[i]].slot = keeps + i
        BY <1>11, <4>1
      <4>3. keeps + i > keeps /\ keeps + i - keeps = i
        BY <1>6
      <4>4. moved[i] \in Past(ps, from, keeps)
        BY <4>2, <4>3 DEF Past
      <4>5. QED
        BY <1>10, <4>2, <4>3, <4>4
    <3>2. N.heat[into].status = "PLANNED" /\ M[into].roster = moved
      BY <1>1, <1>3 DEF Planned
    <3>3. QED
      BY <1>6, <2>1, <3>1, <3>2
  <2>2. CASE n = from
    <3>1. ASSUME NEW i \in 1..keeps PROVE qs[kept[i]].heat = from /\ qs[kept[i]].slot = i
      <4>1. i \in 1..Len(roster) /\ kept[i] = roster[i] /\ ~(i > keeps)
        BY <1>6
      <4>2. ps[kept[i]].heat = from /\ ps[kept[i]].slot = i /\ kept[i] \in Racers
        BY <1>11, <4>1
      <4>3. kept[i] \notin Past(ps, from, keeps)
        BY <4>1, <4>2 DEF Past
      <4>4. QED
        BY <1>10, <4>2, <4>3
    <3>2. M[from].roster = kept
      BY <1>1
    <3>3. QED
      BY <1>3, <1>6, <2>2, <3>1, <3>2
  <2>3. CASE n # into /\ n # from
    <3>1. n \in DOMAIN L /\ M[n] = L[n] /\ n \in Numbers
      BY <1>1, <1>2, <1>15, <2>3
    <3>2. /\ b.heat[n].status = "PLANNED" /\ L[n].roster # <<>>
          /\ \A i \in 1..Len(L[n].roster) :
               ps[L[n].roster[i]].heat = n /\ ps[L[n].roster[i]].slot = i
      BY <3>1 DEF Reads, ps
    <3>3. ASSUME NEW i \in 1..Len(L[n].roster) PROVE qs[L[n].roster[i]] = ps[L[n].roster[i]]
      <4>1. L[n].roster[i] \in Racers
        BY <1>2, <3>1, ElementOfSeq
      <4>2. L[n].roster[i] \notin Past(ps, from, keeps)
        BY <2>3, <3>2 DEF Past, In
      <4>3. QED
        BY <1>10, <4>1, <4>2
    <3>4. N.heat[n].status = "PLANNED"
      BY <1>3, <2>3, <3>1, <3>2
    <3>5. QED
      BY <3>1, <3>2, <3>3, <3>4
  <2>4. QED
    BY <2>1, <2>2, <2>3
<1>16. Reads(M, N.heat, qs)
  BY <1>15 DEF Reads
<1>17. ASSUME Targets(L, b.heat) PROVE Targets(M, N.heat)
  <2>1. ASSUME NEW n \in DOMAIN M PROVE N.heat[n].target = M[n].target
    <3>1. CASE n = into
      BY <1>1, <1>3, <3>1 DEF Planned
    <3>2. CASE n = from
      BY <1>1, <1>3, <3>2
    <3>3. CASE n # into /\ n # from
      BY <1>1, <1>2, <1>3, <1>17, <2>1, <3>3 DEF Targets
    <3>4. QED
      BY <3>1, <3>2, <3>3
  <2>2. QED
    BY <2>1 DEF Targets
<1>18. ASSUME Exact(L, b.heat, b.place) PROVE Exact(M, N.heat, qs)
  <2>1. DOMAIN M = Heats(N.heat)
    BY <1>1, <1>12, <1>18 DEF Exact
  <2>2. ASSUME NEW n \in DOMAIN M PROVE Len(M[n].roster) = Size(qs, n)
    <3>1. CASE n = into
      BY <1>1, <1>6, <1>7, <1>9, <3>1
    <3>2. CASE n = from
      BY <1>1, <1>6, <1>9, <3>2
    <3>3. CASE n # into /\ n # from
      BY <1>1, <1>2, <1>9, <1>18, <2>2, <3>3 DEF Exact, ps
    <3>4. QED
      BY <3>1, <3>2, <3>3
  <2>3. QED
    BY <1>16, <2>1, <2>2 DEF Exact
<1>19. QED
  BY <1>9, <1>13, <1>14, <1>16, <1>17, <1>18 DEF ps, qs, M, Orders

LEMMA SplitForks ==
  ASSUME NEW q, Fresh(q), NEW b, Tight(b.heat, b.place), NEW B \in Nat, NEW L, LayoutTo(B, L),
         ~Restored(L), SplitPass(L).into \in Numbers, Reads(L, b.heat, b.place),
         NEW N, N = Split(q, b, SplitPass(L))
  PROVE  /\ SplitPass(L) \in SplitPasses /\ Forked(q, b, SplitPass(L), N) /\ N.place \in Places
         /\ \E from \in Nat \ {0}, into \in Numbers, keeps \in Nat \ {0} :
              SplitOf(L, SplitHeat(L), from, keeps, into)
<1>1. SplitPass(L) \in SplitPasses
  BY SplitHeatIs
<1>2. PICK from \in Nat \ {0}, into \in Nat \ {0}, keeps \in Nat \ {0} :
        SplitOf(L, SplitHeat(L), from, keeps, into)
  <2>1. \E from, into \in Nat \ {0}, keeps \in Nat \ {0} :
          SplitOf(L, SplitHeat(L), from, keeps, into)
    BY SplitHeatIs
  <2>2. QED
    BY <2>1
<1>3. SplitPass(L).into = into /\ SplitPass(L).from = from /\ from \in DOMAIN L
  BY <1>2 DEF SplitOf
<1>4. b.heat[SplitPass(L).from].status = "PLANNED"
  BY <1>3 DEF Reads
<1>5. Forked(q, b, SplitPass(L), N)
  BY <1>1, <1>4, ForkedIs DEF Fresh, Tight
<1>6. N.place \in Places
  BY <1>5 DEF Forked, MovedTo
<1>7. QED
  BY <1>1, <1>2, <1>3, <1>5, <1>6

\* A split of a heat that has more racers than it keeps fits, or is refused.
LEMMA SplitExact ==
  ASSUME NEW q, Fresh(q), NEW b, Tight(b.heat, b.place), NEW B \in Nat, NEW L, LayoutTo(B, L),
         ~Restored(L), SplitPass(L).into \in Numbers, Reads(L, b.heat, b.place),
         NEW N, N = Split(q, b, SplitPass(L)), N.ok
  PROVE  /\ b.ok /\ Tight(N.heat, N.place) /\ Orders(N.place, b.place)
         /\ Reads(SplitHeat(L), N.heat, N.place)
         /\ Targets(L, b.heat) => Targets(SplitHeat(L), N.heat)
<1>1. SplitPass(L) \in SplitPasses /\ Forked(q, b, SplitPass(L), N) /\ N.place \in Places
  BY SplitForks
<1>2. PICK from \in Nat \ {0}, into \in Numbers, keeps \in Nat \ {0} :
        SplitOf(L, SplitHeat(L), from, keeps, into)
  BY SplitForks
<1> DEFINE roster == L[from].roster
<1> DEFINE moved == SubSeq(roster, keeps + 1, Len(roster))
<1>3. /\ from \in DOMAIN L /\ keeps < Len(roster) /\ from < into
      /\ SplitPass(L) = [from |-> from, keeps |-> keeps, into |-> into, moved |-> moved]
  BY <1>2 DEF SplitOf
<1>4. roster \in Seq(Racers)
  BY <1>3 DEF LayoutTo, Slate
<1>5. /\ b.ok /\ N.place # b.place => Fits(b, SplitPass(L))
      /\ Fits(b, SplitPass(L)) => b.heat[into] = NoHeat
      /\ MovedTo(q, b.place, moved, from, into, 0, N.place)
  BY <1>1, <1>3 DEF Forked
<1>6. b.ok /\ Sound(N.heat, N.place)
  BY <1>1, SplitSound DEF Tight, Follows
<1>7. N.place # b.place
  <2> HIDE DEF roster
  <2>1. Cut(roster, keeps, SubSeq(roster, 1, keeps), moved)
    BY <1>3, <1>4, CutIs
  <2> HIDE DEF moved
  <2>2. /\ Len(roster) \in Nat /\ Len(moved) \in Nat /\ Len(moved) = Len(roster) - keeps
        /\ moved \in Seq(Racers)
        /\ \A i \in 1..Len(moved) : keeps + i \in 1..Len(roster) /\ moved[i] = roster[keeps + i]
    BY <2>1, LenProperties DEF Cut
  <2>3. \A i \in 1..Len(roster) : b.place[roster[i]].heat = from /\ b.place[roster[i]].slot = i
    BY <1>3 DEF Reads, roster
  <2>4. \A i \in 1..Len(moved) :
          b.place[moved[i]].heat = from /\ b.place[moved[i]].slot = keeps + i
    BY <2>2, <2>3
  <2>5. 1 \in 1..Len(moved)
    BY <1>3, <2>2
  <2>6. \A j \in 1..Len(moved) : moved[j] = moved[1] => j = 1
    <3>1. \A j \in 1..Len(moved) : keeps + j = keeps + 1 => j = 1
      BY <2>2
    <3>2. QED
      BY <2>4, <2>5, <3>1
  <2>7. N.place[moved[1]] = [heat |-> into, slot |-> 0 + 1]
    BY <1>5, <2>4, <2>5, <2>6 DEF MovedTo, Fresh
  <2>8. b.place[moved[1]].heat = from /\ from # into
    BY <1>3, <2>4, <2>5, Constants DEF Numbers
  <2>9. QED
    BY <2>7, <2>8
<1>8. Fits(b, SplitPass(L)) /\ b.heat[into] = NoHeat
  BY <1>5, <1>6, <1>7
<1> HIDE DEF roster, moved
<1>a. Forked(q, b, SplitPass(L), N) /\ Fits(b, SplitPass(L))
  BY <1>1, <1>8
<1>9. /\ Parted(b.place, N.place, from, into, keeps)
      /\ Size(b.place, from) = Len(L[from].roster)
  BY <1>2, <1>a, SplitParts
<1>10. /\ Reads(SplitHeat(L), N.heat, N.place) /\ Full(N.place) /\ Manned(N.heat, N.place)
       /\ Orders(N.place, b.place)
       /\ Targets(L, b.heat) => Targets(SplitHeat(L), N.heat)
  BY <1>1, <1>2, <1>8, <1>9, ForkedReads
<1>11. QED
  BY <1>6, <1>10 DEF Tight

LEMMA SplitFresh ==
  ASSUME NEW q, Fresh(q), NEW b, Tight(b.heat, b.place), NEW B \in Nat, NEW L, LayoutTo(B, L),
         ~Restored(L), SplitPass(L).into \in Numbers, Exact(L, b.heat, b.place), b.ok,
         NEW N, N = Split(q, b, SplitPass(L))
  PROVE  N.ok /\ Exact(SplitHeat(L), N.heat, N.place)
<1>r. Reads(L, b.heat, b.place)
  BY DEF Exact
<1>1. SplitPass(L) \in SplitPasses /\ Forked(q, b, SplitPass(L), N) /\ N.place \in Places
  BY <1>r, SplitForks
<1>2. PICK from \in Nat \ {0}, into \in Numbers, keeps \in Nat \ {0} :
        SplitOf(L, SplitHeat(L), from, keeps, into)
  BY <1>r, SplitForks
<1> DEFINE roster == L[from].roster
<1> DEFINE moved == SubSeq(roster, keeps + 1, Len(roster))
<1>3. /\ from \in DOMAIN L /\ into \notin DOMAIN L /\ keeps < Len(roster) /\ from < into
      /\ SplitPass(L) = [from |-> from, keeps |-> keeps, into |-> into, moved |-> moved]
  BY <1>2 DEF SplitOf
<1>4. roster \in Seq(Racers) /\ from \in Numbers
  BY <1>3, Constants DEF LayoutTo, Slate, Numbers
<1>5. Len(moved) = Len(roster) - keeps /\ Len(roster) \in Nat
  <2> HIDE DEF roster
  <2>1. Cut(roster, keeps, SubSeq(roster, 1, keeps), moved)
    BY <1>3, <1>4, CutIs
  <2>2. QED
    BY <2>1 DEF Cut
<1> HIDE DEF moved
<1>6. Size(b.place, from) = Len(roster) /\ b.heat[into] = NoHeat
  <2>1. into \notin Heats(b.heat) /\ b.heat[into] \in Rows
    BY <1>3 DEF Exact, Tight, Sound
  <2>2. QED
    BY <1>3, <2>1 DEF Exact, Heats, Rows
<1>7. Fits(b, SplitPass(L))
  <2>1. Filled(In(b.place, from), b.place, Len(roster)) /\ IsFiniteSet(In(b.place, from))
    BY <1>4, <1>6, InFinite DEF Tight, Full
  <2>2. keeps \in 0..Len(roster)
    BY <1>3, <1>5
  <2>3. Cardinality({s \in In(b.place, from) : b.place[s].slot > keeps}) = Len(roster) - keeps
    <3> HIDE DEF roster
    <3>1. QED
      BY <1>5, <2>1, <2>2, FilledPast
  <2>4. Cardinality(Heats(b.heat)) < FinalCapacity
    BY HeatsFinite, Constants DEF Exact, Restored
  <2>5. QED
    BY <1>3, <1>5, <2>3, <2>4 DEF Fits, Past
<1>8. Parted(b.place, N.place, from, into, keeps)
  BY <1>r, <1>1, <1>2, <1>7, SplitParts
<1>9. Full(N.place) /\ Within(N.place) /\ Exact(SplitHeat(L), N.heat, N.place)
  BY <1>r, <1>1, <1>2, <1>6, <1>7, <1>8, ForkedReads
<1>10. Distinct(N.place)
  BY <1>9, FullDistinct
<1>11. SplitPass(L).into = into
  BY <1>3
<1>12. N.ok
  BY <1>1, <1>6, <1>7, <1>10, <1>11 DEF Forked
<1>13. QED
  BY <1>9, <1>12

\* A batch that keeps the heats without gaps, and orders nobody it did not find so.
Reopens(b) == b.ok => Tight(b.heat, b.place) /\ Orders(b.place, place)
ExactTo(L, b) == b.ok /\ Exact(L, b.heat, b.place) /\ Targets(L, b.heat)

LEMMA UnfoldRuns ==
  ASSUME Tight(heat, place), NEW q, Fresh(q), NEW L, LayoutTo(MaxHeat, L),
         Reads(L, heat, place), NEW m \in Nat, SplitsOver(MaxHeat, L, m), q.passes = Splits(L),
         \A i \in 1..Len(q.passes) : q.passes[i].into \in Numbers
  PROVE  /\ Reopens(Unfolded(q))
         /\ ExactTo(L, Untouched) => ExactTo(Splitting(L)[m], Unfolded(q))
<1> DEFINE F == Splitting(L)
<1> DEFINE run == Unfold(q)
<1>1. /\ F[0] = L /\ \A k \in 0..m : LayoutTo(MaxHeat + k, F[k])
      /\ \A k \in 0..m : k < m => /\ ~Restored(F[k]) /\ F[k + 1] = SplitHeat(F[k])
                                  /\ q.passes[k + 1] = SplitPass(F[k])
      /\ Len(q.passes) = m
  BY DEF SplitsOver
<1>2. run[0] = Untouched /\ \A k \in 0..m : k < m => run[k + 1] = Split(q, run[k], q.passes[k + 1])
  BY <1>1, UnfoldIs
<1>3. Unfolded(q) = run[m]
  BY <1>1 DEF Unfolded
<1> HIDE DEF F, run
<1> DEFINE P == {k \in 0..m : /\ Reopens(run[k])
                              /\ run[k].ok => Reads(F[k], run[k].heat, run[k].place)
                              /\ ExactTo(L, Untouched) => ExactTo(F[k], run[k])}
<1>4. 0 \in P
  <2>1. run[0].ok /\ run[0].heat = heat /\ run[0].place = place /\ F[0] = L
    BY <1>1, <1>2 DEF Untouched
  <2>2. QED
    BY <1>2, <2>1 DEF Reopens, Orders
<1>5. ASSUME NEW k \in 0..m, k \in P, k < m PROVE k + 1 \in P
  <2>1. k + 1 \in 0..m /\ k + 1 \in 1..m /\ MaxHeat + k \in Nat
    BY <1>5, Constants
  <2> DEFINE b == run[k]
  <2> DEFINE N == Split(q, b, SplitPass(F[k]))
  <2>2. /\ run[k + 1] = N /\ LayoutTo(MaxHeat + k, F[k]) /\ ~Restored(F[k])
        /\ F[k + 1] = SplitHeat(F[k]) /\ SplitPass(F[k]).into \in Numbers
    BY <1>1, <1>2, <1>5, <2>1
  <2>3. /\ Reopens(b)
        /\ b.ok => Reads(F[k], b.heat, b.place)
        /\ ExactTo(L, Untouched) => ExactTo(F[k], b)
    BY <1>5
  <2>4. N.ok => b.ok
    BY DEF Split
  <2> HIDE DEF b, N
  <2>5. ASSUME N.ok
        PROVE  /\ Tight(N.heat, N.place) /\ Reads(SplitHeat(F[k]), N.heat, N.place)
               /\ Orders(N.place, b.place) /\ Orders(b.place, place)
               /\ Targets(F[k], b.heat) => Targets(SplitHeat(F[k]), N.heat)
    <3>1. Tight(b.heat, b.place) /\ Reads(F[k], b.heat, b.place) /\ Orders(b.place, place)
      BY <2>3, <2>4, <2>5 DEF Reopens
    <3>2. QED
      BY <2>1, <2>2, <2>5, <3>1, SplitExact DEF N
  <2>6. Reopens(N)
    BY <2>5 DEF Reopens, Orders
  <2>7. ASSUME ExactTo(L, Untouched) PROVE ExactTo(SplitHeat(F[k]), N)
    <3>1. /\ b.ok /\ Tight(b.heat, b.place) /\ Exact(F[k], b.heat, b.place)
          /\ Targets(F[k], b.heat)
      BY <2>3, <2>7 DEF Reopens, ExactTo
    <3>2. N.ok /\ Exact(SplitHeat(F[k]), N.heat, N.place)
      BY <2>1, <2>2, <3>1, SplitFresh DEF N
    <3>3. QED
      BY <2>5, <3>1, <3>2 DEF ExactTo
  <2>8. QED
    BY <2>1, <2>2, <2>5, <2>6, <2>7
<1>6. m \in P
  <2> HIDE DEF P
  <2>1. 0..m \subseteq P
    BY <1>4, <1>5, Reaches
  <2>2. QED
    BY <2>1
<1>7. QED
  BY <1>3, <1>6 DEF F

-----------------------------------------------------------------------------
(* The steps that change a heat, and the layouts that were read before them.  *)

LEMMA LayoutExact ==
  ASSUME Tight(heat, place), Unlocked(heat)
  PROVE  /\ LayoutTo(MaxHeat, Layout) /\ Exact(Layout, heat, place)
         /\ Targets(Layout, heat)
<1>1. /\ LayoutTo(MaxHeat, Layout)
      /\ DOMAIN Layout = {n \in Numbers : heat[n].status = "PLANNED"}
      /\ \A n \in DOMAIN Layout : /\ Layout[n].target = heat[n].target
                                  /\ Layout[n].roster = Roster(place, n)
  BY LayoutIs DEF Tight
<1>2. \A n \in Numbers : heat[n].status = "PLANNED" <=> heat[n].status # "none"
  BY DEF Tight, Sound, Rows, NoHeat, Unlocked
<1>3. DOMAIN Layout = Heats(heat)
  BY <1>1, <1>2 DEF Heats
<1>4. ASSUME NEW n \in DOMAIN Layout
      PROVE  /\ Layout[n].roster # <<>> /\ Len(Layout[n].roster) = Size(place, n)
             /\ \A i \in 1..Len(Layout[n].roster) :
                  place[Layout[n].roster[i]].heat = n /\ place[Layout[n].roster[i]].slot = i
  <2> DEFINE S == In(place, n)
  <2>1. /\ n \in Numbers /\ n \in Nat \ {0} /\ S # {} /\ IsFiniteSet(S)
        /\ Size(place, n) \in Nat /\ Size(place, n) = Cardinality(S) /\ Size(place, n) # 0
        /\ Filled(S, place, Size(place, n))
    BY <1>1, <1>3, <1>4, InFinite, Constants DEF Tight, Manned, Full, Numbers
  <2>2. Layout[n].roster = InOrder(S, place)
    BY <1>1, <1>4 DEF Roster
  <2>3. \A r \in S : r \in Racers /\ place[r].heat = n
    BY DEF In
  <2> HIDE DEF S
  <2>4. /\ InOrder(S, place) \in [1..Size(place, n) -> S]
        /\ \A i \in 1..Size(place, n) : place[InOrder(S, place)[i]].slot = i
    BY <2>1, FilledInOrder
  <2>5. Len(InOrder(S, place)) = Size(place, n) /\ InOrder(S, place) \in Seq(Racers)
    <3>1. place \in Places /\ Distinct(place) /\ S \in SUBSET Racers
      BY <2>3 DEF Tight, Sound
    <3>2. QED
      BY <2>1, <2>3, <3>1, RosterIs
  <2>6. InOrder(S, place) # <<>>
    <3>1. Len(InOrder(S, place)) # 0
      BY <2>1, <2>5
    <3>2. QED
      BY <3>1, EmptySeq
  <2>7. \A i \in 1..Size(place, n) : InOrder(S, place)[i] \in S
    BY <2>4
  <2>8. QED
    BY <2>2, <2>3, <2>4, <2>5, <2>6, <2>7
<1>5. Reads(Layout, heat, place)
  BY <1>1, <1>4 DEF Reads
<1>6. QED
  BY <1>1, <1>3, <1>4, <1>5 DEF Exact, Targets

\* A pairing that commits puts the racer behind the others, and changes nothing
\* that was read of a heat.
LEMMA SeatFull ==
  ASSUME Typed, NEW q \in PairRequests, Seats(q), Full(place), Manned(heat, place)
  PROVE  /\ Full(place') /\ Manned(heat', place') /\ Orders(place, place')
         /\ \A r, s \in Racers : Before(place, r, s) => ~Before(place', s, r)
         /\ \A L : LayoutTo(MaxHeat, L) /\ Reads(L, heat, place) => Reads(L, heat', place')
<1>1. CASE heat' = heat /\ place' = place
  <2>1. \A r, s \in Racers : Before(place, r, s) => ~Before(place, s, r)
    BY DEF Before, Together, Typed, Sound, Places
  <2>2. QED
    BY <1>1, <2>1 DEF Orders
<1>2. CASE ~(heat' = heat /\ place' = place)
  <2> DEFINE n == q.heat
  <2> DEFINE x == q.racer
  <2>1. /\ place[x] = Nowhere
        /\ place' = [place EXCEPT ![x] = [heat |-> n, slot |-> Size(place, n) + 1]]
        /\ \/ heat' = heat /\ n \in Heats(heat)
           \/ heat[n] = NoHeat /\ heat' = [heat EXCEPT ![n] = Planned(Capacity)]
    BY <1>2 DEF Seats
  <2>2. /\ n \in Numbers /\ n \in Nat \ {0} /\ x \in Racers /\ Size(place, n) \in Nat
        /\ place \in Places /\ heat \in [Numbers -> Rows]
    BY InFinite, Constants DEF PairRequests, Numbers, Typed, Sound
  <2> HIDE DEF n, x
  <2> DEFINE k == Size(place, n) + 1
  <2>3. /\ place'[x].heat = n /\ place'[x].slot = k /\ k \in Nat
        /\ \A r \in Racers : r # x => place'[r] = place[r]
    BY <2>1, <2>2 DEF Places
  <2>4. /\ place[x].heat = 0 /\ \A m \in Numbers : x \notin In(place, m)
    BY <2>1, Constants DEF Nowhere, In, Numbers
  <2>5. /\ In(place', n) = In(place, n) \cup {x}
        /\ \A m \in Numbers \ {n} : In(place', m) = In(place, m)
    BY <2>2, <2>3, <2>4 DEF In
  <2>6. Filled(In(place, n), place, Size(place, n))
    BY <2>2 DEF Full
  <2>7. Filled(In(place', n), place', k)
    <3>1. \A r \in In(place, n) : place'[r] = place[r] /\ place[r].slot \in 1..Size(place, n)
      BY <2>3, <2>4, <2>2, <2>6 DEF In, Filled
    <3>2. \A r \in In(place', n) : place'[r].slot \in 1..k /\ place'[r].slot \in Nat
      BY <2>2, <2>3, <2>5, <3>1
    <3>3. ASSUME NEW r \in In(place', n), NEW s \in In(place', n),
                 place'[r].slot = place'[s].slot
          PROVE  r = s
      <4>1. CASE r \in In(place, n) /\ s \in In(place, n)
        BY <2>6, <3>1, <3>3, <4>1 DEF Filled, Slotted
      <4>2. CASE r = x /\ s \in In(place, n)
        BY <2>2, <2>3, <3>1, <3>3, <4>2
      <4>3. CASE r \in In(place, n) /\ s = x
        BY <2>2, <2>3, <3>1, <3>3, <4>3
      <4>4. QED
        BY <2>5, <4>1, <4>2, <4>3
    <3>4. ASSUME NEW i \in 1..k PROVE \E r \in In(place', n) : place'[r].slot = i
      <4>1. CASE i = k
        BY <2>3, <2>5, <4>1
      <4>2. CASE i # k
        <5>1. i \in 1..Size(place, n)
          BY <2>2, <4>2
        <5>2. PICK r \in In(place, n) : place[r].slot = i
          BY <2>6, <5>1 DEF Filled
        <5>3. QED
          BY <2>5, <3>1, <5>2
      <4>3. QED
        BY <4>1, <4>2
    <3>5. QED
      BY <3>2, <3>3, <3>4 DEF Filled, Slotted
  <2>8. Size(place', n) = k
    BY <2>2, <2>3, <2>7, FilledIn
  <2>9. Full(place')
    <3>1. ASSUME NEW m \in Numbers \ {n} PROVE Filled(In(place', m), place', Size(place', m))
      <4>1. In(place', m) = In(place, m) /\ \A r \in In(place, m) : place'[r] = place[r]
        BY <2>3, <2>4, <2>5 DEF In
      <4>2. QED
        BY <4>1, FullSame
    <3>2. QED
      BY <2>7, <2>8, <3>1 DEF Full
  <2>10. /\ \A m \in Numbers \ {n} : heat'[m] = heat[m]
         /\ heat[n].status # "none" => heat'[n] = heat[n]
    BY <2>1, <2>2 DEF NoHeat
  <2>11. Manned(heat', place')
    <3>1. ASSUME NEW m \in Heats(heat') PROVE In(place', m) # {}
      <4>1. CASE m = n
        BY <2>5, <4>1
      <4>2. CASE m # n
        BY <2>5, <2>10, <4>2 DEF Heats, Manned
      <4>3. QED
        BY <4>1, <4>2
    <3>2. QED
      BY <3>1 DEF Manned
  <2>12. ASSUME NEW r \in Racers, NEW s \in Racers, Before(place, r, s)
         PROVE  Before(place', r, s) /\ ~Before(place', s, r)
    <3>1. r # x /\ s # x
      BY <2>4, <2>12 DEF Before, Together
    <3>2. place'[r] = place[r] /\ place'[s] = place[s]
      BY <2>3, <3>1
    <3>3. place[r].slot \in Nat /\ place[s].slot \in Nat
      BY <2>2 DEF Places
    <3>4. QED
      BY <2>12, <3>2, <3>3 DEF Before, Together
  <2>13. ASSUME NEW L, LayoutTo(MaxHeat, L), Reads(L, heat, place)
         PROVE  Reads(L, heat', place')
    <3>1. ASSUME NEW m \in DOMAIN L
          PROVE  /\ heat'[m].status = "PLANNED" /\ L[m].roster # <<>>
                 /\ \A i \in 1..Len(L[m].roster) :
                      place'[L[m].roster[i]].heat = m /\ place'[L[m].roster[i]].slot = i
      <4>1. m \in Numbers /\ m # 0 /\ L[m].roster \in Seq(Racers)
        BY <2>13, Constants DEF LayoutTo, Slate, Numbers
      <4>2. /\ heat[m].status = "PLANNED" /\ L[m].roster # <<>>
            /\ \A i \in 1..Len(L[m].roster) :
                 place[L[m].roster[i]].heat = m /\ place[L[m].roster[i]].slot = i
        BY <2>13 DEF Reads
      <4>3. heat'[m].status = "PLANNED"
        BY <2>10, <4>1, <4>2
      <4>4. \A i \in 1..Len(L[m].roster) : place'[L[m].roster[i]] = place[L[m].roster[i]]
        BY <2>3, <2>4, <4>1, <4>2, ElementOfSeq
      <4>5. QED
        BY <4>2, <4>3, <4>4
    <3>2. QED
      BY <3>1 DEF Reads
  <2>14. QED
    BY <2>9, <2>11, <2>12, <2>13 DEF Orders
<1>3. QED
  BY <1>1, <1>2

\* A new roster fills its heat from slot 1, and reverses nobody's order.
LEMMA RelistFull ==
  ASSUME Typed, NEW n \in Numbers, NEW ids \in Seq(Racers), Relists(n, ids),
         Full(place), Manned(heat, place), Heats(heat') = Heats(heat)
  PROVE  /\ Full(place') /\ Manned(heat', place')
         /\ \A r, s \in Racers : Before(place, r, s) => ~Before(place', s, r)
<1>1. /\ place \in Places /\ place' = Replaced(place, n, ids) /\ ids # <<>>
      /\ n \in Nat \ {0} /\ Len(ids) \in Nat \ {0}
      /\ \A i \in 1..Len(ids) : place[ids[i]] = Nowhere \/ place[ids[i]].heat = n
      /\ \A i, j \in 1..Len(ids) : ids[i] = ids[j] => i = j
      /\ \A i, j \in 1..Len(ids) : place[ids[i]].heat = n /\ place[ids[j]].heat = n
           => (i < j <=> place[ids[i]].slot < place[ids[j]].slot)
  BY Constants DEF Relists, LineupOf, Typed, Sound, Numbers
<1>2. /\ \A i \in 1..Len(ids) : place'[ids[i]] = [heat |-> n, slot |-> i]
      /\ \A r \in Racers : \/ \E i \in 1..Len(ids) : r = ids[i]
                           \/ place[r].heat = n /\ place'[r] = Nowhere
                           \/ place[r].heat # n /\ place'[r] = place[r]
  <2> DEFINE N == Replaced(place, n, ids)
  <2>1. /\ \A i \in 1..Len(ids) : N[ids[i]] = [heat |-> n, slot |-> i]
        /\ \A r \in Racers : \/ \E i \in 1..Len(ids) : r = ids[i]
                             \/ place[r].heat = n /\ N[r] = Nowhere
                             \/ place[r].heat # n /\ N[r] = place[r]
    BY <1>1, ReplacedIs
  <2> HIDE DEF N
  <2>2. place' = N
    BY <1>1 DEF N
  <2>3. QED
    BY <2>1, <2>2
<1>3. \A i \in 1..Len(ids) : /\ ids[i] \in Racers /\ ids[i] \in In(place', n)
                             /\ place'[ids[i]].slot = i
  <2>1. ASSUME NEW i \in 1..Len(ids)
        PROVE  ids[i] \in Racers /\ place'[ids[i]].heat = n /\ place'[ids[i]].slot = i
    <3>1. place'[ids[i]] = [heat |-> n, slot |-> i]
      BY <1>2
    <3>2. ids[i] \in Racers
      BY ElementOfSeq
    <3>3. QED
      BY <3>1, <3>2
  <2>2. QED
    BY <2>1 DEF In
<1>4. \A r \in In(place', n) : \E i \in 1..Len(ids) : r = ids[i]
  BY <1>1, <1>2 DEF In, Nowhere
<1>5. ASSUME NEW r \in Racers, place'[r].heat # 0, place'[r].heat # n
      PROVE  place'[r] = place[r]
  <2>1. \A i \in 1..Len(ids) : place'[ids[i]].heat = n
    BY <1>3 DEF In
  <2>2. QED
    BY <1>2, <1>5, <2>1 DEF Nowhere
<1>6. ASSUME NEW r \in Racers, place[r].heat # 0, place[r].heat # n
      PROVE  place'[r] = place[r]
  BY <1>1, <1>2, <1>6 DEF Nowhere
<1>7. \A m \in Numbers \ {n} : In(place', m) = In(place, m)
                              /\ \A r \in In(place, m) : place'[r] = place[r]
  <2>1. ASSUME NEW m \in Numbers \ {n}, NEW r \in Racers
        PROVE  (place'[r].heat = m <=> place[r].heat = m)
               /\ (place[r].heat = m => place'[r] = place[r])
    <3>1. m # 0 /\ m # n
      BY Constants DEF Numbers
    <3>2. QED
      BY <1>5, <1>6, <3>1
  <2>2. QED
    BY <2>1 DEF In
<1>8. Filled(In(place', n), place', Len(ids))
  <2>1. \A r \in In(place', n) : place'[r].slot \in 1..Len(ids) /\ place'[r].slot \in Nat
    BY <1>1, <1>3, <1>4
  <2>2. \A r, s \in In(place', n) : place'[r].slot = place'[s].slot => r = s
    <3>1. ASSUME NEW r \in In(place', n), NEW s \in In(place', n), place'[r].slot = place'[s].slot
          PROVE  r = s
      <4>1. PICK i \in 1..Len(ids) : r = ids[i]
        BY <1>4
      <4>2. PICK j \in 1..Len(ids) : s = ids[j]
        BY <1>4
      <4>3. QED
        BY <1>3, <3>1, <4>1, <4>2
    <3>2. QED
      BY <3>1
  <2>3. \A i \in 1..Len(ids) : \E r \in In(place', n) : place'[r].slot = i
    BY <1>3
  <2>4. QED
    BY <2>1, <2>2, <2>3 DEF Filled, Slotted
<1>9. Full(place')
  <2>1. Filled(In(place', n), place', Size(place', n))
    <3>1. Len(ids) \in Nat
      BY <1>1
    <3>2. Size(place', n) = Len(ids)
      BY <1>8, <3>1, FilledIn
    <3>3. QED
      BY <1>8, <3>2
  <2>2. ASSUME NEW m \in Numbers \ {n} PROVE Filled(In(place', m), place', Size(place', m))
    BY <1>7, FullSame
  <2>3. QED
    BY <2>1, <2>2 DEF Full
<1>10. Manned(heat', place')
  <2>1. In(place', n) # {}
    <3>1. 1 \in 1..Len(ids)
      BY <1>1
    <3>2. QED
      BY <1>3, <3>1
  <2>2. \A m \in Heats(heat) : m \in Numbers
    BY HeatsFinite
  <2>3. QED
    BY <1>7, <2>1, <2>2 DEF Manned
<1>11. ASSUME NEW r \in Racers, NEW s \in Racers, Before(place, r, s), Before(place', s, r)
       PROVE  FALSE
  <2>1. /\ place[r].heat # 0 /\ place[r].heat = place[s].heat /\ place[r].slot < place[s].slot
        /\ place'[s].heat # 0 /\ place'[s].heat = place'[r].heat
        /\ place'[s].slot < place'[r].slot
    BY <1>11 DEF Before, Together
  <2>2. place[r].slot \in Nat /\ place[s].slot \in Nat
    BY <1>1 DEF Places
  <2>3. CASE place'[s].heat = n
    <3>1. PICK i \in 1..Len(ids) : s = ids[i]
      BY <1>4, <2>3 DEF In
    <3>2. PICK j \in 1..Len(ids) : r = ids[j]
      BY <1>4, <2>1, <2>3 DEF In
    <3>3. i < j
      BY <1>3, <2>1, <3>1, <3>2
    <3>4. place[s].heat = n /\ place[r].heat = n
      BY <1>1, <2>1, <3>1, <3>2 DEF Nowhere
    <3>5. place[s].slot < place[r].slot
      BY <1>1, <3>1, <3>2, <3>3, <3>4
    <3>6. QED
      BY <2>1, <2>2, <3>5
  <2>4. CASE place'[s].heat # n
    <3>1. place'[s] = place[s] /\ place'[r] = place[r]
      BY <1>5, <2>1, <2>4
    <3>2. QED
      BY <2>1, <2>2, <3>1
  <2>5. QED
    BY <2>3, <2>4
<1>12. QED
  BY <1>9, <1>10, <1>11

\* A request that has missed nothing: its plan is over a layout the heats extend.
ClosePlan(q, hs, ps) ==
  /\ Fresh(q)
  /\ q.passes = <<>> \/ \E L : /\ LayoutTo(MaxHeat, L) /\ Reads(L, hs, ps)
                               /\ q.passes = Merges(L)
ReopenPlan(q, hs, ps) ==
  /\ Fresh(q)
  /\ q.passes = <<>> \/ \E L : /\ LayoutTo(MaxHeat, L) /\ Reads(L, hs, ps)
                               /\ q.passes = Splits(L)

LEMMA CloseKeeps ==
  ASSUME Tight(heat, place), NEW q, ClosePlan(q, heat, place)
  PROVE  Closes(Folded(q))
<1>1. CASE q.passes = <<>>
  <2>1. Len(q.passes) = 0
    BY <1>1, EmptySeq
  <2>2. Fold(q)[0] = Untouched
    BY <2>1, FoldIs
  <2>3. Folded(q) = Untouched
    BY <2>1, <2>2 DEF Folded
  <2>4. QED
    BY <2>3 DEF Closes, Orders, Untouched
<1>2. CASE q.passes # <<>>
  <2>1. PICK L : LayoutTo(MaxHeat, L) /\ Reads(L, heat, place) /\ q.passes = Merges(L)
    BY <1>2 DEF ClosePlan
  <2>2. PICK m \in Nat : MergesOver(MaxHeat, L, m)
    BY <2>1, MergesIs, Constants
  <2>3. QED
    BY <2>1, <2>2, FoldRuns DEF ClosePlan
<1>3. QED
  BY <1>1, <1>2

LEMMA ReopenKeeps ==
  ASSUME Tight(heat, place), NEW q \in ReopenRequests, ReopenPlan(q, heat, place)
  PROVE  Reopens(Unfolded(q))
<1>1. CASE q.passes = <<>>
  <2>1. Len(q.passes) = 0
    BY <1>1, EmptySeq
  <2>2. Unfold(q)[0] = Untouched
    BY <2>1, UnfoldIs
  <2>3. Unfolded(q) = Untouched
    BY <2>1, <2>2 DEF Unfolded
  <2>4. QED
    BY <2>3 DEF Reopens, Orders, Untouched
<1>2. CASE q.passes # <<>>
  <2>1. PICK L : LayoutTo(MaxHeat, L) /\ Reads(L, heat, place) /\ q.passes = Splits(L)
    BY <1>2 DEF ReopenPlan
  <2>2. PICK m \in Nat : SplitsOver(MaxHeat, L, m)
    BY <2>1, SplitsIs, Constants
  <2>3. \A i \in 1..Len(q.passes) : q.passes[i].into \in Numbers
    BY DEF ReopenRequests
  <2>4. QED
    BY <2>1, <2>2, <2>3, UnfoldRuns DEF ReopenPlan
<1>3. QED
  BY <1>1, <1>2

\* The heats have no gaps.  A closing that may still commit has missed nothing but
\* pairings, as a reopening waits for it; so has the one reopening, as rosters wait.
Gapless ==
  /\ Full(place) /\ Manned(heat, place)
  /\ event = "OPEN" => \A c \in Clients : req[c].op = "close" => ClosePlan(req[c], heat, place)
  /\ event = "CLOSED" => \A c \in Clients : req[c].op = "reopen" => ReopenPlan(req[c], heat, place)
  /\ \A c \in Clients : req[c].op = "reopen" => event # "OPEN"
  /\ \A c, k \in Clients : req[c].op = "reopen" /\ req[k].op = "reopen" => c = k

\* What no step does to the places.
Keeps ==
  /\ \A r \in Racers : place[r] # Nowhere /\ place'[r] = Nowhere => event = "CLOSED"
  /\ \A r, s \in Racers : Before(place, r, s) => ~Before(place', s, r)

LEMMA NotBoth ==
  ASSUME NEW ps \in Places, NEW r \in Racers, NEW s \in Racers, Before(ps, r, s)
  PROVE  ~Before(ps, s, r)
BY DEF Before, Together, Places

LEMMA UnmovedKeeps ==
  ASSUME Typed, place' = place
  PROVE  Keeps
BY NotBoth DEF Keeps, Typed, Sound

\* The others' requests, after a transaction that deleted no row.
LEMMA OthersPlan ==
  ASSUME Typed, NEW c \in Clients, Ends(c, {}, {}), NEW k \in Clients, k # c
  PROVE  /\ req'[k].op = req[k].op
         /\ req[k].op \in {"close", "reopen"} =>
              req'[k].passes = req[k].passes /\ (Fresh(req[k]) => Fresh(req'[k]))
<1>1. req[k] \in Requests /\ req'[k] = Forgets(req[k], {}, {})
  BY EndsIs DEF Typed
<1>2. /\ Remains(req[k], Forgets(req[k], {}, {}))
      /\ req[k] # Idle => /\ Forgets(req[k], {}, {}).dead = req[k].dead \cup {}
                          /\ Forgets(req[k], {}, {}).stale = req[k].stale \cup {}
  <2> DEFINE q == req[k]
  <2> HIDE DEF q
  <2>1. q \in Requests /\ {} \in SUBSET Numbers /\ {} \in SUBSET Racers
    BY <1>1 DEF q
  <2>2. \A H \in SUBSET Numbers, R \in SUBSET Racers :
          /\ Remains(q, Forgets(q, H, R))
          /\ q # Idle => /\ Forgets(q, H, R).dead = q.dead \cup H
                         /\ Forgets(q, H, R).stale = q.stale \cup R
    BY <2>1, ForgetsIs
  <2>3. QED
    BY <2>1, <2>2 DEF q
<1>3. req[k].op \in {"close", "reopen"} => req[k] # Idle
  BY DEF Idle
<1>4. req'[k].op = req[k].op /\ (req[k].op \in {"close", "reopen"} => req'[k].passes = req[k].passes)
  <2>1. Remains(req[k], req'[k])
    BY <1>1, <1>2
  <2>2. QED
    BY <2>1 DEF Remains
<1>5. ASSUME req[k].op \in {"close", "reopen"}, Fresh(req[k]) PROVE Fresh(req'[k])
  <2>1. req'[k].dead = req[k].dead \cup {} /\ req'[k].stale = req[k].stale \cup {}
    BY <1>1, <1>2, <1>3, <1>5
  <2>2. QED
    BY <1>5, <2>1 DEF Fresh
<1>6. QED
  BY <1>4, <1>5

\* Gapless, request by request.
Waits(q) ==
  /\ event = "OPEN" /\ q.op = "close" => ClosePlan(q, heat, place)
  /\ event = "CLOSED" /\ q.op = "reopen" => ReopenPlan(q, heat, place)
  /\ q.op = "reopen" => event # "OPEN"

LEMMA GaplessIs ==
  Gapless <=> /\ Full(place) /\ Manned(heat, place)
              /\ \A c \in Clients : Waits(req[c])
              /\ \A c, k \in Clients : req[c].op = "reopen" /\ req[k].op = "reopen" => c = k
BY DEF Gapless, Waits

\* A step that leaves the heats alone, and starts or ends at most one request.
LEMMA UnmovedStep ==
  ASSUME Typed, Gapless, UNCHANGED <<event, heat, place>>, NEW c \in Clients,
         \A k \in Clients : k # c => req'[k] = req[k], Waits(req[c])',
         req'[c].op = "reopen" => ~Reopening
  PROVE  Gapless' /\ Keeps
<1>1. /\ Full(place) /\ Manned(heat, place)
      /\ \A k \in Clients : Waits(req[k])
      /\ \A d, k \in Clients : req[d].op = "reopen" /\ req[k].op = "reopen" => d = k
  BY GaplessIs
<1>2. \A k \in Clients : Waits(req[k])'
  BY <1>1 DEF Waits
<1>3. \A d, k \in Clients : req'[d].op = "reopen" /\ req'[k].op = "reopen" => d = k
  BY <1>1 DEF Reopening
<1>4. Gapless'
  BY <1>1, <1>2, <1>3, GaplessIs DEF Gapless, Waits
<1>5. QED
  BY <1>4, UnmovedKeeps

\* A transaction, as far as the others are concerned.
LEMMA EndsStep ==
  ASSUME Typed, Gapless, NEW c \in Clients, Ends(c, {}, {}), Tight(heat', place'),
         \/ event' = event /\ \A L : LayoutTo(MaxHeat, L) /\ Reads(L, heat, place)
                                       => Reads(L, heat', place')
         \/ event' = "OPEN" /\ ~Closing /\ req[c].op = "reopen"
         \/ event' = "CLOSED" /\ event = "OPEN"
  PROVE  Gapless'
<1>1. /\ \A k \in Clients : Waits(req[k])
      /\ \A d, k \in Clients : req[d].op = "reopen" /\ req[k].op = "reopen" => d = k
  BY GaplessIs
<1>2. req'[c] = Idle
  BY EndsIs
<1>3. ASSUME NEW k \in Clients, k # c
      PROVE  /\ req'[k].op = req[k].op
             /\ req[k].op \in {"close", "reopen"} =>
                  req'[k].passes = req[k].passes /\ (Fresh(req[k]) => Fresh(req'[k]))
  BY <1>3, OthersPlan
<1>4. \A d, k \in Clients : req'[d].op = "reopen" /\ req'[k].op = "reopen" => d = k
  BY <1>1, <1>2, <1>3 DEF Idle
<1>5. ASSUME NEW k \in Clients PROVE Waits(req[k])'
  <2>1. CASE k = c
    BY <1>2, <2>1 DEF Waits, Idle
  <2>2. CASE k # c
    <3>1. CASE event' = event /\ \A L : LayoutTo(MaxHeat, L) /\ Reads(L, heat, place)
                                          => Reads(L, heat', place')
      <4>1. event = "OPEN" /\ req[k].op = "close" => ClosePlan(req'[k], heat', place')
        BY <1>1, <1>3, <2>2, <3>1 DEF Waits, ClosePlan
      <4>2. event = "CLOSED" /\ req[k].op = "reopen" => ReopenPlan(req'[k], heat', place')
        BY <1>1, <1>3, <2>2, <3>1 DEF Waits, ReopenPlan
      <4>3. QED
        BY <1>1, <1>3, <2>2, <3>1, <4>1, <4>2 DEF Waits
    <3>2. CASE event' = "OPEN" /\ ~Closing /\ req[c].op = "reopen"
      BY <1>1, <1>3, <2>2, <3>2 DEF Waits, Closing
    <3>3. CASE event' = "CLOSED" /\ event = "OPEN"
      BY <1>1, <1>3, <2>2, <3>3 DEF Waits
    <3>4. QED
      BY <3>1, <3>2, <3>3
  <2>3. QED
    BY <2>1, <2>2
<1>6. QED
  BY <1>4, <1>5, GaplessIs DEF Gapless, Waits, Tight

LEMMA GaplessStep ==
  ASSUME OvertakeReopening = FALSE, OvertakeClosing = FALSE, Typed, Gapless, [Next]_vars
  PROVE  Gapless' /\ Keeps
<1>0. /\ Tight(heat, place) /\ Full(place) /\ Manned(heat, place) /\ Sound(heat, place)
      /\ place \in Places /\ req \in [Clients -> Requests]
      /\ event # "ROUND_ONE" => Unlocked(heat)
      /\ \A c \in Clients : Waits(req[c])
      /\ \A c, k \in Clients : req[c].op = "reopen" /\ req[k].op = "reopen" => c = k
  BY GaplessIs DEF Typed, Tight, Sound
<1>t. Sound(heat', place')
  BY TypedStep DEF Typed
<1>1. ASSUME NEW c \in Clients, BeginClose(c) PROVE Gapless' /\ Keeps
  <2>1. /\ UNCHANGED <<event, heat, place>> /\ event = "OPEN"
        /\ \E passes \in {<<>>, Merges(Layout)} : req' = [req EXCEPT ![c] = Request("close", passes)]
    BY <1>1, BeginCloseIs
  <2>2. PICK passes \in {<<>>, Merges(Layout)} : req' = [req EXCEPT ![c] = Request("close", passes)]
    BY <2>1
  <2>3. /\ req'[c].op = "close" /\ req'[c].passes = passes /\ Fresh(req'[c])
        /\ \A k \in Clients : k # c => req'[k] = req[k]
    BY <1>0, <2>2 DEF Request, Fresh
  <2>4. LayoutTo(MaxHeat, Layout) /\ Reads(Layout, heat, place)
    BY <1>0, <2>1, LayoutExact DEF Exact
  <2>5. ClosePlan(req'[c], heat', place')
    BY <2>1, <2>2, <2>3, <2>4 DEF ClosePlan
  <2>6. Waits(req[c])'
    BY <2>3, <2>5 DEF Waits
  <2>7. QED
    BY <2>1, <2>3, <2>6, UnmovedStep
<1>2. ASSUME NEW c \in Clients, CommitClose(c) PROVE Gapless' /\ Keeps
  <2>1. /\ req[c] \in CloseRequests
        /\ \/ UNCHANGED <<event, heat, place>> /\ Ends(c, {}, {})
           \/ /\ event = "OPEN" /\ event' = "CLOSED" /\ Folded(req[c]).ok
              /\ heat' = Folded(req[c]).heat /\ place' = Folded(req[c]).place
              /\ Follows(heat, place, heat', place')
              /\ Ends(c, Heats(heat) \ Heats(heat'), {})
    BY <1>2, CommitCloseIs
  <2>2. CASE UNCHANGED <<event, heat, place>> /\ Ends(c, {}, {})
    <3>1. Gapless'
      BY <1>0, <2>2, EndsStep
    <3>2. QED
      BY <2>2, <3>1, UnmovedKeeps
  <2>3. CASE /\ event = "OPEN" /\ event' = "CLOSED" /\ Folded(req[c]).ok
             /\ heat' = Folded(req[c]).heat /\ place' = Folded(req[c]).place
             /\ Follows(heat, place, heat', place')
             /\ Ends(c, Heats(heat) \ Heats(heat'), {})
    <3>1. req[c].op = "close"
      BY <2>1 DEF CloseRequests
    <3>2. ClosePlan(req[c], heat, place)
      BY <1>0, <2>3, <3>1 DEF Waits
    <3>3. Tight(heat', place') /\ Orders(place, place')
      BY <1>0, <2>3, <3>2, CloseKeeps DEF Closes
    <3>4. Heats(heat) \ Heats(heat') \in SUBSET Numbers
      BY HeatsFinite
    <3>5. \A k \in Clients : k # c => req'[k].op = req[k].op
      BY <2>3, <3>4, EndsIs DEF Remains
    <3>6. req'[c] = Idle
      BY <2>3 DEF Ends
    <3>7. \A k \in Clients : req'[k].op # "reopen"
      BY <1>0, <2>3, <3>5, <3>6 DEF Idle, Waits
    <3>8. Gapless'
      BY <2>3, <3>3, <3>7 DEF Gapless, Tight
    <3>9. \A r \in Racers : place'[r] = Nowhere <=> place[r] = Nowhere
      BY <2>3 DEF Follows, SamePlaced
    <3>10. \A r, s \in Racers : Before(place, r, s) => ~Before(place', s, r)
      BY <1>t, <3>3, NotBoth DEF Orders, Sound
    <3>11. QED
      BY <3>8, <3>9, <3>10 DEF Keeps
  <2>4. QED
    BY <2>1, <2>2, <2>3
<1>3. ASSUME NEW c \in Clients, BeginReopen(c) PROVE Gapless' /\ Keeps
  <2>1. /\ UNCHANGED <<event, heat, place>> /\ event = "CLOSED" /\ ~Reopening
        /\ \E passes \in {<<>>, Splits(Layout)} : req' = [req EXCEPT ![c] = Request("reopen", passes)]
    BY <1>3, BeginReopenIs
  <2>2. PICK passes \in {<<>>, Splits(Layout)} : req' = [req EXCEPT ![c] = Request("reopen", passes)]
    BY <2>1
  <2>3. /\ req'[c].op = "reopen" /\ req'[c].passes = passes /\ Fresh(req'[c])
        /\ \A k \in Clients : k # c => req'[k] = req[k]
    BY <1>0, <2>2 DEF Request, Fresh
  <2>4. LayoutTo(MaxHeat, Layout) /\ Reads(Layout, heat, place)
    BY <1>0, <2>1, LayoutExact DEF Exact
  <2>5. ReopenPlan(req'[c], heat', place')
    BY <2>1, <2>2, <2>3, <2>4 DEF ReopenPlan
  <2>6. Waits(req[c])'
    BY <2>1, <2>3, <2>5 DEF Waits
  <2>7. QED
    BY <2>1, <2>3, <2>6, UnmovedStep
<1>4. ASSUME NEW c \in Clients, CommitReopen(c) PROVE Gapless' /\ Keeps
  <2>1. /\ req[c] \in ReopenRequests /\ Ends(c, {}, {}) /\ ~Closing
        /\ \/ UNCHANGED <<event, heat, place>>
           \/ /\ event = "CLOSED" /\ event' = "OPEN" /\ Unfolded(req[c]).ok
              /\ heat' = Unfolded(req[c]).heat /\ place' = Unfolded(req[c]).place
              /\ Follows(heat, place, heat', place')
    BY <1>4, CommitReopenIs
  <2>2. CASE UNCHANGED <<event, heat, place>>
    <3>1. Gapless'
      BY <1>0, <2>1, <2>2, EndsStep
    <3>2. QED
      BY <2>2, <3>1, UnmovedKeeps
  <2>3. CASE /\ event = "CLOSED" /\ event' = "OPEN" /\ Unfolded(req[c]).ok
             /\ heat' = Unfolded(req[c]).heat /\ place' = Unfolded(req[c]).place
             /\ Follows(heat, place, heat', place')
    <3>1. req[c].op = "reopen"
      BY <2>1 DEF ReopenRequests
    <3>2. ReopenPlan(req[c], heat, place)
      BY <1>0, <2>3, <3>1 DEF Waits
    <3>3. Tight(heat', place') /\ Orders(place', place)
      BY <1>0, <2>1, <2>3, <3>2, ReopenKeeps DEF Reopens
    <3>4. Gapless'
      BY <2>1, <2>3, <3>1, <3>3, EndsStep
    <3>5. \A r \in Racers : place'[r] = Nowhere <=> place[r] = Nowhere
      BY <2>3 DEF Follows, SamePlaced
    <3>6. \A r, s \in Racers : Before(place, r, s) => ~Before(place', s, r)
      BY <1>0, <3>3, NotBoth DEF Orders
    <3>7. QED
      BY <3>4, <3>5, <3>6 DEF Keeps
  <2>4. QED
    BY <2>1, <2>2, <2>3
<1>5. ASSUME NEW c \in Clients, CommitPair(c) PROVE Gapless' /\ Keeps
  <2> DEFINE q == req[c]
  <2>1. /\ q \in PairRequests /\ Ends(c, {}, {}) /\ event' = event
        /\ \/ UNCHANGED <<heat, place, reg, held>>
           \/ Seats(q)
    BY <1>5, PairIs
  <2>2. CASE UNCHANGED <<heat, place, reg, held>>
    <3>1. Gapless'
      BY <1>0, <2>1, <2>2, EndsStep
    <3>2. QED
      BY <2>2, <3>1, UnmovedKeeps
  <2>3. CASE Seats(q)
    <3> HIDE DEF q
    <3>1. /\ Full(place') /\ Manned(heat', place')
          /\ \A r, s \in Racers : Before(place, r, s) => ~Before(place', s, r)
          /\ \A L : LayoutTo(MaxHeat, L) /\ Reads(L, heat, place) => Reads(L, heat', place')
      BY <1>0, <2>1, <2>3, SeatFull
    <3>2. Gapless'
      BY <1>t, <2>1, <3>1, EndsStep DEF Tight
    <3>3. ASSUME NEW r \in Racers, place[r] # Nowhere PROVE place'[r] # Nowhere
      BY <1>0, <2>3, <3>3 DEF Seats, Places
    <3>4. QED
      BY <3>1, <3>2, <3>3 DEF Keeps
  <2>4. QED
    BY <2>1, <2>2, <2>3
<1>6. ASSUME NEW c \in Clients, NEW r \in Racers, BeginPair(c, r) PROVE Gapless' /\ Keeps
  <2>1. BeginsPair(c, r)
    BY <1>6, BeginPairIs
  <2>2. PICK q \in PairRequests : req' = [req EXCEPT ![c] = q]
    BY <2>1 DEF BeginsPair
  <2>3. /\ UNCHANGED <<event, heat, place>>
        /\ req'[c].op = "pair" /\ \A k \in Clients : k # c => req'[k] = req[k]
    BY <1>0, <2>1, <2>2 DEF BeginsPair, PairRequests
  <2>4. Waits(req[c])'
    BY <2>3 DEF Waits
  <2>5. QED
    BY <2>3, <2>4, UnmovedStep
<1>7. ASSUME NEW n \in Numbers, ReplaceRoster(n) PROVE Gapless' /\ Keeps
  <2>1. /\ event = "CLOSED" /\ event' = event /\ ~Reopening
        /\ req' = [c \in Clients |-> Forgets(req[c], {}, In(place, n))]
        /\ Heats(heat') = Heats(heat)
    BY <1>7, ReplaceIs
  <2>2. PICK ids \in Seq(Racers) : Relists(n, ids)
    BY <1>7, ReplaceIs
  <2>3. /\ Full(place') /\ Manned(heat', place')
        /\ \A r, s \in Racers : Before(place, r, s) => ~Before(place', s, r)
    BY <1>0, <2>1, <2>2, RelistFull
  <2>4. ASSUME NEW c \in Clients PROVE req'[c].op # "reopen"
    <3>1. Remains(req[c], Forgets(req[c], {}, In(place, n)))
      BY <1>0, InFinite, ForgetsIs
    <3>2. Remains(req[c], req'[c])
      BY <2>1, <3>1
    <3>3. QED
      BY <2>1, <3>2 DEF Remains, Reopening
  <2>5. Gapless'
    BY <2>1, <2>3, <2>4 DEF Gapless
  <2>6. QED
    BY <2>1, <2>3, <2>5 DEF Keeps
<1>8. ASSUME NEW r \in Racers, Register(r) \/ Withdraw(r) \/ Reactivate(r) \/ LoseDuck(r)
      PROVE  Gapless' /\ Keeps
  <2>1. UNCHANGED <<event, heat, place, req>>
    BY <1>8 DEF Register, Withdraw, Reactivate, LoseDuck
  <2>2. Gapless'
    BY <2>1 DEF Gapless
  <2>3. QED
    BY <2>1, <2>2, UnmovedKeeps
<1>9. ASSUME StartRoundOne PROVE Gapless' /\ Keeps
  <2>1. /\ UNCHANGED <<place, req>> /\ event' = "ROUND_ONE"
        /\ heat' = [n \in Numbers |-> IF heat[n].status = "PLANNED"
                                      THEN [heat[n] EXCEPT !.status = "LOADING"] ELSE heat[n]]
    BY <1>9 DEF StartRoundOne
  <2>2. \A n \in Numbers : heat[n] \in Rows
    BY <1>0 DEF Sound
  <2>3. \A n \in Numbers : heat'[n].status = "none" <=> heat[n].status = "none"
    BY <2>1, <2>2 DEF Rows, NoHeat
  <2>4. Heats(heat') = Heats(heat)
    BY <2>3 DEF Heats
  <2>5. Manned(heat', place')
    BY <1>0, <2>1, <2>4 DEF Manned
  <2>6. Gapless'
    BY <1>0, <2>1, <2>5 DEF Gapless
  <2>7. QED
    BY <2>1, <2>6, UnmovedKeeps
<1>10. CASE UNCHANGED vars
  <2>1. UNCHANGED <<event, heat, place, req>>
    BY <1>10 DEF vars
  <2>2. Gapless'
    BY <2>1 DEF Gapless
  <2>3. QED
    BY <2>1, <2>2, UnmovedKeeps
<1>11. QED
  BY <1>1, <1>2, <1>3, <1>4, <1>5, <1>6, <1>7, <1>8, <1>9, <1>10 DEF Next

LEMMA GaplessInit == Init => Gapless
<1> SUFFICES ASSUME Init PROVE Gapless
  OBVIOUS
<1>1. \A n \in Numbers : In(place, n) = {}
  BY Constants DEF Init, In, Nowhere, Numbers
<1>2. \A n \in Numbers : Size(place, n) = 0
  BY <1>1, InFinite
<1>3. Full(place)
  BY <1>1, <1>2 DEF Full, Filled, Slotted
<1>4. Heats(heat) = {}
  BY DEF Init, Heats, NoHeat
<1>5. \A c \in Clients : req[c].op = "idle"
  BY DEF Init, Idle
<1>6. QED
  BY <1>3, <1>4, <1>5 DEF Gapless, Manned

LEMMA GaplessAlways ==
  ASSUME OvertakeReopening = FALSE, OvertakeClosing = FALSE
  PROVE  Spec => [](Typed /\ Gapless)
<1>1. Init => Typed /\ Gapless
  BY TypedInit, GaplessInit
<1>2. Typed /\ Gapless /\ [Next]_vars => Typed' /\ Gapless'
  BY TypedStep, GaplessStep
<1>3. QED
  BY <1>1, <1>2, PTL DEF Spec

LEMMA GaplessIsContiguous == Gapless => SlotsContiguous
<1> SUFFICES ASSUME Gapless, NEW n \in Heats(heat)
             PROVE  {place[r].slot : r \in In(place, n)} = 1..Size(place, n)
  BY DEF SlotsContiguous
<1>1. Filled(In(place, n), place, Size(place, n))
  BY HeatsFinite DEF Gapless, Full
<1>2. QED
  BY <1>1 DEF Filled

LEMMA GaplessMends ==
  ASSUME Typed, Gapless
  PROVE  ClosingMends
<1> DEFINE q == Request("close", Merges(Layout))
<1> DEFINE b == Folded(q)
<1> DEFINE all == {r \in Racers : place[r] # Nowhere}
<1> SUFFICES ASSUME event = "OPEN"
             PROVE  /\ b.ok
                    /\ \/ \A n \in Heats(b.heat) : Size(b.place, n) >= MinimumHeatSize
                       \/ Cardinality(all) < MinimumHeatSize
  BY DEF ClosingMends
<1>1. Tight(heat, place) /\ Unlocked(heat) /\ Sound(heat, place)
  BY DEF Typed, Gapless, Tight
<1>2. LayoutTo(MaxHeat, Layout) /\ Exact(Layout, heat, place) /\ Reads(Layout, heat, place)
  BY <1>1, LayoutExact DEF Exact
<1>3. PICK m \in Nat : MergesOver(MaxHeat, Layout, m)
  BY <1>2, MergesIs, Constants
<1>4. q.passes = Merges(Layout) /\ Fresh(q) /\ q \in CloseRequests
  BY <1>1, PlansAreTyped DEF Request, Fresh, CloseRequests
<1> DEFINE M == Folding(Layout)[m]
<1> HIDE DEF q
<1>5. /\ Closes(b) /\ b.ok /\ Exact(M, b.heat, b.place)
  BY <1>1, <1>2, <1>3, <1>4, FoldRuns
<1>6. Runnable(M) /\ LayoutTo(MaxHeat, M)
  BY <1>3 DEF MergesOver
<1>7. SamePlaced(place, b.place)
  BY <1>1, <1>4, <1>5, FoldedSound DEF Follows
<1> HIDE DEF b, M
<1>8. /\ DOMAIN M = Heats(b.heat) /\ Sound(b.heat, b.place)
      /\ \A n \in DOMAIN M : Len(M[n].roster) = Size(b.place, n) /\ M[n].roster # <<>>
  BY <1>5 DEF Exact, Reads, Closes, Tight
<1>9. CASE \A n \in DOMAIN M : Len(M[n].roster) >= MinimumHeatSize
  BY <1>5, <1>8, <1>9
<1>10. CASE Cardinality(DOMAIN M) <= 1
  <2>1. SUFFICES ASSUME NEW n \in Heats(b.heat), ~(Size(b.place, n) >= MinimumHeatSize)
                 PROVE  Cardinality(all) < MinimumHeatSize
    BY <1>5
  <2>2. ASSUME NEW k \in Heats(b.heat) PROVE k = n
    <3>1. IsFiniteSet(Heats(b.heat)) /\ Cardinality(Heats(b.heat)) \in Nat
      BY HeatsFinite
    <3>2. {k, n} \subseteq Heats(b.heat)
      BY <2>1, <2>2
    <3>3. IsFiniteSet({k, n}) /\ Cardinality({k, n}) <= Cardinality(Heats(b.heat))
      BY <3>1, <3>2, FS_Subset
    <3>4. Cardinality({k, n}) <= 1
      BY <1>8, <1>10, <3>1, <3>3, FS_CardinalityType
    <3>5. k # n => Cardinality({k, n}) = 2
      <4>1. ASSUME k # n PROVE Cardinality({k, n}) = 2
        <5>1. IsFiniteSet({k}) /\ Cardinality({k}) = 1
          BY FS_Singleton
        <5>2. Cardinality({k} \cup {n}) = Cardinality({k}) + 1
          BY <4>1, <5>1, FS_AddElement
        <5>3. {k} \cup {n} = {k, n}
          OBVIOUS
        <5>4. QED
          BY <5>1, <5>2, <5>3
      <4>2. QED
        BY <4>1
    <3>6. QED
      BY <3>4, <3>5
  <2>3. all \subseteq In(b.place, n)
    BY <1>7, <1>8, <2>2 DEF SamePlaced, Sound, In
  <2>4. IsFiniteSet(In(b.place, n)) /\ Size(b.place, n) = Cardinality(In(b.place, n))
        /\ Size(b.place, n) \in Nat
    BY InFinite
  <2>5. Cardinality(all) <= Size(b.place, n) /\ Cardinality(all) \in Nat
    <3>1. IsFiniteSet(all) /\ Cardinality(all) <= Cardinality(In(b.place, n))
      BY <2>3, <2>4, FS_Subset
    <3>2. QED
      BY <2>4, <3>1, FS_CardinalityType
  <2>6. MinimumHeatSize \in Nat
    BY Constants
  <2>7. QED
    BY <2>1, <2>4, <2>5, <2>6
<1>11. CASE ~(Cardinality(DOMAIN M) <= 1)
  <2>1. Runnable(M) => (\A n \in DOMAIN M : Len(M[n].roster) >= MinimumHeatSize)
                       \/ M[TailOf(M)].roster = <<>>
    BY <1>11 DEF Runnable
  <2>2. TailOf(M) \in DOMAIN M
    <3>1. DOMAIN M # {}
      BY <1>11, FS_EmptySet
    <3>2. /\ IsFiniteSet(DOMAIN M) /\ DOMAIN M \in SUBSET Nat
          /\ \A n \in DOMAIN M : n <= MaxHeat
      BY <1>6, LayoutSize, Constants
    <3>3. QED
      BY <3>1, <3>2, MaxIs, Constants DEF TailOf
  <2>3. QED
    BY <1>6, <1>8, <1>9, <2>1, <2>2
<1>12. QED
  BY <1>10, <1>11

LEMMA GaplessRestores ==
  ASSUME Typed, Gapless
  PROVE  ReopeningMends
<1> DEFINE passes == Splits(Layout)
<1> DEFINE q == Request("reopen", passes)
<1> DEFINE b == Unfolded(q)
<1> SUFFICES ASSUME event = "CLOSED", \A i \in 1..Len(passes) : passes[i].into \in Numbers
             PROVE  /\ b.ok
                    /\ \/ \A n \in Heats(b.heat) : Size(b.place, n) <= b.heat[n].target
                       \/ Cardinality(Heats(b.heat)) = FinalCapacity
  BY DEF ReopeningMends
<1>1. Tight(heat, place) /\ Unlocked(heat) /\ Sound(heat, place)
  BY DEF Typed, Gapless, Tight
<1>2. /\ LayoutTo(MaxHeat, Layout) /\ Exact(Layout, heat, place) /\ Reads(Layout, heat, place)
      /\ Targets(Layout, heat)
  BY <1>1, LayoutExact DEF Exact
<1>3. PICK m \in Nat : SplitsOver(MaxHeat, Layout, m)
  BY <1>2, SplitsIs, Constants
<1>4. /\ q.passes = Splits(Layout) /\ Fresh(q)
      /\ \A i \in 1..Len(q.passes) : q.passes[i].into \in Numbers
  BY DEF Request, Fresh
<1> DEFINE M == Splitting(Layout)[m]
<1> HIDE DEF q
<1>5. ExactTo(Layout, Untouched)
  BY <1>2 DEF ExactTo, Untouched
<1>6. Reopens(b) /\ ExactTo(M, b)
  BY <1>1, <1>2, <1>3, <1>4, <1>5, UnfoldRuns
<1>7. Restored(M) /\ LayoutTo(MaxHeat + m, M)
  BY <1>3 DEF SplitsOver
<1> HIDE DEF b, M
<1>8. /\ b.ok /\ DOMAIN M = Heats(b.heat) /\ Sound(b.heat, b.place)
      /\ \A n \in DOMAIN M : /\ Len(M[n].roster) = Size(b.place, n)
                             /\ b.heat[n].target = M[n].target
  BY <1>6 DEF Exact, ExactTo, Targets, Reopens, Tight
<1>9. CASE Over(M) = {}
  <2>1. ASSUME NEW n \in Heats(b.heat) PROVE Size(b.place, n) <= b.heat[n].target
    <3>1. n \in DOMAIN M /\ ~(Len(M[n].roster) > M[n].target)
      BY <1>8, <1>9, <2>1 DEF Over
    <3>2. M[n].target \in Nat /\ Size(b.place, n) \in Nat
      BY <1>7, <3>1, InFinite DEF LayoutTo, Slate
    <3>3. QED
      BY <1>8, <3>1, <3>2
  <2>2. QED
    BY <1>8, <2>1
<1>10. CASE Cardinality(DOMAIN M) >= FinalCapacity
  <2>1. /\ Cardinality(Heats(b.heat)) <= FinalCapacity /\ Cardinality(Heats(b.heat)) \in Nat
        /\ FinalCapacity \in Nat
    BY <1>8, HeatsFinite, Constants DEF Sound
  <2>2. QED
    BY <1>8, <1>10, <2>1
<1>11. QED
  BY <1>7, <1>9, <1>10 DEF Restored

\* Whatever a plan was read from, a heat's slots have no gap and no two racers: the
\* count of a heat's entries is always the slot before the next free one, as long
\* as a reopening is not overtaken and waits for the closings that are under way.
THEOREM SlotsContiguousHolds ==
  ASSUME OvertakeReopening = FALSE, OvertakeClosing = FALSE
  PROVE  Spec => []SlotsContiguous
BY GaplessAlways, GaplessIsContiguous, PTL

\* Closing the registration of an open event commits, and leaves heats that can
\* race, unless fewer racers than one heat needs have a place.
THEOREM ClosingMendsHolds ==
  ASSUME OvertakeReopening = FALSE, OvertakeClosing = FALSE
  PROVE  Spec => []ClosingMends
BY GaplessAlways, GaplessMends, PTL

\* Reopening commits, and leaves every heat with no more racers than it owns slots,
\* as far as the final has places for the heats that takes.
THEOREM ReopeningMendsHolds ==
  ASSUME OvertakeReopening = FALSE, OvertakeClosing = FALSE
  PROVE  Spec => []ReopeningMends
BY GaplessAlways, GaplessRestores, PTL

\* No step but the replacement of a roster takes a place away, and no step reverses
\* two racers of a heat, whose ducks lie in its bag in that order.
THEOREM PlacesAreKeptHolds ==
  ASSUME OvertakeReopening = FALSE, OvertakeClosing = FALSE
  PROVE  Spec => PlacesAreKept
<1>1. Typed /\ Gapless /\ [Next]_vars
        => [/\ \A r \in Racers : place[r] # Nowhere /\ place'[r] = Nowhere => event = "CLOSED"
            /\ \A r, s \in Racers : Before(place, r, s) => ~Before(place', s, r)]_vars
  BY GaplessStep DEF Keeps
<1>2. QED
  BY <1>1, GaplessAlways, PTL DEF Spec, PlacesAreKept
=============================================================================
