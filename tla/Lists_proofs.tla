---------------------------- MODULE Lists_proofs ----------------------------
(***************************************************************************)
(* Lemmas about the lists that the modules are built from, cited in the    *)
(* proofs about the back office and about people.                          *)
(***************************************************************************)
EXTENDS Lists, Sequences, FiniteSetTheorems, TLAPS

(* The places of a list have ranks, each a rank of its own, and each rank up *)
(* to their number is that of a place.                                       *)
LEMMA RanksOfPlaces ==
  ASSUME NEW m \in Nat, NEW I \in SUBSET (1..m)
  PROVE  /\ IsFiniteSet(I) /\ Cardinality(I) \in Nat
         /\ \A i \in I : RankIn(I, i) \in 1..Cardinality(I)
         /\ \A i, j \in I : i < j => RankIn(I, i) < RankIn(I, j)
         /\ \A n \in 1..Cardinality(I) : \E i \in I : RankIn(I, i) = n
<1>a. \A i \in I : i \in Nat
  OBVIOUS
<1>1. IsFiniteSet(1..m)
  BY FS_Interval
<1>2. IsFiniteSet(I) /\ Cardinality(I) \in Nat
  BY <1>1, FS_Subset, FS_CardinalityType
<1>3. ASSUME NEW i \in I
      PROVE  /\ IsFiniteSet({j \in I : j <= i}) /\ RankIn(I, i) \in Nat
             /\ RankIn(I, i) <= Cardinality(I) /\ RankIn(I, i) # 0
  <2>1. {j \in I : j <= i} \in SUBSET I
    OBVIOUS
  <2>2. IsFiniteSet({j \in I : j <= i}) /\ RankIn(I, i) <= Cardinality(I)
    BY <1>2, <2>1, FS_Subset DEF RankIn
  <2>3. i \in {j \in I : j <= i}
    OBVIOUS
  <2>4. RankIn(I, i) \in Nat /\ RankIn(I, i) # 0
    BY <2>2, <2>3, FS_CardinalityType, FS_EmptySet DEF RankIn
  <2> QED BY <2>2, <2>4
<1>4. \A i \in I : RankIn(I, i) \in 1..Cardinality(I)
  <2>1. ASSUME NEW c \in Nat, NEW r \in Nat, r <= c, r # 0 PROVE r \in 1..c
    BY <2>1
  <2> QED BY <1>2, <1>3, <2>1
<1>5. ASSUME NEW i \in I, NEW j \in I, i < j PROVE RankIn(I, i) < RankIn(I, j)
  <2>1. {p \in I : p <= i} \in SUBSET {p \in I : p <= j}
    <3>1. \A p \in I : p \in Nat /\ (p <= i => p <= j)
      BY <1>a, <1>5
    <3> QED BY <3>1
  <2>2. j \in {p \in I : p <= j} /\ j \notin {p \in I : p <= i}
    BY <1>a, <1>5
  <2>3. RankIn(I, i) <= RankIn(I, j) /\ RankIn(I, i) # RankIn(I, j)
    BY <1>3, <2>1, <2>2, FS_Subset DEF RankIn
  <2>4. RankIn(I, i) \in Nat /\ RankIn(I, j) \in Nat
    BY <1>3
  <2> QED BY <2>3, <2>4
<1>6. \A i, j \in I : RankIn(I, i) = RankIn(I, j) => i = j
  <2>1. ASSUME NEW i \in I, NEW j \in I PROVE i < j \/ j < i \/ i = j
    BY <1>a
  <2>2. ASSUME NEW i \in I, NEW j \in I, RankIn(I, i) = RankIn(I, j) PROVE ~(i < j) /\ ~(j < i)
    <3>1. ~(RankIn(I, i) < RankIn(I, j)) /\ ~(RankIn(I, j) < RankIn(I, i))
      <4>1. RankIn(I, i) \in Nat /\ RankIn(I, j) \in Nat
        BY <1>3
      <4>2. \A x, y \in Nat : x = y => ~(x < y) /\ ~(y < x)
        OBVIOUS
      <4> QED BY <2>2, <4>1, <4>2
    <3> QED BY <1>5, <3>1
  <2> QED BY <2>1, <2>2
<1>7. ASSUME NEW n \in 1..Cardinality(I) PROVE \E i \in I : RankIn(I, i) = n
  <2>1. PICK f : f = [i \in I |-> RankIn(I, i)]
    OBVIOUS
  <2>2. f \in Injection(I, 1..Cardinality(I))
    BY <1>4, <1>6, <2>1 DEF Injection, IsInjective
  <2>3. IsFiniteSet(1..Cardinality(I)) /\ Cardinality(1..Cardinality(I)) = Cardinality(I)
    BY <1>2, FS_Interval
  <2>4. f \in Surjection(I, 1..Cardinality(I))
    BY <2>2, <2>3, FS_Injection
  <2> QED BY <2>1, <2>4 DEF Surjection
<1> QED BY <1>2, <1>4, <1>5, <1>7

(* What filter returns: an element for each place kept, and nothing else; in *)
(* the order of the places.                                                  *)
LEMMA FilteredPlaces ==
  ASSUME NEW m \in Nat, NEW I \in SUBSET (1..m), NEW s
  PROVE  /\ Cardinality(I) \in Nat /\ DOMAIN Filtered(s, I) = 1..Cardinality(I)
         /\ \A n \in 1..Cardinality(I) :
              /\ NthOf(I, n) \in I /\ RankIn(I, NthOf(I, n)) = n
              /\ Filtered(s, I)[n] = s[NthOf(I, n)]
         /\ \A i \in I : \E n \in 1..Cardinality(I) : NthOf(I, n) = i
         /\ \A n, p \in 1..Cardinality(I) : n < p => NthOf(I, n) < NthOf(I, p)
<1>a. /\ Cardinality(I) \in Nat
      /\ \A i \in I : RankIn(I, i) \in 1..Cardinality(I)
      /\ \A i, j \in I : i < j => RankIn(I, i) < RankIn(I, j)
      /\ \A n \in 1..Cardinality(I) : \E i \in I : RankIn(I, i) = n
  BY RanksOfPlaces
<1>b. \A i \in I : i \in Nat /\ RankIn(I, i) \in Nat
  BY <1>a
<1>1. ASSUME NEW n \in 1..Cardinality(I) PROVE NthOf(I, n) \in I /\ RankIn(I, NthOf(I, n)) = n
  BY <1>a DEF NthOf
<1>2. \A i, j \in I : RankIn(I, i) = RankIn(I, j) => i = j
  <2>1. ASSUME NEW i \in I, NEW j \in I, RankIn(I, i) = RankIn(I, j) PROVE ~(i < j) /\ ~(j < i)
    <3>1. ~(RankIn(I, i) < RankIn(I, j)) /\ ~(RankIn(I, j) < RankIn(I, i))
      BY <1>b, <2>1
    <3> QED BY <1>a, <3>1
  <2>2. \A i, j \in I : ~(i < j) /\ ~(j < i) => i = j
    BY <1>b
  <2> QED BY <2>1, <2>2
<1>3. ASSUME NEW i \in I PROVE \E n \in 1..Cardinality(I) : NthOf(I, n) = i
  <2>1. RankIn(I, i) \in 1..Cardinality(I)
    BY <1>a
  <2>2. NthOf(I, RankIn(I, i)) = i
    BY <1>1, <1>2, <2>1
  <2> QED BY <2>1, <2>2
<1>4. ASSUME NEW n \in 1..Cardinality(I), NEW p \in 1..Cardinality(I), n < p PROVE NthOf(I, n) < NthOf(I, p)
  <2>1. PICK i \in I, j \in I : i = NthOf(I, n) /\ j = NthOf(I, p)
    BY <1>1
  <2>2. i # j /\ ~(j < i)
    <3>1. RankIn(I, i) = n /\ RankIn(I, j) = p
      BY <1>1, <2>1
    <3>2. n # p /\ ~(p < n)
      BY <1>4
    <3> QED BY <1>a, <3>1, <3>2
  <2> QED BY <1>b, <2>1, <2>2
<1>5. DOMAIN Filtered(s, I) = 1..Cardinality(I)
  BY DEF Filtered
<1>6. \A n \in 1..Cardinality(I) : Filtered(s, I)[n] = s[NthOf(I, n)]
  BY DEF Filtered
<1> QED BY <1>1, <1>3, <1>4, <1>5, <1>6, <1>a
(* Filter keeps the type of a list; of a list of one element it keeps that   *)
(* element or nothing.                                                       *)
LEMMA FilteredLists ==
  ASSUME NEW S, NEW s \in Seq(S), NEW I \in SUBSET DOMAIN s
  PROVE  /\ Filtered(s, I) \in Seq(S)
         /\ I = {} => Filtered(s, I) = <<>>
         /\ I = {1} => Filtered(s, I) = <<s[1]>>
<1>1. PICK m \in Nat : m = Len(s) /\ DOMAIN s = 1..m
  OBVIOUS
<1>2. I \in SUBSET (1..m)
  BY <1>1
<1>3. Cardinality(I) \in Nat /\ \A n \in 1..Cardinality(I) : NthOf(I, n) \in I
  BY <1>2, FilteredPlaces
<1>4. \A n \in 1..Cardinality(I) : s[NthOf(I, n)] \in S
  BY <1>3
<1>5. Filtered(s, I) \in [1..Cardinality(I) -> S]
  BY <1>4 DEF Filtered
<1>6. Filtered(s, I) \in Seq(S)
  BY <1>3, <1>5
<1>7. ASSUME I = {} PROVE Filtered(s, I) = <<>>
  <2>1. Cardinality(I) = 0
    BY <1>7, FS_EmptySet
  <2>2. Filtered(s, I) \in [1..0 -> S]
    BY <1>5, <2>1
  <2> QED BY <1>6, <2>2
<1>8. ASSUME I = {1} PROVE Filtered(s, I) = <<s[1]>>
  <2>1. Cardinality(I) = 1
    BY <1>8, FS_Singleton
  <2>2. NthOf(I, 1) = 1
    BY <1>3, <1>8, <2>1
  <2>3. Filtered(s, I) = [n \in 1..1 |-> s[NthOf(I, n)]]
    BY <2>1 DEF Filtered
  <2> QED BY <1>6, <2>2, <2>3
<1> QED BY <1>6, <1>7, <1>8
=============================================================================
