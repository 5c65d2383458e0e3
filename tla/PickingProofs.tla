---------------------------- MODULE PickingProofs ----------------------------
(***************************************************************************)
(* What is picked from a sequence: each place once, in order.              *)
(***************************************************************************)
EXTENDS Picking, SequenceTheorems, FiniteSetTheorems, TLAPS

Rank(S, i) == Cardinality({k \in S : k <= i})

\* Each place is picked at its rank, and nothing else is.
LEMMA PickedAt ==
    ASSUME NEW d \in Nat, NEW S \in SUBSET (1 .. d), NEW s
    PROVE  /\ IsFiniteSet(S) /\ Cardinality(S) \in Nat
           /\ \A n \in 1 .. Cardinality(S) : \E i \in S : Rank(S, i) = n
           /\ \A i \in S : Rank(S, i) \in 1 .. Cardinality(S) /\ Picked(s, S)[Rank(S, i)] = s[i]
           /\ \A i, j \in S : i < j => Rank(S, i) < Rank(S, j)
<1> DEFINE N == Cardinality(S)
           Upto(i) == {k \in S : k <= i}
           rank == [i \in S |-> Rank(S, i)]
<1>1. IsFiniteSet(S) /\ N \in Nat
  <2>1. IsFiniteSet(1 .. d) BY FS_Interval
  <2>2. IsFiniteSet(S) BY <2>1, FS_Subset
  <2> QED BY <2>2, FS_CardinalityType
<1>2. \A i \in S : IsFiniteSet(Upto(i)) /\ Cardinality(Upto(i)) \in Nat /\ Cardinality(Upto(i)) <= N
  BY <1>1, FS_Subset, FS_CardinalityType
<1>3. \A i \in S : i \in Nat OBVIOUS
<1>4. ASSUME NEW i \in S PROVE Rank(S, i) \in 1 .. N
  <2>1. i \in Upto(i) BY <1>3
  <2>2. Cardinality(Upto(i)) # 0 BY <1>2, <2>1, FS_EmptySet
  <2> QED BY <1>1, <1>2, <2>2 DEF Rank
<1>5. ASSUME NEW i \in S, NEW j \in S, i < j PROVE Rank(S, i) < Rank(S, j)
  <2>1. \A k \in S : k <= i => k <= j BY <1>3, <1>5
  <2>2. Upto(i) \in SUBSET Upto(j) /\ j \in Upto(j) /\ j \notin Upto(i)
    <3>1. j <= j /\ ~(j <= i) BY <1>3, <1>5
    <3>2. j \in Upto(j) /\ j \notin Upto(i) BY <3>1
    <3>3. Upto(i) \in SUBSET Upto(j) BY <2>1
    <3> QED BY <3>2, <3>3
  <2>3. Cardinality(Upto(i)) # Cardinality(Upto(j)) /\ Cardinality(Upto(i)) <= Cardinality(Upto(j))
    BY <1>2, <2>2, FS_Subset
  <2>4. Rank(S, i) \in 1 .. N /\ Rank(S, j) \in 1 .. N BY <1>4
  <2> QED BY <1>1, <2>3, <2>4 DEF Rank
<1>6. \A i, j \in S : Rank(S, i) = Rank(S, j) => i = j
  <2> SUFFICES ASSUME NEW i \in S, NEW j \in S, i # j PROVE Rank(S, i) # Rank(S, j) OBVIOUS
  <2>1. i < j \/ j < i BY <1>3
  <2>2. Rank(S, i) \in 1 .. N /\ Rank(S, j) \in 1 .. N BY <1>4
  <2>3. Rank(S, i) < Rank(S, j) \/ Rank(S, j) < Rank(S, i) BY <1>5, <2>1
  <2> QED BY <1>1, <2>2, <2>3
<1>7. \A n \in 1 .. N : \E i \in S : Rank(S, i) = n
  <2>1. rank \in Injection(S, 1 .. N) BY <1>4, <1>6 DEF Injection, IsInjective
  <2>2. IsFiniteSet(1 .. N) /\ Cardinality(1 .. N) = N BY <1>1, FS_Interval
  <2>3. rank \in Surjection(S, 1 .. N) BY <2>1, <2>2, FS_Injection
  <2> QED BY <2>3 DEF Surjection
<1>8. ASSUME NEW i \in S PROVE Picked(s, S)[Rank(S, i)] = s[i]
  <2>1. Rank(S, i) \in 1 .. N BY <1>4
  <2>2. Picked(s, S)[Rank(S, i)] = s[CHOOSE j \in S : Rank(S, j) = Rank(S, i)]
    BY <2>1 DEF Picked, Rank
  <2>3. (CHOOSE j \in S : Rank(S, j) = Rank(S, i)) = i BY <1>6
  <2> QED BY <2>2, <2>3
<1> QED BY <1>1, <1>4, <1>5, <1>7, <1>8

\* What is picked is a sequence.
LEMMA PickedSeq ==
    ASSUME NEW C, NEW d \in Nat, NEW S \in SUBSET (1 .. d), NEW s, \A i \in S : s[i] \in C
    PROVE  Picked(s, S) \in Seq(C) /\ Len(Picked(s, S)) = Cardinality(S)
<1> DEFINE N == Cardinality(S)
<1>1. N \in Nat BY PickedAt
<1>2. ASSUME NEW n \in 1 .. N PROVE Picked(s, S)[n] \in C
  <2>1. PICK i \in S : Rank(S, i) = n BY PickedAt
  <2>2. Picked(s, S)[n] = s[i] BY <2>1, PickedAt
  <2> QED BY <2>2
<1>3. Picked(s, S) = [n \in 1 .. N |-> Picked(s, S)[n]] BY DEF Picked
<1>4. Picked(s, S) \in [1 .. N -> C] BY <1>2, <1>3
<1>5. Picked(s, S) \in Seq(C) BY <1>1, <1>4, SeqDef
<1>6. Len(Picked(s, S)) \in Nat /\ 1 .. N = 1 .. Len(Picked(s, S)) BY <1>4, <1>5, LenProperties
<1>7. Len(Picked(s, S)) = N
  <2> HIDE DEF N
  <2> QED BY <1>1, <1>6
<1> QED BY <1>5, <1>7

\* Two texts that agree on the places give the same.
LEMMA PickedSame ==
    ASSUME NEW d \in Nat, NEW S \in SUBSET (1 .. d), NEW s, NEW t, \A i \in S : s[i] = t[i]
    PROVE  Picked(s, S) = Picked(t, S)
<1> DEFINE N == Cardinality(S)
<1>1. \A n \in 1 .. N : Picked(s, S)[n] = Picked(t, S)[n]
  <2> SUFFICES ASSUME NEW n \in 1 .. N PROVE Picked(s, S)[n] = Picked(t, S)[n] OBVIOUS
  <2>1. PICK i \in S : Rank(S, i) = n BY PickedAt
  <2>2. Picked(s, S)[n] = s[i] /\ Picked(t, S)[n] = t[i] BY <2>1, PickedAt
  <2> QED BY <2>2
<1> QED BY <1>1 DEF Picked

\* Some place is the first.
LEMMA FirstPlace ==
    ASSUME NEW d \in Nat, NEW S \in SUBSET (1 .. d), S # {}
    PROVE  \E i \in S : \A j \in S : i <= j
<1>1. Cardinality(S) \in Nat /\ \A i \in S : Rank(S, i) \in 1 .. Cardinality(S) BY PickedAt
<1>2. 1 \in 1 .. Cardinality(S)
  <2>1. PICK k \in S : TRUE OBVIOUS
  <2>2. Rank(S, k) \in 1 .. Cardinality(S) BY <1>1, <2>1
  <2> QED BY <1>1, <2>2
<1>3. PICK i \in S : Rank(S, i) = 1 BY <1>2, PickedAt
<1>4. ASSUME NEW j \in S PROVE i <= j
  <2>1. ~(j < i)
    <3>1. j < i => Rank(S, j) < Rank(S, i) BY PickedAt
    <3> QED BY <1>1, <1>3, <3>1
  <2> QED BY <2>1
<1> QED BY <1>4
=============================================================================
