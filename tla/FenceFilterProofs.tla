-------------------------- MODULE FenceFilterProofs --------------------------
(***************************************************************************)
(* The fence filter of the Runner bridge, for fences of every length and   *)
(* chunks cut anywhere: what it emits is exactly the visible part of what  *)
(* it was fed.                                                             *)
(***************************************************************************)
EXTENDS FenceFilter, PickingProofs

(* Picking the characters at some places. *)

\* A stretch of places behind all others adds the characters there at the end.
LEMMA PickedStretch ==
    ASSUME NEW s \in Seq(Char), NEW d \in Nat, NEW e \in Nat, d <= e, e <= Len(s),
           NEW S \in SUBSET (1 .. d)
    PROVE  Picked(s, S \cup (d + 1 .. e)) = Picked(s, S) \o SubSeq(s, d + 1, e)
<1> DEFINE U == S \cup (d + 1 .. e)
           N == Cardinality(S)
           more == SubSeq(s, d + 1, e)
<1>1. Len(s) \in Nat /\ \A i \in 1 .. Len(s) : s[i] \in Char BY LenProperties, ElementOfSeq
<1>2. U \in SUBSET (1 .. e) /\ (\A i \in U : s[i] \in Char) /\ (\A i \in S : s[i] \in Char) BY <1>1
<1>3. more \in Seq(Char) /\ Len(more) = e - d /\ \A n \in 1 .. e - d : more[n] = s[d + n]
  <2>1. d + 1 \in Int /\ e \in Int /\ \A i \in d + 1 .. e : s[i] \in Char BY <1>1
  <2>2. more \in Seq(Char) /\ Len(more) = (IF d + 1 <= e THEN e - (d + 1) + 1 ELSE 0)
        /\ \A n \in 1 .. e - (d + 1) + 1 : more[n] = s[(d + 1) + n - 1]
    BY <2>1, SubSeqProperties
  <2>3. e - (d + 1) + 1 = e - d /\ \A n \in 1 .. e - d : (d + 1) + n - 1 = d + n OBVIOUS
  <2>4. Len(more) = e - d BY <2>2
  <2> QED BY <2>2, <2>3, <2>4
<1>4. IsFiniteSet(S) /\ N \in Nat BY PickedAt
<1>5. ASSUME NEW m \in 0 .. e - d
      PROVE Cardinality(S \cup (d + 1 .. d + m)) = N + m
  <2> DEFINE T == d + 1 .. d + m
  <2>1. IsFiniteSet(T) /\ Cardinality(T) = m
    <3>1. d + 1 \in Int /\ d + m \in Int /\ m \in Nat OBVIOUS
    <3>2. IsFiniteSet(T) /\ Cardinality(T) = IF d + 1 > d + m THEN 0 ELSE (d + m) - (d + 1) + 1
      BY <3>1, FS_Interval
    <3> QED BY <3>1, <3>2
  <2>2. S \cap T = {} OBVIOUS
  <2> HIDE DEF T
  <2>3. Cardinality(S \cup T) = N + Cardinality(T) - Cardinality(S \cap T)
    BY <1>4, <2>1, FS_Union
  <2>4. Cardinality(S \cap T) = 0 BY <2>2, FS_EmptySet
  <2> HIDE DEF N
  <2>5. Cardinality(S \cup T) = N + m BY <1>4, <2>1, <2>3, <2>4
  <2> QED BY <2>5 DEF T
<1>6. Cardinality(U) = N + (e - d)
  <2>1. e - d \in 0 .. e - d /\ d + (e - d) = e OBVIOUS
  <2> QED BY <1>5, <2>1
<1>7. Picked(s, U) \in Seq(Char) /\ Len(Picked(s, U)) = N + (e - d) BY <1>2, <1>6, PickedSeq
<1>8. Picked(s, S) \in Seq(Char) /\ Len(Picked(s, S)) = N BY <1>2, PickedSeq
<1>9. /\ \A n \in 1 .. Cardinality(U) : \E i \in U : Rank(U, i) = n
      /\ \A i \in U : Picked(s, U)[Rank(U, i)] = s[i]
  <2> HIDE DEF U
  <2> QED BY <1>2, PickedAt
<1>10. \A i \in S : Rank(S, i) \in 1 .. N /\ Picked(s, S)[Rank(S, i)] = s[i] BY PickedAt
<1>11. \A i \in S : {k \in U : k <= i} = {k \in S : k <= i}
  OBVIOUS
<1>12. \A m \in 1 .. e - d : {k \in U : k <= d + m} = S \cup (d + 1 .. d + m)
  <2> SUFFICES ASSUME NEW m \in 1 .. e - d, NEW k
               PROVE k \in U /\ k <= d + m <=> k \in S \cup (d + 1 .. d + m)
    OBVIOUS
  <2>1. k \in S => k \in Nat /\ k <= d OBVIOUS
  <2>2. k \in d + 1 .. d + m <=> k \in d + 1 .. e /\ k <= d + m OBVIOUS
  <2> QED BY <2>1, <2>2
<1>13. \A i \in U \ S : \E m \in 1 .. e - d : i = d + m
  <2> SUFFICES ASSUME NEW i \in U \ S PROVE \E m \in 1 .. e - d : i = d + m OBVIOUS
  <2>1. i - d \in 1 .. e - d /\ i = d + (i - d) OBVIOUS
  <2> QED BY <2>1
<1>14. \A i \in S : Rank(U, i) = Rank(S, i)
  <2> HIDE DEF U
  <2> QED BY <1>11 DEF Rank
<1>15. \A m \in 1 .. e - d : Rank(U, d + m) = N + m
  <2> HIDE DEF U, N
  <2>1. \A m \in 1 .. e - d : m \in 0 .. e - d OBVIOUS
  <2> QED BY <1>5, <1>12, <2>1 DEF Rank
<1> HIDE DEF U, N, more
<1>16. /\ Picked(s, S) \o more \in Seq(Char) /\ Len(Picked(s, S) \o more) = N + (e - d)
       /\ \A n \in 1 .. N + (e - d) :
             (Picked(s, S) \o more)[n] = IF n <= N THEN Picked(s, S)[n] ELSE more[n - N]
  <2> DEFINE a == Picked(s, S)
  <2>1. a \in Seq(Char) /\ Len(a) = N BY <1>8
  <2> HIDE DEF a
  <2>2. /\ a \o more \in Seq(Char) /\ Len(a \o more) = Len(a) + Len(more)
        /\ \A n \in 1 .. Len(a) + Len(more) :
              (a \o more)[n] = IF n <= Len(a) THEN a[n] ELSE more[n - Len(a)]
    BY <1>3, <2>1, ConcatProperties
  <2>3. Len(a) + Len(more) = N + (e - d) BY <1>3, <2>1
  <2> QED BY <2>1, <2>2, <2>3 DEF a
<1>17. ASSUME NEW n \in 1 .. N + (e - d) PROVE Picked(s, U)[n] = (Picked(s, S) \o more)[n]
  <2>1. PICK i \in U : Rank(U, i) = n BY <1>6, <1>9
  <2>2. Picked(s, U)[n] = s[i] BY <1>9, <2>1
  <2>3. CASE i \in S
    <3>1. n \in 1 .. N /\ Picked(s, S)[n] = s[i] BY <1>10, <1>14, <2>1, <2>3
    <3>2. n <= N BY <1>4, <3>1
    <3> QED BY <1>16, <2>2, <3>1, <3>2
  <2>4. CASE i \notin S
    <3>1. PICK m \in 1 .. e - d : i = d + m BY <1>13, <2>4
    <3>2. n = N + m BY <1>15, <2>1, <3>1
    <3>3. ~(n <= N) /\ n - N = m BY <1>4, <3>1, <3>2
    <3>4. more[m] = s[i] BY <1>3, <3>1
    <3> QED BY <1>16, <2>2, <3>3, <3>4
  <2> QED BY <2>3, <2>4
<1>18. Picked(s, U) = Picked(s, S) \o more
  <2>1. \A n \in 1 .. Len(Picked(s, U)) : Picked(s, U)[n] = (Picked(s, S) \o more)[n]
    BY <1>7, <1>17
  <2> QED BY <1>7, <1>16, <2>1, SeqEqual
<1> QED BY <1>18 DEF U, more
-----------------------------------------------------------------------------
(* Fences of a text. *)

TicksAt(s, a, b) == \A k \in a .. b : s[k] = "tick"

LEMMA FenceLetters ==
    /\ Ticks \in Nat /\ Ticks > 0
    /\ Fence \in Seq(Char) /\ Len(Fence) = Ticks + 1
    /\ \A k \in 1 .. Ticks : Fence[k] = "tick"
    /\ Fence[Ticks + 1] = "newline"
<1>1. Ticks \in Nat /\ Ticks > 0 BY FenceAssumption
<1>2. Fence \in [1 .. Ticks + 1 -> Char] BY DEF Fence, Char
<1>3. Fence \in Seq(Char) BY <1>1, <1>2, SeqDef
<1>4. Len(Fence) \in Nat /\ 1 .. Ticks + 1 = 1 .. Len(Fence) BY <1>2, <1>3, LenProperties
<1>5. Len(Fence) = Ticks + 1 BY <1>1, <1>4
<1>6. /\ \A k \in 1 .. Ticks : Fence[k] = "tick"
      /\ Fence[Ticks + 1] = "newline"
  BY <1>1 DEF Fence
<1> QED BY <1>1, <1>3, <1>5, <1>6

\* A fence is ticks and a newline.
LEMMA FenceIs ==
    ASSUME NEW s \in Seq(Char), NEW i \in 1 .. Len(s) - Ticks
    PROVE  FenceAt(s, i) <=> TicksAt(s, i, i + Ticks - 1) /\ s[i + Ticks] = "newline"
<1>1. Len(s) \in Nat /\ \A k \in 1 .. Len(s) : s[k] \in Char BY LenProperties, ElementOfSeq
<1>2. Ticks \in Nat /\ Ticks > 0 BY FenceAssumption
<1> DEFINE part == SubSeq(s, i, i + Ticks)
<1>3. /\ part \in Seq(Char) /\ Len(part) = Ticks + 1
      /\ \A k \in 1 .. Ticks + 1 : part[k] = s[i + k - 1]
  <2>1. i \in Int /\ i + Ticks \in Int /\ \A k \in i .. i + Ticks : s[k] \in Char BY <1>1, <1>2
  <2>2. /\ part \in Seq(Char)
        /\ Len(part) = IF i <= i + Ticks THEN (i + Ticks) - i + 1 ELSE 0
        /\ \A k \in 1 .. (i + Ticks) - i + 1 : part[k] = s[i + k - 1]
    BY <2>1, SubSeqProperties
  <2>3. i <= i + Ticks /\ (i + Ticks) - i + 1 = Ticks + 1 BY <1>2
  <2> QED BY <2>2, <2>3
<1> HIDE DEF part
<1>4. (part = Fence) = (\A k \in 1 .. Ticks + 1 : part[k] = Fence[k])
  BY <1>3, FenceLetters, SeqEqual
<1>5. (\A k \in 1 .. Ticks + 1 : part[k] = Fence[k])
      = (/\ \A k \in 1 .. Ticks : s[i + k - 1] = "tick"
         /\ s[i + (Ticks + 1) - 1] = "newline")
  <2>1. \A k \in 1 .. Ticks + 1 : k \in 1 .. Ticks \/ k = Ticks + 1 BY <1>2
  <2>2. Ticks + 1 \in 1 .. Ticks + 1 /\ \A k \in 1 .. Ticks : k \in 1 .. Ticks + 1 BY <1>2
  <2> QED BY <1>3, <2>1, <2>2, FenceLetters
<1>6. i + (Ticks + 1) - 1 = i + Ticks BY <1>2
<1>7. (\A k \in 1 .. Ticks : s[i + k - 1] = "tick") <=> TicksAt(s, i, i + Ticks - 1)
  <2>1. ASSUME \A k \in 1 .. Ticks : s[i + k - 1] = "tick"
        PROVE TicksAt(s, i, i + Ticks - 1)
    <3> SUFFICES ASSUME NEW k \in i .. i + Ticks - 1 PROVE s[k] = "tick" BY DEF TicksAt
    <3>1. k - i + 1 \in 1 .. Ticks /\ i + (k - i + 1) - 1 = k BY <1>2
    <3> QED BY <2>1, <3>1
  <2>2. ASSUME TicksAt(s, i, i + Ticks - 1)
        PROVE \A k \in 1 .. Ticks : s[i + k - 1] = "tick"
    <3>1. \A k \in 1 .. Ticks : i + k - 1 \in i .. i + Ticks - 1 BY <1>2
    <3> QED BY <2>2, <3>1 DEF TicksAt
  <2> QED BY <2>1, <2>2
<1> QED BY <1>4, <1>5, <1>6, <1>7 DEF FenceAt, part

\* Fences are places of the text, finitely many, and none begins in another.
LEMMA FencesApart ==
    ASSUME NEW s \in Seq(Char)
    PROVE  /\ Len(s) \in Nat
           /\ \A j \in Fences(s) : j \in Nat /\ j >= 1 /\ j + Ticks <= Len(s)
           /\ \A j, k \in Fences(s) : j < k => j + Ticks < k
           /\ \A d : IsFiniteSet({j \in Fences(s) : j <= d}) /\ Cardinality({j \in Fences(s) : j <= d}) \in Nat
<1>1. Len(s) \in Nat /\ Ticks \in Nat /\ Ticks > 0 BY LenProperties, FenceAssumption
<1>2. \A j \in Fences(s) : j \in Nat /\ j >= 1 /\ j + Ticks <= Len(s) /\ j \in 1 .. Len(s) - Ticks
  BY <1>1 DEF Fences
<1>3. \A j \in Fences(s) : TicksAt(s, j, j + Ticks - 1) /\ s[j + Ticks] = "newline"
  BY <1>2, FenceIs DEF Fences
<1>4. ASSUME NEW j \in Fences(s), NEW k \in Fences(s), j < k PROVE j + Ticks < k
  <2> SUFFICES ASSUME k <= j + Ticks PROVE FALSE BY <1>1, <1>2
  <2>1. j + Ticks \in k .. k + Ticks - 1 BY <1>1, <1>2, <1>4
  <2>2. s[j + Ticks] = "tick" BY <1>3, <2>1 DEF TicksAt
  <2> QED BY <1>3, <2>2
<1>5. \A d : IsFiniteSet({j \in Fences(s) : j <= d}) /\ Cardinality({j \in Fences(s) : j <= d}) \in Nat
  <2>1. Len(s) - Ticks \in Int BY <1>1
  <2>2. IsFiniteSet(1 .. Len(s) - Ticks) BY <2>1, FS_Interval
  <2>3. \A d : {j \in Fences(s) : j <= d} \in SUBSET (1 .. Len(s) - Ticks) BY <1>2
  <2> QED BY <2>2, <2>3, FS_Subset, FS_CardinalityType
<1> QED BY <1>1, <1>2, <1>4, <1>5
-----------------------------------------------------------------------------
(* What is seen of a text, stretch by stretch. *)

\* Place d of a text lies inside no fence.
Between(s, d) == \A j \in Fences(s) : j <= d => j + Ticks <= d
FencesBy(s, d) == Cardinality({j \in Fences(s) : j <= d})

\* From such a place on to the next fence everything is seen, or nothing.
LEMMA Stretch ==
    ASSUME NEW s \in Seq(Char), NEW d \in Nat, NEW e \in Nat, d <= e,
           Between(s, d), \A j \in Fences(s) : ~(d < j /\ j <= e)
    PROVE  /\ Between(s, e) /\ FencesBy(s, e) = FencesBy(s, d)
           /\ Seen(s, e) = IF FencesBy(s, d) % 2 = 0 THEN Seen(s, d) \cup (d + 1 .. e)
                                                     ELSE Seen(s, d)
<1> DEFINE F == Fences(s)
<1>1. Ticks \in Nat /\ \A j \in F : j \in Nat /\ j >= 1 BY FencesApart, FenceAssumption
<1>2. \A j \in F : j <= e <=> j <= d BY <1>1
<1>3. Between(s, e) BY <1>1, <1>2 DEF Between
<1>4. {j \in F : j <= e} = {j \in F : j <= d} BY <1>2
<1>5. FencesBy(s, e) = FencesBy(s, d) BY <1>4 DEF FencesBy
<1>6. ASSUME NEW i \in d + 1 .. e
      PROVE i \in Seen(s, e) <=> FencesBy(s, d) % 2 = 0
  <2>1. \A j \in F : i \notin j .. j + Ticks BY <1>1, <1>2 DEF Between
  <2>2. \A j \in F : j < i <=> j <= d BY <1>1, <1>2
  <2>3. {j \in F : j < i} = {j \in F : j <= d} BY <2>2
  <2>4. i \in 1 .. e OBVIOUS
  <2> QED BY <2>1, <2>3, <2>4 DEF Seen, FencesBy
<1>7. \A i \in 1 .. d : i \in Seen(s, e) <=> i \in Seen(s, d) BY DEF Seen
<1>8. \A i : i \in Seen(s, e) => i \in 1 .. d \/ i \in d + 1 .. e BY DEF Seen
<1>9. \A i : i \in Seen(s, d) => i \in 1 .. d BY DEF Seen
<1>10. Seen(s, e) = IF FencesBy(s, d) % 2 = 0 THEN Seen(s, d) \cup (d + 1 .. e) ELSE Seen(s, d)
  <2>1. CASE FencesBy(s, d) % 2 = 0
    <3>1. \A i : i \in Seen(s, e) <=> i \in Seen(s, d) \/ i \in d + 1 .. e
      BY <1>6, <1>7, <1>8, <1>9, <2>1
    <3> QED BY <2>1, <3>1
  <2>2. CASE FencesBy(s, d) % 2 # 0
    <3>1. \A i : i \in Seen(s, e) <=> i \in Seen(s, d)
      BY <1>6, <1>7, <1>8, <1>9, <2>2
    <3> QED BY <2>2, <3>1
  <2> QED BY <2>1, <2>2
<1> QED BY <1>3, <1>5, <1>10

\* A fence is not seen, and turns what follows.
LEMMA OverFence ==
    ASSUME NEW s \in Seq(Char), NEW J \in Fences(s)
    PROVE  /\ Between(s, J + Ticks)
           /\ Seen(s, J + Ticks) = Seen(s, J - 1)
           /\ FencesBy(s, J - 1) \in Nat
           /\ FencesBy(s, J + Ticks) = FencesBy(s, J - 1) + 1
<1> DEFINE F == Fences(s)
           before == {j \in F : j <= J - 1}
<1>1. Ticks \in Nat /\ Ticks > 0 BY FenceAssumption
<1>2. /\ \A j \in F : j \in Nat /\ j >= 1
      /\ \A j, k \in F : j < k => j + Ticks < k
      /\ IsFiniteSet(before) /\ Cardinality(before) \in Nat
  BY FencesApart
<1>3. \A j \in F : j <= J + Ticks <=> j <= J - 1 \/ j = J BY <1>1, <1>2
<1>4. Between(s, J + Ticks) BY <1>1, <1>2, <1>3 DEF Between
<1>5. {j \in F : j <= J + Ticks} = before \cup {J} BY <1>3
<1>6. J \notin before BY <1>2
<1>7. Cardinality(before \cup {J}) = Cardinality(before) + 1
  <2> HIDE DEF before
  <2> QED BY <1>2, <1>6, FS_AddElement
<1>8. \A i \in J .. J + Ticks : i \notin Seen(s, J + Ticks) BY DEF Seen
<1>9. \A i \in 1 .. J - 1 : i \in Seen(s, J + Ticks) <=> i \in Seen(s, J - 1)
  BY <1>1, <1>2 DEF Seen
<1>10. \A i : i \in Seen(s, J + Ticks) => i \in 1 .. J - 1 \/ i \in J .. J + Ticks
  BY <1>1, <1>2 DEF Seen
<1>11. \A i : i \in Seen(s, J - 1) => i \in 1 .. J - 1 BY DEF Seen
<1>12. Seen(s, J + Ticks) = Seen(s, J - 1) BY <1>8, <1>9, <1>10, <1>11
<1> QED BY <1>2, <1>4, <1>5, <1>7, <1>12 DEF FencesBy

\* More text changes nothing up to a place that no fence can come to cover.
LEMMA MoreText ==
    ASSUME NEW s \in Seq(Char), NEW more \in Seq(Char), NEW d \in 0 .. Len(s), Between(s, d),
           \A i \in 1 .. Len(s) : i > Len(s) - Ticks /\ TicksAt(s, i, Len(s)) => i > d
    PROVE  /\ Between(s \o more, d) /\ FencesBy(s \o more, d) = FencesBy(s, d)
           /\ Seen(s \o more, d) = Seen(s, d)
           /\ Picked(s \o more, Seen(s, d)) = Picked(s, Seen(s, d))
<1> DEFINE t == s \o more
<1>1. Ticks \in Nat /\ Ticks > 0 BY FenceAssumption
<1>2. Len(s) \in Nat /\ Len(more) \in Nat /\ d \in Nat /\ d <= Len(s) BY LenProperties
<1>3. /\ t \in Seq(Char) /\ Len(t) = Len(s) + Len(more)
      /\ \A i \in 1 .. Len(s) + Len(more) : t[i] = IF i <= Len(s) THEN s[i] ELSE more[i - Len(s)]
  BY ConcatProperties
<1>4. \A i \in 1 .. Len(s) : t[i] = s[i] BY <1>2, <1>3
<1> HIDE DEF t
<1>5. \A j \in Fences(s) : j \in Nat /\ j >= 1 /\ j + Ticks <= Len(s) BY FencesApart
<1>6. \A j \in Fences(t) : j \in Nat /\ j >= 1 /\ j + Ticks <= Len(t) BY <1>3, FencesApart
<1>7. ASSUME NEW j \in 1 .. Len(s) - Ticks
      PROVE j \in Fences(t) <=> j \in Fences(s)
  <2>1. j \in 1 .. Len(t) - Ticks BY <1>1, <1>2, <1>3
  <2>2. \A k \in j .. j + Ticks : t[k] = s[k] BY <1>1, <1>2, <1>4
  <2>3. TicksAt(t, j, j + Ticks - 1) <=> TicksAt(s, j, j + Ticks - 1)
    BY <1>1, <2>2 DEF TicksAt
  <2>4. t[j + Ticks] = s[j + Ticks] BY <1>1, <2>2
  <2>5. FenceAt(t, j) <=> FenceAt(s, j) BY <1>3, <2>1, <2>3, <2>4, FenceIs
  <2> QED BY <2>1, <2>5 DEF Fences
<1>8. ASSUME NEW j \in Fences(t), j <= d PROVE j + Ticks <= Len(s)
  <2> SUFFICES ASSUME j + Ticks > Len(s) PROVE FALSE BY <1>1, <1>2, <1>6
  <2>1. j \in 1 .. Len(t) - Ticks /\ FenceAt(t, j) BY DEF Fences
  <2>2. TicksAt(t, j, j + Ticks - 1) BY <1>3, <2>1, FenceIs
  <2>3. j \in 1 .. Len(s) /\ j > Len(s) - Ticks BY <1>1, <1>2, <1>6, <1>8
  <2>4. \A k \in j .. Len(s) : k \in j .. j + Ticks - 1 /\ k \in 1 .. Len(s) BY <1>1, <1>2, <2>3
  <2>5. TicksAt(s, j, Len(s)) BY <1>4, <2>2, <2>4 DEF TicksAt
  <2>6. j > d BY <2>3, <2>5
  <2> QED BY <1>2, <1>6, <1>8, <2>6
<1>9. \A j : j \in Fences(t) /\ j <= d <=> j \in Fences(s) /\ j <= d
  <2>1. ASSUME NEW j \in Fences(t), j <= d PROVE j \in Fences(s)
    <3>1. j \in 1 .. Len(s) - Ticks BY <1>1, <1>2, <1>6, <1>8, <2>1
    <3> QED BY <1>7, <3>1
  <2>2. ASSUME NEW j \in Fences(s), j <= d PROVE j \in Fences(t)
    <3>1. j \in 1 .. Len(s) - Ticks BY <1>1, <1>2, <1>5
    <3> QED BY <1>7, <3>1
  <2> QED BY <2>1, <2>2
<1>10. Between(t, d) BY <1>9 DEF Between
<1>11. {j \in Fences(t) : j <= d} = {j \in Fences(s) : j <= d} BY <1>9
<1>12. FencesBy(t, d) = FencesBy(s, d) BY <1>11 DEF FencesBy
<1>13. ASSUME NEW i \in 1 .. d PROVE i \in Seen(t, d) <=> i \in Seen(s, d)
  <2>1. \A j \in Fences(t) : j < i => j <= d BY <1>2, <1>6
  <2>2. \A j \in Fences(s) : j < i => j <= d BY <1>2, <1>5
  <2>3. {j \in Fences(t) : j < i} = {j \in Fences(s) : j < i} BY <1>9, <2>1, <2>2
  <2>4. \A j \in Fences(t) : i \in j .. j + Ticks => j <= d BY <1>2, <1>6
  <2>5. \A j \in Fences(s) : i \in j .. j + Ticks => j <= d BY <1>2, <1>5
  <2>6. (\A j \in Fences(t) : i \notin j .. j + Ticks) <=> (\A j \in Fences(s) : i \notin j .. j + Ticks)
    BY <1>9, <2>4, <2>5
  <2> QED BY <2>3, <2>6 DEF Seen
<1>14. Seen(t, d) = Seen(s, d)
  <2>1. \A i : (i \in Seen(t, d) => i \in 1 .. d) /\ (i \in Seen(s, d) => i \in 1 .. d) BY DEF Seen
  <2> QED BY <1>13, <2>1
<1>15. Picked(t, Seen(s, d)) = Picked(s, Seen(s, d))
  <2>1. Seen(s, d) \in SUBSET (1 .. d) BY DEF Seen
  <2>2. \A i \in Seen(s, d) : t[i] = s[i] BY <1>2, <1>4, <2>1
  <2> QED BY <1>2, <2>1, <2>2, PickedSame
<1> QED BY <1>10, <1>12, <1>14, <1>15 DEF t
-----------------------------------------------------------------------------
(* The filter. *)

\* The text of a call, and what is carried between calls, are the end of what
\* was fed.
FilterTyped ==
    /\ fed \in Seq(Char) /\ carry \in Seq(Char) /\ text \in Seq(Char) /\ emitted \in Seq(Char)
    /\ inside \in BOOLEAN
    /\ Len(fed) <= MaxFed /\ Len(text) <= Len(fed)
    /\ Len(carry) <= Ticks /\ Len(carry) <= Len(fed)
    /\ from \in Nat /\ from >= 1 /\ from <= Len(text) + 1
Suffix(t) == \A i \in 1 .. Len(t) : t[i] = fed[Len(fed) - Len(t) + i]

\* How far the filter has decided: up to there it has emitted what is seen,
\* and its state says on which side of a fence it is; no row of ticks that
\* may still become a fence begins earlier.
Done == Len(fed) - Len(carry) - (Len(text) + 1 - from)
FilterInv ==
    /\ FilterTyped /\ Suffix(carry) /\ Suffix(text)
    /\ text = <<>> \/ carry = <<>>
    /\ Between(fed, Done)
    /\ \A i \in 1 .. Len(fed) : i > Len(fed) - Ticks /\ TicksAt(fed, i, Len(fed)) => i > Done
    /\ inside <=> FencesBy(fed, Done) % 2 # 0
    /\ emitted = Picked(fed, Seen(fed, Done))

LEMMA FilterStarts == FilterInit => FilterInv
<1> SUFFICES ASSUME FilterInit PROVE FilterInv OBVIOUS
<1>1. /\ fed \in Seq(Char) /\ carry \in Seq(Char) /\ text \in Seq(Char) /\ emitted \in Seq(Char)
      /\ Len(fed) = 0 /\ Len(carry) = 0 /\ Len(text) = 0
      /\ text = <<>> /\ emitted = <<>> /\ from = 1
  BY EmptySeq DEF FilterInit
<1>2. inside \in BOOLEAN /\ ~inside BY DEF FilterInit
<1>3. Ticks \in Nat /\ Ticks > 0 /\ MaxFed \in Nat BY FenceAssumption
<1>4. FilterTyped BY <1>1, <1>2, <1>3 DEF FilterTyped
<1>5. Suffix(carry) /\ Suffix(text) /\ Done = 0 BY <1>1 DEF Suffix, Done
<1>6. Fences(fed) = {}
  <2>1. Fences(fed) = {i \in 1 .. 0 - Ticks : FenceAt(fed, i)} BY <1>1 DEF Fences
  <2>2. 1 .. 0 - Ticks = {} BY <1>3
  <2> QED BY <2>1, <2>2
<1>7. FencesBy(fed, 0) = 0
  <2>1. {j \in Fences(fed) : j <= 0} = {} BY <1>6
  <2> QED BY <2>1, FS_EmptySet DEF FencesBy
<1>8. Seen(fed, 0) = {} BY DEF Seen
<1>9. Picked(fed, {}) = <<>>
  <2>1. {} \in SUBSET (1 .. 0) /\ \A i \in {} : fed[i] \in Char OBVIOUS
  <2>2. Picked(fed, {}) \in Seq(Char) /\ Len(Picked(fed, {})) = 0
    BY <2>1, PickedSeq, FS_EmptySet
  <2> QED BY <2>2, EmptySeq
<1>10. Between(fed, 0) BY <1>6 DEF Between
<1>11. \A i \in 1 .. Len(fed) : i > Len(fed) - Ticks /\ TicksAt(fed, i, Len(fed)) => i > Done
  BY <1>1
<1>12. inside <=> FencesBy(fed, Done) % 2 # 0 BY <1>2, <1>5, <1>7
<1> QED BY <1>1, <1>4, <1>5, <1>8, <1>9, <1>10, <1>11, <1>12 DEF FilterInv

\* The places of the text in what was fed.
LEMMA TextPlaces ==
    ASSUME FilterInv, text # <<>>
    PROVE  LET base == Len(fed) - Len(text)
           IN  /\ base \in Nat /\ Len(text) \in Nat /\ Len(fed) = base + Len(text)
               /\ carry = <<>> /\ Done = base + from - 1 /\ Done \in Nat
               /\ \A i \in 1 .. Len(text) : text[i] = fed[base + i]
               /\ \A i \in Nat : i >= 1 => (i \in Fences(text) <=> base + i \in Fences(fed))
<1> DEFINE base == Len(fed) - Len(text)
<1>1. Ticks \in Nat /\ Ticks > 0 BY FenceAssumption
<1>2. fed \in Seq(Char) /\ text \in Seq(Char) /\ Len(text) <= Len(fed) /\ from \in Nat /\ from >= 1
  BY DEF FilterInv, FilterTyped
<1>3. Len(fed) \in Nat /\ Len(text) \in Nat BY <1>2, LenProperties
<1>4. carry = <<>> /\ Len(carry) = 0 BY EmptySeq DEF FilterInv
<1>5. base \in Nat /\ Len(fed) = base + Len(text) BY <1>2, <1>3
<1>6. Done = base + from - 1 /\ Done \in Nat BY <1>2, <1>3, <1>4, <1>5 DEF Done
<1>7. \A i \in 1 .. Len(text) : text[i] = fed[base + i] BY DEF FilterInv, Suffix
<1> HIDE DEF base
<1>8. ASSUME NEW i \in 1 .. Len(text) - Ticks
      PROVE FenceAt(text, i) <=> FenceAt(fed, base + i)
  <2>1. base + i \in 1 .. Len(fed) - Ticks BY <1>1, <1>3, <1>5
  <2>2. \A k \in i .. i + Ticks : text[k] = fed[base + k] BY <1>1, <1>3, <1>7
  <2>3. text[i + Ticks] = fed[(base + i) + Ticks]
    <3>1. i + Ticks \in i .. i + Ticks /\ base + (i + Ticks) = (base + i) + Ticks BY <1>1, <1>5
    <3> QED BY <2>2, <3>1
  <2>4. TicksAt(text, i, i + Ticks - 1) <=> TicksAt(fed, base + i, (base + i) + Ticks - 1)
    <3>1. ASSUME TicksAt(text, i, i + Ticks - 1), NEW k \in base + i .. (base + i) + Ticks - 1
          PROVE fed[k] = "tick"
      <4>1. k - base \in i .. i + Ticks - 1 /\ k - base \in i .. i + Ticks /\ base + (k - base) = k
        BY <1>1, <1>5
      <4>2. text[k - base] = "tick" BY <3>1, <4>1 DEF TicksAt
      <4> QED BY <2>2, <4>1, <4>2
    <3>2. ASSUME TicksAt(fed, base + i, (base + i) + Ticks - 1), NEW k \in i .. i + Ticks - 1
          PROVE text[k] = "tick"
      <4>1. base + k \in base + i .. (base + i) + Ticks - 1 /\ k \in i .. i + Ticks
        BY <1>1, <1>5
      <4>2. fed[base + k] = "tick" BY <3>2, <4>1 DEF TicksAt
      <4> QED BY <2>2, <4>1, <4>2
    <3> QED BY <3>1, <3>2 DEF TicksAt
  <2> QED BY <1>2, <2>1, <2>3, <2>4, FenceIs
<1>9. ASSUME NEW i \in Nat, i >= 1 PROVE i \in Fences(text) <=> base + i \in Fences(fed)
  <2>1. i \in 1 .. Len(text) - Ticks <=> base + i \in 1 .. Len(fed) - Ticks
    BY <1>1, <1>3, <1>5, <1>9
  <2> QED BY <1>8, <2>1 DEF Fences
<1> QED BY <1>3, <1>4, <1>5, <1>6, <1>7, <1>9 DEF base

LEMMA FeedKeeps ==
    ASSUME FilterInv, NEW delta \in Seq(Char), Len(delta) > 0, Feed(delta) PROVE FilterInv'
<1>1. Ticks \in Nat /\ MaxFed \in Nat BY FenceAssumption
<1>2. /\ fed \in Seq(Char) /\ carry \in Seq(Char) /\ Len(carry) <= Ticks /\ Len(carry) <= Len(fed)
      /\ Len(fed) <= MaxFed
      /\ inside \in BOOLEAN /\ emitted \in Seq(Char) /\ text = <<>> /\ from = 1 /\ Len(text) = 0
  <2>1. text = <<>> /\ Len(text) = 0 BY EmptySeq DEF Feed
  <2> QED BY <2>1 DEF FilterInv, FilterTyped
<1>3. Len(fed) \in Nat /\ Len(carry) \in Nat /\ Len(delta) \in Nat BY <1>2, LenProperties
<1>4. /\ fed' = fed \o delta /\ text' = carry \o delta /\ carry' = <<>> /\ from' = 1
      /\ inside' = inside /\ emitted' = emitted /\ Len(fed) + Len(delta) <= MaxFed
  BY DEF Feed
<1>5. /\ fed' \in Seq(Char) /\ Len(fed') = Len(fed) + Len(delta)
      /\ \A i \in 1 .. Len(fed) + Len(delta) :
            fed'[i] = IF i <= Len(fed) THEN fed[i] ELSE delta[i - Len(fed)]
  BY <1>2, <1>4, ConcatProperties
<1>6. /\ text' \in Seq(Char) /\ Len(text') = Len(carry) + Len(delta)
      /\ \A i \in 1 .. Len(carry) + Len(delta) :
            text'[i] = IF i <= Len(carry) THEN carry[i] ELSE delta[i - Len(carry)]
  BY <1>2, <1>4, ConcatProperties
<1>7. carry' \in Seq(Char) /\ Len(carry') = 0 BY <1>4, EmptySeq
<1>8. FilterTyped'
  BY <1>1, <1>2, <1>3, <1>4, <1>5, <1>6, <1>7 DEF FilterTyped
<1>9. Suffix(carry)' BY <1>3, <1>7 DEF Suffix
<1>10. Suffix(text)'
  <2> SUFFICES ASSUME NEW i \in 1 .. Len(text')
               PROVE text'[i] = fed'[Len(fed') - Len(text') + i]
    BY DEF Suffix
  <2>1. /\ Len(fed') - Len(text') + i = Len(fed) - Len(carry) + i
        /\ Len(fed) - Len(carry) + i \in 1 .. Len(fed) + Len(delta)
        /\ i \in 1 .. Len(carry) + Len(delta)
    BY <1>2, <1>3, <1>5, <1>6
  <2>2. CASE i <= Len(carry)
    <3>1. carry[i] = fed[Len(fed) - Len(carry) + i] BY <1>3, <2>2 DEF FilterInv, Suffix
    <3>2. Len(fed) - Len(carry) + i <= Len(fed) BY <1>3, <2>2
    <3> QED BY <1>5, <1>6, <2>1, <2>2, <3>1, <3>2
  <2>3. CASE ~(i <= Len(carry))
    <3>1. ~(Len(fed) - Len(carry) + i <= Len(fed))
          /\ (Len(fed) - Len(carry) + i) - Len(fed) = i - Len(carry)
      BY <1>3, <2>3
    <3> QED BY <1>5, <1>6, <2>1, <2>3, <3>1
  <2> QED BY <2>2, <2>3
<1>11. Done = Len(fed) - Len(carry) /\ Done' = Done /\ Done \in 0 .. Len(fed)
  BY <1>2, <1>3, <1>4, <1>5, <1>6, <1>7 DEF Done
<1>12. /\ Between(fed, Done)
       /\ \A i \in 1 .. Len(fed) : i > Len(fed) - Ticks /\ TicksAt(fed, i, Len(fed)) => i > Done
  BY DEF FilterInv
<1>13. /\ Between(fed', Done) /\ FencesBy(fed', Done) = FencesBy(fed, Done)
       /\ Seen(fed', Done) = Seen(fed, Done)
       /\ Picked(fed', Seen(fed, Done)) = Picked(fed, Seen(fed, Done))
  BY <1>2, <1>4, <1>11, <1>12, MoreText
<1>14. ASSUME NEW i \in 1 .. Len(fed'), i > Len(fed') - Ticks, TicksAt(fed', i, Len(fed'))
       PROVE i > Done
  <2>1. CASE i > Len(fed) BY <1>3, <1>11, <2>1
  <2>2. CASE ~(i > Len(fed))
    <3>1. i \in 1 .. Len(fed) /\ i > Len(fed) - Ticks BY <1>1, <1>3, <1>5, <1>14, <2>2
    <3>2. \A k \in i .. Len(fed) : k \in i .. Len(fed') /\ fed'[k] = fed[k]
      BY <1>3, <1>5, <3>1
    <3>3. TicksAt(fed, i, Len(fed)) BY <1>14, <3>2 DEF TicksAt
    <3> QED BY <1>12, <3>1, <3>3
  <2> QED BY <2>1, <2>2
<1>15. /\ inside' <=> FencesBy(fed', Done) % 2 # 0
       /\ emitted' = Picked(fed', Seen(fed', Done))
  BY <1>4, <1>13 DEF FilterInv
<1> QED BY <1>4, <1>8, <1>9, <1>10, <1>11, <1>13, <1>14, <1>15 DEF FilterInv

\* What is emitted of the text up to some place, if no fence lies before it.
LEMMA EmittedTo ==
    ASSUME FilterInv, text # <<>>, NEW b \in Nat, from <= b + 1, b <= Len(text),
           \A j \in Fences(text) : ~(from <= j /\ j <= b)
    PROVE  LET e == Len(fed) - Len(text) + b
           IN  /\ e \in Nat /\ Between(fed, e)
               /\ FencesBy(fed, e) = FencesBy(fed, Done)
               /\ Emitted(from, b) = Picked(fed, Seen(fed, e))
               /\ Emitted(from, b) \in Seq(Char)
<1> DEFINE base == Len(fed) - Len(text)
           e == base + b
<1>1. /\ base \in Nat /\ Len(text) \in Nat /\ Len(fed) = base + Len(text)
      /\ Done = base + from - 1 /\ Done \in Nat
      /\ \A i \in 1 .. Len(text) : text[i] = fed[base + i]
      /\ \A i \in Nat : i >= 1 => (i \in Fences(text) <=> base + i \in Fences(fed))
  BY TextPlaces
<1>2. /\ fed \in Seq(Char) /\ text \in Seq(Char) /\ emitted \in Seq(Char)
      /\ from \in Nat /\ from >= 1
  BY DEF FilterInv, FilterTyped
<1>3. /\ Between(fed, Done) /\ (inside <=> FencesBy(fed, Done) % 2 # 0)
      /\ emitted = Picked(fed, Seen(fed, Done))
  BY DEF FilterInv
<1> HIDE DEF base
<1>4. e \in Nat /\ Done <= e /\ e <= Len(fed) BY <1>1, <1>2
<1>5. \A j \in Fences(fed) : ~(Done < j /\ j <= e)
  <2> SUFFICES ASSUME NEW j \in Fences(fed), Done < j, j <= e PROVE FALSE OBVIOUS
  <2>1. j \in Nat BY <1>2, FencesApart
  <2>2. j - base \in Nat /\ j - base >= 1 /\ base + (j - base) = j /\ from <= j - base /\ j - base <= b
    BY <1>1, <1>2, <2>1
  <2>3. j - base \in Fences(text) BY <1>1, <2>2
  <2> QED BY <2>2, <2>3
<1>6. /\ Between(fed, e) /\ FencesBy(fed, e) = FencesBy(fed, Done)
      /\ Seen(fed, e) = IF FencesBy(fed, Done) % 2 = 0 THEN Seen(fed, Done) \cup (Done + 1 .. e)
                                                       ELSE Seen(fed, Done)
  <2> HIDE DEF e
  <2> QED BY <1>1, <1>2, <1>3, <1>4, <1>5, Stretch
<1>7. SubSeq(text, from, b) = SubSeq(fed, Done + 1, e) /\ SubSeq(text, from, b) \in Seq(Char)
  <2> DEFINE x == SubSeq(text, from, b)
             y == SubSeq(fed, Done + 1, e)
  <2>1. \A i \in from .. b : text[i] \in Char
    <3>1. \A i \in from .. b : i \in 1 .. Len(text) BY <1>1, <1>2
    <3> QED BY <1>2, <3>1, ElementOfSeq
  <2>2. \A i \in Done + 1 .. e : fed[i] \in Char
    <3>1. \A i \in Done + 1 .. e : i \in 1 .. Len(fed) BY <1>1, <1>4
    <3> QED BY <1>2, <3>1, ElementOfSeq
  <2>3. /\ x \in Seq(Char) /\ Len(x) = (IF from <= b THEN b - from + 1 ELSE 0)
        /\ \A i \in 1 .. b - from + 1 : x[i] = text[from + i - 1]
    <3>1. from \in Int /\ b \in Int BY <1>2
    <3> QED BY <2>1, <3>1, SubSeqProperties
  <2>4. /\ y \in Seq(Char) /\ Len(y) = (IF Done + 1 <= e THEN e - (Done + 1) + 1 ELSE 0)
        /\ \A i \in 1 .. e - (Done + 1) + 1 : y[i] = fed[(Done + 1) + i - 1]
    <3>1. Done + 1 \in Int /\ e \in Int BY <1>1, <1>4
    <3> QED BY <2>2, <3>1, SubSeqProperties
  <2>5. e - (Done + 1) + 1 = b - from + 1 BY <1>1, <1>2
  <2>6. Len(x) = b - from + 1 /\ Len(y) = b - from + 1
    <3> HIDE DEF x, y, e
    <3>1. IF from <= b THEN TRUE ELSE b - from + 1 = 0 BY <1>2
    <3>2. IF Done + 1 <= e THEN TRUE ELSE e - (Done + 1) + 1 = 0 BY <1>1, <1>4
    <3> QED BY <2>3, <2>4, <2>5, <3>1, <3>2
  <2>7. ASSUME NEW i \in 1 .. b - from + 1 PROVE x[i] = y[i]
    <3>1. from + i - 1 \in 1 .. Len(text) /\ base + (from + i - 1) = (Done + 1) + i - 1
      BY <1>1, <1>2
    <3> HIDE DEF x, y, e
    <3>2. x[i] = text[from + i - 1] /\ y[i] = fed[(Done + 1) + i - 1] BY <2>3, <2>4, <2>5
    <3> QED BY <1>1, <3>1, <3>2
  <2>8. x = y
    <3> HIDE DEF x, y
    <3> QED BY <2>3, <2>4, <2>6, <2>7, SeqEqual
  <2> QED BY <2>3, <2>8
<1>8. Seen(fed, Done) \in SUBSET (1 .. Done) BY DEF Seen
<1>9. Picked(fed, Seen(fed, Done) \cup (Done + 1 .. e)) = emitted \o SubSeq(fed, Done + 1, e)
  <2> DEFINE S == Seen(fed, Done)
             d == Done
  <2>1. S \in SUBSET (1 .. d) /\ emitted = Picked(fed, S) BY <1>3, <1>8
  <2>2. d \in Nat /\ e \in Nat /\ d <= e /\ e <= Len(fed) BY <1>1, <1>4
  <2> HIDE DEF e, d, S
  <2>3. Picked(fed, S \cup (d + 1 .. e)) = Picked(fed, S) \o SubSeq(fed, d + 1, e)
    BY <1>2, <2>1, <2>2, PickedStretch
  <2> QED BY <2>1, <2>3 DEF S, d
<1>10. Emitted(from, b) = Picked(fed, Seen(fed, e))
  <2>1. CASE inside
    <3>1. Seen(fed, e) = Seen(fed, Done) /\ Emitted(from, b) = emitted BY <1>3, <1>6, <2>1 DEF Emitted
    <3> QED BY <1>3, <3>1
  <2>2. CASE ~inside
    <3>1. Seen(fed, e) = Seen(fed, Done) \cup (Done + 1 .. e) BY <1>3, <1>6, <2>2
    <3>2. Emitted(from, b) = emitted \o SubSeq(text, from, b) BY <2>2 DEF Emitted
    <3> QED BY <1>7, <1>9, <3>1, <3>2
  <2> QED BY <2>1, <2>2
<1>11. Emitted(from, b) \in Seq(Char) BY <1>2, <1>7, ConcatProperties DEF Emitted
<1> QED BY <1>4, <1>6, <1>10, <1>11 DEF base

LEMMA FlipKeeps == ASSUME FilterInv, Flip PROVE FilterInv'
<1> DEFINE base == Len(fed) - Len(text)
<1>1. Ticks \in Nat /\ Ticks > 0 /\ text # <<>> BY FenceAssumption DEF Flip
<1>2. PICK j \in Fences(text) :
        /\ j >= from /\ \A k \in Fences(text) : k >= from => j <= k
        /\ emitted' = Emitted(from, j - 1) /\ from' = j + Ticks + 1
  BY DEF Flip
<1>3. /\ base \in Nat /\ Len(text) \in Nat /\ Len(fed) = base + Len(text)
      /\ carry = <<>> /\ Done = base + from - 1
      /\ \A i \in Nat : i >= 1 => (i \in Fences(text) <=> base + i \in Fences(fed))
  BY <1>1, TextPlaces
<1>4. /\ FilterTyped /\ fed \in Seq(Char) /\ text \in Seq(Char) /\ carry \in Seq(Char) /\ inside \in BOOLEAN
      /\ from \in Nat /\ from >= 1
      /\ (inside <=> FencesBy(fed, Done) % 2 # 0)
  BY DEF FilterInv, FilterTyped
<1>5. UNCHANGED <<fed, text, carry>> /\ inside' = ~inside BY DEF Flip
<1> HIDE DEF base
<1>6. j \in Nat /\ j >= 1 /\ j + Ticks <= Len(text) BY <1>4, FencesApart
<1>7. base + j \in Fences(fed) /\ Len(carry) = 0 BY <1>3, <1>6, EmptySeq
<1>8. /\ FencesBy(fed, base + (j - 1)) = FencesBy(fed, Done)
      /\ Emitted(from, j - 1) = Picked(fed, Seen(fed, base + (j - 1)))
      /\ Emitted(from, j - 1) \in Seq(Char)
  <2>1. j - 1 \in Nat /\ from <= (j - 1) + 1 /\ j - 1 <= Len(text) BY <1>1, <1>2, <1>3, <1>4, <1>6
  <2>2. \A k \in Fences(text) : ~(from <= k /\ k <= j - 1)
    <3>1. \A k \in Fences(text) : k \in Nat BY <1>4, FencesApart
    <3> QED BY <1>2, <1>4, <1>6, <3>1
  <2> QED BY <1>1, <2>1, <2>2, EmittedTo DEF base
<1>9. base + (j - 1) = (base + j) - 1 BY <1>3, <1>6
<1>10. /\ Between(fed, (base + j) + Ticks)
       /\ Seen(fed, (base + j) + Ticks) = Seen(fed, (base + j) - 1)
       /\ FencesBy(fed, (base + j) - 1) \in Nat
       /\ FencesBy(fed, (base + j) + Ticks) = FencesBy(fed, (base + j) - 1) + 1
  BY <1>4, <1>7, OverFence
<1>11. Done' = (base + j) + Ticks
  <2>1. Done' = Len(fed) - Len(carry) - (Len(text) + 1 - from') BY <1>5 DEF Done
  <2> QED BY <1>1, <1>2, <1>3, <1>6, <1>7, <2>1
<1>12. FilterTyped'
  <2>1. from' \in Nat /\ from' >= 1 /\ from' <= Len(text) + 1 BY <1>1, <1>2, <1>3, <1>6
  <2>2. emitted' \in Seq(Char) BY <1>2, <1>8
  <2>3. inside' \in BOOLEAN BY <1>5
  <2> QED BY <1>4, <1>5, <2>1, <2>2, <2>3 DEF FilterTyped
<1>13. Suffix(carry)' /\ Suffix(text)' BY <1>5 DEF FilterInv, Suffix
<1>14. ASSUME NEW i \in 1 .. Len(fed), TicksAt(fed, i, Len(fed)) PROVE i > (base + j) + Ticks
  <2> SUFFICES ASSUME i <= (base + j) + Ticks PROVE FALSE BY <1>1, <1>3, <1>6
  <2>1. base + j \in 1 .. Len(fed) - Ticks /\ FenceAt(fed, base + j) BY <1>7 DEF Fences
  <2>2. fed[(base + j) + Ticks] = "newline" BY <1>4, <2>1, FenceIs
  <2>3. (base + j) + Ticks \in i .. Len(fed) BY <1>1, <1>3, <1>6, <2>1
  <2>4. fed[(base + j) + Ticks] = "tick" BY <1>14, <2>3 DEF TicksAt
  <2> QED BY <2>2, <2>4
<1>15. inside' <=> FencesBy(fed, (base + j) + Ticks) % 2 # 0
  <2> DEFINE c == FencesBy(fed, Done)
             d == FencesBy(fed, (base + j) + Ticks)
  <2>1. c \in Nat /\ d = c + 1 BY <1>8, <1>9, <1>10
  <2>2. (c % 2 # 0) <=> ~(d % 2 # 0)
    <3> HIDE DEF c, d
    <3> QED BY <2>1
  <2> QED BY <1>4, <1>5, <2>2
<1>16. emitted' = Picked(fed, Seen(fed, (base + j) + Ticks)) BY <1>2, <1>8, <1>9, <1>10
<1> QED BY <1>3, <1>5, <1>10, <1>11, <1>12, <1>13, <1>14, <1>15, <1>16 DEF FilterInv

\* The end of the text that is held back is the longest that may begin a fence.
LEMMA StashKeeps == ASSUME FilterInv, Stash PROVE FilterInv'
<1> DEFINE base == Len(fed) - Len(text)
<1>1. Ticks \in Nat /\ Ticks > 0 /\ text # <<>> /\ \A k \in Fences(text) : k < from
  BY FenceAssumption DEF Stash
<1>2. PICK n \in Held :
        /\ \A m \in Held : m <= n
        /\ carry' = SubSeq(text, Len(text) - n + 1, Len(text))
        /\ emitted' = Emitted(from, Len(text) - n)
  BY DEF Stash
<1>3. /\ base \in Nat /\ Len(text) \in Nat /\ Len(fed) = base + Len(text)
      /\ carry = <<>> /\ Done = base + from - 1 /\ Done \in Nat
      /\ \A i \in 1 .. Len(text) : text[i] = fed[base + i]
  BY <1>1, TextPlaces
<1>4. /\ FilterTyped /\ fed \in Seq(Char) /\ text \in Seq(Char) /\ inside \in BOOLEAN
      /\ from \in Nat /\ from >= 1 /\ from <= Len(text) + 1 /\ Len(fed) <= MaxFed
      /\ (inside <=> FencesBy(fed, Done) % 2 # 0)
      /\ \A i \in 1 .. Len(fed) : i > Len(fed) - Ticks /\ TicksAt(fed, i, Len(fed)) => i > Done
  BY DEF FilterInv, FilterTyped
<1>5. fed' = fed /\ inside' = inside /\ text' = <<>> /\ from' = 1 /\ Len(text') = 0 /\ text' \in Seq(Char)
  BY EmptySeq DEF Stash
<1> HIDE DEF base
<1>6. n \in Nat /\ n <= Ticks /\ n <= Len(text) - from + 1
  BY <1>1, <1>2, <1>3, <1>4 DEF Held, PartialMarker
<1> DEFINE b == Len(text) - n
<1>7. b \in Nat /\ from <= b + 1 /\ b <= Len(text) BY <1>3, <1>4, <1>6
<1>8. /\ base + b \in Nat /\ Between(fed, base + b)
      /\ FencesBy(fed, base + b) = FencesBy(fed, Done)
      /\ Emitted(from, b) = Picked(fed, Seen(fed, base + b))
      /\ Emitted(from, b) \in Seq(Char)
  <2>1. \A k \in Fences(text) : ~(from <= k /\ k <= b)
    <3>1. \A k \in Fences(text) : k \in Nat BY <1>4, FencesApart
    <3> QED BY <1>1, <1>4, <3>1
  <2> HIDE DEF b
  <2> QED BY <1>1, <1>7, <2>1, EmittedTo DEF base
<1>9. /\ carry' \in Seq(Char) /\ Len(carry') = n
      /\ \A i \in 1 .. n : carry'[i] = text[b + i]
  <2> DEFINE c == SubSeq(text, Len(text) - n + 1, Len(text))
  <2>1. /\ Len(text) - n + 1 \in Int /\ Len(text) \in Int
        /\ \A i \in Len(text) - n + 1 .. Len(text) : text[i] \in Char
    <3>1. \A i \in Len(text) - n + 1 .. Len(text) : i \in 1 .. Len(text) BY <1>3, <1>7
    <3> QED BY <1>3, <1>4, <1>6, <3>1, ElementOfSeq
  <2>2. /\ c \in Seq(Char)
        /\ Len(c) = (IF Len(text) - n + 1 <= Len(text) THEN Len(text) - (Len(text) - n + 1) + 1 ELSE 0)
        /\ \A i \in 1 .. Len(text) - (Len(text) - n + 1) + 1 : c[i] = text[(Len(text) - n + 1) + i - 1]
    BY <2>1, SubSeqProperties
  <2>3. /\ Len(text) - (Len(text) - n + 1) + 1 = n
        /\ (Len(text) - n + 1 <= Len(text)) \/ n = 0
        /\ \A i \in 1 .. n : (Len(text) - n + 1) + i - 1 = b + i
    BY <1>3, <1>6
  <2> HIDE DEF b
  <2> QED BY <1>2, <2>2, <2>3
<1>10. Done' = base + b
  <2>1. Done' = Len(fed) - Len(carry') - (Len(text') + 1 - from') BY <1>5 DEF Done
  <2> QED BY <1>3, <1>5, <1>6, <1>9, <2>1
<1>11. FilterTyped'
  <2>1. Len(carry') <= Ticks /\ Len(carry') <= Len(fed) /\ Len(text') <= Len(fed)
        /\ from' \in Nat /\ from' >= 1 /\ from' <= Len(text') + 1
    BY <1>3, <1>5, <1>6, <1>7, <1>9
  <2>2. emitted' \in Seq(Char) BY <1>2, <1>8
  <2> QED BY <1>4, <1>5, <1>9, <2>1, <2>2 DEF FilterTyped
<1>12. Suffix(text)' BY <1>5 DEF Suffix
<1>13. Suffix(carry)'
  <2> SUFFICES ASSUME NEW i \in 1 .. n PROVE carry'[i] = fed[Len(fed) - n + i]
    BY <1>5, <1>9 DEF Suffix
  <2>1. b + i \in 1 .. Len(text) /\ base + (b + i) = Len(fed) - n + i BY <1>3, <1>6, <1>7
  <2> QED BY <1>3, <1>9, <2>1
<1>14. ASSUME NEW i \in 1 .. Len(fed), i > Len(fed) - Ticks, TicksAt(fed, i, Len(fed))
       PROVE i > base + b
  <2> DEFINE m == Len(fed) - i + 1
  <2>1. i > Done BY <1>4, <1>14
  <2>2. m \in 1 .. Ticks /\ m \in 0 .. Len(text) - from + 1 BY <1>1, <1>3, <1>4, <1>14, <2>1
  <2>3. SubSeq(text, Len(text) - m + 1, Len(text)) = SubSeq(Fence, 1, m)
    <3> DEFINE x == SubSeq(text, Len(text) - m + 1, Len(text))
               y == SubSeq(Fence, 1, m)
               a == Len(text) - m + 1
    <3>1. m \in Nat /\ a \in Nat /\ a >= 1 /\ Len(text) - a + 1 = m /\ base + a = i
      BY <1>3, <1>4, <2>2
    <3>2. \A k \in a .. Len(text) : k \in 1 .. Len(text) /\ base + k \in i .. Len(fed)
      BY <1>3, <3>1
    <3>3. \A k \in a .. Len(text) : text[k] = "tick" BY <1>3, <1>14, <3>2 DEF TicksAt
    <3> HIDE DEF m
    <3>4. /\ x \in Seq(Char) /\ Len(x) = (IF a <= Len(text) THEN Len(text) - a + 1 ELSE 0)
          /\ \A k \in 1 .. Len(text) - a + 1 : x[k] = text[a + k - 1]
      <4>1. a \in Int /\ Len(text) \in Int /\ \A k \in a .. Len(text) : text[k] \in Char
        BY <1>3, <3>1, <3>3 DEF Char
      <4> QED BY <4>1, SubSeqProperties
    <3>5. /\ y \in Seq(Char) /\ Len(y) = (IF 1 <= m THEN m - 1 + 1 ELSE 0)
          /\ \A k \in 1 .. m - 1 + 1 : y[k] = Fence[1 + k - 1]
      <4>1. 1 \in Int /\ m \in Int /\ \A k \in 1 .. m : Fence[k] \in Char
        BY <1>1, <2>2, FenceLetters DEF Char
      <4> QED BY <4>1, SubSeqProperties
    <3>6. m - 1 + 1 = m /\ 1 <= m /\ \A k \in 1 .. m : 1 + k - 1 = k /\ k \in 1 .. Ticks
      BY <1>1, <2>2
    <3>7. \A k \in 1 .. m : a + k - 1 \in a .. Len(text)
      <4> HIDE DEF a
      <4> QED BY <1>3, <3>1
    <3> HIDE DEF x, y, a
    <3>8. Len(x) = m /\ Len(y) = m BY <1>3, <2>2, <3>1, <3>4, <3>5, <3>6
    <3>9. \A k \in 1 .. m : x[k] = "tick" BY <3>1, <3>3, <3>4, <3>7
    <3>10. \A k \in 1 .. m : y[k] = "tick" BY <3>5, <3>6, FenceLetters
    <3>11. x = y BY <3>4, <3>5, <3>8, <3>9, <3>10, SeqEqual
    <3> QED BY <3>11 DEF x, y
  <2>4. m \in Held BY <2>2, <2>3 DEF Held, PartialMarker
  <2>5. m <= n BY <1>2, <2>4
  <2> QED BY <1>3, <1>6, <2>5
<1>15. emitted' = Picked(fed, Seen(fed, base + b)) BY <1>2, <1>8
<1>16. inside' <=> FencesBy(fed, base + b) % 2 # 0 BY <1>4, <1>5, <1>8
<1> HIDE DEF b
<1> QED BY <1>5, <1>8, <1>10, <1>11, <1>12, <1>13, <1>14, <1>15, <1>16 DEF FilterInv

LEMMA FilterKeeps == ASSUME FilterInv, FilterNext PROVE FilterInv'
<1>1. ASSUME NEW n \in 1 .. MaxChunk, NEW delta \in [1 .. n -> Char], Feed(delta) PROVE FilterInv'
  <2>1. n \in Nat /\ n > 0 BY FenceAssumption
  <2>2. delta \in Seq(Char) BY <2>1, SeqDef
  <2>3. Len(delta) \in Nat /\ 1 .. n = 1 .. Len(delta) BY <2>2, LenProperties
  <2>4. Len(delta) > 0 BY <2>1, <2>3
  <2> QED BY <1>1, <2>2, <2>4, FeedKeeps
<1> QED BY <1>1, FlipKeeps, StashKeeps DEF FilterNext

\* Between calls no fence lies behind the place the filter has decided up to:
\* what it carries is too short for one.
LEMMA ExactBetweenCalls == FilterInv => FilterIsExact
<1> SUFFICES ASSUME FilterInv, text = <<>>
             PROVE emitted \o (IF inside THEN <<>> ELSE carry) = Visible(fed)
  BY DEF FilterIsExact
<1>1. /\ fed \in Seq(Char) /\ carry \in Seq(Char) /\ emitted \in Seq(Char) /\ inside \in BOOLEAN
      /\ Len(carry) <= Ticks /\ Len(carry) <= Len(fed) /\ Len(text) = 0
      /\ from \in Nat /\ from >= 1 /\ from <= Len(text) + 1
  BY EmptySeq DEF FilterInv, FilterTyped
<1>2. /\ Between(fed, Done) /\ (inside <=> FencesBy(fed, Done) % 2 # 0)
      /\ emitted = Picked(fed, Seen(fed, Done))
      /\ \A i \in 1 .. Len(carry) : carry[i] = fed[Len(fed) - Len(carry) + i]
  BY DEF FilterInv, Suffix
<1> DEFINE d == Len(fed) - Len(carry)
           e == Len(fed)
<1>3. Ticks \in Nat /\ Len(fed) \in Nat /\ Len(carry) \in Nat BY <1>1, LenProperties, FenceAssumption
<1>4. Done = d /\ d \in Nat /\ e \in Nat /\ d <= e /\ e - d = Len(carry) BY <1>1, <1>3 DEF Done
<1>5. \A j \in Fences(fed) : ~(d < j /\ j <= e)
  <2>1. \A j \in Fences(fed) : j \in Nat /\ j + Ticks <= Len(fed) BY <1>1, FencesApart
  <2> QED BY <1>1, <1>3, <2>1
<1> DEFINE S == Seen(fed, d)
<1>6. S \in SUBSET (1 .. d) BY DEF Seen
<1>7. Between(fed, d) /\ emitted = Picked(fed, S) /\ (inside <=> FencesBy(fed, d) % 2 # 0)
  BY <1>2, <1>4
<1>8. carry = SubSeq(fed, d + 1, e)
  <2> DEFINE y == SubSeq(fed, d + 1, e)
  <2>1. d + 1 \in Int /\ e \in Int /\ \A i \in d + 1 .. e : fed[i] \in Char
    <3>1. \A i \in d + 1 .. e : i \in 1 .. Len(fed) BY <1>4
    <3> QED BY <1>1, <1>4, <3>1, ElementOfSeq
  <2> HIDE DEF d, e
  <2>2. /\ y \in Seq(Char) /\ Len(y) = (IF d + 1 <= e THEN e - (d + 1) + 1 ELSE 0)
        /\ \A i \in 1 .. e - (d + 1) + 1 : y[i] = fed[(d + 1) + i - 1]
    BY <2>1, SubSeqProperties
  <2>3. e - (d + 1) + 1 = Len(carry) /\ (d + 1 <= e \/ Len(carry) = 0) BY <1>3, <1>4
  <2> HIDE DEF y
  <2>4. Len(y) = Len(carry) BY <1>3, <1>4, <2>2, <2>3
  <2>5. \A i \in 1 .. Len(carry) : (d + 1) + i - 1 = d + i BY <1>4
  <2>6. \A i \in 1 .. Len(carry) : carry[i] = y[i] BY <1>2, <2>2, <2>3, <2>5 DEF d
  <2>7. carry = y BY <1>1, <2>2, <2>4, <2>6, SeqEqual
  <2> QED BY <2>7 DEF y
<1> HIDE DEF d, S
<1>9. Seen(fed, e) = IF FencesBy(fed, d) % 2 = 0 THEN S \cup (d + 1 .. e) ELSE S
  <2> HIDE DEF e
  <2> QED BY <1>1, <1>4, <1>5, <1>7, Stretch DEF S
<1>10. Picked(fed, S \cup (d + 1 .. e)) = Picked(fed, S) \o SubSeq(fed, d + 1, e)
  <2>1. e <= Len(fed) BY <1>4
  <2> HIDE DEF e
  <2> QED BY <1>1, <1>4, <1>6, <2>1, PickedStretch
<1>11. emitted \o <<>> = emitted BY <1>1, ConcatEmptySeq
<1>12. CASE inside BY <1>7, <1>9, <1>11, <1>12 DEF Visible
<1>13. CASE ~inside BY <1>7, <1>8, <1>9, <1>10, <1>13 DEF Visible
<1> QED BY <1>12, <1>13
=============================================================================
