------------------------- MODULE OriginReportsProofs -------------------------
(***************************************************************************)
(* The reports about where a thought came from, for any memories,          *)
(* exposures, searches, claims and dates: where the timeline, the          *)
(* influence paths and the competing origins agree on the memories they    *)
(* share.  What sort() and filter() keep comes first, then what the lists  *)
(* of the reports hold; OriginInvariant says that memories have ids of     *)
(* their own and that a claim stays what it was made but for its evidence  *)
(* and what contradicts it.                                                *)
(***************************************************************************)
EXTENDS OriginReports, SequenceTheorems, FiniteSetTheorems, TLAPS

-----------------------------------------------------------------------------
(* Lists that are sorted and filtered.                                     *)

\* The places of a finite set in a row: `ahead' has those ahead of each.
InARow(I, ahead) ==
    /\ IsFiniteSet(I) /\ ahead \in [I -> SUBSET I]
    /\ \A i \in I : i \notin ahead[i]
    /\ \A i, j, k \in I : i \in ahead[j] /\ j \in ahead[k] => i \in ahead[k]
    /\ \A i, j \in I : i = j \/ i \in ahead[j] \/ j \in ahead[i]

\* The number of those ahead is the place in the row, from 0: every place is
\* taken, and by one.
LEMMA NumbersAhead ==
    ASSUME NEW I, NEW ahead, InARow(I, ahead)
    PROVE  LET n == Cardinality(I)
           IN /\ n \in Nat
              /\ \A i \in I : Cardinality(ahead[i]) \in 0..(n - 1)
              /\ \A i, j \in I : i \in ahead[j] => Cardinality(ahead[i]) < Cardinality(ahead[j])
              /\ \A i, j \in I : Cardinality(ahead[i]) = Cardinality(ahead[j]) => i = j
              /\ \A k \in 0..(n - 1) : \E i \in I : Cardinality(ahead[i]) = k
<1> DEFINE n == Cardinality(I)
           places == 0..(n - 1)
           rank == [i \in I |-> Cardinality(ahead[i])]
<1>1. /\ IsFiniteSet(I) /\ \A i \in I : ahead[i] \in SUBSET I /\ i \notin ahead[i]
      /\ \A i, j, k \in I : i \in ahead[j] /\ j \in ahead[k] => i \in ahead[k]
      /\ \A i, j \in I : i = j \/ i \in ahead[j] \/ j \in ahead[i]
    BY DEF InARow
<1>2. \A i \in I : rank[i] = Cardinality(ahead[i])
    OBVIOUS
<1>3. rank = [i \in I |-> rank[i]]
    OBVIOUS
<1> HIDE DEF rank
<1>4. n \in Nat
    BY <1>1, FS_CardinalityType
<1> HIDE DEF n
<1>5. ASSUME NEW i \in I PROVE IsFiniteSet(ahead[i]) /\ rank[i] \in Nat /\ rank[i] < n
  <2>1. ahead[i] \in SUBSET I /\ ahead[i] # I
      BY <1>1
  <2>2. /\ IsFiniteSet(ahead[i]) /\ Cardinality(ahead[i]) <= n /\ Cardinality(ahead[i]) # n
      BY <1>1, <2>1, FS_Subset DEF n
  <2>3. Cardinality(ahead[i]) \in Nat
      BY <2>2, FS_CardinalityType
  <2>4. QED
      BY <1>2, <1>4, <2>2, <2>3
<1>6. ASSUME NEW i \in I, NEW j \in I, i \in ahead[j] PROVE rank[i] < rank[j]
  <2>1. ahead[i] \in SUBSET ahead[j] /\ ahead[i] # ahead[j]
      BY <1>1, <1>6
  <2>2. Cardinality(ahead[i]) <= Cardinality(ahead[j]) /\ Cardinality(ahead[i]) # Cardinality(ahead[j])
      BY <1>5, <2>1, FS_Subset
  <2>3. rank[i] \in Nat /\ rank[j] \in Nat
      BY <1>5
  <2>4. QED
      BY <1>2, <2>2, <2>3
<1>7. ASSUME NEW i \in I, NEW j \in I, rank[i] = rank[j] PROVE i = j
  <2>1. rank[i] \in Nat /\ rank[j] \in Nat
      BY <1>5
  <2>2. ~(rank[i] < rank[j]) /\ ~(rank[j] < rank[i])
      BY <1>7, <2>1
  <2>3. QED
      BY <1>1, <1>6, <2>2
<1>8. \A i \in I : rank[i] \in places
    BY <1>4, <1>5
<1>9. IsFiniteSet(places) /\ Cardinality(places) = n
    BY <1>4, FS_Interval
<1> HIDE DEF places
<1>10. rank \in Injection(I, places)
  <2>1. rank \in [I -> places]
      BY <1>3, <1>8
  <2>2. QED
      BY <1>7, <2>1 DEF Injection, IsInjective
<1>11. rank \in Surjection(I, places)
    BY <1>9, <1>10, FS_Injection DEF n
<1>12. \A k \in places : \E i \in I : rank[i] = k
    BY <1>11 DEF Surjection
<1>13. QED
    BY <1>2, <1>4, <1>6, <1>7, <1>8, <1>12 DEF n, places

\* What a list is arranged to: as many elements as there are positions, each of
\* its position, and of two the one ahead first.
IsArranged(t, s, I, ahead) ==
    /\ Len(t) = Cardinality(I)
    /\ \A k \in 1..Len(t) : \E i \in I : t[k] = s[i]
    /\ \A i \in I : \E k \in 1..Len(t) : t[k] = s[i]
    /\ \A k, l \in 1..Len(t) : k < l => \E i, j \in I : i \in ahead[j] /\ t[k] = s[i] /\ t[l] = s[j]
    /\ \A i \in I : ahead[i] = {} => 1 \in 1..Len(t) /\ t[1] = s[i]

\* Arranged arranges.
LEMMA ArrangedIsArranged ==
    ASSUME NEW E, NEW s, NEW I, NEW ahead, InARow(I, ahead), \A i \in I : s[i] \in E
    PROVE  Arranged(s, ahead) \in Seq(E) /\ IsArranged(Arranged(s, ahead), s, I, ahead)
<1> DEFINE n == Cardinality(I)
           place == [k \in 1..n |-> CHOOSE i \in I : Cardinality(ahead[i]) = k - 1]
           t == [k \in 1..n |-> s[place[k]]]
<1>1. /\ n \in Nat /\ DOMAIN ahead = I
      /\ \A i \in I : Cardinality(ahead[i]) \in 0..(n - 1)
      /\ \A i, j \in I : i \in ahead[j] => Cardinality(ahead[i]) < Cardinality(ahead[j])
      /\ \A i, j \in I : Cardinality(ahead[i]) = Cardinality(ahead[j]) => i = j
      /\ \A k \in 0..(n - 1) : \E i \in I : Cardinality(ahead[i]) = k
    BY NumbersAhead DEF InARow
<1>2. Arranged(s, ahead) = t
    BY <1>1 DEF Arranged
<1> HIDE DEF n
<1>3. ASSUME NEW k \in 1..n PROVE place[k] \in I /\ Cardinality(ahead[place[k]]) = k - 1
  <2>1. k - 1 \in 0..(n - 1)
      BY <1>1
  <2>2. \E i \in I : Cardinality(ahead[i]) = k - 1
      BY <1>1, <2>1
  <2>3. QED
      BY <2>2
<1>4. \A k \in 1..n : t[k] = s[place[k]] /\ t[k] \in E
    BY <1>3
<1>5. t \in Seq(E) /\ Len(t) = n
  <2>1. t \in [1..n -> E]
      BY <1>4
  <2>2. QED
      BY <1>1, <2>1
<1> HIDE DEF place, t
<1>6. ASSUME NEW i \in I PROVE \E k \in 1..n : place[k] = i /\ k - 1 = Cardinality(ahead[i])
  <2> DEFINE k == Cardinality(ahead[i]) + 1
  <2>1. k \in 1..n /\ k - 1 = Cardinality(ahead[i])
      BY <1>1
  <2> HIDE DEF k
  <2>2. place[k] \in I /\ Cardinality(ahead[place[k]]) = Cardinality(ahead[i])
      BY <1>3, <2>1
  <2>3. QED
      BY <1>1, <2>1, <2>2
<1>7. ASSUME NEW k \in 1..n, NEW l \in 1..n, k < l PROVE place[k] \in ahead[place[l]]
  <2>1. /\ place[k] \in I /\ Cardinality(ahead[place[k]]) = k - 1
        /\ place[l] \in I /\ Cardinality(ahead[place[l]]) = l - 1
      BY <1>3
  <2>2. ~(l - 1 < k - 1) /\ k - 1 # l - 1
      BY <1>7
  <2>3. place[k] # place[l] /\ place[l] \notin ahead[place[k]]
      BY <1>1, <2>1, <2>2
  <2>4. QED
      BY <2>1, <2>3 DEF InARow
<1>8. ASSUME NEW i \in I, ahead[i] = {} PROVE 1 \in 1..n /\ place[1] = i
  <2>1. PICK k \in 1..n : place[k] = i
      BY <1>6
  <2>2. 1 \in 1..n
      BY <1>1
  <2>3. ~(1 < k)
      BY <1>7, <1>8, <2>1, <2>2
  <2>4. QED
      BY <2>1, <2>2, <2>3
<1>9. IsArranged(t, s, I, ahead)
  <2>1. n = Len(t) /\ n = Cardinality(I)
      BY <1>5 DEF n
  <2>2. \A k \in 1..n : \E i \in I : t[k] = s[i]
      BY <1>3, <1>4
  <2>3. \A i \in I : \E k \in 1..n : t[k] = s[i]
      BY <1>4, <1>6
  <2>4. \A k, l \in 1..n : k < l => \E i, j \in I : i \in ahead[j] /\ t[k] = s[i] /\ t[l] = s[j]
      BY <1>3, <1>4, <1>7
  <2>5. \A i \in I : ahead[i] = {} => 1 \in 1..n /\ t[1] = s[i]
      BY <1>4, <1>8
  <2>6. QED
      BY <2>1, <2>2, <2>3, <2>4, <2>5 DEF IsArranged
<1>10. QED
    BY <1>2, <1>5, <1>9

\* filter() keeps what is at the positions, in its order.
LEMMA KeptKeeps ==
    ASSUME NEW E, NEW s \in Seq(E), NEW I \in SUBSET (1..Len(s))
    PROVE  LET t == Kept(s, I)
           IN /\ t \in Seq(E) /\ ToSet(t) = {s[i] : i \in I}
              /\ \A k, l \in 1..Len(t) : k < l => \E i, j \in I : i < j /\ t[k] = s[i] /\ t[l] = s[j]
              /\ \A i \in I : (\A j \in I : i <= j) => 1 \in 1..Len(t) /\ t[1] = s[i]
<1> DEFINE ahead == [i \in I |-> {j \in I : j < i}]
           t == Kept(s, I)
<1>1. Len(s) \in Nat /\ \A i \in I : i \in Nat /\ s[i] \in E
  <2>1. Len(s) \in Nat /\ \A i \in 1..Len(s) : s[i] \in E
      BY LenProperties, ElementOfSeq
  <2>2. QED
      BY <2>1
<1>2. InARow(I, ahead)
  <2>1. IsFiniteSet(I)
    <3>1. Len(s) \in Int /\ 1 \in Int
        BY <1>1
    <3>2. IsFiniteSet(1..Len(s))
        BY <3>1, FS_Interval
    <3>3. QED
        BY <3>2, FS_Subset
  <2>2. ahead \in [I -> SUBSET I] /\ \A i, j \in I : i \in ahead[j] <=> i < j
      OBVIOUS
  <2> HIDE DEF ahead
  <2>3. \A i \in I : i \notin ahead[i]
      BY <1>1, <2>2
  <2>4. \A i, j, k \in I : i \in ahead[j] /\ j \in ahead[k] => i \in ahead[k]
      BY <1>1, <2>2
  <2>5. \A i, j \in I : i = j \/ i \in ahead[j] \/ j \in ahead[i]
      BY <1>1, <2>2
  <2>6. QED
      BY <2>1, <2>2, <2>3, <2>4, <2>5 DEF InARow
<1>3. t = Arranged(s, ahead)
    BY DEF Kept
<1>4. \A i, j \in I : i \in ahead[j] => i < j
    OBVIOUS
<1>5. ASSUME NEW i \in I, \A j \in I : i <= j PROVE ahead[i] = {}
  <2>1. \A j \in I : ~(j < i)
      BY <1>1, <1>5
  <2>2. QED
      BY <2>1
<1> HIDE DEF ahead, t
<1>6. t \in Seq(E) /\ IsArranged(t, s, I, ahead)
    BY <1>1, <1>2, <1>3, ArrangedIsArranged
<1> DEFINE K == 1..Len(t)
<1>7. DOMAIN t = K
    BY <1>6, LenProperties
<1>8. /\ \A k \in K : \E i \in I : t[k] = s[i]
      /\ \A i \in I : \E k \in K : t[k] = s[i]
      /\ \A k, l \in K : k < l => \E i, j \in I : i \in ahead[j] /\ t[k] = s[i] /\ t[l] = s[j]
      /\ \A i \in I : ahead[i] = {} => 1 \in K /\ t[1] = s[i]
    BY <1>6 DEF IsArranged
<1> HIDE DEF K
<1>9. ToSet(t) = {s[i] : i \in I}
  <2>1. ToSet(t) = {t[k] : k \in K}
      BY <1>7 DEF ToSet
  <2>2. {t[k] : k \in K} = {s[i] : i \in I}
      BY <1>8
  <2>3. QED
      BY <2>1, <2>2
<1>10. \A k, l \in K : k < l => \E i, j \in I : i < j /\ t[k] = s[i] /\ t[l] = s[j]
    BY <1>4, <1>8
<1>11. \A i \in I : (\A j \in I : i <= j) => 1 \in K /\ t[1] = s[i]
    BY <1>5, <1>8
<1>12. QED
    BY <1>6, <1>9, <1>10, <1>11 DEF t, K

\* Positions that a comparison tells apart or leaves tied: `before' has those
\* that come before each.
WeaklyOrdered(D, before) ==
    /\ before \in [D -> SUBSET D]
    /\ \A i, j \in D : i \in before[j] => j \notin before[i]
    /\ \A i, j, k \in D : i \notin before[j] /\ j \notin before[k] => i \notin before[k]

\* Those ahead of a position: what comes before it, and of what ties with it
\* what was ahead already.
Stably(D, before) == [i \in D |-> {j \in D : j \in before[i] \/ (i \notin before[j] /\ j < i)}]

\* What a list is sorted to.
SortedTo(t, s, before) ==
    /\ Len(t) = Len(s) /\ ToSet(t) = ToSet(s)
    /\ \A k, l \in 1..Len(s) : k < l =>
           \E i, j \in 1..Len(s) : j \notin before[i] /\ t[k] = s[i] /\ t[l] = s[j]
    /\ 1 \in 1..Len(s) /\ before[1] = {} => t[1] = s[1]

\* sort() keeps the elements, puts no element ahead of one that comes before
\* it, and leaves the first one if none comes before it.
LEMMA SortSorts ==
    ASSUME NEW E, NEW s \in Seq(E), NEW before, WeaklyOrdered(1..Len(s), before)
    PROVE  LET t == Arranged(s, Stably(1..Len(s), before))
           IN t \in Seq(E) /\ SortedTo(t, s, before)
<1> DEFINE D == 1..Len(s)
           ahead == Stably(D, before)
           t == Arranged(s, ahead)
<1>1. Len(s) \in Nat /\ DOMAIN s = D /\ \A i \in D : i \in Nat /\ s[i] \in E
  <2>1. Len(s) \in Nat /\ DOMAIN s = D /\ \A i \in D : s[i] \in E
      BY LenProperties, ElementOfSeq
  <2>2. QED
      BY <2>1
<1>2. \A i, j \in D : i \in ahead[j] <=> i \in before[j] \/ (j \notin before[i] /\ i < j)
    BY DEF Stably
<1>3. ahead \in [D -> SUBSET D]
    BY DEF Stably
<1>4. IsFiniteSet(D) /\ Cardinality(D) = Len(s)
    BY <1>1, FS_Interval
<1>5. /\ \A i, j \in D : i \in before[j] => j \notin before[i]
      /\ \A i, j, k \in D : i \notin before[j] /\ j \notin before[k] => i \notin before[k]
    BY DEF WeaklyOrdered
<1>6. t = Arranged(s, ahead)
    OBVIOUS
<1> HIDE DEF D, ahead, t
<1>7. InARow(D, ahead)
  <2>1. \A i \in D : i \notin ahead[i]
      BY <1>1, <1>2, <1>5
  <2>2. ASSUME NEW i \in D, NEW j \in D, NEW k \in D, i \in ahead[j], j \in ahead[k] PROVE i \in ahead[k]
    <3>1. j \notin before[i] /\ k \notin before[j]
        BY <1>2, <1>5, <2>2
    <3>2. k \notin before[i]
        BY <1>5, <3>1
    <3>3. ASSUME i \notin before[k] PROVE i < k
      <4>1. i \notin before[j] /\ j \notin before[k]
          BY <1>5, <3>1, <3>3
      <4>2. i < j /\ j < k
          BY <1>2, <2>2, <4>1
      <4>3. QED
          BY <1>1, <4>2
    <3>4. QED
        BY <1>2, <3>2, <3>3
  <2>3. ASSUME NEW i \in D, NEW j \in D, i # j, i \notin ahead[j] PROVE j \in ahead[i]
    <3>1. i < j \/ j < i
        BY <1>1, <2>3
    <3>2. QED
        BY <1>2, <2>3, <3>1
  <2>4. QED
      BY <1>3, <1>4, <2>1, <2>2, <2>3 DEF InARow
<1>8. t \in Seq(E) /\ IsArranged(t, s, D, ahead)
    BY <1>1, <1>6, <1>7, ArrangedIsArranged
<1>9. Len(t) = Len(s) /\ D = 1..Len(t) /\ DOMAIN t = D
    BY <1>4, <1>8, LenProperties DEF IsArranged, D
<1>10. ToSet(t) = ToSet(s)
  <2>1. /\ \A k \in D : \E i \in D : t[k] = s[i]
        /\ \A i \in D : \E k \in D : t[k] = s[i]
      BY <1>8, <1>9 DEF IsArranged
  <2>2. ToSet(t) = {t[k] : k \in D} /\ ToSet(s) = {s[i] : i \in D}
      BY <1>1, <1>9 DEF ToSet
  <2>3. {t[k] : k \in D} = {s[i] : i \in D}
      BY <2>1
  <2>4. QED
      BY <2>2, <2>3
<1>11. \A k, l \in D : k < l => \E i, j \in D : j \notin before[i] /\ t[k] = s[i] /\ t[l] = s[j]
  <2>1. \A i, j \in D : i \in ahead[j] => j \notin before[i]
      BY <1>2, <1>5
  <2> SUFFICES ASSUME NEW k \in D, NEW l \in D, k < l
               PROVE  \E i, j \in D : j \notin before[i] /\ t[k] = s[i] /\ t[l] = s[j]
      OBVIOUS
  <2>2. PICK i \in D, j \in D : i \in ahead[j] /\ t[k] = s[i] /\ t[l] = s[j]
      BY <1>8, <1>9 DEF IsArranged
  <2>3. QED
      BY <2>1, <2>2
<1>12. ASSUME 1 \in D, before[1] = {} PROVE t[1] = s[1]
  <2>1. \A j \in D : j \notin ahead[1]
      BY <1>1, <1>2, <1>12
  <2>2. ahead[1] = {}
      BY <1>3, <1>12, <2>1
  <2>3. QED
      BY <1>8, <1>12, <2>2 DEF IsArranged
<1>13. QED
    BY <1>8, <1>9, <1>10, <1>11, <1>12 DEF SortedTo, D, ahead, t

\* Events by their dates.
ByDate(s) == Sorted(s, Earlier)

\* sort() by date.
LEMMA SortsByDate ==
    ASSUME NEW E, \A e \in E : e.date \in Date, NEW s \in Seq(E)
    PROVE  /\ ByDate(s) \in Seq(E) /\ Len(ByDate(s)) = Len(s) /\ ToSet(ByDate(s)) = ToSet(s)
           /\ \A k, l \in 1..Len(s) : k < l => ~Earlier(ByDate(s)[l], ByDate(s)[k])
           /\ (\A i \in 1..Len(s) : ~Earlier(s[i], s[1])) /\ 1 \in 1..Len(s) => ByDate(s)[1] = s[1]
<1> DEFINE D == 1..Len(s)
           t == ByDate(s)
           before == [i \in D |-> {j \in D : Earlier(s[j], s[i])}]
<1>1. DOMAIN s = D /\ \A i \in D : ParseTime(s[i].date) \in Nat
  <2>1. DOMAIN s = D /\ \A i \in D : s[i] \in E
      BY LenProperties, ElementOfSeq
  <2>2. QED
      BY <2>1 DEF Date, ParseTime, Missing, Unreadable
<1>2. before \in [D -> SUBSET D] /\ \A i, j \in D : j \in before[i] <=> Earlier(s[j], s[i])
    OBVIOUS
<1>3. t = Arranged(s, Stably(D, before))
  <2>1. \A i \in D : {j \in D : Earlier(s[j], s[i]) \/ (~Earlier(s[i], s[j]) /\ j < i)}
                   = {j \in D : j \in before[i] \/ (i \notin before[j] /\ j < i)}
      BY <1>2
  <2> HIDE DEF D, before
  <2>2. [i \in D |-> {j \in D : Earlier(s[j], s[i]) \/ (~Earlier(s[i], s[j]) /\ j < i)}]
            = Stably(D, before)
      BY <2>1 DEF Stably
  <2>3. QED
      BY <1>1, <2>2 DEF ByDate, Sorted
<1> HIDE DEF before, t
<1>4. WeaklyOrdered(D, before)
    BY <1>1, <1>2 DEF WeaklyOrdered, Earlier
<1>5. t \in Seq(E) /\ SortedTo(t, s, before)
    BY <1>3, <1>4, SortSorts
<1>6. /\ Len(t) = Len(s) /\ ToSet(t) = ToSet(s) /\ (1 \in D /\ before[1] = {} => t[1] = s[1])
      /\ \A k, l \in D : k < l => \E i, j \in D : j \notin before[i] /\ t[k] = s[i] /\ t[l] = s[j]
    BY <1>5 DEF SortedTo
<1> HIDE DEF D
<1>7. \A k, l \in D : k < l => ~Earlier(t[l], t[k])
    BY <1>2, <1>6
<1>8. ASSUME \A i \in D : ~Earlier(s[i], s[1]), 1 \in D PROVE t[1] = s[1]
  <2>1. before[1] = {}
      BY <1>2, <1>8
  <2>2. QED
      BY <1>6, <1>8, <2>1
<1>9. QED
    BY <1>5, <1>6, <1>7, <1>8 DEF t, D

\* Events by their scores, and then the latest first.
ByScore(s) == Sorted(s, Stronger)

\* sort() by strength.
LEMMA SortsByScore ==
    ASSUME NEW E, \A e \in E : e.date \in Date /\ e.score \in Int, NEW s \in Seq(E)
    PROVE  /\ ByScore(s) \in Seq(E) /\ Len(ByScore(s)) = Len(s) /\ ToSet(ByScore(s)) = ToSet(s)
           /\ \A k, l \in 1..Len(s) : k < l => ~Stronger(ByScore(s)[l], ByScore(s)[k])
           /\ (\A i \in 1..Len(s) : ~Stronger(s[i], s[1])) /\ 1 \in 1..Len(s) => ByScore(s)[1] = s[1]
<1> DEFINE D == 1..Len(s)
           t == ByScore(s)
           before == [i \in D |-> {j \in D : Stronger(s[j], s[i])}]
<1>1. DOMAIN s = D /\ \A i \in D : ParseTime(s[i].date) \in Nat /\ s[i].score \in Int
  <2>1. DOMAIN s = D /\ \A i \in D : s[i] \in E
      BY LenProperties, ElementOfSeq
  <2>2. QED
      BY <2>1 DEF Date, ParseTime, Missing, Unreadable
<1>2. before \in [D -> SUBSET D] /\ \A i, j \in D : j \in before[i] <=> Stronger(s[j], s[i])
    OBVIOUS
<1>3. t = Arranged(s, Stably(D, before))
  <2>1. \A i \in D : {j \in D : Stronger(s[j], s[i]) \/ (~Stronger(s[i], s[j]) /\ j < i)}
                   = {j \in D : j \in before[i] \/ (i \notin before[j] /\ j < i)}
      BY <1>2
  <2> HIDE DEF D, before
  <2>2. [i \in D |-> {j \in D : Stronger(s[j], s[i]) \/ (~Stronger(s[i], s[j]) /\ j < i)}]
            = Stably(D, before)
      BY <2>1 DEF Stably
  <2>3. QED
      BY <1>1, <2>2 DEF ByScore, Sorted
<1> HIDE DEF before, t
<1>4. WeaklyOrdered(D, before)
  <2> HIDE DEF D
  <2>1. \A i, j \in D : Stronger(s[i], s[j]) => ~Stronger(s[j], s[i])
      BY <1>1 DEF Stronger, Earlier
  <2>2. ASSUME NEW i \in D, NEW j \in D, NEW k \in D, ~Stronger(s[i], s[j]), ~Stronger(s[j], s[k])
        PROVE  ~Stronger(s[i], s[k])
      BY <1>1, <2>2 DEF Stronger, Earlier
  <2>3. QED
      BY <1>2, <2>1, <2>2 DEF WeaklyOrdered
<1>5. t \in Seq(E) /\ SortedTo(t, s, before)
    BY <1>3, <1>4, SortSorts
<1>6. /\ Len(t) = Len(s) /\ ToSet(t) = ToSet(s) /\ (1 \in D /\ before[1] = {} => t[1] = s[1])
      /\ \A k, l \in D : k < l => \E i, j \in D : j \notin before[i] /\ t[k] = s[i] /\ t[l] = s[j]
    BY <1>5 DEF SortedTo
<1> HIDE DEF D
<1>7. \A k, l \in D : k < l => ~Stronger(t[l], t[k])
    BY <1>2, <1>6
<1>8. ASSUME \A i \in D : ~Stronger(s[i], s[1]), 1 \in D PROVE t[1] = s[1]
  <2>1. before[1] = {}
      BY <1>2, <1>8
  <2>2. QED
      BY <1>6, <1>8, <2>1
<1>9. QED
    BY <1>5, <1>6, <1>7, <1>8 DEF t, D

\* Claims by their confidence.
Surer(c, d) == c.confidence > d.confidence

\* sort() by confidence: a list that is in order keeps its first element.
LEMMA SortsByRank ==
    ASSUME NEW E, \A c \in E : c.confidence \in Int, NEW s \in Seq(E)
    PROVE  /\ Ranked(s) \in Seq(E) /\ Len(Ranked(s)) = Len(s) /\ ToSet(Ranked(s)) = ToSet(s)
           /\ \A k, l \in 1..Len(s) : k < l => ~Surer(Ranked(s)[l], Ranked(s)[k])
           /\ (\A i \in 1..Len(s) : ~Surer(s[i], s[1])) /\ 1 \in 1..Len(s) => Ranked(s)[1] = s[1]
<1> DEFINE D == 1..Len(s)
           t == Ranked(s)
           before == [i \in D |-> {j \in D : Surer(s[j], s[i])}]
<1>1. DOMAIN s = D /\ \A i \in D : s[i].confidence \in Int
  <2>1. DOMAIN s = D /\ \A i \in D : s[i] \in E
      BY LenProperties, ElementOfSeq
  <2>2. QED
      BY <2>1
<1>2. before \in [D -> SUBSET D] /\ \A i, j \in D : j \in before[i] <=> Surer(s[j], s[i])
    OBVIOUS
<1>3. t = Arranged(s, Stably(D, before))
  <2>1. \A i \in D : {j \in D : Surer(s[j], s[i]) \/ (~Surer(s[i], s[j]) /\ j < i)}
                   = {j \in D : j \in before[i] \/ (i \notin before[j] /\ j < i)}
      BY <1>2
  <2> HIDE DEF D, before
  <2>2. [i \in D |-> {j \in D : Surer(s[j], s[i]) \/ (~Surer(s[i], s[j]) /\ j < i)}]
            = Stably(D, before)
      BY <2>1 DEF Stably
  <2>3. QED
      BY <1>1, <2>2 DEF Ranked, Sorted, Surer
<1> HIDE DEF before, t
<1>4. WeaklyOrdered(D, before)
    BY <1>1, <1>2 DEF WeaklyOrdered, Surer
<1>5. t \in Seq(E) /\ SortedTo(t, s, before)
    BY <1>3, <1>4, SortSorts
<1>6. /\ Len(t) = Len(s) /\ ToSet(t) = ToSet(s) /\ (1 \in D /\ before[1] = {} => t[1] = s[1])
      /\ \A k, l \in D : k < l => \E i, j \in D : j \notin before[i] /\ t[k] = s[i] /\ t[l] = s[j]
    BY <1>5 DEF SortedTo
<1> HIDE DEF D
<1>7. \A k, l \in D : k < l => ~Surer(t[l], t[k])
    BY <1>2, <1>6
<1>8. ASSUME \A i \in D : ~Surer(s[i], s[1]), 1 \in D PROVE t[1] = s[1]
  <2>1. before[1] = {}
      BY <1>2, <1>8
  <2>2. QED
      BY <1>6, <1>8, <2>1
<1>9. QED
    BY <1>5, <1>6, <1>7, <1>8 DEF t, D

\* Influence paths by their confidence, and then by their ids.
SurerPath(p, q) ==
    p.confidence > q.confidence \/ (p.confidence = q.confidence /\ p.memory < q.memory)

ByConfidence(s) == Sorted(s, LAMBDA p, q :
    p.confidence > q.confidence \/ (p.confidence = q.confidence /\ p.memory < q.memory))

\* sort() of the paths.
LEMMA SortsPaths ==
    ASSUME NEW E, \A p \in E : p.confidence \in Int /\ p.memory \in Int, NEW s \in Seq(E)
    PROVE  /\ ByConfidence(s) \in Seq(E) /\ Len(ByConfidence(s)) = Len(s)
           /\ ToSet(ByConfidence(s)) = ToSet(s)
           /\ \A k, l \in 1..Len(s) : k < l => ~SurerPath(ByConfidence(s)[l], ByConfidence(s)[k])
           /\ (\A i \in 1..Len(s) : ~SurerPath(s[i], s[1])) /\ 1 \in 1..Len(s) =>
                  ByConfidence(s)[1] = s[1]
<1> DEFINE D == 1..Len(s)
           t == ByConfidence(s)
           before == [i \in D |-> {j \in D : SurerPath(s[j], s[i])}]
<1>1. DOMAIN s = D /\ \A i \in D : s[i].confidence \in Int /\ s[i].memory \in Int
  <2>1. DOMAIN s = D /\ \A i \in D : s[i] \in E
      BY LenProperties, ElementOfSeq
  <2>2. QED
      BY <2>1
<1>2. before \in [D -> SUBSET D] /\ \A i, j \in D : j \in before[i] <=> SurerPath(s[j], s[i])
    OBVIOUS
<1>3. t = Arranged(s, Stably(D, before))
  <2>1. \A i \in D : {j \in D : SurerPath(s[j], s[i]) \/ (~SurerPath(s[i], s[j]) /\ j < i)}
                   = {j \in D : j \in before[i] \/ (i \notin before[j] /\ j < i)}
      BY <1>2
  <2> HIDE DEF D, before
  <2>2. [i \in D |-> {j \in D : SurerPath(s[j], s[i]) \/ (~SurerPath(s[i], s[j]) /\ j < i)}]
            = Stably(D, before)
      BY <2>1 DEF Stably
  <2>3. QED
      BY <1>1, <2>2 DEF ByConfidence, Sorted, SurerPath
<1> HIDE DEF before, t
<1>4. WeaklyOrdered(D, before)
  <2> HIDE DEF D
  <2>1. \A i, j \in D : SurerPath(s[i], s[j]) => ~SurerPath(s[j], s[i])
      BY <1>1 DEF SurerPath
  <2>2. ASSUME NEW i \in D, NEW j \in D, NEW k \in D, ~SurerPath(s[i], s[j]), ~SurerPath(s[j], s[k])
        PROVE  ~SurerPath(s[i], s[k])
      BY <1>1, <2>2 DEF SurerPath
  <2>3. QED
      BY <1>2, <2>1, <2>2 DEF WeaklyOrdered
<1>5. t \in Seq(E) /\ SortedTo(t, s, before)
    BY <1>3, <1>4, SortSorts
<1>6. /\ Len(t) = Len(s) /\ ToSet(t) = ToSet(s) /\ (1 \in D /\ before[1] = {} => t[1] = s[1])
      /\ \A k, l \in D : k < l => \E i, j \in D : j \notin before[i] /\ t[k] = s[i] /\ t[l] = s[j]
    BY <1>5 DEF SortedTo
<1> HIDE DEF D
<1>7. \A k, l \in D : k < l => ~SurerPath(t[l], t[k])
    BY <1>2, <1>6
<1>8. ASSUME \A i \in D : ~SurerPath(s[i], s[1]), 1 \in D PROVE t[1] = s[1]
  <2>1. before[1] = {}
      BY <1>2, <1>8
  <2>2. QED
      BY <1>6, <1>8, <2>1
<1>9. QED
    BY <1>5, <1>6, <1>7, <1>8 DEF t, D

-----------------------------------------------------------------------------
(* Lists that are put together.                                            *)

\* A non-empty set of naturals has a least element.
LEMMA LeastNat ==
    ASSUME NEW S \in SUBSET Nat, S # {}
    PROVE  \E x \in S : \A y \in S : x <= y
<1>1. PICK x \in S : \A y \in S : ~ (<<y, x>> \in OpToRel(<, Nat))
    BY WFMin, NatLessThanWellFounded
<1>2. \A y \in S : ~ (y < x)
    BY <1>1, Zenon DEF OpToRel
<1>3. QED
    BY <1>2

\* What holds of 0, and of every number up to n if it holds of the one before.
LEMMA EveryNumber ==
    ASSUME NEW n \in Nat, NEW T, 0 \in T, \A i \in 1..n : i - 1 \in T => i \in T
    PROVE  \A i \in 0..n : i \in T
<1> DEFINE bad == {i \in 0..n : i \notin T}
<1>1. SUFFICES ASSUME bad # {} PROVE FALSE
    OBVIOUS
<1>2. PICK m \in bad : \A y \in bad : m <= y
  <2>1. bad \in SUBSET Nat
      OBVIOUS
  <2> HIDE DEF bad
  <2>2. QED
      BY <1>1, <2>1, LeastNat
<1>3. m \in 1..n /\ m - 1 \in 0..n /\ m - 1 \notin bad
    BY <1>2
<1>4. QED
    BY <1>2, <1>3

\* One list behind the other.
LEMMA Joined ==
    ASSUME NEW E, NEW s \in Seq(E), NEW t \in Seq(E)
    PROVE  s \o t \in Seq(E) /\ Len(s \o t) = Len(s) + Len(t) /\ ToSet(s \o t) = ToSet(s) \cup ToSet(t)
<1> DEFINE m == Len(s)
           n == Len(t)
           u == s \o t
<1>1. m \in Nat /\ n \in Nat /\ DOMAIN s = 1..m /\ DOMAIN t = 1..n
    BY LenProperties
<1>2. u \in Seq(E) /\ Len(u) = m + n /\ \A i \in 1..(m + n) : u[i] = IF i <= m THEN s[i] ELSE t[i - m]
    BY ConcatProperties
<1>3. DOMAIN u = 1..(m + n)
    BY <1>2, LenProperties
<1> HIDE DEF m, n, u
<1>4. ASSUME NEW i \in 1..(m + n) PROVE (\E j \in 1..m : u[i] = s[j]) \/ (\E j \in 1..n : u[i] = t[j])
  <2>1. CASE i <= m
    <3>1. i \in 1..m /\ u[i] = s[i]
        BY <1>1, <1>2, <2>1
    <3>2. QED
        BY <3>1
  <2>2. CASE ~(i <= m)
    <3>1. i - m \in 1..n /\ u[i] = t[i - m]
        BY <1>1, <1>2, <2>2
    <3>2. QED
        BY <3>1
  <2>3. QED
      BY <2>1, <2>2
<1>5. ASSUME NEW j \in 1..m PROVE j \in 1..(m + n) /\ u[j] = s[j]
    BY <1>1, <1>2
<1>6. ASSUME NEW j \in 1..n PROVE j + m \in 1..(m + n) /\ u[j + m] = t[j]
  <2>1. j + m \in 1..(m + n) /\ ~(j + m <= m) /\ (j + m) - m = j
      BY <1>1
  <2> DEFINE k == j + m
  <2> HIDE DEF k
  <2>2. k \in 1..(m + n) /\ ~(k <= m) /\ k - m = j
      BY <2>1 DEF k
  <2>3. u[k] = t[j]
      BY <1>2, <2>2
  <2>4. QED
      BY <2>2, <2>3 DEF k
<1>7. ToSet(u) = ToSet(s) \cup ToSet(t)
  <2>1. ASSUME NEW x \in ToSet(u) PROVE x \in ToSet(s) \cup ToSet(t)
      BY <1>1, <1>3, <1>4, <2>1 DEF ToSet
  <2>2. ASSUME NEW x \in ToSet(s) PROVE x \in ToSet(u)
      BY <1>1, <1>3, <1>5, <2>2 DEF ToSet
  <2>3. ASSUME NEW x \in ToSet(t) PROVE x \in ToSet(u)
    <3>1. PICK j \in 1..n : x = t[j]
        BY <1>1, <2>3 DEF ToSet
    <3>2. j + m \in 1..(m + n) /\ u[j + m] = x
        BY <1>6, <3>1
    <3>3. QED
        BY <1>3, <3>2 DEF ToSet
  <2>4. QED
      BY <2>1, <2>2, <2>3
<1>8. QED
    BY <1>2, <1>7 DEF m, n, u

\* A function that FlattenSeq defines, for n lists.
Flattens(a, ss, n) == a = [i \in 1..n |-> IF i = 1 THEN ss[i] ELSE a[i - 1] \o ss[i]]

\* There is one.
LEMMA FlattenExists ==
    ASSUME NEW n \in Nat, NEW ss
    PROVE  \E a : Flattens(a, ss, n)
<1> DEFINE T == {m \in 0..n : \E a : Flattens(a, ss, m)}
<1>1. 0 \in T
  <2> DEFINE a == [i \in 1..0 |-> <<>>]
  <2>1. Flattens(a, ss, 0)
      BY DEF Flattens
  <2>2. QED
      BY <2>1
<1>2. ASSUME NEW m \in 1..n, m - 1 \in T PROVE m \in T
  <2>1. PICK a : Flattens(a, ss, m - 1)
      BY <1>2
  <2> DEFINE next == IF m = 1 THEN ss[m] ELSE a[m - 1] \o ss[m]
             b == [i \in 1..m |-> IF i = m THEN next ELSE a[i]]
  <2>2. \A i \in 1..m : b[i] = IF i = m THEN next ELSE a[i]
      OBVIOUS
  <2>3. DOMAIN b = 1..m /\ b = [i \in 1..m |-> b[i]]
      OBVIOUS
  <2> HIDE DEF next, b
  <2>4. ASSUME NEW i \in 1..m PROVE b[i] = IF i = 1 THEN ss[i] ELSE b[i - 1] \o ss[i]
    <3>1. i # 1 => i - 1 \in 1..m /\ i - 1 # m /\ b[i - 1] = a[i - 1]
        BY <2>2
    <3>2. CASE i = m
        BY <2>2, <3>1, <3>2 DEF next
    <3>3. CASE i # m
      <4>1. i \in 1..(m - 1) /\ b[i] = a[i]
          BY <2>2, <3>3
      <4>2. a[i] = IF i = 1 THEN ss[i] ELSE a[i - 1] \o ss[i]
          BY <2>1, <4>1 DEF Flattens
      <4>3. QED
          BY <3>1, <4>1, <4>2
    <3>4. QED
        BY <3>2, <3>3
  <2>5. Flattens(b, ss, m)
      BY <2>3, <2>4 DEF Flattens
  <2>6. QED
      BY <2>5
<1> HIDE DEF T
<1>3. n \in T
  <2>1. n \in 0..n
      OBVIOUS
  <2>2. QED
      BY <1>1, <1>2, <2>1, EveryNumber
<1>4. QED
    BY <1>3 DEF T

\* A list of lists is flattened to the elements of all of them.
LEMMA Flattened ==
    ASSUME NEW E, NEW ss \in Seq(Seq(E))
    PROVE  FlattenSeq(ss) \in Seq(E) /\ ToSet(FlattenSeq(ss)) = UNION {ToSet(ss[i]) : i \in 1..Len(ss)}
<1> DEFINE n == Len(ss)
           a == CHOOSE f : Flattens(f, ss, n)
           upto(i) == UNION {ToSet(ss[j]) : j \in 1..i}
<1>1. n \in Nat /\ \A i \in 1..n : ss[i] \in Seq(E)
    BY LenProperties, ElementOfSeq
<1>2. CASE n = 0
  <2>1. ss = <<>>
      BY <1>2, EmptySeq
  <2>2. FlattenSeq(ss) = <<>>
      BY <2>1 DEF FlattenSeq
  <2>3. ToSet(<<>>) = {} /\ upto(0) = {} /\ <<>> \in Seq(E)
      BY DEF ToSet
  <2>4. QED
      BY <1>2, <2>2, <2>3
<1>3. CASE n # 0
  <2>1. FlattenSeq(ss) = a[n]
      BY <1>3 DEF FlattenSeq, Flattens
  <2>2. Flattens(a, ss, n)
      BY <1>1, FlattenExists
  <2> HIDE DEF a
  <2>3. \A i \in 1..n : a[i] = IF i = 1 THEN ss[i] ELSE a[i - 1] \o ss[i]
      BY <2>2 DEF Flattens
  <2> DEFINE T == {i \in 0..n : i # 0 => a[i] \in Seq(E) /\ ToSet(a[i]) = upto(i)}
  <2> HIDE DEF n
  <2>4. 0 \in T
      BY <1>1
  <2>5. ASSUME NEW i \in 1..n, i - 1 \in T PROVE i \in T
    <3>1. ss[i] \in Seq(E) /\ i \in 0..n /\ i \in Nat
        BY <1>1
    <3>2. CASE i = 1
      <4>1. a[i] = ss[i]
          BY <2>3, <3>2
      <4>2. \A j \in 1..i : j = i
          BY <3>2
      <4>3. upto(i) = ToSet(ss[i])
          BY <3>2, <4>2
      <4>4. QED
          BY <3>1, <4>1, <4>3
    <3>3. CASE i # 1
      <4>1. a[i - 1] \in Seq(E) /\ ToSet(a[i - 1]) = upto(i - 1) /\ a[i] = a[i - 1] \o ss[i]
        <5>1. i - 1 # 0
            BY <3>1, <3>3
        <5>2. a[i - 1] \in Seq(E) /\ ToSet(a[i - 1]) = upto(i - 1)
            BY <2>5, <5>1
        <5> HIDE DEF upto
        <5>3. a[i] = a[i - 1] \o ss[i]
            BY <2>3, <3>3
        <5>4. QED
            BY <5>2, <5>3
      <4>2. a[i] \in Seq(E) /\ ToSet(a[i]) = ToSet(a[i - 1]) \cup ToSet(ss[i])
          BY <3>1, <4>1, Joined
      <4>3. \A j : j \in 1..i <=> j \in 1..(i - 1) \/ j = i
          BY <3>1
      <4>4. upto(i) = upto(i - 1) \cup ToSet(ss[i])
          BY <4>3
      <4>5. QED
          BY <3>1, <4>1, <4>2, <4>4
    <3>4. QED
        BY <3>2, <3>3
  <2> HIDE DEF T
  <2>6. n \in T
    <3>1. n \in 0..n
        BY <1>1
    <3>2. QED
        BY <1>1, <2>4, <2>5, <3>1, EveryNumber
  <2>7. QED
      BY <1>3, <2>1, <2>6 DEF T, n
<1>4. QED
    BY <1>2, <1>3

-----------------------------------------------------------------------------
(* The timeline.                                                           *)

\* The event of a memory, and that of one of its sources.
MemoryEvent(m) == Event(<<m.id, 0>>, Normalized(m.seen), m.strength, Packets(m))

SourceEvent(m, i) ==
    Event(<<m.id, i>>, Normalized(Given(m.sources[i].at, m.seen)), m.strength, Packets(m))

EventsOf(m) == {MemoryEvent(m)} \cup {SourceEvent(m, i) : i \in DOMAIN m.sources}

\* What can be an exposure.
Reported == Exposure \cup UNION {EventsOf(m) : m \in Memory}

\* The events of a memory are its own and those of its sources.
LEMMA EventsOfAMemory ==
    ASSUME NEW m \in Memory
    PROVE  EventsFromMemory(m) \in Seq(EventsOf(m)) /\ ToSet(EventsFromMemory(m)) = EventsOf(m)
<1> DEFINE own == <<MemoryEvent(m)>>
           others == [i \in DOMAIN m.sources |-> SourceEvent(m, i)]
           n == Len(m.sources)
<1>1. n \in Nat /\ DOMAIN m.sources = 1..n
    BY OriginAssumption
<1>2. EventsFromMemory(m) = own \o others
    BY DEF EventsFromMemory, MemoryEvent, SourceEvent
<1>3. own \in Seq(EventsOf(m)) /\ ToSet(own) = {MemoryEvent(m)}
  <2>1. MemoryEvent(m) \in EventsOf(m)
      BY DEF EventsOf
  <2> DEFINE e == MemoryEvent(m)
  <2> HIDE DEF e
  <2>2. <<e>> \in Seq({e}) /\ DOMAIN <<e>> = {1} /\ <<e>>[1] = e
      OBVIOUS
  <2>3. ToSet(<<e>>) = {e}
      BY <2>2 DEF ToSet
  <2>4. <<e>> \in Seq(EventsOf(m))
    <3>1. e \in EventsOf(m)
        BY <2>1 DEF e
    <3>2. QED
        BY <3>1
  <2>5. QED
      BY <2>3, <2>4 DEF e
<1>4. others \in Seq(EventsOf(m)) /\ ToSet(others) = {SourceEvent(m, i) : i \in DOMAIN m.sources}
  <2>1. \A i \in DOMAIN m.sources : others[i] = SourceEvent(m, i) /\ SourceEvent(m, i) \in EventsOf(m)
      BY DEF EventsOf
  <2>2. DOMAIN others = DOMAIN m.sources /\ others = [i \in 1..n |-> others[i]]
      BY <1>1
  <2> HIDE DEF others, n
  <2>3. others \in [1..n -> EventsOf(m)]
      BY <1>1, <2>1, <2>2
  <2>4. others \in Seq(EventsOf(m))
      BY <1>1, <2>3
  <2>5. QED
      BY <2>1, <2>2, <2>4 DEF ToSet
<1> HIDE DEF own, others
<1>5. own \o others \in Seq(EventsOf(m)) /\ ToSet(own \o others) = ToSet(own) \cup ToSet(others)
    BY <1>3, <1>4, Joined
<1>6. QED
    BY <1>2, <1>3, <1>4, <1>5 DEF EventsOf

\* What normalisation leaves of a date that is given.
LEMMA NormalDates ==
    /\ \A d, e \in Written : Given(d, e) \in Written
    /\ \A d \in Written : Normalized(d) \in Date /\ (Dated(Normalized(d)) => Normalized(d) = d)
BY DEF Written, Given, Normalized, Date, Dated, ParseTime, Missing, Blank, Unreadable

\* Events have dates and scores.
LEMMA ReportedEvents ==
    \A e \in Reported : e.date \in Date /\ e.score \in Int
<1>1. ASSUME NEW e \in Exposure PROVE e.date \in Date /\ e.score \in Int
    BY OriginAssumption
<1>2. ASSUME NEW m \in Memory, NEW e \in EventsOf(m) PROVE e.date \in Date /\ e.score \in Int
  <2>1. /\ m.strength \in Int /\ m.seen \in Written
        /\ \A i \in DOMAIN m.sources : m.sources[i].at \in Written
      BY OriginAssumption
  <2>2. CASE e = MemoryEvent(m)
      BY <2>1, <2>2, NormalDates DEF MemoryEvent, Event
  <2>3. ASSUME NEW i \in DOMAIN m.sources, e = SourceEvent(m, i) PROVE e.date \in Date /\ e.score \in Int
    <3> DEFINE date == Normalized(Given(m.sources[i].at, m.seen))
    <3>1. date \in Date
        BY <2>1, NormalDates
    <3>2. e.date = date /\ e.score = m.strength
        BY <2>3 DEF SourceEvent, Event
    <3>3. QED
        BY <2>1, <3>1, <3>2
  <2>4. QED
      BY <1>2, <2>2, <2>3 DEF EventsOf
<1>3. QED
    BY <1>1, <1>2 DEF Reported

\* The events of a store are those of its memories.
LEMMA EventsOfAStore ==
    ASSUME NEW ms \in Seq(Memory)
    PROVE  /\ EventsFromMemoryStore(ms) \in Seq(Reported)
           /\ ToSet(EventsFromMemoryStore(ms)) = UNION {EventsOf(m) : m \in ToSet(ms)}
<1> DEFINE lists == [i \in DOMAIN ms |-> EventsFromMemory(ms[i])]
           n == Len(ms)
<1>1. n \in Nat /\ DOMAIN ms = 1..n /\ \A i \in 1..n : ms[i] \in Memory
    BY LenProperties, ElementOfSeq
<1>2. \A m \in Memory : EventsOf(m) \subseteq Reported
    BY DEF Reported
<1>3. \A m \in Memory : EventsFromMemory(m) \in Seq(Reported) /\ ToSet(EventsFromMemory(m)) = EventsOf(m)
    BY <1>2, EventsOfAMemory, SeqMonotonic
<1>4. \A i \in 1..n : lists[i] = EventsFromMemory(ms[i])
    BY <1>1
<1>5. lists \in [1..n -> Seq(Reported)]
    BY <1>1, <1>3
<1> HIDE DEF lists
<1>6. lists \in Seq(Seq(Reported)) /\ Len(lists) = n
    BY <1>1, <1>5
<1>7. /\ FlattenSeq(lists) \in Seq(Reported)
      /\ ToSet(FlattenSeq(lists)) = UNION {ToSet(lists[i]) : i \in 1..n}
    BY <1>6, Flattened
<1> HIDE DEF n
<1>8. UNION {ToSet(lists[i]) : i \in 1..n} = UNION {EventsOf(m) : m \in ToSet(ms)}
  <2>1. \A i \in 1..n : ToSet(lists[i]) = EventsOf(ms[i])
      BY <1>1, <1>3, <1>4
  <2>2. ToSet(ms) = {ms[i] : i \in 1..n}
      BY <1>1 DEF ToSet
  <2>3. QED
      BY <2>1, <2>2
<1>9. QED
    BY <1>7, <1>8 DEF EventsFromMemoryStore, lists

\* The exposures of a timeline are the candidates, the earliest first.
LEMMA SeenAreCandidates ==
    ASSUME memories \in Seq(Memory), exposures \in Seq(Exposure), NEW thought
    PROVE  LET seen == Seen(thought)
           IN /\ seen \in Seq(Reported) /\ ToSet(seen) = Candidates(thought)
              /\ \A k, l \in 1..Len(seen) : k < l => ~Earlier(seen[l], seen[k])
<1> DEFINE stored == EventsFromMemoryStore(memories)
           all == stored \o exposures
           I == {i \in DOMAIN all : all[i].date # Missing /\ NotAfter(thought, all[i])}
           kept == UpTo(all, thought)
           seen == Seen(thought)
<1>1. stored \in Seq(Reported) /\ ToSet(stored) = UNION {EventsOf(m) : m \in ToSet(memories)}
    BY EventsOfAStore
<1>2. exposures \in Seq(Reported)
  <2>1. Exposure \subseteq Reported
      BY DEF Reported
  <2>2. QED
      BY <2>1, SeqMonotonic
<1> HIDE DEF stored
<1>3. all \in Seq(Reported) /\ ToSet(all) = ToSet(stored) \cup ToSet(exposures)
    BY <1>1, <1>2, Joined
<1>4. kept = Kept(all, I)
    BY DEF UpTo
<1>5. seen = ByDate(kept)
    BY DEF Seen, Exposures, ByDate, stored
<1> HIDE DEF all, kept, seen
<1>6. DOMAIN all = 1..Len(all) /\ I \in SUBSET (1..Len(all))
    BY <1>3, LenProperties
<1>7. kept \in Seq(Reported) /\ ToSet(kept) = {all[i] : i \in I}
  <2> HIDE DEF I
  <2>1. QED
      BY <1>3, <1>4, <1>6, KeptKeeps
<1>8. ToSet(kept) = {e \in ToSet(all) : e.date # Missing /\ NotAfter(thought, e)}
    BY <1>7 DEF ToSet
<1>9. \A e : NotAfter(thought, e) <=> (thought # Unreadable => ParseTime(e.date) <= thought)
    BY DEF NotAfter
<1>10. ToSet(all) = ToSet(exposures) \cup UNION {ToSet(EventsFromMemory(m)) : m \in ToSet(memories)}
  <2>1. \A m \in ToSet(memories) : m \in Memory
      BY LenProperties, ElementOfSeq DEF ToSet
  <2>2. \A m \in ToSet(memories) : ToSet(EventsFromMemory(m)) = EventsOf(m)
      BY <2>1, EventsOfAMemory
  <2>3. QED
      BY <1>1, <1>3, <2>2
<1>11. ToSet(kept) = Candidates(thought)
    BY <1>8, <1>9, <1>10 DEF Candidates
<1>12. /\ seen \in Seq(Reported) /\ Len(seen) = Len(kept) /\ ToSet(seen) = ToSet(kept)
       /\ \A k, l \in 1..Len(kept) : k < l => ~Earlier(seen[l], seen[k])
    BY <1>5, <1>7, ReportedEvents, SortsByDate
<1>13. QED
    BY <1>11, <1>12 DEF seen

\* A list of one element, and one of none.
LEMMA Single ==
    ASSUME NEW E, NEW e \in E
    PROVE  /\ <<e>> \in Seq(E) /\ ToSet(<<e>>) = {e} /\ Len(<<e>>) = 1
           /\ <<>> \in Seq(E) /\ ToSet(<<>>) = {} /\ Len(<<>>) = 0
<1>1. DOMAIN <<e>> = {1} /\ <<e>>[1] = e
    OBVIOUS
<1>2. QED
    BY <1>1 DEF ToSet

\* A list that is not empty has a first element.
LEMMA Heads ==
    ASSUME NEW E, NEW s \in Seq(E)
    PROVE  /\ s # <<>> <=> ToSet(s) # {}
           /\ s # <<>> <=> 1 \in 1..Len(s)
           /\ s # <<>> => Head(s) = s[1] /\ s[1] \in E /\ s[1] \in ToSet(s)
<1>1. Len(s) \in Nat /\ DOMAIN s = 1..Len(s)
    BY LenProperties
<1>2. s # <<>> => Len(s) \in Nat \ {0}
    BY EmptySeq
<1>3. Len(<<>>) = 0
    OBVIOUS
<1>4. s # <<>> <=> 1 \in 1..Len(s)
    BY <1>1, <1>2, <1>3
<1>5. ToSet(s) # {} <=> \E i : i \in 1..Len(s)
    BY <1>1 DEF ToSet
<1>6. (\E i : i \in 1..Len(s)) <=> 1 \in 1..Len(s)
    BY <1>1
<1>7. ASSUME s # <<>> PROVE Head(s) = s[1] /\ s[1] \in E /\ s[1] \in ToSet(s)
    BY <1>1, <1>4, <1>7, ElementOfSeq DEF ToSet
<1>8. QED
    BY <1>4, <1>5, <1>6, <1>7

\* In a sorted list nothing precedes the first element.
LEMMA FirstIsFirst ==
    ASSUME memories \in Seq(Memory), exposures \in Seq(Exposure), NEW thought,
           Candidates(thought) # {}
    PROVE  LET seen == Seen(thought)
           IN /\ FirstExposure(seen) \in Candidates(thought)
              /\ \A e \in Candidates(thought) : ~Earlier(e, FirstExposure(seen))
              /\ StrongestExposure(seen) \in Candidates(thought)
              /\ \A e \in Candidates(thought) : ~Stronger(e, StrongestExposure(seen))
<1> DEFINE seen == Seen(thought)
           ranked == ByScore(seen)
           C == Candidates(thought)
<1>1. /\ seen \in Seq(Reported) /\ ToSet(seen) = C
      /\ \A k, l \in 1..Len(seen) : k < l => ~Earlier(seen[l], seen[k])
    BY SeenAreCandidates
<1> HIDE DEF seen
<1>2. /\ ranked \in Seq(Reported) /\ Len(ranked) = Len(seen) /\ ToSet(ranked) = ToSet(seen)
      /\ \A k, l \in 1..Len(seen) : k < l => ~Stronger(ranked[l], ranked[k])
    BY <1>1, ReportedEvents, SortsByScore
<1>3. StrongestExposure(seen) = Head(ranked) /\ FirstExposure(seen) = Head(seen)
    BY DEF StrongestExposure, FirstExposure, ByScore
<1> HIDE DEF ranked, C
<1>4. C # {}
    BY DEF C
<1>5. /\ Head(seen) = seen[1] /\ seen[1] \in C /\ Head(ranked) = ranked[1] /\ ranked[1] \in C
      /\ seen[1] \in Reported /\ ranked[1] \in Reported /\ 1 \in 1..Len(seen)
    BY <1>1, <1>2, <1>4, Heads
<1>6. \A e \in Reported : ParseTime(e.date) \in Nat /\ e.score \in Int
    BY ReportedEvents DEF Date, ParseTime, Missing, Unreadable
<1>7. \A e \in Reported : ~Earlier(e, e) /\ ~Stronger(e, e)
    BY <1>6 DEF Earlier, Stronger
<1>8. ASSUME NEW e \in C PROVE ~Earlier(e, seen[1])
  <2>1. PICK k \in 1..Len(seen) : e = seen[k]
      BY <1>1, <1>8, LenProperties DEF ToSet
  <2>2. k = 1 \/ 1 < k
      BY <1>1, LenProperties
  <2>3. QED
      BY <1>1, <1>5, <1>7, <2>1, <2>2
<1>9. ASSUME NEW e \in C PROVE ~Stronger(e, ranked[1])
  <2>1. PICK k \in 1..Len(seen) : e = ranked[k]
      BY <1>1, <1>2, <1>9, LenProperties DEF ToSet
  <2>2. k = 1 \/ 1 < k
      BY <1>1, LenProperties
  <2>3. QED
      BY <1>2, <1>5, <1>7, <2>1, <2>2
<1>10. QED
    BY <1>3, <1>5, <1>8, <1>9 DEF seen, C

\* What a timeline shows of the searches.
FirstSearch(thought) == FirstOf(Sorted(UpTo(searches, thought), Earlier))

\* It is at most the first one.
LEMMA FirstSearchIsASearch ==
    ASSUME searches \in Seq(Search), NEW thought
    PROVE  FirstSearch(thought) \in Seq(Search) /\ Len(FirstSearch(thought)) \in 0..1
<1> DEFINE I == {i \in DOMAIN searches : searches[i].date # Missing /\ NotAfter(thought, searches[i])}
           kept == UpTo(searches, thought)
           sorted == ByDate(kept)
<1>1. I \in SUBSET (1..Len(searches))
    BY LenProperties
<1>2. kept = Kept(searches, I)
    BY DEF UpTo
<1> HIDE DEF I, kept
<1>3. kept \in Seq(Search)
    BY <1>1, <1>2, KeptKeeps
<1>4. \A e \in Search : e.date \in Date
    BY OriginAssumption
<1>5. sorted \in Seq(Search)
    BY <1>3, <1>4, SortsByDate
<1>6. FirstSearch(thought) = FirstOf(sorted)
    BY DEF FirstSearch, ByDate, kept
<1> HIDE DEF sorted
<1>7. CASE sorted = <<>>
    BY <1>6, <1>7 DEF FirstOf
<1>8. CASE sorted # <<>>
  <2> DEFINE head == Head(sorted)
  <2>1. head \in Search /\ FirstSearch(thought) = <<head>>
      BY <1>5, <1>6, <1>8, Heads DEF FirstOf
  <2> HIDE DEF head
  <2>2. QED
      BY <2>1, Single
<1>9. QED
    BY <1>7, <1>8

\* What the events of a set cite.
EvidenceIn(S) == UNION {e.evidence : e \in S}

\* It is that of each of them, and for a list that of its elements.
LEMMA EvidenceAdds ==
    /\ \A S, T : EvidenceIn(S \cup T) = EvidenceIn(S) \cup EvidenceIn(T)
    /\ \A S, T : S \subseteq T => EvidenceIn(S) \subseteq EvidenceIn(T)
    /\ \A e : EvidenceIn({e}) = e.evidence
    /\ EvidenceIn({}) = {}
    /\ \A s : Evidence(s) = EvidenceIn(ToSet(s))
<1>1. \A S, T : EvidenceIn(S \cup T) = EvidenceIn(S) \cup EvidenceIn(T)
    BY DEF EvidenceIn
<1>2. \A S, T : S \subseteq T => EvidenceIn(S) \subseteq EvidenceIn(T)
    BY DEF EvidenceIn
<1>3. \A e : EvidenceIn({e}) = e.evidence
    BY DEF EvidenceIn
<1>4. EvidenceIn({}) = {}
    BY DEF EvidenceIn
<1>5. \A s : Evidence(s) = EvidenceIn(ToSet(s))
    BY DEF EvidenceIn, Evidence, ToSet
<1>6. QED
    BY <1>1, <1>2, <1>3, <1>4, <1>5

\* Five lists behind each other.
Five(a, b, c, d, e) == a \o b \o c \o d \o e

HoldsFive(E, a, b, c, d, e) ==
    LET s == Five(a, b, c, d, e)
    IN /\ s \in Seq(E) /\ Len(s) = Len(a) + Len(b) + Len(c) + Len(d) + Len(e)
       /\ ToSet(s) = ToSet(a) \cup ToSet(b) \cup ToSet(c) \cup ToSet(d) \cup ToSet(e)
       /\ EvidenceIn(ToSet(s)) =
              EvidenceIn(ToSet(a)) \cup EvidenceIn(ToSet(b)) \cup EvidenceIn(ToSet(c))
                  \cup EvidenceIn(ToSet(d)) \cup EvidenceIn(ToSet(e))

\* They hold what each of them holds.
LEMMA JoinedFive ==
    ASSUME NEW E, NEW a \in Seq(E), NEW b \in Seq(E), NEW c \in Seq(E), NEW d \in Seq(E), NEW e \in Seq(E)
    PROVE  HoldsFive(E, a, b, c, d, e)
<1> DEFINE s == Five(a, b, c, d, e)
           two == a \o b
           three == two \o c
           four == three \o d
<1>1. two \in Seq(E)
    BY Joined
<1>2. Len(two) = Len(a) + Len(b) /\ ToSet(two) = ToSet(a) \cup ToSet(b)
    BY Joined
<1> HIDE DEF two
<1>3. three \in Seq(E)
    BY <1>1, Joined
<1>4. Len(three) = Len(two) + Len(c) /\ ToSet(three) = ToSet(two) \cup ToSet(c)
    BY <1>1, Joined
<1> HIDE DEF three
<1>5. four \in Seq(E)
    BY <1>3, Joined
<1>6. Len(four) = Len(three) + Len(d) /\ ToSet(four) = ToSet(three) \cup ToSet(d)
    BY <1>3, Joined
<1> HIDE DEF four
<1>7. /\ four \o e \in Seq(E) /\ Len(four \o e) = Len(four) + Len(e)
      /\ ToSet(four \o e) = ToSet(four) \cup ToSet(e)
    BY <1>5, Joined
<1>8. s = four \o e
    BY DEF two, three, four, Five
<1> HIDE DEF s
<1>9. Len(s) = Len(a) + Len(b) + Len(c) + Len(d) + Len(e)
    BY <1>2, <1>4, <1>6, <1>7, <1>8
<1>10. ToSet(s) = ToSet(a) \cup ToSet(b) \cup ToSet(c) \cup ToSet(d) \cup ToSet(e)
    BY <1>2, <1>4, <1>6, <1>7, <1>8
<1>11. EvidenceIn(ToSet(s)) =
           EvidenceIn(ToSet(a)) \cup EvidenceIn(ToSet(b)) \cup EvidenceIn(ToSet(c))
               \cup EvidenceIn(ToSet(d)) \cup EvidenceIn(ToSet(e))
    BY <1>10 DEF EvidenceIn
<1>12. QED
    BY <1>7, <1>8, <1>9, <1>10, <1>11 DEF HoldsFive, s

\* Exposures are repeated if they are two; then all their evidence is cited.
LEMMA RepeatedIsOne ==
    ASSUME NEW seen \in Seq(Reported)
    PROVE  LET rep == RepeatedExposures(seen)
           IN /\ rep \in Seq(ToSet(rep)) /\ Len(rep) \in 0..1
              /\ \A e \in ToSet(rep) : e.date \in Date
              /\ Len(seen) < 2 => rep = <<>>
              /\ ~(Len(seen) < 2) => EvidenceIn(ToSet(rep)) = EvidenceIn(ToSet(seen))
<1> DEFINE rep == RepeatedExposures(seen)
           r == Event(<<"repeated_exposures">>, Last(seen).date, Len(seen), Evidence(seen))
<1>1. Len(seen) \in Nat
    BY LenProperties
<1>2. CASE Len(seen) < 2
  <2>1. rep = <<>>
      BY <1>2 DEF RepeatedExposures
  <2>2. <<>> \in Seq(ToSet(<<>>)) /\ ToSet(<<>>) = {} /\ Len(<<>>) \in 0..1
      BY DEF ToSet
  <2> HIDE DEF rep
  <2>3. QED
      BY <1>2, <2>1, <2>2 DEF rep
<1>3. CASE ~(Len(seen) < 2)
  <2>1. rep = <<r>>
      BY <1>3 DEF RepeatedExposures
  <2>2. Len(seen) \in 1..Len(seen)
      BY <1>1, <1>3
  <2>3. Last(seen) \in Reported
      BY <2>2, ElementOfSeq DEF Last
  <2>4. r.date \in Date /\ r.evidence = EvidenceIn(ToSet(seen))
      BY <2>3, ReportedEvents, EvidenceAdds DEF Event
  <2> HIDE DEF r
  <2>5. <<r>> \in Seq({r}) /\ ToSet(<<r>>) = {r} /\ Len(<<r>>) = 1
      BY Single
  <2>6. EvidenceIn({r}) = EvidenceIn(ToSet(seen))
      BY <2>4, EvidenceAdds
  <2> DEFINE one == <<r>>
  <2>7. one \in Seq({r}) /\ ToSet(one) = {r} /\ Len(one) = 1 /\ rep = one
      BY <2>1, <2>5
  <2> HIDE DEF one, rep
  <2>8. /\ rep \in Seq(ToSet(rep)) /\ Len(rep) \in 0..1
        /\ \A e \in ToSet(rep) : e.date \in Date
        /\ EvidenceIn(ToSet(rep)) = EvidenceIn(ToSet(seen))
    <3>1. rep \in Seq({r}) /\ ToSet(rep) = {r} /\ Len(rep) = 1
        BY <2>7
    <3>2. Len(rep) \in 0..1
        BY <3>1
    <3>3. \A e \in ToSet(rep) : e.date \in Date
        BY <2>4, <3>1
    <3>4. EvidenceIn(ToSet(rep)) = EvidenceIn(ToSet(seen))
        BY <2>6, <3>1
    <3>5. QED
        BY <3>1, <3>2, <3>3, <3>4
  <2>9. QED
      BY <1>3, <2>8 DEF rep
<1>4. QED
    BY <1>2, <1>3

\* The events of a timeline: at most five, with dates, and together they cite
\* what the candidates and the first search cite.
LEMMA StepsOfATimeline ==
    ASSUME memories \in Seq(Memory), exposures \in Seq(Exposure), searches \in Seq(Search),
           NEW thought \in Nat
    PROVE  LET steps == Steps(memories, exposures, searches, thought)
           IN /\ steps \in Seq(ToSet(steps)) /\ Len(steps) \in 1..5
              /\ \A e \in ToSet(steps) : e.date \in Date
              /\ EvidenceIn(ToSet(steps)) =
                     EvidenceIn(Candidates(thought)) \cup Evidence(FirstSearch(thought))
<1> DEFINE seen == Seen(thought)
           C == Candidates(thought)
           f == FirstExposure(seen)
           g == StrongestExposure(seen)
           rep == RepeatedExposures(seen)
           search == FirstSearch(thought)
           u == Event(<<"user_entered_thought">>, thought, 1, {})
           E == Reported \cup ToSet(rep) \cup Search \cup {u}
           first == IF seen = <<>> THEN <<>> ELSE <<f>>
           strongest == IF seen = <<>> THEN <<>> ELSE <<g>>
           steps == first \o rep \o strongest \o search \o <<u>>
<1>1. Steps(memories, exposures, searches, thought) = steps
    BY DEF Steps, Seen, FirstSearch
<1>2. seen \in Seq(Reported) /\ ToSet(seen) = C /\ (seen = <<>> <=> C = {})
    BY SeenAreCandidates, Heads
<1>3. C # {} => f \in C /\ g \in C
    BY FirstIsFirst
<1>4. C \subseteq Reported
    BY <1>2, LenProperties, ElementOfSeq DEF ToSet
<1>5. u.date \in Date /\ u.evidence = {}
    BY DEF Event, Date
<1>6. search \in Seq(Search) /\ Len(search) \in 0..1
    BY FirstSearchIsASearch
<1>7. /\ rep \in Seq(ToSet(rep)) /\ Len(rep) \in 0..1 /\ (\A e \in ToSet(rep) : e.date \in Date)
      /\ Len(seen) < 2 => rep = <<>>
      /\ ~(Len(seen) < 2) => EvidenceIn(ToSet(rep)) = EvidenceIn(C)
  <2> HIDE DEF seen, rep, C
  <2>1. QED
      BY <1>2, RepeatedIsOne DEF rep
<1> HIDE DEF seen, C, f, g, rep, search, u
<1>8. \A e \in E : e.date \in Date
  <2>1. \A e \in Search : e.date \in Date
      BY OriginAssumption
  <2>2. QED
      BY <1>5, <1>7, <2>1, ReportedEvents
<1>9. /\ Reported \subseteq E /\ ToSet(rep) \subseteq E /\ Search \subseteq E /\ u \in E
    OBVIOUS
<1> HIDE DEF E
<1>10. /\ first \in Seq(E) /\ Len(first) \in 0..1 /\ ToSet(first) = (IF C = {} THEN {} ELSE {f})
       /\ strongest \in Seq(E) /\ Len(strongest) \in 0..1 /\ ToSet(strongest) = (IF C = {} THEN {} ELSE {g})
  <2>1. CASE C = {}
    <3>1. first = <<>> /\ strongest = <<>>
        BY <1>2, <2>1
    <3>2. <<>> \in Seq(E) /\ ToSet(<<>>) = {} /\ Len(<<>>) \in 0..1
        BY DEF ToSet
    <3> HIDE DEF first, strongest
    <3>3. QED
        BY <2>1, <3>1, <3>2
  <2>2. CASE C # {}
    <3>1. first = <<f>> /\ strongest = <<g>> /\ f \in E /\ g \in E
        BY <1>2, <1>3, <1>4, <1>9, <2>2
    <3>2. <<f>> \in Seq(E) /\ ToSet(<<f>>) = {f} /\ Len(<<f>>) = 1
        BY <3>1, Single
    <3>3. <<g>> \in Seq(E) /\ ToSet(<<g>>) = {g} /\ Len(<<g>>) = 1
        BY <3>1, Single
    <3>4. /\ first \in Seq(E) /\ ToSet(first) = {f} /\ Len(first) = 1
          /\ strongest \in Seq(E) /\ ToSet(strongest) = {g} /\ Len(strongest) = 1
      <4> HIDE DEF first, strongest
      <4>1. QED
          BY <3>1, <3>2, <3>3, Zenon
    <3> HIDE DEF first, strongest
    <3>5. QED
        BY <2>2, <3>4
  <2>3. QED
      BY <2>1, <2>2
<1>11. rep \in Seq(E) /\ search \in Seq(E) /\ <<u>> \in Seq(E) /\ Len(<<u>>) = 1 /\ ToSet(<<u>>) = {u}
    BY <1>6, <1>7, <1>9, SeqMonotonic, Single
<1> DEFINE last == <<u>>
<1> HIDE DEF first, strongest, last
<1>12. /\ first \in Seq(E) /\ rep \in Seq(E) /\ strongest \in Seq(E)
       /\ search \in Seq(E) /\ last \in Seq(E)
       /\ Len(last) = 1 /\ ToSet(last) = {u}
    BY <1>10, <1>11 DEF last
<1>13. steps = Five(first, rep, strongest, search, last)
    BY DEF last, Five
<1> HIDE DEF steps
<1>14. /\ steps \in Seq(E)
       /\ Len(steps) = Len(first) + Len(rep) + Len(strongest) + Len(search) + Len(last)
       /\ ToSet(steps) = ToSet(first) \cup ToSet(rep) \cup ToSet(strongest)
                             \cup ToSet(search) \cup ToSet(last)
       /\ EvidenceIn(ToSet(steps)) =
              EvidenceIn(ToSet(first)) \cup EvidenceIn(ToSet(rep)) \cup EvidenceIn(ToSet(strongest))
                  \cup EvidenceIn(ToSet(search)) \cup EvidenceIn(ToSet(last))
  <2>1. /\ first \in Seq(E) /\ rep \in Seq(E) /\ strongest \in Seq(E)
        /\ search \in Seq(E) /\ last \in Seq(E)
      BY <1>12
  <2>2. HoldsFive(E, first, rep, strongest, search, last)
      BY <2>1, JoinedFive, Zenon
  <2>3. QED
      BY <1>13, <2>2, Zenon DEF HoldsFive
<1>15. Len(steps) \in 1..5
  <2>1. /\ Len(first) \in 0..1 /\ Len(rep) \in 0..1 /\ Len(strongest) \in 0..1
        /\ Len(search) \in 0..1 /\ Len(last) = 1
      BY <1>6, <1>7, <1>10, <1>12
  <2>2. Len(steps) = Len(first) + Len(rep) + Len(strongest) + Len(search) + Len(last)
      BY <1>14
  <2>3. \A k, l, m, n \in 0..1 : k + l + m + n + 1 \in 1..5
      OBVIOUS
  <2>4. QED
      BY <2>1, <2>2, <2>3
<1>16. steps \in Seq(ToSet(steps)) /\ \A e \in ToSet(steps) : e.date \in Date
  <2>1. steps \in Seq(E)
      BY <1>14
  <2>2. DOMAIN steps = 1..Len(steps) /\ Len(steps) \in Nat /\ \A i \in 1..Len(steps) : steps[i] \in E
      BY <2>1, LenProperties, ElementOfSeq
  <2>3. \A i \in 1..Len(steps) : steps[i] \in ToSet(steps)
      BY <2>2 DEF ToSet
  <2>4. steps \in Seq(ToSet(steps))
    <3>1. steps \in [1..Len(steps) -> E]
        BY <2>1, LenProperties
    <3>2. steps \in [1..Len(steps) -> ToSet(steps)]
        BY <2>3, <3>1
    <3>3. QED
        BY <2>2, <3>2
  <2>5. QED
      BY <1>8, <2>2, <2>4 DEF ToSet
<1>17. EvidenceIn(ToSet(steps)) = EvidenceIn(C) \cup Evidence(search)
  <2>1. ToSet(last) = {u}
      BY <1>12
  <2>2. EvidenceIn(ToSet(steps)) =
            EvidenceIn(ToSet(first)) \cup EvidenceIn(ToSet(rep)) \cup EvidenceIn(ToSet(strongest))
                \cup EvidenceIn(ToSet(search)) \cup EvidenceIn(ToSet(last))
      BY <1>14
  <2>3. EvidenceIn({u}) = {} /\ EvidenceIn(ToSet(search)) = Evidence(search)
      BY <1>5, EvidenceAdds
  <2>4. EvidenceIn(ToSet(first)) \cup EvidenceIn(ToSet(rep)) \cup EvidenceIn(ToSet(strongest)) = EvidenceIn(C)
    <3>1. ToSet(first) \subseteq C /\ ToSet(strongest) \subseteq C
        BY <1>3, <1>10
    <3>2. /\ EvidenceIn(ToSet(first)) \subseteq EvidenceIn(C)
          /\ EvidenceIn(ToSet(strongest)) \subseteq EvidenceIn(C)
        BY <3>1, EvidenceAdds
    <3>3. CASE ~(Len(seen) < 2)
        BY <1>7, <3>2, <3>3
    <3>4. CASE Len(seen) < 2
      <4>1. rep = <<>> /\ EvidenceIn(ToSet(rep)) = {}
        <5>1. rep = <<>>
            BY <1>7, <3>4
        <5>2. ToSet(<<>>) = {}
            BY DEF ToSet
        <5>3. QED
            BY <5>1, <5>2, EvidenceAdds
      <4>2. ToSet(first) = C
        <5>1. Len(seen) \in Nat /\ DOMAIN seen = 1..Len(seen)
            BY <1>2, LenProperties
        <5>2. \A i \in 1..Len(seen) : i = 1
            BY <3>4, <5>1
        <5>3. C \subseteq {seen[1]}
            BY <1>2, <5>1, <5>2 DEF ToSet
        <5>4. QED
            BY <1>3, <1>10, <5>3
      <4>3. QED
          BY <3>2, <4>1, <4>2
    <3>5. QED
        BY <3>3, <3>4
  <2>5. QED
      BY <2>1, <2>2, <2>3, <2>4
<1>18. QED
    BY <1>1, <1>15, <1>16, <1>17 DEF C, search

\* A timeline holds its steps, the earliest first.
LEMMA TimelineOfSteps ==
    ASSUME memories \in Seq(Memory), exposures \in Seq(Exposure), searches \in Seq(Search),
           NEW thought \in Nat
    PROVE  LET timeline == TemporalInfluencePath(memories, exposures, searches, thought)
           IN /\ Len(timeline) \in 1..5 /\ DOMAIN timeline = 1..Len(timeline)
              /\ \A k, l \in 1..Len(timeline) : k < l => ~Earlier(timeline[l], timeline[k])
              /\ Evidence(timeline) =
                     EvidenceIn(Candidates(thought)) \cup Evidence(FirstSearch(thought))
<1> DEFINE steps == Steps(memories, exposures, searches, thought)
           timeline == TemporalInfluencePath(memories, exposures, searches, thought)
<1>1. /\ steps \in Seq(ToSet(steps)) /\ Len(steps) \in 1..5
      /\ \A e \in ToSet(steps) : e.date \in Date
      /\ EvidenceIn(ToSet(steps)) =
             EvidenceIn(Candidates(thought)) \cup Evidence(FirstSearch(thought))
    BY StepsOfATimeline
<1>2. timeline = ByDate(steps)
    BY DEF TemporalInfluencePath, ByDate
<1> HIDE DEF steps, timeline
<1>3. /\ timeline \in Seq(ToSet(steps)) /\ Len(timeline) = Len(steps) /\ ToSet(timeline) = ToSet(steps)
      /\ \A k, l \in 1..Len(steps) : k < l => ~Earlier(timeline[l], timeline[k])
    BY <1>1, <1>2, SortsByDate
<1>4. DOMAIN timeline = 1..Len(timeline)
    BY <1>3, LenProperties
<1>5. Evidence(timeline) = EvidenceIn(Candidates(thought)) \cup Evidence(FirstSearch(thought))
    BY <1>1, <1>3, EvidenceAdds
<1>6. QED
    BY <1>1, <1>3, <1>4, <1>5 DEF timeline

\* So the timeline is exact, whatever is stored and reported.
LEMMA TimelinesAreExact ==
    ASSUME memories \in Seq(Memory), exposures \in Seq(Exposure), searches \in Seq(Search)
    PROVE  TimelineIsExact
<1> SUFFICES ASSUME NEW thought \in Thought, Candidates(thought) # {}
             PROVE  LET seen == Seen(thought)
                        timeline == TemporalInfluencePath(memories, exposures, searches, thought)
                    IN /\ FirstExposure(seen) \in Candidates(thought)
                       /\ StrongestExposure(seen) \in
                              {e \in Candidates(thought) : \A f \in Candidates(thought) : ~Stronger(f, e)}
                       /\ \A e \in Candidates(thought) : ~Earlier(e, FirstExposure(seen))
                       /\ Evidence(timeline) =
                              Evidence(FirstOf(Sorted(UpTo(searches, thought), Earlier)))
                                  \cup UNION {e.evidence : e \in Candidates(thought)}
    BY DEF TimelineIsExact
<1>1. thought \in Nat
    BY OriginAssumption
<1>2. /\ FirstExposure(Seen(thought)) \in Candidates(thought)
      /\ \A e \in Candidates(thought) : ~Earlier(e, FirstExposure(Seen(thought)))
      /\ StrongestExposure(Seen(thought)) \in Candidates(thought)
      /\ \A e \in Candidates(thought) : ~Stronger(e, StrongestExposure(Seen(thought)))
    BY FirstIsFirst
<1>3. Evidence(TemporalInfluencePath(memories, exposures, searches, thought)) =
          EvidenceIn(Candidates(thought)) \cup Evidence(FirstSearch(thought))
    BY <1>1, TimelineOfSteps
<1>4. Evidence(TemporalInfluencePath(memories, exposures, searches, thought)) =
          Evidence(FirstOf(Sorted(UpTo(searches, thought), Earlier)))
              \cup UNION {e.evidence : e \in Candidates(thought)}
    BY <1>3 DEF EvidenceIn, FirstSearch
<1>5. QED
    BY <1>2, <1>4

-----------------------------------------------------------------------------
(* The influence paths.                                                    *)

\* The reported path is that of a memory; no schema memory with evidence is
\* stronger.
LEMMA ReportedPath ==
    ASSUME memories \in Seq(Memory), NEW p \in ToSet(InfluencePaths(memories, 1))
    PROVE  \E m \in ToSet(memories) :
               /\ m \in Memory /\ p = InfluencePath(m)
               /\ \A n \in ToSet(memories) : n.schema /\ PathEvidence(n) # {} => Confidence(n) <= Confidence(m)
<1> DEFINE I == {i \in DOMAIN memories : memories[i].schema /\ PathEvidence(memories[i]) # {}}
           schemas == Schemas(memories)
           list == [i \in DOMAIN schemas |-> InfluencePath(schemas[i])]
           paths == ByConfidence(list)
           P == {InfluencePath(m) : m \in Memory}
<1>1. I \in SUBSET (1..Len(memories)) /\ \A i \in I : memories[i] \in Memory
    BY LenProperties, ElementOfSeq
<1>2. schemas = Kept(memories, I)
    BY DEF Schemas
<1>3. \A n \in ToSet(memories) : n.schema /\ PathEvidence(n) # {} => \E i \in I : n = memories[i]
    BY DEF ToSet
<1>4. \A i \in I : memories[i] \in ToSet(memories)
    BY DEF ToSet
<1> HIDE DEF I, schemas
<1>5. schemas \in Seq(Memory) /\ ToSet(schemas) = {memories[i] : i \in I}
    BY <1>1, <1>2, KeptKeeps
<1>6. /\ Len(schemas) \in Nat /\ DOMAIN schemas = 1..Len(schemas)
      /\ \A k \in 1..Len(schemas) : schemas[k] \in Memory
    BY <1>5, LenProperties, ElementOfSeq
<1>7. /\ list \in Seq(P) /\ Len(list) = Len(schemas)
      /\ \A k \in 1..Len(schemas) : list[k] = InfluencePath(schemas[k])
  <2>1. \A k \in 1..Len(schemas) : list[k] = InfluencePath(schemas[k]) /\ list[k] \in P
      BY <1>6
  <2>2. list = [k \in 1..Len(schemas) |-> list[k]]
      BY <1>6
  <2> HIDE DEF list, P
  <2>3. list \in [1..Len(schemas) -> P]
      BY <2>1, <2>2
  <2>4. QED
      BY <1>6, <2>1, <2>3
<1>8. \A q \in P : q.confidence \in Int /\ q.memory \in Int
    BY OriginAssumption DEF InfluencePath, Confidence
<1>9. InfluencePaths(memories, 1) = SubSeq(paths, 1, IF Len(paths) < 1 THEN Len(paths) ELSE 1)
    BY DEF InfluencePaths, ByConfidence, schemas
<1> HIDE DEF list, P, paths
<1>10. /\ paths \in Seq(P) /\ Len(paths) = Len(schemas) /\ ToSet(paths) = ToSet(list)
       /\ \A k, l \in 1..Len(schemas) : k < l => ~SurerPath(paths[l], paths[k])
    BY <1>7, <1>8, SortsPaths DEF paths
<1>11. p = paths[1] /\ 1 \in 1..Len(paths)
  <2> DEFINE n == IF Len(paths) < 1 THEN Len(paths) ELSE 1
             cut == SubSeq(paths, 1, n)
  <2>1. n \in 0..1 /\ n <= Len(paths) /\ n \in Int
      BY <1>6, <1>10
  <2>2. InfluencePaths(memories, 1) = cut
      BY <1>9
  <2> HIDE DEF n
  <2>3. \A i \in 1..n : paths[i] \in P
      BY <1>6, <1>10, <2>1, ElementOfSeq
  <2>4. /\ cut \in Seq(P) /\ Len(cut) = (IF 1 <= n THEN n - 1 + 1 ELSE 0)
        /\ \A i \in 1..(n - 1 + 1) : cut[i] = paths[1 + i - 1]
      BY <2>1, <2>3, SubSeqProperties
  <2>5. Len(cut) = n /\ DOMAIN cut = 1..n
      BY <2>1, <2>4, LenProperties
  <2>6. PICK i \in 1..n : p = cut[i]
      BY <2>2, <2>5 DEF ToSet
  <2>7. n = 1 /\ i = 1
      BY <2>1, <2>6
  <2>8. cut[1] = paths[1]
      BY <2>4, <2>7
  <2>9. QED
      BY <1>6, <1>10, <2>1, <2>6, <2>7, <2>8
<1>12. DOMAIN paths = 1..Len(schemas) /\ DOMAIN list = 1..Len(schemas)
    BY <1>7, <1>10, LenProperties
<1>13. PICK k \in 1..Len(schemas) : p = InfluencePath(schemas[k])
  <2>1. paths[1] \in ToSet(list)
      BY <1>10, <1>11, <1>12 DEF ToSet
  <2>2. PICK k \in 1..Len(schemas) : paths[1] = list[k]
      BY <1>12, <2>1 DEF ToSet
  <2>3. QED
      BY <1>7, <1>11, <2>2
<1> DEFINE m == schemas[k]
<1>14. m \in Memory /\ m \in ToSet(memories) /\ p = InfluencePath(m)
  <2>1. schemas[k] \in ToSet(schemas)
      BY <1>6 DEF ToSet
  <2>2. QED
      BY <1>4, <1>5, <1>6, <1>13, <2>1
<1>15. ASSUME NEW n \in ToSet(memories), n.schema, PathEvidence(n) # {}
       PROVE  Confidence(n) <= Confidence(m)
  <2>1. n \in ToSet(schemas)
      BY <1>3, <1>5, <1>15
  <2>2. PICK l \in 1..Len(schemas) : n = schemas[l]
      BY <1>6, <2>1 DEF ToSet
  <2>3. n \in Memory /\ InfluencePath(n) \in ToSet(list)
      BY <1>6, <1>7, <1>12, <2>2 DEF ToSet
  <2>4. PICK j \in 1..Len(schemas) : paths[j] = InfluencePath(n)
      BY <1>10, <1>12, <2>3 DEF ToSet
  <2>5. Confidence(m) \in Int /\ Confidence(n) \in Int
      BY <1>14, <2>3, OriginAssumption DEF Confidence
  <2>6. CASE j = 1
    <3>1. InfluencePath(n) = InfluencePath(m)
        BY <1>11, <1>14, <2>4, <2>6
    <3>2. Confidence(n) = Confidence(m)
        BY <3>1 DEF InfluencePath
    <3>3. QED
        BY <2>5, <3>2
  <2>7. CASE j # 1
    <3>1. 1 < j /\ 1 \in 1..Len(schemas)
        BY <2>7
    <3>2. ~SurerPath(InfluencePath(n), InfluencePath(m))
        BY <1>10, <1>11, <1>14, <2>4, <3>1
    <3>3. ~(Confidence(n) > Confidence(m))
        BY <3>2 DEF SurerPath, InfluencePath
    <3>4. QED
        BY <2>5, <3>3
  <2>8. QED
      BY <2>6, <2>7
<1>16. QED
    BY <1>14, <1>15

\* So the paths cite the timeline.
LEMMA PathsCite ==
    ASSUME memories \in Seq(Memory), exposures \in Seq(Exposure), searches \in Seq(Search)
    PROVE  PathsCiteTheTimeline
<1> SUFFICES ASSUME NEW thought \in Thought, NEW p \in ToSet(InfluencePaths(memories, 1))
             PROVE  \E m \in ToSet(memories) :
                        /\ m.id = p.memory
                        /\ Dated(Normalized(m.seen)) /\ m.seen <= thought =>
                               p.evidence \ m.ids \subseteq
                                   Evidence(TemporalInfluencePath(memories, exposures, searches, thought))
                        /\ \A n \in ToSet(memories) :
                               n.schema /\ PathEvidence(n) # {} => Confidence(n) <= Confidence(m)
    BY DEF PathsCiteTheTimeline
<1>1. PICK m \in ToSet(memories) :
          /\ m \in Memory /\ p = InfluencePath(m)
          /\ \A n \in ToSet(memories) : n.schema /\ PathEvidence(n) # {} => Confidence(n) <= Confidence(m)
    BY ReportedPath
<1>2. m.id = p.memory /\ p.evidence \ m.ids \subseteq Packets(m)
  <2>1. m.id = p.memory /\ p.evidence = ToSet(m.packets) \cup m.ids
      BY <1>1 DEF InfluencePath, PathEvidence
  <2>2. ToSet(m.packets) \subseteq Packets(m)
    <3>1. CASE m.listed
        BY <3>1 DEF Packets
    <3>2. CASE ~m.listed
      <4>1. m.packets = <<>>
          BY <1>1, <3>2, OriginAssumption
      <4>2. QED
          BY <4>1 DEF ToSet
    <3>3. QED
        BY <3>1, <3>2
  <2>3. QED
      BY <2>1, <2>2
<1>3. thought \in Nat /\ m.seen \in Written
    BY <1>1, OriginAssumption
<1>4. ASSUME Dated(Normalized(m.seen)), m.seen <= thought
      PROVE  p.evidence \ m.ids \subseteq
                 Evidence(TemporalInfluencePath(memories, exposures, searches, thought))
  <2> DEFINE e == MemoryEvent(m)
  <2>1. e \in ToSet(EventsFromMemory(m))
      BY <1>1, EventsOfAMemory DEF EventsOf
  <2>2. e.date = m.seen /\ e.evidence = Packets(m)
      BY <1>3, <1>4, NormalDates DEF MemoryEvent, Event
  <2>3. m.seen # Missing /\ ParseTime(m.seen) = m.seen
      BY <1>3, <1>4, NormalDates DEF Dated, ParseTime
  <2> HIDE DEF e
  <2>4. e \in Candidates(thought)
      BY <1>4, <2>1, <2>2, <2>3 DEF Candidates
  <2>5. Packets(m) \subseteq EvidenceIn(Candidates(thought))
      BY <2>2, <2>4 DEF EvidenceIn
  <2>6. Evidence(TemporalInfluencePath(memories, exposures, searches, thought)) =
            EvidenceIn(Candidates(thought)) \cup Evidence(FirstSearch(thought))
      BY <1>3, TimelineOfSteps
  <2>7. QED
      BY <1>2, <2>5, <2>6
<1>5. QED
    BY <1>1, <1>2, <1>4

-----------------------------------------------------------------------------
(* Links and what is predated.                                             *)

\* The link of a source, and that of a packet.
SourceLink(m, i) ==
    [id |-> <<m.linked, m.sources[i].page>>, claim |-> m.id, date |-> LinkDate(m.sources[i])]

PacketLink(m, k) == [id |-> <<m.packets[k], 0, m.text>>, claim |-> m.id, date |-> Missing]

LinksOf(m) ==
    {SourceLink(m, i) : i \in DOMAIN m.sources} \cup {PacketLink(m, k) : k \in DOMAIN m.packets}

AllLinks == UNION {LinksOf(m) : m \in Memory}

\* Memories have ids of their own.
IdsApart(ms) == \A i, j \in DOMAIN ms : ms[i].id = ms[j].id => i = j

\* The links of a memory.
LEMMA LinksOfAMemory ==
    ASSUME NEW m \in Memory
    PROVE  LinksFromMemory(m) \in Seq(LinksOf(m)) /\ ToSet(LinksFromMemory(m)) = LinksOf(m)
<1> DEFINE n == Len(m.sources)
           ofSources == [i \in DOMAIN m.sources |-> SourceLink(m, i)]
           o == Len(m.packets)
           ofPackets == [k \in DOMAIN m.packets |-> PacketLink(m, k)]
<1>1. n \in Nat /\ DOMAIN m.sources = 1..n /\ o \in Nat /\ DOMAIN m.packets = 1..o
    BY OriginAssumption
<1>2. LinksFromMemory(m) = ofSources \o ofPackets
    BY DEF LinksFromMemory, SourceLink, PacketLink
<1>3. ofSources \in Seq(LinksOf(m)) /\ ToSet(ofSources) = {SourceLink(m, i) : i \in DOMAIN m.sources}
  <2>1. \A i \in DOMAIN m.sources : ofSources[i] = SourceLink(m, i) /\ SourceLink(m, i) \in LinksOf(m)
      BY DEF LinksOf
  <2>2. DOMAIN ofSources = DOMAIN m.sources /\ ofSources = [i \in 1..n |-> ofSources[i]]
      BY <1>1
  <2> HIDE DEF ofSources, n
  <2>3. ofSources \in [1..n -> LinksOf(m)]
      BY <1>1, <2>1, <2>2
  <2>4. ofSources \in Seq(LinksOf(m))
      BY <1>1, <2>3
  <2>5. QED
      BY <2>1, <2>2, <2>4 DEF ToSet
<1>4. ofPackets \in Seq(LinksOf(m)) /\ ToSet(ofPackets) = {PacketLink(m, k) : k \in DOMAIN m.packets}
  <2>1. \A k \in DOMAIN m.packets : ofPackets[k] = PacketLink(m, k) /\ PacketLink(m, k) \in LinksOf(m)
      BY DEF LinksOf
  <2>2. DOMAIN ofPackets = DOMAIN m.packets /\ ofPackets = [k \in 1..o |-> ofPackets[k]]
      BY <1>1
  <2> HIDE DEF ofPackets, o
  <2>3. ofPackets \in [1..o -> LinksOf(m)]
      BY <1>1, <2>1, <2>2
  <2>4. ofPackets \in Seq(LinksOf(m))
      BY <1>1, <2>3
  <2>5. QED
      BY <2>1, <2>2, <2>4 DEF ToSet
<1> HIDE DEF ofSources, ofPackets
<1>5. /\ ofSources \o ofPackets \in Seq(LinksOf(m))
      /\ ToSet(ofSources \o ofPackets) = ToSet(ofSources) \cup ToSet(ofPackets)
    BY <1>3, <1>4, Joined
<1>6. QED
    BY <1>2, <1>3, <1>4, <1>5 DEF LinksOf

\* The links of a store are of its memories, and have ids of their own.
LEMMA LinksOfAStore ==
    ASSUME NEW ms \in Seq(Memory)
    PROVE  LET links == CollectEvidenceLinks(ms)
           IN /\ links \in Seq(AllLinks)
              /\ \A l \in ToSet(links) : \E m \in ToSet(ms) : l \in LinksOf(m)
              /\ \A k, l \in ToSet(links) : k.id = l.id => k = l
<1> DEFINE lists == [i \in DOMAIN ms |-> LinksFromMemory(ms[i])]
           all == FlattenSeq(lists)
           I == {i \in DOMAIN all : Readable(all[i].date)}
           valid == Kept(all, I)
           J == {i \in DOMAIN valid : \A j \in DOMAIN valid : valid[j].id = valid[i].id => i <= j}
           links == Kept(valid, J)
           n == Len(ms)
<1>1. n \in Nat /\ DOMAIN ms = 1..n /\ \A i \in 1..n : ms[i] \in Memory
    BY LenProperties, ElementOfSeq
<1>2. \A m \in Memory : LinksOf(m) \subseteq AllLinks
    BY DEF AllLinks
<1>3. \A m \in Memory : LinksFromMemory(m) \in Seq(AllLinks) /\ ToSet(LinksFromMemory(m)) = LinksOf(m)
    BY <1>2, LinksOfAMemory, SeqMonotonic
<1>4. \A i \in 1..n : lists[i] = LinksFromMemory(ms[i])
    BY <1>1
<1>5. lists \in [1..n -> Seq(AllLinks)]
    BY <1>1, <1>3
<1>6. CollectEvidenceLinks(ms) = links
    BY DEF CollectEvidenceLinks
<1> HIDE DEF lists
<1>7. lists \in Seq(Seq(AllLinks)) /\ Len(lists) = n
    BY <1>1, <1>5
<1>8. all \in Seq(AllLinks) /\ ToSet(all) = UNION {ToSet(lists[i]) : i \in 1..n}
    BY <1>7, Flattened
<1> HIDE DEF all, n
<1>9. I \in SUBSET (1..Len(all))
    BY <1>8, LenProperties
<1>10. \A i \in I : all[i] \in ToSet(all)
    BY DEF ToSet
<1> HIDE DEF I
<1>11. valid \in Seq(AllLinks) /\ ToSet(valid) = {all[i] : i \in I}
    BY <1>8, <1>9, KeptKeeps
<1> HIDE DEF valid
<1>12. J \in SUBSET (1..Len(valid)) /\ \A i, j \in J : valid[j].id = valid[i].id => i <= j
    BY <1>11, LenProperties
<1>13. \A i \in J : valid[i] \in ToSet(valid)
    BY DEF ToSet
<1> HIDE DEF J
<1>14. links \in Seq(AllLinks) /\ ToSet(links) = {valid[i] : i \in J}
    BY <1>11, <1>12, KeptKeeps
<1> HIDE DEF links
<1>15. ASSUME NEW l \in ToSet(links) PROVE \E m \in ToSet(ms) : l \in LinksOf(m)
  <2>1. l \in ToSet(all)
      BY <1>10, <1>11, <1>13, <1>14, <1>15
  <2>2. PICK i \in 1..n : l \in ToSet(lists[i])
      BY <1>8, <2>1
  <2>3. l \in LinksOf(ms[i]) /\ ms[i] \in ToSet(ms)
      BY <1>1, <1>3, <1>4, <2>2 DEF ToSet
  <2>4. QED
      BY <2>3
<1>16. ASSUME NEW k \in ToSet(links), NEW l \in ToSet(links), k.id = l.id PROVE k = l
  <2>1. PICK i \in J : k = valid[i]
      BY <1>14
  <2>2. PICK j \in J : l = valid[j]
      BY <1>14
  <2>3. i <= j /\ j <= i /\ i \in Int /\ j \in Int
    <3>1. valid[j].id = valid[i].id /\ valid[i].id = valid[j].id
        BY <1>16, <2>1, <2>2
    <3>2. i <= j /\ j <= i
        BY <1>12, <3>1
    <3>3. QED
        BY <1>11, <1>12, <3>2
  <2>4. i = j
      BY <2>3
  <2>5. QED
      BY <2>1, <2>2, <2>4
<1>17. QED
    BY <1>6, <1>14, <1>15, <1>16

\* The links of a memory that have dates.
DatedLinks(m) == {l \in ToSet(Links) : l.claim = m.id /\ Dated(l.date)}

\* A date that can be read is a number.
LEMMA DatedSourcesHaveDates ==
    ASSUME NEW m \in Memory, NEW i \in DatedSources(m)
    PROVE  /\ i \in DOMAIN m.sources /\ i \in Nat \ {0} /\ m.sources[i].at \in Nat \ {0}
           /\ m.sources[i].at # Missing /\ ParseTime(m.sources[i].at) = m.sources[i].at
           /\ Normalized(m.sources[i].at) = m.sources[i].at
<1>1. /\ i \in DOMAIN m.sources /\ m.sources[i].at \in Date /\ Dated(m.sources[i].at)
      /\ Normalized(m.sources[i].at) = m.sources[i].at
  <2>1. /\ i \in DOMAIN m.sources /\ m.sources[i].at \in Written
        /\ Dated(Normalized(m.sources[i].at))
      BY OriginAssumption DEF DatedSources
  <2>2. QED
      BY <2>1, NormalDates
<1>2. DOMAIN m.sources = 1..Len(m.sources) /\ Len(m.sources) \in Nat
    BY OriginAssumption
<1>3. i \in Nat \ {0}
    BY <1>1, <1>2
<1>4. QED
    BY <1>1, <1>3 DEF Dated, ParseTime, Date, Missing, Unreadable

\* If there are as many links with dates as there are sources that give links
\* a date, they are the links of these sources.
LEMMA DatedLinksAreOfSources ==
    ASSUME memories \in Seq(Memory), IdsApart(memories), NEW m \in ToSet(memories),
           OneDateEach(m), LinkedEach(m)
    PROVE  DatedLinks(m) = {SourceLink(m, i) : i \in DatedSources(m)}
<1> DEFINE dated == DatedSources(m)
           L == DatedLinks(m)
           S == {SourceLink(m, i) : i \in dated}
           f == [i \in dated |-> SourceLink(m, i)]
<1>1. DOMAIN memories = 1..Len(memories) /\ \A i \in DOMAIN memories : memories[i] \in Memory
    BY LenProperties, ElementOfSeq
<1>2. \A n \in ToSet(memories) : n \in Memory
    BY <1>1 DEF ToSet
<1>3. ASSUME NEW n \in ToSet(memories), n.id = m.id PROVE n = m
    BY <1>3 DEF ToSet, IdsApart
<1>4. /\ \A l \in ToSet(Links) : \E n \in ToSet(memories) : l \in LinksOf(n)
      /\ \A k, l \in ToSet(Links) : k.id = l.id => k = l
    BY LinksOfAStore DEF Links
<1>5. \A n \in Memory : \A l \in LinksOf(n) :
          l.claim = n.id /\ (l.date = Missing \/ \E i \in DOMAIN n.sources : l = SourceLink(n, i))
    BY DEF LinksOf, SourceLink, PacketLink
<1>6. ASSUME NEW l \in L PROVE l \in S
  <2>1. l \in ToSet(Links) /\ l.claim = m.id /\ Dated(l.date)
      BY <1>6 DEF DatedLinks
  <2>4. PICK n \in ToSet(memories) : l \in LinksOf(n)
      BY <1>4, <2>1
  <2>5. n = m /\ l \in LinksOf(m)
      BY <1>2, <1>3, <1>5, <2>1, <2>4
  <2>6. l.date # Missing
      BY <2>1 DEF Dated, ParseTime
  <2>7. PICK i \in DOMAIN m.sources : l = SourceLink(m, i)
      BY <1>2, <1>5, <2>5, <2>6
  <2>8. i \in dated
      BY <2>1, <2>7 DEF DatedSources, SourceLink, OneDateEach
  <2>9. QED
      BY <2>7, <2>8
<1>7. IsFiniteSet(dated)
  <2>1. Len(m.sources) \in Int /\ 1 \in Int /\ DOMAIN m.sources = 1..Len(m.sources)
      BY <1>2, OriginAssumption
  <2>2. IsFiniteSet(1..Len(m.sources))
      BY <2>1, FS_Interval
  <2>3. dated \in SUBSET (1..Len(m.sources))
      BY <2>1 DEF DatedSources
  <2>4. QED
      BY <2>2, <2>3, FS_Subset
<1>8. f \in Surjection(dated, S)
  <2>1. f \in [dated -> S] /\ \A t \in S : \E i \in dated : f[i] = t
      OBVIOUS
  <2> HIDE DEF f, S, dated
  <2>2. QED
      BY <2>1 DEF Surjection
<1>9. Cardinality(dated) = Cardinality(L)
  <2>1. dated = {i \in DOMAIN m.sources : Dated(LinkDate(m.sources[i]))}
      BY DEF OneDateEach, DatedSources
  <2>2. QED
      BY <2>1 DEF LinkedEach, DatedLinks
<1> HIDE DEF dated, L, S, f
<1>10. IsFiniteSet(S) /\ Cardinality(S) <= Cardinality(dated)
    BY <1>7, <1>8, FS_Surjection
<1>11. L \in SUBSET S
    BY <1>6
<1>12. Cardinality(L) <= Cardinality(S) /\ (Cardinality(S) = Cardinality(L) => S = L)
    BY <1>10, <1>11, FS_Subset
<1>13. Cardinality(S) \in Nat /\ Cardinality(L) \in Nat
    BY <1>10, <1>11, FS_CardinalityType, FS_Subset
<1>14. Cardinality(S) = Cardinality(L)
    BY <1>9, <1>10, <1>12, <1>13
<1>15. QED
    BY <1>12, <1>14 DEF L, S, dated

\* Then the claim is predated if all these dates are after the thought.
LEMMA PredatedBySources ==
    ASSUME memories \in Seq(Memory), NEW m \in Memory, NEW c, NEW thought \in Nat \ {Unreadable},
           c.evidence = LinkIds(m), OneDateEach(m), DatedLinks(m) = {SourceLink(m, i) : i \in DatedSources(m)}
    PROVE  Predates(thought, c, Links) <=>
               DatedSources(m) # {} /\ \A i \in DatedSources(m) : m.sources[i].at > thought
<1> DEFINE dated == DatedSources(m)
           at(i) == m.sources[i].at
           times == {ParseTime(l.date) : l \in {k \in ToSet(Links) : k.id \in c.evidence}} \ {Unreadable}
<1>1. \A i \in dated : /\ at(i) \in Nat \ {0} /\ ParseTime(at(i)) = at(i)
                       /\ SourceLink(m, i).date = at(i)
    BY DatedSourcesHaveDates DEF SourceLink, OneDateEach
<1>2. ASSUME NEW t \in times PROVE \E i \in dated : t = at(i)
  <2>1. PICK l \in ToSet(Links) : l.id \in c.evidence /\ t = ParseTime(l.date) /\ t # Unreadable
      BY <1>2
  <2>2. l \in DatedLinks(m)
    <3>1. PICK k \in ToSet(Links) : k.claim = m.id /\ k.id = l.id
        BY <2>1 DEF LinkIds
    <3>2. k = l
        BY <2>1, <3>1, LinksOfAStore DEF Links
    <3>3. QED
        BY <2>1, <3>1, <3>2 DEF DatedLinks, Dated
  <2>3. PICK i \in dated : l = SourceLink(m, i)
      BY <2>2
  <2>4. t = at(i)
      BY <1>1, <2>1, <2>3
  <2>5. QED
      BY <2>4
<1>3. ASSUME NEW i \in dated PROVE at(i) \in times
  <2> DEFINE l == SourceLink(m, i)
  <2>1. l \in DatedLinks(m) /\ l.date = at(i)
      BY <1>1
  <2> HIDE DEF l
  <2>2. l \in ToSet(Links) /\ l.id \in c.evidence
      BY <2>1 DEF DatedLinks, LinkIds
  <2>3. ParseTime(l.date) = at(i) /\ at(i) # Unreadable
      BY <1>1, <2>1 DEF Unreadable
  <2>4. QED
      BY <2>2, <2>3
<1>4. FirstEvidenceTime(c, Links) = IF times = {} THEN Unreadable ELSE Min(times)
    BY DEF FirstEvidenceTime
<1> HIDE DEF times
<1>5. times \in SUBSET Nat
    BY <1>1, <1>2
<1>6. CASE times = {}
  <2>1. dated = {}
      BY <1>3, <1>6
  <2>2. ~(FirstEvidenceTime(c, Links) > thought)
      BY <1>4, <1>6 DEF Unreadable
  <2>3. QED
      BY <2>1, <2>2 DEF Predates
<1>7. CASE times # {}
  <2> DEFINE min == Min(times)
  <2>1. \E x \in times : \A y \in times : x <= y
      BY <1>5, <1>7, LeastNat
  <2>2. min \in times /\ \A y \in times : min <= y
      BY <2>1 DEF Min
  <2> HIDE DEF min
  <2>3. FirstEvidenceTime(c, Links) = min
      BY <1>4, <1>7 DEF min
  <2>4. min \in Nat
      BY <1>5, <2>2
  <2>5. dated # {}
      BY <1>2, <2>2
  <2>6. ASSUME min > thought, NEW i \in dated PROVE at(i) > thought
    <3>1. min <= at(i) /\ at(i) \in Nat
        BY <1>1, <1>3, <2>2
    <3>2. QED
        BY <2>4, <2>6, <3>1
  <2>7. ASSUME \A i \in dated : at(i) > thought PROVE min > thought
      BY <1>2, <2>2, <2>7
  <2>8. thought # Unreadable
      OBVIOUS
  <2>9. QED
      BY <2>3, <2>5, <2>6, <2>7, <2>8 DEF Predates
<1>8. QED
    BY <1>6, <1>7

\* The timeline shows a source with a date if it is not after the thought.
LEMMA ShownSources ==
    ASSUME memories \in Seq(Memory), IdsApart(memories), exposures \in Seq(Exposure),
           NEW thought \in Nat \ {Unreadable}, NEW m \in ToSet(memories), m \in Memory,
           NEW i \in DatedSources(m)
    PROVE  <<m.id, i>> \in {e.of : e \in ToSet(Seen(thought))} <=> m.sources[i].at <= thought
<1> DEFINE e == SourceEvent(m, i)
<1>1. ToSet(Seen(thought)) = Candidates(thought)
    BY SeenAreCandidates
<1>2. /\ i \in DOMAIN m.sources /\ i \in Nat \ {0} /\ m.sources[i].at \in Nat \ {0}
      /\ m.sources[i].at # Missing /\ ParseTime(m.sources[i].at) = m.sources[i].at
      /\ Normalized(m.sources[i].at) = m.sources[i].at
    BY DatedSourcesHaveDates
<1>3. e.of = <<m.id, i>> /\ e.date = m.sources[i].at
    BY <1>2 DEF SourceEvent, Event, Given
<1>4. \A n \in ToSet(memories) : n \in Memory
    BY LenProperties, ElementOfSeq DEF ToSet
<1>5. e \in ToSet(EventsFromMemory(m))
    BY <1>2, EventsOfAMemory DEF EventsOf
<1>6. ASSUME NEW f \in Candidates(thought), f.of = <<m.id, i>> PROVE f = e
  <2>1. f \in ToSet(exposures) \/ \E n \in ToSet(memories) : f \in ToSet(EventsFromMemory(n))
      BY DEF Candidates
  <2>2. CASE f \in ToSet(exposures)
    <3>1. f \in Exposure
        BY <2>2, LenProperties, ElementOfSeq DEF ToSet
    <3>2. QED
        BY <1>2, <1>6, <3>1, OriginAssumption
  <2>3. ASSUME NEW n \in ToSet(memories), f \in ToSet(EventsFromMemory(n)) PROVE f = e
    <3>1. f \in EventsOf(n)
        BY <1>4, <2>3, EventsOfAMemory
    <3>2. PICK j \in Nat : f.of = <<n.id, j>> /\ (j = 0 \/ f = SourceEvent(n, j))
      <4>1. n \in Memory
          BY <1>4
      <4>2. DOMAIN n.sources = 1..Len(n.sources) /\ Len(n.sources) \in Nat
          BY <4>1, OriginAssumption
      <4>3. CASE f = MemoryEvent(n)
          BY <4>3 DEF MemoryEvent, Event
      <4>4. ASSUME NEW j \in DOMAIN n.sources, f = SourceEvent(n, j)
            PROVE  j \in Nat /\ f.of = <<n.id, j>>
          BY <4>2, <4>4 DEF SourceEvent, Event
      <4>5. QED
          BY <3>1, <4>3, <4>4 DEF EventsOf
    <3>3. n.id = m.id /\ j = i
        BY <1>6, <3>2
    <3>4. n = m
        BY <3>3 DEF IdsApart, ToSet
    <3>5. QED
        BY <1>2, <3>2, <3>3, <3>4
  <2>4. QED
      BY <2>1, <2>2, <2>3
<1> HIDE DEF e
<1>7. e \in Candidates(thought) <=> m.sources[i].at <= thought
    BY <1>2, <1>3, <1>5 DEF Candidates
<1>8. QED
    BY <1>1, <1>3, <1>6, <1>7

\* So the three modules agree on what came after a thought.
LEMMA PredatingAgrees ==
    ASSUME memories \in Seq(Memory), IdsApart(memories), exposures \in Seq(Exposure)
    PROVE  PredatingIsAgreed
<1> SUFFICES ASSUME NEW thought \in Thought \ {Unreadable},
                    NEW c \in ToSet(claims), NEW m \in ToSet(memories), c.evidence = LinkIds(m),
                    OneDateEach(m), LinkedEach(m)
             PROVE  Agree(thought, c, m)
    BY DEF PredatingIsAgreed
<1> DEFINE dated == DatedSources(m)
           shown == {e.of : e \in ToSet(Seen(thought))}
<1>1. thought \in Nat \ {Unreadable}
    BY OriginAssumption
<1>2. m \in Memory
    BY LenProperties, ElementOfSeq DEF ToSet
<1>3. DatedLinks(m) = {SourceLink(m, i) : i \in DatedSources(m)}
    BY DatedLinksAreOfSources
<1>4. Predates(thought, c, Links) <=> dated # {} /\ \A i \in dated : m.sources[i].at > thought
    BY <1>1, <1>2, <1>3, PredatedBySources
<1>5. \A i \in dated : <<m.id, i>> \in shown <=> m.sources[i].at <= thought
    BY <1>1, <1>2, ShownSources
<1>6. \A i \in dated : i \in DOMAIN m.sources /\ m.sources[i].at \in Nat
    BY <1>2, DatedSourcesHaveDates
<1> HIDE DEF shown
<1>7. Predates(thought, c, Links) <=> dated # {} /\ \A i \in dated : <<m.id, i>> \notin shown
  <2>1. \A i \in dated : m.sources[i].at > thought <=> <<m.id, i>> \notin shown
      BY <1>1, <1>5, <1>6
  <2> HIDE DEF dated
  <2>2. QED
      BY <1>4, <2>1
<1>8. ASSUME 1 \in dated, Predates(thought, c, Links) PROVE ExposureAfterThought(m, thought)
  <2>1. m.sources[1].at > thought
      BY <1>4, <1>8
  <2>2. 1 \in DOMAIN m.sources /\ Dated(Normalized(m.sources[1].at))
      BY <1>8 DEF DatedSources
  <2>3. m.sources # <<>>
      BY <2>2
  <2>4. CandidateDate(m) = m.sources[1].at
      BY <1>2, <1>8, <2>3, DatedSourcesHaveDates DEF CandidateDate, Given, OneDateEach
  <2>5. Dated(CandidateDate(m))
      BY <1>2, <1>8, <2>2, <2>4, DatedSourcesHaveDates
  <2>6. QED
      BY <1>1, <2>1, <2>4, <2>5 DEF ExposureAfterThought
<1>9. ASSUME Len(m.sources) = 1, ExposureAfterThought(m, thought) PROVE Predates(thought, c, Links)
  <2>1. DOMAIN m.sources = 1..1
      BY <1>2, <1>9, OriginAssumption
  <2>2. Dated(Normalized(m.sources[1].at)) /\ m.sources[1].at > thought
    <3>1. m.sources # <<>> /\ m.at = Missing /\ m.sources[1].at \in Written
        BY <1>2, <1>9, <2>1, OriginAssumption DEF OneDateEach
    <3>2. CandidateDate(m) = Normalized(m.sources[1].at)
        BY <3>1 DEF CandidateDate, Given
    <3>3. QED
        BY <1>9, <3>1, <3>2, NormalDates DEF ExposureAfterThought
  <2>3. \A i : i \in DOMAIN m.sources <=> i = 1
      BY <2>1
  <2>4. dated = {1}
      BY <2>2, <2>3 DEF DatedSources
  <2>5. QED
      BY <1>4, <2>2, <2>4
<1>10. QED
    BY <1>7, <1>8, <1>9 DEF shown, Agree

-----------------------------------------------------------------------------
(* The competing origins.                                                  *)

\* The ids of all links.
AnyLinkId == {l.id : l \in AllLinks}

\* What a claim can name.
Citation == SUBSET (NamedEvidence \cup AnyLinkId)

\* What can contradict claims.
Contradiction ==
    [type : {"thought_predates_exposure", "stronger_competing_source"}, claim : Int, by : Int]

\* A claim as it is made.
AsMade == [id : Int, confidence : Int, evidence : SUBSET NamedEvidence, contradicted : {{}}]

\* It, with the evidence that it has gained and what was found against it.
With(c, v, x) == [c EXCEPT !.evidence = v, !.contradicted = x]

Answer == {With(c, v, x) : c \in Claimed, v \in Citation, x \in SUBSET Contradiction}

\* It has an id and a confidence.
LEMMA AnswersAreClaims ==
    \A a \in Answer : a.id \in Int /\ a.confidence \in Int
<1> SUFFICES ASSUME NEW c \in Claimed, NEW v, NEW x, NEW a, a = With(c, v, x)
             PROVE  a.id \in Int /\ a.confidence \in Int
    BY DEF Answer
<1>1. c \in AsMade
    BY OriginAssumption DEF AsMade
<1>2. QED
    BY <1>1 DEF With, AsMade

\* To attach evidence leaves a claim what it was.
LEMMA AttachedAnswers ==
    ASSUME NEW a, NEW links \in Seq(AllLinks),
           a \in Claimed \/ a \in Answer
    PROVE  AttachEvidence(a, links) \in Answer
<1> DEFINE I == {i \in DOMAIN links : links[i].claim = a.id}
           found == LinksForClaim(a.id, links)
           new == {l.id : l \in ToSet(found)}
<1>1. new \in SUBSET AnyLinkId
  <2>1. I \in SUBSET (1..Len(links))
      BY LenProperties
  <2>2. found = Kept(links, I)
      BY DEF LinksForClaim
  <2> HIDE DEF I, found
  <2>3. found \in Seq(AllLinks)
      BY <2>1, <2>2, KeptKeeps
  <2>4. \A l \in ToSet(found) : l \in AllLinks
      BY <2>3, LenProperties, ElementOfSeq DEF ToSet
  <2>5. QED
      BY <2>4 DEF AnyLinkId
<1>2. AttachEvidence(a, links) = [a EXCEPT !.evidence = @ \cup new]
    BY DEF AttachEvidence
<1> HIDE DEF new
<1>3. \E c \in Claimed, v \in Citation, x \in SUBSET Contradiction : a = With(c, v, x)
  <2>1. CASE a \in Claimed
    <3>1. a \in AsMade
        BY <2>1, OriginAssumption DEF AsMade
    <3>2. a = With(a, a.evidence, {}) /\ a.evidence \in Citation /\ {} \in SUBSET Contradiction
        BY <3>1 DEF With, Citation, AsMade
    <3>3. QED
        BY <2>1, <3>2
  <2>2. CASE a \in Answer
      BY <2>2 DEF Answer
  <2>3. QED
      BY <2>1, <2>2
<1>4. PICK c \in Claimed, v \in Citation, x \in SUBSET Contradiction : a = With(c, v, x)
    BY <1>3
<1>5. c \in AsMade
    BY OriginAssumption DEF AsMade
<1>6. [a EXCEPT !.evidence = @ \cup new] = With(c, v \cup new, x)
    BY <1>4, <1>5 DEF With, AsMade
<1>7. v \cup new \in Citation
    BY <1>1, <1>4 DEF Citation
<1> DEFINE w == v \cup new
<1>8. w \in Citation /\ AttachEvidence(a, links) = With(c, w, x)
    BY <1>2, <1>6, <1>7
<1> HIDE DEF w
<1>9. QED
    BY <1>4, <1>8 DEF Answer

\* Ranking leaves the claims what they were.
LEMMA RankedClaims ==
    ASSUME NEW cs \in Seq(Answer)
    PROVE  Ranked(cs) \in Seq(Answer) /\ (cs # <<>> => Head(Ranked(cs)) \in Answer)
<1> DEFINE r == Ranked(cs)
<1>1. \A a \in Answer : a.confidence \in Int
    BY AnswersAreClaims
<1>2. r \in Seq(Answer) /\ Len(r) = Len(cs)
    BY <1>1, SortsByRank
<1> HIDE DEF r
<1>3. cs # <<>> => Head(r) \in Answer
    BY <1>2, Heads
<1>4. QED
    BY <1>2, <1>3 DEF r

\* So do the contradictions that are noted.
LEMMA RankedAnswers ==
    ASSUME NEW cs \in Seq(Answer), NEW thought, NEW links
    PROVE  OriginSet(thought, cs, links).claims \in Seq(Answer)
<1> DEFINE r == Ranked(cs)
           found == Contradictions(thought, r, links)
           noted == [i \in DOMAIN r |-> Contradicted(r[i], found)]
           n == Len(r)
<1>1. r \in Seq(Answer)
    BY RankedClaims
<1> HIDE DEF r
<1>2. n \in Nat /\ DOMAIN r = 1..n /\ \A i \in 1..n : r[i] \in Answer
    BY <1>1, LenProperties, ElementOfSeq
<1>3. found \in SUBSET Contradiction
  <2>1. \A a \in ToSet(r) : a.id \in Int
      BY <1>2, AnswersAreClaims DEF ToSet
  <2>2. ASSUME NEW x \in found PROVE x \in Contradiction
    <3>1. CASE \E c \in ToSet(r) : x = [type |-> "thought_predates_exposure", claim |-> c.id, by |-> c.id]
        BY <2>1, <3>1 DEF Contradiction
    <3>2. CASE \E c \in ToSet(r) : x = [type |-> "stronger_competing_source", claim |-> c.id,
                                        by |-> Head(Ranked(r)).id]
      <4>1. r # <<>>
          BY <3>2 DEF ToSet
      <4>2. Head(Ranked(r)).id \in Int
          BY <1>1, <4>1, RankedClaims, AnswersAreClaims
      <4>3. QED
          BY <2>1, <3>2, <4>2 DEF Contradiction
    <3>3. QED
        BY <3>1, <3>2 DEF Contradictions
  <2>3. QED
      BY <2>2
<1> HIDE DEF found
<1>4. ASSUME NEW i \in 1..n PROVE noted[i] \in Answer
  <2>1. noted[i] = Contradicted(r[i], found) /\ r[i] \in Answer
      BY <1>2
  <2>2. PICK c \in Claimed, v \in Citation, x \in SUBSET Contradiction : r[i] = With(c, v, x)
      BY <2>1 DEF Answer
  <2>3. c \in AsMade
      BY OriginAssumption DEF AsMade
  <2> DEFINE y == {z \in found : z.claim = r[i].id}
             w == x \cup y
  <2>4. w \in SUBSET Contradiction
      BY <1>3
  <2>5. Contradicted(r[i], found) = [r[i] EXCEPT !.contradicted = @ \cup y]
      BY DEF Contradicted
  <2> HIDE DEF y
  <2>6. [r[i] EXCEPT !.contradicted = @ \cup y] = With(c, v, w)
      BY <2>2, <2>3 DEF With, AsMade
  <2>7. noted[i] = With(c, v, w)
      BY <2>1, <2>5, <2>6
  <2> HIDE DEF noted, w
  <2>8. QED
      BY <2>4, <2>7 DEF Answer
<1>5. noted = [i \in 1..n |-> noted[i]]
    BY <1>2
<1>6. OriginSet(thought, cs, links).claims = noted
    BY DEF OriginSet, r, found
<1> HIDE DEF noted, n
<1>7. noted \in [1..n -> Answer]
    BY <1>4, <1>5
<1>8. QED
    BY <1>2, <1>6, <1>7

-----------------------------------------------------------------------------
(* The inductive invariant.                                                *)

\* Memories have ids of their own, and a claim is one of those made, with the
\* evidence it has gained and the contradictions it keeps.
OriginInvariant ==
    /\ memories \in Seq(Memory) /\ exposures \in Seq(Exposure) /\ searches \in Seq(Search)
    /\ IdsApart(memories)
    /\ claims \in Seq(Answer)

\* A memory with a new id keeps the ids apart.
LEMMA AppendKeepsApart ==
    ASSUME NEW ms \in Seq(Memory), IdsApart(ms), NEW m \in Memory,
           \A i \in DOMAIN ms : ms[i].id # m.id
    PROVE  Append(ms, m) \in Seq(Memory) /\ IdsApart(Append(ms, m))
<1> DEFINE n == Len(ms)
           new == Append(ms, m)
<1>1. n \in Nat /\ DOMAIN ms = 1..n
    BY LenProperties
<1>2. new \in Seq(Memory) /\ Len(new) = n + 1 /\ new[n + 1] = m /\ \A i \in 1..n : new[i] = ms[i]
    BY AppendProperties
<1>3. DOMAIN new = 1..(n + 1)
    BY <1>2, LenProperties
<1> HIDE DEF n, new
<1>4. ASSUME NEW i \in DOMAIN new, NEW j \in DOMAIN new, new[i].id = new[j].id PROVE i = j
  <2>1. (i \in 1..n \/ i = n + 1) /\ (j \in 1..n \/ j = n + 1)
      BY <1>1, <1>3
  <2>2. CASE i \in 1..n /\ j \in 1..n
      BY <1>1, <1>2, <1>4, <2>2 DEF IdsApart
  <2>3. CASE i = n + 1 /\ j \in 1..n
      BY <1>1, <1>2, <1>4, <2>3
  <2>4. CASE i \in 1..n /\ j = n + 1
      BY <1>1, <1>2, <1>4, <2>4
  <2>5. CASE i = n + 1 /\ j = n + 1
      BY <2>5
  <2>6. QED
      BY <2>1, <2>2, <2>3, <2>4, <2>5
<1>5. QED
    BY <1>2, <1>4 DEF IdsApart, new

\* What is left of a list of claims when one is removed.
LEMMA RemovedClaims ==
    ASSUME NEW cs \in Seq(Answer), NEW k \in DOMAIN cs
    PROVE  RemoveAt(cs, k) \in Seq(Answer)
<1> DEFINE n == Len(cs)
           before == SubSeq(cs, 1, k - 1)
           after == SubSeq(cs, k + 1, n)
<1>1. n \in Nat /\ DOMAIN cs = 1..n /\ \A i \in 1..n : cs[i] \in Answer
    BY LenProperties, ElementOfSeq
<1>2. k \in 1..n /\ 1 \in Int /\ k - 1 \in Int /\ k + 1 \in Int /\ n \in Int
    BY <1>1
<1>3. RemoveAt(cs, k) = before \o after
    BY DEF RemoveAt
<1> HIDE DEF n
<1>4. before \in Seq(Answer)
  <2>1. \A i \in 1..(k - 1) : cs[i] \in Answer
      BY <1>1, <1>2
  <2>2. QED
      BY <1>2, <2>1, SubSeqProperties
<1>5. after \in Seq(Answer)
  <2>1. \A i \in (k + 1)..n : cs[i] \in Answer
      BY <1>1, <1>2
  <2>2. QED
      BY <1>2, <2>1, SubSeqProperties
<1> HIDE DEF before, after
<1>6. before \o after \in Seq(Answer)
    BY <1>4, <1>5, ConcatProperties
<1>7. QED
    BY <1>3, <1>6

\* A memory that is removed leaves the ids of the others apart.
LEMMA RemoveKeepsApart ==
    ASSUME NEW ms \in Seq(Memory), IdsApart(ms), NEW k \in DOMAIN ms
    PROVE  RemoveAt(ms, k) \in Seq(Memory) /\ IdsApart(RemoveAt(ms, k))
<1> DEFINE n == Len(ms)
           before == SubSeq(ms, 1, k - 1)
           after == SubSeq(ms, k + 1, n)
           new == before \o after
           old(i) == IF i < k THEN i ELSE i + 1
<1>1. n \in Nat /\ DOMAIN ms = 1..n /\ \A i \in 1..n : ms[i] \in Memory
    BY LenProperties, ElementOfSeq
<1>2. k \in 1..n /\ 1 \in Int /\ k - 1 \in Int /\ k + 1 \in Int /\ n \in Int
    BY <1>1
<1>3. RemoveAt(ms, k) = new
    BY DEF RemoveAt
<1> HIDE DEF n
<1>4. /\ before \in Seq(Memory) /\ Len(before) = (IF 1 <= k - 1 THEN k - 1 - 1 + 1 ELSE 0)
      /\ \A i \in 1..(k - 1 - 1 + 1) : before[i] = ms[1 + i - 1]
  <2>1. \A i \in 1..(k - 1) : ms[i] \in Memory
      BY <1>1, <1>2
  <2>2. QED
      BY <1>2, <2>1, SubSeqProperties
<1>5. /\ after \in Seq(Memory) /\ Len(after) = (IF k + 1 <= n THEN n - (k + 1) + 1 ELSE 0)
      /\ \A i \in 1..(n - (k + 1) + 1) : after[i] = ms[(k + 1) + i - 1]
  <2>1. \A i \in (k + 1)..n : ms[i] \in Memory
      BY <1>1, <1>2
  <2>2. QED
      BY <1>2, <2>1, SubSeqProperties
<1> HIDE DEF before, after
<1>6. Len(before) = k - 1 /\ \A i \in 1..(k - 1) : before[i] = ms[i]
  <2>1. Len(before) = k - 1 /\ \A i \in 1..(k - 1) : 1 + i - 1 = i /\ i \in 1..(k - 1 - 1 + 1)
      BY <1>2, <1>4
  <2>2. QED
      BY <1>4, <2>1
<1>7. Len(after) = n - k /\ \A i \in 1..(n - k) : after[i] = ms[k + i]
  <2>1. Len(after) = n - k
      BY <1>1, <1>2, <1>5
  <2>2. \A i \in 1..(n - k) : (k + 1) + i - 1 = k + i /\ i \in 1..(n - (k + 1) + 1)
      BY <1>1, <1>2
  <2>3. QED
      BY <1>5, <2>1, <2>2
<1>8. /\ new \in Seq(Memory) /\ Len(new) = Len(before) + Len(after)
      /\ \A i \in 1..(Len(before) + Len(after)) :
             new[i] = IF i <= Len(before) THEN before[i] ELSE after[i - Len(before)]
    BY <1>4, <1>5, ConcatProperties
<1>9. DOMAIN new = 1..(n - 1)
  <2>1. Len(new) = n - 1
      BY <1>1, <1>2, <1>6, <1>7, <1>8
  <2> HIDE DEF new
  <2>2. DOMAIN new = 1..Len(new)
      BY <1>8, LenProperties
  <2>3. QED
      BY <2>1, <2>2
<1> HIDE DEF new
<1>10. ASSUME NEW i \in 1..(n - 1) PROVE new[i] = ms[old(i)] /\ old(i) \in 1..n /\ i \in Int
  <2>1. i \in 1..(Len(before) + Len(after)) /\ i \in Int
      BY <1>2, <1>6, <1>7
  <2>2. CASE i < k
    <3>1. i <= Len(before) /\ i \in 1..(k - 1) /\ old(i) = i /\ old(i) \in 1..n
        BY <1>2, <1>6, <2>2
    <3>2. new[i] = before[i] /\ before[i] = ms[i]
        BY <1>6, <1>8, <2>1, <3>1
    <3>3. QED
        BY <2>1, <3>1, <3>2
  <2>3. CASE ~(i < k)
    <3> DEFINE d == i - Len(before)
    <3>1. ~(i <= Len(before)) /\ d \in 1..(n - k) /\ k + d = i + 1 /\ old(i) = i + 1 /\ old(i) \in 1..n
        BY <1>2, <1>6, <2>3
    <3>2. new[i] = after[d]
        BY <1>8, <2>1, <3>1
    <3> HIDE DEF d
    <3>3. after[d] = ms[k + d]
        BY <1>7, <3>1
    <3>4. QED
        BY <2>1, <3>1, <3>2, <3>3
  <2>4. QED
      BY <2>2, <2>3
<1>11. ASSUME NEW i \in 1..(n - 1), NEW j \in 1..(n - 1), new[i].id = new[j].id PROVE i = j
  <2>1. old(i) = old(j)
      BY <1>1, <1>10, <1>11 DEF IdsApart
  <2>2. QED
      BY <1>2, <1>10, <2>1
<1>12. QED
    BY <1>3, <1>8, <1>9, <1>11 DEF IdsApart

\* Every step keeps it.
LEMMA OriginInvariantIsInductive ==
    ASSUME OriginInvariant, [Next]_vars
    PROVE  OriginInvariant'
<1>1. /\ memories \in Seq(Memory) /\ exposures \in Seq(Exposure) /\ searches \in Seq(Search)
      /\ IdsApart(memories) /\ claims \in Seq(Answer)
    BY DEF OriginInvariant
<1>2. Links \in Seq(AllLinks)
    BY <1>1, LinksOfAStore DEF Links
<1>3. CASE Remember
  <2>1. PICK m \in Memory :
            (\A i \in DOMAIN memories : memories[i].id # m.id) /\ memories' = Append(memories, m)
      BY <1>3 DEF Remember
  <2>2. memories' \in Seq(Memory) /\ IdsApart(memories')
      BY <1>1, <2>1, AppendKeepsApart
  <2>3. UNCHANGED <<exposures, searches, claims>>
      BY <1>3 DEF Remember
  <2>4. QED
      BY <1>1, <2>2, <2>3 DEF OriginInvariant
<1>4. CASE Forget
  <2>1. PICK k \in DOMAIN memories : memories' = RemoveAt(memories, k)
      BY <1>4 DEF Forget
  <2>2. memories' \in Seq(Memory) /\ IdsApart(memories')
      BY <1>1, <2>1, RemoveKeepsApart
  <2>3. UNCHANGED <<exposures, searches, claims>>
      BY <1>4 DEF Forget
  <2>4. QED
      BY <1>1, <2>2, <2>3 DEF OriginInvariant
<1>5. CASE Expose
  <2>1. PICK e \in Exposure : exposures' = Append(exposures, e)
      BY <1>5 DEF Expose
  <2>2. exposures' \in Seq(Exposure)
      BY <1>1, <2>1, AppendProperties
  <2>3. UNCHANGED <<memories, searches, claims>>
      BY <1>5 DEF Expose
  <2>4. QED
      BY <1>1, <2>2, <2>3 DEF OriginInvariant
<1>6. CASE SearchOrClick
  <2>1. PICK e \in Search : searches' = Append(searches, e)
      BY <1>6 DEF SearchOrClick
  <2>2. searches' \in Seq(Search)
      BY <1>1, <2>1, AppendProperties
  <2>3. UNCHANGED <<memories, exposures, claims>>
      BY <1>6 DEF SearchOrClick
  <2>4. QED
      BY <1>1, <2>2, <2>3 DEF OriginInvariant
<1>7. CASE Claim
  <2>1. PICK c \in Claimed : claims' = Append(claims, AttachEvidence(c, Links))
      BY <1>7 DEF Claim
  <2>2. AttachEvidence(c, Links) \in Answer
      BY <1>2, AttachedAnswers
  <2>3. claims' \in Seq(Answer)
      BY <1>1, <2>1, <2>2, AppendProperties
  <2>4. UNCHANGED <<memories, exposures, searches>>
      BY <1>7 DEF Claim
  <2>5. QED
      BY <1>1, <2>3, <2>4 DEF OriginInvariant
<1>8. CASE Attach
  <2>1. PICK i \in DOMAIN claims : claims' = [claims EXCEPT ![i] = AttachEvidence(claims[i], Links)]
      BY <1>8 DEF Attach
  <2>2. i \in 1..Len(claims) /\ claims[i] \in Answer
      BY <1>1, <2>1, LenProperties, ElementOfSeq
  <2>3. AttachEvidence(claims[i], Links) \in Answer
      BY <1>2, <2>2, AttachedAnswers
  <2>4. claims' \in Seq(Answer)
      BY <1>1, <2>1, <2>2, <2>3, ExceptSeq
  <2>5. UNCHANGED <<memories, exposures, searches>>
      BY <1>8 DEF Attach
  <2>6. QED
      BY <1>1, <2>4, <2>5 DEF OriginInvariant
<1>9. CASE Rank
  <2>1. PICK thought \in Thought : claims' = OriginSet(thought, claims, Links).claims
      BY <1>9 DEF Rank
  <2>2. claims' \in Seq(Answer)
      BY <1>1, <2>1, RankedAnswers
  <2>3. UNCHANGED <<memories, exposures, searches>>
      BY <1>9 DEF Rank
  <2>4. QED
      BY <1>1, <2>2, <2>3 DEF OriginInvariant
<1>10. CASE Withdraw
  <2>1. PICK k \in DOMAIN claims : claims' = RemoveAt(claims, k)
      BY <1>10 DEF Withdraw
  <2>2. claims' \in Seq(Answer)
      BY <1>1, <2>1, RemovedClaims
  <2>3. UNCHANGED <<memories, exposures, searches>>
      BY <1>10 DEF Withdraw
  <2>4. QED
      BY <1>1, <2>2, <2>3 DEF OriginInvariant
<1>11. CASE UNCHANGED vars
    BY <1>1, <1>11 DEF OriginInvariant, vars
<1>12. QED
    BY <1>3, <1>4, <1>5, <1>6, <1>7, <1>8, <1>9, <1>10, <1>11 DEF Next

\* Whatever is reported, in whatever order.
LEMMA OriginInvariantHolds ==
    Spec => []OriginInvariant
<1>1. Init => OriginInvariant
  <2>1. ASSUME Init PROVE OriginInvariant
    <3>1. <<>> \in Seq(Memory) /\ <<>> \in Seq(Exposure) /\ <<>> \in Seq(Search) /\ <<>> \in Seq(Answer)
        OBVIOUS
    <3>2. IdsApart(<<>>)
        BY DEF IdsApart
    <3>3. QED
        BY <2>1, <3>1, <3>2 DEF Init, OriginInvariant
  <2>2. QED
      BY <2>1
<1>2. QED
    BY <1>1, OriginInvariantIsInductive, PTL DEF Spec

-----------------------------------------------------------------------------
(* The theorems.                                                           *)

\* What every state is typed by: lists of memories with ids of their own, of
\* exposures and of searches, claims as they were made, and timelines of at
\* most five events in order.
THEOREM OriginTypes ==
    Spec => []OriginTypeOK
<1>1. ASSUME OriginInvariant PROVE OriginTypeOK
  <2>1. /\ memories \in Seq(Memory) /\ exposures \in Seq(Exposure) /\ searches \in Seq(Search)
        /\ IdsApart(memories) /\ claims \in Seq(Answer)
      BY <1>1 DEF OriginInvariant
  <2>2. ASSUME NEW i \in DOMAIN claims
        PROVE  \E c \in Claimed :
                   claims[i] = [c EXCEPT !.evidence = claims[i].evidence,
                                         !.contradicted = claims[i].contradicted]
    <3>1. claims[i] \in Answer
        BY <2>1, LenProperties, ElementOfSeq
    <3>2. PICK c \in Claimed, v \in Citation, x \in SUBSET Contradiction : claims[i] = With(c, v, x)
        BY <3>1 DEF Answer
    <3>3. c \in AsMade
        BY OriginAssumption DEF AsMade
    <3>4. claims[i].evidence = v /\ claims[i].contradicted = x
        BY <3>2, <3>3 DEF With, AsMade
    <3>5. claims[i] = [c EXCEPT !.evidence = claims[i].evidence,
                                !.contradicted = claims[i].contradicted]
        BY <3>2, <3>4 DEF With
    <3>6. QED
        BY <3>5
  <2>3. ASSUME NEW thought \in Thought
        PROVE  LET timeline == TemporalInfluencePath(memories, exposures, searches, thought)
               IN /\ Len(timeline) \in 1..5
                  /\ \A i, j \in DOMAIN timeline : i < j => ~Earlier(timeline[j], timeline[i])
    <3> DEFINE timeline == TemporalInfluencePath(memories, exposures, searches, thought)
    <3>1. thought \in Nat
        BY OriginAssumption
    <3>2. /\ Len(timeline) \in 1..5 /\ DOMAIN timeline = 1..Len(timeline)
          /\ \A k, l \in 1..Len(timeline) : k < l => ~Earlier(timeline[l], timeline[k])
        BY <2>1, <3>1, TimelineOfSteps
    <3> HIDE DEF timeline
    <3>3. QED
        BY <3>2 DEF timeline
  <2>4. \A i, j \in DOMAIN memories : memories[i].id = memories[j].id => i = j
      BY <2>1 DEF IdsApart
  <2>5. QED
      BY <2>1, <2>2, <2>3, <2>4 DEF OriginTypeOK
<1>2. QED
    BY <1>1, OriginInvariantHolds, PTL

\* In whatever order things were reported and forgotten, a timeline names an
\* exposure that none precedes and the latest of the strongest ones, and cites
\* the evidence of every exposure up to the thought.
THEOREM TimelinesStayExact ==
    Spec => []TimelineIsExact
<1>1. ASSUME OriginInvariant PROVE TimelineIsExact
    BY <1>1, TimelinesAreExact DEF OriginInvariant
<1>2. QED
    BY <1>1, OriginInvariantHolds, PTL

\* The claims, the timeline and the negative evidence, each by code of its
\* own, agree on the sources that came after the thought, for every memory
\* whose sources have one date each and a link each.
THEOREM ThreeModulesAgree ==
    Spec => []PredatingIsAgreed
<1>1. ASSUME OriginInvariant PROVE PredatingIsAgreed
    BY <1>1, PredatingAgrees DEF OriginInvariant
<1>2. QED
    BY <1>1, OriginInvariantHolds, PTL

\* The path that is reported is that of a most confident schema memory with
\* evidence; if that was seen before the thought, the path cites nothing but its
\* evidence_ids that the timeline does not cite.
THEOREM PathsStayCited ==
    Spec => []PathsCiteTheTimeline
<1>1. ASSUME OriginInvariant PROVE PathsCiteTheTimeline
    BY <1>1, PathsCite DEF OriginInvariant
<1>2. QED
    BY <1>1, OriginInvariantHolds, PTL

=============================================================================
