----------------------- MODULE StatementContextProofs -----------------------
(***************************************************************************)
(* What applications are told, for any memories, fields, requests, keys    *)
(* and weights: nothing that is not shared with them, the strongest of     *)
(* comparable values of a field, and that a row survives being read and    *)
(* written back.  TableInvariant says that the table holds what was        *)
(* written; the filter, the matches and the resolution are then followed   *)
(* from the memories to the packet.                                        *)
(***************************************************************************)
EXTENDS StatementContext, SequenceTheorems, FiniteSetTheorems, TLAPS

-----------------------------------------------------------------------------
(* Loops over a list.                                                      *)

\* A non-empty set of naturals has a least element.
LEMMA LeastNat ==
    ASSUME NEW S \in SUBSET Nat, S # {}
    PROVE  \E x \in S : \A y \in S : x <= y
<1>1. PICK x \in S : \A y \in S : ~ (<<y, x>> \in OpToRel(<, Nat))
    BY WFMin, NatLessThanWellFounded
<1>2. \A y \in S : ~ (y < x)
    BY <1>1, Zenon DEF OpToRel
<1>3. QED
    BY <1>2

\* What holds of 0, and of every number up to n if it holds of the one before.
LEMMA UpTo ==
    ASSUME NEW n \in Nat, NEW T, 0 \in T, \A i \in 1..n : i - 1 \in T => i \in T
    PROVE  n \in T /\ \A i \in 0..n : i \in T
<1> SUFFICES \A i \in 0..n : i \in T
    OBVIOUS
<1> DEFINE bad == {i \in 0..n : i \notin T}
<1>1. SUFFICES ASSUME bad # {} PROVE FALSE
    OBVIOUS
<1>2. PICK m \in bad : \A y \in bad : m <= y
  <2>1. bad \in SUBSET Nat
      OBVIOUS
  <2> HIDE DEF bad
  <2>2. QED
      BY <1>1, <2>1, LeastNat
<1>3. m \in 1..n /\ m - 1 \in 0..n /\ m - 1 \notin bad
    BY <1>2
<1>4. QED
    BY <1>2, <1>3

\* A loop of n rounds that starts with `start'.
Loop(f, n, start, round) ==
    \A i \in 0..n : f[i] = IF i = 0 THEN start ELSE round[<<f[i - 1], i>>]

\* Every loop has results: the recursive functions below are well defined.
LEMMA LoopExists ==
    ASSUME NEW n \in Nat, NEW S, NEW start \in S, NEW round \in [S \X (1..n) -> S]
    PROVE  \E f \in [0..n -> S] : Loop(f, n, start, round)
<1> DEFINE Runs(m) == \E f \in [0..m -> S] : Loop(f, m, start, round)
<1>1. Runs(0)
  <2> DEFINE f == [i \in 0..0 |-> start]
  <2>1. f \in [0..0 -> S] /\ Loop(f, 0, start, round)
      BY DEF Loop
  <2>2. QED
      BY <2>1
<1>2. ASSUME NEW m \in 1..n, Runs(m - 1) PROVE Runs(m)
  <2>1. PICK g \in [0..(m - 1) -> S] : Loop(g, m - 1, start, round)
      BY <1>2
  <2> DEFINE next == round[<<g[m - 1], m>>]
             h == [i \in 0..m |-> IF i = m THEN next ELSE g[i]]
  <2>2. m - 1 \in 0..(m - 1) /\ g[m - 1] \in S /\ next \in S
      BY <2>1
  <2> HIDE DEF next
  <2>3. \A i \in 0..m : h[i] = (IF i = m THEN next ELSE g[i]) /\ (i # m => i \in 0..(m - 1))
      OBVIOUS
  <2>4. h \in [0..m -> S]
    <3>1. \A i \in 0..m : h[i] \in S
        BY <2>1, <2>2, <2>3
    <3>2. QED
        BY <3>1
  <2> HIDE DEF h
  <2>5. ASSUME NEW i \in 0..m PROVE h[i] = IF i = 0 THEN start ELSE round[<<h[i - 1], i>>]
    <3>1. CASE i = m
      <4>1. i # 0 /\ h[i] = next /\ m - 1 \in 0..m /\ m - 1 # m
          BY <2>3, <3>1
      <4>2. h[m - 1] = g[m - 1]
          BY <2>3, <4>1
      <4>3. QED
          BY <3>1, <4>1, <4>2 DEF next
    <3>2. CASE i # m
      <4>1. i \in 0..(m - 1) /\ h[i] = g[i]
          BY <2>3, <3>2
      <4>2. g[i] = IF i = 0 THEN start ELSE round[<<g[i - 1], i>>]
          BY <2>1, <4>1 DEF Loop
      <4>3. CASE i # 0
        <5>1. i - 1 \in 0..m /\ i - 1 # m
            BY <3>2, <4>3
        <5>2. h[i - 1] = g[i - 1]
            BY <2>3, <5>1
        <5>3. QED
            BY <4>1, <4>2, <4>3, <5>2
      <4>4. QED
          BY <4>1, <4>2, <4>3
    <3>3. QED
        BY <3>1, <3>2
  <2>6. Loop(h, m, start, round)
      BY <2>5 DEF Loop
  <2>7. QED
      BY <2>4, <2>6
<1> DEFINE T == {m \in 0..n : Runs(m)}
<1> HIDE DEF Runs
<1>3. 0 \in T /\ \A m \in 1..n : m - 1 \in T => m \in T
    BY <1>1, <1>2
<1> HIDE DEF T
<1>4. n \in T
  <2>1. n \in 0..n
      OBVIOUS
  <2>2. QED
      BY <1>3, <2>1, UpTo
<1>5. QED
    BY <1>4 DEF T, Runs

\* A function that a loop defines, as Kept has it.
KeptLoop(a, s, keep) ==
    a = [i \in 0..Len(s) |->
            IF i = 0 THEN <<>>
            ELSE IF i \in keep THEN Append(a[i - 1], s[i]) ELSE a[i - 1]]

\* Kept is where its loop ends.
LEMMA KeptLoops ==
    ASSUME NEW E, NEW s \in Seq(E), NEW keep
    PROVE  \E a : KeptLoop(a, s, keep) /\ Kept(s, keep) = a[Len(s)]
<1> DEFINE n == Len(s)
           S == Seq(E)
           Round(x, i) == IF i \in keep THEN Append(x, s[i]) ELSE x
           round == [p \in S \X (1..n) |-> Round(p[1], p[2])]
           a == CHOOSE g : KeptLoop(g, s, keep)
<1>1. n \in Nat /\ \A i \in 1..n : s[i] \in E
    BY LenProperties, ElementOfSeq
<1>2. <<>> \in S
    OBVIOUS
<1>3. round \in [S \X (1..n) -> S]
    BY <1>1
<1>4. \A x \in S, i \in 1..n : round[<<x, i>>] = Round(x, i)
    OBVIOUS
<1> HIDE DEF round
<1>5. PICK f \in [0..n -> S] : Loop(f, n, <<>>, round)
  <2> HIDE DEF n, S
  <2>1. QED
      BY <1>1, <1>2, <1>3, LoopExists
<1>6. \A i \in 0..n : f[i] = IF i = 0 THEN <<>> ELSE Round(f[i - 1], i)
  <2> TAKE i \in 0..n
  <2>1. CASE i = 0
      BY <2>1, <1>5 DEF Loop
  <2>2. CASE i # 0
    <3>1. i \in 1..n /\ i - 1 \in 0..n /\ f[i - 1] \in S
        BY <2>2, <1>1, <1>5
    <3>2. QED
        BY <2>2, <3>1, <1>4, <1>5 DEF Loop
  <2>3. QED
      BY <2>1, <2>2
<1>7. KeptLoop(f, s, keep)
    BY <1>5, <1>6 DEF KeptLoop
<1>8. KeptLoop(a, s, keep)
    BY <1>7
<1>9. Kept(s, keep) = a[n]
    BY DEF Kept, KeptLoop
<1>10. QED
    BY <1>8, <1>9

\* Round by round.
KeptRound(a, s, keep) ==
    a[0] = <<>> /\ \A i \in 1..Len(s) : a[i] = IF i \in keep THEN Append(a[i - 1], s[i]) ELSE a[i - 1]

\* The rounds of the loop, with what every one of them yields.
LEMMA KeptRounds ==
    ASSUME NEW E, NEW s \in Seq(E), NEW keep
    PROVE  \E a \in [0..Len(s) -> Seq(E)] : KeptRound(a, s, keep) /\ Kept(s, keep) = a[Len(s)]
<1> DEFINE n == Len(s)
<1>1. n \in Nat /\ \A i \in 1..n : s[i] \in E
    BY LenProperties, ElementOfSeq
<1>2. PICK a : KeptLoop(a, s, keep) /\ Kept(s, keep) = a[n]
    BY KeptLoops
<1>3. KeptRound(a, s, keep)
  <2>1. 0 \in 0..n /\ \A i \in 1..n : i \in 0..n /\ i # 0
      BY <1>1
  <2>2. \A i \in 0..n : a[i] = IF i = 0 THEN <<>>
                             ELSE IF i \in keep THEN Append(a[i - 1], s[i]) ELSE a[i - 1]
    <3>1. a = [i \in 0..n |-> IF i = 0 THEN <<>>
                              ELSE IF i \in keep THEN Append(a[i - 1], s[i]) ELSE a[i - 1]]
        BY <1>2 DEF KeptLoop
    <3> HIDE DEF n
    <3>2. QED
        BY <3>1, Zenon
  <2> HIDE DEF n
  <2>3. a[0] = <<>> /\ \A i \in 1..n : a[i] = IF i \in keep THEN Append(a[i - 1], s[i]) ELSE a[i - 1]
      BY <2>1, <2>2
  <2>4. QED
      BY <2>3 DEF KeptRound, n
<1> DEFINE T == {i \in 0..n : a[i] \in Seq(E)}
<1>4. 0 \in T
  <2>1. a[0] = <<>> /\ <<>> \in Seq(E)
      BY <1>3 DEF KeptRound
  <2>2. a[0] \in Seq(E) /\ 0 \in 0..n
      BY <1>1, <2>1
  <2>3. QED
      BY <2>2
<1>5. ASSUME NEW i \in 1..n, i - 1 \in T PROVE i \in T
  <2>1. a[i - 1] \in Seq(E) /\ i \in 0..n /\ s[i] \in E
      BY <1>1, <1>5
  <2>2. Append(a[i - 1], s[i]) \in Seq(E)
      BY <2>1, AppendProperties
  <2>3. a[i] = IF i \in keep THEN Append(a[i - 1], s[i]) ELSE a[i - 1]
      BY <1>3 DEF KeptRound
  <2>4. QED
      BY <2>1, <2>2, <2>3
<1>6. \A i \in 0..n : i \in T
  <2> HIDE DEF T, n
  <2>1. QED
      BY <1>1, <1>4, <1>5, UpTo
<1>7. DOMAIN a = 0..n /\ a = [i \in DOMAIN a |-> a[i]]
    BY <1>2 DEF KeptLoop
<1>8. a \in [0..n -> Seq(E)]
    BY <1>6, <1>7
<1>9. QED
    BY <1>2, <1>3, <1>8

\* To keep every position is to keep the list.
LEMMA KeptAll ==
    ASSUME NEW E, NEW s \in Seq(E)
    PROVE  Kept(s, 1..Len(s)) = s
<1> DEFINE n == Len(s)
<1>1. n \in Nat /\ \A i \in 1..n : s[i] \in E
    BY LenProperties, ElementOfSeq
<1>2. PICK a \in [0..n -> Seq(E)] : KeptRound(a, s, 1..n) /\ Kept(s, 1..n) = a[n]
    BY KeptRounds
<1> DEFINE T == {i \in 0..n : Len(a[i]) = i /\ \A k \in 1..i : a[i][k] = s[k]}
<1>3. 0 \in T
  <2>1. a[0] = <<>> /\ Len(<<>>) = 0 /\ 0 \in 0..n
      BY <1>1, <1>2 DEF KeptRound
  <2>2. Len(a[0]) = 0 /\ \A k \in 1..0 : a[0][k] = s[k]
      BY <2>1
  <2>3. QED
      BY <2>1, <2>2
<1>4. ASSUME NEW i \in 1..n, i - 1 \in T PROVE i \in T
  <2> DEFINE q == a[i - 1]
  <2>1. q \in Seq(E) /\ i \in 0..n /\ i - 1 \in 0..n /\ s[i] \in E
      BY <1>1, <1>2
  <2>2. Len(q) = i - 1 /\ \A k \in 1..(i - 1) : q[k] = s[k]
      BY <1>4
  <2>3. a[i] = Append(q, s[i])
      BY <1>2 DEF KeptRound
  <2> HIDE DEF q
  <2>4. Len(a[i]) = i /\ a[i][i] = s[i] /\ \A k \in 1..(i - 1) : a[i][k] = q[k]
      BY <2>1, <2>2, <2>3, AppendProperties
  <2>5. \A k \in 1..i : k = i \/ k \in 1..(i - 1)
      OBVIOUS
  <2>6. \A k \in 1..i : a[i][k] = s[k]
      BY <2>2, <2>4, <2>5
  <2>7. QED
      BY <2>1, <2>4, <2>6
<1>5. n \in T
  <2> HIDE DEF T, n
  <2>1. QED
      BY <1>1, <1>3, <1>4, UpTo
<1>6. a[n] \in Seq(E) /\ Len(a[n]) = Len(s) /\ \A k \in 1..Len(a[n]) : a[n][k] = s[k]
    BY <1>1, <1>2, <1>5
<1>7. a[n] = s
    BY <1>6, SeqEqual
<1>8. QED
    BY <1>2, <1>7

\* An element put first is kept first.
LEMMA KeptFirst ==
    ASSUME NEW E, NEW s \in Seq(E), NEW x \in E, NEW keep, NEW rest,
           \A i \in 1..Len(s) : i \in rest <=> i + 1 \in keep
    PROVE  Kept(<<x>> \o s, keep) = (IF 1 \in keep THEN <<x>> ELSE <<>>) \o Kept(s, rest)
<1> DEFINE n == Len(s)
           t == <<x>> \o s
           h == IF 1 \in keep THEN <<x>> ELSE <<>>
<1>1. /\ n \in Nat /\ t \in Seq(E) /\ Len(t) = n + 1 /\ t[1] = x
      /\ \A i \in 1..n : t[i + 1] = s[i] /\ s[i] \in E
    BY LenProperties, ElementOfSeq
<1>2. h \in Seq(E) /\ (1 \in keep => h = Append(<<>>, x)) /\ (1 \notin keep => h = <<>>) /\ h \o <<>> = h
    OBVIOUS
<1> HIDE DEF h, t
<1>3. PICK a \in [0..(n + 1) -> Seq(E)] : KeptRound(a, t, keep) /\ Kept(t, keep) = a[n + 1]
    BY <1>1, KeptRounds
<1>4. PICK b \in [0..n -> Seq(E)] : KeptRound(b, s, rest) /\ Kept(s, rest) = b[n]
    BY KeptRounds
<1> HIDE DEF n
<1> DEFINE T == {i \in 0..n : a[i + 1] = h \o b[i]}
<1>5. 0 \in T
  <2>1. a[0] = <<>> /\ b[0] = <<>>
      BY <1>3, <1>4 DEF KeptRound
  <2>2. 1 \in 1..(n + 1)
      BY <1>1
  <2>3. a[1] = IF 1 \in keep THEN Append(a[1 - 1], t[1]) ELSE a[1 - 1]
      BY <1>1, <1>3, <2>2 DEF KeptRound
  <2>4. a[1 - 1] = <<>> /\ t[1] = x
      BY <1>1, <2>1
  <2>5. a[1] = h
      BY <1>2, <2>3, <2>4
  <2>6. a[0 + 1] = h \o b[0]
      BY <1>2, <2>1, <2>5
  <2>7. QED
      BY <1>1, <2>6
<1>6. ASSUME NEW i \in 1..n, i - 1 \in T PROVE i \in T
  <2>1. a[i] = h \o b[i - 1] /\ i \in 0..n /\ i - 1 \in 0..n /\ i + 1 \in 1..(n + 1)
    <3>1. a[(i - 1) + 1] = h \o b[i - 1]
        BY <1>6
    <3>2. (i - 1) + 1 = i /\ i \in 0..n /\ i - 1 \in 0..n /\ i + 1 \in 1..(n + 1)
        BY <1>1
    <3>3. QED
        BY <3>1, <3>2
  <2>2. a[i + 1] = IF i + 1 \in keep THEN Append(a[i], s[i]) ELSE a[i]
    <3>1. a[i + 1] = IF i + 1 \in keep THEN Append(a[(i + 1) - 1], t[i + 1]) ELSE a[(i + 1) - 1]
        BY <1>1, <1>3, <2>1 DEF KeptRound
    <3>2. (i + 1) - 1 = i
        OBVIOUS
    <3>3. t[i + 1] = s[i]
        BY <1>1
    <3>4. QED
        BY <3>1, <3>2, <3>3
  <2>3. b[i] = IF i \in rest THEN Append(b[i - 1], s[i]) ELSE b[i - 1]
      BY <1>4 DEF KeptRound, n
  <2>4. i \in rest <=> i + 1 \in keep
      BY DEF n
  <2>5. b[i - 1] \in Seq(E) /\ s[i] \in E
      BY <1>1, <1>4, <2>1
  <2>6. Append(h \o b[i - 1], s[i]) = h \o Append(b[i - 1], s[i])
    <3> DEFINE q == b[i - 1]
               e == s[i]
    <3>1. q \in Seq(E) /\ e \in E /\ <<e>> \in Seq(E) /\ h \o q \in Seq(E)
        BY <1>2, <2>5, ConcatProperties
    <3> HIDE DEF q, e
    <3>2. Append(h \o q, e) = (h \o q) \o <<e>> /\ Append(q, e) = q \o <<e>>
        BY <3>1, AppendIsConcat
    <3>3. (h \o q) \o <<e>> = h \o (q \o <<e>>)
        BY <1>2, <3>1, ConcatAssociative
    <3>4. QED
        BY <3>2, <3>3 DEF q, e
  <2>7. a[i + 1] = h \o b[i]
      BY <2>1, <2>2, <2>3, <2>4, <2>6
  <2>8. QED
      BY <2>1, <2>7
<1>7. n \in T
  <2> HIDE DEF T
  <2>1. QED
      BY <1>1, <1>5, <1>6, UpTo
<1>8. QED
    BY <1>3, <1>4, <1>7 DEF h, t

\* What Kept has are the elements at the positions to keep, each once.
LEMMA KeptPositions ==
    ASSUME NEW E, NEW s \in Seq(E), NEW keep \in SUBSET (1..Len(s))
    PROVE  /\ Kept(s, keep) \in Seq(E)
           /\ \E at \in [1..Len(Kept(s, keep)) -> keep] :
                  /\ \A k \in 1..Len(Kept(s, keep)) : Kept(s, keep)[k] = s[at[k]]
                  /\ \A j, k \in 1..Len(Kept(s, keep)) : at[j] = at[k] => j = k
                  /\ \A i \in keep : \E k \in 1..Len(Kept(s, keep)) : at[k] = i
<1> DEFINE n == Len(s)
           From(q, at, i) ==
               /\ at \in [1..Len(q) -> keep \cap (1..i)]
               /\ \A k \in 1..Len(q) : q[k] = s[at[k]]
               /\ \A j, k \in 1..Len(q) : at[j] = at[k] => j = k
               /\ \A j \in keep \cap (1..i) : \E k \in 1..Len(q) : at[k] = j
           Good(q, i) == q \in Seq(E) /\ \E at : From(q, at, i)
<1>1. n \in Nat /\ \A i \in 1..n : s[i] \in E
    BY LenProperties, ElementOfSeq
<1>2. PICK a \in [0..n -> Seq(E)] : KeptRound(a, s, keep) /\ Kept(s, keep) = a[n]
    BY KeptRounds
<1>3. a[0] = <<>> /\ \A i \in 1..n : a[i] = IF i \in keep THEN Append(a[i - 1], s[i]) ELSE a[i - 1]
    BY <1>2 DEF KeptRound
<1>4. Good(<<>>, 0)
  <2> DEFINE none == [k \in 1..0 |-> 0]
  <2>1. <<>> \in Seq(E) /\ Len(<<>>) = 0 /\ \A k \in 1..0 : FALSE
      OBVIOUS
  <2>2. none \in [1..Len(<<>>) -> keep \cap (1..0)]
      BY <2>1
  <2>3. From(<<>>, none, 0)
      BY <2>1, <2>2
  <2>4. QED
      BY <2>1, <2>3
<1>5. ASSUME NEW i \in 1..n, NEW q, Good(q, i - 1), i \notin keep PROVE Good(q, i)
  <2>1. keep \cap (1..i) = keep \cap (1..(i - 1))
      BY <1>5
  <2>2. QED
      BY <1>5, <2>1
<1>6. ASSUME NEW i \in 1..n, NEW q, Good(q, i - 1), i \in keep PROVE Good(Append(q, s[i]), i)
  <2>1. PICK at : From(q, at, i - 1)
      BY <1>6
  <2> DEFINE l == Len(q)
             next == Append(q, s[i])
             to == [k \in 1..(l + 1) |-> IF k = l + 1 THEN i ELSE at[k]]
  <2>2. q \in Seq(E) /\ l \in Nat /\ s[i] \in E
      BY <1>1, <1>6
  <2>3. /\ next \in Seq(E) /\ Len(next) = l + 1 /\ next[l + 1] = s[i]
        /\ \A k \in 1..l : next[k] = q[k]
      BY <2>2
  <2> HIDE DEF next
  <2>4. \A k \in 1..(l + 1) : k = l + 1 \/ k \in 1..l
      BY <2>2
  <2>5. /\ l + 1 \in 1..(l + 1) /\ to[l + 1] = i
        /\ \A k \in 1..l : k \in 1..(l + 1) /\ to[k] = at[k] /\ at[k] \in keep \cap (1..(i - 1))
      BY <2>1, <2>2
  <2>6. to \in [1..(l + 1) -> keep \cap (1..i)]
    <3>1. i \in keep \cap (1..i) /\ keep \cap (1..(i - 1)) \subseteq keep \cap (1..i)
        BY <1>6
    <3>2. \A k \in 1..(l + 1) : to[k] \in keep \cap (1..i)
      <4> HIDE DEF to, l
      <4>1. QED
          BY <2>4, <2>5, <3>1
    <3>3. QED
        BY <3>2
  <2> HIDE DEF to, l
  <2>7. \A k \in 1..(l + 1) : next[k] = s[to[k]]
      BY <2>1, <2>3, <2>4, <2>5 DEF l
  <2>8. ASSUME NEW j \in 1..(l + 1), NEW k \in 1..(l + 1), to[j] = to[k] PROVE j = k
    <3>1. \A x \in 1..l : to[x] # i
        BY <2>5
    <3>2. CASE j \in 1..l /\ k \in 1..l
        BY <2>1, <2>5, <2>8, <3>2 DEF l
    <3>3. QED
        BY <2>4, <2>5, <2>8, <3>1, <3>2
  <2>9. ASSUME NEW j \in keep \cap (1..i) PROVE \E k \in 1..(l + 1) : to[k] = j
    <3>1. CASE j = i
        BY <2>5, <3>1
    <3>2. CASE j # i
      <4>1. j \in keep \cap (1..(i - 1))
          BY <3>2
      <4>2. PICK k \in 1..l : at[k] = j
          BY <2>1, <4>1 DEF l
      <4>3. QED
          BY <2>5, <4>2
    <3>3. QED
        BY <3>1, <3>2
  <2>10. From(next, to, i)
      BY <2>3, <2>6, <2>7, <2>8, <2>9
  <2>11. QED
      BY <2>3, <2>10 DEF next
<1> HIDE DEF Good
<1> DEFINE T == {i \in 0..n : Good(a[i], i)}
<1>7. 0 \in T /\ \A i \in 1..n : i - 1 \in T => i \in T
  <2>1. 0 \in T
      BY <1>1, <1>3, <1>4
  <2>2. ASSUME NEW i \in 1..n, i - 1 \in T PROVE i \in T
    <3>1. Good(a[i - 1], i - 1) /\ i \in 0..n
        BY <1>1, <2>2
    <3>2. Good(a[i], i)
        BY <1>3, <1>5, <1>6, <3>1
    <3>3. QED
        BY <3>1, <3>2
  <2>3. QED
      BY <2>1, <2>2
<1>8. Good(a[n], n)
  <2>1. n \in 0..n
      BY <1>1
  <2> HIDE DEF T, n
  <2>2. n \in T
      BY <1>1, <1>7, <2>1, UpTo
  <2>3. QED
      BY <2>2 DEF T
<1>9. keep \cap (1..n) = keep
    OBVIOUS
<1>10. QED
    BY <1>2, <1>8, <1>9 DEF Good

\* A function that a loop defines, as Total has it.
TotalLoop(a, f, n) == a = [i \in 0..n |-> IF i = 0 THEN 0 ELSE a[i - 1] + f[i]]

\* Total is where its loop ends, and all that it meets are naturals.
LEMMA TotalLoops ==
    ASSUME NEW n \in Nat, NEW f, \A i \in 1..n : f[i] \in Nat
    PROVE  \E a \in [0..n -> Nat] : TotalLoop(a, f, n) /\ Total(f, n) = a[n]
<1> DEFINE round == [p \in Nat \X (1..n) |-> p[1] + f[p[2]]]
           a == CHOOSE g : TotalLoop(g, f, n)
<1>1. round \in [Nat \X (1..n) -> Nat]
    OBVIOUS
<1>2. \A x \in Nat, i \in 1..n : round[<<x, i>>] = x + f[i]
    OBVIOUS
<1> HIDE DEF round
<1>3. PICK b \in [0..n -> Nat] : Loop(b, n, 0, round)
    BY <1>1, LoopExists
<1>4. \A i \in 0..n : b[i] = IF i = 0 THEN 0 ELSE b[i - 1] + f[i]
  <2> TAKE i \in 0..n
  <2>1. CASE i = 0
      BY <2>1, <1>3 DEF Loop
  <2>2. CASE i # 0
    <3>1. i \in 1..n /\ i - 1 \in 0..n /\ b[i - 1] \in Nat
        BY <2>2, <1>3
    <3>2. QED
        BY <2>2, <3>1, <1>2, <1>3 DEF Loop
  <2>3. QED
      BY <2>1, <2>2
<1>5. TotalLoop(b, f, n)
    BY <1>3, <1>4 DEF TotalLoop
<1>6. TotalLoop(a, f, n)
    BY <1>5
<1>7. Total(f, n) = a[n]
    BY DEF Total, TotalLoop
<1>8. a \in [0..n -> Nat]
  <2> HIDE DEF a
  <2> DEFINE T == {i \in 0..n : a[i] \in Nat}
  <2>1. \A i \in 0..n : a[i] = IF i = 0 THEN 0 ELSE a[i - 1] + f[i]
    <3>1. a = [i \in 0..n |-> IF i = 0 THEN 0 ELSE a[i - 1] + f[i]]
        BY <1>6 DEF TotalLoop
    <3>2. QED
        BY <3>1, Zenon
  <2>2. 0 \in T
      BY <2>1
  <2>3. ASSUME NEW i \in 1..n, i - 1 \in T PROVE i \in T
    <3>1. i \in 0..n /\ i # 0 /\ a[i - 1] \in Nat /\ f[i] \in Nat
        BY <2>3
    <3>2. a[i] \in Nat
        BY <2>1, <3>1
    <3>3. QED
        BY <3>1, <3>2
  <2>4. \A i \in 0..n : i \in T
    <3> HIDE DEF T
    <3>1. QED
        BY <2>2, <2>3, UpTo
  <2>5. DOMAIN a = 0..n /\ a = [i \in DOMAIN a |-> a[i]]
      BY <1>6 DEF TotalLoop
  <2>6. QED
      BY <2>4, <2>5
<1>9. QED
    BY <1>6, <1>7, <1>8

\* A total of naturals is a natural.
LEMMA TotalNat ==
    ASSUME NEW n \in Nat, NEW f, \A i \in 1..n : f[i] \in Nat
    PROVE  Total(f, n) \in Nat
BY TotalLoops

\* What a total is made of, round by round.
LEMMA TotalRounds ==
    ASSUME NEW n \in Nat, NEW f, \A i \in 1..n : f[i] \in Nat
    PROVE  \E a \in [0..n -> Nat] :
               a[0] = 0 /\ a[n] = Total(f, n) /\ \A i \in 1..n : a[i] = a[i - 1] + f[i]
<1>1. PICK a \in [0..n -> Nat] : TotalLoop(a, f, n) /\ Total(f, n) = a[n]
    BY TotalLoops
<1>2. \A i \in 0..n : a[i] = IF i = 0 THEN 0 ELSE a[i - 1] + f[i]
  <2>1. a = [i \in 0..n |-> IF i = 0 THEN 0 ELSE a[i - 1] + f[i]]
      BY <1>1 DEF TotalLoop
  <2>2. QED
      BY <2>1, Zenon
<1>3. 0 \in 0..n /\ \A i \in 1..n : i \in 0..n /\ i # 0
    OBVIOUS
<1>4. QED
    BY <1>1, <1>2, <1>3

\* A total of nothing.
LEMMA TotalZero ==
    ASSUME NEW n \in Nat, NEW f, \A i \in 1..n : f[i] = 0
    PROVE  Total(f, n) = 0
<1>1. PICK a \in [0..n -> Nat] :
          a[0] = 0 /\ a[n] = Total(f, n) /\ \A i \in 1..n : a[i] = a[i - 1] + f[i]
  <2>1. \A i \in 1..n : f[i] \in Nat
      OBVIOUS
  <2>2. QED
      BY <2>1, TotalRounds, Zenon
<1> DEFINE T == {i \in 0..n : a[i] = 0}
<1>2. 0 \in T /\ \A i \in 1..n : i - 1 \in T => i \in T
  <2>1. \A i \in 1..n : i - 1 \in 0..n /\ i \in 0..n /\ a[i] = a[i - 1]
      BY <1>1
  <2>2. QED
      BY <1>1, <2>1
<1> HIDE DEF T
<1>3. n \in T
    BY <1>2, UpTo
<1>4. QED
    BY <1>1, <1>3 DEF T

\* Totals of the same parts.
LEMMA TotalsAgree ==
    ASSUME NEW n \in Nat, NEW f, NEW g, \A i \in 1..n : f[i] = g[i] /\ g[i] \in Nat
    PROVE  Total(f, n) = Total(g, n)
<1>1. \A i \in 1..n : f[i] \in Nat /\ g[i] \in Nat
    OBVIOUS
<1>2. PICK a \in [0..n -> Nat] :
          a[0] = 0 /\ a[n] = Total(f, n) /\ \A i \in 1..n : a[i] = a[i - 1] + f[i]
    BY <1>1, TotalRounds, Zenon
<1>3. PICK b \in [0..n -> Nat] :
          b[0] = 0 /\ b[n] = Total(g, n) /\ \A i \in 1..n : b[i] = b[i - 1] + g[i]
    BY <1>1, TotalRounds, Zenon
<1> DEFINE T == {i \in 0..n : a[i] = b[i]}
<1>4. 0 \in T
    BY <1>2, <1>3
<1>5. ASSUME NEW i \in 1..n, i - 1 \in T PROVE i \in T
  <2>1. i \in 0..n /\ a[i] = a[i - 1] + f[i] /\ b[i] = b[i - 1] + f[i] /\ a[i - 1] = b[i - 1]
      BY <1>2, <1>3, <1>5
  <2>2. a[i] = b[i]
      BY <2>1, Zenon
  <2>3. QED
      BY <2>1, <2>2
<1>6. n \in T
  <2> HIDE DEF T
  <2>1. QED
      BY <1>4, <1>5, UpTo
<1>7. QED
    BY <1>2, <1>3, <1>6

\* Totals that differ by one of their parts.
MoreAt(f, g, n, p, d) ==
    /\ \A i \in 1..n : f[i] \in Nat /\ g[i] \in Nat
    /\ f[p] = g[p] + d /\ \A i \in 1..n : i # p => f[i] = g[i]

\* If one part grows, the total grows by as much.
LEMMA TotalOfMore ==
    ASSUME NEW n \in Nat, NEW f, NEW g, NEW p \in 1..n, NEW d \in Nat, MoreAt(f, g, n, p, d)
    PROVE  Total(f, n) = Total(g, n) + d
<1>0. /\ \A i \in 1..n : f[i] \in Nat /\ g[i] \in Nat
      /\ f[p] = g[p] + d /\ \A i \in 1..n : i # p => f[i] = g[i]
    BY DEF MoreAt
<1>1. PICK a \in [0..n -> Nat] :
          a[0] = 0 /\ a[n] = Total(f, n) /\ \A i \in 1..n : a[i] = a[i - 1] + f[i]
    BY <1>0, TotalRounds
<1>2. PICK b \in [0..n -> Nat] :
          b[0] = 0 /\ b[n] = Total(g, n) /\ \A i \in 1..n : b[i] = b[i - 1] + g[i]
    BY <1>0, TotalRounds
<1> DEFINE more(i) == IF i < p THEN 0 ELSE d
           T == {i \in 0..n : a[i] = b[i] + more(i)}
<1>3. 0 \in T
    BY <1>1, <1>2
<1>4. ASSUME NEW i \in 1..n, i - 1 \in T PROVE i \in T
  <2>1. /\ a[i - 1] = b[i - 1] + more(i - 1) /\ i \in 0..n /\ i - 1 \in 0..n
        /\ f[i] \in Nat /\ g[i] \in Nat
      BY <1>0, <1>4
  <2>2. a[i] = a[i - 1] + f[i] /\ b[i] = b[i - 1] + g[i] /\ b[i - 1] \in Nat
      BY <1>1, <1>2, <2>1
  <2>3. f[i] + more(i - 1) = g[i] + more(i)
    <3>1. CASE i = p
        BY <3>1, <2>1, <1>0
    <3>2. CASE i # p
        BY <3>2, <2>1, <1>0
    <3>3. QED
        BY <3>1, <3>2
  <2>4. more(i) \in Nat /\ more(i - 1) \in Nat
      OBVIOUS
  <2> HIDE DEF more
  <2>5. a[i] = b[i] + more(i)
    <3> DEFINE x == b[i - 1]
               y == f[i]
               z == g[i]
               u == more(i - 1)
               v == more(i)
    <3>1. a[i] = (x + u) + y /\ b[i] = x + z
        BY <2>1, <2>2
    <3>2. x \in Nat /\ y \in Nat /\ z \in Nat /\ u \in Nat /\ v \in Nat /\ y + u = z + v
        BY <2>1, <2>2, <2>3, <2>4
    <3> HIDE DEF x, y, z, u, v
    <3>3. (x + u) + y = (x + z) + v
        BY <3>2
    <3>4. QED
        BY <3>1, <3>3 DEF v
  <2>6. QED
      BY <2>1, <2>5
<1>5. n \in T
  <2> HIDE DEF T
  <2>1. QED
      BY <1>3, <1>4, UpTo
<1>6. QED
    BY <1>1, <1>2, <1>5

\* A total that begins one part earlier.
LEMMA TotalFromFirst ==
    ASSUME NEW n \in Nat, NEW f, NEW g, \A i \in 1..(n + 1) : f[i] \in Nat,
           \A i \in 1..n : g[i] = f[i + 1]
    PROVE  Total(f, n + 1) = f[1] + Total(g, n)
<1>1. \A i \in 1..n : g[i] \in Nat
    OBVIOUS
<1>2. PICK a \in [0..(n + 1) -> Nat] :
          /\ a[0] = 0 /\ a[n + 1] = Total(f, n + 1)
          /\ \A i \in 1..(n + 1) : a[i] = a[i - 1] + f[i]
  <2>1. n + 1 \in Nat
      OBVIOUS
  <2>2. QED
      BY <2>1, TotalRounds, Zenon
<1>3. PICK b \in [0..n -> Nat] :
          b[0] = 0 /\ b[n] = Total(g, n) /\ \A i \in 1..n : b[i] = b[i - 1] + g[i]
    BY <1>1, TotalRounds
<1> DEFINE T == {i \in 0..n : a[i + 1] = f[1] + b[i]}
<1>4. 0 \in T
  <2>1. 1 \in 1..(n + 1) /\ a[1] = a[0] + f[1] /\ f[1] \in Nat
      BY <1>2
  <2>2. a[0 + 1] = f[1] + b[0]
      BY <2>1, <1>2, <1>3
  <2>3. QED
      BY <2>2
<1>5. ASSUME NEW i \in 1..n, i - 1 \in T PROVE i \in T
  <2>1. a[i] = f[1] + b[i - 1] /\ i \in 0..n /\ i - 1 \in 0..n
      BY <1>5
  <2>2. i + 1 \in 1..(n + 1) /\ a[i + 1] = a[i] + f[i + 1]
      BY <1>2
  <2>3. b[i] = b[i - 1] + f[i + 1] /\ b[i - 1] \in Nat /\ f[i + 1] \in Nat /\ f[1] \in Nat
      BY <1>3, <2>1, <2>2
  <2>4. a[i + 1] = f[1] + b[i]
    <3>1. a[i + 1] = (f[1] + b[i - 1]) + f[i + 1]
        BY <2>1, <2>2
    <3>2. \A x, y, z \in Nat : (x + y) + z = x + (y + z)
        OBVIOUS
    <3>3. (f[1] + b[i - 1]) + f[i + 1] = f[1] + (b[i - 1] + f[i + 1])
        BY <2>3, <3>2, Zenon
    <3>4. QED
        BY <2>3, <3>1, <3>3, Zenon
  <2>5. QED
      BY <2>1, <2>4
<1>6. n \in T
  <2> HIDE DEF T
  <2>1. QED
      BY <1>4, <1>5, UpTo
<1>7. QED
    BY <1>2, <1>3, <1>6

\* A function that a sum iterates, on the parts of its index set.
Any(s) == CHOOSE x \in s : TRUE

SumLoop(a, f, S) ==
    a = [s \in SUBSET S |-> IF s = {} THEN 0 ELSE f[Any(s)] + a[s \ {Any(s)}]]

\* SumFunction is where its loop ends.
LEMMA SumLoops ==
    ASSUME NEW S, IsFiniteSet(S), NEW f \in [S -> Nat]
    PROVE  \E a \in [SUBSET S -> Nat] : SumLoop(a, f, S) /\ SumFunction(f) = a[S]
<1> DEFINE N == Cardinality(S)
           small(k) == {s \in SUBSET S : Cardinality(s) <= k}
           Next1(g, s) == IF s = {} THEN 0 ELSE f[Any(s)] + g[s \ {Any(s)}]
           Runs(k) == \E g \in [small(k) -> Nat] : \A s \in small(k) : g[s] = Next1(g, s)
<1>1. N \in Nat /\ \A s \in SUBSET S : /\ Cardinality(s) \in Nat /\ Cardinality(s) <= N
                                       /\ Cardinality(s) = 0 <=> s = {}
    BY FS_CardinalityType, FS_Subset, FS_EmptySet
<1>2. \A s \in SUBSET S : s # {} =>
          /\ Any(s) \in s /\ f[Any(s)] \in Nat /\ s \ {Any(s)} \in SUBSET S
          /\ Cardinality(s \ {Any(s)}) = Cardinality(s) - 1
  <2> SUFFICES ASSUME NEW s \in SUBSET S, s # {}
               PROVE  /\ Any(s) \in s /\ f[Any(s)] \in Nat /\ s \ {Any(s)} \in SUBSET S
                      /\ Cardinality(s \ {Any(s)}) = Cardinality(s) - 1
      OBVIOUS
  <2>1. Any(s) \in s
      BY DEF Any
  <2>2. IsFiniteSet(s)
      BY FS_Subset
  <2>3. QED
      BY <2>1, <2>2, FS_RemoveElement
<1> HIDE DEF N
<1>3. Runs(0)
  <2> DEFINE g == [s \in small(0) |-> 0]
  <2>1. \A s \in small(0) : s = {}
      BY <1>1
  <2>2. g \in [small(0) -> Nat] /\ \A s \in small(0) : g[s] = Next1(g, s)
      BY <2>1
  <2>3. QED
      BY <2>2
<1>4. ASSUME NEW k \in 1..N, Runs(k - 1) PROVE Runs(k)
  <2>1. PICK g \in [small(k - 1) -> Nat] : \A s \in small(k - 1) : g[s] = Next1(g, s)
      BY <1>4
  <2> DEFINE h == [s \in small(k) |-> IF s \in small(k - 1) THEN g[s] ELSE Next1(g, s)]
  <2>2. small(k - 1) \subseteq small(k)
      BY <1>1
  <2>3. \A s \in small(k) : s # {} => s \ {Any(s)} \in small(k - 1)
      BY <1>1, <1>2
  <2>4. \A s \in small(k) : Next1(g, s) \in Nat
      BY <1>2, <2>1, <2>3
  <2>5. h \in [small(k) -> Nat]
    <3> HIDE DEF Next1, small
    <3>1. \A s \in small(k) : (IF s \in small(k - 1) THEN g[s] ELSE Next1(g, s)) \in Nat
        BY <2>1, <2>4
    <3>2. QED
        BY <3>1
  <2>6. \A s \in small(k) : h[s] = IF s \in small(k - 1) THEN g[s] ELSE Next1(g, s)
      OBVIOUS
  <2>7. \A s \in small(k) : h[s] = Next1(g, s)
    <3> HIDE DEF Next1, small, h
    <3>1. QED
        BY <2>1, <2>6
  <2>8. \A s \in small(k) : Next1(h, s) = Next1(g, s)
    <3> TAKE s \in small(k)
    <3>1. CASE s = {}
        BY <3>1
    <3>2. CASE s # {}
      <4>1. h[s \ {Any(s)}] = g[s \ {Any(s)}]
        <5> HIDE DEF small, h
        <5>1. QED
            BY <2>2, <2>3, <2>6, <3>2
      <4> HIDE DEF h
      <4>2. QED
          BY <4>1
    <3>3. QED
        BY <3>1, <3>2
  <2> HIDE DEF h, Next1, small
  <2>9. \A s \in small(k) : h[s] = Next1(h, s)
      BY <2>7, <2>8
  <2>10. QED
      BY <2>5, <2>9
<1> DEFINE T == {k \in 0..N : Runs(k)}
<1> HIDE DEF Runs
<1>5. 0 \in T /\ \A k \in 1..N : k - 1 \in T => k \in T
    BY <1>1, <1>3, <1>4
<1>6. Runs(N)
  <2>1. N \in 0..N
      BY <1>1
  <2> HIDE DEF T
  <2>2. N \in T
      BY <1>1, <1>5, <2>1, UpTo
  <2>3. QED
      BY <2>2 DEF T
<1>7. small(N) = SUBSET S
    BY <1>1
<1>8. PICK g \in [SUBSET S -> Nat] : \A s \in SUBSET S : g[s] = Next1(g, s)
    BY <1>6, <1>7 DEF Runs
<1>9. SumLoop(g, f, S)
    BY <1>8 DEF SumLoop
<1> DEFINE a == CHOOSE h : SumLoop(h, f, S)
<1>10. SumLoop(a, f, S)
    BY <1>9
<1>11. SumFunction(f) = a[S]
  <2>1. DOMAIN f = S
      OBVIOUS
  <2>2. SumFunction(f) = (CHOOSE h : SumLoop(h, f, DOMAIN f))[DOMAIN f]
      BY DEF SumFunction, SumFunctionOnSet, FoldFunctionOnSet, MapThenFoldSet, SumLoop, Any
  <2>3. QED
      BY <2>1, <2>2
<1>12. a \in [SUBSET S -> Nat]
  <2> HIDE DEF a
  <2> DEFINE Typed(k) == \A s \in SUBSET S : Cardinality(s) = k => a[s] \in Nat
             U == {k \in 0..N : Typed(k)}
  <2>1. \A s \in SUBSET S : a[s] = Next1(a, s)
      BY <1>10, Zenon DEF SumLoop
  <2>2. 0 \in U
      BY <1>1, <2>1
  <2>3. ASSUME NEW k \in 1..N, k - 1 \in U PROVE k \in U
    <3> SUFFICES ASSUME NEW s \in SUBSET S, Cardinality(s) = k PROVE a[s] \in Nat
        OBVIOUS
    <3>1. s # {}
        BY <1>1
    <3>2. a[s \ {Any(s)}] \in Nat /\ f[Any(s)] \in Nat
        BY <1>2, <2>3, <3>1
    <3>3. a[s] = f[Any(s)] + a[s \ {Any(s)}]
        BY <2>1, <3>1
    <3>4. QED
        BY <3>2, <3>3
  <2>4. \A k \in 0..N : k \in U
    <3> HIDE DEF U
    <3>1. QED
        BY <1>1, <2>2, <2>3, UpTo
  <2>5. \A s \in SUBSET S : a[s] \in Nat
      BY <1>1, <2>4
  <2>6. DOMAIN a = SUBSET S /\ a = [s \in DOMAIN a |-> a[s]]
      BY <1>10 DEF SumLoop
  <2>7. QED
      BY <2>5, <2>6
<1>13. QED
    BY <1>10, <1>11, <1>12

\* A sum over what some positions of a list stand for, each for another, is a
\* total over the list.
LEMMA SumIsTotal ==
    ASSUME NEW S, NEW f \in [S -> Nat], NEW n \in Nat, NEW I \in SUBSET (1..n), NEW b \in [I -> S],
           \A i, j \in I : b[i] = b[j] => i = j,
           \A x \in S : \E i \in I : b[i] = x,
           NEW g, \A i \in 1..n : g[i] = IF i \in I THEN f[b[i]] ELSE 0
    PROVE  SumFunction(f) = Total(g, n)
<1> DEFINE part(s) == [i \in 1..n |-> IF i \in I /\ b[i] \in s THEN f[b[i]] ELSE 0]
           N == Cardinality(S)
<1>1. IsFiniteSet(S)
  <2>1. IsFiniteSet(1..n)
      BY FS_Interval
  <2>2. IsFiniteSet(I)
      BY <2>1, FS_Subset
  <2>3. b \in Surjection(I, S)
      BY DEF Surjection
  <2>4. QED
      BY <2>2, <2>3, FS_Surjection
<1>2. PICK a \in [SUBSET S -> Nat] : SumLoop(a, f, S) /\ SumFunction(f) = a[S]
    BY <1>1, SumLoops
<1>3. \A s \in SUBSET S : a[s] = IF s = {} THEN 0 ELSE f[Any(s)] + a[s \ {Any(s)}]
    BY <1>2, Zenon DEF SumLoop
<1>4. \A s \in SUBSET S : \A i \in 1..n :
          part(s)[i] \in Nat /\ part(s)[i] = IF i \in I /\ b[i] \in s THEN f[b[i]] ELSE 0
    OBVIOUS
<1>5. N \in Nat /\ \A s \in SUBSET S : /\ IsFiniteSet(s) /\ Cardinality(s) \in Nat /\ Cardinality(s) <= N
                                       /\ Cardinality(s) = 0 <=> s = {}
    BY <1>1, FS_CardinalityType, FS_Subset, FS_EmptySet
<1>6. ASSUME NEW s \in SUBSET S, NEW x \in s, a[s \ {x}] = Total(part(s \ {x}), n)
      PROVE  f[x] + a[s \ {x}] = Total(part(s), n)
  <2> DEFINE t == s \ {x}
  <2>1. PICK p \in I : b[p] = x
      OBVIOUS
  <2>2. p \in 1..n /\ f[x] \in Nat /\ t \in SUBSET S
      OBVIOUS
  <2>3. part(t)[p] = 0 /\ part(s)[p] = f[x]
      BY <1>4, <2>1, <2>2
  <2>4. \A i \in 1..n : i # p => part(s)[i] = part(t)[i]
    <3> TAKE i \in 1..n
    <3> HAVE i # p
    <3>1. i \in I => b[i] # x
        BY <2>1
    <3>2. QED
        BY <1>4, <2>2, <3>1
  <2>5. \A i \in 1..n : part(s)[i] \in Nat /\ part(t)[i] \in Nat
      BY <1>4, <2>2
  <2> DEFINE ps == part(s)
             pt == part(t)
  <2> HIDE DEF t, ps, pt, part
  <2>6. MoreAt(ps, pt, n, p, f[x])
      BY <2>2, <2>3, <2>4, <2>5 DEF ps, pt, MoreAt
  <2>7. Total(ps, n) = Total(pt, n) + f[x]
      BY <2>2, <2>6, TotalOfMore
  <2>8. a[t] = Total(pt, n) /\ a[t] \in Nat
      BY <1>2, <1>6, <2>2 DEF t, pt
  <2>9. Total(ps, n) = f[x] + a[t]
      BY <2>2, <2>7, <2>8
  <2>10. QED
      BY <2>9 DEF ps, t
<1> DEFINE Agrees(k) == \A s \in SUBSET S : Cardinality(s) = k => a[s] = Total(part(s), n)
           T == {k \in 0..N : Agrees(k)}
<1>7. 0 \in T
  <2>1. \A i \in 1..n : part({})[i] = 0
      OBVIOUS
  <2> HIDE DEF part
  <2>2. Total(part({}), n) = 0
      BY <2>1, TotalZero
  <2>3. Agrees(0)
      BY <1>3, <1>5, <2>2
  <2> HIDE DEF N
  <2>4. QED
      BY <1>5, <2>3
<1> HIDE DEF part, N
<1>8. ASSUME NEW k \in 1..N, k - 1 \in T PROVE k \in T
  <2>1. SUFFICES ASSUME NEW s \in SUBSET S, Cardinality(s) = k PROVE a[s] = Total(part(s), n)
      OBVIOUS
  <2>2. s # {} /\ Any(s) \in s
      BY <1>5, <2>1 DEF Any
  <2>3. s \ {Any(s)} \in SUBSET S /\ Cardinality(s \ {Any(s)}) = k - 1
      BY <1>5, <2>1, <2>2, FS_RemoveElement
  <2>4. a[s \ {Any(s)}] = Total(part(s \ {Any(s)}), n)
      BY <1>8, <2>3
  <2>5. f[Any(s)] + a[s \ {Any(s)}] = Total(part(s), n)
      BY <1>6, <2>2, <2>4
  <2>6. QED
      BY <1>3, <2>2, <2>5
<1>9. Agrees(N)
  <2> HIDE DEF Agrees
  <2>1. N \in T
    <3> HIDE DEF T
    <3>1. QED
        BY <1>5, <1>7, <1>8, UpTo
  <2>2. QED
      BY <2>1
<1>10. a[S] = Total(part(S), n)
    BY <1>9 DEF N
<1>11. Total(part(S), n) = Total(g, n)
  <2>1. \A i \in 1..n : part(S)[i] = g[i] /\ g[i] \in Nat
      BY <1>4 DEF part
  <2>2. QED
      BY <2>1, TotalsAgree
<1>12. QED
    BY <1>2, <1>10, <1>11

\* Of some positions of a list, one has the best score and comes first of these.
Foremost(i, I, score) == \A j \in I : score[i] > score[j] \/ (score[i] = score[j] /\ i <= j)

\* Of some positions with scores one comes first: CHOOSE over such positions, as in
\* Best, Strongest and Resolution, has what to choose.
LEMMA ForemostExists ==
    ASSUME NEW n \in Nat, NEW I \in SUBSET (1..n), I # {}, NEW score, \A i \in I : score[i] \in Nat
    PROVE  \E i \in I : Foremost(i, I, score)
<1> DEFINE first(m) == I \cap (1..m)
           Has(m) == first(m) # {} => \E i \in first(m) : Foremost(i, first(m), score)
<1>1. Has(0)
    OBVIOUS
<1>2. ASSUME NEW m \in 1..n, Has(m - 1) PROVE Has(m)
  <2>1. \A i \in first(m) : i = m \/ i \in first(m - 1)
      OBVIOUS
  <2>2. first(m - 1) \subseteq first(m) /\ \A i \in first(m - 1) : i < m
      OBVIOUS
  <2>3. \A i \in first(m) : i \in I /\ score[i] \in Nat /\ i \in Nat
      OBVIOUS
  <2> HIDE DEF first
  <2>4. CASE m \notin first(m)
    <3>1. first(m) = first(m - 1)
        BY <2>1, <2>2, <2>4
    <3>2. QED
        BY <1>2, <3>1
  <2>5. CASE m \in first(m) /\ first(m - 1) = {}
    <3>1. Foremost(m, first(m), score)
        BY <2>1, <2>3, <2>5 DEF Foremost
    <3>2. QED
        BY <2>5, <3>1
  <2>6. CASE m \in first(m) /\ first(m - 1) # {}
    <3>1. PICK i \in first(m - 1) : Foremost(i, first(m - 1), score)
        BY <1>2, <2>6
    <3>2. i \in first(m) /\ i < m /\ score[i] \in Nat /\ score[m] \in Nat
        BY <2>2, <2>3, <2>6
    <3>3. CASE score[m] > score[i]
      <4>1. Foremost(m, first(m), score)
        <5> SUFFICES ASSUME NEW j \in first(m)
                     PROVE  score[m] > score[j] \/ (score[m] = score[j] /\ m <= j)
            BY DEF Foremost
        <5>1. CASE j = m
            BY <5>1, <2>3, <2>6
        <5>2. CASE j \in first(m - 1)
          <6>1. score[i] > score[j] \/ score[i] = score[j]
              BY <3>1, <5>2 DEF Foremost
          <6>2. QED
              BY <6>1, <3>2, <3>3, <2>3
        <5>3. QED
            BY <5>1, <5>2, <2>1
      <4>2. QED
          BY <4>1, <2>6
    <3>4. CASE ~(score[m] > score[i])
      <4>1. Foremost(i, first(m), score)
        <5> SUFFICES ASSUME NEW j \in first(m)
                     PROVE  score[i] > score[j] \/ (score[i] = score[j] /\ i <= j)
            BY DEF Foremost
        <5>1. CASE j = m
            BY <5>1, <3>2, <3>4
        <5>2. CASE j \in first(m - 1)
            BY <3>1, <5>2 DEF Foremost
        <5>3. QED
            BY <5>1, <5>2, <2>1
      <4>2. QED
          BY <4>1, <3>2
    <3>5. QED
        BY <3>3, <3>4
  <2>7. QED
      BY <2>4, <2>5, <2>6
<1> HIDE DEF Has
<1> DEFINE T == {m \in 0..n : Has(m)}
<1>3. first(n) = I /\ n \in 0..n
  <2>1. first(n) = I
      OBVIOUS
  <2>2. QED
      BY <2>1
<1>4. 0 \in T /\ \A m \in 1..n : m - 1 \in T => m \in T
    BY <1>1, <1>2
<1> HIDE DEF T
<1>5. n \in T
    BY <1>3, <1>4, UpTo
<1>6. QED
    BY <1>3, <1>5 DEF T, Has

\* Of those with the best score, one has the least order, and comes first of these.
Ahead(i, I, score, order) ==
    \A j \in I :
        \/ score[i] > score[j]
        \/ score[i] = score[j] /\ (order[i] < order[j] \/ (order[i] = order[j] /\ i <= j))

\* Of some positions one is ahead: Strongest has what to choose.
LEMMA AheadExists ==
    ASSUME NEW n \in Nat, NEW I \in SUBSET (1..n), I # {}, NEW score, NEW order,
           \A i \in I : score[i] \in Nat /\ order[i] \in Nat
    PROVE  \E i \in I : Ahead(i, I, score, order)
<1>1. PICK b \in I : Foremost(b, I, score)
    BY ForemostExists
<1> DEFINE T == {i \in I : score[i] = score[b]}
           O == {order[i] : i \in T}
<1>2. PICK o \in O : \A x \in O : o <= x
  <2>1. O \in SUBSET Nat /\ O # {}
      BY <1>1
  <2> HIDE DEF O
  <2>2. QED
      BY <2>1, LeastNat
<1> DEFINE U == {i \in T : order[i] = o}
<1>3. PICK a \in U : \A x \in U : a <= x
  <2>1. U \in SUBSET Nat
    <3>1. U \subseteq I
        OBVIOUS
    <3> HIDE DEF U
    <3>2. QED
        BY <3>1
  <2>2. U # {}
    <3>1. PICK i \in T : order[i] = o
        BY <1>2
    <3>2. QED
        BY <3>1
  <2> HIDE DEF U
  <2>3. QED
      BY <2>1, <2>2, LeastNat
<1>4. a \in I /\ score[a] = score[b] /\ order[a] = o
    OBVIOUS
<1>5. ASSUME NEW j \in I
      PROVE  \/ score[a] > score[j]
             \/ score[a] = score[j] /\ (order[a] < order[j] \/ (order[a] = order[j] /\ a <= j))
  <2>1. score[b] > score[j] \/ score[b] = score[j]
      BY <1>1 DEF Foremost
  <2>2. CASE score[b] = score[j]
    <3>1. order[j] \in O /\ order[j] \in Nat /\ o \in Nat
        BY <1>4, <2>2
    <3>2. o < order[j] \/ o = order[j]
        BY <1>2, <3>1
    <3>3. o = order[j] => a <= j
        BY <1>3, <2>2
    <3>4. QED
        BY <1>4, <2>2, <3>2, <3>3
  <2>3. QED
      BY <1>4, <2>1, <2>2
<1>6. QED
    BY <1>4, <1>5 DEF Ahead

-----------------------------------------------------------------------------
(* Rows and the memories they were written from.                           *)

\* What the row of a memory is, under a key.
RowOf(m, k) == [public |-> PublicRow(m), sealed |-> SensitivePayload(m), key |-> k]

StatementRow == {RowOf(m, k) : m \in Written, k \in Key}

\* The row was written from the memory.
StoredAs(row, m) == row.public = PublicRow(m) /\ row.sealed = SensitivePayload(m)

\* What is read from the row of a memory.
ReadBack(m) == MergeMemoryStatement(PublicRow(m), SensitivePayload(m))

\* What the assumption on the memories that are written says of one of them.
LEMMA WrittenFields ==
    ASSUME NEW m \in Written
    PROVE  /\ m \in Memory /\ FieldOf(m) \in Field /\ FieldOf(m) # ""
           /\ Or(m.status, Or(m.state, "active")) \in Status
           /\ Or(m.state, "active") \in Status
           /\ Or(m.sensitivity, "normal") \in {"normal", "sensitive"}
           /\ m.created \in 0..MaxDay /\ MaxDay \in Nat /\ m.confidence \in Nat /\ m.id \in MemoryId
<1>1. m \in Memory /\ (m.field_path # "" \/ m.path # "") /\ MaxDay \in Nat
    BY WrittenAssumption
<1>2. /\ m.field_path \in Field \cup {""} /\ m.path \in Field \cup {""}
      /\ m.status \in Status \cup {""} /\ m.state \in Status \cup {""}
      /\ m.sensitivity \in {"", "normal", "sensitive"}
      /\ m.created \in 0..MaxDay /\ m.confidence \in Nat /\ m.id \in MemoryId
    BY <1>1 DEF Memory
<1>3. FieldOf(m) \in Field /\ FieldOf(m) # ""
    BY <1>1, <1>2 DEF FieldOf, Or
<1>4. "active" \in Status
    BY DEF Status
<1>5. Or(m.state, "active") \in Status
    BY <1>2, <1>4 DEF Or
<1>6. Or(m.status, Or(m.state, "active")) \in Status
    BY <1>2, <1>5 DEF Or
<1>7. QED
    BY <1>1, <1>2, <1>3, <1>5, <1>6 DEF Or

\* What is read from a row: the columns and the payload, defaults filled in.
LEMMA ReadBackFields ==
    ASSUME NEW m \in Written
    PROVE  /\ ReadBack(m) \in Memory
           /\ ReadBack(m).id = m.id /\ ReadBack(m).path = ""
           /\ ReadBack(m).field_path = FieldOf(m)
           /\ ReadBack(m).status = Or(m.status, Or(m.state, "active"))
           /\ ReadBack(m).state = Or(m.state, "active")
           /\ ReadBack(m).sensitivity = Or(m.sensitivity, "normal")
           /\ ReadBack(m).apps = m.apps /\ ReadBack(m).worker = m.worker
           /\ ReadBack(m).nested = m.nested /\ ReadBack(m).value = m.value
           /\ ReadBack(m).context = m.context /\ ReadBack(m).aside = m.aside
           /\ ReadBack(m).entry_type = m.entry_type /\ ReadBack(m).confidence = m.confidence
           /\ ReadBack(m).date = m.date /\ ReadBack(m).created = m.created
<1> DEFINE r == ReadBack(m)
           id == m.id
           field == FieldOf(m)
           status == Or(m.status, Or(m.state, "active"))
           state == Or(m.state, "active")
           sensitivity == Or(m.sensitivity, "normal")
           apps == m.apps
           worker == m.worker
           nested == m.nested
           value == m.value
           context == m.context
           aside == m.aside
           date == m.date
           type == m.entry_type
           confidence == m.confidence
           created == m.created
<1>1. r = [id |-> id, field_path |-> field, path |-> "", status |-> status, state |-> state,
           sensitivity |-> sensitivity, apps |-> apps, worker |-> worker, nested |-> nested,
           value |-> value, context |-> context, aside |-> aside, entry_type |-> type,
           confidence |-> confidence, date |-> date, created |-> created]
    BY DEF ReadBack, MergeMemoryStatement, PublicRow, SensitivePayload, FieldOf
<1>2. /\ id \in MemoryId /\ field \in Field /\ status \in Status /\ state \in Status
      /\ sensitivity \in {"normal", "sensitive"} /\ confidence \in Nat /\ created \in 0..MaxDay
    BY WrittenFields
<1>3. /\ apps \in SUBSET App /\ worker \in BOOLEAN /\ nested \in {"", "normal", "sensitive"}
      /\ value \in Value \cup {""} /\ type \in EntryType /\ date \in {"given", "none", "unreadable"}
      /\ context \in Value \cup {""} /\ aside \in Value
    BY WrittenFields DEF Memory
<1> HIDE DEF r, id, field, status, state, sensitivity, apps, worker, nested, value, context, aside, date, type, confidence, created
<1>4. r \in Memory
    BY <1>1, <1>2, <1>3 DEF Memory
<1>5. /\ r.id = id /\ r.path = "" /\ r.field_path = field /\ r.status = status /\ r.state = state
      /\ r.sensitivity = sensitivity /\ r.apps = apps /\ r.worker = worker /\ r.nested = nested
      /\ r.value = value /\ r.context = context /\ r.aside = aside /\ r.entry_type = type
      /\ r.confidence = confidence /\ r.date = date /\ r.created = created
    BY <1>1
<1>6. QED
    BY <1>4, <1>5
       DEF r, id, field, status, state, sensitivity, apps, worker, nested, value, context, aside, date,
           type, confidence, created

\* The defaults of a row that is read are not filled in again.
LEMMA NormalIsReadBack ==
    ASSUME NEW m \in Written
    PROVE  /\ NormalizeMemoryRecord(ReadBack(m)) = ReadBack(m)
           /\ PublicRow(ReadBack(m)) = PublicRow(m)
           /\ SensitivePayload(ReadBack(m)) = SensitivePayload(m)
<1> DEFINE r == ReadBack(m)
<1>1. r.field_path # "" /\ r.status # "" /\ r.state # "" /\ r.sensitivity # ""
  <2>1. "" \notin Status
      BY DEF Status
  <2>2. QED
      BY <2>1, WrittenFields, ReadBackFields
<1>2. /\ Or(r.field_path, r.path) = r.field_path
      /\ Or(r.status, Or(r.state, "accepted")) = r.status
      /\ Or(r.status, Or(r.state, "active")) = r.status
      /\ Or(r.state, "active") = r.state
      /\ Or(r.sensitivity, Or(r.nested, "normal")) = r.sensitivity
      /\ Or(r.sensitivity, "normal") = r.sensitivity
    BY <1>1 DEF Or
<1>3. NormalizeMemoryRecord(r) = r
  <2>1. r \in Memory
      BY ReadBackFields
  <2> HIDE DEF r
  <2>2. NormalizeMemoryRecord(r) =
            [r EXCEPT !.field_path = r.field_path, !.status = r.status, !.sensitivity = r.sensitivity]
      BY <1>2 DEF NormalizeMemoryRecord
  <2>3. QED
      BY <2>1, <2>2 DEF Memory
<1>4. PublicRow(r) = PublicRow(m)
    BY <1>2, ReadBackFields DEF PublicRow, FieldOf
<1>5. SensitivePayload(r) = SensitivePayload(m)
    BY ReadBackFields DEF SensitivePayload
<1>6. QED
    BY <1>3, <1>4, <1>5

\* An attribute does not make a memory sensitive that its own field does not.  The
\* row takes "normal" for a missing field, and then the attribute is never read:
\* without this hypothesis packets quote what is not shared, see NestedSensitivity.
SensitivityIsAField == \A m \in Written : m.nested = "sensitive" => m.sensitivity # ""

\* Then the filter permits what the writer shares.
LEMMA PermittedIsShared ==
    ASSUME NEW m \in Written, NEW request, SensitivityIsAField
    PROVE  Permitted(ReadBack(m), request) <=> Shared(m, request)
<1> DEFINE r == ReadBack(m)
<1>1. Or(m.status, Or(m.state, "accepted")) \in ApprovedStatus <=> r.status \in ApprovedStatus
  <2>1. "active" \in ApprovedStatus /\ "accepted" \in ApprovedStatus
      BY DEF ApprovedStatus
  <2>2. r.status = Or(m.status, Or(m.state, "active"))
      BY ReadBackFields
  <2>3. QED
      BY <2>1, <2>2 DEF Or
<1>2. Or(m.sensitivity, m.nested) = "sensitive" <=> r.sensitivity = "sensitive"
  <2>1. r.sensitivity = Or(m.sensitivity, "normal")
      BY ReadBackFields
  <2>2. m.nested = "sensitive" => m.sensitivity # ""
      BY DEF SensitivityIsAField
  <2>3. QED
      BY <2>1, <2>2 DEF Or
<1>3. r.field_path = FieldOf(m) /\ r.field_path # "" /\ r.apps = m.apps /\ r.worker = m.worker
    BY ReadBackFields, WrittenFields
<1>4. Permitted(r, request) <=>
          /\ r.status \in ApprovedStatus
          /\ request.categories = {} \/ FieldCategory[FieldOf(m)] \in request.categories
          /\ m.apps = {} \/ request.app \in m.apps
          /\ m.worker
          /\ r.sensitivity = "sensitive" => FieldOf(m) \in request.sensitive
          /\ FieldOf(m) \notin Blocked
  <2> HIDE DEF r
  <2>1. QED
      BY <1>3 DEF Permitted, IsApproved, IsAllowedForApp
<1>5. QED
  <2> HIDE DEF r
  <2>1. Permitted(r, request) <=> Shared(m, request)
      BY <1>1, <1>2, <1>4 DEF Shared
  <2>2. QED
      BY <2>1 DEF r

-----------------------------------------------------------------------------
(* The table holds the memories that were written.                         *)

RowsOf(list, set) ==
    /\ list \in Seq(StatementRow)
    /\ \A i \in 1..Len(list) : \E m \in set : StoredAs(list[i], m)
    /\ \A m \in set : \E i \in 1..Len(list) : StoredAs(list[i], m)
    /\ \A i, j \in 1..Len(list) : list[i].public.id = list[j].public.id => i = j
    /\ \A m, n \in set : m.id = n.id => m = n

TableInvariant ==
    /\ key \in Key /\ today \in 0..MaxDay
    /\ wrote \subseteq Written /\ \A m \in wrote : m.created <= today
    /\ RowsOf(rows, wrote)

\* A row has the id of its memory.
LEMMA StoredId ==
    ASSUME NEW row, NEW m, StoredAs(row, m)
    PROVE  row.public.id = m.id
BY DEF StoredAs, PublicRow

\* The row that is made of a memory is a row of that memory.
LEMMA RowIsStored ==
    ASSUME NEW m \in Written, NEW k \in Key
    PROVE  RowOf(m, k) \in StatementRow /\ StoredAs(RowOf(m, k), m)
BY DEF RowOf, StatementRow, StoredAs

\* Without the row of an id, the table holds the other memories.
LEMMA OthersStay ==
    ASSUME TableInvariant, NEW id
    PROVE  LET q == Kept(rows, {i \in DOMAIN rows : rows[i].public.id # id})
           IN /\ RowsOf(q, {n \in wrote : n.id # id})
              /\ \A k \in 1..Len(q) : q[k].public.id # id
<1> DEFINE keep == {i \in DOMAIN rows : rows[i].public.id # id}
           q == Kept(rows, keep)
           left == {n \in wrote : n.id # id}
<1>1. /\ rows \in Seq(StatementRow) /\ DOMAIN rows = 1..Len(rows)
      /\ \A i \in 1..Len(rows) : \E m \in wrote : StoredAs(rows[i], m)
      /\ \A m \in wrote : \E i \in 1..Len(rows) : StoredAs(rows[i], m)
      /\ \A i, j \in 1..Len(rows) : rows[i].public.id = rows[j].public.id => i = j
      /\ \A m, n \in wrote : m.id = n.id => m = n
    BY DEF TableInvariant, RowsOf
<1>2. keep \in SUBSET (1..Len(rows))
    BY <1>1
<1> HIDE DEF keep
<1>3. q \in Seq(StatementRow)
    BY <1>1, <1>2, KeptPositions
<1>4. PICK at \in [1..Len(q) -> keep] :
          /\ \A k \in 1..Len(q) : q[k] = rows[at[k]]
          /\ \A j, k \in 1..Len(q) : at[j] = at[k] => j = k
          /\ \A i \in keep : \E k \in 1..Len(q) : at[k] = i
    BY <1>1, <1>2, KeptPositions
<1> HIDE DEF q
<1>5. \A k \in 1..Len(q) : at[k] \in keep /\ at[k] \in 1..Len(rows) /\ q[k].public.id # id
    BY <1>1, <1>4 DEF keep
<1>6. ASSUME NEW k \in 1..Len(q) PROVE \E m \in left : StoredAs(q[k], m)
  <2>1. PICK m \in wrote : StoredAs(rows[at[k]], m)
      BY <1>1, <1>5
  <2>2. StoredAs(q[k], m) /\ m.id # id
      BY <2>1, <1>4, <1>5, StoredId
  <2>3. QED
      BY <2>2
<1>7. ASSUME NEW m \in left PROVE \E k \in 1..Len(q) : StoredAs(q[k], m)
  <2>1. PICK i \in 1..Len(rows) : StoredAs(rows[i], m)
      BY <1>1
  <2>2. rows[i].public.id = m.id
      BY <2>1, StoredId
  <2>3. i \in keep
      BY <1>1, <2>2 DEF keep
  <2>4. PICK k \in 1..Len(q) : at[k] = i
      BY <1>4, <2>3
  <2>5. QED
      BY <1>4, <2>1, <2>4
<1>8. ASSUME NEW j \in 1..Len(q), NEW k \in 1..Len(q), q[j].public.id = q[k].public.id PROVE j = k
  <2>1. rows[at[j]].public.id = rows[at[k]].public.id
      BY <1>4, <1>8
  <2>2. at[j] = at[k]
      BY <1>1, <1>5, <2>1
  <2>3. QED
      BY <1>4, <2>2
<1>9. RowsOf(q, left)
    BY <1>1, <1>3, <1>6, <1>7, <1>8 DEF RowsOf
<1>10. QED
    BY <1>5, <1>9 DEF q, keep

\* A delete leaves the rows and the memories of the other ids.
LEMMA DropKeepsTable ==
    ASSUME TableInvariant, NEW id \in MemoryId, Drop(id)
    PROVE  TableInvariant'
<1> DEFINE q == Kept(rows, {i \in DOMAIN rows : rows[i].public.id # id})
           left == {n \in wrote : n.id # id}
<1>1. rows' = q /\ wrote' = left /\ key' = key /\ today' = today
    BY DEF Drop, Delete
<1>2. RowsOf(q, left)
    BY OthersStay
<1>3. key' \in Key /\ today' \in 0..MaxDay
    BY <1>1 DEF TableInvariant
<1>4. wrote' \subseteq Written /\ \A m \in wrote' : m.created <= today'
    BY <1>1 DEF TableInvariant
<1> HIDE DEF q, left
<1>5. RowsOf(rows', wrote')
    BY <1>1, <1>2
<1>6. QED
    BY <1>3, <1>4, <1>5 DEF TableInvariant, RowsOf

\* An upsert replaces the row and the memory of its id, and no other.
LEMMA WriteKeepsTable ==
    ASSUME TableInvariant, NEW m \in Written, Write(m)
    PROVE  TableInvariant'
<1> DEFINE q == Kept(rows, {i \in DOMAIN rows : rows[i].public.id # m.id})
           left == {n \in wrote : n.id # m.id}
           new == RowOf(m, key)
           list == <<new>> \o q
<1>1. /\ rows' = list /\ wrote' = left \cup {m} /\ key' = key /\ today' = today
      /\ m.created <= today
    BY DEF Write, Upsert, EncryptStatementRow, RowOf
<1>2. RowsOf(q, left) /\ \A k \in 1..Len(q) : q[k].public.id # m.id
    BY OthersStay
<1>3. key' \in Key /\ today' \in 0..MaxDay
    BY <1>1 DEF TableInvariant
<1>4. wrote' \subseteq Written /\ \A n \in wrote' : n.created <= today'
    BY <1>1 DEF TableInvariant
<1>5. new \in StatementRow /\ StoredAs(new, m) /\ new.public.id = m.id
    BY RowIsStored, StoredId DEF TableInvariant
<1> HIDE DEF q, left, new
<1>6. q \in Seq(StatementRow) /\ Len(q) \in Nat
    BY <1>2 DEF RowsOf
<1>7. list \in Seq(StatementRow)
    BY <1>5, <1>6
<1>8. Len(list) = Len(q) + 1 /\ list[1] = new /\ \A k \in 1..Len(q) : list[k + 1] = q[k]
    BY <1>5, <1>6
<1> HIDE DEF list
<1>9. \A i \in 1..Len(list) : i = 1 \/ (i - 1 \in 1..Len(q) /\ list[i] = q[i - 1])
    BY <1>6, <1>8
<1>10. ASSUME NEW i \in 1..Len(list) PROVE \E n \in left \cup {m} : StoredAs(list[i], n)
  <2>1. CASE i = 1
      BY <2>1, <1>5, <1>8
  <2>2. CASE i # 1
      BY <2>2, <1>2, <1>9 DEF RowsOf
  <2>3. QED
      BY <2>1, <2>2
<1>11. ASSUME NEW n \in left \cup {m} PROVE \E i \in 1..Len(list) : StoredAs(list[i], n)
  <2>1. CASE n = m
    <3>1. 1 \in 1..Len(list)
        BY <1>6, <1>8
    <3>2. QED
        BY <2>1, <3>1, <1>5, <1>8
  <2>2. CASE n \in left
    <3>1. PICK k \in 1..Len(q) : StoredAs(q[k], n)
        BY <2>2, <1>2 DEF RowsOf
    <3>2. k + 1 \in 1..Len(list) /\ list[k + 1] = q[k]
        BY <1>6, <1>8
    <3>3. QED
        BY <3>1, <3>2
  <2>3. QED
      BY <2>1, <2>2
<1>12. ASSUME NEW i \in 1..Len(list), NEW j \in 1..Len(list), list[i].public.id = list[j].public.id
       PROVE  i = j
  <2>1. CASE i # 1 /\ j # 1
    <3>1. i - 1 \in 1..Len(q) /\ j - 1 \in 1..Len(q) /\ q[i - 1].public.id = q[j - 1].public.id
        BY <2>1, <1>9, <1>12
    <3>2. i - 1 = j - 1
        BY <3>1, <1>2 DEF RowsOf
    <3>3. QED
        BY <3>2
  <2>2. \A k \in 1..Len(list) : k # 1 => list[k].public.id # m.id
      BY <1>2, <1>9
  <2>3. QED
      BY <2>1, <2>2, <1>5, <1>8, <1>12
<1>13. \A x, y \in left \cup {m} : x.id = y.id => x = y
    BY <1>2 DEF RowsOf, left
<1>14. RowsOf(list, left \cup {m})
    BY <1>7, <1>10, <1>11, <1>12, <1>13 DEF RowsOf
<1>15. RowsOf(rows', wrote')
    BY <1>1, <1>14
<1>16. QED
    BY <1>3, <1>4, <1>15 DEF TableInvariant, RowsOf

\* Days, restarts and questions leave the table alone.
LEMMA RestKeepsTable ==
    ASSUME TableInvariant, UNCHANGED <<rows, key, today, wrote>> \/ Pass
    PROVE  TableInvariant'
<1>1. rows' = rows /\ wrote' = wrote
    BY DEF Pass, Day, Restart
<1>2. key' \in Key
    BY DEF TableInvariant, Pass, Day, Restart
<1>3. today' \in 0..MaxDay /\ today <= today' /\ today \in Nat /\ today' \in Nat
  <2>1. MaxDay \in Nat /\ today \in 0..MaxDay
      BY WrittenAssumption DEF TableInvariant
  <2>2. today' = today \/ (today < MaxDay /\ today' = today + 1)
      BY DEF Pass, Day, Restart
  <2>3. QED
      BY <2>1, <2>2
<1>4. \A m \in wrote : m.created <= today'
  <2> TAKE m \in wrote
  <2>1. m.created <= today /\ m \in Written
      BY DEF TableInvariant
  <2>2. m.created \in 0..MaxDay
      BY <2>1, WrittenFields
  <2>3. QED
      BY <1>3, <2>1, <2>2
<1>5. wrote \subseteq Written /\ RowsOf(rows, wrote)
    BY DEF TableInvariant
<1>6. RowsOf(rows', wrote')
    BY <1>1, <1>5
<1>7. QED
    BY <1>1, <1>2, <1>3, <1>4, <1>5, <1>6 DEF TableInvariant, RowsOf

-----------------------------------------------------------------------------
(* The filter of an application.                                           *)

\* The records that a packet is built from.
Record == {r \in Memory : r.field_path \in Field /\ r.created <= today}

\* What is listed is read back from the memories that were written.
LEMMA ListedIsReadBack ==
    ASSUME TableInvariant
    PROVE  /\ DOMAIN Listed = 1..Len(rows) /\ Len(rows) \in Nat
           /\ \A i \in 1..Len(rows) : \E m \in wrote : Listed[i] = ReadBack(m)
           /\ \A m \in wrote : \E i \in 1..Len(rows) : Listed[i] = ReadBack(m)
           /\ \A i, j \in 1..Len(rows) : Listed[i].id = Listed[j].id => i = j
<1>1. rows \in Seq(StatementRow) /\ DOMAIN rows = 1..Len(rows) /\ Len(rows) \in Nat
    BY DEF TableInvariant, RowsOf
<1>2. DOMAIN Listed = 1..Len(rows) /\ \A i \in 1..Len(rows) : Listed[i] = DecryptStatementRow(rows[i])
    BY <1>1 DEF Listed
<1>3. \A row, m : StoredAs(row, m) => DecryptStatementRow(row) = ReadBack(m)
    BY DEF StoredAs, DecryptStatementRow, ReadBack
<1>4. \A row : DecryptStatementRow(row).id = row.public.id
    BY DEF DecryptStatementRow, MergeMemoryStatement
<1>5. ASSUME NEW i \in 1..Len(rows), NEW j \in 1..Len(rows), Listed[i].id = Listed[j].id
      PROVE  i = j
  <2>1. Listed[i] = DecryptStatementRow(rows[i]) /\ Listed[j] = DecryptStatementRow(rows[j])
      BY <1>2, Zenon
  <2>2. rows[i].public.id = rows[j].public.id
      BY <1>4, <1>5, <2>1, Zenon
  <2>3. QED
      BY <2>2, Zenon DEF TableInvariant, RowsOf
<1>6. QED
    BY <1>1, <1>2, <1>3, <1>5 DEF TableInvariant, RowsOf

\* What is listed needs no default any more.
NormalList == [i \in DOMAIN Listed |-> NormalizeMemoryRecord(Listed[i])]

\* So normalizing the list is no change.
LEMMA NormalIsListed ==
    ASSUME TableInvariant
    PROVE  /\ NormalList \in Seq(Record) /\ Len(NormalList) = Len(rows)
           /\ \A i \in 1..Len(rows) : NormalList[i] = Listed[i]
           /\ \A i \in 1..Len(rows) : \E m \in wrote : NormalList[i] = ReadBack(m)
<1> DEFINE n == Len(rows)
           normalized == [i \in DOMAIN Listed |-> NormalizeMemoryRecord(Listed[i])]
<1>1. n \in Nat /\ DOMAIN Listed = 1..n
    BY ListedIsReadBack
<1>2. \A i \in 1..n : \E m \in wrote : Listed[i] = ReadBack(m) /\ normalized[i] = ReadBack(m)
  <2> TAKE i \in 1..n
  <2>1. PICK m \in wrote : Listed[i] = ReadBack(m)
      BY ListedIsReadBack
  <2>2. m \in Written
      BY DEF TableInvariant
  <2>3. normalized[i] = ReadBack(m)
    <3>1. normalized[i] = NormalizeMemoryRecord(Listed[i])
        BY <1>1
    <3> HIDE DEF normalized
    <3>2. QED
        BY <3>1, <2>1, <2>2, NormalIsReadBack
  <2>4. QED
      BY <2>1, <2>3
<1>3. \A i \in 1..n : normalized[i] = Listed[i]
    BY <1>2
<1>4. normalized \in Seq(Record) /\ Len(normalized) = n
  <2>1. \A m \in wrote : ReadBack(m) \in Record
    <3> TAKE m \in wrote
    <3>1. m \in Written /\ m.created <= today
        BY DEF TableInvariant
    <3>2. ReadBack(m) \in Memory /\ ReadBack(m).field_path \in Field /\ ReadBack(m).created <= today
        BY <3>1, ReadBackFields, WrittenFields
    <3>3. QED
        BY <3>2 DEF Record
  <2>2. \A i \in 1..n : normalized[i] \in Record
      BY <1>2, <2>1
  <2>3. normalized = [i \in 1..n |-> normalized[i]]
      BY <1>1
  <2> HIDE DEF normalized, n
  <2>4. normalized \in [1..n -> Record]
      BY <2>2, <2>3
  <2>5. QED
      BY <1>1, <2>4
<1>5. QED
    BY <1>2, <1>3, <1>4 DEF NormalList

\* The filter has the records of the memories that are shared, and no others.
Tells(list, request) ==
    /\ list \in Seq(Record)
    /\ \A k \in 1..Len(list) : \E m \in wrote : Shared(m, request) /\ list[k] = ReadBack(m)
    /\ \A m \in wrote : Shared(m, request) => \E k \in 1..Len(list) : list[k] = ReadBack(m)
    /\ \A j, k \in 1..Len(list) : list[j].id = list[k].id => j = k

\* The filter keeps what the writers share and nothing else.
LEMMA FilterTells ==
    ASSUME TableInvariant, SensitivityIsAField, NEW request
    PROVE  Tells(FilterApprovedTaskMemory(Listed, request), request)
<1> DEFINE normalized == NormalList
           keep == {i \in DOMAIN Listed : Permitted(normalized[i], request)}
           q == Kept(normalized, keep)
           n == Len(rows)
<1>1. n \in Nat /\ DOMAIN Listed = 1..n
    BY ListedIsReadBack
<1>2. \A i \in 1..n : \E m \in wrote : normalized[i] = ReadBack(m)
    BY NormalIsListed
<1>3. \A i \in 1..n : normalized[i] = Listed[i]
    BY NormalIsListed
<1>4. normalized \in Seq(Record) /\ Len(normalized) = n
    BY NormalIsListed
<1>5. keep \in SUBSET (1..Len(normalized)) /\ keep = {i \in 1..n : Permitted(normalized[i], request)}
    BY <1>1, <1>4
<1> HIDE DEF normalized, keep, n
<1>6. q \in Seq(Record)
    BY <1>4, <1>5, KeptPositions
<1>7. PICK at \in [1..Len(q) -> keep] :
          /\ \A k \in 1..Len(q) : q[k] = normalized[at[k]]
          /\ \A j, k \in 1..Len(q) : at[j] = at[k] => j = k
          /\ \A i \in keep : \E k \in 1..Len(q) : at[k] = i
  <2> HIDE DEF q
  <2>1. normalized \in Seq(Record) /\ keep \in SUBSET (1..Len(normalized))
      BY <1>4, <1>5
  <2>2. q = Kept(normalized, keep)
      BY DEF q
  <2>3. QED
      BY <2>1, <2>2, KeptPositions
<1> HIDE DEF q
<1>8. \A m \in wrote : Permitted(ReadBack(m), request) <=> Shared(m, request)
    BY PermittedIsShared DEF TableInvariant
<1>9. ASSUME NEW k \in 1..Len(q) PROVE \E m \in wrote : Shared(m, request) /\ q[k] = ReadBack(m)
  <2>1. at[k] \in keep /\ at[k] \in 1..n /\ Permitted(normalized[at[k]], request)
      BY <1>5, <1>7
  <2>2. PICK m \in wrote : normalized[at[k]] = ReadBack(m)
      BY <1>2, <2>1
  <2>3. Shared(m, request) /\ q[k] = ReadBack(m)
      BY <1>7, <1>8, <2>1, <2>2
  <2>4. QED
      BY <2>3
<1>10. ASSUME NEW m \in wrote, Shared(m, request) PROVE \E k \in 1..Len(q) : q[k] = ReadBack(m)
  <2>1. PICK i \in 1..n : Listed[i] = ReadBack(m)
      BY ListedIsReadBack DEF n
  <2>2. normalized[i] = ReadBack(m) /\ i \in keep
      BY <1>3, <1>5, <1>8, <1>10, <2>1
  <2>3. PICK k \in 1..Len(q) : at[k] = i
      BY <1>7, <2>2
  <2>4. QED
      BY <1>7, <2>2, <2>3
<1>11. ASSUME NEW j \in 1..Len(q), NEW k \in 1..Len(q), q[j].id = q[k].id PROVE j = k
  <2>1. at[j] \in 1..n /\ at[k] \in 1..n /\ Listed[at[j]].id = Listed[at[k]].id
      BY <1>3, <1>5, <1>7, <1>11
  <2>2. at[j] = at[k]
      BY <2>1, ListedIsReadBack DEF n
  <2>3. QED
      BY <1>7, <2>2
<1>12. Tells(q, request)
    BY <1>6, <1>9, <1>10, <1>11 DEF Tells
<1>13. FilterApprovedTaskMemory(Listed, request) = q
    BY DEF FilterApprovedTaskMemory, q, normalized, keep, NormalList
<1>14. QED
    BY <1>12, <1>13

-----------------------------------------------------------------------------
(* What is chosen among records.                                           *)

\* What a record says for its value is a natural, for its age is within the table.
LEMMA WeightIsNat ==
    ASSUME TableInvariant, NEW r \in Record
    PROVE  Weight(r) \in Nat
<1> DEFINE age == today - CreatedOn(r)
           fresh == Freshness[r.field_path][age]
           type == TypeWeight[r.entry_type]
<1>1. r \in Memory /\ r.field_path \in Field /\ r.created <= today
    BY DEF Record
<1>2. r.entry_type \in EntryType /\ r.confidence \in Nat /\ r.created \in 0..MaxDay
    BY <1>1 DEF Memory
<1>3. today \in 0..MaxDay /\ MaxDay \in Nat
    BY WrittenAssumption DEF TableInvariant
<1>4. age \in 0..MaxDay
    BY <1>1, <1>2, <1>3 DEF CreatedOn
<1> HIDE DEF age
<1>5. type \in Nat /\ fresh \in Nat
    BY <1>1, <1>2, <1>4, PacketAssumption
<1>6. Weight(r) = type * r.confidence * fresh
    BY DEF Weight, age
<1> HIDE DEF type, fresh
<1>7. \A x, y \in Nat : x * y \in Nat
    OBVIOUS
<1>8. QED
    BY <1>2, <1>5, <1>6, <1>7

\* So is what the records of a group say for it together.
LEMMA EvidenceIsNat ==
    ASSUME TableInvariant, NEW records \in Seq(Record), NEW field, NEW text
    PROVE  Evidence(records, field, text) \in Nat
<1> DEFINE holders == Holders(records, field, text)
           f == [i \in DOMAIN records |-> IF i \in holders THEN Weight(records[i]) ELSE 0]
           n == Len(records)
<1>1. n \in Nat /\ DOMAIN records = 1..n /\ \A i \in 1..n : records[i] \in Record
    BY LenProperties, ElementOfSeq
<1>2. \A i \in 1..n : f[i] \in Nat
  <2> TAKE i \in 1..n
  <2>1. Weight(records[i]) \in Nat
      BY <1>1, WeightIsNat
  <2>2. f[i] = IF i \in holders THEN Weight(records[i]) ELSE 0
      BY <1>1
  <2> HIDE DEF f, holders
  <2>3. QED
      BY <2>1, <2>2
<1>3. Evidence(records, field, text) = Total(f, n)
    BY DEF Evidence
<1> HIDE DEF f, n
<1>4. QED
    BY <1>1, <1>2, <1>3, TotalNat

\* A field that has a record has a strongest group: that of one of its records, of
\* which none has more evidence, or as much and comes earlier in its order.
LEMMA StrongestIsHeld ==
    ASSUME TableInvariant, NEW records \in Seq(Record), NEW field,
           NEW k \in 1..Len(records), records[k].field_path = field
    PROVE  \E i \in 1..Len(records) :
               /\ records[i].field_path = field /\ TextOf[records[i].value] = Strongest(records, field)
               /\ \A j \in 1..Len(records) :
                      LET text == TextOf[records[j].value]
                          strongest == Strongest(records, field)
                      IN records[j].field_path = field =>
                             \/ Evidence(records, field, strongest) > Evidence(records, field, text)
                             \/ /\ Evidence(records, field, strongest) = Evidence(records, field, text)
                                /\ \/ TextOrder[strongest] < TextOrder[text]
                                   \/ TextOrder[strongest] = TextOrder[text] /\ i <= j
<1> DEFINE n == Len(records)
           of == OfField(records, field)
           text(i) == TextOf[records[i].value]
           E(i) == Evidence(records, field, text(i))
           O(i) == TextOrder[text(i)]
           score == [i \in of |-> E(i)]
           order == [i \in of |-> O(i)]
           is(i) == \A j \in of :
                        E(i) > E(j) \/ (E(i) = E(j) /\ (O(i) < O(j) \/ (O(i) = O(j) /\ i <= j)))
           best == CHOOSE i \in of : is(i)
<1>1. n \in Nat /\ DOMAIN records = 1..n /\ of \in SUBSET (1..n) /\ of # {}
    BY LenProperties DEF OfField
<1>2. \A i \in of : score[i] = E(i) /\ E(i) \in Nat /\ order[i] = O(i) /\ O(i) \in Nat
  <2> TAKE i \in of
  <2>1. score[i] = E(i) /\ order[i] = O(i)
      OBVIOUS
  <2>2. E(i) \in Nat
      BY EvidenceIsNat
  <2>3. records[i] \in Memory
      BY <1>1, ElementOfSeq DEF Record
  <2>4. records[i].value \in Value \cup {""}
      BY <2>3 DEF Memory
  <2>5. O(i) \in Nat
      BY <2>4, PacketAssumption
  <2> HIDE DEF E, O, score, order
  <2>6. QED
      BY <2>1, <2>2, <2>5
<1>3. Strongest(records, field) = text(best)
    BY DEF Strongest
<1>4. \A i \in 1..n : i \in of <=> records[i].field_path = field
    BY <1>1 DEF OfField
<1> HIDE DEF of, score, order, E, O, n, text
<1>5. PICK i \in of : Ahead(i, of, score, order)
    BY <1>1, <1>2, AheadExists
<1>6. is(i)
    BY <1>2, <1>5, Zenon DEF Ahead
<1>7. best \in of /\ is(best)
    BY <1>6
<1> HIDE DEF best
<1>8. /\ best \in 1..n /\ records[best].field_path = field
      /\ TextOf[records[best].value] = Strongest(records, field)
    BY <1>1, <1>3, <1>4, <1>7 DEF text
<1>9. \A j \in 1..n :
          records[j].field_path = field =>
              E(best) > E(j) \/ (E(best) = E(j) /\ (O(best) < O(j) \/ (O(best) = O(j) /\ best <= j)))
    BY <1>4, <1>7
<1>10. /\ E(best) = Evidence(records, field, Strongest(records, field))
       /\ O(best) = TextOrder[Strongest(records, field)]
    BY <1>3 DEF E, O
<1> HIDE DEF is
<1>11. QED
    BY <1>8, <1>9, <1>10 DEF n, E, O, text

\* No group of the field has more evidence.
LEMMA NoneIsStronger ==
    ASSUME TableInvariant, NEW records \in Seq(Record), NEW field,
           NEW k \in 1..Len(records), records[k].field_path = field
    PROVE  LET best == Evidence(records, field, Strongest(records, field))
               other == Evidence(records, field, TextOf[records[k].value])
           IN best > other \/ best = other
BY StrongestIsHeld

\* So whichever group comes first is that of a record of the field, and it is the
\* strongest one if all dates can be read.
LEMMA WinnerIsHeld ==
    ASSUME TableInvariant, NEW records \in Seq(Record), NEW field, NEW lead,
           NEW k \in 1..Len(records), records[k].field_path = field
    PROVE  /\ Holders(records, field, Winner(records, field, lead)) # {}
           /\ (\A i \in OfField(records, field) : Dated(records[i])) =>
                  Winner(records, field, lead) = Strongest(records, field)
<1>1. DOMAIN records = 1..Len(records)
    BY LenProperties
<1>2. CASE \E i, j \in OfField(records, field) :
               ~Dated(records[i]) /\ TextOf[records[j].value] = lead[field]
  <2>1. Winner(records, field, lead) = lead[field]
      BY <1>2 DEF Winner
  <2>2. QED
      BY <1>2, <2>1 DEF Holders
<1>3. CASE ~ \E i, j \in OfField(records, field) :
                 ~Dated(records[i]) /\ TextOf[records[j].value] = lead[field]
  <2>1. Winner(records, field, lead) = Strongest(records, field)
      BY <1>3 DEF Winner
  <2>2. PICK i \in 1..Len(records) :
            records[i].field_path = field /\ TextOf[records[i].value] = Strongest(records, field)
      BY StrongestIsHeld
  <2>3. i \in Holders(records, field, Strongest(records, field))
      BY <1>1, <2>2 DEF Holders, OfField
  <2>4. QED
      BY <2>1, <2>3
<1>4. QED
    BY <1>2, <1>3

\* The day that a record counts from is a natural.
LEMMA CreatedIsNat ==
    ASSUME TableInvariant, NEW r \in Record
    PROVE  CreatedOn(r) \in Nat
<1>1. today \in 0..MaxDay /\ MaxDay \in Nat /\ r.created \in 0..MaxDay
    BY WrittenAssumption DEF TableInvariant, Record, Memory
<1>2. QED
    BY <1>1 DEF CreatedOn

\* What a CAP packet tells of a record.
CapValue(r) == Or(r.value, Or(r.context, r.aside))

\* A record of the field says what is told of it, and if it is told by its value,
\* the value is of the winning group.
ResolvedFrom(r, records, lead) ==
    /\ r \in Memory
    /\ \E i \in 1..Len(records) :
           /\ records[i].field_path = r.field_path
           /\ CapValue(r) \in {records[i].value, records[i].context, records[i].aside}
    /\ \E i \in 1..Len(records) :
           /\ records[i].field_path = r.field_path
           /\ r.value = records[i].value /\ TextOf[r.value] = Winner(records, r.field_path, lead)

\* The resolution of a field, where there is one, is made of records of it.
LEMMA ResolutionIsOf ==
    ASSUME TableInvariant, NEW records \in Seq(Record), NEW field, NEW lead,
           NEW k \in 1..Len(records), records[k].field_path = field, IsResolved(records, field, lead)
    PROVE  /\ Resolution(records, field, lead).field_path = field
           /\ ResolvedFrom(Resolution(records, field, lead), records, lead)
<1> DEFINE n == Len(records)
           text == Winner(records, field, lead)
           holders == Holders(records, field, text)
           earliest(i) == \A j \in holders : i <= j
           first == CHOOSE i \in holders : earliest(i)
           dated == {i \in holders : Dated(records[i])}
           score == [i \in dated |-> CreatedOn(records[i])]
           is(i) == \A j \in dated :
                        \/ CreatedOn(records[i]) > CreatedOn(records[j])
                        \/ CreatedOn(records[i]) = CreatedOn(records[j]) /\ i <= j
           latest == CHOOSE i \in dated : is(i)
           trust == [i \in holders |-> records[i].confidence]
           best == CHOOSE c \in {records[i].confidence : i \in holders} :
                       \A i \in holders : records[i].confidence <= c
           alone == Alone(records, field)
           r == Resolution(records, field, lead)
<1>1. n \in Nat /\ DOMAIN records = 1..n /\ \A i \in 1..n : records[i] \in Record
    BY LenProperties, ElementOfSeq
<1>2. holders \in SUBSET (1..n) /\ holders # {} /\ dated \subseteq holders
    BY <1>1, WinnerIsHeld DEF Holders, OfField
<1>3. \A i \in holders : /\ records[i].field_path = field /\ TextOf[records[i].value] = text
                         /\ records[i] \in Memory /\ records[i].confidence \in Nat
                         /\ CreatedOn(records[i]) \in Nat
  <2> TAKE i \in holders
  <2>1. records[i].field_path = field /\ TextOf[records[i].value] = text
      BY DEF Holders, OfField
  <2>2. records[i] \in Memory
      BY <1>1, <1>2 DEF Record
  <2>3. records[i].confidence \in Nat /\ records[i].created \in 0..MaxDay
      BY <2>2 DEF Memory
  <2>4. CreatedOn(records[i]) \in Nat
      BY <1>1, <1>2, CreatedIsNat
  <2>5. QED
      BY <2>1, <2>2, <2>3, <2>4
<1>4. r = IF alone THEN records[first]
          ELSE [records[latest] EXCEPT !.value = records[first].value, !.confidence = best]
    BY DEF Resolution
<1>5. alone \/ dated # {}
    BY DEF IsResolved
<1>6. \A i \in dated : score[i] = CreatedOn(records[i])
    OBVIOUS
<1>7. \A i \in holders : trust[i] = records[i].confidence
    OBVIOUS
<1> HIDE DEF holders, n, text, dated, alone, score, trust, r
<1>8. first \in holders
  <2>1. \E i \in holders : earliest(i)
    <3>1. holders \in SUBSET Nat
        BY <1>1, <1>2
    <3>2. QED
        BY <1>2, <3>1, LeastNat
  <2>2. QED
      BY <2>1
<1>9. best \in Nat
  <2>1. PICK i \in holders : Foremost(i, holders, trust)
      BY <1>1, <1>2, <1>3, <1>7, ForemostExists
  <2>2. \A j \in holders : records[j].confidence <= records[i].confidence
    <3> TAKE j \in holders
    <3>1. trust[i] > trust[j] \/ trust[i] = trust[j]
        BY <2>1 DEF Foremost
    <3>2. records[i].confidence \in Nat /\ records[j].confidence \in Nat
        BY <1>3
    <3>3. QED
        BY <1>7, <3>1, <3>2
  <2>3. best \in {records[j].confidence : j \in holders}
      BY <2>2
  <2>4. QED
      BY <1>3, <2>3
<1>10. ~alone => latest \in holders
  <2> HAVE ~alone
  <2>1. dated \in SUBSET (1..n) /\ dated # {} /\ \A i \in dated : score[i] \in Nat
      BY <1>2, <1>3, <1>5, <1>6
  <2>2. PICK i \in dated : Foremost(i, dated, score)
      BY <1>1, <2>1, ForemostExists
  <2>3. is(i)
      BY <1>6, <2>2, Zenon DEF Foremost
  <2>4. latest \in dated
      BY <2>3
  <2>5. QED
      BY <1>2, <2>4
<1> HIDE DEF first, latest, best
<1>11. PICK f \in holders, l \in holders :
           /\ r \in Memory /\ r.field_path = field /\ r.value = records[f].value
           /\ r.context = records[l].context /\ r.aside = records[l].aside
  <2>1. CASE alone
      BY <2>1, <1>3, <1>4, <1>8
  <2>2. CASE ~alone
    <3>1. r = [records[latest] EXCEPT !.value = records[first].value, !.confidence = best]
        BY <2>2, <1>4
    <3>2. records[latest] \in Memory /\ records[first] \in Memory /\ latest \in holders
        BY <2>2, <1>3, <1>8, <1>10
    <3>3. records[first].value \in Value \cup {""}
        BY <3>2 DEF Memory
    <3>4. /\ r \in Memory /\ r.field_path = records[latest].field_path /\ r.value = records[first].value
          /\ r.context = records[latest].context /\ r.aside = records[latest].aside
      <4> DEFINE x == records[latest]
                 v == records[first].value
      <4>1. x \in Memory /\ v \in Value \cup {""} /\ r = [x EXCEPT !.value = v, !.confidence = best]
          BY <3>1, <3>2, <3>3
      <4> HIDE DEF x, v
      <4>2. /\ r \in Memory /\ r.field_path = x.field_path /\ r.value = v
            /\ r.context = x.context /\ r.aside = x.aside
          BY <1>9, <4>1 DEF Memory
      <4>3. QED
          BY <4>2 DEF x, v
    <3>5. QED
        BY <1>3, <1>8, <3>2, <3>4
  <2>3. QED
      BY <2>1, <2>2
<1>12. f \in 1..n /\ l \in 1..n
    BY <1>2
<1>13. TextOf[r.value] = Winner(records, r.field_path, lead)
    BY <1>3, <1>11 DEF text
<1>14. \/ CapValue(r) = records[f].value
       \/ CapValue(r) \in {records[l].context, records[l].aside}
    BY <1>11 DEF CapValue, Or
<1>15. ResolvedFrom(r, records, lead)
    BY <1>3, <1>11, <1>12, <1>13, <1>14 DEF ResolvedFrom, n
<1>16. QED
    BY <1>11, <1>15 DEF r

\* At most one record is left of every field.
ResolvedTo(g, records, lead) ==
    /\ g \in Seq(Memory)
    /\ \A k \in 1..Len(g) : ResolvedFrom(g[k], records, lead)
    /\ \A j, k \in 1..Len(g) : g[j].field_path = g[k].field_path => j = k

\* Resolved, the list has at most one record of every field: of the winning group.
LEMMA OneOfEveryField ==
    ASSUME TableInvariant, NEW records \in Seq(Record), NEW lead
    PROVE  ResolvedTo(ResolveContradictoryRecords(records, lead), records, lead)
<1> DEFINE n == Len(records)
           first == {i \in DOMAIN records :
                        /\ \A j \in OfField(records, records[i].field_path) : i <= j
                        /\ IsResolved(records, records[i].field_path, lead)}
           q == Kept(records, first)
           l == Len(q)
           g == [k \in DOMAIN q |-> Resolution(records, q[k].field_path, lead)]
<1>1. n \in Nat /\ DOMAIN records = 1..n
    BY LenProperties
<1>2. first \in SUBSET (1..Len(records))
    BY <1>1
<1>3. q \in Seq(Record) /\ l \in Nat /\ DOMAIN q = 1..l
  <2>1. q \in Seq(Record)
    <3> HIDE DEF first
    <3>1. QED
        BY <1>2, KeptPositions
  <2> HIDE DEF q
  <2>2. QED
      BY <2>1, LenProperties
<1>4. PICK at \in [1..l -> first] :
          /\ \A k \in 1..l : q[k] = records[at[k]]
          /\ \A j, k \in 1..l : at[j] = at[k] => j = k
          /\ \A i \in first : \E k \in 1..l : at[k] = i
  <2> HIDE DEF first, q
  <2>1. q = Kept(records, first)
      BY DEF q
  <2>2. QED
      BY <1>2, <2>1, KeptPositions
<1>5. \A i \in first : /\ i \in 1..n /\ IsResolved(records, records[i].field_path, lead)
                       /\ \A j \in 1..n : records[j].field_path = records[i].field_path => i <= j
    BY <1>1 DEF OfField
<1> HIDE DEF first, q, l, n
<1>6. ResolveContradictoryRecords(records, lead) = g
    BY DEF ResolveContradictoryRecords, q, first
<1>7. DOMAIN g = 1..l
    BY <1>3
<1>8. \A k \in 1..l : at[k] \in 1..n /\ q[k] = records[at[k]] /\ at[k] \in first
    BY <1>4, <1>5
<1>9. \A k \in 1..l : g[k].field_path = records[at[k]].field_path /\ ResolvedFrom(g[k], records, lead)
  <2> TAKE k \in 1..l
  <2>1. g[k] = Resolution(records, records[at[k]].field_path, lead)
      BY <1>3, <1>8
  <2>2. at[k] \in 1..Len(records) /\ IsResolved(records, records[at[k]].field_path, lead)
      BY <1>5, <1>8 DEF n
  <2> DEFINE i == at[k]
             field == records[i].field_path
  <2>3. i \in 1..Len(records) /\ records[i].field_path = field /\ IsResolved(records, field, lead)
      BY <2>2
  <2> HIDE DEF g, i, field
  <2>4. /\ Resolution(records, field, lead).field_path = field
        /\ ResolvedFrom(Resolution(records, field, lead), records, lead)
      BY <2>3, ResolutionIsOf
  <2>5. QED
      BY <2>1, <2>4 DEF i, field
<1>10. g \in Seq(Memory) /\ Len(g) = l
  <2>1. \A k \in 1..l : g[k] \in Memory
      BY <1>9 DEF ResolvedFrom
  <2>2. g = [k \in 1..l |-> g[k]]
      BY <1>3
  <2> HIDE DEF g
  <2>3. g \in [1..l -> Memory]
      BY <2>1, <2>2
  <2>4. QED
      BY <1>3, <2>3
<1> HIDE DEF g
<1>11. ASSUME NEW j \in 1..l, NEW k \in 1..l, g[j].field_path = g[k].field_path PROVE j = k
  <2>1. records[at[j]].field_path = records[at[k]].field_path
      BY <1>9, <1>11
  <2>2. at[j] <= at[k] /\ at[k] <= at[j] /\ at[j] \in Nat /\ at[k] \in Nat
      BY <1>1, <1>5, <1>8, <2>1
  <2>3. at[j] = at[k]
      BY <2>2
  <2>4. QED
      BY <1>4, <2>3
<1>12. ResolvedTo(g, records, lead)
    BY <1>9, <1>10, <1>11 DEF ResolvedTo
<1>13. QED
    BY <1>6, <1>12

-----------------------------------------------------------------------------
(* Packets.                                                                *)

\* What the theorems assume of the matching: it gives positions of its list.
MatchesAreRecords ==
    \A item \in Item : \A records \in Seq(Memory) : Matches(item, records) \in Seq(DOMAIN records)

\* What packets keep of their records.
Quoted(packet, request) ==
    \A p \in packet.allowed :
        \E m \in wrote : FieldOf(m) = p.field /\ p.value \in Says(m) /\ Shared(m, request)

\* The records of the filter are memories.
LEMMA TellsMemories ==
    ASSUME NEW request, NEW list, Tells(list, request)
    PROVE  list \in Seq(Memory) /\ DOMAIN list = 1..Len(list) /\ Len(list) \in Nat
<1>1. list \in Seq(Record) /\ Record \subseteq Memory
    BY DEF Tells, Record
<1>2. Len(list) \in Nat /\ DOMAIN list = 1..Len(list) /\ \A i \in 1..Len(list) : list[i] \in Memory
    BY <1>1, LenProperties, ElementOfSeq
<1>3. list = [i \in 1..Len(list) |-> list[i]]
    BY <1>1, <1>2
<1>4. QED
    BY <1>2, <1>3

\* A task packet quotes what is shared.
LEMMA TaskPacketQuotes ==
    ASSUME TableInvariant, SensitivityIsAField, MatchesAreRecords, NEW request \in Request,
           NEW packet, packet = BuildTaskContextPacket(Listed, request), packet # NoPacket
    PROVE  packet.kind = "task" /\ packet.request = request /\ Quoted(packet, request)
<1> DEFINE approved == FilterApprovedTaskMemory(Listed, request)
           items == request.items
           first == FirstMatches(approved, items)
<1>1. Tells(approved, request)
    BY FilterTells
<1>2. packet = [kind |-> "task", request |-> request, allowed |-> {TaskQuote(approved[i]) : i \in first},
                missing |-> {}, review |-> request.review]
    BY DEF BuildTaskContextPacket
<1>3. items \in Seq(Item)
    BY PacketAssumption DEF AnyRequest
<1> HIDE DEF approved, items
<1>4. first \subseteq DOMAIN approved
  <2> SUFFICES ASSUME NEW i \in first PROVE i \in DOMAIN approved
      OBVIOUS
  <2>1. CASE items = <<>>
      BY <2>1 DEF FirstMatches
  <2>2. CASE items # <<>>
    <3>1. PICK k \in DOMAIN items : \E p \in DOMAIN Matches(items[k], approved) : i = Matches(items[k], approved)[p]
        BY <2>2 DEF FirstMatches
    <3>2. items[k] \in Item
        BY <1>3, <3>1, LenProperties, ElementOfSeq
    <3>3. Matches(items[k], approved) \in Seq(DOMAIN approved)
        BY <1>1, <3>2, TellsMemories DEF MatchesAreRecords
    <3>4. QED
        BY <3>1, <3>3, LenProperties, ElementOfSeq
  <2>3. QED
      BY <2>1, <2>2
<1> HIDE DEF first
<1>5. packet.kind = "task" /\ packet.request = request /\ packet.allowed = {TaskQuote(approved[i]) : i \in first}
    BY <1>2
<1>6. ASSUME NEW p \in packet.allowed
      PROVE  \E m \in wrote : FieldOf(m) = p.field /\ p.value \in Says(m) /\ Shared(m, request)
  <2>1. PICK i \in first : p = TaskQuote(approved[i])
      BY <1>5
  <2>2. i \in 1..Len(approved)
      BY <1>1, <1>4, <2>1, TellsMemories
  <2>3. PICK m \in wrote : Shared(m, request) /\ approved[i] = ReadBack(m)
      BY <1>1, <2>2 DEF Tells
  <2>4. m \in Written /\ p.field = ReadBack(m).field_path
        /\ p.value = Or(ReadBack(m).value, ReadBack(m).aside)
      BY <2>1, <2>3 DEF TableInvariant, TaskQuote, Quote
  <2>5. p.field = FieldOf(m) /\ p.value = Or(m.value, m.aside)
      BY <2>4, ReadBackFields
  <2>6. QED
      BY <2>3, <2>5 DEF Or, Says
<1>7. QED
    BY <1>5, <1>6 DEF Quoted

\* The memories of a field, among some, that an application may have, and what
\* they say together, on a day, for what is printed as text.
SharedOf(set, field, request) == {m \in set : FieldOf(m) = field /\ Shared(m, request)}

Holding(set, field, request, text) == {n \in SharedOf(set, field, request) : TextOf[n.value] = text}

WeightOn(r, day) ==
    TypeWeight[r.entry_type] * r.confidence
        * Freshness[r.field_path][day - (IF r.date = "none" THEN day ELSE r.created)]

SupportOn(set, day, field, request, text) ==
    SumFunction([m \in Holding(set, field, request, text) |->
                    WeightOn([m EXCEPT !.field_path = field], day)])

SupportOf(field, request, text) == SupportOn(wrote, today, field, request, text)

\* The filter has all the evidence there is.
LEMMA EvidenceIsSupport ==
    ASSUME TableInvariant, NEW request, NEW list, Tells(list, request), NEW field, NEW text
    PROVE  Evidence(list, field, text) = SupportOf(field, request, text)
<1> DEFINE n == Len(list)
           S == Holding(wrote, field, request, text)
           f == [m \in S |-> WeightOn([m EXCEPT !.field_path = field], today)]
           I == Holders(list, field, text)
           Of(i) == CHOOSE m \in wrote : Shared(m, request) /\ list[i] = ReadBack(m)
           b == [i \in I |-> Of(i)]
           g == [i \in DOMAIN list |-> IF i \in I THEN Weight(list[i]) ELSE 0]
<1>1. n \in Nat /\ DOMAIN list = 1..n /\ \A i \in 1..n : list[i] \in Record
  <2>1. list \in Seq(Record)
      BY DEF Tells
  <2>2. QED
      BY <2>1, LenProperties, ElementOfSeq
<1>2. I \in SUBSET (1..n)
    BY <1>1 DEF Holders, OfField
<1>3. \A m \in wrote : /\ m \in Written /\ ReadBack(m).id = m.id
                       /\ ReadBack(m).field_path = FieldOf(m) /\ ReadBack(m).value = m.value
  <2> TAKE m \in wrote
  <2>1. m \in Written
      BY DEF TableInvariant
  <2>2. QED
      BY <2>1, ReadBackFields
<1>4. \A m \in wrote, k \in wrote : ReadBack(m) = ReadBack(k) => m = k
    BY <1>3 DEF TableInvariant, RowsOf
<1>5. \A i \in 1..n : Of(i) \in wrote /\ Shared(Of(i), request) /\ list[i] = ReadBack(Of(i))
  <2> TAKE i \in 1..n
  <2>1. \E m \in wrote : Shared(m, request) /\ list[i] = ReadBack(m)
      BY DEF Tells
  <2>2. QED
      BY <2>1
<1> HIDE DEF Of
<1>6. \A i \in I : Of(i) \in S
  <2> TAKE i \in I
  <2>1. list[i].field_path = field /\ TextOf[list[i].value] = text /\ i \in 1..n
      BY <1>1 DEF Holders, OfField
  <2>2. FieldOf(Of(i)) = field /\ TextOf[Of(i).value] = text
      BY <1>3, <1>5, <2>1
  <2>3. QED
      BY <1>5, <2>1, <2>2 DEF Holding, SharedOf
<1>7. b \in [I -> S] /\ \A i \in I : b[i] = Of(i)
  <2> HIDE DEF I, S
  <2>1. QED
      BY <1>6
<1>8. \A i, j \in I : b[i] = b[j] => i = j
  <2> TAKE i, j \in I
  <2> HAVE b[i] = b[j]
  <2>1. i \in 1..n /\ j \in 1..n /\ list[i] = list[j]
      BY <1>2, <1>5, <1>7
  <2>2. list[i].id = list[j].id
      BY <2>1
  <2>3. QED
      BY <2>1, <2>2 DEF Tells
<1>9. \A x \in S : \E i \in I : b[i] = x
  <2> TAKE x \in S
  <2>1. x \in wrote /\ Shared(x, request) /\ FieldOf(x) = field /\ TextOf[x.value] = text
      BY DEF Holding, SharedOf
  <2>2. PICK i \in 1..n : list[i] = ReadBack(x)
      BY <2>1 DEF Tells
  <2>3. list[i].field_path = field /\ TextOf[list[i].value] = text
      BY <1>3, <2>1, <2>2
  <2>4. i \in I
      BY <1>1, <2>3 DEF Holders, OfField
  <2>5. Of(i) = x
      BY <1>4, <1>5, <2>1, <2>2
  <2>6. QED
      BY <1>7, <2>4, <2>5
<1> HIDE DEF b
<1>10. \A m \in S : f[m] = Weight(ReadBack(m))
  <2> TAKE m \in S
  <2> DEFINE named == [m EXCEPT !.field_path = field]
  <2>1. m \in wrote /\ FieldOf(m) = field
      BY DEF Holding, SharedOf
  <2>2. m \in Written /\ m \in Memory
      BY <1>3, <2>1, WrittenFields
  <2>3. /\ named.field_path = field /\ named.entry_type = m.entry_type
        /\ named.confidence = m.confidence /\ named.date = m.date /\ named.created = m.created
      BY <2>2 DEF Memory
  <2>4. f[m] = Weight(named)
      BY DEF Weight, WeightOn, CreatedOn
  <2> HIDE DEF named, f, S
  <2>5. QED
      BY <2>1, <2>2, <2>3, <2>4, ReadBackFields DEF Weight, CreatedOn
<1>11. \A i \in I : f[b[i]] = Weight(list[i]) /\ Weight(list[i]) \in Nat
  <2> TAKE i \in I
  <2>1. list[i] \in Record /\ list[i] = ReadBack(b[i]) /\ b[i] \in S
      BY <1>1, <1>2, <1>5, <1>6, <1>7
  <2> HIDE DEF f, S, I
  <2>2. f[b[i]] = Weight(list[i])
      BY <1>10, <2>1
  <2>3. Weight(list[i]) \in Nat
      BY <2>1, WeightIsNat
  <2>4. QED
      BY <2>2, <2>3
<1>12. f \in [S -> Nat]
  <2>1. \A m \in S : f[m] \in Nat
      BY <1>9, <1>11
  <2>2. f = [m \in S |-> f[m]]
      OBVIOUS
  <2> HIDE DEF f, S, I
  <2>3. QED
      BY <2>1, <2>2
<1>13. \A i \in 1..n : g[i] = IF i \in I THEN f[b[i]] ELSE 0
  <2> TAKE i \in 1..n
  <2>1. g[i] = IF i \in I THEN Weight(list[i]) ELSE 0
      BY <1>1
  <2> HIDE DEF f, S, I, g
  <2>2. QED
      BY <1>11, <2>1
<1>14. Evidence(list, field, text) = Total(g, n)
    BY DEF Evidence
<1>15. SupportOf(field, request, text) = SumFunction(f)
    BY DEF SupportOf, SupportOn
<1> HIDE DEF f, S, I, g, n
<1>16. SumFunction(f) = Total(g, n)
    BY <1>1, <1>2, <1>7, <1>8, <1>9, <1>12, <1>13, SumIsTotal
<1>17. QED
    BY <1>14, <1>15, <1>16

\* A field once, and among comparable memories the value with the best support.
TellsStrongest(set, day, packet) ==
    \A q \in packet.allowed :
        /\ \A p \in packet.allowed : p.field = q.field => p = q
        /\ Comparable(SharedOf(set, q.field, packet.request)) =>
               \A m \in SharedOf(set, q.field, packet.request) :
                   SupportOn(set, day, q.field, packet.request, TextOf[m.value])
                       <= SupportOn(set, day, q.field, packet.request, TextOf[q.value])

\* A CAP packet quotes what is shared, and the strongest of what is comparable.
LEMMA CapPacketTells ==
    ASSUME TableInvariant, SensitivityIsAField, MatchesAreRecords, NEW request \in Request, NEW lead,
           NEW packet, packet = BuildCapPacket(Listed, request, lead), packet # NoPacket
    PROVE  /\ packet.kind = "cap" /\ packet.request = request
           /\ Quoted(packet, request) /\ TellsStrongest(wrote, today, packet)
<1> DEFINE approved == FilterApprovedTaskMemory(Listed, request)
           resolved == ResolveContradictoryRecords(approved, lead)
           missing == {item \in Asked(request) : ~Matched(item, resolved)}
           found == Asked(request) \ missing
           review == request.review \/ missing \cap request.required # {}
           n == Len(approved)
           l == Len(resolved)
<1>1. Tells(approved, request)
    BY FilterTells
<1>2. packet = [kind |-> "cap", request |-> request, allowed |-> {CapQuote(Best(item, resolved)) : item \in found},
                missing |-> missing, review |-> review]
    BY DEF BuildCapPacket
<1>3. \A item \in found : item \in Item /\ Matches(item, resolved) # <<>>
  <2> TAKE item \in found
  <2>1. Matches(item, resolved) # <<>> /\ item \in Asked(request)
      BY DEF Matched
  <2>2. request.items \in Seq(Item)
      BY PacketAssumption DEF AnyRequest
  <2>3. item \in Item
      BY <2>1, <2>2, LenProperties, ElementOfSeq DEF Asked
  <2>4. QED
      BY <2>1, <2>3
<1> HIDE DEF approved, resolved, missing, found, review
<1>4. /\ packet.kind = "cap" /\ packet.request = request
      /\ packet.allowed = {CapQuote(Best(item, resolved)) : item \in found}
    BY <1>2
<1>5. approved \in Seq(Record) /\ n \in Nat /\ DOMAIN approved = 1..n
    BY <1>1, TellsMemories DEF Tells
<1>6. ResolvedTo(resolved, approved, lead)
    BY <1>5, OneOfEveryField DEF resolved
<1>7. ASSUME NEW item \in found
      PROVE  \E k \in 1..l : Best(item, resolved) = resolved[k]
  <2> DEFINE found1 == Matches(item, resolved)
  <2>1. resolved \in Seq(Memory)
      BY <1>6 DEF ResolvedTo
  <2>2. found1 \in Seq(DOMAIN resolved) /\ found1 # <<>>
      BY <1>3, <2>1 DEF MatchesAreRecords
  <2> HIDE DEF found1
  <2>3. found1[1] \in DOMAIN resolved
      BY <2>2
  <2>4. DOMAIN resolved = 1..l
      BY <2>1, LenProperties
  <2>5. QED
      BY <2>3, <2>4 DEF Best, found1
<1>8. ASSUME NEW q \in packet.allowed
      PROVE  \E k \in 1..l : q.field = resolved[k].field_path /\ q.value = CapValue(resolved[k])
                             /\ q = CapQuote(resolved[k])
  <2>1. PICK item \in found : q = CapQuote(Best(item, resolved))
      BY <1>4
  <2>2. PICK k \in 1..l : Best(item, resolved) = resolved[k]
      BY <1>7
  <2>3. QED
      BY <2>1, <2>2 DEF CapQuote, Quote, CapValue
<1>9. \A i \in 1..n : \E m \in wrote : Shared(m, request) /\ approved[i] = ReadBack(m)
    BY <1>1 DEF Tells
<1>10. ASSUME NEW m \in wrote
       PROVE  /\ m \in Written /\ ReadBack(m).field_path = FieldOf(m) /\ ReadBack(m).value = m.value
              /\ ReadBack(m).context = m.context /\ ReadBack(m).aside = m.aside
              /\ ReadBack(m).date = m.date
  <2>1. m \in Written
      BY DEF TableInvariant
  <2>2. QED
      BY <2>1, ReadBackFields
<1>11. ASSUME NEW p \in packet.allowed
       PROVE  \E m \in wrote : FieldOf(m) = p.field /\ p.value \in Says(m) /\ Shared(m, request)
  <2>1. PICK k \in 1..l : p.field = resolved[k].field_path /\ p.value = CapValue(resolved[k])
      BY <1>8
  <2>2. PICK i \in 1..n :
            /\ approved[i].field_path = p.field
            /\ p.value \in {approved[i].value, approved[i].context, approved[i].aside}
      BY <1>6, <2>1 DEF ResolvedTo, ResolvedFrom
  <2>3. PICK m \in wrote : Shared(m, request) /\ approved[i] = ReadBack(m)
      BY <1>9
  <2>4. QED
      BY <1>10, <2>2, <2>3 DEF Says
<1>12. ASSUME NEW q \in packet.allowed, NEW p \in packet.allowed, p.field = q.field PROVE p = q
  <2>1. PICK k \in 1..l : q.field = resolved[k].field_path /\ q = CapQuote(resolved[k])
      BY <1>8
  <2>2. PICK h \in 1..l : p.field = resolved[h].field_path /\ p = CapQuote(resolved[h])
      BY <1>8
  <2>3. h = k
      BY <1>6, <1>12, <2>1, <2>2 DEF ResolvedTo
  <2>4. QED
      BY <2>1, <2>2, <2>3
<1>13. ASSUME NEW q \in packet.allowed, Comparable(SharedOf(wrote, q.field, request)),
              NEW m \in SharedOf(wrote, q.field, request)
       PROVE  SupportOf(q.field, request, TextOf[m.value]) <= SupportOf(q.field, request, TextOf[q.value])
  <2>1. PICK k \in 1..l : q.field = resolved[k].field_path /\ q.value = CapValue(resolved[k])
      BY <1>8
  <2>2. PICK i \in 1..n :
            /\ approved[i].field_path = q.field /\ resolved[k].value = approved[i].value
            /\ TextOf[resolved[k].value] = Winner(approved, q.field, lead)
      BY <1>6, <2>1 DEF ResolvedTo, ResolvedFrom
  <2>3. ASSUME NEW j \in 1..n, approved[j].field_path = q.field
        PROVE  approved[j].value # "" /\ Dated(approved[j])
    <3>1. PICK w \in wrote : Shared(w, request) /\ approved[j] = ReadBack(w)
        BY <1>9
    <3>2. w \in SharedOf(wrote, q.field, request)
        BY <1>10, <2>3, <3>1 DEF SharedOf
    <3>3. w.value # "" /\ Dated(w)
        BY <1>13, <3>2 DEF Comparable
    <3>4. QED
        BY <1>10, <3>1, <3>3 DEF Dated
  <2>4. q.value = resolved[k].value
      BY <2>1, <2>2, <2>3 DEF CapValue, Or
  <2>5. TextOf[q.value] = Strongest(approved, q.field)
    <3>1. \A j \in OfField(approved, q.field) : Dated(approved[j])
        BY <1>5, <2>3 DEF OfField
    <3>2. Winner(approved, q.field, lead) = Strongest(approved, q.field)
        BY <1>5, <2>2, <3>1, WinnerIsHeld
    <3>3. QED
        BY <2>2, <2>4, <3>2
  <2>6. m \in wrote /\ Shared(m, request) /\ FieldOf(m) = q.field
      BY DEF SharedOf
  <2>7. PICK j \in 1..n : approved[j] = ReadBack(m)
      BY <1>1, <2>6 DEF Tells
  <2>8. approved[j].field_path = q.field /\ approved[j].value = m.value
      BY <1>10, <2>6, <2>7
  <2> DEFINE e == Evidence(approved, q.field, TextOf[m.value])
             f == Evidence(approved, q.field, TextOf[q.value])
  <2>9. e \in Nat /\ f \in Nat
      BY <1>5, EvidenceIsNat
  <2>10. f > e \/ f = e
    <3> DEFINE field == q.field
    <3>1. j \in 1..Len(approved) /\ approved[j].field_path = field
        BY <2>8
    <3> HIDE DEF field, e, f
    <3>2. LET best == Evidence(approved, field, Strongest(approved, field))
              other == Evidence(approved, field, TextOf[approved[j].value])
          IN best > other \/ best = other
        BY <1>5, <3>1, NoneIsStronger
    <3>3. QED
        BY <2>5, <2>8, <3>2 DEF field, e, f
  <2>11. e = SupportOf(q.field, request, TextOf[m.value]) /\ f = SupportOf(q.field, request, TextOf[q.value])
      BY <1>1, EvidenceIsSupport
  <2> HIDE DEF e, f
  <2>12. QED
      BY <2>9, <2>10, <2>11
<1>14. QED
    BY <1>4, <1>11, <1>12, <1>13 DEF Quoted, TellsStrongest, SupportOf

-----------------------------------------------------------------------------
(* The provider.                                                           *)

ContextInvariant ==
    /\ TableInvariant
    /\ reply # NoPacket => reply.request \in Request
    /\ QuotesAreShared /\ StrongestIsQuoted

\* The invariant holds of the empty table.
LEMMA ContextInit ==
    ASSUME Init
    PROVE  ContextInvariant
<1>1. rows = <<>> /\ key \in Key /\ today = 0 /\ wrote = {} /\ reply = NoPacket /\ MaxDay \in Nat
    BY WrittenAssumption DEF Init, StoreInit
<1>2. RowsOf(rows, wrote)
  <2>1. <<>> \in Seq(StatementRow) /\ Len(<<>>) = 0
      OBVIOUS
  <2>2. QED
      BY <1>1, <2>1 DEF RowsOf
<1>3. TableInvariant
    BY <1>1, <1>2 DEF TableInvariant
<1>4. QED
    BY <1>1, <1>3 DEF ContextInvariant, QuotesAreShared, StrongestIsQuoted

\* The property, over what is written and the day.
LEMMA StrongestIsTold ==
    /\ StrongestIsQuoted <=>
           (reply # NoPacket /\ reply.kind = "cap" => TellsStrongest(wrote, today, reply))
    /\ StrongestIsQuoted' <=>
           (reply' # NoPacket /\ reply'.kind = "cap" => TellsStrongest(wrote', today', reply'))
BY DEF StrongestIsQuoted, TellsStrongest, Support, SupportOn, Holding, SharedOf, WeightOn, Weight, CreatedOn

\* An answer that tells what it has to keeps the invariant.
LEMMA AnswerKeeps ==
    ASSUME ContextInvariant, UNCHANGED <<rows, key, today, wrote>>, NEW request \in Request,
           reply' # NoPacket =>
               /\ reply'.request = request /\ Quoted(reply', request)
               /\ reply'.kind = "cap" => TellsStrongest(wrote, today, reply')
    PROVE  ContextInvariant'
<1>1. TableInvariant'
    BY RestKeepsTable DEF ContextInvariant
<1>2. wrote' = wrote
    OBVIOUS
<1>3. QuotesAreShared'
  <2> SUFFICES ASSUME reply' # NoPacket
               PROVE  \A q \in reply'.allowed :
                          \E m \in wrote' :
                              FieldOf(m) = q.field /\ q.value \in Says(m) /\ Shared(m, reply'.request)
      BY DEF QuotesAreShared
  <2>1. QED
      BY <1>2 DEF Quoted
<1>5. today' = today
    OBVIOUS
<1>6. StrongestIsQuoted'
  <2>1. StrongestIsQuoted' <=>
            (reply' # NoPacket /\ reply'.kind = "cap" => TellsStrongest(wrote', today', reply'))
      BY StrongestIsTold
  <2>2. QED
      BY <1>2, <1>5, <2>1
<1>7. QED
    BY <1>1, <1>3, <1>6 DEF ContextInvariant

\* Without an answer there is nothing to tell.
LEMMA SilenceKeeps ==
    ASSUME TableInvariant', reply' = NoPacket
    PROVE  ContextInvariant'
BY DEF ContextInvariant, QuotesAreShared, StrongestIsQuoted

\* Every step keeps the invariant.
LEMMA ContextStep ==
    ASSUME ContextInvariant, SensitivityIsAField, MatchesAreRecords, [Next]_vars
    PROVE  ContextInvariant'
<1>1. TableInvariant
    BY DEF ContextInvariant
<1>2. CASE \E m \in Written : Write(m)
  <2>1. PICK m \in Written : Write(m)
      BY <1>2
  <2>2. reply' = NoPacket
      BY <2>1 DEF Write
  <2>3. QED
      BY <1>1, <2>1, <2>2, WriteKeepsTable, SilenceKeeps
<1>3. CASE \E id \in MemoryId : Drop(id)
  <2>1. PICK id \in MemoryId : Drop(id)
      BY <1>3
  <2>2. reply' = NoPacket
      BY <2>1 DEF Drop
  <2>3. QED
      BY <1>1, <2>1, <2>2, DropKeepsTable, SilenceKeeps
<1>4. CASE Pass
  <2>1. reply' = NoPacket
      BY <1>4 DEF Pass
  <2>2. QED
      BY <1>1, <1>4, <2>1, RestKeepsTable, SilenceKeeps
<1>5. CASE \E request \in Request : AskTask(request)
  <2>1. PICK request \in Request : AskTask(request)
      BY <1>5
  <2>2. UNCHANGED <<rows, key, today, wrote>> /\ reply' = BuildTaskContextPacket(Listed, request)
      BY <2>1 DEF AskTask
  <2>3. reply' # NoPacket =>
            reply'.kind = "task" /\ reply'.request = request /\ Quoted(reply', request)
      BY <1>1, <2>2, TaskPacketQuotes
  <2>4. "task" # "cap"
      OBVIOUS
  <2>5. QED
      BY <2>2, <2>3, <2>4, AnswerKeeps
<1>6. CASE \E request \in Request : AskCap(request)
  <2>1. PICK request \in Request : AskCap(request)
      BY <1>6
  <2>2. PICK lead \in [Field -> Text] : reply' = BuildCapPacket(Listed, request, lead)
      BY <2>1 DEF AskCap
  <2>3. UNCHANGED <<rows, key, today, wrote>>
      BY <2>1 DEF AskCap
  <2>4. reply' # NoPacket =>
            /\ reply'.request = request /\ Quoted(reply', request)
            /\ TellsStrongest(wrote, today, reply')
      BY <1>1, <2>2, CapPacketTells
  <2>5. QED
      BY <2>3, <2>4, AnswerKeeps
<1>7. CASE AskUnreadable
  <2>1. TableInvariant' /\ reply' = NoPacket
      BY <1>1, <1>7, RestKeepsTable DEF AskUnreadable
  <2>2. QED
      BY <2>1, SilenceKeeps
<1>8. CASE Work
  <2>1. /\ UNCHANGED <<rows, key, today, wrote>> /\ reply # NoPacket /\ reply.request \in Request
        /\ reply'.kind = "output" /\ reply'.request = reply.request /\ reply'.allowed = reply.allowed
      BY <1>8 DEF Work, RunWorker, ContextInvariant
  <2>2. Quoted(reply', reply.request)
      BY <2>1 DEF ContextInvariant, QuotesAreShared, Quoted
  <2>3. "output" # "cap"
      OBVIOUS
  <2>4. QED
      BY <2>1, <2>2, <2>3, AnswerKeeps
<1>9. CASE UNCHANGED vars
  <2>1. TableInvariant' /\ reply' = reply /\ wrote' = wrote
      BY <1>1, <1>9, RestKeepsTable DEF vars
  <2>2. QuotesAreShared'
      BY <2>1 DEF ContextInvariant, QuotesAreShared
  <2>3. StrongestIsQuoted'
    <3>1. today' = today
        BY <1>9 DEF vars
    <3>2. QED
        BY <2>1, <3>1, StrongestIsTold DEF ContextInvariant
  <2>4. QED
      BY <2>1, <2>2, <2>3 DEF ContextInvariant
<1>10. QED
    BY <1>2, <1>3, <1>4, <1>5, <1>6, <1>7, <1>8, <1>9 DEF Next

\* The table has one row for every memory that its writers wrote and have not
\* deleted, encrypted under some key (postgres-statements.mjs, upsert and delete):
\* the invariant that the other theorems stand on, and that every row can be read
\* back from what was written.
THEOREM TableIsWritten == Spec => []TableInvariant
<1>1. Init => TableInvariant
    BY ContextInit DEF ContextInvariant
<1>2. TableInvariant /\ [Next]_vars => TableInvariant'
  <2> SUFFICES ASSUME TableInvariant, [Next]_vars PROVE TableInvariant'
      OBVIOUS
  <2>1. CASE \E m \in Written : Write(m)
      BY <2>1, WriteKeepsTable
  <2>2. CASE \E id \in MemoryId : Drop(id)
      BY <2>2, DropKeepsTable
  <2>3. CASE UNCHANGED <<rows, key, today, wrote>> \/ Pass
      BY <2>3, RestKeepsTable
  <2>4. QED
      BY <2>1, <2>2, <2>3 DEF Next, AskTask, AskCap, AskUnreadable, Work, vars
<1>3. QED
    BY <1>1, <1>2, PTL DEF Spec

\* An answer repeats the request.
LEMMA AnswersRequest ==
    ASSUME NEW request, NEW list, NEW lead
    PROVE  LET task == BuildTaskContextPacket(list, request)
               cap == BuildCapPacket(list, request, lead)
           IN /\ task = NoPacket \/ task.request = request
              /\ cap = NoPacket \/ cap.request = request
BY DEF BuildTaskContextPacket, BuildCapPacket

\* What the table and the last answer are: every row has an id of its own and
\* is read back as a memory, and an answer is to a request that was made.
THEOREM ContextTypeCorrect == Spec => []TypeOK
<1> DEFINE Answers == reply = NoPacket \/ reply.request \in Request
<1>1. Init => Answers
    BY DEF Init
<1>2. Answers /\ [Next]_vars => Answers'
  <2> SUFFICES ASSUME Answers, [Next]_vars PROVE Answers'
      OBVIOUS
  <2>1. CASE \E request \in Request : AskTask(request) \/ AskCap(request)
      BY <2>1, AnswersRequest DEF AskTask, AskCap
  <2>2. CASE Work
      BY <2>2 DEF Work, RunWorker
  <2>3. CASE UNCHANGED vars
      BY <2>3 DEF vars
  <2>4. CASE \/ \E m \in Written : Write(m)
             \/ \E id \in MemoryId : Drop(id)
             \/ Pass \/ AskUnreadable
      BY <2>4 DEF Write, Drop, Pass, AskUnreadable
  <2>5. QED
      BY <2>1, <2>2, <2>3, <2>4 DEF Next
<1>3. TableInvariant /\ Answers => TypeOK
  <2> SUFFICES ASSUME TableInvariant, Answers PROVE TypeOK
      OBVIOUS
  <2>1. /\ rows \in Seq(StatementRow) /\ DOMAIN rows = 1..Len(rows)
        /\ key \in Key /\ today \in 0..MaxDay /\ wrote \subseteq Written
      BY LenProperties DEF TableInvariant, RowsOf
  <2>2. ASSUME NEW i \in 1..Len(rows)
        PROVE  /\ rows[i].key \in Key /\ DecryptStatementRow(rows[i]) \in Memory
               /\ \E m \in wrote : rows[i].public.id = m.id
    <3>1. rows[i] \in StatementRow
        BY <2>1, ElementOfSeq
    <3>2. rows[i].key \in Key
        BY <3>1 DEF StatementRow, RowOf
    <3>3. PICK m \in wrote : StoredAs(rows[i], m)
        BY DEF TableInvariant, RowsOf
    <3>4. DecryptStatementRow(rows[i]) = ReadBack(m)
        BY <3>3 DEF StoredAs, DecryptStatementRow, ReadBack
    <3>5. ReadBack(m) \in Memory
        BY <2>1, ReadBackFields
    <3>6. QED
        BY <3>2, <3>3, <3>4, <3>5, StoredId
  <2>3. \A m \in wrote : \E i \in 1..Len(rows) : rows[i].public.id = m.id
    <3> TAKE m \in wrote
    <3>1. PICK i \in 1..Len(rows) : StoredAs(rows[i], m)
        BY DEF TableInvariant, RowsOf
    <3>2. QED
        BY <3>1, StoredId
  <2>4. \A i, j \in 1..Len(rows) : rows[i].public.id = rows[j].public.id => i = j
      BY DEF TableInvariant, RowsOf
  <2>5. StoreTypeOK
      BY <2>1, <2>2, <2>4 DEF StoreTypeOK
  <2>6. {m.id : m \in wrote} = {rows[i].public.id : i \in DOMAIN rows}
      BY <2>1, <2>2, <2>3
  <2>7. QED
      BY <2>1, <2>5, <2>6 DEF TypeOK
<1>4. QED
    BY <1>1, <1>2, <1>3, TableIsWritten, PTL DEF Spec

\* RewritingKeepsRows: reading a memory and writing it back leaves its row as it
\* was (splitMemoryStatement and mergeMemoryStatement), for any memory.
THEOREM RowsSurviveRewriting == Spec => []RewritingKeepsRows
<1>1. TableInvariant => RewritingKeepsRows
  <2> SUFFICES ASSUME TableInvariant, NEW i \in DOMAIN rows, Readable(rows[i])
               PROVE  EncryptStatementRow(DecryptStatementRow(rows[i])) = rows[i]
      BY DEF RewritingKeepsRows
  <2>1. rows \in Seq(StatementRow) /\ i \in 1..Len(rows)
      BY LenProperties DEF TableInvariant, RowsOf
  <2>2. rows[i] \in StatementRow
      BY <2>1, ElementOfSeq
  <2>3. PICK m \in Written, k \in Key : rows[i] = RowOf(m, k)
      BY <2>2 DEF StatementRow
  <2>4. k = key
      BY <2>3 DEF Readable, RowOf
  <2>5. DecryptStatementRow(rows[i]) = ReadBack(m)
      BY <2>3 DEF RowOf, DecryptStatementRow, ReadBack
  <2>6. EncryptStatementRow(ReadBack(m)) = RowOf(m, key)
      BY NormalIsReadBack DEF EncryptStatementRow, RowOf
  <2>7. QED
      BY <2>3, <2>4, <2>5, <2>6
<1>2. QED
    BY <1>1, TableIsWritten, PTL

\* QuotesAreShared: neither packet, nor what the worker makes of it, quotes a value
\* that no memory shares with the application, whatever the fields, the matching,
\* the weights and the requests are.
THEOREM OnlySharedIsQuoted ==
    ASSUME SensitivityIsAField, MatchesAreRecords
    PROVE  Spec => []QuotesAreShared
<1>1. Init => ContextInvariant
    BY ContextInit
<1>2. ContextInvariant /\ [Next]_vars => ContextInvariant'
    BY ContextStep
<1>3. ContextInvariant => QuotesAreShared
    BY DEF ContextInvariant
<1>4. QED
    BY <1>1, <1>2, <1>3, PTL DEF Spec

\* StrongestIsQuoted: the value that a CAP packet quotes of a field is the only one
\* of it, and where what is shared of the field is comparable, no value of it has
\* more evidence (resolveContradictoryRecords), whatever the matching is.
THEOREM QuotedIsStrongest ==
    ASSUME SensitivityIsAField, MatchesAreRecords
    PROVE  Spec => []StrongestIsQuoted
<1>1. Init => ContextInvariant
    BY ContextInit
<1>2. ContextInvariant /\ [Next]_vars => ContextInvariant'
    BY ContextStep
<1>3. ContextInvariant => StrongestIsQuoted
    BY DEF ContextInvariant
<1>4. QED
    BY <1>1, <1>2, <1>3, PTL DEF Spec

-----------------------------------------------------------------------------
(* A record that agrees.                                                   *)

\* The filter of a list with one more memory, the last written.
LEMMA FilterOfMore ==
    ASSUME TableInvariant, NEW m \in Written, m.id \notin {n.id : n \in wrote}, Write(m), NEW request
    PROVE  LET before == FilterApprovedTaskMemory(Listed, request)
           IN /\ before \in Seq(Record) /\ ReadBack(m) \in Record
              /\ FilterApprovedTaskMemory(Listed, request)' =
                     (IF Permitted(ReadBack(m), request) THEN <<ReadBack(m)>> ELSE <<>>) \o before
<1> DEFINE n == Len(rows)
           new == RowOf(m, key)
           r == ReadBack(m)
           s == NormalList
           t == <<r>> \o s
           keep == {i \in DOMAIN Listed : Permitted(s[i], request)}
           keeps == {i \in 1..(n + 1) : Permitted(t[i], request)}
<1>1. /\ rows \in Seq(StatementRow) /\ n \in Nat /\ DOMAIN rows = 1..n /\ DOMAIN Listed = 1..n
      /\ new \in StatementRow
  <2>1. rows \in Seq(StatementRow) /\ key \in Key
      BY DEF TableInvariant, RowsOf
  <2>2. QED
      BY <2>1, ListedIsReadBack, LenProperties, RowIsStored
<1>2. rows' = <<new>> \o rows
  <2>1. {i \in DOMAIN rows : rows[i].public.id # m.id} = 1..n
    <3>1. \A i \in 1..n : rows[i].public.id # m.id
      <4> TAKE i \in 1..n
      <4>1. PICK x \in wrote : StoredAs(rows[i], x)
          BY DEF TableInvariant, RowsOf
      <4>2. rows[i].public.id = x.id
          BY <4>1, StoredId
      <4>3. QED
          BY <4>2
    <3>2. QED
        BY <1>1, <3>1
  <2>2. rows' = <<new>> \o Kept(rows, {i \in DOMAIN rows : rows[i].public.id # m.id})
      BY DEF Write, Upsert, EncryptStatementRow, RowOf
  <2>3. Kept(rows, 1..n) = rows
      BY <1>1, KeptAll
  <2>4. QED
      BY <2>1, <2>2, <2>3
<1>3. r \in Record
  <2>1. m.created <= today
      BY DEF Write, Upsert
  <2>2. QED
      BY <2>1, ReadBackFields, WrittenFields DEF Record
<1>4. s \in Seq(Record) /\ Len(s) = n /\ \A i \in 1..n : s[i] = NormalizeMemoryRecord(DecryptStatementRow(rows[i]))
  <2>1. \A i \in 1..n : s[i] = NormalizeMemoryRecord(Listed[i]) /\ Listed[i] = DecryptStatementRow(rows[i])
      BY <1>1 DEF NormalList, Listed
  <2>2. QED
      BY <2>1, NormalIsListed
<1> HIDE DEF n, s, r, new
<1>5. /\ t \in Seq(Record) /\ Len(t) = n + 1 /\ t[1] = r /\ \A i \in 1..n : t[i + 1] = s[i]
    BY <1>1, <1>3, <1>4
<1>6. /\ DOMAIN rows' = 1..(n + 1) /\ rows'[1] = new /\ \A i \in 1..n : rows'[i + 1] = rows[i]
  <2>1. Len(rows) = n
      BY DEF n
  <2> DEFINE more == <<new>> \o rows
  <2>2. DOMAIN more = 1..(n + 1) /\ more[1] = new /\ \A i \in 1..n : more[i + 1] = rows[i]
      BY <1>1, <2>1
  <2> HIDE DEF more
  <2>3. QED
      BY <1>2, <2>2 DEF more
<1>7. NormalizeMemoryRecord(DecryptStatementRow(new)) = r
    BY NormalIsReadBack DEF new, r, RowOf, DecryptStatementRow, ReadBack
<1> HIDE DEF t
<1>8. \A i \in 1..(n + 1) : t[i] = NormalizeMemoryRecord(DecryptStatementRow(rows'[i]))
  <2> TAKE i \in 1..(n + 1)
  <2>1. CASE i = 1
      BY <2>1, <1>5, <1>6, <1>7
  <2>2. CASE i # 1
    <3>1. i - 1 \in 1..n /\ (i - 1) + 1 = i
        BY <1>1, <2>2
    <3>2. t[i] = s[i - 1] /\ rows'[i] = rows[i - 1]
        BY <1>5, <1>6, <3>1
    <3>3. QED
        BY <1>4, <3>1, <3>2
  <2>3. QED
      BY <2>1, <2>2
<1>9. FilterApprovedTaskMemory(Listed, request)' = Kept(t, keeps)
  <2> DEFINE listed == [i \in 1..(n + 1) |-> DecryptStatementRow(rows'[i])]
             normal == [i \in DOMAIN listed |-> NormalizeMemoryRecord(listed[i])]
  <2>1. Listed' = listed
      BY <1>6 DEF Listed, DecryptStatementRow, MergeMemoryStatement
  <2>2. DOMAIN listed = 1..(n + 1) /\ \A i \in 1..(n + 1) : normal[i] = t[i]
      BY <1>8
  <2>3. normal = t
    <3>1. t = [i \in 1..(n + 1) |-> t[i]]
        BY <1>1, <1>5
    <3>2. normal = [i \in 1..(n + 1) |-> normal[i]]
        OBVIOUS
    <3> HIDE DEF normal
    <3>3. QED
        BY <2>2, <3>1, <3>2
  <2>4. FilterApprovedTaskMemory(listed, request) = Kept(normal, {i \in DOMAIN listed : Permitted(normal[i], request)})
      BY DEF FilterApprovedTaskMemory
  <2> HIDE DEF listed, normal
  <2>5. {i \in DOMAIN listed : Permitted(normal[i], request)} = keeps
      BY <2>2, <2>3
  <2>6. FilterApprovedTaskMemory(Listed, request)' = FilterApprovedTaskMemory(listed, request)
      BY <2>1
  <2>7. QED
      BY <2>3, <2>4, <2>5, <2>6
<1>10. FilterApprovedTaskMemory(Listed, request) = Kept(s, keep)
    BY DEF FilterApprovedTaskMemory, s, NormalList, keep
<1>11. keep \in SUBSET (1..Len(s)) /\ \A i \in 1..Len(s) : i \in keep <=> i + 1 \in keeps
  <2>1. \A i \in 1..n : i + 1 \in 1..(n + 1)
      BY <1>1
  <2>2. QED
      BY <1>1, <1>4, <1>5, <2>1
<1>12. 1 \in keeps <=> Permitted(r, request)
  <2>1. 1 \in 1..(n + 1)
      BY <1>1
  <2>2. QED
      BY <1>5, <2>1
<1> HIDE DEF keep, keeps
<1>13. Kept(t, keeps) = (IF 1 \in keeps THEN <<r>> ELSE <<>>) \o Kept(s, keep)
    BY <1>3, <1>4, <1>11, KeptFirst DEF t
<1>14. Kept(s, keep) \in Seq(Record)
    BY <1>4, <1>11, KeptPositions
<1>15. QED
    BY <1>3, <1>9, <1>10, <1>12, <1>13, <1>14 DEF r

\* A record put first adds its weight to the evidence of its group.
LEMMA EvidenceOfMore ==
    ASSUME TableInvariant, NEW before \in Seq(Record), NEW r \in Record, NEW text
    PROVE  Evidence(<<r>> \o before, r.field_path, text) =
               (IF text = TextOf[r.value] THEN Weight(r) ELSE 0) + Evidence(before, r.field_path, text)
<1> DEFINE n == Len(before)
           field == r.field_path
           after == <<r>> \o before
           I == Holders(before, field, text)
           J == Holders(after, field, text)
           g == [i \in DOMAIN before |-> IF i \in I THEN Weight(before[i]) ELSE 0]
           f == [i \in DOMAIN after |-> IF i \in J THEN Weight(after[i]) ELSE 0]
<1>1. /\ n \in Nat /\ DOMAIN before = 1..n /\ DOMAIN after = 1..(n + 1) /\ Len(after) = n + 1
      /\ after[1] = r /\ \A i \in 1..n : after[i + 1] = before[i] /\ before[i] \in Record
    BY LenProperties, ElementOfSeq
<1>2. Weight(r) \in Nat /\ \A i \in 1..n : Weight(before[i]) \in Nat
    BY <1>1, WeightIsNat
<1>3. 1 \in 1..(n + 1) /\ \A i \in 1..n : i + 1 \in 1..(n + 1)
    BY <1>1
<1>4. \A i \in 1..n : i \in I <=> i + 1 \in J
    BY <1>1, <1>3 DEF Holders, OfField
<1>5. 1 \in J <=> text = TextOf[r.value]
    BY <1>1, <1>3 DEF Holders, OfField
<1>6. Evidence(after, field, text) = Total(f, n + 1) /\ Evidence(before, field, text) = Total(g, n)
    BY <1>1 DEF Evidence
<1> HIDE DEF n, I, J, after
<1>7. /\ \A i \in 1..n : g[i] = IF i \in I THEN Weight(before[i]) ELSE 0
      /\ \A i \in 1..(n + 1) : f[i] = IF i \in J THEN Weight(after[i]) ELSE 0
    BY <1>1
<1> HIDE DEF f, g
<1>8. \A i \in 1..n : g[i] = f[i + 1] /\ g[i] \in Nat
  <2> TAKE i \in 1..n
  <2>1. after[i + 1] = before[i]
      BY <1>1
  <2>2. i + 1 \in 1..(n + 1)
      BY <1>3
  <2>3. f[i + 1] = IF i + 1 \in J THEN Weight(after[i + 1]) ELSE 0
      BY <1>7, <2>2, Zenon
  <2>4. g[i] = IF i \in I THEN Weight(before[i]) ELSE 0
      BY <1>7, Zenon
  <2>5. i \in I <=> i + 1 \in J
      BY <1>4, Zenon
  <2>6. Weight(before[i]) \in Nat
      BY <1>2, Zenon
  <2>7. g[i] = f[i + 1]
      BY <2>1, <2>3, <2>4, <2>5, Zenon
  <2>8. g[i] \in Nat
    <3>1. 0 \in Nat
        OBVIOUS
    <3>2. QED
        BY <2>4, <2>6, <3>1, Zenon
  <2>9. QED
      BY <2>7, <2>8, Zenon
<1>9. f[1] = IF text = TextOf[r.value] THEN Weight(r) ELSE 0
    BY <1>1, <1>3, <1>5, <1>7
<1>10. \A i \in 1..(n + 1) : f[i] \in Nat
  <2> TAKE i \in 1..(n + 1)
  <2>1. CASE i = 1
      BY <2>1, <1>2, <1>9
  <2>2. CASE i # 1
    <3>1. i - 1 \in 1..n /\ (i - 1) + 1 = i
        BY <1>1, <2>2
    <3>2. QED
        BY <1>8, <3>1
  <2>3. QED
      BY <2>1, <2>2
<1>11. Total(f, n + 1) = f[1] + Total(g, n)
  <2>1. \A i \in 1..n : g[i] = f[i + 1]
      BY <1>8
  <2>2. QED
      BY <1>1, <1>10, <2>1, TotalFromFirst, Zenon
<1>12. QED
    BY <1>6, <1>9, <1>11 DEF after

\* So the group stays the strongest that it was.
LEMMA AgreementKeeps ==
    ASSUME TableInvariant, NEW before \in Seq(Record), NEW r \in Record,
           NEW k \in 1..Len(before), before[k].field_path = r.field_path,
           Strongest(before, r.field_path) = TextOf[r.value]
    PROVE  Strongest(<<r>> \o before, r.field_path) = TextOf[r.value]
<1> DEFINE field == r.field_path
           after == <<r>> \o before
           t == TextOf[r.value]
           s == Strongest(after, field)
           Old(x) == Evidence(before, field, x)
           New(x) == Evidence(after, field, x)
<1>1. /\ Len(before) \in Nat /\ after \in Seq(Record) /\ Len(after) = Len(before) + 1
      /\ after[1] = r /\ \A i \in 1..Len(before) : after[i + 1] = before[i]
    BY LenProperties, ElementOfSeq
<1>2. 1 \in 1..Len(after) /\ after[1].field_path = field
    BY <1>1
<1>3. PICK a \in 1..Len(after) :
          /\ after[a].field_path = field /\ TextOf[after[a].value] = s
          /\ \A j \in 1..Len(after) :
                 after[j].field_path = field =>
                     \/ New(s) > New(TextOf[after[j].value])
                     \/ /\ New(s) = New(TextOf[after[j].value])
                        /\ \/ TextOrder[s] < TextOrder[TextOf[after[j].value]]
                           \/ TextOrder[s] = TextOrder[TextOf[after[j].value]] /\ a <= j
  <2> HIDE DEF after
  <2>1. QED
      BY <1>1, <1>2, StrongestIsHeld
<1>4. /\ New(s) \in Nat /\ New(t) \in Nat /\ Old(s) \in Nat /\ Old(t) \in Nat /\ Weight(r) \in Nat
  <2> HIDE DEF after
  <2>1. QED
      BY <1>1, EvidenceIsNat, WeightIsNat
<1>5. New(t) = Weight(r) + Old(t) /\ New(s) = (IF s = t THEN Weight(r) ELSE 0) + Old(s)
    BY EvidenceOfMore
<1>6. New(s) > New(t) \/ (New(s) = New(t) /\ (TextOrder[s] < TextOrder[t] \/ (TextOrder[s] = TextOrder[t] /\ a <= 1)))
    BY <1>2, <1>3, <1>1
<1>7. SUFFICES ASSUME a # 1, s # t PROVE FALSE
    BY <1>1, <1>3
<1>8. a - 1 \in 1..Len(before) /\ after[a] = before[a - 1]
  <2>1. a - 1 \in 1..Len(before) /\ (a - 1) + 1 = a
      BY <1>1, <1>7
  <2>2. QED
      BY <1>1, <2>1
<1>9. Strongest(before, field) = t
    OBVIOUS
<1>10. PICK b \in 1..Len(before) :
          /\ before[b].field_path = field /\ TextOf[before[b].value] = t
          /\ \A j \in 1..Len(before) :
                 before[j].field_path = field =>
                     \/ Old(t) > Old(TextOf[before[j].value])
                     \/ /\ Old(t) = Old(TextOf[before[j].value])
                        /\ \/ TextOrder[t] < TextOrder[TextOf[before[j].value]]
                           \/ TextOrder[t] = TextOrder[TextOf[before[j].value]] /\ b <= j
  <2> DEFINE old == Strongest(before, field)
  <2>1. PICK b \in 1..Len(before) :
            /\ before[b].field_path = field /\ TextOf[before[b].value] = old
            /\ \A j \in 1..Len(before) :
                   before[j].field_path = field =>
                       \/ Old(old) > Old(TextOf[before[j].value])
                       \/ /\ Old(old) = Old(TextOf[before[j].value])
                          /\ \/ TextOrder[old] < TextOrder[TextOf[before[j].value]]
                             \/ TextOrder[old] = TextOrder[TextOf[before[j].value]] /\ b <= j
    <3> HIDE DEF t, s, after
    <3>1. QED
        BY StrongestIsHeld
  <2>2. old = t
      BY <1>9
  <2> HIDE DEF old, t, Old, s, after
  <2>3. QED
      BY <2>1, <2>2
<1>11. Old(t) > Old(s) \/ (Old(t) = Old(s) /\ (TextOrder[t] < TextOrder[s] \/ TextOrder[t] = TextOrder[s]))
    BY <1>3, <1>8, <1>10
<1>12. TextOrder[s] \in Nat /\ TextOrder[t] \in Nat
  <2>1. r \in Memory /\ before[a - 1] \in Memory
      BY <1>8, ElementOfSeq DEF Record
  <2>2. r.value \in Value \cup {""} /\ before[a - 1].value \in Value \cup {""}
      BY <2>1 DEF Memory
  <2>3. s = TextOf[before[a - 1].value]
      BY <1>3, <1>8
  <2> HIDE DEF s
  <2>4. QED
      BY <2>2, <2>3, PacketAssumption
<1> HIDE DEF Old, New, s, t
<1>13. a \in Nat /\ ~(a <= 1)
    BY <1>1, <1>7
<1>14. QED
    BY <1>4, <1>5, <1>6, <1>7, <1>11, <1>12, <1>13

\* SupportKeepsValue: a new record for the value that an application is told does
\* not make another value of the field win, for any weights, while the records of
\* the field have values and dates.
THEOREM AgreementKeepsValue == Spec => SupportKeepsValue
<1>1. ASSUME TableInvariant, NEW m \in Written, Write(m)
      PROVE  KeepsWinner(m)
  <2> SUFFICES ASSUME m.id \notin {n.id : n \in wrote}, NEW request \in Request,
                      NEW before, before = FilterApprovedTaskMemory(Listed, request),
                      NEW after, after = FilterApprovedTaskMemory(Listed, request)',
                      OfField(before, FieldOf(m)) # {},
                      Comparable({after[i] : i \in OfField(after, FieldOf(m))}),
                      NEW lead \in [Field -> Text], Winner(before, FieldOf(m), lead) = TextOf[m.value]
               PROVE  Winner(after, FieldOf(m), lead) = TextOf[m.value]
      BY DEF KeepsWinner
  <2> DEFINE r == ReadBack(m)
  <2>1. /\ before \in Seq(Record) /\ r \in Record
        /\ after = (IF Permitted(r, request) THEN <<r>> ELSE <<>>) \o before
      BY <1>1, FilterOfMore
  <2>2. r.field_path = FieldOf(m) /\ r.value = m.value
      BY ReadBackFields
  <2>3. PICK k \in 1..Len(before) : before[k].field_path = FieldOf(m)
      BY <2>1, LenProperties DEF OfField
  <2> HIDE DEF r
  <2>4. CASE Permitted(r, request)
    <3>1. after = <<r>> \o before
        BY <2>1, <2>4
    <3>2. /\ after \in Seq(Record) /\ Len(before) \in Nat /\ Len(after) = Len(before) + 1
          /\ after[1] = r /\ \A i \in 1..Len(before) : after[i + 1] = before[i]
        BY <2>1, <3>1, LenProperties, ElementOfSeq
    <3>3. \A i \in OfField(after, FieldOf(m)) : Dated(after[i])
        BY DEF Comparable
    <3>4. \A i \in OfField(before, FieldOf(m)) : Dated(before[i])
      <4> TAKE i \in OfField(before, FieldOf(m))
      <4>1. i \in 1..Len(before) /\ before[i].field_path = FieldOf(m)
          BY <2>1, LenProperties DEF OfField
      <4>2. i + 1 \in 1..Len(after) /\ after[i + 1] = before[i]
          BY <3>2, <4>1
      <4>3. i + 1 \in OfField(after, FieldOf(m))
          BY <3>2, <4>1, <4>2, LenProperties DEF OfField
      <4>4. QED
          BY <3>3, <4>2, <4>3
    <3>5. Strongest(before, FieldOf(m)) = TextOf[m.value]
        BY <1>1, <2>1, <2>3, <3>4, WinnerIsHeld
    <3>6. Strongest(after, FieldOf(m)) = TextOf[m.value]
        BY <1>1, <2>1, <2>2, <2>3, <3>1, <3>5, AgreementKeeps
    <3>7. 1 \in 1..Len(after) /\ after[1].field_path = FieldOf(m)
        BY <2>2, <3>2
    <3>8. QED
        BY <1>1, <3>2, <3>3, <3>6, <3>7, WinnerIsHeld
  <2>5. CASE ~Permitted(r, request)
    <3>1. after = before
        BY <2>1, <2>5, ConcatEmptySeq
    <3>2. QED
        BY <3>1
  <2>6. QED
      BY <2>4, <2>5
<1>2. TableInvariant /\ [Next]_vars => [\A m \in wrote' \ wrote : KeepsWinner(m)]_vars
  <2> SUFFICES ASSUME TableInvariant, [Next]_vars, NEW m \in wrote' \ wrote PROVE KeepsWinner(m)
      OBVIOUS
  <2>1. m \in Written /\ Write(m)
    <3>1. CASE \E n \in Written : Write(n)
        BY <3>1 DEF Write
    <3>2. CASE \E id \in MemoryId : Drop(id)
        BY <3>2 DEF Drop
    <3>3. CASE Pass \/ (\E request \in Request : AskTask(request) \/ AskCap(request)) \/ AskUnreadable \/ Work
               \/ UNCHANGED vars
        BY <3>3 DEF Pass, AskTask, AskCap, AskUnreadable, Work, vars
    <3>4. QED
        BY <3>1, <3>2, <3>3 DEF Next
  <2>2. QED
      BY <1>1, <2>1
<1>3. QED
    BY <1>2, TableIsWritten, PTL DEF Spec, SupportKeepsValue

=============================================================================
