------------------------- MODULE ClaimLifecycleProofs ------------------------
(***************************************************************************)
(* What holds of claims for any applications, claims, categories and       *)
(* updates: who reported what is released, what a trace remembers, that    *)
(* what is filed under health was checked, and that the two maps of the    *)
(* index implement a set of claims for each category.                      *)
(***************************************************************************)
EXTENDS ClaimLifecycle, FiniteSetTheorems, SequenceTheorems, WellFoundedInduction, TLAPS

-----------------------------------------------------------------------------
(* The quarantine by itself.                                               *)

\* The applications that reported a claim, of those there are.
Reporters(id) == {app \in App : <<id, app>> \in reports}

\* What makes TwoAppsRelease inductive: the registry counts for a claim only
\* applications that reported it.
QuarantineInvariant ==
    /\ TypeOK
    /\ \A id \in ClaimId : registry[id] # NoEntry => registry[id].sources \subseteq Reporters(id)
    /\ TwoAppsRelease

\* Nothing is registered or released at first.
LEMMA QuarantineInitially == Init => QuarantineInvariant
  BY DEF Init, QuarantineInvariant, TypeOK, TwoAppsRelease

\* One application alone is less than two.
LEMMA OneIsNotEnough ==
  ASSUME NEW app, NEW S, S = {app}
  PROVE  ~(Cardinality(S) >= 2)
  <1>1. Cardinality({app}) = 1
    BY FS_Singleton
  <1>2. QED
    BY <1>1

\* As many applications as are counted are among those that reported.
LEMMA CountedApps ==
  ASSUME NEW S, NEW T \in SUBSET App, S \subseteq T, Cardinality(S) >= 2
  PROVE  Cardinality(T) >= 2
  <1>1. IsFiniteSet(T)
    BY FS_Subset, SpellingAssumption
  <1>2. IsFiniteSet(S) /\ Cardinality(S) <= Cardinality(T)
    BY <1>1, FS_Subset
  <1>3. Cardinality(S) \in Nat /\ Cardinality(T) \in Nat
    BY <1>1, <1>2, FS_CardinalityType
  <1>4. QED
    BY <1>2, <1>3

\* A report adds one application to those that are counted, and releases the
\* claim that was registered first.
LEMMA ReportPreserves ==
  ASSUME QuarantineInvariant, NEW input \in Input, NEW spelling \in Spelling,
         Report(input, spelling)
  PROVE  QuarantineInvariant'
  <1> DEFINE claim == CreateClaim(input)
             entry == [claim |-> IF registry[claim.id] = NoEntry THEN claim
                                 ELSE registry[claim.id].claim,
                       sources |-> Sources(claim, spelling)]
  <1>1. claim \in Claim /\ claim.id \in ClaimId
    BY DEF CreateClaim, Input, Claim
  <1>2. AppName[spelling] \in App
    BY SpellingAssumption DEF Report
  <1>3. registry[claim.id] # NoEntry =>
            /\ registry[claim.id] \in Entry
            /\ registry[claim.id].claim.id = claim.id
    BY <1>1 DEF QuarantineInvariant, TypeOK
  <1>4. /\ Sources(claim, spelling) \in SUBSET App /\ Sources(claim, spelling) # {}
        /\ entry \in Entry /\ entry.claim.id = claim.id
    BY <1>1, <1>2, <1>3 DEF Sources, Entry
  <1>5. registry' = [registry EXCEPT ![claim.id] = entry]
    BY DEF Report, Quarantined
  <1>6. reports' = reports \cup {<<claim.id, AppName[spelling]>>}
    BY DEF Report
  <1>7. Sources(claim, spelling) \subseteq Reporters(claim.id)'
    BY <1>1, <1>2, <1>6, <1>4 DEF QuarantineInvariant, Sources, Reporters
  <1>8. released' = IF Cardinality(Sources(claim, spelling)) >= 2
                    THEN {<<registry[claim.id].claim, input>>} ELSE {}
    BY DEF Report
  <1>9. Cardinality(Sources(claim, spelling)) >= 2 => registry[claim.id] # NoEntry
    BY OneIsNotEnough DEF Sources
  <1>10. TypeOK'
    <2>1. released' \subseteq Claim \X Input
      BY <1>3, <1>8, <1>9 DEF Entry
    <2>2. QED
      BY <1>1, <1>2, <1>4, <1>5, <1>6, <2>1 DEF QuarantineInvariant, TypeOK
  <1>11. \A id \in ClaimId : registry'[id] # NoEntry => registry'[id].sources \subseteq Reporters(id)'
    <2> TAKE id \in ClaimId
    <2>1. CASE id = claim.id
      BY <2>1, <1>1, <1>5, <1>7 DEF QuarantineInvariant, TypeOK
    <2>2. CASE id # claim.id
      BY <2>2, <1>5, <1>6 DEF QuarantineInvariant, TypeOK, Reporters
    <2>3. QED
      BY <2>1, <2>2
  <1>12. TwoAppsRelease'
    <2> SUFFICES ASSUME NEW r \in released'
                 PROVE  Cardinality(Reporters(r[1].id)') >= 2
      BY DEF TwoAppsRelease, Reporters
    <2>1. Cardinality(Sources(claim, spelling)) >= 2 /\ r[1].id = claim.id
      BY <1>3, <1>8, <1>9
    <2>2. Reporters(claim.id)' \in SUBSET App
      BY DEF Reporters
    <2>3. QED
      BY <2>1, <2>2, <1>7, CountedApps
  <1>13. QED
    BY <1>10, <1>11, <1>12 DEF QuarantineInvariant

\* No other step counts an application or releases a sensitive claim.
LEMMA QuarantinePreserved == QuarantineInvariant /\ [Next]_vars => QuarantineInvariant'
  <1> SUFFICES ASSUME QuarantineInvariant, [Next]_vars PROVE QuarantineInvariant'
    OBVIOUS
  <1>1. CASE Clear
    BY <1>1 DEF Clear, QuarantineInvariant, TypeOK, TwoAppsRelease
  <1>2. ASSUME NEW input \in Input, Invalid(input) PROVE QuarantineInvariant'
    BY <1>2 DEF Invalid, QuarantineInvariant, TypeOK, TwoAppsRelease, Reporters
  <1>3. ASSUME NEW input \in Input, Bypass(input) PROVE QuarantineInvariant'
    <2>1. CreateClaim(input) \in Claim
      BY DEF CreateClaim, Input, Claim
    <2>2. TwoAppsRelease'
      BY <1>3 DEF Bypass, TwoAppsRelease
    <2>3. QED
      BY <1>3, <2>1, <2>2 DEF Bypass, QuarantineInvariant, TypeOK, Reporters
  <1>4. ASSUME NEW input \in Input, NEW spelling \in Spelling, Anonymous(input, spelling)
        PROVE QuarantineInvariant'
    BY <1>4 DEF Anonymous, QuarantineInvariant, TypeOK, TwoAppsRelease, Reporters
  <1>5. ASSUME NEW input \in Input, NEW spelling \in Spelling, Report(input, spelling)
        PROVE QuarantineInvariant'
    BY <1>5, ReportPreserves
  <1>6. CASE UNCHANGED vars
    BY <1>6 DEF vars, QuarantineInvariant, TypeOK, TwoAppsRelease, Reporters
  <1>7. QED
    BY <1>1, <1>2, <1>3, <1>4, <1>5, <1>6 DEF Next, VerifyAndProcessClaim

\* verifyAndProcessClaim() never releases a sensitive claim that fewer than two
\* applications reported, however they spell their names.
THEOREM ReleaseNeedsTwoApps == Spec => []TwoAppsRelease
  <1>1. QuarantineInvariant => TwoAppsRelease
    BY DEF QuarantineInvariant
  <1>2. QED
    BY <1>1, QuarantineInitially, QuarantinePreserved, PTL DEF Spec

\* The registry files claims under their own ids, each with at least one
\* application, and what is returned as verified is a claim.
THEOREM QuarantineTypeCorrect == Spec => []TypeOK
  <1>1. QuarantineInvariant => TypeOK
    BY DEF QuarantineInvariant
  <1>2. QED
    BY <1>1, QuarantineInitially, QuarantinePreserved, PTL DEF Spec

-----------------------------------------------------------------------------
(* The maps of the index.                                                  *)

\* A non-empty set of naturals has a least element.
LEMMA LeastNat ==
  ASSUME NEW S \in SUBSET Nat, S # {}
  PROVE  \E x \in S : \A y \in S : x <= y
  <1>1. PICK x \in S : \A y \in S : ~ (<<y, x>> \in OpToRel(<, Nat))
    BY WFMin, NatLessThanWellFounded
  <1>2. \A y \in S : ~ (y < x)
    BY <1>1, Zenon DEF OpToRel
  <1>3. QED
    BY <1>2

\* Any two maps that are well filed, but for some ids: each claim is in the
\* bucket of its category, and if that can be named, then once, and the lookup
\* names that bucket.
WellFiled(b, l, ids) ==
    /\ b \in [IndexKey -> Seq(FiledClaim)]
    /\ l \in [ClaimId -> IndexKey \cup {NoCategory}]
    /\ \A k \in IndexKey : \A p \in DOMAIN b[k] : b[k][p].category = k
    /\ \A k \in Index!Named : \A p \in DOMAIN b[k] : b[k][p].id \notin ids =>
           /\ l[b[k][p].id] = k
           /\ \A q \in DOMAIN b[k] : b[k][q].id = b[k][p].id => q = p

\* The claims of an array but for some ids.
Exact(s, ids) == {c \in ToSet(s) : c.id \notin ids}

\* An array has no claim twice, but for some ids.
Once(s, ids) == \A p, q \in DOMAIN s : s[p].id = s[q].id /\ s[p].id \notin ids => p = q

\* An id is in no bucket that can be named, but for some ids.
Unlisted(b, id, ids) ==
    \A k \in Index!Named : \A p \in DOMAIN b[k] : b[k][p].id = id => id \in ids

\* For the two maps there are, that is their type and their agreement.
LEMMA WellFiledIsAgreed ==
  ASSUME WellFiled(bucket, lookup, twice), twice \subseteq ClaimId
  PROVE  Index!TypeOK /\ MapsAgree
  <1>1. Index!TypeOK
    <2>1. Index!Claim = FiledClaim
      BY DEF Index!Claim, FiledClaim
    <2>2. ASSUME NEW k \in IndexKey, NEW c \in Index!ToSet(bucket[k]) PROVE c.category = k
      <3>1. PICK p \in DOMAIN bucket[k] : c = bucket[k][p]
        BY DEF Index!ToSet
      <3>2. QED
        BY <3>1 DEF WellFiled
    <2>3. QED
      BY <2>1, <2>2 DEF WellFiled, Index!TypeOK
  <1>2. MapsAgree
    BY DEF WellFiled, MapsAgree, Index!MapsAgree
  <1>3. QED
    BY <1>1, <1>2

\* splice(findIndex(...), 1)
Spliced(s, id) == Index!RemoveFirstMatch(s, LAMBDA c : c.id = id)

\* It takes the claim of an id out of an array that has it at most once, and
\* leaves the others in their order.
LEMMA SpliceTakesOneOut ==
  ASSUME NEW S, NEW s \in Seq(S), NEW id, NEW ids, Once(s, ids)
  PROVE  /\ Spliced(s, id) \in Seq(S)
         /\ ToSet(Spliced(s, id)) \subseteq ToSet(s)
         /\ Exact(Spliced(s, id), ids) = {c \in Exact(s, ids) : c.id # id}
         /\ Once(Spliced(s, id), ids)
  <1> DEFINE r == Spliced(s, id)
             I == {i \in 1..Len(s) : s[i].id = id}
             k == Index!Min(I)
  <1>0. Len(s) \in Nat /\ DOMAIN s = 1..Len(s) /\ \A i \in 1..Len(s) : s[i] \in S
    BY LenProperties, ElementOfSeq
  <1>1. CASE I = {}
    <2>1. r = s
      BY <1>1, <1>0 DEF Spliced, Index!RemoveFirstMatch
    <2>2. QED
      BY <2>1, <1>1, <1>0 DEF ToSet, Exact
  <1>2. CASE I # {}
    <2>1. k \in I
      <3>0. I \in SUBSET Nat
        BY <1>0
      <3>1. \E x \in I : \A y \in I : x <= y
        BY <1>2, <3>0, LeastNat
      <3>2. QED
        BY <3>1 DEF Index!Min
    <2>2. r = SubSeq(s, 1, k - 1) \o SubSeq(s, k + 1, Len(s))
      BY <1>2, <1>0 DEF Spliced, Index!RemoveFirstMatch, Index!RemoveAt, Index!SelectInSeq
    <2> HIDE DEF r, k
    <2>3. k \in 1..Len(s) /\ s[k].id = id
      BY <2>1
    <2>4. /\ SubSeq(s, 1, k - 1) \in Seq(S) /\ Len(SubSeq(s, 1, k - 1)) = k - 1
          /\ \A i \in 1..(k - 1) : SubSeq(s, 1, k - 1)[i] = s[i]
      BY <2>3, <1>0
    <2>5. /\ SubSeq(s, k + 1, Len(s)) \in Seq(S) /\ Len(SubSeq(s, k + 1, Len(s))) = Len(s) - k
          /\ \A i \in 1..(Len(s) - k) : SubSeq(s, k + 1, Len(s))[i] = s[k + i]
      <3>1. k + 1 \in 1..(Len(s) + 1) /\ Len(s) \in (k + 1) - 1..Len(s)
        BY <2>3, <1>0
      <3> DEFINE right == SubSeq(s, k + 1, Len(s))
      <3>2. /\ right \in Seq(S)
            /\ Len(right) = IF k + 1 <= Len(s) THEN Len(s) - (k + 1) + 1 ELSE 0
            /\ \A i \in 1..(Len(s) - (k + 1) + 1) : right[i] = s[(k + 1) + i - 1]
        BY <3>1, <1>0, SubSeqProperties
      <3> HIDE DEF right
      <3>3. Len(right) = Len(s) - k
        <4>1. Len(right) = IF k + 1 <= Len(s) THEN Len(s) - (k + 1) + 1 ELSE 0
          BY <3>2
        <4>2. Len(s) \in Nat /\ k \in 1..Len(s)
          BY <2>3, <1>0
        <4>3. CASE k + 1 <= Len(s)
          BY <4>1, <4>2, <4>3
        <4>4. CASE ~(k + 1 <= Len(s))
          BY <4>1, <4>2, <4>4
        <4>5. QED
          BY <4>3, <4>4
      <3>4. ASSUME NEW i \in 1..(Len(s) - k) PROVE right[i] = s[k + i]
        <4>1. i \in 1..(Len(s) - (k + 1) + 1) /\ (k + 1) + i - 1 = k + i
          BY <2>3, <1>0
        <4>2. QED
          BY <4>1, <3>2
      <3>5. QED
        BY <3>2, <3>3, <3>4 DEF right
    <2>6. /\ r \in Seq(S) /\ Len(r) = Len(s) - 1
          /\ \A i \in 1..(Len(s) - 1) : r[i] = IF i < k THEN s[i] ELSE s[i + 1]
      <3> DEFINE left == SubSeq(s, 1, k - 1)
                 right == SubSeq(s, k + 1, Len(s))
      <3>0. r = left \o right /\ left \in Seq(S) /\ right \in Seq(S)
        BY <2>2, <2>4, <2>5
      <3>1. /\ left \o right \in Seq(S) /\ Len(left \o right) = Len(left) + Len(right)
            /\ \A i \in 1..(Len(left) + Len(right)) :
                   (left \o right)[i] = IF i <= Len(left) THEN left[i] ELSE right[i - Len(left)]
        BY <3>0, ConcatProperties
      <3>2. /\ Len(left) = k - 1 /\ Len(right) = Len(s) - k
            /\ \A i \in 1..(k - 1) : left[i] = s[i]
            /\ \A i \in 1..(Len(s) - k) : right[i] = s[k + i]
        BY <2>4, <2>5
      <3> HIDE DEF left, right
      <3>3. r \in Seq(S) /\ Len(r) = Len(s) - 1
        BY <3>0, <3>1, <3>2, <2>3, <1>0
      <3>4. ASSUME NEW i \in 1..(Len(s) - 1)
            PROVE  r[i] = IF i < k THEN s[i] ELSE s[i + 1]
        <4>1. r[i] = IF i <= k - 1 THEN left[i] ELSE right[i - (k - 1)]
          BY <3>0, <3>1, <3>2, <2>3, <1>0
        <4>2. CASE i < k
          BY <4>1, <4>2, <2>3, <3>2, <1>0
        <4>3. CASE ~(i < k)
          <5>1. i - (k - 1) \in 1..(Len(s) - k) /\ k + (i - (k - 1)) = i + 1 /\ ~(i <= k - 1)
            BY <4>3, <2>3, <1>0
          <5>2. QED
            BY <4>1, <4>3, <5>1, <3>2
        <4>4. QED
          BY <4>2, <4>3
      <3>5. QED
        BY <3>3, <3>4
    <2>7. DOMAIN r = 1..(Len(s) - 1)
      BY <2>6
    <2>8. ASSUME NEW p \in DOMAIN r, NEW q \in DOMAIN r, r[p].id = r[q].id, r[p].id \notin ids
          PROVE  p = q
      <3> DEFINE at(i) == IF i < k THEN i ELSE i + 1
      <3>1. p \in 1..(Len(s) - 1) /\ q \in 1..(Len(s) - 1)
        BY <2>7
      <3>2. r[p] = s[at(p)] /\ r[q] = s[at(q)]
        BY <3>1, <2>6
      <3>3. /\ at(p) \in DOMAIN s /\ at(q) \in DOMAIN s
            /\ at(p) = at(q) => p = q
        BY <3>1, <2>3, <1>0
      <3> HIDE DEF at
      <3>4. QED
        BY <3>2, <3>3, <2>8 DEF Once
    <2>9. ASSUME NEW p \in DOMAIN r
          PROVE  r[p] \in ToSet(s) /\ (r[p].id \notin ids => r[p].id # id)
      <3> DEFINE at == IF p < k THEN p ELSE p + 1
      <3>1. p \in 1..(Len(s) - 1)
        BY <2>7
      <3>2. r[p] = s[at] /\ at \in DOMAIN s /\ at # k /\ k \in DOMAIN s
        BY <3>1, <2>3, <2>6, <1>0
      <3> HIDE DEF at
      <3>3. QED
        BY <3>2, <2>3 DEF ToSet, Once
    <2>10. ASSUME NEW c \in ToSet(s), c.id # id PROVE c \in ToSet(r)
      <3>1. PICK p \in 1..Len(s) : c = s[p]
        BY <1>0 DEF ToSet
      <3>2. CASE p < k
        BY <3>1, <3>2, <2>3, <2>6, <2>7, <1>0 DEF ToSet
      <3>3. CASE p > k
        <4>1. p - 1 \in 1..(Len(s) - 1) /\ ~(p - 1 < k) /\ (p - 1) + 1 = p
          BY <3>1, <3>3, <2>3, <1>0
        <4>2. r[p - 1] = s[p]
          BY <4>1, <2>6
        <4>3. QED
          BY <4>1, <4>2, <3>1, <2>7 DEF ToSet
      <3>4. p # k
        BY <3>1, <2>10, <2>3
      <3>5. QED
        BY <3>1, <3>2, <3>3, <3>4, <2>3, <1>0
    <2>11. ToSet(r) \subseteq ToSet(s) /\ Exact(r, ids) = {c \in Exact(s, ids) : c.id # id}
      BY <2>9, <2>10 DEF ToSet, Exact
    <2>12. QED
      BY <2>6, <2>8, <2>11 DEF r, Once
  <1>3. QED
    BY <1>1, <1>2

\* The two maps after push() and set() of a claim.
Put(b, c) == [b EXCEPT ![c.category] = Append(@, c)]
Set(l, c) == [l EXCEPT ![c.id] = c.category]

\* Of a claim whose id is in no bucket that can be named, or is one of those
\* that the maps are not well filed about.
LEMMA PushFilesOne ==
  ASSUME NEW b, NEW l, NEW ids, WellFiled(b, l, ids),
         NEW c \in FiledClaim, c.category # NoCategory, Unlisted(b, c.id, ids)
  PROVE  /\ WellFiled(Put(b, c), Set(l, c), ids)
         /\ \A k \in IndexKey :
                ToSet(Put(b, c)[k]) = ToSet(b[k]) \cup (IF c.category = k THEN {c} ELSE {})
  <1> DEFINE b2 == Put(b, c)
             l2 == Set(l, c)
             home == c.category
  <1> USE DEF Put, Set
  <1>1. home \in IndexKey /\ c.id \in ClaimId
    BY DEF FiledClaim
  <1>2. /\ b \in [IndexKey -> Seq(FiledClaim)]
        /\ l \in [ClaimId -> IndexKey \cup {NoCategory}]
    BY DEF WellFiled
  <1>3. b2 \in [IndexKey -> Seq(FiledClaim)] /\ l2 \in [ClaimId -> IndexKey \cup {NoCategory}]
    BY <1>1, <1>2
  <1>4. /\ b2[home] = Append(b[home], c)
        /\ \A k \in IndexKey \ {home} : b2[k] = b[k]
    BY <1>1, <1>2
  <1>5. /\ b[home] \in Seq(FiledClaim) /\ Len(b[home]) \in Nat /\ DOMAIN b[home] = 1..Len(b[home])
        /\ DOMAIN b2[home] = 1..(Len(b[home]) + 1)
        /\ \A p \in DOMAIN b[home] : b2[home][p] = b[home][p]
        /\ b2[home][Len(b[home]) + 1] = c
    BY <1>1, <1>2, <1>4
  <1>6. \A k \in Index!Named : \A p \in DOMAIN b[k] : b[k][p].id \notin ids =>
            b[k][p].id # c.id /\ l2[b[k][p].id] = l[b[k][p].id]
    <2> TAKE k \in Index!Named
    <2> TAKE p \in DOMAIN b[k]
    <2>1. b[k] \in Seq(FiledClaim)
      BY <1>2 DEF Index!Named
    <2>2. b[k][p] \in FiledClaim
      BY <2>1
    <2>3. QED
      BY <2>2, <1>2, <1>1 DEF FiledClaim, Unlisted
  <1> HIDE DEF b2, l2, home, Put, Set
  <1>7. l2[c.id] = home
    BY <1>1, <1>2 DEF l2, home, Set
  <1>8. ASSUME NEW k \in IndexKey, NEW p \in DOMAIN b2[k]
        PROVE  b2[k][p].category = k
    <2>1. CASE k # home
      BY <2>1, <1>4 DEF WellFiled
    <2>2. CASE k = home
      <3>1. p \in DOMAIN b[home] \/ b2[k][p] = c
        BY <2>2, <1>5
      <3>2. QED
        BY <2>2, <3>1, <1>1, <1>5 DEF WellFiled, home
    <2>3. QED
      BY <2>1, <2>2
  <1>9. ASSUME NEW k \in Index!Named, NEW p \in DOMAIN b2[k], b2[k][p].id \notin ids
        PROVE  /\ l2[b2[k][p].id] = k
               /\ \A q \in DOMAIN b2[k] : b2[k][q].id = b2[k][p].id => q = p
    <2>0. k \in IndexKey
      BY DEF Index!Named
    <2>1. CASE k # home
      <3>1. b2[k] = b[k]
        BY <2>0, <2>1, <1>4
      <3>2. /\ l[b[k][p].id] = k
            /\ \A q \in DOMAIN b[k] : b[k][q].id = b[k][p].id => q = p
        BY <3>1, <1>9 DEF WellFiled
      <3>3. QED
        BY <3>1, <3>2, <1>6, <1>9
    <2>2. CASE k = home
      <3>1. \A q \in DOMAIN b2[k] : q \in DOMAIN b[home] \/ (q = Len(b[home]) + 1 /\ b2[k][q] = c)
        BY <2>2, <1>5
      <3>2. CASE p \in DOMAIN b[home]
        <4>1. b2[home][p] = b[home][p]
          BY <3>2, <1>5
        <4>2. /\ l[b[home][p].id] = home
              /\ \A q \in DOMAIN b[home] : b[home][q].id = b[home][p].id => q = p
              /\ b[home][p].id # c.id /\ l2[b[home][p].id] = l[b[home][p].id]
          BY <2>2, <3>2, <4>1, <1>6, <1>9 DEF WellFiled
        <4>3. ASSUME NEW q \in DOMAIN b2[home], b2[home][q].id = b[home][p].id PROVE q = p
          <5>1. q \in DOMAIN b[home]
            BY <4>2, <4>3, <3>1, <2>2
          <5>2. QED
            BY <4>3, <5>1, <4>2, <1>5
        <4>4. QED
          BY <4>1, <4>2, <4>3, <2>2
      <3>3. CASE p = Len(b[home]) + 1 /\ b2[k][p] = c
        <4>1. ASSUME NEW q \in DOMAIN b2[k], b2[k][q].id = c.id PROVE q = p
          <5>1. q \notin DOMAIN b[home]
            BY <3>3, <4>1, <2>2, <1>5, <1>6, <1>9
          <5>2. QED
            BY <5>1, <3>1, <3>3
        <4>2. QED
          BY <4>1, <3>3, <2>2, <1>7
      <3>4. QED
        BY <3>1, <3>2, <3>3
    <2>3. QED
      BY <2>1, <2>2
  <1>10. ASSUME NEW k \in IndexKey
         PROVE  ToSet(b2[k]) = ToSet(b[k]) \cup (IF home = k THEN {c} ELSE {})
    <2>1. CASE k # home
      BY <2>1, <1>4
    <2>2. CASE k = home
      <3>1. DOMAIN b2[k] = DOMAIN b[k] \cup {Len(b[k]) + 1} /\ Len(b[k]) + 1 \notin DOMAIN b[k]
        BY <2>2, <1>5
      <3>2. /\ \A p \in DOMAIN b[k] : b2[k][p] = b[k][p]
            /\ b2[k][Len(b[k]) + 1] = c
        BY <2>2, <1>5
      <3>3. \A x \in ToSet(b2[k]) : x \in ToSet(b[k]) \cup {c}
        BY <3>1, <3>2 DEF ToSet
      <3>4. \A x \in ToSet(b[k]) : x \in ToSet(b2[k])
        BY <3>1, <3>2 DEF ToSet
      <3>5. c \in ToSet(b2[k])
        BY <3>1, <3>2 DEF ToSet
      <3>6. QED
        BY <2>2, <3>3, <3>4, <3>5
    <2>3. QED
      BY <2>1, <2>2
  <1>11. WellFiled(b2, l2, ids)
    BY <1>3, <1>8, <1>9 DEF WellFiled
  <1>12. QED
    BY <1>10, <1>11 DEF b2, l2, home

\* What upsert and removal begin with: the claim of an id is in no bucket that
\* can be named afterwards, whatever the lookup says of it from then on.
LEMMA TakenOutOfItsBucket ==
  ASSUME WellFiled(bucket, lookup, twice), NEW id \in ClaimId,
         NEW x \in IndexKey \cup {NoCategory}
  PROVE  /\ WellFiled(Index!TakenOut(id), [lookup EXCEPT ![id] = x], twice)
         /\ \A k \in IndexKey : ToSet(Index!TakenOut(id)[k]) \subseteq ToSet(bucket[k])
         /\ \A k \in Index!Named :
                Exact(Index!TakenOut(id)[k], twice) = {c \in Exact(bucket[k], twice) : c.id # id}
  <1> DEFINE b2 == Index!TakenOut(id)
             l2 == [lookup EXCEPT ![id] = x]
             home == lookup[id]
  <1>1. /\ bucket \in [IndexKey -> Seq(FiledClaim)]
        /\ lookup \in [ClaimId -> IndexKey \cup {NoCategory}]
        /\ \A k \in IndexKey : \A p \in DOMAIN bucket[k] : bucket[k][p].category = k
        /\ \A k \in Index!Named : \A p \in DOMAIN bucket[k] : bucket[k][p].id \notin twice =>
               /\ lookup[bucket[k][p].id] = k
               /\ \A q \in DOMAIN bucket[k] : bucket[k][q].id = bucket[k][p].id => q = p
    BY DEF WellFiled
  <1>2. \A k \in IndexKey : bucket[k] \in Seq(FiledClaim)
    BY <1>1
  <1>3. \A k \in Index!Named : k # home => \A c \in Exact(bucket[k], twice) : c.id # id
    BY <1>1 DEF ToSet, Exact
  <1>4. ASSUME NEW k \in Index!Named
        PROVE  /\ b2[k] \in Seq(FiledClaim)
               /\ ToSet(b2[k]) \subseteq ToSet(bucket[k])
               /\ Exact(b2[k], twice) = {c \in Exact(bucket[k], twice) : c.id # id}
               /\ Once(b2[k], twice)
    <2>0. k \in IndexKey /\ k # Blank
      BY DEF Index!Named
    <2>1. CASE k = home
      <3>1. b2[k] = Spliced(bucket[k], id)
        <4>1. Index!FiledAs(id)
          BY <2>0, <2>1, LifecycleAssumption DEF Index!FiledAs
        <4>2. QED
          BY <2>0, <2>1, <4>1, <1>1 DEF Index!TakenOut, Spliced
      <3>2. Once(bucket[k], twice)
        BY <1>1 DEF Once
      <3>3. bucket[k] \in Seq(FiledClaim)
        BY <2>0, <1>2
      <3>4. /\ Spliced(bucket[k], id) \in Seq(FiledClaim)
            /\ ToSet(Spliced(bucket[k], id)) \subseteq ToSet(bucket[k])
            /\ Exact(Spliced(bucket[k], id), twice) = {c \in Exact(bucket[k], twice) : c.id # id}
            /\ Once(Spliced(bucket[k], id), twice)
        BY <3>2, <3>3, SpliceTakesOneOut
      <3> HIDE DEF b2
      <3>5. QED
        BY <3>1, <3>4
    <2>2. CASE k # home
      <3>1. b2[k] = bucket[k]
        BY <2>2, <1>1 DEF Index!TakenOut
      <3>2. QED
        BY <3>1, <2>0, <2>2, <1>1, <1>2, <1>3 DEF Once
    <2>3. QED
      BY <2>1, <2>2
  <1>5. \A k \in IndexKey \ Index!Named : b2[k] = bucket[k]
    BY <1>1 DEF Index!TakenOut, Index!FiledAs, Index!Named
  <1>6. b2 \in [IndexKey -> Seq(FiledClaim)]
    <2>1. b2 = [k \in IndexKey |-> b2[k]]
      BY <1>1 DEF Index!TakenOut
    <2> HIDE DEF b2
    <2>2. QED
      BY <2>1, <1>2, <1>4, <1>5
  <1>7. l2 \in [ClaimId -> IndexKey \cup {NoCategory}]
        /\ \A other \in ClaimId \ {id} : l2[other] = lookup[other]
    BY <1>1
  <1> HIDE DEF b2, l2, home
  <1>8. \A k \in IndexKey : ToSet(b2[k]) \subseteq ToSet(bucket[k])
    BY <1>4, <1>5
  <1>9. ASSUME NEW k \in IndexKey, NEW p \in DOMAIN b2[k]
        PROVE  b2[k][p].category = k
    <2>1. PICK q \in DOMAIN bucket[k] : b2[k][p] = bucket[k][q]
      BY <1>8 DEF ToSet
    <2>2. QED
      BY <2>1, <1>1
  <1>10. ASSUME NEW k \in Index!Named, NEW p \in DOMAIN b2[k], b2[k][p].id \notin twice
         PROVE  /\ l2[b2[k][p].id] = k
                /\ \A q \in DOMAIN b2[k] : b2[k][q].id = b2[k][p].id => q = p
    <2>1. b2[k][p] \in Exact(bucket[k], twice) /\ b2[k][p].id # id
      BY <1>4, <1>10 DEF ToSet, Exact
    <2>2. PICK q \in DOMAIN bucket[k] : b2[k][p] = bucket[k][q]
      BY <2>1 DEF ToSet, Exact
    <2>3. bucket[k][q] \in FiledClaim
      BY <1>2 DEF Index!Named
    <2>4. l2[b2[k][p].id] = k
      BY <2>1, <2>2, <2>3, <1>1, <1>7, <1>10 DEF FiledClaim
    <2>5. QED
      BY <2>4, <1>4, <1>10 DEF Once
  <1>11. WellFiled(b2, l2, twice)
    BY <1>6, <1>7, <1>9, <1>10 DEF WellFiled
  <1>12. QED
    BY <1>4, <1>8, <1>11 DEF b2, l2

\* f is defined on 0..n from its value one below.
Iterates(f, n, base, step) ==
    \A i \in 0..n : f[i] = IF i = 0 THEN base ELSE step[<<f[i - 1], i>>]

\* There is such a function: the maps that forEach fills are well defined.
LEMMA IterationExists ==
  ASSUME NEW n \in Nat, NEW S, NEW base \in S, NEW step \in [S \X (1..n) -> S]
  PROVE  \E f \in [0..n -> S] : Iterates(f, n, base, step)
  <1> USE DEF Iterates
  <1> DEFINE bad == {m \in 0..n : ~ \E f \in [0..m -> S] : Iterates(f, m, base, step)}
  <1>1. SUFFICES ASSUME bad # {} PROVE FALSE
    OBVIOUS
  <1>2. PICK m \in bad : \A y \in bad : m <= y
    <2>1. bad \in SUBSET Nat
      OBVIOUS
    <2> HIDE DEF bad
    <2>2. QED
      BY <1>1, <2>1, LeastNat
  <1>3. m \in 0..n /\ ~ \E f \in [0..m -> S] : Iterates(f, m, base, step)
    BY <1>2
  <1>4. m # 0
    <2>1. SUFFICES ASSUME m = 0 PROVE FALSE
      OBVIOUS
    <2>2. [i \in 0..m |-> base] \in [0..m -> S]
      OBVIOUS
    <2>3. Iterates([i \in 0..m |-> base], m, base, step)
      BY <2>1
    <2>4. QED
      BY <2>2, <2>3, <1>3
  <1>5. m - 1 \in 0..n /\ m - 1 \notin bad
    BY <1>2, <1>3, <1>4
  <1>6. PICK g \in [0..(m - 1) -> S] : Iterates(g, m - 1, base, step)
    BY <1>5
  <1> DEFINE h == [i \in 0..m |-> IF i = m THEN step[<<g[m - 1], m>>] ELSE g[i]]
  <1>7. h \in [0..m -> S]
    <2>1. g[m - 1] \in S /\ step[<<g[m - 1], m>>] \in S
      BY <1>3, <1>4, <1>6
    <2>2. ASSUME NEW i \in 0..m PROVE h[i] \in S
      <3>1. i # m => i \in 0..(m - 1)
        BY <1>3
      <3>2. QED
        BY <2>1, <3>1, <1>6
    <2>3. QED
      BY <2>2
  <1>8. ASSUME NEW i \in 0..m
        PROVE  h[i] = IF i = 0 THEN base ELSE step[<<h[i - 1], i>>]
    <2>1. CASE i = m
      <3>1. m - 1 \in 0..m /\ m - 1 # m
        BY <1>3, <1>4
      <3>2. h[m - 1] = g[m - 1] /\ h[m] = step[<<g[m - 1], m>>]
        BY <3>1, <1>3
      <3>3. QED
        BY <2>1, <3>2, <1>4
    <2>2. CASE i # m
      <3>1. i \in 0..(m - 1) /\ (i # 0 => i - 1 \in 0..m /\ i - 1 # m)
        BY <2>2, <1>3
      <3>2. h[i] = g[i] /\ (i # 0 => h[i - 1] = g[i - 1])
        BY <3>1, <2>2
      <3>3. g[i] = IF i = 0 THEN base ELSE step[<<g[i - 1], i>>]
        BY <3>1, <1>6
      <3>4. QED
        BY <3>2, <3>3
    <2>3. QED
      BY <2>1, <2>2
  <1> HIDE DEF h
  <1>9. QED
    BY <1>3, <1>7, <1>8

\* The maps that the callback of forEach makes of two maps and a claim.
Pushed(maps, c) ==
    IF c.category = NoCategory THEN maps
    ELSE [bucket |-> [maps.bucket EXCEPT ![c.category] = Append(@, c)],
          lookup |-> [maps.lookup EXCEPT ![c.id] = c.category]]

Maps == [bucket : [IndexKey -> Seq(FiledClaim)], lookup : [ClaimId -> IndexKey \cup {NoCategory}]]

\* It keeps their type.
LEMMA PushedType ==
  ASSUME NEW maps \in Maps, NEW c \in FiledClaim
  PROVE  Pushed(maps, c) \in Maps
  <1>1. CASE c.category = NoCategory
    BY <1>1 DEF Pushed
  <1>2. CASE c.category # NoCategory
    <2>1. c.category \in IndexKey /\ c.id \in ClaimId
      BY <1>2 DEF FiledClaim
    <2>2. maps.bucket[c.category] \in Seq(FiledClaim)
      BY <2>1 DEF Maps
    <2>3. Append(maps.bucket[c.category], c) \in Seq(FiledClaim)
      BY <2>2
    <2>4. QED
      BY <1>2, <2>1, <2>3 DEF Pushed, Maps
  <1>3. QED
    BY <1>1, <1>2

\* forEach calls the callback on one claim after the other.
LEMMA IndexedIterates ==
  ASSUME NEW claims \in Seq(FiledClaim)
  PROVE  /\ Index!Indexed(claims) \in [0..Len(claims) -> Maps]
         /\ \A i \in 0..Len(claims) :
                Index!Indexed(claims)[i] =
                    IF i = 0 THEN [bucket |-> Index!NoneListed, lookup |-> Index!NoneFiled]
                    ELSE Pushed(Index!Indexed(claims)[i - 1], claims[i])
  <1> DEFINE n == Len(claims)
             base == [bucket |-> Index!NoneListed, lookup |-> Index!NoneFiled]
             step == [p \in Maps \X (1..n) |-> Pushed(p[1], claims[p[2]])]
             Callback(f) == [i \in 0..n |-> IF i = 0 THEN base
                             ELSE IF claims[i].category = NoCategory THEN f[i - 1]
                             ELSE [bucket |-> [f[i - 1].bucket EXCEPT
                                                  ![claims[i].category] = Append(@, claims[i])],
                                   lookup |-> [f[i - 1].lookup EXCEPT
                                                  ![claims[i].id] = claims[i].category]]]
             Each(f) == \A i \in 0..n : f[i] = IF i = 0 THEN base ELSE Pushed(f[i - 1], claims[i])
  <1>1. n \in Nat /\ \A i \in 1..n : claims[i] \in FiledClaim
    BY LenProperties, ElementOfSeq
  <1>2. base \in Maps
    <2>1. Index!NoneListed \in [IndexKey -> Seq(FiledClaim)]
      BY EmptySeq DEF Index!NoneListed
    <2>2. Index!NoneFiled \in [ClaimId -> IndexKey \cup {NoCategory}]
      BY DEF Index!NoneFiled
    <2>3. QED
      BY <2>1, <2>2 DEF Maps
  <1> HIDE DEF base
  <1>3. step \in [Maps \X (1..n) -> Maps]
    BY <1>1, PushedType
  <1>4. \A m \in Maps : \A i \in 1..n : step[<<m, i>>] = Pushed(m, claims[i])
    OBVIOUS
  <1> HIDE DEF step
  <1>5. PICK f \in [0..n -> Maps] : Iterates(f, n, base, step)
    <2> HIDE DEF n
    <2>1. QED
      BY <1>1, <1>2, <1>3, IterationExists
  <1>6. Each(f)
    <2> TAKE i \in 0..n
    <2>1. CASE i = 0
      BY <2>1, <1>1, <1>5 DEF Iterates
    <2>2. CASE i # 0
      <3>1. i \in 1..n /\ i - 1 \in 0..n /\ f[i - 1] \in Maps
        BY <2>2, <1>1, <1>5
      <3>2. QED
        BY <2>2, <3>1, <1>4, <1>5 DEF Iterates
    <2>3. QED
      BY <2>1, <2>2
  <1>7. \A g : g = Callback(g) <=> g = [i \in 0..n |-> IF i = 0 THEN base ELSE Pushed(g[i - 1], claims[i])]
    BY DEF Pushed
  <1>8. f = Callback(f)
    <2>1. f = [i \in 0..n |-> IF i = 0 THEN base ELSE Pushed(f[i - 1], claims[i])]
      BY <1>5, <1>6
    <2> HIDE DEF Callback
    <2>2. QED
      BY <2>1, <1>7, Zenon
  <1>9. Index!Indexed(claims) = CHOOSE g : g = Callback(g)
    BY DEF Index!Indexed, base
  <1> DEFINE a == Index!Indexed(claims)
  <1> HIDE DEF a, Callback
  <1>10. a = Callback(a)
    BY <1>8, <1>9 DEF a
  <1>11. a = [i \in 0..n |-> IF i = 0 THEN base ELSE Pushed(a[i - 1], claims[i])]
    BY <1>7, <1>10
  <1>12. Each(a)
    BY <1>11
  <1> DEFINE bad == {i \in 0..n : a[i] \notin Maps}
  <1>13. bad = {}
    <2>1. SUFFICES ASSUME bad # {} PROVE FALSE
      OBVIOUS
    <2>2. bad \in SUBSET Nat
      BY <1>1
    <2>3. PICK m \in bad : \A y \in bad : m <= y
      BY <2>1, <2>2, LeastNat
    <2>4. m # 0
      BY <2>3, <1>12, <1>2
    <2>5. m \in 1..n /\ m - 1 \in 0..n /\ m - 1 \notin bad
      BY <2>3, <2>4, <1>1
    <2>6. a[m] = Pushed(a[m - 1], claims[m]) /\ a[m - 1] \in Maps
      BY <2>5, <2>3, <2>4, <1>12
    <2>7. QED
      BY <2>3, <2>5, <2>6, <1>1, PushedType
  <1>14. a \in [0..n -> Maps]
    BY <1>11, <1>13
  <1>15. QED
    BY <1>12, <1>14 DEF a, base

\* The claims of an array before position i + 1 that are in a category.
Among(claims, i, k) == {claims[j] : j \in {x \in 1..i : claims[x].category = k}}

\* A rebuild files each claim of the array and nothing else, and those that the
\* array does not repeat once.
LEMMA RebuildFilesAll ==
  ASSUME NEW claims \in Seq(FiledClaim)
  PROVE  LET maps == Index!Indexed(claims)[Len(claims)]
         IN /\ WellFiled(maps.bucket, maps.lookup, Index!Repeated(claims))
            /\ \A k \in IndexKey : ToSet(maps.bucket[k]) = Among(claims, Len(claims), k)
  <1> DEFINE n == Len(claims)
             a == Index!Indexed(claims)
             ids == Index!Repeated(claims)
             Good(i) == /\ WellFiled(a[i].bucket, a[i].lookup, ids)
                        /\ \A k \in IndexKey : ToSet(a[i].bucket[k]) = Among(claims, i, k)
             bad == {i \in 0..n : ~ Good(i)}
  <1>1. n \in Nat /\ \A i \in 1..n : claims[i] \in FiledClaim
    BY LenProperties, ElementOfSeq
  <1>2. /\ a \in [0..n -> Maps]
        /\ \A i \in 0..n :
               a[i] = IF i = 0 THEN [bucket |-> Index!NoneListed, lookup |-> Index!NoneFiled]
                      ELSE Pushed(a[i - 1], claims[i])
    BY IndexedIterates
  <1> HIDE DEF a
  <1>3. Good(0)
    <2>1. a[0] = [bucket |-> Index!NoneListed, lookup |-> Index!NoneFiled]
      BY <1>1, <1>2
    <2>2. /\ a[0].bucket = [k \in IndexKey |-> <<>>]
          /\ a[0].lookup = [id \in ClaimId |-> NoCategory]
      BY <2>1 DEF Index!NoneListed, Index!NoneFiled
    <2>3. a[0].bucket \in [IndexKey -> Seq(FiledClaim)]
      BY <2>2, EmptySeq
    <2>4. a[0].lookup \in [ClaimId -> IndexKey \cup {NoCategory}]
      BY <2>2
    <2>5. \A k \in IndexKey : a[0].bucket[k] = <<>> /\ DOMAIN a[0].bucket[k] = {}
      BY <2>2
    <2>6. \A k \in IndexKey : ToSet(a[0].bucket[k]) = {} /\ Among(claims, 0, k) = {}
      BY <2>5 DEF ToSet, Among
    <2>7. QED
      BY <2>3, <2>4, <2>5, <2>6 DEF WellFiled, Index!Named
  <1>4. ASSUME NEW i \in 1..n, Good(i - 1) PROVE Good(i)
    <2> DEFINE c == claims[i]
               b == a[i - 1].bucket
               l == a[i - 1].lookup
    <2>1. /\ c \in FiledClaim /\ i \in 0..n /\ i - 1 \in 0..n
          /\ a[i] = Pushed(a[i - 1], c)
      BY <1>1, <1>2
    <2>2. \A k \in IndexKey :
              Among(claims, i, k) = Among(claims, i - 1, k) \cup (IF c.category = k THEN {c} ELSE {})
      <3> TAKE k \in IndexKey
      <3>1. 1..i = 1..(i - 1) \cup {i}
        BY <1>1
      <3>2. QED
        BY <3>1 DEF Among
    <2>3. CASE c.category = NoCategory
      <3>1. a[i] = a[i - 1]
        BY <2>1, <2>3 DEF Pushed
      <3>2. \A k \in IndexKey : Among(claims, i, k) = Among(claims, i - 1, k)
        BY <2>2, <2>3, LifecycleAssumption
      <3>3. QED
        BY <3>1, <3>2, <1>4
    <2>4. CASE c.category # NoCategory
      <3>1. Unlisted(b, c.id, ids)
        <4> SUFFICES ASSUME NEW k \in Index!Named, NEW p \in DOMAIN b[k], b[k][p].id = c.id
                     PROVE  c.id \in ids
          BY DEF Unlisted
        <4>1. b[k][p] \in Among(claims, i - 1, k)
          BY <1>4 DEF ToSet, Index!Named
        <4>2. PICK j \in 1..(i - 1) : b[k][p] = claims[j]
          BY <4>1 DEF Among
        <4>3. i \in DOMAIN claims
          BY <1>1
        <4>4. QED
          BY <4>2, <4>3 DEF Index!Repeated
      <3>2. WellFiled(b, l, ids)
        BY <1>4
      <3>3. a[i].bucket = Put(b, c) /\ a[i].lookup = Set(l, c)
        BY <2>1, <2>4 DEF Pushed, Put, Set
      <3> HIDE DEF b, l, c, ids
      <3>4. /\ WellFiled(Put(b, c), Set(l, c), ids)
            /\ \A k \in IndexKey :
                   ToSet(Put(b, c)[k]) = ToSet(b[k]) \cup (IF c.category = k THEN {c} ELSE {})
        BY <3>1, <3>2, <2>1, <2>4, PushFilesOne
      <3>5. \A k \in IndexKey : ToSet(b[k]) = Among(claims, i - 1, k)
        BY <1>4 DEF b
      <3>6. QED
        BY <3>3, <3>4, <3>5, <2>2
    <2>5. QED
      BY <2>3, <2>4
  <1> HIDE DEF Good
  <1>5. bad = {}
    <2>1. SUFFICES ASSUME bad # {} PROVE FALSE
      OBVIOUS
    <2>2. bad \in SUBSET Nat
      BY <1>1
    <2>3. PICK m \in bad : \A y \in bad : m <= y
      BY <2>1, <2>2, LeastNat
    <2>4. m \in 1..n /\ m - 1 \in 0..n /\ m - 1 \notin bad
      BY <2>3, <1>1, <1>3
    <2>5. QED
      BY <2>3, <2>4, <1>4
  <1>6. Good(n)
    BY <1>5, <1>1
  <1>7. QED
    BY <1>6 DEF Good, a

-----------------------------------------------------------------------------
(* What is held.                                                           *)

\* A claim that is held, with a trace of whatever records.
Shaped(c) ==
    c \in [id : ClaimId, text : Text, category : Category, metadata : Category,
           trace : Seq(ToSet(c.trace)), checked : BOOLEAN]

\* A claim that was never rectified was checked if its metadata says that it
\* is sensitive, and has no category that the quarantine did not see.
CheckedOrRectified(c) ==
    c.trace # <<>> \/ (c.category = NoCategory /\ (c.metadata \in Lowered => c.checked))

Fine(c) == Shaped(c) /\ CheckedOrRectified(c)

HeldInvariant ==
    /\ IsFiniteSet(held)
    /\ \A c \in held : Fine(c)
    /\ \A c, d \in held : c.id = d.id => c = d

\* A claim that takes the place of the one with its id.
LEMMA ReplacingKeeps ==
  ASSUME HeldInvariant, NEW c, Fine(c), held' = Replacing(c)
  PROVE  HeldInvariant'
  <1>1. IsFiniteSet(held')
    <2>1. IsFiniteSet({d \in held : d.id # c.id})
      BY FS_Subset DEF HeldInvariant
    <2>2. QED
      BY <2>1, FS_AddElement DEF Replacing
  <1>2. \A d \in held' : d = c \/ (d \in held /\ d.id # c.id)
    BY DEF Replacing
  <1>3. QED
    BY <1>1, <1>2 DEF HeldInvariant

\* A claim as verifyAndProcessClaim returns it.
LEMMA ReleasedIsFine ==
  ASSUME QuarantineInvariant', NEW r \in released'
  PROVE  Fine(Held(r[1]))
  <1> DEFINE c == Held(r[1])
  <1>1. r[1] \in Claim
    BY DEF QuarantineInvariant, TypeOK
  <1>2. /\ c.id = r[1].id /\ c.text = r[1].text /\ c.metadata = r[1].metadata
        /\ c.category = NoCategory /\ c.trace = <<>>
        /\ c.checked = (Cardinality({app \in App : <<r[1].id, app>> \in reports'}) >= 2)
    BY DEF Held
  <1>3. c.checked \in BOOLEAN
    BY <1>2
  <1>4. Shaped(c)
    <2>1. <<>> \in Seq(ToSet(<<>>))
      BY EmptySeq
    <2>2. c = [id |-> c.id, text |-> c.text, category |-> c.category, metadata |-> c.metadata,
               trace |-> c.trace, checked |-> c.checked]
      BY DEF Held
    <2> HIDE DEF c
    <2>3. c.category \in Category
      BY <1>2, SpellingAssumption
    <2>4. QED
      BY <1>1, <1>2, <1>3, <2>1, <2>2, <2>3 DEF Shaped, Claim
  <1> HIDE DEF c
  <1>5. c.metadata \in Lowered => c.checked
    BY <1>2 DEF QuarantineInvariant, TwoAppsRelease, Sensitive
  <1>6. QED
    BY <1>2, <1>4, <1>5 DEF Fine, CheckedOrRectified, c

\* A claim that is rectified has a trace.
LEMMA RectifiedIsFine ==
  ASSUME NEW c, Fine(c), NEW update \in Update, NEW origin \in Origin
  PROVE  Fine(Rectified(c, update, origin))
  <1> DEFINE r == Rectified(c, update, origin)
             entry == [origin |-> origin, text |-> c.text, metadata |-> c.metadata, trace |-> c.trace]
             n == Len(c.trace)
  <1>1. c \in [id : ClaimId, text : Text, category : Category, metadata : Category,
               trace : Seq(ToSet(c.trace)), checked : BOOLEAN]
    BY DEF Fine, Shaped
  <1>2. /\ r.id = c.id /\ r.checked = c.checked
        /\ r.text = Given(update.text, c.text)
        /\ r.category = Given(update.category, c.category)
        /\ r.metadata = Given(update.metadata, c.metadata)
        /\ r.trace = Append(c.trace, entry)
    BY <1>1 DEF Rectified
  <1>3. r = [c EXCEPT !.text = r.text, !.category = r.category, !.metadata = r.metadata,
                      !.trace = r.trace]
    BY <1>2 DEF Rectified
  <1>4. r.text \in Text /\ r.category \in Category /\ r.metadata \in Category
    <2>1. update \in [text : Text \cup {Keep}, category : Category \cup {Keep},
                      metadata : Category \cup {Keep}]
      BY LifecycleAssumption
    <2>2. QED
      BY <1>1, <1>2, <2>1 DEF Given
  <1>5. c.trace \in Seq(ToSet(c.trace)) /\ n \in Nat /\ DOMAIN c.trace = 1..n
    BY <1>1
  <1> HIDE DEF r, entry
  <1>6. DOMAIN r.trace = 1..(n + 1) /\ Len(r.trace) = n + 1
    BY <1>2, <1>5
  <1>7. r.trace \in Seq(ToSet(r.trace))
    <2>1. r.trace \in Seq(ToSet(c.trace) \cup {entry})
      BY <1>2, <1>5
    <2>2. \A i \in 1..Len(r.trace) : r.trace[i] \in ToSet(r.trace)
      BY <1>6 DEF ToSet
    <2>3. r.trace = [i \in 1..Len(r.trace) |-> r.trace[i]] /\ Len(r.trace) \in Nat
      BY <2>1
    <2>4. QED
      BY <2>2, <2>3, IsASeq
  <1>8. Shaped(r)
    BY <1>1, <1>2, <1>3, <1>4, <1>7 DEF Shaped
  <1>9. r.trace # <<>>
    BY <1>5, <1>6
  <1>10. QED
    BY <1>8, <1>9 DEF Fine, CheckedOrRectified, r

\* normalizeInfluenceClaim takes the category of a claim and leaves the rest.
LEMMA LinkedIsFine ==
  ASSUME NEW c, Fine(c)
  PROVE  Fine([c EXCEPT !.category = NoCategory])
  <1> DEFINE l == [c EXCEPT !.category = NoCategory]
  <1>1. c \in [id : ClaimId, text : Text, category : Category, metadata : Category,
               trace : Seq(ToSet(c.trace)), checked : BOOLEAN]
    BY DEF Fine, Shaped
  <1>2. /\ l.metadata = c.metadata /\ l.trace = c.trace /\ l.checked = c.checked
        /\ l.category = NoCategory
    BY <1>1
  <1>3. Shaped(l)
    BY <1>1, <1>2, SpellingAssumption DEF Shaped
  <1> HIDE DEF l
  <1>4. CheckedOrRectified(l)
    BY <1>2 DEF Fine, CheckedOrRectified
  <1>5. QED
    BY <1>3, <1>4 DEF Fine, l

\* What makes the invariants of the three pieces of state inductive together.
LifecycleInvariant ==
    /\ QuarantineInvariant
    /\ HeldInvariant
    /\ WellFiled(bucket, lookup, twice) /\ twice \subseteq ClaimId
    /\ FiledHealthIsChecked

\* Nothing is held or filed at first.
LEMMA LifecycleInitially == LifecycleInit => LifecycleInvariant
  <1> SUFFICES ASSUME LifecycleInit PROVE LifecycleInvariant
    OBVIOUS
  <1>1. QuarantineInvariant
    BY QuarantineInitially DEF LifecycleInit
  <1>2. HeldInvariant
    BY FS_EmptySet DEF LifecycleInit, HeldInvariant
  <1>3. \A k \in IndexKey : bucket[k] = <<>> /\ bucket[k] \in Seq(FiledClaim) /\ DOMAIN bucket[k] = {}
    BY EmptySeq DEF LifecycleInit
  <1>4. WellFiled(bucket, lookup, twice) /\ twice \subseteq ClaimId
    BY <1>3 DEF LifecycleInit, WellFiled, Index!Named
  <1>5. FiledHealthIsChecked
    BY <1>3 DEF FiledHealthIsChecked, ToSet
  <1>6. QED
    BY <1>1, <1>2, <1>4, <1>5 DEF LifecycleInvariant

\* Only verifyAndProcessClaim and clearQuarantineRegistry touch the registry,
\* and no other step releases a claim.
LEMMA QuarantineKept ==
  ASSUME QuarantineInvariant, LifecycleNext
  PROVE  QuarantineInvariant'
  <1>1. CASE Verify
    <2>1. Next
      BY <1>1, LifecycleAssumption DEF Verify, Next
    <2>2. QED
      BY <2>1, QuarantinePreserved
  <1>2. ASSUME UNCHANGED <<registry, reports>>, released' = {} PROVE QuarantineInvariant'
    BY <1>2 DEF QuarantineInvariant, TypeOK, TwoAppsRelease, Reporters
  <1>3. CASE RectifyClaimWithTrace
    BY <1>2, <1>3 DEF RectifyClaimWithTrace
  <1>4. CASE LinkClaimEvidence
    BY <1>2, <1>4 DEF LinkClaimEvidence
  <1>5. CASE FileClaims
    BY <1>2, <1>5 DEF FileClaims
  <1>6. CASE Discard
    BY <1>2, <1>6 DEF Discard
  <1>7. QED
    BY <1>1, <1>3, <1>4, <1>5, <1>6 DEF LifecycleNext

\* Every claim that is held stays one that was checked or rectified.
LEMMA HeldKept ==
  ASSUME LifecycleInvariant, LifecycleNext
  PROVE  HeldInvariant'
  <1>1. CASE Verify
    <2>1. QuarantineInvariant'
      BY QuarantineKept DEF LifecycleInvariant
    <2>2. CASE held' = held
      BY <2>2 DEF LifecycleInvariant, HeldInvariant
    <2>3. ASSUME NEW r \in released', held' = Replacing(Held(r[1])) PROVE HeldInvariant'
      BY <2>1, <2>3, ReleasedIsFine, ReplacingKeeps DEF LifecycleInvariant
    <2>4. QED
      BY <1>1, <2>2, <2>3 DEF Verify
  <1>2. CASE RectifyClaimWithTrace
    <2>1. PICK claim \in held, update \in Update, origin \in Origin :
              held' = Replacing(Rectified(claim, update, origin))
      BY <1>2 DEF RectifyClaimWithTrace
    <2>2. Fine(Rectified(claim, update, origin))
      BY RectifiedIsFine DEF LifecycleInvariant, HeldInvariant
    <2>3. QED
      BY <2>1, <2>2, ReplacingKeeps DEF LifecycleInvariant
  <1>3. CASE LinkClaimEvidence
    <2>1. PICK claim \in held : held' = Replacing([claim EXCEPT !.category = NoCategory])
      BY <1>3 DEF LinkClaimEvidence
    <2>2. Fine([claim EXCEPT !.category = NoCategory])
      BY LinkedIsFine DEF LifecycleInvariant, HeldInvariant
    <2>3. QED
      BY <2>1, <2>2, ReplacingKeeps DEF LifecycleInvariant
  <1>4. CASE FileClaims
    BY <1>4 DEF FileClaims, LifecycleInvariant, HeldInvariant
  <1>5. CASE Discard
    <2>1. PICK claim \in held : held' = held \ {claim}
      BY <1>5 DEF Discard
    <2>2. IsFiniteSet(held')
      BY <2>1, FS_Subset DEF LifecycleInvariant, HeldInvariant
    <2>3. QED
      BY <2>1, <2>2 DEF LifecycleInvariant, HeldInvariant
  <1>6. QED
    BY <1>1, <1>2, <1>3, <1>4, <1>5 DEF LifecycleNext

-----------------------------------------------------------------------------
(* What is filed.                                                          *)

\* A claim that is held can be filed, and is filed under health only if it was
\* checked or went around the quarantine.
LEMMA FiledIsChecked ==
  ASSUME HeldInvariant, NEW c \in held
  PROVE  /\ Filed(c) \in FiledClaim /\ Filed(c).id = c.id
         /\ Filed(c).category \in {KeyOf[s] : s \in Health}
                => Filed(c).text.checked \/ Filed(c).text.around
  <1> DEFINE spelled == IF c.category # NoCategory THEN c.category ELSE c.metadata
  <1>1. /\ c.id \in ClaimId /\ c.category \in Category /\ c.metadata \in Category
        /\ c.checked \in BOOLEAN
    BY DEF HeldInvariant, Fine, Shaped
  <1>2. KeyOf[spelled] \in IndexKey \cup {NoCategory}
    BY <1>1, LifecycleAssumption
  <1>3. AroundQuarantine(c) \in BOOLEAN
    BY DEF AroundQuarantine
  <1>4. Filed(c) \in FiledClaim /\ Filed(c).id = c.id
    BY <1>1, <1>2, <1>3 DEF Filed, FiledClaim, Content
  <1>5. ASSUME NEW s \in Health, KeyOf[spelled] = KeyOf[s]
        PROVE  c.checked \/ AroundQuarantine(c)
    <2>1. spelled \in Health
      BY <1>1, <1>5, LifecycleAssumption, SpellingAssumption
    <2>2. c.trace # <<>> \/ (c.category = NoCategory /\ (c.metadata \in Lowered => c.checked))
      BY DEF HeldInvariant, Fine, CheckedOrRectified
    <2>3. QED
      BY <2>1, <2>2 DEF AroundQuarantine
  <1>6. /\ Filed(c).category = KeyOf[spelled]
        /\ Filed(c).text.checked = c.checked /\ Filed(c).text.around = AroundQuarantine(c)
    BY DEF Filed
  <1>7. QED
    BY <1>4, <1>5, <1>6

\* Two claims that are held are filed as two.
LEMMA FiledApart ==
  ASSUME HeldInvariant, NEW c \in held, NEW d \in held, Filed(c).id = Filed(d).id
  PROVE  c = d
  BY DEF HeldInvariant, Filed

\* What a step files, it has from the claims that are held.
FilesHeldClaims ==
    \A k \in IndexKey : \A c \in ToSet(bucket'[k]) :
        \/ c \in ToSet(bucket[k])
        \/ \E claim \in held : c = Filed(claim) /\ c.category = k

\* The listing of the abstract set, of what the two maps list.
Lists(claims, ids) ==
    \A k \in Index!Named :
        Exact(bucket'[k], twice') = {c \in claims : c.category = k /\ c.id \notin ids}

\* buildCategoryIndex of all claims that are held.
LEMMA BuildFiles ==
  ASSUME HeldInvariant, NEW s \in Arrays, Index!Build([i \in DOMAIN s |-> Filed(s[i])])
  PROVE  /\ WellFiled(bucket, lookup, twice)' /\ twice' \in SUBSET ClaimId
         /\ \E ids \in SUBSET ClaimId : Claims!Rebuild(ids)
         /\ FilesHeldClaims
  <1> DEFINE claims == [i \in DOMAIN s |-> Filed(s[i])]
             current == {Filed(claim) : claim \in held}
  <1>1. PICK n \in 0..(Cardinality(held) + 1) : s \in [1..n -> held] /\ ToSet(s) = held
    BY DEF Arrays, SeqOf
  <1>2. n \in Nat
    OBVIOUS
  <1>3. claims = [i \in 1..n |-> Filed(s[i])]
    BY <1>1
  <1>4. claims \in Seq(FiledClaim) /\ Len(claims) = n
    BY <1>1, <1>2, <1>3, FiledIsChecked
  <1>5. current = {claims[i] : i \in 1..n}
    BY <1>1, <1>3 DEF ToSet
  <1>6. /\ bucket' = Index!Indexed(claims)[Len(claims)].bucket
        /\ lookup' = Index!Indexed(claims)[Len(claims)].lookup
        /\ twice' = Index!Repeated(claims)
    BY DEF Index!Build
  <1> HIDE DEF claims
  <1>7. /\ WellFiled(bucket', lookup', twice')
        /\ \A k \in IndexKey : ToSet(bucket'[k]) = Among(claims, n, k)
    BY <1>4, <1>6, RebuildFilesAll
  <1>8. twice' \in SUBSET ClaimId
    <2>1. \A i \in DOMAIN claims : claims[i] \in FiledClaim
      BY <1>4
    <2>2. QED
      BY <2>1, <1>6 DEF Index!Repeated, FiledClaim
  <1>9. \A k \in IndexKey : ToSet(bucket'[k]) = {c \in current : c.category = k}
    BY <1>5, <1>7 DEF Among
  <1>10. Lists(current, twice')
    BY <1>9 DEF Lists, Exact, Index!Named
  <1>11. \E ids \in SUBSET ClaimId : Claims!Rebuild(ids)
    <2>1. PICK ids \in SUBSET ClaimId : ids = twice'
      BY <1>8
    <2>2. Claims!Rebuild(ids)
      BY <1>10, <2>1 DEF Lists, Exact, Claims!Rebuild, Claims!Listing, Index!Listed
    <2>3. QED
      BY <2>2
  <1>12. FilesHeldClaims
    BY <1>9 DEF FilesHeldClaims
  <1>13. QED
    BY <1>7, <1>8, <1>11, <1>12 DEF WellFiled

\* upsertCategoryIndex of a claim that is held.
LEMMA UpsertFiles ==
  ASSUME HeldInvariant, WellFiled(bucket, lookup, twice), NEW c \in held, Index!Upsert(Filed(c))
  PROVE  WellFiled(bucket, lookup, twice)' /\ Claims!Upsert(Filed(c)) /\ FilesHeldClaims
  <1> DEFINE f == Filed(c)
             taken == Index!TakenOut(f.id)
  <1>1. f \in FiledClaim /\ f.id \in ClaimId /\ f.category \in IndexKey \cup {NoCategory}
    BY FiledIsChecked DEF FiledClaim
  <1>2. /\ bucket' = IF f.category = NoCategory THEN taken
                     ELSE [taken EXCEPT ![f.category] = Append(@, f)]
        /\ lookup' = [lookup EXCEPT ![f.id] = f.category]
        /\ twice' = twice
    BY DEF Index!Upsert
  <1>3. f \in {Filed(claim) : claim \in held}
    OBVIOUS
  <1> HIDE DEF f, taken
  <1>4. \A x \in IndexKey \cup {NoCategory} :
            /\ WellFiled(taken, [lookup EXCEPT ![f.id] = x], twice)
            /\ \A k \in IndexKey : ToSet(taken[k]) \subseteq ToSet(bucket[k])
            /\ \A k \in Index!Named :
                   Exact(taken[k], twice) = {d \in Exact(bucket[k], twice) : d.id # f.id}
    BY <1>1, TakenOutOfItsBucket DEF taken
  <1>5. /\ WellFiled(bucket', lookup', twice)
        /\ \A k \in IndexKey : ToSet(bucket'[k])
               = ToSet(taken[k]) \cup (IF f.category = k THEN {f} ELSE {})
    <2>1. CASE f.category = NoCategory
      BY <2>1, <1>1, <1>2, <1>4, LifecycleAssumption
    <2>2. CASE f.category # NoCategory
      <3> DEFINE forgotten == [lookup EXCEPT ![f.id] = NoCategory]
      <3>1. WellFiled(taken, forgotten, twice)
        BY <1>4
      <3>2. Unlisted(taken, f.id, twice)
        BY <1>1, <1>4 DEF ToSet, Exact, Unlisted
      <3>3. Set(forgotten, f) = lookup' /\ Put(taken, f) = bucket'
        BY <1>2, <2>2 DEF Set, Put
      <3> HIDE DEF forgotten
      <3>4. /\ WellFiled(Put(taken, f), Set(forgotten, f), twice)
            /\ \A k \in IndexKey :
                   ToSet(Put(taken, f)[k]) = ToSet(taken[k]) \cup (IF f.category = k THEN {f} ELSE {})
        BY <1>1, <2>2, <3>1, <3>2, PushFilesOne
      <3>5. QED
        BY <3>3, <3>4
    <2>3. QED
      BY <2>1, <2>2
  <1>6. \A k \in Index!Named : Exact(bucket'[k], twice)
            = {d \in Exact(bucket[k], twice) : d.id # f.id}
                  \cup {d \in {f} : d.category = k /\ d.id \notin twice}
    <2> TAKE k \in Index!Named
    <2>1. k \in IndexKey
      BY DEF Index!Named
    <2>2. ToSet(bucket'[k]) = ToSet(taken[k]) \cup (IF f.category = k THEN {f} ELSE {})
      BY <2>1, <1>5
    <2>3. Exact(taken[k], twice) = {d \in Exact(bucket[k], twice) : d.id # f.id}
      BY <1>1, <1>4
    <2>4. Exact(bucket'[k], twice) = Exact(taken[k], twice)
              \cup {d \in {f} : d.category = k /\ d.id \notin twice}
      BY <2>2 DEF Exact
    <2>5. QED
      BY <2>3, <2>4
  <1>7. Claims!Upsert(Filed(c))
    BY <1>2, <1>6 DEF f, Exact, Claims!Upsert, Claims!Without, Claims!Listing, Index!Listed
  <1>8. FilesHeldClaims
    <2> SUFFICES ASSUME NEW k \in IndexKey, NEW d \in ToSet(bucket'[k])
                 PROVE  \/ d \in ToSet(bucket[k])
                        \/ \E claim \in held : d = Filed(claim) /\ d.category = k
      BY DEF FilesHeldClaims
    <2>1. d \in ToSet(taken[k]) \/ (d = f /\ f.category = k)
      BY <1>5
    <2>2. QED
      BY <2>1, <1>1, <1>3, <1>4
  <1>9. QED
    <2>1. WellFiled(bucket, lookup, twice)'
      BY <1>2, <1>5 DEF WellFiled
    <2>2. QED
      BY <2>1, <1>7, <1>8

\* removeFromCategoryIndex
LEMMA RemoveFiles ==
  ASSUME WellFiled(bucket, lookup, twice), NEW id \in ClaimId, Index!RemoveClaim(id)
  PROVE  WellFiled(bucket, lookup, twice)' /\ Claims!Remove(id) /\ FilesHeldClaims
  <1>1. bucket' = Index!TakenOut(id) /\ lookup' = [lookup EXCEPT ![id] = NoCategory] /\ twice' = twice
    BY DEF Index!RemoveClaim
  <1>2. /\ WellFiled(bucket', lookup', twice)
        /\ \A k \in IndexKey : ToSet(bucket'[k]) \subseteq ToSet(bucket[k])
        /\ \A k \in Index!Named :
               Exact(bucket'[k], twice) = {c \in Exact(bucket[k], twice) : c.id # id}
    BY <1>1, TakenOutOfItsBucket
  <1>3. QED
    BY <1>1, <1>2 DEF WellFiled, Exact, Claims!Remove, Claims!Without, Index!Listed, FilesHeldClaims

\* clearCategoryIndex
LEMMA ClearFiles ==
  ASSUME Index!Clear
  PROVE  /\ WellFiled(bucket, lookup, twice)' /\ twice' = {}
         /\ Claims!Clear /\ FilesHeldClaims
  <1>1. /\ bucket' = [k \in IndexKey |-> <<>>]
        /\ lookup' = [id \in ClaimId |-> NoCategory]
        /\ twice' = {}
    BY DEF Index!Clear, Index!NoneListed, Index!NoneFiled
  <1>2. \A k \in IndexKey : bucket'[k] = <<>> /\ bucket'[k] \in Seq(FiledClaim) /\ DOMAIN bucket'[k] = {}
    BY <1>1, EmptySeq
  <1>3. WellFiled(bucket', lookup', twice')
    BY <1>1, <1>2 DEF WellFiled, Index!Named
  <1>4. \A k \in IndexKey : ToSet(bucket'[k]) = {}
    BY <1>2 DEF ToSet
  <1>5. Claims!Clear
    BY <1>1, <1>4 DEF Claims!Clear, Claims!Listing, Index!Listed, Index!Named
  <1>6. QED
    BY <1>1, <1>3, <1>4, <1>5 DEF WellFiled, FilesHeldClaims

\* A step of the index is one of the set of claims.
FilesAStep ==
    /\ WellFiled(bucket, lookup, twice)' /\ twice' \subseteq ClaimId
    /\ Claims!Next /\ FilesHeldClaims

LEMMA IndexFiles ==
  ASSUME HeldInvariant, WellFiled(bucket, lookup, twice), twice \subseteq ClaimId, FileClaims
  PROVE  FilesAStep
  <1>1. ASSUME NEW s \in Arrays, Index!Build([i \in DOMAIN s |-> Filed(s[i])])
        PROVE  FilesAStep
    BY <1>1, BuildFiles DEF Claims!Next, FilesAStep
  <1>2. ASSUME NEW c \in held, Index!Upsert(Filed(c))
        PROVE  FilesAStep
    <2>1. twice' = twice
      BY <1>2 DEF Index!Upsert
    <2>2. QED
      BY <1>2, <2>1, UpsertFiles DEF Claims!Next, FilesAStep
  <1>3. ASSUME NEW id \in ClaimId, Index!RemoveClaim(id)
        PROVE  FilesAStep
    <2>1. twice' = twice
      BY <1>3 DEF Index!RemoveClaim
    <2>2. QED
      BY <1>3, <2>1, RemoveFiles DEF Claims!Next, FilesAStep
  <1>4. CASE Index!Clear
    BY <1>4, ClearFiles DEF Claims!Next, FilesAStep
  <1>5. QED
    BY <1>1, <1>2, <1>3, <1>4 DEF FileClaims

\* Every step files a step of the set of claims, or nothing.
LEMMA StepFiles ==
  ASSUME LifecycleInvariant, LifecycleNext
  PROVE  /\ WellFiled(bucket, lookup, twice)' /\ twice' \subseteq ClaimId
         /\ (Claims!Next /\ FilesHeldClaims) \/ UNCHANGED <<bucket, lookup, twice>>
  <1>0. HeldInvariant /\ WellFiled(bucket, lookup, twice) /\ twice \subseteq ClaimId
    BY DEF LifecycleInvariant
  <1>1. CASE FileClaims
    BY <1>0, <1>1, IndexFiles DEF FilesAStep
  <1>2. CASE UNCHANGED <<bucket, lookup, twice>>
    BY <1>0, <1>2 DEF WellFiled
  <1>3. QED
    BY <1>1, <1>2 DEF LifecycleNext, Verify, RectifyClaimWithTrace, LinkClaimEvidence, Discard

\* The index lists what it listed and claims as they are held, so health stays
\* checked.
LEMMA HealthStaysChecked ==
  ASSUME HeldInvariant, FiledHealthIsChecked, FilesHeldClaims
  PROVE  FiledHealthIsChecked'
  <1> DEFINE Checked(k, c) == k \in {KeyOf[s] : s \in Health} => c.text.checked \/ c.text.around
  <1>1. SUFFICES ASSUME NEW k \in IndexKey, NEW c \in ToSet(bucket'[k]) PROVE Checked(k, c)
    BY DEF FiledHealthIsChecked
  <1>2. \A d \in ToSet(bucket[k]) : Checked(k, d)
    BY DEF FiledHealthIsChecked
  <1>3. \A claim \in held : Filed(claim).category = k => Checked(k, Filed(claim))
    BY FiledIsChecked
  <1> HIDE DEF Checked
  <1>4. QED
    BY <1>2, <1>3 DEF FilesHeldClaims

\* The strengthening is inductive.
LEMMA LifecycleInductive ==
  LifecycleInvariant /\ [LifecycleNext]_<<vars, claimVars>> => LifecycleInvariant'
  <1> SUFFICES ASSUME LifecycleInvariant, [LifecycleNext]_<<vars, claimVars>>
               PROVE  LifecycleInvariant'
    OBVIOUS
  <1>1. CASE LifecycleNext
    <2>1. QuarantineInvariant' /\ HeldInvariant'
      BY <1>1, QuarantineKept, HeldKept DEF LifecycleInvariant
    <2>2. /\ WellFiled(bucket, lookup, twice)' /\ twice' \subseteq ClaimId
          /\ FilesHeldClaims \/ UNCHANGED <<bucket, lookup, twice>>
      BY <1>1, StepFiles
    <2>3. FiledHealthIsChecked'
      BY <2>2, HealthStaysChecked DEF LifecycleInvariant, FiledHealthIsChecked
    <2>4. QED
      BY <2>1, <2>2, <2>3 DEF LifecycleInvariant
  <1>2. CASE UNCHANGED <<vars, claimVars>>
    BY <1>2 DEF vars, claimVars, LifecycleInvariant, QuarantineInvariant, TypeOK, Reporters,
                TwoAppsRelease, HeldInvariant, WellFiled, FiledHealthIsChecked
  <1>3. QED
    BY <1>1, <1>2

\* So it always holds.
LEMMA LifecycleHolds == LifecycleSpec => []LifecycleInvariant
  BY LifecycleInitially, LifecycleInductive, PTL DEF LifecycleSpec

\* Whatever applications do with the claims that were returned to them, none
\* is released that fewer than two applications reported, if it is sensitive.
THEOREM LifecycleNeedsTwoApps == LifecycleSpec => []TwoAppsRelease
  <1>1. LifecycleInvariant => TwoAppsRelease
    BY DEF LifecycleInvariant, QuarantineInvariant
  <1>2. QED
    BY <1>1, LifecycleHolds, PTL

\* A claim that is filed under health was reported by two applications, unless
\* it was rectified or its category was padded with blanks.
THEOREM HealthIsFiledChecked == LifecycleSpec => []FiledHealthIsChecked
  <1>1. LifecycleInvariant => FiledHealthIsChecked
    BY DEF LifecycleInvariant
  <1>2. QED
    BY <1>1, LifecycleHolds, PTL

\* The buckets and the lookup agree about the categories that can be named and
\* the ids that no array repeated, also when other claims are filed under blanks
\* and other ids are repeated.
THEOREM IndexAgrees == LifecycleSpec => []MapsAgree
  <1>1. LifecycleInvariant => MapsAgree
    BY WellFiledIsAgreed DEF LifecycleInvariant
  <1>2. QED
    BY <1>1, LifecycleHolds, PTL

\* The two maps implement a set of claims for each category that can be named.
THEOREM IndexIsClaimSet == LifecycleSpec => ClaimSetSpec
  <1> DEFINE filed == [k \in Index!Named |-> {c \in ToSet(Index!Listed(k)) : c.id \notin twice}]
  <1>1. LifecycleInit => Claims!Init
    BY DEF LifecycleInit, Claims!Init, Claims!Listing, Index!Listed, Index!Named, ToSet
  <1>2. LifecycleInvariant /\ [LifecycleNext]_<<vars, claimVars>> => [Claims!Next]_<<filed, twice>>
    <2> SUFFICES ASSUME LifecycleInvariant, [LifecycleNext]_<<vars, claimVars>>,
                        ~ UNCHANGED <<filed, twice>>
                 PROVE  Claims!Next
      OBVIOUS
    <2>1. ~ UNCHANGED <<bucket, lookup, twice>>
      BY DEF Index!Listed
    <2>2. LifecycleNext
      BY <2>1 DEF claimVars
    <2>3. QED
      BY <2>1, <2>2, StepFiles
  <1>3. QED
    BY <1>1, <1>2, LifecycleHolds, PTL DEF LifecycleSpec, ClaimSetSpec, Claims!Spec

=============================================================================
