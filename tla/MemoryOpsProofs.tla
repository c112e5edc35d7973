-------------------------- MODULE MemoryOpsProofs --------------------------
(***************************************************************************)
(* Lemmas about the operators of MemoryOps: what each one returns for any  *)
(* typed store and any typed arguments, and what merging keeps.  The       *)
(* proofs about MemoryEngine and Repository rest on them.                  *)
(***************************************************************************)
EXTENDS MemoryOps, WellFoundedInduction, TLAPS

-----------------------------------------------------------------------------
(* Least elements: what First and Min choose.                              *)

\* A non-empty set of naturals has a least element.
LEMMA LeastNat ==
    ASSUME NEW S \in SUBSET Nat, S # {}
    PROVE  \E x \in S : \A y \in S : x <= y
<1>1. PICK x \in S : \A y \in S : ~ (<<y, x>> \in OpToRel(<, Nat))
    BY WFMin, NatLessThanWellFounded
<1>2. \A y \in S : ~ (y < x)
    BY <1>1, Zenon DEF OpToRel
<1>3. QED
    BY <1>2

\* Min picks an element of a non-empty set of naturals.
LEMMA MinMember ==
    ASSUME NEW S \in SUBSET Nat, S # {}
    PROVE  Min(S) \in S
BY LeastNat DEF Min

\* First picks the record of a non-empty group that was appended first.
LEMMA FirstMember ==
    ASSUME NEW group \in SUBSET Memory, group # {}
    PROVE  /\ First(group) \in group
           /\ \A n \in group : First(group).born <= n.born
<1> DEFINE births == {m.born : m \in group}
<1>1. births \in SUBSET Nat /\ births # {}
    BY DEF Memory
<1>2. PICK b \in births : \A c \in births : b <= c
    BY <1>1, LeastNat
<1>3. \E m \in group : \A n \in group : m.born <= n.born
    BY <1>2
<1>4. QED
    BY <1>3 DEF First

\* Whatever is added to a strength or taken from it, clamp keeps it a level.
LEMMA ClampType == ASSUME NEW n PROVE Clamp(n) \in 0..MaxStrength
BY LevelAssumption DEF Clamp

-----------------------------------------------------------------------------
(* Every operation returns a store of the declared shape.                  *)

OutcomeType == [store : Store, op : Operation, accepted : BOOLEAN, appended : 0..2]

\* What the operations that mutate the records of one id have in common.
LEMMA ActionType ==
    ASSUME NEW s \in Store, NEW id \in MemoryId \cup {NoMemory}, NEW op \in Operation,
           NEW memories \in SUBSET Memory
    PROVE  Outcome(Log([s EXCEPT !.memories = memories], id), op, Has(s, id), 1) \in OutcomeType
<1>1. Log([s EXCEPT !.memories = memories], id) \in Store
    BY DEF Log, Store
<1>2. Has(s, id) \in BOOLEAN
    BY DEF Has
<1>3. QED
    BY <1>1, <1>2 DEF Outcome, OutcomeType

\* No record has a blank id.
LEMMA HasId ==
    ASSUME NEW s \in Store, NEW id, Has(s, id)
    PROVE  id \in MemoryId
BY DEF Has, Store, Memory

\* updateMemory applies a patch to every record of the id.
LEMMA UpdateType ==
    ASSUME NEW s \in Store, NEW id \in MemoryId \cup {NoMemory}, NEW patch \in PatchInput
    PROVE  UpdateMemory(s, id, patch) \in OutcomeType
<1>1. ASSUME NEW m \in Memory PROVE Patched(m, patch) \in Memory
  <2> DEFINE state == IF patch.state # "" THEN patch.state ELSE m.state
             status == IF patch.status # "" THEN patch.status ELSE m.status
  <2>1. state \in MemoryState /\ status \in MemoryState \cup {""}
      BY DEF Memory, PatchInput
  <2>2. patch.key[m.key] \in MergeKey /\ patch.strength[m.strength] \in 0..MaxStrength
        /\ patch.age \in 0..StaleAge /\ patch.foreign[m.foreign] \in BOOLEAN
      BY DEF Memory, PatchInput
  <2>3. QED
      BY <2>1, <2>2 DEF Memory, Patched
<1> DEFINE memories == {IF m.id = id THEN Patched(m, patch) ELSE m : m \in s.memories}
<1>2. memories \in SUBSET Memory
    BY <1>1 DEF Store
<1>3. UpdateMemory(s, id, patch) = Outcome(Log([s EXCEPT !.memories = memories], id),
                                           "update_memory", Has(s, id), 1)
    BY DEF UpdateMemory, ApplyMemoryAction, MapMemories
<1> HIDE DEF memories
<1>4. Outcome(Log([s EXCEPT !.memories = memories], id), "update_memory", Has(s, id), 1)
          \in OutcomeType
  <2>1. "update_memory" \in Operation
      BY DEF Operation
  <2>2. QED
      BY <1>2, <2>1, ActionType
<1>5. QED
    BY <1>3, <1>4

\* Appending a typed record gives a typed store.
LEMMA AppendType ==
    ASSUME NEW s \in Store, NEW memory \in Memory
    PROVE  AppendMemory(s, memory) \in Store
<1>1. s.memories \cup {memory} \in SUBSET Memory /\ s.births + 1 \in Nat
    BY DEF Store
<1>2. QED
    BY <1>1 DEF AppendMemory, Store

\* What normalizeMemoryInput makes of an input is typed.
LEMMA NormalizeType ==
    ASSUME NEW input \in CallerInput, NEW born \in Nat
    PROVE  NormalizeInput(input, born) \in Memory
<1> DEFINE memory == NormalizeInput(input, born)
<1>1. memory.status \in MemoryState /\ memory.state \in MemoryState
    BY DEF NormalizeInput, CallerInput, MemoryState
<1>2. QED
    BY <1>1 DEF NormalizeInput, CallerInput, Memory

\* createMemory appends the normalized input, or drops the snapshots.
LEMMA CreateType ==
    ASSUME NEW s \in Store, NEW input \in CallerInput
    PROVE  CreateMemory(s, input) \in OutcomeType
<1> DEFINE memory == NormalizeInput(input, s.births + 1)
<1>1. memory \in Memory
    BY NormalizeType DEF Store
<1>2. AppendMemory(s, memory) \in Store
  <2> HIDE DEF memory
  <2> QED
    BY <1>1, AppendType
<1>3. WithoutSnapshots(s) \in Store
    BY LevelAssumption DEF WithoutSnapshots, Store
<1>4. input.id \in MemoryId
    BY DEF CallerInput
<1>5. Log(AppendMemory(s, memory), input.id) \in Store
    BY <1>2, <1>4 DEF Log, Store
<1>6. "create_memory" \in Operation /\ 0 \in 0..2 /\ 1 \in 0..2
    BY DEF Operation
<1>7. CASE Has(s, input.id)
  <2>1. CreateMemory(s, input) = Outcome(WithoutSnapshots(s), "create_memory", FALSE, 0)
      BY <1>7 DEF CreateMemory
  <2>2. QED
      BY <1>3, <1>6, <2>1 DEF Outcome, OutcomeType
<1>8. CASE ~ Has(s, input.id)
  <2>1. CreateMemory(s, input)
            = Outcome(Log(AppendMemory(s, memory), input.id), "create_memory", TRUE, 1)
      BY <1>8 DEF CreateMemory
  <2>2. QED
      BY <1>5, <1>6, <2>1 DEF Outcome, OutcomeType
<1>9. QED
    BY <1>7, <1>8

\* forgetMemory sets strength and state.
LEMMA ForgetType ==
    ASSUME NEW s \in Store, NEW id \in MemoryId \cup {NoMemory}
    PROVE  ForgetMemory(s, id) \in OutcomeType
<1> DEFINE Mutate(m) == [m EXCEPT !.strength = 0, !.state = "forgotten"]
           memories == {IF m.id = id THEN Mutate(m) ELSE m : m \in s.memories}
<1>1. ASSUME NEW m \in Memory PROVE Mutate(m) \in Memory
  <2>1. 0 \in 0..MaxStrength /\ "forgotten" \in MemoryState
      BY LevelAssumption DEF MemoryState
  <2>2. QED
      BY <2>1 DEF Memory
<1>2. memories \in SUBSET Memory
    BY <1>1 DEF Store
<1>3. ForgetMemory(s, id) = Outcome(Log([s EXCEPT !.memories = memories], id),
                       "forget_memory", Has(s, id), 1)
    BY DEF ForgetMemory, ApplyMemoryAction, MapMemories
<1>4. "forget_memory" \in Operation
    BY DEF Operation
<1> HIDE DEF memories
<1>5. QED
    BY <1>2, <1>3, <1>4, ActionType

\* weakenMemory clamps the strength and may mark the record weak.
LEMMA WeakenType ==
    ASSUME NEW s \in Store, NEW id \in MemoryId \cup {NoMemory}
    PROVE  WeakenMemory(s, id) \in OutcomeType
<1> DEFINE Mutate(m) == [m EXCEPT !.strength = Clamp(@ - Loss["weaken"]),
                                 !.state = IF m.strength <= WeakLevel THEN "weak" ELSE @]
           memories == {IF m.id = id THEN Mutate(m) ELSE m : m \in s.memories}
<1>1. ASSUME NEW m \in Memory PROVE Mutate(m) \in Memory
  <2>1. Clamp(m.strength - Loss["weaken"]) \in 0..MaxStrength
      BY ClampType
  <2>2. "weak" \in MemoryState
      BY DEF MemoryState
  <2>3. QED
      BY <2>1, <2>2 DEF Memory
<1>2. memories \in SUBSET Memory
    BY <1>1 DEF Store
<1>3. WeakenMemory(s, id) = Outcome(Log([s EXCEPT !.memories = memories], id),
                       "weaken_memory", Has(s, id), 1)
    BY DEF WeakenMemory, ApplyMemoryAction, MapMemories
<1>4. "weaken_memory" \in Operation
    BY DEF Operation
<1> HIDE DEF memories
<1>5. QED
    BY <1>2, <1>3, <1>4, ActionType

\* createCorrection clamps the strength and adds a foreign key.
LEMMA CorrectType ==
    ASSUME NEW s \in Store, NEW id \in MemoryId \cup {NoMemory}
    PROVE  CreateCorrection(s, id) \in OutcomeType
<1> DEFINE Mutate(m) == [m EXCEPT !.strength = Clamp(@ + Gain["correct"]), !.foreign = TRUE]
           memories == {IF m.id = id THEN Mutate(m) ELSE m : m \in s.memories}
<1>1. ASSUME NEW m \in Memory PROVE Mutate(m) \in Memory
  <2>1. Clamp(m.strength + Gain["correct"]) \in 0..MaxStrength
      BY ClampType
  <2>2. QED
      BY <2>1 DEF Memory
<1>2. memories \in SUBSET Memory
    BY <1>1 DEF Store
<1>3. CreateCorrection(s, id) = Outcome(Log([s EXCEPT !.memories = memories], id),
                       "correction_record", Has(s, id), 1)
    BY DEF CreateCorrection, ApplyMemoryAction, MapMemories
<1>4. "correction_record" \in Operation
    BY DEF Operation
<1> HIDE DEF memories
<1>5. QED
    BY <1>2, <1>3, <1>4, ActionType

\* Adding a relation between typed ends keeps the outcome typed.
LEMMA AddRelationType ==
    ASSUME NEW outcome \in OutcomeType, NEW from \in MemoryId, NEW to \in MemoryId,
           NEW type \in RelationType
    PROVE  AddRelation(outcome, from, to, type) \in OutcomeType
<1>1. [from |-> from, to |-> to, type |-> type] \in Relation
    BY DEF Relation
<1>2. outcome.store \in Store
    BY DEF OutcomeType
<1>3. WithRelation(outcome.store, from, to, type) \in Store
    BY <1>1, <1>2 DEF WithRelation, Store
<1>4. QED
    BY <1>3 DEF AddRelation, OutcomeType

\* Adding a typed relation gives a typed store.
LEMMA WithRelationType ==
    ASSUME NEW s \in Store, NEW from \in MemoryId, NEW to \in MemoryId,
           NEW type \in RelationType
    PROVE  WithRelation(s, from, to, type) \in Store
<1>1. [from |-> from, to |-> to, type |-> type] \in Relation
    BY DEF Relation
<1>2. QED
    BY <1>1 DEF WithRelation, Store

\* reinforceMemory strengthens, then relates the record to its evidence.
LEMMA ReinforceType ==
    ASSUME NEW s \in Store, NEW id \in MemoryId \cup {NoMemory},
           NEW evidence \in MemoryId \cup {NoMemory}
    PROVE  ReinforceMemory(s, id, evidence) \in OutcomeType
<1> DEFINE Mutate(m) == [m EXCEPT !.strength = Clamp(@ + Gain["reinforce"])]
           memories == {IF m.id = id THEN Mutate(m) ELSE m : m \in s.memories}
           outcome == Outcome(Log([s EXCEPT !.memories = memories], id),
                              "reinforce_memory", Has(s, id), 1)
<1>1. ASSUME NEW m \in Memory PROVE Mutate(m) \in Memory
  <2>1. Clamp(m.strength + Gain["reinforce"]) \in 0..MaxStrength
      BY ClampType
  <2>2. QED
      BY <2>1 DEF Memory
<1>2. memories \in SUBSET Memory
    BY <1>1 DEF Store
<1>3. ReinforceMemory(s, id, evidence)
          = IF outcome.accepted
            THEN AddRelation(outcome, id, EvidenceTarget(id, evidence), "related")
            ELSE outcome
    BY DEF ReinforceMemory, ApplyMemoryAction, MapMemories
<1>4. "reinforce_memory" \in Operation /\ "related" \in RelationType
    BY DEF Operation, RelationType
<1>5. outcome \in OutcomeType
  <2> HIDE DEF memories
  <2> QED
      BY <1>2, <1>4, ActionType
<1>6. outcome.accepted => id \in MemoryId /\ EvidenceTarget(id, evidence) \in MemoryId
    BY HasId DEF EvidenceTarget, Outcome
<1> HIDE DEF outcome
<1>7. outcome.accepted =>
          AddRelation(outcome, id, EvidenceTarget(id, evidence), "related") \in OutcomeType
    BY <1>4, <1>5, <1>6, AddRelationType
<1>8. QED
    BY <1>3, <1>5, <1>7

\* assimilateEvidence also refreshes the record and may add foreign keys.
LEMMA AssimilateType ==
    ASSUME NEW s \in Store, NEW id \in MemoryId \cup {NoMemory},
           NEW evidence \in MemoryId \cup {NoMemory}
    PROVE  AssimilateEvidence(s, id, evidence) \in OutcomeType
<1> DEFINE Mutate(m) == [m EXCEPT !.strength = Clamp(@ + Gain["assimilate"]),
                                 !.age = 0,
                                 !.foreign = @ \/ m.key \notin SchemaKey]
           memories == {IF m.id = id THEN Mutate(m) ELSE m : m \in s.memories}
           outcome == Outcome(Log([s EXCEPT !.memories = memories], id),
                              "assimilate_evidence", Has(s, id), 1)
<1>1. ASSUME NEW m \in Memory PROVE Mutate(m) \in Memory
  <2>1. Clamp(m.strength + Gain["assimilate"]) \in 0..MaxStrength
      BY ClampType
  <2>2. 0 \in 0..StaleAge
      BY LevelAssumption
  <2>3. QED
      BY <2>1, <2>2 DEF Memory
<1>2. memories \in SUBSET Memory
    BY <1>1 DEF Store
<1>3. AssimilateEvidence(s, id, evidence)
          = IF outcome.accepted
            THEN AddRelation(outcome, id, EvidenceTarget(id, evidence), "related")
            ELSE outcome
    BY DEF AssimilateEvidence, ApplyMemoryAction, MapMemories
<1>4. "assimilate_evidence" \in Operation /\ "related" \in RelationType
    BY DEF Operation, RelationType
<1>5. outcome \in OutcomeType
  <2> HIDE DEF memories
  <2> QED
      BY <1>2, <1>4, ActionType
<1>6. outcome.accepted => id \in MemoryId /\ EvidenceTarget(id, evidence) \in MemoryId
    BY HasId DEF EvidenceTarget, Outcome
<1> HIDE DEF outcome
<1>7. outcome.accepted =>
          AddRelation(outcome, id, EvidenceTarget(id, evidence), "related") \in OutcomeType
    BY <1>4, <1>5, <1>6, AddRelationType
<1>8. QED
    BY <1>3, <1>5, <1>7

\* Outcomes of a typed store are typed.
LEMMA OutcomeTyped ==
    ASSUME NEW s \in Store, NEW op \in Operation, NEW accepted \in BOOLEAN, NEW n \in 0..2
    PROVE  Outcome(s, op, accepted, n) \in OutcomeType
BY DEF Outcome, OutcomeType

\* accommodateSchema relates a record it created to its evidence.
LEMMA AccommodateType ==
    ASSUME NEW s \in Store, NEW input \in CallerInput, NEW evidence \in MemoryId \cup {NoMemory}
    PROVE  AccommodateSchema(s, input, evidence) \in OutcomeType
<1> DEFINE created == CreateMemory(s, input)
           outcome == Outcome(created.store, "accommodate_schema", TRUE, 2)
<1>1. created \in OutcomeType /\ created.store \in Store
    BY CreateType DEF OutcomeType
<1>2. AccommodateSchema(s, input, evidence)
          = IF created.accepted
            THEN AddRelation(outcome, input.id, EvidenceTarget(input.id, evidence), "related")
            ELSE created
    BY DEF AccommodateSchema
<1>3. input.id \in MemoryId /\ EvidenceTarget(input.id, evidence) \in MemoryId
    BY DEF EvidenceTarget, CallerInput
<1>4. "accommodate_schema" \in Operation /\ "related" \in RelationType /\ 2 \in 0..2
    BY DEF Operation, RelationType
<1> HIDE DEF created
<1>5. outcome \in OutcomeType
    BY <1>1, <1>4, OutcomeTyped
<1> HIDE DEF outcome
<1>6. AddRelation(outcome, input.id, EvidenceTarget(input.id, evidence), "related") \in OutcomeType
    BY <1>3, <1>4, <1>5, AddRelationType
<1>7. QED
    BY <1>1, <1>2, <1>6

\* The record that supersedes another one is typed.
LEMMA ReplacementType ==
    ASSUME NEW previous \in Memory, NEW id \in MemoryId, NEW born \in Nat
    PROVE  Replacement(previous, id, born) \in Memory
<1>1. Clamp(previous.strength + Gain["supersede"]) \in 0..MaxStrength
    BY ClampType
<1>2. 0 \in 0..StaleAge /\ "active" \in MemoryState
    BY LevelAssumption DEF MemoryState
<1>3. QED
    BY <1>1, <1>2 DEF Replacement, Memory

\* supersedeMemory marks the previous record, appends the replacement and
\* relates the two.
LEMMA SupersedeType ==
    ASSUME NEW s \in Store, NEW id \in MemoryId \cup {NoMemory}, NEW replacementId \in MemoryId
    PROVE  SupersedeMemory(s, id, replacementId) \in OutcomeType
<1> DEFINE replacement == Replacement(ReadMemory(s, id), replacementId, s.births + 1)
           memories == {IF m.id = id THEN Superseded(m, replacementId) ELSE m : m \in s.memories}
           marked == [s EXCEPT !.memories = memories]
           next == Log(AppendMemory(marked, replacement), id)
           related == WithRelation(WithRelation(next, replacementId, id, "supersedes"),
                                   id, replacementId, "superseded_by")
<1>1. "supersede_memory" \in Operation /\ 0 \in 0..2 /\ 1 \in 0..2
          /\ "supersedes" \in RelationType /\ "superseded_by" \in RelationType
    BY DEF Operation, RelationType
<1>2. CASE ~ Has(s, id)
  <2>1. WithoutSnapshots(s) \in Store
      BY LevelAssumption DEF WithoutSnapshots, Store
  <2>2. SupersedeMemory(s, id, replacementId)
            = Outcome(WithoutSnapshots(s), "supersede_memory", FALSE, 0)
      BY <1>2 DEF SupersedeMemory
  <2>3. QED
      BY <1>1, <2>1, <2>2, OutcomeTyped
<1>3. CASE Has(s, id)
  <2>1. replacement \in Memory
    <3>1. ReadMemory(s, id) \in Memory
      <4> DEFINE group == {m \in s.memories : m.id = id}
      <4>1. group \in SUBSET Memory /\ group # {}
          BY <1>3 DEF Store, Has
      <4>2. First(group) \in Memory
          BY <4>1, FirstMember
      <4>3. QED
          BY <4>2 DEF ReadMemory
    <3>2. s.births + 1 \in Nat
        BY DEF Store
    <3>3. QED
        BY <3>1, <3>2, ReplacementType
  <2>2. memories \in SUBSET Memory
    <3>1. ASSUME NEW m \in Memory PROVE Superseded(m, replacementId) \in Memory
      <4>1. Clamp(m.strength - Loss["supersede"]) \in 0..MaxStrength
          BY ClampType
      <4>2. "superseded" \in MemoryState
          BY DEF MemoryState
      <4>3. QED
          BY <4>1, <4>2 DEF Superseded, Memory
    <3>2. QED
        BY <3>1 DEF Store
  <2>3. marked \in Store
    <3> HIDE DEF memories
    <3> QED
        BY <2>2 DEF Store
  <2>4. SupersedeMemory(s, id, replacementId) = Outcome(related, "supersede_memory", TRUE, 1)
      BY <1>3 DEF SupersedeMemory, MapMemories
  <2> HIDE DEF marked, replacement
  <2>5. AppendMemory(marked, replacement) \in Store
      BY <2>1, <2>3, AppendType
  <2>6. next \in Store
      BY <2>5 DEF Log, Store
  <2> HIDE DEF next
  <2>7. related \in Store
      BY <1>1, <1>3, <2>6, HasId, WithRelationType
  <2> HIDE DEF related
  <2>8. QED
      BY <1>1, <2>4, <2>7, OutcomeTyped
<1>4. QED
    BY <1>2, <1>3

\* A hard delete keeps a subset of the records and of the relations.
LEMMA DeleteType ==
    ASSUME NEW s \in Store, NEW id \in MemoryId \cup {NoMemory}
    PROVE  HardDelete(s, id) \in OutcomeType
<1> DEFINE kept == [s EXCEPT !.memories = {m \in @ : m.id # id},
                             !.relations = {r \in @ : r.from # id /\ r.to # id}]
<1>1. kept \in Store
    BY DEF Store
<1>2. Log(kept, id) \in Store
  <2> HIDE DEF kept
  <2> QED
      BY <1>1 DEF Log, Store
<1>3. "delete_memory" \in Operation /\ Has(s, id) \in BOOLEAN /\ 1 \in 0..2
    BY DEF Operation, Has
<1>4. QED
    BY <1>2, <1>3, OutcomeTyped DEF HardDelete

\* relateMemories logs and relates, or drops the snapshots.
LEMMA RelateType ==
    ASSUME NEW s \in Store, NEW from \in MemoryId \cup {NoMemory},
           NEW to \in MemoryId \cup {NoMemory}, NEW type \in RelationType
    PROVE  RelateMemories(s, from, to, type) \in OutcomeType
<1>1. Log(s, from) \in Store /\ WithoutSnapshots(s) \in Store
    BY LevelAssumption DEF Log, WithoutSnapshots, Store
<1>2. Has(s, from) /\ Has(s, to) => WithRelation(Log(s, from), from, to, type) \in Store
    BY <1>1, HasId, WithRelationType
<1>3. "relate_memories" \in Operation /\ 0 \in 0..2 /\ 1 \in 0..2
    BY DEF Operation
<1>4. QED
    BY <1>1, <1>2, <1>3, OutcomeTyped DEF RelateMemories

\* linkIntentToEvidence does the same for any two ids that are not blank.
LEMMA LinkType ==
    ASSUME NEW s \in Store, NEW from \in MemoryId \cup {NoMemory}, NEW to \in MemoryId \cup {NoMemory}
    PROVE  LinkIntentToEvidence(s, from, to) \in OutcomeType
<1>1. Log(s, from) \in Store /\ WithoutSnapshots(s) \in Store
    BY LevelAssumption DEF Log, WithoutSnapshots, Store
<1>2. "link_intent_to_evidence" \in Operation /\ "related" \in RelationType
          /\ 0 \in 0..2 /\ 1 \in 0..2
    BY DEF Operation, RelationType
<1>3. CASE from = NoMemory \/ to = NoMemory
    BY <1>1, <1>2, <1>3, OutcomeTyped DEF LinkIntentToEvidence
<1>4. CASE ~ (from = NoMemory \/ to = NoMemory)
  <2>1. WithRelation(Log(s, from), from, to, "related") \in Store
      BY <1>1, <1>2, <1>4, WithRelationType
  <2>2. QED
      BY <1>2, <1>4, <2>1, OutcomeTyped DEF LinkIntentToEvidence
<1>5. QED
    BY <1>3, <1>4

\* Merging a group of records gives a record with the id, the key and the
\* state of its first one.
LEMMA MergedType ==
    ASSUME NEW group \in SUBSET Memory, group # {}
    PROVE  /\ Merged(group) \in Memory
           /\ \E first \in group :
                 /\ \A n \in group : first.born <= n.born
                 /\ Merged(group).id = first.id /\ Merged(group).key = first.key
                 /\ Merged(group).born = first.born /\ Merged(group).state = first.state
<1> DEFINE later(m) == Cardinality({n \in group : n # First(group) /\ n.born >= m.born})
           strength == Clamp(Max({m.strength + Gain["merge"] * later(m) : m \in group}))
           age == Min({m.age : m \in group})
<1>1. First(group) \in group /\ First(group) \in Memory
    BY FirstMember
<1>2. strength \in 0..MaxStrength
    BY ClampType
<1>3. age \in 0..StaleAge
  <2>1. \A m \in group : m.age \in 0..StaleAge
      BY DEF Memory
  <2>2. {m.age : m \in group} \in SUBSET Nat /\ {m.age : m \in group} # {}
      BY <2>1, LevelAssumption
  <2>3. age \in {m.age : m \in group}
      BY <2>2, MinMember
  <2>4. QED
      BY <2>1, <2>3
<1>4. Merged(group) = [First(group) EXCEPT !.strength = strength, !.age = age]
    BY DEF Merged
<1> HIDE DEF strength, age
<1>5. Merged(group) \in Memory
    BY <1>1, <1>2, <1>3, <1>4 DEF Memory
<1>6. QED
    BY <1>1, <1>4, <1>5, FirstMember DEF Memory

\* Decay changes strength and state only.
LEMMA DecayedType ==
    ASSUME NEW m \in Memory
    PROVE  /\ Decayed(m) \in Memory
           /\ Decayed(m).id = m.id /\ Decayed(m).key = m.key /\ Decayed(m).born = m.born
           /\ Decayed(m).state \in {m.state, "forgotten"}
<1> DEFINE strength == Clamp(m.strength - m.age * DecayPerAge)
           state == IF m.age >= StaleAge \/ strength <= Retention THEN "forgotten" ELSE m.state
<1>1. strength \in 0..MaxStrength
    BY ClampType
<1>2. state \in {m.state, "forgotten"} /\ state \in MemoryState
    BY DEF MemoryState, Memory
<1>3. Decayed(m) = [m EXCEPT !.strength = strength, !.state = state]
    BY DEF Decayed
<1> HIDE DEF strength, state
<1>4. QED
    BY <1>1, <1>2, <1>3 DEF Memory

\* The records a batch adds.
News(s, inputs) == {RememberedMemory(inputs[i], s.births + i) : i \in DOMAIN inputs}

\* The records made of a batch of inputs are typed.
LEMMA NewsType ==
    ASSUME NEW s \in Store, NEW inputs \in Seq(RememberedInput)
    PROVE  News(s, inputs) \in SUBSET Memory
<1>1. ASSUME NEW i \in DOMAIN inputs
      PROVE  RememberedMemory(inputs[i], s.births + i) \in Memory
  <2>1. inputs[i] \in RememberedInput /\ s.births + i \in Nat
      BY DEF Store
  <2>2. "active" \in MemoryState
      BY DEF MemoryState
  <2>3. QED
      BY <2>1, <2>2 DEF RememberedMemory, RememberedInput, Memory
<1>2. QED
    BY <1>1 DEF News

\* mergeDuplicateMemories returns one record per group of one key.
LEMMA MergeType ==
    ASSUME NEW memories \in SUBSET Memory
    PROVE  MergeDuplicates(memories) \in SUBSET Memory
<1>1. ASSUME NEW m \in memories PROVE Merged(SameKey(m, memories)) \in Memory
  <2>1. SameKey(m, memories) \in SUBSET Memory /\ SameKey(m, memories) # {}
      BY DEF SameKey
  <2>2. QED
      BY <2>1, MergedType
<1>2. QED
    BY <1>1 DEF MergeDuplicates

\* buildMemoryStore keeps the shape of the store.
LEMMA BuildType ==
    ASSUME NEW s \in Store, NEW inputs \in Seq(RememberedInput)
    PROVE  BuildMemoryStore(s, inputs) \in Store
<1> DEFINE merged == MergeDuplicates(s.memories \cup News(s, inputs))
           memories == {Decayed(m) : m \in merged}
<1>1. s.memories \cup News(s, inputs) \in SUBSET Memory
    BY NewsType DEF Store
<1>2. merged \in SUBSET Memory
    BY <1>1, MergeType
<1>3. memories \in SUBSET Memory
  <2> HIDE DEF merged
  <2> QED
      BY <1>2, DecayedType
<1>4. s.births + Len(inputs) \in Nat /\ 0 \in 0..SnapshotRetention
    BY LevelAssumption DEF Store
<1>5. BuildMemoryStore(s, inputs)
          = [s EXCEPT !.memories = memories, !.births = @ + Len(inputs), !.snapshots = 0]
    BY DEF BuildMemoryStore, News
<1> HIDE DEF memories
<1>6. QED
    BY <1>3, <1>4, <1>5 DEF Store

\* The three remember operations log a record after the rebuild.
LEMMA RememberType ==
    ASSUME NEW s \in Store
    PROVE  /\ \A input \in RememberedInput : RememberPacket(s, input) \in OutcomeType
           /\ \A input \in RememberedInput : RememberSchema(s, input) \in OutcomeType
           /\ \A intents \in Seq(RememberedInput) : RememberIntent(s, intents) \in OutcomeType
<1>1. /\ {"remember_packet", "remember_schema", "remember_intent"} \subseteq Operation
      /\ 0 \in 0..2 /\ 1 \in 0..2
    BY DEF Operation
<1>2. ASSUME NEW t \in Store, NEW id \in MemoryId PROVE Log(t, id) \in Store
    BY DEF Log, Store
<1>3. ASSUME NEW input \in RememberedInput
      PROVE  Log(BuildMemoryStore(s, <<input>>), input.id) \in Store
  <2>1. <<input>> \in Seq(RememberedInput) /\ input.id \in MemoryId
      BY DEF RememberedInput
  <2>2. QED
      BY <1>2, <2>1, BuildType
<1>4. ASSUME NEW intents \in Seq(RememberedInput), intents # <<>>
      PROVE  Log(BuildMemoryStore(s, intents), intents[1].id) \in Store
  <2>1. intents[1] \in RememberedInput
      BY <1>4
  <2>2. intents[1].id \in MemoryId
      BY <2>1 DEF RememberedInput
  <2>3. QED
      BY <1>2, <2>2, BuildType
<1>5. ASSUME NEW input \in RememberedInput
      PROVE  RememberPacket(s, input) \in OutcomeType /\ RememberSchema(s, input) \in OutcomeType
    BY <1>1, <1>3, OutcomeTyped DEF RememberPacket, RememberSchema
<1>6. ASSUME NEW intents \in Seq(RememberedInput)
      PROVE  RememberIntent(s, intents) \in OutcomeType
    BY <1>1, <1>4, OutcomeTyped DEF RememberIntent
<1>7. QED
    BY <1>5, <1>6

\* Snapshots, compaction and the passing of time.
LEMMA UnloggedType ==
    ASSUME NEW s \in Store
    PROVE  /\ AttachSnapshot(s) \in Store
           /\ CompactStore(s) \in Store
           /\ AgeStore(s) \in Store
<1>1. AttachSnapshot(s) \in Store
    BY LevelAssumption DEF AttachSnapshot, Store
<1>2. CompactStore(s) \in Store
    BY DEF CompactStore, Store
<1>3. ASSUME NEW m \in Memory PROVE Aged(m) \in Memory
  <2>1. m.age \in 0..StaleAge
      BY DEF Memory
  <2>2. (IF m.age < StaleAge THEN m.age + 1 ELSE m.age) \in 0..StaleAge
      BY <2>1, LevelAssumption
  <2>3. QED
      BY <2>2 DEF Aged, Memory
<1>4. {Aged(m) : m \in s.memories} \in SUBSET Memory
    BY <1>3 DEF Store
<1>5. AgeStore(s) \in Store
  <2> DEFINE memories == {Aged(m) : m \in s.memories}
  <2> HIDE DEF memories
  <2>1. memories \in SUBSET Memory
      BY <1>4 DEF memories
  <2>2. [s EXCEPT !.memories = memories] \in Store
      BY <2>1 DEF Store
  <2>3. QED
      BY <2>2 DEF memories, AgeStore
<1>6. QED
    BY <1>1, <1>2, <1>5

-----------------------------------------------------------------------------
(* What the operations do to ids and merge keys.                           *)

Distinct(memories) == \A m, n \in memories : m.id = n.id => m = n

\* What an operation that changes records in place keeps of each.
Keeps(m, n) == n.id = m.id /\ n.born = m.born

Stays(m, n) == Keeps(m, n) /\ n.key = m.key

\* new is old with every record changed in place.
Maps(old, new) ==
    \E f : /\ \A m \in old : Keeps(m, f[m])
          /\ new = {f[m] : m \in old}

\* The same, and a record keeps its merge key or gets the one of a patch.
Rekeys(old, new, key) ==
    \E f : /\ \A m \in old : Keeps(m, f[m]) /\ f[m].key \in {m.key, key[m.key]}
          /\ new = {f[m] : m \in old}

\* Maps, with the merge keys kept and no record put back into use.
Retired == {"forgotten", "superseded"}

MapsQuietly(old, new) ==
    \E f : /\ \A m \in old : /\ Stays(m, f[m])
                            /\ f[m].state \in {m.state} \cup Retired
          /\ new = {f[m] : m \in old}

\* Maps is the weakest of the three, the last the strongest.
LEMMA RekeysMaps ==
    ASSUME NEW old, NEW new, NEW key, Rekeys(old, new, key)
    PROVE  Maps(old, new)
BY Zenon DEF Maps, Rekeys

LEMMA QuietlyRekeys ==
    ASSUME NEW old, NEW new, NEW key, MapsQuietly(old, new)
    PROVE  Rekeys(old, new, key)
<1>1. PICK f : /\ \A m \in old : /\ Stays(m, f[m])
                                 /\ f[m].state \in {m.state} \cup Retired
               /\ new = {f[m] : m \in old}
    BY DEF MapsQuietly
<1>2. \A m \in old : Keeps(m, f[m]) /\ f[m].key \in {m.key, key[m.key]}
    BY <1>1 DEF Stays
<1>3. QED
    BY <1>1, <1>2, Zenon DEF Rekeys

LEMMA QuietlyMaps ==
    ASSUME NEW old, NEW new, MapsQuietly(old, new)
    PROVE  Maps(old, new)
BY Zenon DEF Maps, MapsQuietly, Stays

\* Leaving every record alone is a change in place.
LEMMA SameMaps ==
    ASSUME NEW old
    PROVE  MapsQuietly(old, old)
<1> DEFINE f == [m \in old |-> m]
<1>1. \A m \in old : /\ Stays(m, f[m])
                     /\ f[m].state \in {m.state} \cup Retired
    BY DEF Keeps, Stays
<1>2. old = {f[m] : m \in old}
    OBVIOUS
<1> HIDE DEF f
<1>3. QED
    BY <1>1, <1>2, Zenon DEF MapsQuietly

\* A change of every record that keeps ids keeps them distinct.
LEMMA MapsDistinct ==
    ASSUME NEW old, NEW new, Maps(old, new)
    PROVE  /\ Distinct(old) => Distinct(new)
           /\ \A n \in new : \E m \in old : Keeps(m, n)
           /\ \A m \in old : \E n \in new : Keeps(m, n)
<1>1. PICK f : /\ \A m \in old : Keeps(m, f[m])
               /\ new = {f[m] : m \in old}
    BY DEF Maps
<1>2. ASSUME Distinct(old), NEW a \in new, NEW b \in new, a.id = b.id PROVE a = b
  <2>1. PICK m \in old : a = f[m]
      BY <1>1
  <2>2. PICK n \in old : b = f[n]
      BY <1>1
  <2>3. m.id = n.id
      BY <1>1, <1>2, <2>1, <2>2 DEF Keeps, Stays
  <2>4. m = n
      BY <1>2, <2>3 DEF Distinct
  <2>5. QED
      BY <2>1, <2>2, <2>4
<1>3. QED
    BY <1>1, <1>2 DEF Distinct

\* A forgotten record stays out of use if it is changed quietly.
LEMMA QuietlyStaysRetired ==
    ASSUME NEW old, NEW new, MapsQuietly(old, new), Distinct(old),
           NEW m \in old, NEW n \in new, n.id = m.id, m.state = "forgotten"
    PROVE  n.state \in Retired
<1>1. PICK f : /\ \A k \in old : Stays(k, f[k]) /\ f[k].state \in {k.state} \cup Retired
               /\ new = {f[k] : k \in old}
    BY DEF MapsQuietly
<1>2. PICK k \in old : n = f[k]
    BY <1>1
<1>3. k = m
    BY <1>1, <1>2 DEF Keeps, Stays, Distinct
<1>4. QED
    BY <1>1, <1>2, <1>3 DEF Retired

\* updateMemory changes records in place, their merge keys as the patch says.
LEMMA UpdateRekeys ==
    ASSUME NEW s \in Store, NEW id, NEW patch
    PROVE  /\ Rekeys(s.memories, UpdateMemory(s, id, patch).store.memories, patch.key)
           /\ UpdateMemory(s, id, patch).store.births = s.births
<1> DEFINE Mutate(m) == Patched(m, patch)
           f == [m \in s.memories |-> IF m.id = id THEN Mutate(m) ELSE m]
<1>1. ASSUME NEW m \in s.memories
      PROVE  Keeps(m, f[m]) /\ f[m].key \in {m.key, patch.key[m.key]}
  <2>1. m \in Memory
      BY DEF Store
  <2>2. Keeps(m, Mutate(m)) /\ Mutate(m).key = patch.key[m.key]
      BY <2>1 DEF Memory, Keeps, Stays, Patched
  <2>3. QED
      BY <2>2 DEF Keeps, Stays
<1>2. UpdateMemory(s, id, patch).store.memories = {f[m] : m \in s.memories}
  <2>1. UpdateMemory(s, id, patch).store.memories
            = {IF m.id = id THEN Mutate(m) ELSE m : m \in s.memories}
      BY DEF UpdateMemory, ApplyMemoryAction, MapMemories, Outcome, Log, Store
  <2> HIDE DEF Mutate
  <2>2. QED
      BY <2>1
<1>3. UpdateMemory(s, id, patch).store.births = s.births
    BY DEF UpdateMemory, ApplyMemoryAction, MapMemories, Outcome, Log, Store
<1> HIDE DEF f
<1>4. QED
    BY <1>1, <1>2, <1>3, Zenon DEF Rekeys

\* forgetMemory changes records in place.
LEMMA ForgetMaps ==
    ASSUME NEW s \in Store, NEW id
    PROVE  /\ MapsQuietly(s.memories, ForgetMemory(s, id).store.memories)
           /\ ForgetMemory(s, id).store.births = s.births
<1> DEFINE Mutate(m) == [m EXCEPT !.strength = 0, !.state = "forgotten"]
           f == [m \in s.memories |-> IF m.id = id THEN Mutate(m) ELSE m]
<1>1. ASSUME NEW m \in s.memories PROVE Stays(m, f[m]) /\ f[m].state \in {m.state} \cup Retired
  <2>1. m \in Memory
      BY DEF Store
  <2>2. Stays(m, Mutate(m)) /\ Mutate(m).state \in {m.state} \cup Retired
      BY <2>1 DEF Memory, Keeps, Stays, Retired
  <2>3. QED
      BY <2>2 DEF Keeps, Stays
<1>2. ForgetMemory(s, id).store.memories = {f[m] : m \in s.memories}
  <2>1. ForgetMemory(s, id).store.memories
            = {IF m.id = id THEN Mutate(m) ELSE m : m \in s.memories}
      BY DEF ForgetMemory, ApplyMemoryAction, MapMemories, Outcome, Log, Store
  <2> HIDE DEF Mutate
  <2>2. QED
      BY <2>1
<1>3. ForgetMemory(s, id).store.births = s.births
    BY DEF ForgetMemory, ApplyMemoryAction, MapMemories, Outcome, Log, Store
<1> HIDE DEF f
<1>4. QED
    BY <1>1, <1>2, <1>3, Zenon DEF MapsQuietly

\* weakenMemory changes records in place.
LEMMA WeakenRekeys ==
    ASSUME NEW s \in Store, NEW id, NEW key
    PROVE  /\ Rekeys(s.memories, WeakenMemory(s, id).store.memories, key)
           /\ WeakenMemory(s, id).store.births = s.births
<1> DEFINE Mutate(m) == 
    [m EXCEPT !.strength = Clamp(@ - Loss["weaken"]),
              !.state = IF m.strength <= WeakLevel THEN "weak" ELSE @]
           f == [m \in s.memories |-> IF m.id = id THEN Mutate(m) ELSE m]
<1>1. ASSUME NEW m \in s.memories 
      PROVE  Keeps(m, f[m]) /\ f[m].key \in {m.key, key[m.key]}
  <2>1. m \in Memory
      BY DEF Store
  <2>2. Stays(m, Mutate(m))
      BY <2>1 DEF Memory, Keeps, Stays
  <2>3. QED
      BY <2>2 DEF Keeps, Stays
<1>2. WeakenMemory(s, id).store.memories = {f[m] : m \in s.memories}
  <2>1. WeakenMemory(s, id).store.memories
            = {IF m.id = id THEN Mutate(m) ELSE m : m \in s.memories}
      BY DEF WeakenMemory, ApplyMemoryAction, MapMemories, Outcome, Log, Store
  <2> HIDE DEF Mutate
  <2>2. QED
      BY <2>1
<1>3. WeakenMemory(s, id).store.births = s.births
    BY DEF WeakenMemory, ApplyMemoryAction, MapMemories, Outcome, Log, Store
<1> HIDE DEF f
<1>4. QED
    BY <1>1, <1>2, <1>3, Zenon DEF Rekeys

\* createCorrection changes records in place.
LEMMA CorrectMaps ==
    ASSUME NEW s \in Store, NEW id
    PROVE  /\ MapsQuietly(s.memories, CreateCorrection(s, id).store.memories)
           /\ CreateCorrection(s, id).store.births = s.births
<1> DEFINE Mutate(m) == 
    [m EXCEPT !.strength = Clamp(@ + Gain["correct"]), !.foreign = TRUE]
           f == [m \in s.memories |-> IF m.id = id THEN Mutate(m) ELSE m]
<1>1. ASSUME NEW m \in s.memories PROVE Stays(m, f[m]) /\ f[m].state \in {m.state} \cup Retired
  <2>1. m \in Memory
      BY DEF Store
  <2>2. Stays(m, Mutate(m)) /\ Mutate(m).state \in {m.state} \cup Retired
      BY <2>1 DEF Memory, Keeps, Stays, Retired
  <2>3. QED
      BY <2>2 DEF Keeps, Stays
<1>2. CreateCorrection(s, id).store.memories = {f[m] : m \in s.memories}
  <2>1. CreateCorrection(s, id).store.memories
            = {IF m.id = id THEN Mutate(m) ELSE m : m \in s.memories}
      BY DEF CreateCorrection, ApplyMemoryAction, MapMemories, Outcome, Log, Store
  <2> HIDE DEF Mutate
  <2>2. QED
      BY <2>1
<1>3. CreateCorrection(s, id).store.births = s.births
    BY DEF CreateCorrection, ApplyMemoryAction, MapMemories, Outcome, Log, Store
<1> HIDE DEF f
<1>4. QED
    BY <1>1, <1>2, <1>3, Zenon DEF MapsQuietly

\* reinforceMemory changes records in place.
LEMMA ReinforceMaps ==
    ASSUME NEW s \in Store, NEW id, NEW evidence
    PROVE  /\ MapsQuietly(s.memories, ReinforceMemory(s, id, evidence).store.memories)
           /\ ReinforceMemory(s, id, evidence).store.births = s.births
<1> DEFINE Mutate(m) == 
    [m EXCEPT !.strength = Clamp(@ + Gain["reinforce"])]
           f == [m \in s.memories |-> IF m.id = id THEN Mutate(m) ELSE m]
<1>1. ASSUME NEW m \in s.memories PROVE Stays(m, f[m]) /\ f[m].state \in {m.state} \cup Retired
  <2>1. m \in Memory
      BY DEF Store
  <2>2. Stays(m, Mutate(m)) /\ Mutate(m).state \in {m.state} \cup Retired
      BY <2>1 DEF Memory, Keeps, Stays, Retired
  <2>3. QED
      BY <2>2 DEF Keeps, Stays
<1>2. ReinforceMemory(s, id, evidence).store.memories = {f[m] : m \in s.memories}
  <2>1. ReinforceMemory(s, id, evidence).store.memories
            = {IF m.id = id THEN Mutate(m) ELSE m : m \in s.memories}
      BY DEF ReinforceMemory, AddRelation, WithRelation, ApplyMemoryAction, MapMemories, Outcome, Log, Store
  <2> HIDE DEF Mutate
  <2>2. QED
      BY <2>1
<1>3. ReinforceMemory(s, id, evidence).store.births = s.births
    BY DEF ReinforceMemory, AddRelation, WithRelation, ApplyMemoryAction, MapMemories, Outcome, Log, Store
<1> HIDE DEF f
<1>4. QED
    BY <1>1, <1>2, <1>3, Zenon DEF MapsQuietly

\* assimilateEvidence changes records in place.
LEMMA AssimilateMaps ==
    ASSUME NEW s \in Store, NEW id, NEW evidence
    PROVE  /\ MapsQuietly(s.memories, AssimilateEvidence(s, id, evidence).store.memories)
           /\ AssimilateEvidence(s, id, evidence).store.births = s.births
<1> DEFINE Mutate(m) == 
    [m EXCEPT !.strength = Clamp(@ + Gain["assimilate"]), !.age = 0,
              !.foreign = @ \/ m.key \notin SchemaKey]
           f == [m \in s.memories |-> IF m.id = id THEN Mutate(m) ELSE m]
<1>1. ASSUME NEW m \in s.memories PROVE Stays(m, f[m]) /\ f[m].state \in {m.state} \cup Retired
  <2>1. m \in Memory
      BY DEF Store
  <2>2. Stays(m, Mutate(m)) /\ Mutate(m).state \in {m.state} \cup Retired
      BY <2>1 DEF Memory, Keeps, Stays, Retired
  <2>3. QED
      BY <2>2 DEF Keeps, Stays
<1>2. AssimilateEvidence(s, id, evidence).store.memories = {f[m] : m \in s.memories}
  <2>1. AssimilateEvidence(s, id, evidence).store.memories
            = {IF m.id = id THEN Mutate(m) ELSE m : m \in s.memories}
      BY DEF AssimilateEvidence, AddRelation, WithRelation, ApplyMemoryAction, MapMemories, Outcome, Log, Store
  <2> HIDE DEF Mutate
  <2>2. QED
      BY <2>1
<1>3. AssimilateEvidence(s, id, evidence).store.births = s.births
    BY DEF AssimilateEvidence, AddRelation, WithRelation, ApplyMemoryAction, MapMemories, Outcome, Log, Store
<1> HIDE DEF f
<1>4. QED
    BY <1>1, <1>2, <1>3, Zenon DEF MapsQuietly

\* Decay changes records in place.
LEMMA DecayMaps ==
    ASSUME NEW memories \in SUBSET Memory
    PROVE  MapsQuietly(memories, {Decayed(m) : m \in memories})
<1> DEFINE f == [m \in memories |-> Decayed(m)]
<1>1. \A m \in memories : Stays(m, f[m]) /\ f[m].state \in {m.state} \cup Retired
    BY DecayedType DEF Keeps, Stays, Retired
<1>2. {Decayed(m) : m \in memories} = {f[m] : m \in memories}
    OBVIOUS
<1> HIDE DEF f
<1>3. QED
    BY <1>1, <1>2, Zenon DEF MapsQuietly

\* So does the passing of time.
LEMMA AgeMaps ==
    ASSUME NEW s \in Store
    PROVE  /\ MapsQuietly(s.memories, AgeStore(s).memories)
           /\ AgeStore(s).births = s.births
<1> DEFINE f == [m \in s.memories |-> Aged(m)]
<1>1. \A m \in s.memories : Stays(m, f[m]) /\ f[m].state \in {m.state} \cup Retired
    BY DEF Aged, Memory, Store, Keeps, Stays
<1>2. AgeStore(s).memories = {f[m] : m \in s.memories} /\ AgeStore(s).births = s.births
    BY DEF AgeStore, Store
<1> HIDE DEF f
<1>3. QED
    BY <1>1, <1>2, Zenon DEF MapsQuietly

\* n is what is left of the records that have the merge key of m: it takes the
\* place of the first one, with its id and its state.
MergedFrom(memories, m, n) ==
    /\ Stays(m, n)
    /\ \A k \in memories : k.key = m.key => m.born <= k.born
    /\ n.state \in {m.state} \cup Retired

\* mergeDuplicateMemories leaves one record per key.  Where an id determines
\* the key, it leaves one record per id.
LEMMA MergeKeeps ==
    ASSUME NEW memories \in SUBSET Memory
    PROVE  LET merged == MergeDuplicates(memories)
           IN /\ \A n \in merged : \E m \in memories : MergedFrom(memories, m, n)
              /\ \A m \in memories : \E n \in merged : n.key = m.key
              /\ \A a, b \in merged : a.key = b.key => a = b
              /\ (\A m, n \in memories : m.id = n.id => m.key = n.key) => Distinct(merged)
<1> DEFINE merged == MergeDuplicates(memories)
<1>0. ASSUME NEW m \in memories
      PROVE  \E first \in memories : MergedFrom(memories, first, Merged(SameKey(m, memories)))
                                    /\ first.key = m.key
  <2>1. SameKey(m, memories) \in SUBSET Memory /\ SameKey(m, memories) # {}
      BY DEF SameKey
  <2> DEFINE n == Merged(SameKey(m, memories))
  <2>2. PICK first \in SameKey(m, memories) :
            /\ \A k \in SameKey(m, memories) : first.born <= k.born
            /\ n.id = first.id /\ n.key = first.key
            /\ n.born = first.born /\ n.state = first.state
      BY <2>1, MergedType
  <2>3. first \in memories /\ first.key = m.key
      BY DEF SameKey
  <2>4. \A k \in memories : k.key = first.key => first.born <= k.born
      BY <2>2, <2>3 DEF SameKey
  <2> HIDE DEF n
  <2>5. MergedFrom(memories, first, n)
      BY <2>2, <2>4 DEF MergedFrom, Keeps, Stays
  <2>6. QED
      BY <2>3, <2>5 DEF n
<1>1. ASSUME NEW n \in merged
      PROVE  \E m \in memories : /\ n = Merged(SameKey(m, memories)) /\ n.key = m.key
                                /\ \E first \in memories : MergedFrom(memories, first, n)
  <2>1. PICK m \in memories : n = Merged(SameKey(m, memories))
      BY DEF MergeDuplicates
  <2>2. PICK first \in memories : MergedFrom(memories, first, n) /\ first.key = m.key
      BY <1>0, <2>1
  <2>3. QED
      BY <2>1, <2>2 DEF MergedFrom, Keeps, Stays
<1>2. ASSUME NEW a \in merged, NEW b \in merged, a.key = b.key PROVE a = b
  <2>1. PICK m \in memories : a = Merged(SameKey(m, memories)) /\ a.key = m.key
      BY <1>1
  <2>2. PICK n \in memories : b = Merged(SameKey(n, memories)) /\ b.key = n.key
      BY <1>1
  <2>3. SameKey(m, memories) = SameKey(n, memories)
      BY <1>2, <2>1, <2>2 DEF SameKey
  <2>4. QED
      BY <2>1, <2>2, <2>3
<1>3. ASSUME \A m, n \in memories : m.id = n.id => m.key = n.key,
             NEW a \in merged, NEW b \in merged, a.id = b.id
      PROVE  a = b
  <2>1. PICK m \in memories : MergedFrom(memories, m, a)
      BY <1>1
  <2>2. PICK n \in memories : MergedFrom(memories, n, b)
      BY <1>1
  <2>3. a.key = b.key
      BY <1>3, <2>1, <2>2 DEF MergedFrom, Keeps, Stays
  <2>4. QED
      BY <1>2, <2>3
<1>4. ASSUME NEW m \in memories PROVE \E n \in merged : n.key = m.key
  <2>1. Merged(SameKey(m, memories)) \in merged
      BY DEF MergeDuplicates
  <2>2. QED
      BY <1>0, <2>1 DEF MergedFrom, Keeps, Stays
<1>5. QED
    BY <1>1, <1>2, <1>3, <1>4 DEF Distinct

\* The same of buildMemoryStore: what it rebuilds are the old records and
\* those of the batch.
LEMMA BuildKeeps ==
    ASSUME NEW s \in Store, NEW inputs \in Seq(RememberedInput)
    PROVE  LET all == s.memories \cup News(s, inputs)
               built == BuildMemoryStore(s, inputs).memories
           IN /\ \A n \in built : \E m \in all : MergedFrom(all, m, n)
              /\ \A m \in all : \E n \in built : n.key = m.key
              /\ \A a, b \in built : a.key = b.key => a = b
              /\ (\A m, n \in all : m.id = n.id => m.key = n.key) => Distinct(built)
<1> DEFINE all == s.memories \cup News(s, inputs)
           merged == MergeDuplicates(all)
           built == BuildMemoryStore(s, inputs).memories
<1>1. all \in SUBSET Memory
    BY NewsType DEF Store
<1>2. merged \in SUBSET Memory
    BY <1>1, MergeType
<1>3. built = {Decayed(m) : m \in merged}
    BY DEF BuildMemoryStore, News, Store
<1>4. /\ \A n \in merged : \E m \in all : MergedFrom(all, m, n)
      /\ \A m \in all : \E n \in merged : n.key = m.key
      /\ \A a, b \in merged : a.key = b.key => a = b
      /\ (\A m, n \in all : m.id = n.id => m.key = n.key) => Distinct(merged)
    BY <1>1, MergeKeeps
<1> HIDE DEF merged, built, all
<1>5. \A n \in built : \E m \in merged :
          n = Decayed(m) /\ Stays(m, n) /\ n.state \in {m.state} \cup Retired
    BY <1>2, <1>3, DecayedType DEF Keeps, Stays, Retired
<1>6. Maps(merged, built)
    BY <1>2, <1>3, DecayMaps, QuietlyMaps
<1>7. \A n \in built : \E m \in all : MergedFrom(all, m, n)
  <2> SUFFICES ASSUME NEW n \in built PROVE \E m \in all : MergedFrom(all, m, n)
      OBVIOUS
  <2>1. PICK m \in merged : Stays(m, n) /\ n.state \in {m.state} \cup Retired
      BY <1>5
  <2>2. PICK k \in all : MergedFrom(all, k, m)
      BY <1>4
  <2>3. MergedFrom(all, k, n)
      BY <2>1, <2>2 DEF MergedFrom, Keeps, Stays
  <2>4. QED
      BY <2>3
<1>8. \A a, b \in built : a.key = b.key => a = b
  <2> SUFFICES ASSUME NEW a \in built, NEW b \in built, a.key = b.key PROVE a = b
      OBVIOUS
  <2>1. PICK m \in merged : a = Decayed(m) /\ a.key = m.key
      BY <1>5 DEF Keeps, Stays
  <2>2. PICK n \in merged : b = Decayed(n) /\ b.key = n.key
      BY <1>5 DEF Keeps, Stays
  <2>3. m = n
      BY <1>4, <2>1, <2>2
  <2>4. QED
      BY <2>1, <2>2, <2>3
<1>9. \A m \in all : \E n \in built : n.key = m.key
  <2> SUFFICES ASSUME NEW m \in all PROVE \E n \in built : n.key = m.key
      OBVIOUS
  <2>1. PICK k \in merged : k.key = m.key
      BY <1>4
  <2>2. Decayed(k) \in built /\ Decayed(k).key = k.key
      BY <1>2, <1>3, DecayedType
  <2>3. QED
      BY <2>1, <2>2
<1>10. QED
    BY <1>4, <1>6, <1>7, <1>8, <1>9, MapsDistinct DEF all, built

-----------------------------------------------------------------------------
(* Ids and the keys that go with them.                                     *)

\* A record that has a derived id also has the key that goes with it, if the
\* ids that are derived determine the keys.
KeepsKeys(memories, derived) ==
    \A m \in memories, d \in derived : m.id = d.id => m.key = d.key

OneKeyPerId(derived) == \A d, e \in derived : d.id = e.id => d.key = e.key

\* Records that are changed in place keep their ids, and the keys of derived
\* ids if no patch takes those away;
LEMMA RekeysKeepIds ==
    ASSUME NEW derived, NEW old, NEW new, NEW key, Rekeys(old, new, key),
           \A d \in derived : key[d.key] = d.key, Distinct(old), KeepsKeys(old, derived)
    PROVE  Distinct(new) /\ KeepsKeys(new, derived)
<1>1. Distinct(new)
    BY RekeysMaps, MapsDistinct
<1>2. PICK f : /\ \A m \in old : Keeps(m, f[m]) /\ f[m].key \in {m.key, key[m.key]}
               /\ new = {f[m] : m \in old}
    BY DEF Rekeys
<1>3. ASSUME NEW n \in new, NEW d \in derived, n.id = d.id PROVE n.key = d.key
  <2>1. PICK m \in old : n = f[m]
      BY <1>2
  <2>2. m.id = d.id /\ n.key \in {m.key, key[m.key]}
      BY <1>2, <1>3, <2>1 DEF Keeps, Stays
  <2>3. m.key = d.key
      BY <2>2 DEF KeepsKeys
  <2>4. QED
      BY <2>2, <2>3
<1>4. QED
    BY <1>1, <1>3 DEF KeepsKeys

LEMMA QuietlyKeepsIds ==
    ASSUME NEW derived, NEW old, NEW new, MapsQuietly(old, new), Distinct(old),
           KeepsKeys(old, derived)
    PROVE  Distinct(new) /\ KeepsKeys(new, derived)
<1> DEFINE key == [k \in {d.key : d \in derived} |-> k]
<1>1. \A d \in derived : key[d.key] = d.key
    OBVIOUS
<1> HIDE DEF key
<1>2. QED
    BY <1>1, QuietlyRekeys, RekeysKeepIds

\* a record is appended under an id that no record has;
LEMMA AppendKeepsIds ==
    ASSUME NEW derived, NEW old, Distinct(old), KeepsKeys(old, derived), NEW memory,
           \A m \in old : m.id # memory.id,
           \A d \in derived : memory.id = d.id => memory.key = d.key
    PROVE  Distinct(old \cup {memory}) /\ KeepsKeys(old \cup {memory}, derived)
BY DEF Distinct, KeepsKeys

\* what a batch derives has the key that goes with its id,
LEMMA NewsKeys ==
    ASSUME NEW derived, OneKeyPerId(derived), NEW s, NEW inputs,
           \A i \in DOMAIN inputs : inputs[i] \in derived
    PROVE  KeepsKeys(News(s, inputs), derived)
           /\ \A n \in News(s, inputs) : \E d \in derived : n.id = d.id /\ n.key = d.key
<1>1. ASSUME NEW n \in News(s, inputs)
      PROVE  \E d \in derived : n.id = d.id /\ n.key = d.key
  <2>1. PICK i \in DOMAIN inputs : n = RememberedMemory(inputs[i], s.births + i)
      BY DEF News
  <2>2. n.id = inputs[i].id /\ n.key = inputs[i].key
      BY <2>1 DEF RememberedMemory
  <2>3. QED
      BY <2>2
<1>2. QED
    BY <1>1 DEF KeepsKeys, OneKeyPerId

\* so it merges into the record that has its id.
LEMMA SameIdSameKey ==
    ASSUME NEW derived, OneKeyPerId(derived), NEW s, Distinct(s.memories),
           KeepsKeys(s.memories, derived), NEW inputs,
           \A i \in DOMAIN inputs : inputs[i] \in derived,
           NEW m \in s.memories \cup News(s, inputs), NEW n \in s.memories \cup News(s, inputs),
           m.id = n.id
    PROVE  m.key = n.key
BY NewsKeys DEF Distinct, KeepsKeys

\* and the store that is built has one record per id.
LEMMA BuildKeepsIds ==
    ASSUME NEW derived, OneKeyPerId(derived), NEW s \in Store, Distinct(s.memories),
           KeepsKeys(s.memories, derived),
           NEW inputs \in Seq(RememberedInput),
           \A i \in DOMAIN inputs : inputs[i] \in derived
    PROVE  LET built == BuildMemoryStore(s, inputs).memories
           IN Distinct(built) /\ KeepsKeys(built, derived)
<1> DEFINE all == s.memories \cup News(s, inputs)
           built == BuildMemoryStore(s, inputs).memories
<1>1. KeepsKeys(all, derived)
    BY NewsKeys DEF KeepsKeys
<1>2. \A m, n \in all : m.id = n.id => m.key = n.key
    BY SameIdSameKey
<1>3. Distinct(built) /\ \A n \in built : \E m \in all : Stays(m, n)
    BY <1>2, BuildKeeps DEF MergedFrom
<1> HIDE DEF all, built
<1>4. KeepsKeys(built, derived)
    BY <1>1, <1>3 DEF KeepsKeys, Keeps, Stays
<1>5. QED
    BY <1>3, <1>4 DEF built

-----------------------------------------------------------------------------
(* Relations.                                                              *)

\* SupersessionMirrored of a set of relations.
Mirrored(relations) ==
    \A r \in relations :
        /\ r.type = "supersedes" =>
               [from |-> r.to, to |-> r.from, type |-> "superseded_by"] \in relations
        /\ r.type = "superseded_by" =>
               [from |-> r.to, to |-> r.from, type |-> "supersedes"] \in relations

-----------------------------------------------------------------------------
(* What the pieces of the operations do to the relations.                  *)

\* Relations of another type need no mirror.
LEMMA RelatedMirrored ==
    ASSUME NEW relations, Mirrored(relations), NEW from, NEW to
    PROVE  Mirrored(relations \cup {[from |-> from, to |-> to, type |-> "related"]})
<1> DEFINE r == [from |-> from, to |-> to, type |-> "related"]
<1>1. r.type # "supersedes" /\ r.type # "superseded_by"
    OBVIOUS
<1>2. QED
    BY <1>1 DEF Mirrored

\* What addRelation adds.
LEMMA Related ==
    ASSUME NEW s \in Store, NEW from, NEW to
    PROVE  WithRelation(s, from, to, "related").relations
               = s.relations \cup {[from |-> from, to |-> to, type |-> "related"]}
BY DEF WithRelation, Store

\* A relation and its mirror are added together.
LEMMA PairMirrored ==
    ASSUME NEW s, "relations" \in DOMAIN s, Mirrored(s.relations), NEW id, NEW by
    PROVE  Mirrored(WithRelation(WithRelation(s, by, id, "supersedes"),
                                 id, by, "superseded_by").relations)
<1> DEFINE forth == [from |-> by, to |-> id, type |-> "supersedes"]
           back == [from |-> id, to |-> by, type |-> "superseded_by"]
           next == s.relations \cup {forth, back}
<1>1. WithRelation(WithRelation(s, by, id, "supersedes"), id, by, "superseded_by").relations = next
    BY DEF WithRelation
<1>2. /\ forth.type = "supersedes" /\ [from |-> forth.to, to |-> forth.from, type |-> "superseded_by"] = back
      /\ back.type = "superseded_by" /\ [from |-> back.to, to |-> back.from, type |-> "supersedes"] = forth
    OBVIOUS
<1>3. ASSUME NEW r \in next
      PROVE  /\ r.type = "supersedes" => [from |-> r.to, to |-> r.from, type |-> "superseded_by"] \in next
             /\ r.type = "superseded_by" => [from |-> r.to, to |-> r.from, type |-> "supersedes"] \in next
  <2>1. CASE r \in s.relations
      BY <2>1 DEF Mirrored
  <2>2. CASE r = forth
      BY <2>2, <1>2
  <2>3. CASE r = back
      BY <2>3, <1>2
  <2>4. QED
      BY <2>1, <2>2, <2>3
<1>4. QED
    BY <1>1, <1>3 DEF Mirrored

\* A relation is taken out together with its mirror, since both name the same
\* memories.
LEMMA RestMirrored ==
    ASSUME NEW relations \in SUBSET Relation, Mirrored(relations), NEW removed
    PROVE  Mirrored({r \in relations : r.from \notin removed /\ r.to \notin removed})
BY DEF Mirrored, Relation

\* Neither an action that maps memories nor a rebuilt store touches relations.
LEMMA ActionRelations ==
    ASSUME NEW s \in Store, NEW memories, NEW id
    PROVE  Log([s EXCEPT !.memories = memories], id).relations = s.relations
BY DEF Log, Store

\* What linking to evidence adds to the relations.
LEMMA EvidenceRelations ==
    ASSUME NEW s \in Store, NEW memories, NEW id, NEW op, NEW to, NEW outcome,
           outcome = Outcome(Log([s EXCEPT !.memories = memories], id), op, Has(s, id), 1)
    PROVE  AddRelation(outcome, id, to, "related").store.relations
               = s.relations \cup {[from |-> id, to |-> to, type |-> "related"]}
<1> DEFINE logged == Log([s EXCEPT !.memories = memories], id)
<1>1. logged.relations = s.relations /\ "relations" \in DOMAIN logged
    BY DEF Log, Store
<1>2. [logged EXCEPT !.relations = @ \cup {[from |-> id, to |-> to, type |-> "related"]}].relations
          = logged.relations \cup {[from |-> id, to |-> to, type |-> "related"]}
    BY <1>1
<1>3. AddRelation(Outcome(logged, op, Has(s, id), 1), id, to, "related").store
          = [logged EXCEPT !.relations = @ \cup {[from |-> id, to |-> to, type |-> "related"]}]
    BY DEF AddRelation, WithRelation, Outcome
<1>4. QED
    BY <1>1, <1>2, <1>3

\* A remember adds no relation by itself.
LEMMA BuildRelations ==
    ASSUME NEW s \in Store, NEW inputs, NEW id
    PROVE  /\ BuildMemoryStore(s, inputs).relations = s.relations
           /\ Log(BuildMemoryStore(s, inputs), id).relations = s.relations
BY DEF BuildMemoryStore, Log, Store

\* Nor does createMemory.
LEMMA CreateRelations ==
    ASSUME NEW s \in Store, NEW input
    PROVE  CreateMemory(s, input).store.relations = s.relations
BY DEF CreateMemory, AppendMemory, WithoutSnapshots, Outcome, Log, Store

-----------------------------------------------------------------------------
(* Refused calls.                                                          *)

\* What RejectedAddsNothing asks of an outcome.
Harmless(s, outcome) ==
    outcome.accepted \/ /\ outcome.store.memories = s.memories
                        /\ outcome.store.relations \subseteq s.relations

\* Whatever would be done to the memory, there is none.
LEMMA NothingMapped ==
    ASSUME NEW s \in Store, NEW id, NEW op, NEW memories,
           ~Has(s, id) => memories = s.memories
    PROVE  Harmless(s, Outcome(Log([s EXCEPT !.memories = memories], id), op, Has(s, id), 1))
BY DEF Harmless, Outcome, Log, Store

\* Dropping the snapshots changes neither memories nor relations.
LEMMA SnapshotsHarmless ==
    ASSUME NEW s \in Store
    PROVE  WithoutSnapshots(s).memories = s.memories /\ WithoutSnapshots(s).relations = s.relations
BY DEF WithoutSnapshots, Store

\* A refused call of an operation changes no memory and adds no relation, one
\* operation after another.
LEMMA UpdateHarmless ==
    ASSUME NEW s \in Store, NEW id, NEW patch
    PROVE  Harmless(s, UpdateMemory(s, id, patch))
<1> DEFINE memories == {IF m.id = id THEN Patched(m, patch) ELSE m : m \in s.memories}
<1>1. ~Has(s, id) => memories = s.memories
    BY DEF Has
<1>2. UpdateMemory(s, id, patch)
          = Outcome(Log([s EXCEPT !.memories = memories], id), "update_memory", Has(s, id), 1)
    BY DEF UpdateMemory, ApplyMemoryAction, MapMemories
<1> HIDE DEF memories
<1>3. QED
    BY <1>1, <1>2, NothingMapped

LEMMA ForgetHarmless ==
    ASSUME NEW s \in Store, NEW id
    PROVE  Harmless(s, ForgetMemory(s, id))
<1> DEFINE memories == {IF m.id = id
                        THEN [m EXCEPT !.strength = 0, !.state = "forgotten"]
                        ELSE m : m \in s.memories}
<1>1. ~Has(s, id) => memories = s.memories
    BY DEF Has
<1>2. ForgetMemory(s, id)
          = Outcome(Log([s EXCEPT !.memories = memories], id), "forget_memory", Has(s, id), 1)
    BY DEF ForgetMemory, ApplyMemoryAction, MapMemories
<1> HIDE DEF memories
<1>3. QED
    BY <1>1, <1>2, NothingMapped

LEMMA WeakenHarmless ==
    ASSUME NEW s \in Store, NEW id
    PROVE  Harmless(s, WeakenMemory(s, id))
<1> DEFINE memories == {IF m.id = id
                        THEN [m EXCEPT !.strength = Clamp(@ - Loss["weaken"]),
                                       !.state = IF m.strength <= WeakLevel THEN "weak" ELSE @]
                        ELSE m : m \in s.memories}
<1>1. ~Has(s, id) => memories = s.memories
    BY DEF Has
<1>2. WeakenMemory(s, id)
          = Outcome(Log([s EXCEPT !.memories = memories], id), "weaken_memory", Has(s, id), 1)
    BY DEF WeakenMemory, ApplyMemoryAction, MapMemories
<1> HIDE DEF memories
<1>3. QED
    BY <1>1, <1>2, NothingMapped

LEMMA CorrectHarmless ==
    ASSUME NEW s \in Store, NEW id
    PROVE  Harmless(s, CreateCorrection(s, id))
<1> DEFINE memories == {IF m.id = id
                        THEN [m EXCEPT !.strength = Clamp(@ + Gain["correct"]), !.foreign = TRUE]
                        ELSE m : m \in s.memories}
<1>1. ~Has(s, id) => memories = s.memories
    BY DEF Has
<1>2. CreateCorrection(s, id)
          = Outcome(Log([s EXCEPT !.memories = memories], id), "correction_record", Has(s, id), 1)
    BY DEF CreateCorrection, ApplyMemoryAction, MapMemories
<1> HIDE DEF memories
<1>3. QED
    BY <1>1, <1>2, NothingMapped

LEMMA ReinforceHarmless ==
    ASSUME NEW s \in Store, NEW id, NEW evidence
    PROVE  Harmless(s, ReinforceMemory(s, id, evidence))
<1> DEFINE memories == {IF m.id = id
                        THEN [m EXCEPT !.strength = Clamp(@ + Gain["reinforce"])]
                        ELSE m : m \in s.memories}
           outcome == Outcome(Log([s EXCEPT !.memories = memories], id), "reinforce_memory", Has(s, id), 1)
           added == AddRelation(outcome, id, EvidenceTarget(id, evidence), "related")
<1>1. ~Has(s, id) => memories = s.memories
    BY DEF Has
<1>2. ReinforceMemory(s, id, evidence) = IF outcome.accepted THEN added ELSE outcome
    BY DEF ReinforceMemory, ApplyMemoryAction, MapMemories
<1> HIDE DEF memories
<1>3. Harmless(s, outcome)
    BY <1>1, NothingMapped
<1>4. outcome.accepted => added.accepted
    BY DEF AddRelation, Outcome
<1> HIDE DEF outcome, added
<1>5. QED
    BY <1>2, <1>3, <1>4 DEF Harmless

LEMMA AssimilateHarmless ==
    ASSUME NEW s \in Store, NEW id, NEW evidence
    PROVE  Harmless(s, AssimilateEvidence(s, id, evidence))
<1> DEFINE memories == {IF m.id = id
                        THEN [m EXCEPT !.strength = Clamp(@ + Gain["assimilate"]), !.age = 0,
                                       !.foreign = @ \/ m.key \notin SchemaKey]
                        ELSE m : m \in s.memories}
           outcome == Outcome(Log([s EXCEPT !.memories = memories], id), "assimilate_evidence", Has(s, id), 1)
           added == AddRelation(outcome, id, EvidenceTarget(id, evidence), "related")
<1>1. ~Has(s, id) => memories = s.memories
    BY DEF Has
<1>2. AssimilateEvidence(s, id, evidence) = IF outcome.accepted THEN added ELSE outcome
    BY DEF AssimilateEvidence, ApplyMemoryAction, MapMemories
<1> HIDE DEF memories
<1>3. Harmless(s, outcome)
    BY <1>1, NothingMapped
<1>4. outcome.accepted => added.accepted
    BY DEF AddRelation, Outcome
<1> HIDE DEF outcome, added
<1>5. QED
    BY <1>2, <1>3, <1>4 DEF Harmless

LEMMA CreateHarmless ==
    ASSUME NEW s \in Store, NEW input
    PROVE  Harmless(s, CreateMemory(s, input))
BY SnapshotsHarmless DEF Harmless, CreateMemory, Outcome

LEMMA AccommodateHarmless ==
    ASSUME NEW s \in Store, NEW input, NEW evidence
    PROVE  Harmless(s, AccommodateSchema(s, input, evidence))
<1> DEFINE created == CreateMemory(s, input)
<1>1. Harmless(s, created)
    BY CreateHarmless
<1>2. created.accepted => AccommodateSchema(s, input, evidence).accepted
    BY DEF AccommodateSchema, AddRelation, Outcome
<1>3. ~created.accepted => AccommodateSchema(s, input, evidence) = created
    BY DEF AccommodateSchema
<1> HIDE DEF created
<1>4. QED
    BY <1>1, <1>2, <1>3 DEF Harmless

LEMMA DeleteHarmless ==
    ASSUME NEW s \in Store, NEW id
    PROVE  Harmless(s, HardDelete(s, id))
BY DEF Harmless, HardDelete, Outcome, Log, Store, Has

\* The operations on relations are refused in the same way.
LEMMA RelationsHarmless ==
    ASSUME NEW s \in Store, NEW from, NEW to, NEW type
    PROVE  /\ Harmless(s, SupersedeMemory(s, from, to))
           /\ Harmless(s, RelateMemories(s, from, to, type))
           /\ Harmless(s, LinkIntentToEvidence(s, from, to))
BY SnapshotsHarmless DEF Harmless, SupersedeMemory, RelateMemories, LinkIntentToEvidence, Outcome

\* A remember is refused without a schema or an intent, and adds nothing then.
LEMMA RememberHarmless ==
    ASSUME NEW s \in Store, NEW input
    PROVE  /\ Harmless(s, RememberPacket(s, input))
           /\ Harmless(s, RememberSchema(s, input)) /\ Harmless(s, RememberNoSchema(s))
           /\ Harmless(s, RememberIntent(s, input))
BY DEF Harmless, RememberPacket, RememberSchema, RememberNoSchema, RememberIntent, Outcome

=============================================================================
