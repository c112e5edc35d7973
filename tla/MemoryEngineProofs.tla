------------------------- MODULE MemoryEngineProofs -------------------------
(***************************************************************************)
(* Theorems about MemoryEngine and StoreExchange for every set of ids,     *)
(* keys and inputs, every scale of strengths and every length of the       *)
(* history: ids, merging, what is lost and revived, supersession,          *)
(* relations and refusals; then that what a package or a backup brings     *)
(* back is what was taken out, that an import leaves the rest alone and    *)
(* may be repeated, and that a context is filled with the best answers.    *)
(***************************************************************************)
EXTENDS StoreExchange, MemoryOpsProofs, FiniteSetTheorems

-----------------------------------------------------------------------------
(* Type correctness.                                                       *)

\* A typed outcome gives a typed next state.
LEMMA CommitType ==
    ASSUME NEW outcome \in OutcomeType, Commit(outcome)
    PROVE  TypeOK'
BY DEF Commit, OutcomeType, TypeOK

\* Every operation returns a store of the declared shape and reports itself by
\* an action record of the engine.
LEMMA StepTyped ==
    ASSUME store \in Store, Next
    PROVE  TypeOK'
<1> USE InputAssumption
<1>1. CASE Create
    BY <1>1, CreateType, CommitType DEF Create
<1>2. CASE Update
    BY <1>2, UpdateType, CommitType DEF Update
<1>3. CASE Delete
    BY <1>3, DeleteType, CommitType DEF Delete
<1>4. CASE Forget
    BY <1>4, ForgetType, CommitType DEF Forget
<1>5. CASE Weaken
    BY <1>5, WeakenType, CommitType DEF Weaken
<1>6. CASE Correct
    BY <1>6, CorrectType, CommitType DEF Correct
<1>7. CASE Reinforce
    BY <1>7, ReinforceType, CommitType DEF Reinforce
<1>8. CASE Assimilate
    BY <1>8, AssimilateType, CommitType DEF Assimilate
<1>9. CASE Accommodate
    BY <1>9, AccommodateType, CommitType DEF Accommodate
<1>10. CASE Supersede
    BY <1>10, SupersedeType, CommitType DEF Supersede, FreshId
<1>11. CASE Relate
    BY <1>11, RelateType, CommitType DEF Relate
<1>12. CASE LinkToEvidence
    BY <1>12, LinkType, CommitType DEF LinkToEvidence
<1>13. CASE RememberAPacket
    BY <1>13, RememberType, CommitType DEF RememberAPacket
<1>14. CASE RememberASchema
  <2>1. RememberNoSchema(store) \in OutcomeType
    <3>1. "remember_schema" \in Operation /\ 0 \in 0..2
        BY DEF Operation
    <3>2. QED
        BY <3>1, OutcomeTyped DEF RememberNoSchema
  <2>2. QED
      BY <1>14, <2>1, RememberType, CommitType DEF RememberASchema
<1>15. CASE RememberIntents
    BY <1>15, RememberType, CommitType DEF RememberIntents
<1>16. {"attach_snapshot", "compact", "tick"} \subseteq Operation /\ 0 \in 0..2
    BY DEF Operation
<1>17. CASE Snapshot
    BY <1>16, <1>17, UnloggedType, OutcomeTyped, CommitType DEF Snapshot
<1>18. CASE Compact
    BY <1>16, <1>18, UnloggedType, OutcomeTyped, CommitType DEF Compact
<1>19. CASE Tick
    BY <1>16, <1>19, UnloggedType, OutcomeTyped, CommitType DEF Tick
<1>20. QED
    BY <1>1, <1>2, <1>3, <1>4, <1>5, <1>6, <1>7, <1>8, <1>9, <1>10, <1>11, <1>12,
       <1>13, <1>14, <1>15, <1>17, <1>18, <1>19 DEF Next

\* Every operation of the engine, called with any typed input, returns a
\* store of the declared shape: strengths stay between 0 and 1, states stay
\* within the states the code writes, snapshots within the retention.
THEOREM TypeCorrect == Spec => []TypeOK
<1>1. Init => TypeOK
    BY LevelAssumption DEF Init, TypeOK, EmptyStore, Store
<1>2. TypeOK /\ [Next]_vars => TypeOK'
  <2>1. TypeOK /\ Next => TypeOK'
      BY StepTyped DEF TypeOK
  <2>2. TypeOK /\ UNCHANGED vars => TypeOK'
      BY DEF vars, TypeOK
  <2>3. QED
      BY <2>1, <2>2
<1>3. QED
    BY <1>1, <1>2, PTL DEF Spec

-----------------------------------------------------------------------------
(* What a step does to the memories: one of six things.                    *)

\* It changes records in place and puts none back into use,
ChangesInPlace ==
    /\ MapsQuietly(store.memories, store'.memories)
    /\ store'.births = store.births
    /\ ~ (last'.op \in RememberSteps /\ last'.accepted)

\* or in place in the two ways that may put one back, the one of which may give
\* it another merge key,
SameKeys == [k \in MergeKey |-> k]

PatchedKey == {patch.key : patch \in Patch} \cup {SameKeys}

Edits ==
    /\ \E key \in PatchedKey : Rekeys(store.memories, store'.memories, key)
    /\ store'.births = store.births
    /\ last'.op \in {"update_memory", "weaken_memory"}

\* or it appends a record of a caller under a free id,
Appends ==
    \E input \in CreateInput \cup AccommodateInput, memory \in Memory :
        /\ memory.id = input.id /\ memory.key = input.key
        /\ \A m \in store.memories : m.id # memory.id
        /\ memory.born = store.births + 1 /\ store'.births = store.births + 1
        /\ store'.memories = store.memories \cup {memory}
        /\ last'.op \notin RememberSteps

\* or appends a record that supersedes others, which are marked,
Supersedes ==
    \E marked : \E memory \in Memory :
        /\ MapsQuietly(store.memories, marked)
        /\ memory.id \in ReplacementId \cup FreshId
        /\ memory.born = store.births + 1 /\ store'.births = store.births + 1
        /\ store'.memories = marked \cup {memory}
        /\ last'.op \notin RememberSteps

\* or removes records on request or on compaction,
Removes ==
    /\ store'.births = store.births
    /\ \/ last'.op = "delete_memory" /\ store'.memories \subseteq store.memories
       \/ last'.op = "compact" /\ store'.memories = {m \in store.memories : ~Reclaimable(m)}

\* or rebuilds the store with a batch of derived records.
Rebuilds ==
    \E inputs \in Seq(RememberedInput) :
        /\ \A i \in DOMAIN inputs : inputs[i] \in DerivedInput
        /\ store'.memories = BuildMemoryStore(store, inputs).memories
        /\ store'.births = store.births + Len(inputs)
        /\ last'.op \in RememberSteps

\* A refused call loses at most the snapshots.
LEMMA SameInPlace ==
    ASSUME store'.memories = store.memories, store'.births = store.births,
           ~ (last'.op \in RememberSteps /\ last'.accepted)
    PROVE  ChangesInPlace
BY SameMaps DEF ChangesInPlace

\* createMemory, alone or as a part of accommodateSchema.
LEMMA CreateEffect ==
    ASSUME store \in Store,
           NEW input \in CreateInput \cup AccommodateInput,
           store'.memories = CreateMemory(store, input).store.memories,
           store'.births = CreateMemory(store, input).store.births,
           last'.op \notin RememberSteps
    PROVE  ChangesInPlace \/ Appends
<1> DEFINE memory == NormalizeInput(input, store.births + 1)
<1>1. CASE Has(store, input.id)
  <2>1. store'.memories = store.memories /\ store'.births = store.births
      BY <1>1 DEF CreateMemory, Outcome, WithoutSnapshots, Store
  <2>2. QED
      BY <2>1, SameInPlace
<1>2. CASE ~ Has(store, input.id)
  <2>1. store'.memories = store.memories \cup {memory} /\ store'.births = store.births + 1
      BY <1>2 DEF CreateMemory, Outcome, Log, AppendMemory, Store
  <2>2. memory.id = input.id /\ memory.key = input.key /\ memory.born = store.births + 1
      BY DEF NormalizeInput
  <2>3. memory \in Memory
      BY InputAssumption, NormalizeType DEF Store
  <2> HIDE DEF memory
  <2>4. \A m \in store.memories : m.id # memory.id
      BY <1>2, <2>2 DEF Has
  <2>5. QED
      BY <2>1, <2>2, <2>3, <2>4 DEF Appends
<1>3. QED
    BY <1>1, <1>2

\* supersedeMemory marks every record of the id and appends one.
LEMMA SupersedeEffect ==
    ASSUME store \in Store,
           NEW id, NEW replacementId \in ReplacementId \cup FreshId,
           store' = SupersedeMemory(store, id, replacementId).store,
           last'.op = "supersede_memory"
    PROVE  ChangesInPlace \/ Supersedes
<1> DEFINE f == [m \in store.memories |-> IF m.id = id THEN Superseded(m, replacementId) ELSE m]
           marked == {f[m] : m \in store.memories}
           replacement == Replacement(ReadMemory(store, id), replacementId, store.births + 1)
<1>0. last'.op \notin RememberSteps
    BY DEF RememberSteps
<1>1. CASE ~ Has(store, id)
  <2>1. store'.memories = store.memories /\ store'.births = store.births
      BY <1>1 DEF SupersedeMemory, Outcome, WithoutSnapshots, Store
  <2>2. QED
      BY <1>0, <2>1, SameInPlace
<1>2. CASE Has(store, id)
  <2>1. ASSUME NEW m \in store.memories
        PROVE  Stays(m, f[m]) /\ f[m].state \in {m.state} \cup Retired
    <3>1. m \in Memory
        BY DEF Store
    <3>2. QED
        BY <3>1 DEF Superseded, Memory, Keeps, Stays, Retired
  <2>2. store'.memories = marked \cup {replacement} /\ store'.births = store.births + 1
    <3>1. /\ store'.memories
                 = {IF m.id = id THEN Superseded(m, replacementId) ELSE m : m \in store.memories}
                       \cup {replacement}
          /\ store'.births = store.births + 1
        BY <1>2 DEF SupersedeMemory, Outcome, WithRelation, Log, AppendMemory, MapMemories, Store
    <3> HIDE DEF replacement
    <3>2. QED
        BY <3>1
  <2>3. MapsQuietly(store.memories, marked)
    <3> HIDE DEF f
    <3> QED
        BY <2>1, Zenon DEF MapsQuietly
  <2> HIDE DEF f, marked
  <2>4. ReadMemory(store, id) \in Memory
    <3> DEFINE group == {m \in store.memories : m.id = id}
    <3>1. group \in SUBSET Memory /\ group # {}
        BY <1>2 DEF Has, Store
    <3>2. QED
        BY <3>1, FirstMember DEF ReadMemory
  <2>5. replacement.id = replacementId /\ replacement.born = store.births + 1
      BY <2>4 DEF Replacement, Memory
  <2>6. replacement \in Memory
    <3>1. replacementId \in MemoryId /\ store.births + 1 \in Nat
        BY InputAssumption DEF FreshId, Store
    <3>2. QED
        BY <2>4, <3>1, ReplacementType
  <2> HIDE DEF replacement
  <2>7. QED
      BY <1>0, <2>2, <2>3, <2>5, <2>6 DEF Supersedes
<1>3. QED
    BY <1>1, <1>2

\* The three remember operations refuse the call or rebuild the store.
LEMMA RebuildEffect ==
    ASSUME store \in Store, NEW inputs \in Seq(RememberedInput), NEW id,
           \A i \in DOMAIN inputs : inputs[i] \in DerivedInput,
           store' = Log(BuildMemoryStore(store, inputs), id),
           last'.op \in RememberSteps
    PROVE  Rebuilds
<1>1. BuildMemoryStore(store, inputs) \in Store
    BY BuildType
<1>2. /\ store'.memories = BuildMemoryStore(store, inputs).memories
      /\ store'.births = BuildMemoryStore(store, inputs).births
    BY <1>1 DEF Log, Store
<1>3. BuildMemoryStore(store, inputs).births = store.births + Len(inputs)
    BY DEF BuildMemoryStore, Store
<1>4. QED
    BY <1>2, <1>3 DEF Rebuilds

\* Every step of the engine, operation by operation.
LEMMA StepEffects ==
    ASSUME store \in Store, Next
    PROVE  ChangesInPlace \/ Edits \/ Appends \/ Supersedes \/ Removes \/ Rebuilds
<1> USE InputAssumption
<1>1. CASE Create
  <2>1. PICK input \in CreateInput : Commit(CreateMemory(store, input))
      BY <1>1 DEF Create
  <2>2. CreateMemory(store, input).op \notin RememberSteps
      BY DEF CreateMemory, Outcome, RememberSteps
  <2>3. QED
      BY <2>1, <2>2, CreateEffect DEF Commit
<1>2. CASE Update
  <2>1. PICK id \in CallerId, patch \in Patch : Commit(UpdateMemory(store, id, patch))
      BY <1>2 DEF Update
  <2>2. UpdateMemory(store, id, patch).op = "update_memory"
      BY DEF UpdateMemory, ApplyMemoryAction, Outcome
  <2>3. QED
      BY <2>1, <2>2, UpdateRekeys DEF Commit, Edits, PatchedKey
<1>3. CASE Delete
  <2>1. PICK id \in CallerId : Commit(HardDelete(store, id))
      BY <1>3 DEF Delete
  <2>2. QED
      BY <2>1 DEF HardDelete, Outcome, Log, Store, Commit, Removes
<1>4. CASE Forget
  <2>1. PICK id \in CallerId : Commit(ForgetMemory(store, id))
      BY <1>4 DEF Forget
  <2>2. ForgetMemory(store, id).op \notin RememberSteps
      BY DEF ForgetMemory, ApplyMemoryAction, Outcome, RememberSteps
  <2>3. QED
      BY <2>1, <2>2, ForgetMaps DEF Commit, ChangesInPlace
<1>5. CASE Weaken
  <2>1. PICK id \in CallerId : Commit(WeakenMemory(store, id))
      BY <1>5 DEF Weaken
  <2>2. WeakenMemory(store, id).op = "weaken_memory"
      BY DEF WeakenMemory, ApplyMemoryAction, Outcome
  <2>3. QED
      BY <2>1, <2>2, WeakenRekeys DEF Commit, Edits, PatchedKey
<1>6. CASE Correct
  <2>1. PICK id \in CallerId : Commit(CreateCorrection(store, id))
      BY <1>6 DEF Correct
  <2>2. CreateCorrection(store, id).op \notin RememberSteps
      BY DEF CreateCorrection, ApplyMemoryAction, Outcome, RememberSteps
  <2>3. QED
      BY <2>1, <2>2, CorrectMaps DEF Commit, ChangesInPlace
<1>7. CASE Reinforce
  <2>1. PICK id \in CallerId, evidence \in Evidence : Commit(ReinforceMemory(store, id, evidence))
      BY <1>7 DEF Reinforce
  <2>2. ReinforceMemory(store, id, evidence).op \notin RememberSteps
      BY DEF ReinforceMemory, AddRelation, ApplyMemoryAction, Outcome, RememberSteps
  <2>3. QED
      BY <2>1, <2>2, ReinforceMaps DEF Commit, ChangesInPlace
<1>8. CASE Assimilate
  <2>1. PICK id \in CallerId, evidence \in Evidence : Commit(AssimilateEvidence(store, id, evidence))
      BY <1>8 DEF Assimilate
  <2>2. AssimilateEvidence(store, id, evidence).op \notin RememberSteps
      BY DEF AssimilateEvidence, AddRelation, ApplyMemoryAction, Outcome, RememberSteps
  <2>3. QED
      BY <2>1, <2>2, AssimilateMaps DEF Commit, ChangesInPlace
<1>9. CASE Accommodate
  <2>1. PICK input \in AccommodateInput, evidence \in Evidence :
            Commit(AccommodateSchema(store, input, evidence))
      BY <1>9 DEF Accommodate
  <2> DEFINE created == CreateMemory(store, input)
  <2>2. created.store \in Store
      BY CreateType DEF OutcomeType
  <2>3. store' = IF created.accepted
                 THEN WithRelation(created.store, input.id,
                                   EvidenceTarget(input.id, evidence), "related")
                 ELSE created.store
      BY <2>1 DEF Commit, AccommodateSchema, AddRelation, Outcome
  <2>4. last'.op \notin RememberSteps
      BY <2>1 DEF Commit, AccommodateSchema, CreateMemory, AddRelation, Outcome, RememberSteps
  <2> HIDE DEF created
  <2>5. store'.memories = created.store.memories /\ store'.births = created.store.births
      BY <2>2, <2>3 DEF WithRelation, Store
  <2>6. QED
      BY <2>4, <2>5, CreateEffect DEF created
<1>10. CASE Supersede
  <2>1. PICK id \in CallerId, replacementId \in ReplacementId \cup FreshId :
            Commit(SupersedeMemory(store, id, replacementId))
      BY <1>10 DEF Supersede
  <2>2. SupersedeMemory(store, id, replacementId).op = "supersede_memory"
      BY DEF SupersedeMemory, Outcome
  <2>3. QED
      BY <2>1, <2>2, SupersedeEffect DEF Commit
<1>11. CASE Relate \/ LinkToEvidence \/ Snapshot
  <2>1. store'.memories = store.memories /\ store'.births = store.births
      BY <1>11 DEF Relate, LinkToEvidence, Snapshot, Commit, RelateMemories,
            LinkIntentToEvidence, AttachSnapshot, Outcome, WithRelation, WithoutSnapshots,
            Log, Store
  <2>2. last'.op \in {"relate_memories", "link_intent_to_evidence", "attach_snapshot"}
      BY <1>11 DEF Relate, LinkToEvidence, Snapshot, Commit, RelateMemories,
            LinkIntentToEvidence, Outcome
  <2>3. last'.op \notin RememberSteps
      BY <2>2 DEF RememberSteps
  <2>4. QED
      BY <2>1, <2>3, SameInPlace
<1>12. CASE RememberAPacket \/ RememberASchema
  <2>1. \/ store' = store /\ ~last'.accepted
        \/ \E input \in PacketInput \cup SchemaInput :
               /\ store' = Log(BuildMemoryStore(store, <<input>>), input.id)
               /\ last'.op \in RememberSteps
    <3>1. CASE RememberAPacket
        BY <3>1 DEF RememberAPacket, Commit, RememberPacket, Outcome, RememberSteps
    <3>2. CASE Commit(RememberNoSchema(store))
        BY <3>2 DEF Commit, RememberNoSchema, Outcome
    <3>3. ASSUME NEW input \in SchemaInput, Commit(RememberSchema(store, input))
          PROVE  /\ store' = Log(BuildMemoryStore(store, <<input>>), input.id)
                 /\ last'.op \in RememberSteps
        BY <3>3 DEF Commit, RememberSchema, Outcome, RememberSteps
    <3>4. QED
        BY <1>12, <3>1, <3>2, <3>3 DEF RememberASchema
  <2>2. CASE store' = store /\ ~last'.accepted
      BY <2>2, SameInPlace
  <2>3. ASSUME NEW input \in PacketInput \cup SchemaInput,
               store' = Log(BuildMemoryStore(store, <<input>>), input.id),
               last'.op \in RememberSteps
        PROVE  Rebuilds
    <3>1. <<input>> \in Seq(RememberedInput)
        OBVIOUS
    <3>2. \A i \in DOMAIN <<input>> : <<input>>[i] \in DerivedInput
        BY DEF DerivedInput
    <3>3. QED
        BY <2>3, <3>1, <3>2, RebuildEffect
  <2>4. QED
      BY <2>1, <2>2, <2>3
<1>13. CASE RememberIntents
  <2>1. PICK intents \in IntentResult :
            \/ store' = store /\ ~last'.accepted
            \/ /\ store' = Log(BuildMemoryStore(store, intents), intents[1].id)
               /\ last'.op \in RememberSteps
      BY <1>13 DEF RememberIntents, Commit, RememberIntent, Outcome, RememberSteps
  <2>2. CASE store' = store /\ ~last'.accepted
      BY <2>2, SameInPlace
  <2>3. intents \in Seq(RememberedInput)
      OBVIOUS
  <2>4. \A i \in DOMAIN intents : intents[i] \in DerivedInput
      BY DEF DerivedInput
  <2>5. QED
      BY <2>1, <2>2, <2>3, <2>4, RebuildEffect
<1>14. CASE Compact
    BY <1>14 DEF Compact, Commit, CompactStore, Outcome, Store, Removes
<1>15. CASE Tick
    BY <1>15, AgeMaps DEF Tick, Commit, Outcome, ChangesInPlace, RememberSteps
<1>16. QED
    BY <1>1, <1>2, <1>3, <1>4, <1>5, <1>6, <1>7, <1>8, <1>9, <1>10, <1>11, <1>12, <1>13,
       <1>14, <1>15 DEF Next

-----------------------------------------------------------------------------
(* Ids.                                                                    *)

\* The invariant in terms of the memories of the store.
LEMMA IdsOf ==
    /\ IdInvariant <=> Distinct(store.memories) /\ KeepsKeys(store.memories, DerivedInput)
    /\ IdInvariant' <=> Distinct(store'.memories) /\ KeepsKeys(store'.memories, DerivedInput)
BY DEF IdInvariant, UniqueIds, DerivedIdsKeepKeys, Distinct, KeepsKeys

\* Every step of the engine keeps the ids distinct.
LEMMA IdsInductive ==
    ASSUME IdsDetermineKeys, store \in Store, IdInvariant, [Next]_vars
    PROVE  IdInvariant'
<1>0. store \in Store /\ Distinct(store.memories) /\ KeepsKeys(store.memories, DerivedInput)
    BY IdsOf
<1> SUFFICES Distinct(store'.memories) /\ KeepsKeys(store'.memories, DerivedInput)
    BY IdsOf
<1>1. CASE ChangesInPlace
    BY <1>0, <1>1, QuietlyKeepsIds DEF ChangesInPlace
<1>8. CASE Edits
  <2>1. PICK key \in PatchedKey : Rekeys(store.memories, store'.memories, key)
      BY <1>8 DEF Edits
  <2>2. \A d \in DerivedInput : d.key \in MergeKey
    <3>1. \A intents \in IntentResult : \A i \in DOMAIN intents : intents[i] \in RememberedInput
        BY InputAssumption
    <3>2. PacketInput \cup SchemaInput \subseteq RememberedInput
        BY InputAssumption
    <3>3. QED
        BY <3>1, <3>2 DEF DerivedInput, RememberedInput
  <2>3. \A d \in DerivedInput : key[d.key] = d.key
      BY <2>2 DEF PatchedKey, SameKeys, IdsDetermineKeys
  <2>4. QED
      BY <1>0, <2>1, <2>3, RekeysKeepIds
<1>2. CASE Appends
  <2>1. PICK input \in CreateInput \cup AccommodateInput, memory \in Memory :
            /\ memory.id = input.id /\ memory.key = input.key
            /\ \A m \in store.memories : m.id # memory.id
            /\ store'.memories = store.memories \cup {memory}
      BY <1>2 DEF Appends
  <2>2. \A d \in DerivedInput : memory.id = d.id => memory.key = d.key
      BY <2>1 DEF IdsDetermineKeys
  <2>3. /\ Distinct(store.memories \cup {memory})
        /\ KeepsKeys(store.memories \cup {memory}, DerivedInput)
      BY <1>0, <2>1, <2>2, AppendKeepsIds
  <2>4. QED
      BY <2>1, <2>3
<1>3. CASE Supersedes
  <2>1. PICK marked : \E memory \in Memory :
            /\ MapsQuietly(store.memories, marked)
            /\ memory.id \in FreshId
            /\ store'.memories = marked \cup {memory}
      BY <1>3 DEF Supersedes, IdsDetermineKeys
  <2>2. PICK memory \in Memory :
            /\ memory.id \in FreshId
            /\ store'.memories = marked \cup {memory}
      BY <2>1
  <2>3. Maps(store.memories, marked)
      BY <2>1, QuietlyMaps
  <2>4. Distinct(marked) /\ KeepsKeys(marked, DerivedInput)
      BY <1>0, <2>1, QuietlyKeepsIds
  <2>5. \A m \in marked : m.id # memory.id
      BY <2>2, <2>3, MapsDistinct DEF Keeps, FreshId, Has
  <2>6. \A d \in DerivedInput : memory.id # d.id
      BY <2>2 DEF FreshId, IdsDetermineKeys
  <2>7. QED
      BY <2>2, <2>4, <2>5, <2>6, AppendKeepsIds
<1>4. CASE Removes
  <2>1. store'.memories \subseteq store.memories
      BY <1>4 DEF Removes
  <2>2. QED
      BY <1>0, <2>1 DEF Distinct, KeepsKeys
<1>5. CASE Rebuilds
  <2>1. OneKeyPerId(DerivedInput)
      BY DEF IdsDetermineKeys, OneKeyPerId
  <2>2. QED
      BY <1>0, <1>5, <2>1, BuildKeepsIds DEF Rebuilds
<1>6. CASE UNCHANGED vars
    BY <1>0, <1>6 DEF vars
<1>7. QED
    BY <1>1, <1>2, <1>3, <1>4, <1>5, <1>6, <1>8, StepEffects

\* A derived id goes on to name the memory that it was derived from, whatever
\* is remembered, superseded, forgotten or restored in between; so no two
\* memories of a user's store share one.
THEOREM IdsAreKept ==
    ASSUME IdsDetermineKeys
    PROVE  Spec => []IdInvariant
<1>1. Init => IdInvariant
    BY DEF Init, EmptyStore, IdInvariant, UniqueIds, DerivedIdsKeepKeys
<1>2. TypeOK /\ IdInvariant /\ [Next]_vars => IdInvariant'
    BY IdsInductive DEF TypeOK
<1>3. QED
    BY <1>1, <1>2, TypeCorrect, PTL DEF Spec

\* As long as ids determine merge keys, an id names at most one memory in
\* every store the engine can return.
THEOREM IdsUnique ==
    ASSUME IdsDetermineKeys
    PROVE  Spec => []UniqueIds
<1>1. IdInvariant => UniqueIds
    BY DEF IdInvariant
<1>2. QED
    BY <1>1, IdsAreKept, PTL

-----------------------------------------------------------------------------
(* Merging.                                                                *)

\* A remember that is accepted leaves one record per merge key, also of the
\* duplicates that an earlier operation left behind; any other operation makes
\* no such claim, and a remember that is refused neither.
THEOREM RemembersMergeAll == Spec => []RememberMergesAll
<1>1. Init => RememberMergesAll
    BY DEF Init, RememberMergesAll, RememberSteps
<1>2. TypeOK /\ RememberMergesAll /\ [Next]_vars => RememberMergesAll'
  <2> SUFFICES ASSUME TypeOK, RememberMergesAll, [Next]_vars,
                      (last.op \in RememberSteps /\ last.accepted)'
               PROVE  \A m, n \in store'.memories : m.key = n.key => m = n
      BY DEF RememberMergesAll
  <2>1. CASE Next
    <3>1. Rebuilds
        BY <2>1, StepEffects
           DEF TypeOK, ChangesInPlace, Edits, Appends, Supersedes, Removes, RememberSteps
    <3>2. QED
        BY <3>1, BuildKeeps DEF Rebuilds, TypeOK
  <2>2. CASE UNCHANGED vars
      BY <2>2 DEF vars, RememberMergesAll
  <2>3. QED
      BY <2>1, <2>2
<1>3. QED
    BY <1>1, <1>2, TypeCorrect, PTL DEF Spec

-----------------------------------------------------------------------------
(* Loss.                                                                   *)

\* What accounts for a memory of the store in a step.
Accounted(m) ==
    \/ \E n \in store'.memories : n.id = m.id
    \/ last'.op = "delete_memory"
    \/ last'.op = "compact" /\ Reclaimable(m)
    \/ last'.op \in RememberSteps /\ \E n \in store'.memories : n.key = m.key

\* Every step accounts for every memory that was there.
LEMMA StepAccounts ==
    ASSUME store \in Store, Next, NEW m \in store.memories
    PROVE  Accounted(m)
<1> USE DEF Accounted
<1>1. CASE ChangesInPlace \/ Edits
    BY <1>1, QuietlyMaps, RekeysMaps, MapsDistinct DEF ChangesInPlace, Edits, Keeps
<1>2. CASE Appends
    BY <1>2 DEF Appends
<1>3. CASE Supersedes
  <2>1. PICK marked : /\ MapsQuietly(store.memories, marked)
                      /\ marked \subseteq store'.memories
      BY <1>3 DEF Supersedes
  <2>2. \E n \in marked : n.id = m.id
      BY <2>1, QuietlyMaps, MapsDistinct DEF Keeps
  <2>3. QED
      BY <2>1, <2>2
<1>4. CASE Removes
    BY <1>4 DEF Removes
<1>5. CASE Rebuilds
  <2>1. PICK inputs \in Seq(RememberedInput) :
            store'.memories = BuildMemoryStore(store, inputs).memories
      BY <1>5 DEF Rebuilds
  <2>2. store \in Store /\ m \in store.memories \cup News(store, inputs)
      OBVIOUS
  <2>3. \A k \in store.memories \cup News(store, inputs) :
            \E n \in BuildMemoryStore(store, inputs).memories : n.key = k.key
      BY <2>2, BuildKeeps
  <2>4. \E n \in store'.memories : n.key = m.key
      BY <2>1, <2>2, <2>3
  <2>5. QED
      BY <1>5, <2>4 DEF Rebuilds
<1>6. QED
    BY <1>1, <1>2, <1>3, <1>4, <1>5, StepEffects

\* No operation loses a memory behind the user's back: an id leaves the store
\* by a hard delete, by the compaction of a forgotten or superseded record, or
\* because a remember merged its record into one with the same key.
THEOREM OnlyDeletionLoses == Spec => OnlyDeletionLosesMemories
<1>1. TypeOK /\ [Next]_vars => [\A m \in store.memories : Accounted(m)]_vars
    BY StepAccounts DEF TypeOK
<1>2. QED
    BY <1>1, TypeCorrect, PTL DEF Spec, OnlyDeletionLosesMemories, Accounted

-----------------------------------------------------------------------------
(* Forgetting.                                                             *)

\* Records are numbered in the order in which they were appended, so a record
\* of a batch is never first in its group when the store has one of its key.
BornInOrder == \A m \in store.memories : m.born <= store.births

\* The records of a batch are numbered after those of the store.
LEMMA BatchIsBornLater ==
    ASSUME NEW s \in Store, NEW inputs \in Seq(RememberedInput), NEW n \in News(s, inputs)
    PROVE  n.born \in Nat /\ s.births < n.born /\ n.born <= s.births + Len(inputs)
<1>1. PICK i \in DOMAIN inputs : n = RememberedMemory(inputs[i], s.births + i)
    BY DEF News
<1>2. i \in 1..Len(inputs) /\ Len(inputs) \in Nat /\ s.births \in Nat
    BY DEF Store
<1>3. n.born = s.births + i
    BY <1>1 DEF RememberedMemory
<1>4. QED
    BY <1>2, <1>3

\* Every step of the engine keeps the numbers in order,
LEMMA BornInOrderInductive ==
    ASSUME store \in Store, BornInOrder, [Next]_vars
    PROVE  BornInOrder'
<1>0. /\ store \in Store /\ store.births \in Nat
      /\ \A m \in store.memories : m.born \in Nat /\ m.born <= store.births
    BY DEF Store, Memory, BornInOrder
<1> SUFFICES ASSUME NEW n \in store'.memories PROVE n.born <= store'.births
    BY DEF BornInOrder
<1>1. CASE ChangesInPlace \/ Edits
    BY <1>0, <1>1, QuietlyMaps, RekeysMaps, MapsDistinct DEF ChangesInPlace, Edits, Keeps
<1>2. CASE Appends
    BY <1>0, <1>2 DEF Appends
<1>3. CASE Supersedes
  <2>1. PICK marked : \E memory \in Memory :
            /\ MapsQuietly(store.memories, marked)
            /\ memory.born = store.births + 1 /\ store'.births = store.births + 1
            /\ store'.memories = marked \cup {memory}
      BY <1>3 DEF Supersedes
  <2>2. \A k \in marked : \E m \in store.memories : Keeps(m, k)
      BY <2>1, QuietlyMaps, MapsDistinct
  <2>3. QED
      BY <1>0, <2>1, <2>2 DEF Keeps
<1>4. CASE Removes
    BY <1>0, <1>4 DEF Removes
<1>5. CASE Rebuilds
  <2>1. PICK inputs \in Seq(RememberedInput) :
            /\ store'.memories = BuildMemoryStore(store, inputs).memories
            /\ store'.births = store.births + Len(inputs)
      BY <1>5 DEF Rebuilds
  <2>2. PICK m \in store.memories \cup News(store, inputs) : n.born = m.born
      BY <1>0, <2>1, BuildKeeps DEF MergedFrom, Keeps, Stays
  <2>3. Len(inputs) \in Nat
      OBVIOUS
  <2>4. QED
      BY <1>0, <2>1, <2>2, <2>3, BatchIsBornLater
<1>6. CASE UNCHANGED vars
    BY <1>0, <1>6 DEF vars
<1>7. QED
    BY <1>1, <1>2, <1>3, <1>4, <1>5, <1>6, StepEffects

\* so they are in every store the engine returns.
LEMMA BornInOrderHolds == Spec => []BornInOrder
<1>1. Init => BornInOrder
    BY DEF Init, EmptyStore, BornInOrder
<1>2. TypeOK /\ BornInOrder /\ [Next]_vars => BornInOrder'
    BY BornInOrderInductive DEF TypeOK
<1>3. QED
    BY <1>1, <1>2, TypeCorrect, PTL DEF Spec

\* A remember keeps a forgotten memory forgotten: what the batch says about it
\* is merged into the forgotten record, which is older.
LEMMA RebuildKeepsForgotten ==
    ASSUME IdsDetermineKeys, TypeOK, IdInvariant, BornInOrder, Rebuilds,
           NEW m \in store.memories, NEW n \in store'.memories,
           n.id = m.id, m.state = "forgotten"
    PROVE  n.state \in Retired
<1>0. store \in Store /\ Distinct(store.memories) /\ KeepsKeys(store.memories, DerivedInput)
    BY IdsOf DEF TypeOK
<1>1. PICK inputs \in Seq(RememberedInput) :
          /\ \A i \in DOMAIN inputs : inputs[i] \in DerivedInput
          /\ store'.memories = BuildMemoryStore(store, inputs).memories
    BY DEF Rebuilds
<1> DEFINE all == store.memories \cup News(store, inputs)
<1>2. PICK first \in all : MergedFrom(all, first, n)
    BY <1>0, <1>1, BuildKeeps
<1>3. first.id = m.id
    BY <1>2 DEF MergedFrom, Keeps, Stays
<1>4. first.key = m.key
  <2>1. OneKeyPerId(DerivedInput)
      BY DEF IdsDetermineKeys, OneKeyPerId
  <2>2. QED
      BY <1>0, <1>1, <1>3, <2>1, SameIdSameKey
<1>5. first.born <= m.born
    BY <1>2, <1>4 DEF MergedFrom
<1>6. first \notin News(store, inputs)
  <2>1. m.born \in Nat /\ m.born <= store.births /\ store.births \in Nat
      BY <1>0 DEF BornInOrder, Store, Memory
  <2>2. QED
      BY <1>0, <1>5, <2>1, BatchIsBornLater
<1>7. first = m
    BY <1>0, <1>3, <1>6 DEF Distinct
<1>8. QED
    BY <1>2, <1>7 DEF MergedFrom, Retired

\* Only the user's own edit, and weakening (see ForgottenStaysForgotten), can
\* put a forgotten memory back into use while it stays in the store: no
\* merging, decay, reinforcement, correction or relation does.
THEOREM OnlyEditRevives ==
    ASSUME IdsDetermineKeys
    PROVE  Spec => OnlyEditRevivesForgotten
<1> DEFINE Unrevived ==
        \A m \in store.memories, n \in store'.memories :
            n.id = m.id /\ m.state = "forgotten"
                /\ last'.op \notin {"update_memory", "weaken_memory"} =>
                n.state \in {"forgotten", "superseded"}
<1>1. ASSUME TypeOK, IdInvariant, BornInOrder, Next PROVE Unrevived
  <2> SUFFICES ASSUME NEW m \in store.memories, NEW n \in store'.memories,
                      n.id = m.id, m.state = "forgotten",
                      last'.op \notin {"update_memory", "weaken_memory"}
               PROVE  n.state \in Retired
      BY DEF Retired
  <2>0. Distinct(store.memories)
      BY <1>1, IdsOf
  <2>1. CASE ChangesInPlace
      BY <2>0, <2>1, QuietlyStaysRetired DEF ChangesInPlace
  <2>2. CASE Edits
      BY <2>2 DEF Edits
  <2>3. CASE Appends
      BY <2>0, <2>3 DEF Appends, Distinct, Retired
  <2>4. CASE Supersedes
    <3>1. PICK marked : \E memory \in Memory :
              /\ MapsQuietly(store.memories, marked)
              /\ memory.id \in FreshId
              /\ store'.memories = marked \cup {memory}
        BY <2>4 DEF Supersedes, IdsDetermineKeys
    <3>2. n \in marked
        BY <3>1 DEF FreshId, Has
    <3>3. QED
        BY <2>0, <3>1, <3>2, QuietlyStaysRetired
  <2>5. CASE Removes
      BY <2>0, <2>5 DEF Removes, Distinct, Retired
  <2>6. CASE Rebuilds
      BY <1>1, <2>6, RebuildKeepsForgotten
  <2>7. QED
      BY <1>1, <2>1, <2>2, <2>3, <2>4, <2>5, <2>6, StepEffects DEF TypeOK
<1>2. TypeOK /\ IdInvariant /\ BornInOrder /\ [Next]_vars => [Unrevived]_vars
    BY <1>1
<1>3. QED
    BY <1>2, TypeCorrect, IdsAreKept, BornInOrderHolds, PTL DEF Spec, OnlyEditRevivesForgotten

-----------------------------------------------------------------------------
(* Supersession.                                                           *)

\* Callers relate memories by other types than supersession.
RelatedOnly == CallerRelation \subseteq {"related"}

\* What an operation does to the relations, action by action.
LEMMA MirroredPreserved ==
    ASSUME RelatedOnly, TypeOK, SupersessionMirrored, [Next]_vars
    PROVE  SupersessionMirrored'
<1> USE InputAssumption
<1>0. store \in Store /\ store.relations \in SUBSET Relation /\ Mirrored(store.relations)
    BY DEF TypeOK, Store, SupersessionMirrored, Mirrored
<1> SUFFICES Mirrored(store'.relations)
    BY DEF SupersessionMirrored, Mirrored
<1>1. CASE Create
    BY <1>0, <1>1, CreateRelations DEF Create, Commit
<1>2. CASE Update \/ Forget \/ Weaken \/ Correct
  <2>1. PICK id \in CallerId :
            \/ \E patch \in Patch : store' = UpdateMemory(store, id, patch).store
            \/ store' = ForgetMemory(store, id).store
            \/ store' = WeakenMemory(store, id).store
            \/ store' = CreateCorrection(store, id).store
      BY <1>2 DEF Update, Forget, Weaken, Correct, Commit
  <2>2. ASSUME NEW patch \in Patch PROVE UpdateMemory(store, id, patch).store.relations = store.relations
      BY <1>0, ActionRelations DEF UpdateMemory, ApplyMemoryAction, MapMemories, Outcome
  <2>3. ForgetMemory(store, id).store.relations = store.relations
      BY <1>0, ActionRelations DEF ForgetMemory, ApplyMemoryAction, MapMemories, Outcome
  <2>4. WeakenMemory(store, id).store.relations = store.relations
      BY <1>0, ActionRelations DEF WeakenMemory, ApplyMemoryAction, MapMemories, Outcome
  <2>5. CreateCorrection(store, id).store.relations = store.relations
      BY <1>0, ActionRelations DEF CreateCorrection, ApplyMemoryAction, MapMemories, Outcome
  <2>6. QED
      BY <1>0, <2>1, <2>2, <2>3, <2>4, <2>5
<1>3. CASE Delete
  <2>1. PICK id \in CallerId : store' = HardDelete(store, id).store
      BY <1>3 DEF Delete, Commit
  <2>2. store'.relations =
            {r \in store.relations : r.from \notin {id} /\ r.to \notin {id}}
      BY <1>0, <2>1 DEF HardDelete, Outcome, Log, Store
  <2>3. QED
      BY <1>0, <2>2, RestMirrored
<1>4. CASE Reinforce \/ Assimilate
  <2>1. PICK id \in CallerId, evidence \in Evidence :
            \/ store' = ReinforceMemory(store, id, evidence).store
            \/ store' = AssimilateEvidence(store, id, evidence).store
      BY <1>4 DEF Reinforce, Assimilate, Commit
  <2> DEFINE more == store.relations \cup
                 {[from |-> id, to |-> EvidenceTarget(id, evidence), type |-> "related"]}
  <2>2. ReinforceMemory(store, id, evidence).store.relations \in {store.relations, more}
    <3> DEFINE memories == {IF m.id = id THEN [m EXCEPT !.strength = Clamp(@ + Gain["reinforce"])]
                            ELSE m : m \in store.memories}
               outcome == Outcome(Log([store EXCEPT !.memories = memories], id),
                                  "reinforce_memory", Has(store, id), 1)
    <3>0. outcome = Outcome(Log([store EXCEPT !.memories = memories], id),
                            "reinforce_memory", Has(store, id), 1)
        OBVIOUS
    <3>1. ReinforceMemory(store, id, evidence)
              = IF outcome.accepted
                THEN AddRelation(outcome, id, EvidenceTarget(id, evidence), "related")
                ELSE outcome
        BY DEF ReinforceMemory, ApplyMemoryAction, MapMemories
    <3>2. outcome.store.relations = store.relations
        BY <1>0, ActionRelations DEF Outcome
    <3> HIDE DEF outcome, memories
    <3>3. AddRelation(outcome, id, EvidenceTarget(id, evidence), "related").store.relations = more
        BY <1>0, <3>0, EvidenceRelations, SMTT(30)
    <3> HIDE DEF more
    <3>4. QED
        BY <3>1, <3>2, <3>3
  <2>3. AssimilateEvidence(store, id, evidence).store.relations \in {store.relations, more}
    <3> DEFINE memories == {IF m.id = id THEN [m EXCEPT !.strength = Clamp(@ + Gain["assimilate"]), !.age = 0,
                                             !.foreign = @ \/ m.key \notin SchemaKey]
                            ELSE m : m \in store.memories}
               outcome == Outcome(Log([store EXCEPT !.memories = memories], id),
                                  "assimilate_evidence", Has(store, id), 1)
    <3>0. outcome = Outcome(Log([store EXCEPT !.memories = memories], id),
                            "assimilate_evidence", Has(store, id), 1)
        OBVIOUS
    <3>1. AssimilateEvidence(store, id, evidence)
              = IF outcome.accepted
                THEN AddRelation(outcome, id, EvidenceTarget(id, evidence), "related")
                ELSE outcome
        BY DEF AssimilateEvidence, ApplyMemoryAction, MapMemories
    <3>2. outcome.store.relations = store.relations
        BY <1>0, ActionRelations DEF Outcome
    <3> HIDE DEF outcome, memories
    <3>3. AddRelation(outcome, id, EvidenceTarget(id, evidence), "related").store.relations = more
        BY <1>0, <3>0, EvidenceRelations, SMTT(30)
    <3> HIDE DEF more
    <3>4. QED
        BY <3>1, <3>2, <3>3
  <2>4. Mirrored(more)
      BY <1>0, RelatedMirrored
  <2>5. QED
      BY <1>0, <2>1, <2>2, <2>3, <2>4
<1>6. CASE Accommodate
  <2>1. PICK input \in AccommodateInput, evidence \in Evidence :
            store' = AccommodateSchema(store, input, evidence).store
      BY <1>6 DEF Accommodate, Commit
  <2> DEFINE created == CreateMemory(store, input)
  <2>2. created.store \in Store /\ created.store.relations = store.relations
      BY <1>0, CreateType, CreateRelations DEF OutcomeType
  <2>3. \/ store' = created.store
        \/ store' = WithRelation(created.store, input.id, EvidenceTarget(input.id, evidence), "related")
    <3> HIDE DEF created
    <3>1. store' = (IF created.accepted
                    THEN AddRelation(Outcome(created.store, "accommodate_schema", TRUE, 2), input.id,
                                     EvidenceTarget(input.id, evidence), "related")
                    ELSE created).store
        BY <2>1 DEF AccommodateSchema, created
    <3>2. QED
        BY <3>1 DEF AddRelation, Outcome
  <2> HIDE DEF created
  <2>4. WithRelation(created.store, input.id, EvidenceTarget(input.id, evidence), "related").relations
            = store.relations \cup
                  {[from |-> input.id, to |-> EvidenceTarget(input.id, evidence), type |-> "related"]}
      BY <2>2, Related
  <2>5. Mirrored(store.relations \cup
            {[from |-> input.id, to |-> EvidenceTarget(input.id, evidence), type |-> "related"]})
      BY <1>0, RelatedMirrored
  <2>6. QED
      BY <1>0, <2>2, <2>3, <2>4, <2>5
<1>7. CASE Supersede
  <2>1. PICK id \in CallerId, by \in ReplacementId \cup FreshId :
            store' = SupersedeMemory(store, id, by).store
      BY <1>7 DEF Supersede, Commit
  <2>2. by \in MemoryId
      BY DEF FreshId
  <2> DEFINE marked == [store EXCEPT !.memories = {IF m.id = id THEN Superseded(m, by) ELSE m : m \in @}]
             replacement == Replacement(ReadMemory(store, id), by, store.births + 1)
             next == Log(AppendMemory(marked, replacement), id)
  <2>3. CASE store' = WithoutSnapshots(store)
      BY <1>0, <2>3 DEF WithoutSnapshots, Store
  <2>4. CASE store' = WithRelation(WithRelation(next, by, id, "supersedes"), id, by, "superseded_by")
    <3>1. next.relations = store.relations /\ "relations" \in DOMAIN next
        BY <1>0 DEF Log, AppendMemory, Store
    <3>2. QED
        BY <1>0, <2>2, <2>4, <3>1, PairMirrored
  <2>5. QED
      BY <2>1, <2>3, <2>4 DEF SupersedeMemory, MapMemories, Outcome
<1>8. CASE Relate
  <2>1. PICK from \in CallerId, to \in CallerId :
            store' = RelateMemories(store, from, to, "related").store
      BY <1>8 DEF Relate, Commit, RelatedOnly
  <2>2. Log(store, from) \in Store /\ Log(store, from).relations = store.relations
      BY <1>0 DEF Log, Store
  <2>3. \/ store' = WithoutSnapshots(store)
        \/ store' = WithRelation(Log(store, from), from, to, "related")
      BY <2>1 DEF RelateMemories, Outcome
  <2>4. WithoutSnapshots(store).relations = store.relations
      BY <1>0 DEF WithoutSnapshots, Store
  <2>5. WithRelation(Log(store, from), from, to, "related").relations
            = store.relations \cup {[from |-> from, to |-> to, type |-> "related"]}
      BY <2>2, Related
  <2>6. Mirrored(store.relations \cup {[from |-> from, to |-> to, type |-> "related"]})
      BY <1>0, RelatedMirrored
  <2>7. QED
      BY <1>0, <2>3, <2>4, <2>5, <2>6
<1>9. CASE LinkToEvidence
  <2>1. PICK from \in CallerId, to \in Evidence :
            store' = LinkIntentToEvidence(store, from, to).store
      BY <1>9 DEF LinkToEvidence, Commit
  <2>2. Log(store, from) \in Store /\ Log(store, from).relations = store.relations
      BY <1>0 DEF Log, Store
  <2>3. \/ store' = WithoutSnapshots(store)
        \/ store' = WithRelation(Log(store, from), from, to, "related")
      BY <2>1 DEF LinkIntentToEvidence, Outcome
  <2>4. WithoutSnapshots(store).relations = store.relations
      BY <1>0 DEF WithoutSnapshots, Store
  <2>5. WithRelation(Log(store, from), from, to, "related").relations
            = store.relations \cup {[from |-> from, to |-> to, type |-> "related"]}
      BY <2>2, Related
  <2>6. Mirrored(store.relations \cup {[from |-> from, to |-> to, type |-> "related"]})
      BY <1>0, RelatedMirrored
  <2>7. QED
      BY <1>0, <2>3, <2>4, <2>5, <2>6
<1>10. CASE RememberAPacket \/ RememberASchema \/ RememberIntents
  <2>1. \/ store' = store
        \/ \E inputs, id : store' = Log(BuildMemoryStore(store, inputs), id)
    <3>1. CASE RememberAPacket
        BY <3>1 DEF RememberAPacket, RememberPacket, Outcome, Commit
    <3>2. CASE RememberASchema
        BY <3>2 DEF RememberASchema, RememberSchema, RememberNoSchema, Outcome, Commit
    <3>3. CASE RememberIntents
        BY <3>3 DEF RememberIntents, RememberIntent, Outcome, Commit
    <3>4. QED
        BY <1>10, <3>1, <3>2, <3>3
  <2>2. QED
      BY <1>0, <2>1, BuildRelations
<1>11. CASE Snapshot \/ Tick
    BY <1>0, <1>11 DEF Snapshot, Tick, AttachSnapshot, AgeStore, Outcome, Commit, Store
<1>12. CASE Compact
  <2>1. store'.relations =
            {r \in store.relations : r.from \notin ReclaimableIds(store) /\ r.to \notin ReclaimableIds(store)}
      BY <1>0, <1>12 DEF Compact, CompactStore, Outcome, Commit, Store
  <2>2. QED
      BY <1>0, <2>1, RestMirrored
<1>13. CASE UNCHANGED vars
    BY <1>0, <1>13 DEF vars
<1>14. QED
    BY <1>1, <1>2, <1>3, <1>4, <1>6, <1>7, <1>8, <1>9, <1>10, <1>11, <1>12, <1>13 DEF Next

\* supersedeMemory writes both directions, and deletion, compaction and the
\* rebuilding of the store take both or none: as long as callers relate memories
\* by other types, a supersedes relation always has its mirror.
THEOREM SupersessionIsMirrored ==
    ASSUME RelatedOnly
    PROVE  Spec => []SupersessionMirrored
<1>1. Init => SupersessionMirrored
    BY DEF Init, EmptyStore, SupersessionMirrored
<1>2. TypeOK /\ SupersessionMirrored /\ [Next]_vars => SupersessionMirrored'
    BY MirroredPreserved
<1>3. QED
    BY <1>1, <1>2, TypeCorrect, PTL DEF Spec

-----------------------------------------------------------------------------
(* Relations stay closed.                                                  *)

\* Relations go on to name memories if none is added and no memory leaves.
LEMMA ClosedKept ==
    ASSUME Closed(store), store'.relations \subseteq store.relations,
           \A m \in store.memories : \E n \in store'.memories : n.id = m.id
    PROVE  Closed(store')
<1>1. \A id : Has(store, id) => Has(store', id)
    BY Zenon DEF Has
<1>2. QED
    BY <1>1 DEF Closed

\* What a removal takes out of the relations is what names a removed memory.
LEMMA RemovalKeepsClosed ==
    ASSUME Closed(store), NEW removed,
           \A m \in store.memories : m.id \notin removed => m \in store'.memories,
           store'.relations
               = {r \in store.relations : r.from \notin removed /\ r.to \notin removed}
    PROVE  Closed(store')
<1>1. \A id : Has(store, id) /\ id \notin removed => Has(store', id)
    BY Zenon DEF Has
<1>2. QED
    BY <1>1 DEF Closed

\* Compaction takes out the relations of every id that a reclaimable record has.
LEMMA CompactKeepsClosed ==
    ASSUME store \in Store, Closed(store), store' = CompactStore(store)
    PROVE  Closed(store')
<1> DEFINE removed == ReclaimableIds(store)
<1>1. store'.relations
          = {r \in store.relations : r.from \notin removed /\ r.to \notin removed}
    BY DEF CompactStore, Store
<1>2. \A m \in store.memories : m.id \notin removed => m \in store'.memories
    BY DEF CompactStore, Store, ReclaimableIds
<1> HIDE DEF removed
<1>3. QED
    BY <1>1, <1>2, RemovalKeepsClosed

\* A hard delete takes the relations of the memory along.
LEMMA DeleteKeepsClosed ==
    ASSUME store \in Store, Closed(store), NEW id, store' = HardDelete(store, id).store
    PROVE  Closed(store')
<1>1. store'.relations
          = {r \in store.relations : r.from \notin {id} /\ r.to \notin {id}}
    BY DEF HardDelete, Outcome, Log, Store
<1>2. \A m \in store.memories : m.id \notin {id} => m \in store'.memories
    BY DEF HardDelete, Outcome, Log, Store
<1>3. QED
    BY <1>1, <1>2, RemovalKeepsClosed

\* Both ends of the relations that supersedeMemory adds are in the store.
LEMMA SupersedeKeepsClosed ==
    ASSUME store \in Store, Closed(store), NEW id \in MemoryId \cup {NoMemory}, NEW by \in MemoryId,
           store' = SupersedeMemory(store, id, by).store,
           \A m \in store.memories : \E n \in store'.memories : n.id = m.id
    PROVE  Closed(store')
<1> DEFINE replacement == Replacement(ReadMemory(store, id), by, store.births + 1)
<1>1. CASE ~ Has(store, id)
  <2>1. store'.relations \subseteq store.relations
      BY <1>1 DEF SupersedeMemory, WithoutSnapshots, Outcome, Store
  <2>2. QED
      BY <2>1, ClosedKept
<1>2. CASE Has(store, id)
  <2>1. /\ replacement \in store'.memories
        /\ store'.relations = store.relations
               \cup {[from |-> by, to |-> id, type |-> "supersedes"],
                     [from |-> id, to |-> by, type |-> "superseded_by"]}
    <3> HIDE DEF replacement
    <3>1. store' = WithRelation(WithRelation(
                       Log(AppendMemory(MapMemories(store, id, LAMBDA m : Superseded(m, by)),
                                        replacement), id),
                       by, id, "supersedes"), id, by, "superseded_by")
        BY <1>2 DEF SupersedeMemory, Outcome, replacement
    <3>2. QED
        BY <3>1 DEF WithRelation, Log, AppendMemory, MapMemories, Store
  <2>2. ReadMemory(store, id) \in Memory
    <3> DEFINE group == {m \in store.memories : m.id = id}
    <3>1. group \in SUBSET Memory /\ group # {}
        BY <1>2 DEF Has, Store
    <3>2. QED
        BY <3>1, FirstMember DEF ReadMemory
  <2>3. replacement.id = by
      BY <2>2 DEF Replacement, Memory
  <2> HIDE DEF replacement
  <2>4. \A i : Has(store, i) => Has(store', i)
      BY Zenon DEF Has
  <2>5. Has(store', by) /\ Has(store', id)
      BY <1>2, <2>1, <2>3, <2>4 DEF Has
  <2>6. QED
      BY <2>1, <2>4, <2>5 DEF Closed
<1>3. QED
    BY <1>1, <1>2

\* Every operation but those that relate a memory to what its caller names.
LEMMA StepKeepsClosed ==
    ASSUME store \in Store, Closed(store), Next, last'.op \notin OpensRelations
    PROVE  Closed(store')
<1> USE InputAssumption
<1>1. last'.op \notin {"delete_memory", "compact"} =>
          \A m \in store.memories : \E n \in store'.memories : n.id = m.id
    BY StepAccounts DEF Accounted, OpensRelations
<1>2. ASSUME store'.relations \subseteq store.relations,
             last'.op \notin {"delete_memory", "compact"}
      PROVE  Closed(store')
    BY <1>1, <1>2, ClosedKept
<1>3. CASE Create
  <2>1. PICK input \in CreateInput : Commit(CreateMemory(store, input))
      BY <1>3 DEF Create
  <2>2. store'.relations = store.relations /\ last'.op = "create_memory"
      BY <2>1, CreateRelations DEF Commit, CreateMemory, Outcome
  <2>3. QED
      BY <1>2, <2>2
<1>4. CASE Update
  <2>1. PICK id \in CallerId, patch \in Patch : Commit(UpdateMemory(store, id, patch))
      BY <1>4 DEF Update
  <2>2. store'.relations = store.relations /\ last'.op = "update_memory"
      BY <2>1, ActionRelations DEF Commit, UpdateMemory, ApplyMemoryAction, MapMemories, Outcome
  <2>3. QED
      BY <1>2, <2>2
<1>5. CASE Delete
    BY <1>5, DeleteKeepsClosed DEF Delete, Commit
<1>6. CASE Forget
  <2>1. PICK id \in CallerId : Commit(ForgetMemory(store, id))
      BY <1>6 DEF Forget
  <2>2. store'.relations = store.relations /\ last'.op = "forget_memory"
      BY <2>1, ActionRelations DEF Commit, ForgetMemory, ApplyMemoryAction, MapMemories, Outcome
  <2>3. QED
      BY <1>2, <2>2
<1>7. CASE Weaken
  <2>1. PICK id \in CallerId : Commit(WeakenMemory(store, id))
      BY <1>7 DEF Weaken
  <2>2. store'.relations = store.relations /\ last'.op = "weaken_memory"
      BY <2>1, ActionRelations DEF Commit, WeakenMemory, ApplyMemoryAction, MapMemories, Outcome
  <2>3. QED
      BY <1>2, <2>2
<1>8. CASE Correct
  <2>1. PICK id \in CallerId : Commit(CreateCorrection(store, id))
      BY <1>8 DEF Correct
  <2>2. store'.relations = store.relations /\ last'.op = "correction_record"
      BY <2>1, ActionRelations DEF Commit, CreateCorrection, ApplyMemoryAction, MapMemories, Outcome
  <2>3. QED
      BY <1>2, <2>2
<1>9. CASE Accommodate
  <2>1. PICK input \in AccommodateInput, evidence \in Evidence :
            Commit(AccommodateSchema(store, input, evidence))
      BY <1>9 DEF Accommodate
  <2>2. store' = CreateMemory(store, input).store /\ last'.op = "create_memory"
      BY <2>1 DEF Commit, AccommodateSchema, AddRelation, CreateMemory, Outcome, OpensRelations
  <2>3. QED
      BY <1>2, <2>2, CreateRelations
<1>10. CASE Supersede
  <2>1. PICK id \in CallerId, by \in MemoryId : Commit(SupersedeMemory(store, id, by))
      BY <1>10 DEF Supersede, FreshId
  <2>2. last'.op = "supersede_memory"
      BY <2>1 DEF Commit, SupersedeMemory, Outcome
  <2>3. QED
      BY <1>1, <2>1, <2>2, SupersedeKeepsClosed DEF Commit
<1>11. CASE Relate
  <2>1. PICK from \in CallerId, to \in CallerId, type \in CallerRelation :
            Commit(RelateMemories(store, from, to, type))
      BY <1>11 DEF Relate
  <2>2. last'.op = "relate_memories"
      BY <2>1 DEF Commit, RelateMemories, Outcome
  <2>3. CASE Has(store, from) /\ Has(store, to)
    <3>1. /\ store'.memories = store.memories
          /\ store'.relations = store.relations \cup {[from |-> from, to |-> to, type |-> type]}
        BY <2>1, <2>3 DEF Commit, RelateMemories, WithRelation, Log, Outcome, Store
    <3>2. \A id : Has(store', id) <=> Has(store, id)
        BY <3>1 DEF Has
    <3>3. QED
        BY <2>3, <3>1, <3>2 DEF Closed
  <2>4. CASE ~ (Has(store, from) /\ Has(store, to))
    <3>1. store'.relations = store.relations
        BY <2>1, <2>4 DEF Commit, RelateMemories, WithoutSnapshots, Outcome, Store
    <3>2. QED
        BY <1>2, <2>2, <3>1
  <2>5. QED
      BY <2>3, <2>4
<1>12. CASE Reinforce \/ Assimilate \/ LinkToEvidence
  <2>1. Reinforce => last'.op = "reinforce_memory"
      BY DEF Reinforce, Commit, ReinforceMemory, ApplyMemoryAction, AddRelation, Outcome
  <2>2. Assimilate => last'.op = "assimilate_evidence"
      BY DEF Assimilate, Commit, AssimilateEvidence, ApplyMemoryAction, AddRelation, Outcome
  <2>3. LinkToEvidence => last'.op = "link_intent_to_evidence"
      BY DEF LinkToEvidence, Commit, LinkIntentToEvidence, Outcome
  <2>4. QED
      BY <1>12, <2>1, <2>2, <2>3 DEF OpensRelations
<1>13. CASE RememberAPacket \/ RememberASchema \/ RememberIntents
  <2>1. RememberAPacket => last'.op = "remember_packet"
      BY DEF RememberAPacket, Commit, RememberPacket, Outcome
  <2>2. RememberASchema => last'.op = "remember_schema"
    <3>1. Commit(RememberNoSchema(store)) => last'.op = "remember_schema"
        BY DEF Commit, RememberNoSchema, Outcome
    <3>2. \A input : Commit(RememberSchema(store, input)) => last'.op = "remember_schema"
        BY DEF Commit, RememberSchema, Outcome
    <3>3. QED
        BY <3>1, <3>2 DEF RememberASchema
  <2>3. RememberIntents => last'.op = "remember_intent"
      BY DEF RememberIntents, Commit, RememberIntent, Outcome
  <2>4. QED
      BY <1>13, <2>1, <2>2, <2>3 DEF OpensRelations, RememberSteps
<1>14. CASE Snapshot \/ Tick
    BY <1>2, <1>14 DEF Snapshot, Tick, AttachSnapshot, AgeStore, Outcome, Commit, Store
<1>15. CASE Compact
    BY <1>15, CompactKeepsClosed DEF Compact, Commit, Outcome
<1>16. QED
    BY <1>3, <1>4, <1>5, <1>6, <1>7, <1>8, <1>9, <1>10, <1>11, <1>12, <1>13, <1>14, <1>15 DEF Next

\* Creating, editing, deleting, compacting, relating and superseding memories
\* leave no relation that names a memory the store does not have, if there was
\* none; for every sequence of calls, also where two records share an id.
THEOREM RelationsStay == Spec => RelationsStayClosed
<1>1. TypeOK /\ [Next]_vars =>
          [Closed(store) /\ last'.op \notin OpensRelations => Closed(store')]_vars
    BY StepKeepsClosed DEF TypeOK
<1>2. QED
    BY <1>1, TypeCorrect, PTL DEF Spec, RelationsStayClosed

-----------------------------------------------------------------------------
(* Refused calls.                                                          *)

\* No refused call of a step changes a memory or adds a relation.
LEMMA StepHarmless ==
    ASSUME store \in Store, Next
    PROVE  last'.accepted \/ /\ store'.memories = store.memories
                             /\ store'.relations \subseteq store.relations
<1>1. ASSUME NEW outcome, Harmless(store, outcome), Commit(outcome)
      PROVE  last'.accepted \/ /\ store'.memories = store.memories
                               /\ store'.relations \subseteq store.relations
    BY <1>1 DEF Harmless, Commit
<1>2. CASE Create \/ Update \/ Delete \/ Forget \/ Weaken \/ Correct
    BY <1>1, <1>2, CreateHarmless, UpdateHarmless, DeleteHarmless, ForgetHarmless,
       WeakenHarmless, CorrectHarmless, Zenon
       DEF Create, Update, Delete, Forget, Weaken, Correct
<1>3. CASE Reinforce \/ Assimilate \/ Accommodate
    BY <1>1, <1>3, ReinforceHarmless, AssimilateHarmless, AccommodateHarmless, Zenon
       DEF Reinforce, Assimilate, Accommodate
<1>4. CASE Supersede \/ Relate \/ LinkToEvidence
    BY <1>1, <1>4, RelationsHarmless, Zenon DEF Supersede, Relate, LinkToEvidence
<1>5. CASE RememberAPacket \/ RememberASchema \/ RememberIntents
    BY <1>1, <1>5, RememberHarmless, Zenon
       DEF RememberAPacket, RememberASchema, RememberIntents
<1>6. CASE Snapshot \/ Compact \/ Tick
    BY <1>6 DEF Snapshot, Compact, Tick, Outcome, Commit
<1>7. QED
    BY <1>2, <1>3, <1>4, <1>5, <1>6 DEF Next

\* A call that is refused (an id that is taken or unknown, an end of a relation
\* that does not exist, a blank id, a packet below the threshold, a result
\* without intents) changes no memory and adds no relation.
THEOREM RefusalsAddNothing == Spec => RejectedAddsNothing
<1>1. TypeOK /\ [Next]_vars =>
          [last'.accepted \/ /\ store'.memories = store.memories
                             /\ store'.relations \subseteq store.relations]_vars
    BY StepHarmless DEF TypeOK
<1>2. QED
    BY <1>1, TypeCorrect, PTL DEF Spec, RejectedAddsNothing

-----------------------------------------------------------------------------
(* Finite stores.                                                          *)

\* The image of a finite set is finite.
LEMMA ImageFinite ==
    ASSUME NEW S, IsFiniteSet(S), NEW f
    PROVE  IsFiniteSet({f[x] : x \in S})
<1> DEFINE T == {f[x] : x \in S}
           g == [x \in S |-> f[x]]
<1>1. g \in Surjection(S, T)
    BY DEF Surjection
<1>2. QED
    BY <1>1, FS_Surjection

\* Records changed in place are no more than there were.
LEMMA MapsFinite ==
    ASSUME NEW old, IsFiniteSet(old), NEW new, Maps(old, new)
    PROVE  IsFiniteSet(new)
<1>1. PICK f : new = {f[m] : m \in old}
    BY DEF Maps
<1>2. QED
    BY <1>1, ImageFinite

\* A rebuilt store is made of the records that were there and the batch.
LEMMA BuildFinite ==
    ASSUME NEW s \in Store, IsFiniteSet(s.memories), NEW inputs \in Seq(RememberedInput)
    PROVE  IsFiniteSet(BuildMemoryStore(s, inputs).memories)
<1> DEFINE news == News(s, inputs)
           all == s.memories \cup news
           new == [i \in DOMAIN inputs |-> RememberedMemory(inputs[i], s.births + i)]
           merged == [m \in all |-> Merged(SameKey(m, all))]
           decayed == [m \in MergeDuplicates(all) |-> Decayed(m)]
<1>1. IsFiniteSet(DOMAIN inputs)
  <2>1. DOMAIN inputs = 1..Len(inputs) /\ Len(inputs) \in Nat
      OBVIOUS
  <2>2. IsFiniteSet(1..Len(inputs))
    <3>1. 1 \in Int /\ Len(inputs) \in Int
        BY <2>1
    <3>2. QED
        BY <3>1, FS_Interval
  <2>3. QED
      BY <2>1, <2>2
<1>2. IsFiniteSet(news)
  <2>1. news = {new[i] : i \in DOMAIN inputs}
      BY DEF News
  <2> HIDE DEF new, news
  <2>2. QED
      BY <1>1, <2>1, ImageFinite
<1>3. IsFiniteSet(all)
    BY <1>2, FS_Union
<1>4. IsFiniteSet(MergeDuplicates(all))
  <2>1. MergeDuplicates(all) = {merged[m] : m \in all}
      BY DEF MergeDuplicates
  <2> HIDE DEF merged, all
  <2>2. QED
      BY <1>3, <2>1, ImageFinite
<1>5. BuildMemoryStore(s, inputs).memories = {decayed[m] : m \in MergeDuplicates(all)}
    BY DEF BuildMemoryStore, News, Store
<1> HIDE DEF decayed, all
<1>6. QED
    BY <1>4, <1>5, ImageFinite

\* Every operation of the engine returns finitely many records.
LEMMA StepFinite ==
    ASSUME store \in Store, IsFiniteSet(store.memories), Next
    PROVE  IsFiniteSet(store'.memories)
<1>1. CASE ChangesInPlace \/ Edits
    BY <1>1, QuietlyMaps, RekeysMaps, MapsFinite DEF ChangesInPlace, Edits
<1>2. CASE Appends
    BY <1>2, FS_AddElement DEF Appends
<1>3. CASE Supersedes
  <2>1. PICK marked : \E memory \in Memory :
            /\ MapsQuietly(store.memories, marked)
            /\ store'.memories = marked \cup {memory}
      BY <1>3 DEF Supersedes
  <2>2. IsFiniteSet(marked)
      BY <2>1, QuietlyMaps, MapsFinite
  <2>3. QED
      BY <2>1, <2>2, FS_AddElement
<1>4. CASE Removes
  <2>1. store'.memories \in SUBSET store.memories
      BY <1>4 DEF Removes
  <2>2. QED
      BY <2>1, FS_Subset
<1>5. CASE Rebuilds
    BY <1>5, BuildFinite DEF Rebuilds
<1>6. QED
    BY <1>1, <1>2, <1>3, <1>4, <1>5, StepEffects

-----------------------------------------------------------------------------
(* What is held.                                                           *)

\* What was sealed, whatever became of the data on the way.
Original == held.digest[1]

Package == [kind : {"package"}, data : Data, label : Category,
            digest : Data \X Category, taken : SUBSET Memory]

Envelope == [kind : {"backup"}, data : Store, label : Key,
             digest : Store \X Key, taken : SUBSET Memory]

\* A digest is that of finitely many memories as they were taken out, with
\* relations among them only, and of a backup they are approved ones.
HeldSealed ==
    /\ held \in Package \cup Envelope
    /\ held.digest = Digest(Original, held.label)
    /\ held.taken = Original.memories /\ IsFiniteSet(held.taken)
    /\ Closed(Original)
    /\ held.kind = "backup" => \A m \in held.taken : m.state \in Approved

ExchangeInvariant ==
    /\ ExchangeTypeOK
    /\ IsFiniteSet(store.memories)
    /\ held # Nothing => HeldSealed
    /\ RestoredIsClosed

\* A package names its own memories in its relations.
LEMMA PackageSealed ==
    ASSUME store \in Store, IsFiniteSet(store.memories), NEW category \in Category,
           ExportPartialNamespace(category)
    PROVE  /\ HeldSealed' /\ held'.kind = "package"
           /\ Original'.memories \subseteq store.memories
<1> DEFINE memories == {m \in store.memories : CategoryOf[m.key] = category}
           ids == {m.id : m \in memories}
           data == NamespaceData(store, category)
<1>1. data = [memories |-> memories,
              relations |-> {r \in store.relations : r.from \in ids /\ r.to \in ids},
              logged |-> store.logged]
    BY DEF NamespaceData
<1>2. data \in Data /\ data.memories = memories
  <2> HIDE DEF data
  <2>1. QED
      BY <1>1 DEF Data, Store
<1>3. Closed(data)
  <2>1. \A r \in data.relations : r.from \in ids /\ r.to \in ids
    <3> HIDE DEF data, ids, memories
    <3>1. QED
        BY <1>1
  <2> HIDE DEF data
  <2>2. \A id \in ids : Has(data, id)
      BY <1>2 DEF Has
  <2>3. QED
      BY <2>1, <2>2 DEF Closed
<1>4. IsFiniteSet(memories)
    BY FS_Subset
<1>5. memories \subseteq store.memories /\ memories \in SUBSET Memory
    BY DEF Store
<1>6. held' = [kind |-> "package", data |-> data, label |-> category,
               digest |-> <<data, category>>, taken |-> data.memories]
    BY DEF ExportPartialNamespace, Sealed, Digest
<1> HIDE DEF data, memories
<1>7. Original' = data
    BY <1>6 DEF Original
<1>8. held' \in Package
    BY <1>2, <1>5, <1>6 DEF Package
<1>9. QED
    BY <1>2, <1>3, <1>4, <1>5, <1>6, <1>7, <1>8 DEF HeldSealed, Digest

\* A backup holds approved memories and the relations among them.
LEMMA BackupSealed ==
    ASSUME store \in Store, IsFiniteSet(store.memories), NEW key \in Key,
           EncryptMemoryBackup(key)
    PROVE  /\ HeldSealed' /\ held'.kind = "backup"
           /\ Original'.memories \subseteq store.memories
           /\ Original'.births = store.births
<1> DEFINE memories == {m \in store.memories : m.state \in Approved}
           ids == {m.id : m \in memories}
           data == ApprovedBackup(store)
<1>1. data = [store EXCEPT !.memories = memories,
                           !.relations = {r \in @ : r.from \in ids /\ r.to \in ids}]
    BY DEF ApprovedBackup
<1>2. data \in Store /\ data.memories = memories /\ data.births = store.births
  <2> HIDE DEF data
  <2>1. QED
      BY <1>1 DEF Store
<1>3. Closed(data)
  <2>1. \A r \in data.relations : r.from \in ids /\ r.to \in ids
    <3> HIDE DEF data, ids, memories
    <3>1. QED
        BY <1>1 DEF Store
  <2> HIDE DEF data
  <2>2. \A id \in ids : Has(data, id)
      BY <1>2 DEF Has
  <2>3. QED
      BY <2>1, <2>2 DEF Closed
<1>4. IsFiniteSet(memories)
    BY FS_Subset
<1>5. /\ memories \subseteq store.memories /\ memories \in SUBSET Memory
      /\ \A m \in memories : m.state \in Approved
    BY DEF Store
<1>6. held' = [kind |-> "backup", data |-> data, label |-> key,
               digest |-> <<data, key>>, taken |-> data.memories]
    BY DEF EncryptMemoryBackup, Sealed, Digest
<1> HIDE DEF data, memories
<1>7. Original' = data
    BY <1>6 DEF Original
<1>8. held' \in Envelope
    BY <1>2, <1>5, <1>6 DEF Envelope
<1>9. QED
    BY <1>2, <1>3, <1>4, <1>5, <1>6, <1>7, <1>8 DEF HeldSealed, Digest

\* What happens on the way changes the data, not the digest.
LEMMA TransitSealed ==
    ASSUME HeldSealed, InTransit
    PROVE  HeldSealed' /\ Original' = Original /\ held'.kind = held.kind
<1>1. PICK m \in held.taken :
          held' = [held EXCEPT !.data.memories = (@ \ {m}) \cup {[m EXCEPT !.state = "approved"]}]
    BY DEF InTransit
<1> DEFINE memories == (held.data.memories \ {m}) \cup {[m EXCEPT !.state = "approved"]}
           data == [held.data EXCEPT !.memories = memories]
<1>2. held' = [held EXCEPT !.data = data]
    BY <1>1
<1>3. memories \in SUBSET Memory
  <2>1. m \in Memory /\ held.data.memories \in SUBSET Memory
      BY DEF HeldSealed, Package, Envelope, Data, Store
  <2>2. [m EXCEPT !.state = "approved"] \in Memory
      BY <2>1 DEF Memory, MemoryState
  <2>3. QED
      BY <2>1, <2>2
<1> HIDE DEF memories
<1>4. /\ held \in Package => data \in Data
      /\ held \in Envelope => data \in Store
    BY <1>3 DEF Package, Envelope, Data, Store
<1> HIDE DEF data
<1>5. held' \in Package \cup Envelope
    BY <1>2, <1>4 DEF HeldSealed, Package, Envelope
<1>6. /\ held'.digest = held.digest /\ held'.label = held.label
      /\ held'.taken = held.taken /\ held'.kind = held.kind
    BY <1>2 DEF HeldSealed, Package, Envelope
<1>7. QED
    BY <1>5, <1>6 DEF HeldSealed, Original

-----------------------------------------------------------------------------
(* What an import and a restore do.                                        *)

\* Where the records of a package are put.
LEMMA PlacedShape ==
    ASSUME NEW to \in Store, NEW data \in Data, IsFiniteSet(data.memories), NEW m \in data.memories
    PROVE  LET n == Placed(to, data, m)
           IN /\ n \in Memory /\ n = [m EXCEPT !.born = n.born]
              /\ n.id = m.id /\ n.key = m.key
              /\ Has(to, m.id) =>
                     \E k \in to.memories : k = ReadMemory(to, m.id) /\ k.id = m.id /\ n.born = k.born
              /\ ~Has(to, m.id) =>
                     n.born = to.births
                         + Cardinality({k \in NewRecords(to, data) : k.born <= m.born})
<1> DEFINE n == Placed(to, data, m)
           earlier == {k \in NewRecords(to, data) : k.born <= m.born}
           born == IF Has(to, m.id) THEN ReadMemory(to, m.id).born
                   ELSE to.births + Cardinality(earlier)
<1>1. m \in Memory /\ to.births \in Nat
    BY DEF Data, Store
<1>2. Cardinality(earlier) \in Nat
  <2>1. earlier \in SUBSET data.memories
      BY DEF NewRecords
  <2>2. QED
      BY <2>1, FS_Subset, FS_CardinalityType
<1>3. Has(to, m.id) => ReadMemory(to, m.id) \in to.memories /\ ReadMemory(to, m.id).id = m.id
  <2> DEFINE group == {k \in to.memories : k.id = m.id}
  <2>1. Has(to, m.id) => group \in SUBSET Memory /\ group # {}
      BY DEF Has, Store
  <2>2. QED
      BY <2>1, FirstMember DEF ReadMemory
<1>4. n = [m EXCEPT !.born = born]
    BY DEF Placed
<1>5. born \in Nat
  <2>1. Has(to, m.id) => ReadMemory(to, m.id).born \in Nat
      BY <1>3 DEF Store, Memory
  <2> HIDE DEF earlier
  <2>2. QED
      BY <1>1, <1>2, <2>1
<1> HIDE DEF born, n
<1>6. n \in Memory /\ n.born = born /\ n.id = m.id /\ n.key = m.key
    BY <1>1, <1>4, <1>5 DEF Memory
<1>7. QED
    BY <1>3, <1>4, <1>6 DEF born, n

\* What an import makes of a store.
LEMMA ImportShape ==
    ASSUME NEW to \in Store, NEW data \in Data, IsFiniteSet(data.memories)
    PROVE  LET next == Imported(to, data)
           IN /\ next \in Store
              /\ next.memories = {m \in to.memories : \A n \in data.memories : n.id # m.id}
                                     \cup {Placed(to, data, m) : m \in data.memories}
              /\ next.relations = to.relations \cup data.relations
              /\ next.logged = to.logged \cup data.logged
              /\ next.births = to.births + Cardinality(NewRecords(to, data))
              /\ next.snapshots = to.snapshots
<1> DEFINE memories == {m \in to.memories : \A n \in data.memories : n.id # m.id}
                           \cup {Placed(to, data, m) : m \in data.memories}
           births == to.births + Cardinality(NewRecords(to, data))
<1>1. memories \in SUBSET Memory
  <2>1. \A m \in data.memories : Placed(to, data, m) \in Memory
      BY PlacedShape
  <2>2. QED
      BY <2>1 DEF Store
<1>2. births \in Nat
  <2>1. NewRecords(to, data) \in SUBSET data.memories
      BY DEF NewRecords
  <2>2. Cardinality(NewRecords(to, data)) \in Nat
      BY <2>1, FS_Subset, FS_CardinalityType
  <2>3. QED
      BY <2>2 DEF Store
<1>3. Imported(to, data) = [to EXCEPT !.memories = memories, !.relations = @ \cup data.relations,
                                      !.logged = @ \cup data.logged, !.births = births]
    BY DEF Imported, Store
<1> HIDE DEF memories, births
<1>4. QED
    BY <1>1, <1>2, <1>3 DEF Store, Data, memories, births

-----------------------------------------------------------------------------
(* The invariant.                                                          *)

LEMMA ExchangeInitially == ExchangeInit => ExchangeInvariant
<1> SUFFICES ASSUME ExchangeInit PROVE ExchangeInvariant
    OBVIOUS
<1>1. store = EmptyStore /\ held = Nothing
      /\ last = [op |-> "none", accepted |-> TRUE, appended |-> 0]
    BY DEF ExchangeInit, Init
<1>2. EmptyStore \in Store /\ EmptyStore.memories = {}
    BY LevelAssumption DEF EmptyStore, Store
<1>3. QED
    BY <1>1, <1>2, FS_EmptySet DEF ExchangeInvariant, ExchangeTypeOK, RestoredIsClosed

\* A step of the engine is one of its own specification.
LEMMA EngineStepIsNext ==
    ASSUME EngineStep
    PROVE  Next /\ UNCHANGED held
BY DEF EngineStep, Next

\* An accepted import or restore brings back what was sealed.
LEMMA AcceptedIsOriginal ==
    ASSUME HeldSealed
    PROVE  /\ Import => \/ last'.accepted /\ held.data = Original /\ Original \in Data
                             /\ store' = Imported(store, Original)
                        \/ ~last'.accepted /\ store' = store
           /\ Restore => \/ last'.accepted /\ held.data = Original /\ Original \in Store
                              /\ store' = Original
                         \/ ~last'.accepted /\ store' = store
<1>1. ASSUME NEW label, held.digest = Digest(held.data, label)
      PROVE  held.data = Original
    BY <1>1 DEF Digest, Original
<1>2. held.kind = "package" => Original \in Data
    BY DEF HeldSealed, Package, Envelope, Original
<1>3. held.kind = "backup" => Original \in Store
    BY DEF HeldSealed, Package, Envelope, Original
<1>4. QED
    BY <1>1, <1>2, <1>3 DEF Import, ImportPartialNamespace, Restore, DecryptMemoryBackup, Done

\* Every step keeps the invariant: it suffices to know what was sealed, for what
\* comes back is that or nothing.
LEMMA ExchangeInductive ==
    ASSUME ExchangeInvariant, [ExchangeNext]_exchangeVars
    PROVE  ExchangeInvariant'
<1> USE DEF ExchangeInvariant
<1>0. store \in Store
    BY DEF ExchangeTypeOK
<1>a. ASSUME held' # Nothing => HeldSealed'
      PROVE  \/ held' = Nothing
             \/ held'.kind = "package" /\ held'.label \in Category /\ held'.data \in Data
             \/ held'.kind = "backup" /\ held'.label \in Key /\ held'.data \in Store
    BY <1>a DEF HeldSealed, Package, Envelope
<1>1. CASE EngineStep
  <2>1. Next /\ held' = held
      BY <1>1, EngineStepIsNext
  <2>2. TypeOK'
      BY <1>0, <2>1, StepTyped
  <2>3. last'.op \in Operation \cup {"none"}
      BY <2>2 DEF TypeOK
  <2>4. last'.op # "restore"
      BY <2>3 DEF Operation
  <2>5. IsFiniteSet(store'.memories)
      BY <1>0, <2>1, StepFinite
  <2>6. held' # Nothing => HeldSealed'
      BY <2>1 DEF HeldSealed, Original, Closed, Has
  <2>7. ExchangeTypeOK'
      BY <1>a, <2>2, <2>6 DEF ExchangeTypeOK, TypeOK
  <2>8. QED
      BY <2>4, <2>5, <2>6, <2>7 DEF RestoredIsClosed
<1>2. CASE Export \/ Backup \/ (InTransit /\ held # Nothing)
  <2>1. HeldSealed'
      BY <1>0, <1>2, PackageSealed, BackupSealed, TransitSealed DEF Export, Backup
  <2>2. UNCHANGED <<store, last>>
      BY <1>2 DEF Export, Backup, InTransit
  <2>3. ExchangeTypeOK'
      BY <1>a, <2>1, <2>2 DEF ExchangeTypeOK
  <2>4. RestoredIsClosed'
      BY <2>2 DEF RestoredIsClosed, Closed, Has
  <2>5. QED
      BY <2>1, <2>2, <2>3, <2>4
<1>3. CASE Import
  <2>1. held # Nothing /\ held' = held /\ HeldSealed
      BY <1>3 DEF Import
  <2>2. PICK accepted \in BOOLEAN : last' = [op |-> "import", accepted |-> accepted, appended |-> 0]
      BY <1>3 DEF Import, ImportPartialNamespace, Done
  <2>3. store' \in Store /\ IsFiniteSet(store'.memories)
    <3>1. CASE store' = store
        BY <1>0, <3>1
    <3>2. CASE Original \in Data /\ store' = Imported(store, Original)
      <4> DEFINE placed == [m \in Original.memories |-> Placed(store, Original, m)]
                 kept == {m \in store.memories : \A n \in Original.memories : n.id # m.id}
      <4>1. IsFiniteSet(Original.memories)
          BY <2>1 DEF HeldSealed
      <4>2. /\ store' \in Store
            /\ store'.memories
                   = kept \cup {Placed(store, Original, m) : m \in Original.memories}
        <5> HIDE DEF kept
        <5>1. QED
            BY <1>0, <3>2, <4>1, ImportShape DEF kept
      <4>3. IsFiniteSet(kept)
          BY FS_Subset
      <4>4. IsFiniteSet({Placed(store, Original, m) : m \in Original.memories})
        <5>1. {Placed(store, Original, m) : m \in Original.memories}
                  = {placed[m] : m \in Original.memories}
            OBVIOUS
        <5> HIDE DEF placed
        <5>2. QED
            BY <4>1, <5>1, ImageFinite
      <4> HIDE DEF placed, kept
      <4>5. QED
          BY <4>2, <4>3, <4>4, FS_Union
    <3>3. QED
        BY <1>3, <2>1, <3>1, <3>2, AcceptedIsOriginal
  <2>4. HeldSealed'
      BY <2>1 DEF HeldSealed, Original, Closed, Has
  <2>5. ExchangeTypeOK'
      BY <1>a, <2>2, <2>3, <2>4 DEF ExchangeTypeOK, ExchangeOp
  <2>6. QED
      BY <2>2, <2>3, <2>4, <2>5 DEF RestoredIsClosed
<1>4. CASE Restore
  <2>1. held # Nothing /\ held' = held /\ HeldSealed
      BY <1>4 DEF Restore
  <2>2. PICK accepted \in BOOLEAN : last' = [op |-> "restore", accepted |-> accepted, appended |-> 0]
      BY <1>4 DEF Restore, DecryptMemoryBackup, Done
  <2>3. /\ store' \in Store /\ IsFiniteSet(store'.memories)
        /\ last'.accepted => store' = Original /\ held.kind = "backup"
      BY <1>0, <1>4, <2>1, AcceptedIsOriginal DEF HeldSealed, Restore
  <2>4. HeldSealed'
      BY <2>1 DEF HeldSealed, Original, Closed, Has
  <2>5. ExchangeTypeOK'
      BY <1>a, <2>2, <2>3, <2>4 DEF ExchangeTypeOK, ExchangeOp
  <2>6. RestoredIsClosed'
      BY <2>1, <2>3 DEF RestoredIsClosed, HeldSealed, Closed, Has
  <2>7. QED
      BY <2>3, <2>4, <2>5, <2>6
<1>5. CASE NewDevice
  <2>1. /\ store' = EmptyStore /\ held' = held
        /\ last' = [op |-> "new_device", accepted |-> TRUE, appended |-> 0]
      BY <1>5 DEF NewDevice, Done
  <2>2. store' \in Store /\ store'.memories = {}
      BY <2>1, LevelAssumption DEF EmptyStore, Store
  <2>3. held' # Nothing => HeldSealed'
      BY <2>1 DEF HeldSealed, Original, Closed, Has
  <2>4. ExchangeTypeOK'
      BY <1>a, <2>1, <2>2, <2>3 DEF ExchangeTypeOK, ExchangeOp
  <2>5. QED
      BY <2>1, <2>2, <2>3, <2>4, FS_EmptySet DEF RestoredIsClosed
<1>6. CASE UNCHANGED exchangeVars
    BY <1>6 DEF exchangeVars, ExchangeTypeOK, HeldSealed, Original, RestoredIsClosed, Closed, Has
<1>7. QED
    BY <1>1, <1>2, <1>3, <1>4, <1>5, <1>6 DEF ExchangeNext, InTransit

LEMMA ExchangeInvariantHolds == ExchangeSpec => []ExchangeInvariant
<1>1. ExchangeInit => ExchangeInvariant
    BY ExchangeInitially
<1>2. ExchangeInvariant /\ [ExchangeNext]_exchangeVars => ExchangeInvariant'
    BY ExchangeInductive
<1>3. QED
    BY <1>1, <1>2, PTL DEF ExchangeSpec

\* Store, results and packages keep their shape, whatever is taken out,
\* changed on the way and brought back.
THEOREM ExchangeTypeCorrect == ExchangeSpec => []ExchangeTypeOK
<1>1. ExchangeInvariant => ExchangeTypeOK
    BY DEF ExchangeInvariant
<1>2. QED
    BY <1>1, ExchangeInvariantHolds, PTL

\* A restored backup holds approved memories only and no relation to one that
\* was left out, whatever store it was made of.
THEOREM RestoredStaysClosed == ExchangeSpec => []RestoredIsClosed
<1>1. ExchangeInvariant => RestoredIsClosed
    BY DEF ExchangeInvariant
<1>2. QED
    BY <1>1, ExchangeInvariantHolds, PTL

-----------------------------------------------------------------------------
(* What comes back.                                                        *)

\* A record that is put into a store keeps its content.
LEMMA PlacedContent ==
    ASSUME NEW to \in Store, NEW data \in Data, IsFiniteSet(data.memories), NEW m \in data.memories
    PROVE  [Placed(to, data, m) EXCEPT !.born = 0] = [m EXCEPT !.born = 0]
<1> DEFINE n == Placed(to, data, m)
<1>1. m \in Memory
    BY DEF Data
<1>2. n = [m EXCEPT !.born = n.born]
    BY PlacedShape
<1> HIDE DEF n
<1>3. [[m EXCEPT !.born = n.born] EXCEPT !.born = 0] = [m EXCEPT !.born = 0]
    BY <1>1 DEF Memory
<1>4. [n EXCEPT !.born = 0] = [m EXCEPT !.born = 0]
    BY <1>2, <1>3
<1>5. QED
    BY <1>4 DEF n

\* An import brings in all the content of its package, and nothing else.
LEMMA ImportedContent ==
    ASSUME NEW to \in Store, NEW data \in Data, IsFiniteSet(data.memories)
    PROVE  /\ Content(data.memories) \subseteq Content(Imported(to, data).memories)
           /\ Content(Imported(to, data).memories)
                  \subseteq Content(to.memories) \cup Content(data.memories)
<1> DEFINE kept == {m \in to.memories : \A n \in data.memories : n.id # m.id}
           placed == {Placed(to, data, m) : m \in data.memories}
<1>1. Imported(to, data).memories = kept \cup placed
    BY ImportShape
<1>2. Content(placed) = Content(data.memories)
  <2> DEFINE Blank(m) == [m EXCEPT !.born = 0]
  <2>1. \A m \in data.memories : Blank(Placed(to, data, m)) = Blank(m)
      BY PlacedContent
  <2>2. \A memories : Content(memories) = {Blank(m) : m \in memories}
      BY DEF Content
  <2> HIDE DEF Blank
  <2>3. QED
      BY <2>1, <2>2
<1>3. Content(kept) \subseteq Content(to.memories)
    BY DEF Content
<1> HIDE DEF kept, placed
<1>4. Content(kept \cup placed) = Content(kept) \cup Content(placed)
    BY DEF Content
<1>5. QED
    BY <1>1, <1>2, <1>3, <1>4

\* What comes back is what was taken out.
LEMMA StepReturnsTaken ==
    ASSUME ExchangeInvariant, ExchangeNext
    PROVE  /\ Import => Content(store'.memories)
                            \subseteq Content(store.memories) \cup Content(held.taken)
           /\ Restore => Content(store'.memories)
                            \subseteq Content(IF last'.accepted THEN held.taken
                                              ELSE store.memories)
<1>0. store \in Store
    BY DEF ExchangeInvariant, ExchangeTypeOK
<1>1. ASSUME Import
      PROVE  Content(store'.memories) \subseteq Content(store.memories) \cup Content(held.taken)
  <2>1. HeldSealed
      BY <1>1 DEF ExchangeInvariant, Import
  <2>2. held.taken = Original.memories /\ IsFiniteSet(Original.memories)
      BY <2>1 DEF HeldSealed
  <2>3. CASE Original \in Data /\ store' = Imported(store, Original)
      BY <1>0, <2>2, <2>3, ImportedContent
  <2>4. QED
      BY <1>1, <2>1, <2>3, AcceptedIsOriginal
<1>2. ASSUME Restore
      PROVE  Content(store'.memories)
                 \subseteq Content(IF last'.accepted THEN held.taken ELSE store.memories)
  <2>1. HeldSealed
      BY <1>2 DEF ExchangeInvariant, Restore
  <2>2. held.taken = Original.memories
      BY <2>1 DEF HeldSealed
  <2>3. QED
      BY <1>2, <2>1, <2>2, AcceptedIsOriginal
<1>3. QED
    BY <1>1, <1>2

\* Whatever is changed on the way, an import and a restore bring in only
\* memories as they were taken out, and a call that is refused brings none.
THEOREM TakenMemoriesReturn == ExchangeSpec => OnlyTakenMemoriesReturn
<1>1. ExchangeInvariant /\ [ExchangeNext]_exchangeVars =>
          [/\ Import => Content(store'.memories)
                            \subseteq Content(store.memories) \cup Content(held.taken)
           /\ Restore => Content(store'.memories)
                            \subseteq Content(IF last'.accepted THEN held.taken
                                              ELSE store.memories)]_exchangeVars
    BY StepReturnsTaken
<1>2. QED
    BY <1>1, ExchangeInvariantHolds, PTL DEF ExchangeSpec, OnlyTakenMemoriesReturn

\* An import replaces only records that its package names.
LEMMA StepKeepsTheRest ==
    ASSUME ExchangeInvariant, Import
    PROVE  /\ \A m \in store.memories :
                 \/ m \in store'.memories
                 \/ \E n \in held.data.memories : n.id = m.id
           /\ store.relations \subseteq store'.relations
           /\ store.logged \subseteq store'.logged
<1>0. store \in Store /\ HeldSealed
    BY DEF ExchangeInvariant, ExchangeTypeOK, Import
<1>1. IsFiniteSet(Original.memories)
    BY <1>0 DEF HeldSealed
<1>2. CASE held.data = Original /\ Original \in Data /\ store' = Imported(store, Original)
    BY <1>0, <1>1, <1>2, ImportShape
<1>3. QED
    BY <1>0, <1>2, AcceptedIsOriginal

\* An import leaves alone the memories that its package does not name, every
\* relation and every logged action, whatever became of the store meanwhile.
THEOREM ImportsKeepTheRest == ExchangeSpec => ImportKeepsTheRest
<1> DEFINE Kept == Import =>
        /\ \A m \in store.memories :
              \/ m \in store'.memories
              \/ \E n \in held.data.memories : n.id = m.id
        /\ store.relations \subseteq store'.relations
        /\ store.logged \subseteq store'.logged
<1>1. ExchangeInvariant /\ [ExchangeNext]_exchangeVars => [Kept]_exchangeVars
    BY StepKeepsTheRest
<1>2. QED
    BY <1>1, ExchangeInvariantHolds, PTL DEF ExchangeSpec, ImportKeepsTheRest

\* Both ends of a relation of a package come with it, and an import takes no
\* id out of the store.
LEMMA ImportKeepsClosed ==
    ASSUME NEW to \in Store, Closed(to), NEW data \in Data, IsFiniteSet(data.memories), Closed(data)
    PROVE  Closed(Imported(to, data))
<1> DEFINE next == Imported(to, data)
<1>1. /\ next.memories = {m \in to.memories : \A n \in data.memories : n.id # m.id}
                             \cup {Placed(to, data, m) : m \in data.memories}
      /\ next.relations = to.relations \cup data.relations
    BY ImportShape
<1>2. \A m \in data.memories : Placed(to, data, m).id = m.id
    BY PlacedShape
<1> HIDE DEF next
<1>3. ASSUME NEW id, Has(data, id) PROVE Has(next, id)
    BY <1>1, <1>2, <1>3 DEF Has
<1>4. ASSUME NEW id, Has(to, id) PROVE Has(next, id)
  <2>1. PICK m \in to.memories : m.id = id
      BY <1>4 DEF Has
  <2>2. CASE \E n \in data.memories : n.id = id
      BY <1>3, <2>2 DEF Has
  <2>3. CASE ~ \E n \in data.memories : n.id = id
      BY <1>1, <2>1, <2>3 DEF Has
  <2>4. QED
      BY <2>2, <2>3
<1>5. QED
    BY <1>1, <1>3, <1>4 DEF Closed, next

\* Every step but a caller's own relation keeps relations closed.
LEMMA ExchangeKeepsClosed ==
    ASSUME ExchangeInvariant, Closed(store), ExchangeNext, last'.op \notin OpensRelations
    PROVE  Closed(store')
<1>0. store \in Store
    BY DEF ExchangeInvariant, ExchangeTypeOK
<1>1. CASE EngineStep
    BY <1>0, <1>1, EngineStepIsNext, StepKeepsClosed
<1>2. CASE Import
  <2>1. HeldSealed
      BY <1>2 DEF ExchangeInvariant, Import
  <2>2. IsFiniteSet(Original.memories) /\ Closed(Original)
      BY <2>1 DEF HeldSealed
  <2>3. CASE Original \in Data /\ store' = Imported(store, Original)
      BY <1>0, <2>2, <2>3, ImportKeepsClosed
  <2>4. QED
      BY <1>2, <2>1, <2>3, AcceptedIsOriginal
<1>3. CASE Restore
  <2>1. HeldSealed
      BY <1>3 DEF ExchangeInvariant, Restore
  <2>2. QED
      BY <1>3, <2>1, AcceptedIsOriginal DEF HeldSealed
<1>4. CASE NewDevice
    BY <1>4 DEF NewDevice, Done, EmptyStore, Closed
<1>5. CASE Export \/ Backup \/ InTransit
    BY <1>5 DEF Export, Backup, InTransit
<1>6. QED
    BY <1>1, <1>2, <1>3, <1>4, <1>5 DEF ExchangeNext

\* Relations go on to name memories of the store, also where packages and
\* backups come back.
THEOREM ExchangedRelationsStay == ExchangeSpec => RelationsStayClosed
<1>1. ExchangeInvariant /\ [ExchangeNext]_exchangeVars =>
          [Closed(store) /\ last'.op \notin OpensRelations => Closed(store')]_vars
    BY ExchangeKeepsClosed DEF exchangeVars, vars
<1>2. QED
    BY <1>1, ExchangeInvariantHolds, PTL DEF ExchangeSpec, RelationsStayClosed

-----------------------------------------------------------------------------
(* Ids and places.                                                         *)

BornApart(memories) == \A m, n \in memories : m.born = n.born => m = n

\* Distinct ids, keys that go with the derived ones, and a place for each.
Sound(memories) ==
    Distinct(memories) /\ KeepsKeys(memories, DerivedInput) /\ BornApart(memories)

ExchangeIds ==
    /\ Sound(store.memories) /\ BornInOrder
    /\ held # Nothing =>
          /\ Sound(Original.memories)
          /\ held.kind = "backup" => \A m \in Original.memories : m.born <= Original.births

\* Records that are changed in place keep their places.
LEMMA MapsBornApart ==
    ASSUME NEW old, BornApart(old), NEW new, Maps(old, new)
    PROVE  BornApart(new)
<1>1. PICK f : /\ \A m \in old : Keeps(m, f[m])
               /\ new = {f[m] : m \in old}
    BY DEF Maps
<1> SUFFICES ASSUME NEW m \in old, NEW n \in old, f[m].born = f[n].born
             PROVE  f[m] = f[n]
    BY <1>1 DEF BornApart
<1>2. QED
    BY <1>1 DEF BornApart, Keeps

\* Records of a batch have places of their own, after those of the store.
LEMMA BatchBornApart ==
    ASSUME NEW s \in Store, BornApart(s.memories), \A m \in s.memories : m.born <= s.births,
           NEW inputs \in Seq(RememberedInput)
    PROVE  BornApart(s.memories \cup News(s, inputs))
<1>1. \A m \in s.memories : m.born \in Nat
    BY DEF Store, Memory
<1>2. \A n \in News(s, inputs) : n.born \in Nat /\ s.births < n.born
    BY BatchIsBornLater
<1>3. s.births \in Nat
    BY DEF Store
<1>4. ASSUME NEW m \in s.memories, NEW n \in News(s, inputs) PROVE m.born # n.born
    BY <1>1, <1>2, <1>3
<1>5. ASSUME NEW m \in News(s, inputs), NEW n \in News(s, inputs), m.born = n.born PROVE m = n
  <2>1. PICK i \in DOMAIN inputs : m = RememberedMemory(inputs[i], s.births + i)
      BY DEF News
  <2>2. PICK j \in DOMAIN inputs : n = RememberedMemory(inputs[j], s.births + j)
      BY DEF News
  <2>3. m.born = s.births + i /\ n.born = s.births + j
      BY <2>1, <2>2 DEF RememberedMemory
  <2>4. s.births + i = s.births + j
      BY <1>5, <2>3
  <2>5. i \in Nat /\ j \in Nat
      OBVIOUS
  <2>6. i = j
      BY <1>3, <2>4, <2>5
  <2>7. QED
      BY <2>1, <2>2, <2>6
<1>6. QED
    BY <1>4, <1>5 DEF BornApart

\* Every step of the engine keeps the places apart.
LEMMA StepBornApart ==
    ASSUME store \in Store, BornInOrder, BornApart(store.memories), Next
    PROVE  BornApart(store'.memories)
<1>0. /\ store.births \in Nat
      /\ \A m \in store.memories : m.born \in Nat /\ m.born <= store.births
    BY DEF Store, Memory, BornInOrder
<1>1. CASE ChangesInPlace \/ Edits
    BY <1>1, QuietlyMaps, RekeysMaps, MapsBornApart DEF ChangesInPlace, Edits
<1>2. CASE Appends
    BY <1>0, <1>2 DEF Appends, BornApart
<1>3. CASE Supersedes
  <2>1. PICK marked : \E memory \in Memory :
            /\ MapsQuietly(store.memories, marked)
            /\ memory.born = store.births + 1
            /\ store'.memories = marked \cup {memory}
      BY <1>3 DEF Supersedes
  <2>2. BornApart(marked) /\ \A k \in marked : \E m \in store.memories : Keeps(m, k)
      BY <2>1, QuietlyMaps, MapsBornApart, MapsDistinct
  <2>3. \A k \in marked : k.born # store.births + 1
      BY <1>0, <2>2 DEF Keeps
  <2>4. QED
      BY <2>1, <2>2, <2>3 DEF BornApart
<1>4. CASE Removes
  <2>1. store'.memories \subseteq store.memories
      BY <1>4 DEF Removes
  <2>2. QED
      BY <2>1 DEF BornApart
<1>5. CASE Rebuilds
  <2>1. PICK inputs \in Seq(RememberedInput) :
            store'.memories = BuildMemoryStore(store, inputs).memories
      BY <1>5 DEF Rebuilds
  <2> DEFINE all == store.memories \cup News(store, inputs)
  <2>2. BornApart(all)
      BY <1>0, BatchBornApart
  <2>3. /\ \A n \in store'.memories : \E m \in all : MergedFrom(all, m, n)
        /\ \A a, b \in store'.memories : a.key = b.key => a = b
      BY <2>1, BuildKeeps
  <2> HIDE DEF all
  <2>4. ASSUME NEW a \in store'.memories, NEW b \in store'.memories, a.born = b.born PROVE a = b
    <3>1. PICK m \in all : Stays(m, a)
        BY <2>3 DEF MergedFrom
    <3>2. PICK n \in all : Stays(n, b)
        BY <2>3 DEF MergedFrom
    <3>3. m = n
        BY <2>2, <2>4, <3>1, <3>2 DEF BornApart, Keeps, Stays
    <3>4. QED
        BY <2>3, <3>1, <3>2, <3>3 DEF Stays
  <2>5. QED
      BY <2>4 DEF BornApart
<1>6. QED
    BY <1>1, <1>2, <1>3, <1>4, <1>5, StepEffects

\* A record that the store does not have is put behind all that are there, and
\* behind the records of the package before it.
LEMMA PushedPlaces ==
    ASSUME NEW to \in Store, NEW data \in Data, IsFiniteSet(data.memories),
           BornApart(data.memories), NEW m \in NewRecords(to, data)
    PROVE  LET place == Placed(to, data, m).born
           IN /\ to.births < place /\ place <= to.births + Cardinality(NewRecords(to, data))
              /\ \A n \in NewRecords(to, data) : Placed(to, data, n).born = place => n = m
<1> DEFINE news == NewRecords(to, data)
           Earlier(n) == {k \in news : k.born <= n.born}
<1>1. news \in SUBSET data.memories /\ IsFiniteSet(news)
  <2>1. news \in SUBSET data.memories
      BY DEF NewRecords
  <2>2. QED
      BY <2>1, FS_Subset
<1>2. ASSUME NEW n \in news
      PROVE  /\ Placed(to, data, n).born = to.births + Cardinality(Earlier(n))
             /\ n.born \in Nat
  <2>1. n \in data.memories /\ ~Has(to, n.id)
      BY DEF NewRecords
  <2>2. Placed(to, data, n).born
            = to.births + Cardinality({k \in NewRecords(to, data) : k.born <= n.born})
      BY <2>1, PlacedShape
  <2>3. n \in Memory
      BY <2>1 DEF Data
  <2>4. QED
      BY <2>2, <2>3 DEF Memory
<1>3. to.births \in Nat
    BY DEF Store
<1> HIDE DEF news
<1>4. ASSUME NEW n \in news PROVE Earlier(n) \in SUBSET news /\ n \in Earlier(n)
  <2>1. n.born \in Nat
      BY <1>2
  <2>2. n.born <= n.born
      BY <2>1
  <2>3. QED
      BY <2>2
<1>5. ASSUME NEW n \in news
      PROVE  /\ IsFiniteSet(Earlier(n)) /\ Cardinality(Earlier(n)) \in Nat
             /\ 0 < Cardinality(Earlier(n)) /\ Cardinality(Earlier(n)) <= Cardinality(news)
  <2>1. IsFiniteSet(Earlier(n)) /\ Cardinality(Earlier(n)) <= Cardinality(news)
      BY <1>1, <1>4, FS_Subset
  <2>2. Cardinality(Earlier(n)) \in Nat /\ Cardinality(Earlier(n)) # 0
      BY <1>4, <2>1, FS_CardinalityType, FS_EmptySet
  <2>3. QED
      BY <2>1, <2>2
<1>6. ASSUME NEW k \in news, NEW n \in news, k.born < n.born
      PROVE  Cardinality(Earlier(k)) # Cardinality(Earlier(n))
  <2>0. k.born \in Nat /\ n.born \in Nat
      BY <1>2
  <2>1. ASSUME NEW e \in Earlier(k) PROVE e \in Earlier(n)
    <3>1. e \in news /\ e.born <= k.born
        OBVIOUS
    <3>2. e.born \in Nat
        BY <1>2, <3>1
    <3>3. e.born <= n.born
        BY <1>6, <2>0, <3>1, <3>2
    <3>4. QED
        BY <3>1, <3>3
  <2>3. n \notin Earlier(k)
      BY <1>6, <2>0
  <2>4. n \in Earlier(n)
      BY <1>4
  <2> HIDE DEF Earlier
  <2>5. Earlier(k) \in SUBSET Earlier(n) /\ Earlier(k) # Earlier(n)
      BY <2>1, <2>3, <2>4
  <2>6. QED
      BY <1>5, <2>5, FS_Subset
<1> HIDE DEF Earlier
<1>7. ASSUME NEW n \in news, Placed(to, data, n).born = Placed(to, data, m).born PROVE n = m
  <2>0. m \in news
      BY DEF news
  <2>1. Cardinality(Earlier(n)) = Cardinality(Earlier(m))
      BY <1>2, <1>3, <1>5, <1>7, <2>0
  <2>2. n.born = m.born
      BY <1>2, <1>6, <2>0, <2>1
  <2>3. QED
      BY <1>1, <2>0, <2>2 DEF BornApart
<1>8. m \in news
    BY DEF news
<1>9. to.births < Placed(to, data, m).born
    BY <1>2, <1>3, <1>5, <1>8
<1>10. Placed(to, data, m).born <= to.births + Cardinality(news)
  <2>1. Cardinality(news) \in Nat
      BY <1>1, FS_CardinalityType
  <2>2. QED
      BY <1>2, <1>3, <1>5, <1>8, <2>1
<1>11. QED
    BY <1>7, <1>9, <1>10 DEF news

\* An import keeps ids distinct, for no two records of a package have one id,
\* and gives every record a place of its own.
LEMMA ImportKeepsSound ==
    ASSUME NEW to \in Store, Sound(to.memories), \A m \in to.memories : m.born <= to.births,
           NEW data \in Data, IsFiniteSet(data.memories), Sound(data.memories)
    PROVE  /\ Sound(Imported(to, data).memories)
           /\ \A m \in Imported(to, data).memories : m.born <= Imported(to, data).births
<1> DEFINE kept == {m \in to.memories : \A n \in data.memories : n.id # m.id}
           placed == {Placed(to, data, m) : m \in data.memories}
           pushed == Cardinality(NewRecords(to, data))
<1>1. /\ Imported(to, data).memories = kept \cup placed
      /\ Imported(to, data).births = to.births + pushed
    BY ImportShape
<1>2. ASSUME NEW m \in data.memories
      PROVE  /\ Placed(to, data, m).id = m.id /\ Placed(to, data, m).key = m.key
             /\ Has(to, m.id) => \E k \in to.memories :
                                     k.id = m.id /\ Placed(to, data, m).born = k.born
  <2>1. Placed(to, data, m).id = m.id /\ Placed(to, data, m).key = m.key
      BY PlacedShape
  <2>2. ASSUME Has(to, m.id)
        PROVE  \E k \in to.memories : k.id = m.id /\ Placed(to, data, m).born = k.born
    <3> DEFINE place == Placed(to, data, m).born
    <3>1. \E k \in to.memories : k = ReadMemory(to, m.id) /\ k.id = m.id /\ place = k.born
        BY <2>2, PlacedShape
    <3> HIDE DEF place
    <3>2. \E k \in to.memories : k.id = m.id /\ place = k.born
        BY <3>1
    <3>3. QED
        BY <3>2 DEF place
  <2>3. QED
      BY <2>1, <2>2
<1>3. \A m \in data.memories : ~Has(to, m.id) <=> m \in NewRecords(to, data)
    BY DEF NewRecords
<1>4. /\ to.births \in Nat /\ pushed \in Nat
      /\ \A m \in to.memories : m.born \in Nat /\ m.born <= to.births
  <2>1. NewRecords(to, data) \in SUBSET data.memories
      BY DEF NewRecords
  <2>2. pushed \in Nat
      BY <2>1, FS_Subset, FS_CardinalityType
  <2>3. QED
      BY <2>2 DEF Store, Memory
<1>5. ASSUME NEW m \in data.memories, ~Has(to, m.id)
      PROVE  /\ Placed(to, data, m).born \in Nat
             /\ to.births < Placed(to, data, m).born
             /\ Placed(to, data, m).born <= to.births + pushed
  <2>1. Placed(to, data, m) \in Memory
      BY PlacedShape
  <2>2. QED
      BY <1>3, <1>5, <2>1, PushedPlaces DEF Sound, Memory
<1> HIDE DEF pushed
<1>6. Distinct(kept \cup placed)
    BY <1>2 DEF Sound, Distinct
<1>7. KeepsKeys(kept \cup placed, DerivedInput)
    BY <1>2 DEF Sound, KeepsKeys
<1>8. ASSUME NEW m \in kept, NEW n \in data.memories
      PROVE  m.born # Placed(to, data, n).born
  <2>1. CASE Has(to, n.id)
    <3>1. PICK k \in to.memories : k.id = n.id /\ Placed(to, data, n).born = k.born
        BY <1>2, <2>1
    <3>2. m # k /\ m \in to.memories
        BY <3>1
    <3>3. QED
        BY <3>1, <3>2 DEF Sound, BornApart
  <2>2. CASE ~Has(to, n.id)
      BY <1>4, <1>5, <2>2
  <2>3. QED
      BY <2>1, <2>2
<1>9. ASSUME NEW m \in data.memories, NEW n \in data.memories,
             Placed(to, data, m).born = Placed(to, data, n).born
      PROVE  m = n
  <2>1. CASE Has(to, m.id) /\ Has(to, n.id)
      BY <1>2, <1>9, <2>1 DEF Sound, Distinct, BornApart
  <2>2. CASE ~Has(to, m.id) /\ ~Has(to, n.id)
      BY <1>3, <1>9, <2>2, PushedPlaces DEF Sound
  <2>3. CASE Has(to, m.id) /\ ~Has(to, n.id)
      BY <1>2, <1>4, <1>5, <1>9, <2>3
  <2>4. CASE ~Has(to, m.id) /\ Has(to, n.id)
      BY <1>2, <1>4, <1>5, <1>9, <2>4
  <2>5. QED
      BY <2>1, <2>2, <2>3, <2>4
<1>10. BornApart(kept \cup placed)
    BY <1>8, <1>9 DEF Sound, BornApart
<1>11. ASSUME NEW m \in data.memories PROVE Placed(to, data, m).born <= to.births + pushed
    BY <1>2, <1>4, <1>5
<1>12. \A m \in kept \cup placed : m.born <= to.births + pushed
    BY <1>4, <1>11
<1> HIDE DEF kept, placed
<1>13. QED
    BY <1>1, <1>6, <1>7, <1>10, <1>12 DEF Sound

\* What the digest stands for.
LEMMA SealedSound ==
    ASSUME HeldSealed
    PROVE  /\ held.kind = "package" => Original \in Data
           /\ held.kind = "backup" => Original \in Store
           /\ IsFiniteSet(Original.memories)
BY DEF HeldSealed, Package, Envelope, Original

\* Fewer records are no less sound.
LEMMA SubsetSound ==
    ASSUME NEW old, Sound(old), NEW new \in SUBSET old
    PROVE  Sound(new)
BY DEF Sound, Distinct, KeepsKeys, BornApart

\* Every step keeps the ids: the engine's own as before, an import by the places
\* it gives, and whatever is taken out was part of such a store.
LEMMA ExchangeIdsInductive ==
    ASSUME IdsDetermineKeys, ExchangeInvariant, ExchangeIds, [ExchangeNext]_exchangeVars
    PROVE  ExchangeIds'
<1>0. /\ store \in Store /\ IsFiniteSet(store.memories)
      /\ Sound(store.memories) /\ BornInOrder
      /\ held # Nothing => HeldSealed
    BY DEF ExchangeInvariant, ExchangeTypeOK, ExchangeIds
<1>1. ASSUME held' = held
      PROVE  held' # Nothing =>
                 /\ Sound(Original'.memories)
                 /\ held'.kind = "backup" => \A m \in Original'.memories : m.born <= Original'.births
    BY <1>1 DEF ExchangeIds, Original
<1>2. CASE EngineStep
  <2>1. Next /\ held' = held
      BY <1>2, EngineStepIsNext
  <2>2. Distinct(store'.memories) /\ KeepsKeys(store'.memories, DerivedInput)
    <3>1. IdInvariant'
        BY <1>0, <2>1, IdsInductive, IdsOf DEF Sound
    <3>2. QED
        BY <3>1 DEF IdInvariant, UniqueIds, DerivedIdsKeepKeys, Distinct, KeepsKeys
  <2>3. BornApart(store'.memories)
      BY <1>0, <2>1, StepBornApart DEF Sound
  <2>4. BornInOrder'
      BY <1>0, <2>1, BornInOrderInductive
  <2>5. QED
      BY <1>1, <2>1, <2>2, <2>3, <2>4 DEF ExchangeIds, Sound
<1>3. CASE Import
  <2>1. HeldSealed /\ held' = held /\ held # Nothing /\ held.kind = "package"
      BY <1>0, <1>3 DEF Import
  <2>2. Sound(Original.memories) /\ IsFiniteSet(Original.memories)
      BY <2>1, SealedSound DEF ExchangeIds
  <2>3. CASE Original \in Data /\ store' = Imported(store, Original)
    <3>1. /\ Sound(Imported(store, Original).memories)
          /\ \A m \in Imported(store, Original).memories : m.born <= Imported(store, Original).births
        BY <1>0, <2>2, <2>3, ImportKeepsSound DEF BornInOrder
    <3>2. Sound(store'.memories) /\ BornInOrder'
        BY <2>3, <3>1 DEF BornInOrder
    <3>3. QED
        BY <1>1, <2>1, <3>2 DEF ExchangeIds
  <2>4. CASE store' = store
      BY <1>0, <1>1, <2>1, <2>4 DEF ExchangeIds, BornInOrder
  <2>5. QED
      BY <1>3, <2>1, <2>3, <2>4, AcceptedIsOriginal
<1>4. CASE Restore
  <2>1. HeldSealed /\ held' = held /\ held # Nothing /\ held.kind = "backup"
      BY <1>0, <1>4 DEF Restore
  <2>2. store' = store \/ store' = Original
      BY <1>4, <2>1, AcceptedIsOriginal
  <2>3. Sound(store'.memories) /\ BornInOrder'
      BY <1>0, <2>1, <2>2 DEF ExchangeIds, BornInOrder
  <2>4. QED
      BY <1>1, <2>1, <2>3 DEF ExchangeIds
<1>5. CASE NewDevice
  <2>1. store'.memories = {} /\ held' = held
      BY <1>5 DEF NewDevice, Done, EmptyStore
  <2>2. Sound(store'.memories) /\ BornInOrder'
      BY <2>1 DEF Sound, Distinct, KeepsKeys, BornApart, BornInOrder
  <2>3. QED
      BY <1>1, <2>1, <2>2 DEF ExchangeIds
<1>6. CASE Export
  <2>1. UNCHANGED store /\ held'.kind = "package" /\ Original'.memories \in SUBSET store.memories
      BY <1>0, <1>6, PackageSealed DEF Export
  <2>2. QED
      BY <1>0, <2>1, SubsetSound DEF ExchangeIds, BornInOrder
<1>7. CASE Backup
  <2>1. /\ UNCHANGED store /\ held'.kind = "backup" /\ Original'.memories \in SUBSET store.memories
        /\ Original'.births = store.births
      BY <1>0, <1>7, BackupSealed DEF Backup
  <2>2. QED
      BY <1>0, <2>1, SubsetSound DEF ExchangeIds, BornInOrder
<1>8. CASE InTransit
  <2>1. held # Nothing /\ UNCHANGED store
      BY <1>8 DEF InTransit
  <2>2. Original' = Original /\ held'.kind = held.kind
      BY <1>0, <1>8, <2>1, TransitSealed
  <2>3. QED
      BY <2>1, <2>2 DEF ExchangeIds, BornInOrder
<1>9. CASE UNCHANGED exchangeVars
    BY <1>1, <1>9 DEF exchangeVars, ExchangeIds, BornInOrder
<1>10. QED
    BY <1>2, <1>3, <1>4, <1>5, <1>6, <1>7, <1>8, <1>9 DEF ExchangeNext

LEMMA ExchangeIdsInitially == ExchangeInit => ExchangeIds
<1>1. ExchangeInit => store.memories = {} /\ held = Nothing
    BY DEF ExchangeInit, Init, EmptyStore
<1>2. QED
    BY <1>1 DEF ExchangeIds, Sound, Distinct, KeepsKeys, BornApart, BornInOrder

LEMMA ExchangeIdsHold ==
    ASSUME IdsDetermineKeys
    PROVE  ExchangeSpec => []ExchangeIds
<1>1. ExchangeInit => ExchangeIds
    BY ExchangeIdsInitially
<1>2. ExchangeInvariant /\ ExchangeIds /\ [ExchangeNext]_exchangeVars => ExchangeIds'
    BY ExchangeIdsInductive
<1>3. QED
    BY <1>1, <1>2, ExchangeInvariantHolds, PTL DEF ExchangeSpec

\* An id names at most one memory, also after packages and backups have come
\* back, into the store they were taken from or another.
THEOREM ExchangedIdsUnique ==
    ASSUME IdsDetermineKeys
    PROVE  ExchangeSpec => []UniqueIds
<1>1. ExchangeIds => UniqueIds
    BY DEF ExchangeIds, Sound, Distinct, UniqueIds
<1>2. QED
    BY <1>1, ExchangeIdsHold, PTL

-----------------------------------------------------------------------------
(* Importing twice.                                                        *)

\* A record of the package that has been imported is where it would be put.
LEMMA PlacedAgain ==
    ASSUME NEW to \in Store, NEW data \in Data, IsFiniteSet(data.memories),
           Distinct(Imported(to, data).memories), NEW m \in data.memories
    PROVE  /\ Has(Imported(to, data), m.id)
           /\ Placed(Imported(to, data), data, m) = Placed(to, data, m)
<1> DEFINE next == Imported(to, data)
           n == Placed(to, data, m)
           again == Placed(next, data, m)
<1>1. next \in Store /\ n \in next.memories
  <2>1. /\ next \in Store
        /\ next.memories = {k \in to.memories : \A d \in data.memories : d.id # k.id}
                               \cup {Placed(to, data, d) : d \in data.memories}
      BY ImportShape
  <2> HIDE DEF next
  <2>2. QED
      BY <2>1
<1>2. n.id = m.id /\ n = [m EXCEPT !.born = n.born]
    BY PlacedShape
<1>3. Has(next, m.id)
  <2> HIDE DEF next, n
  <2>1. QED
      BY <1>1, <1>2 DEF Has
<1>4. /\ again = [m EXCEPT !.born = again.born]
      /\ \E k \in next.memories : k.id = m.id /\ again.born = k.born
  <2> HIDE DEF next
  <2>1. again = [m EXCEPT !.born = again.born]
      BY <1>1, PlacedShape
  <2>2. Has(next, m.id) => \E k \in next.memories :
            k = ReadMemory(next, m.id) /\ k.id = m.id /\ again.born = k.born
      BY <1>1, PlacedShape
  <2> HIDE DEF again
  <2>3. QED
      BY <1>3, <2>1, <2>2
<1>5. Distinct(next.memories)
    OBVIOUS
<1> HIDE DEF next, n, again
<1>6. again.born = n.born
    BY <1>1, <1>2, <1>4, <1>5 DEF Distinct
<1>7. again = n
    BY <1>2, <1>4, <1>6
<1>8. QED
    BY <1>3, <1>7 DEF next, n, again

\* The second import of a package puts every record where it is.
LEMMA ImportedTwice ==
    ASSUME NEW to \in Store, NEW data \in Data, IsFiniteSet(data.memories),
           Distinct(Imported(to, data).memories)
    PROVE  /\ Imported(Imported(to, data), data).memories = Imported(to, data).memories
           /\ Imported(Imported(to, data), data).births = Imported(to, data).births
<1> DEFINE next == Imported(to, data)
           again == Imported(next, data)
           kept == {m \in to.memories : \A n \in data.memories : n.id # m.id}
           placed == {Placed(to, data, m) : m \in data.memories}
<1>1. /\ next \in Store /\ next.memories = kept \cup placed
    BY ImportShape
<1>2. \A m \in data.memories : Has(next, m.id) /\ Placed(next, data, m) = Placed(to, data, m)
    BY PlacedAgain
<1>3. \A m \in data.memories : Placed(to, data, m).id = m.id
    BY PlacedShape
<1> HIDE DEF next
<1>4. /\ again \in Store
      /\ again.memories = {m \in next.memories : \A n \in data.memories : n.id # m.id}
                              \cup {Placed(next, data, m) : m \in data.memories}
      /\ again.births = next.births + Cardinality(NewRecords(next, data))
    BY <1>1, ImportShape
<1> HIDE DEF again
<1>5. NewRecords(next, data) = {}
    BY <1>2 DEF NewRecords
<1>6. again.births = next.births
    BY <1>1, <1>4, <1>5, FS_EmptySet DEF Store
<1>7. {m \in next.memories : \A n \in data.memories : n.id # m.id} = kept
    BY <1>1, <1>3
<1>8. {Placed(next, data, m) : m \in data.memories} = placed
    BY <1>2
<1>9. again.memories = next.memories
    BY <1>1, <1>4, <1>7, <1>8
<1>10. QED
    BY <1>6, <1>9 DEF again, next

\* Which is so at every import, however old its package.
LEMMA StepMayBeRetried ==
    ASSUME IdsDetermineKeys, ExchangeInvariant, ExchangeIds, Import, last'.accepted
    PROVE  /\ Content(held.data.memories) \subseteq Content(store'.memories)
           /\ Imported(store', held.data).memories = store'.memories
           /\ Imported(store', held.data).births = store'.births
<1>1. /\ store \in Store /\ HeldSealed /\ held # Nothing /\ held.kind = "package"
      /\ Sound(store.memories) /\ Sound(Original.memories)
      /\ \A m \in store.memories : m.born <= store.births
    BY DEF ExchangeInvariant, ExchangeTypeOK, ExchangeIds, BornInOrder, Import
<1>2. IsFiniteSet(Original.memories)
    BY <1>1, SealedSound
<1>3. held.data = Original /\ Original \in Data /\ store' \in {Imported(store, Original), store}
    BY <1>1, AcceptedIsOriginal
<1>4. store' = Imported(store, Original)
    BY <1>1, AcceptedIsOriginal
<1>5. Distinct(Imported(store, Original).memories)
    BY <1>1, <1>2, <1>3, ImportKeepsSound DEF Sound
<1>6. QED
    BY <1>1, <1>2, <1>3, <1>4, <1>5, ImportedTwice, ImportedContent

\* RetryKeepsMemories: after an import the store holds the memories of the package
\* as they were, and a retried import (importPartialNamespace) puts every one of
\* them where it is and gives no new place away.
THEOREM RetriedImportsKeepMemories ==
    ASSUME IdsDetermineKeys
    PROVE  ExchangeSpec => RetryKeepsMemories
<1>1. ExchangeInvariant /\ ExchangeIds /\ [ExchangeNext]_exchangeVars =>
          [Import /\ last'.accepted =>
               LET again == Imported(store', held.data)
               IN /\ Content(held.data.memories) \subseteq Content(store'.memories)
                  /\ again.memories = store'.memories /\ again.births = store'.births]_exchangeVars
    BY StepMayBeRetried
<1>2. QED
    BY <1>1, ExchangeInvariantHolds, ExchangeIdsHold, PTL DEF ExchangeSpec, RetryKeepsMemories

-----------------------------------------------------------------------------
(* The best answers.                                                       *)

\* Scores are numbers.
LEMMA ScoreIsNat ==
    ASSUME NEW m \in Memory
    PROVE  Score(m) \in Nat /\ m.strength \in Nat /\ m.born \in Nat
<1>1. /\ m.key \in MergeKey /\ m.strength \in 0..MaxStrength /\ m.born \in Nat
      /\ MaxStrength \in Nat
    BY LevelAssumption DEF Memory
<1>2. SearchScore[m.key] \in Nat /\ StrengthScore[m.strength] \in Nat /\ SchemaBonus \in Nat
    BY <1>1, RetrievalAssumption
<1>3. QED
    BY <1>1, <1>2 DEF Score

\* Records with places of their own are ordered strictly and totally.
LEMMA BeforeOrders ==
    ASSUME NEW S \in SUBSET Memory, BornApart(S)
    PROVE  /\ \A m \in S : ~Before(m, m)
           /\ \A k, m, n \in S : Before(k, m) /\ Before(m, n) => Before(k, n)
           /\ \A m, n \in S : m = n \/ Before(m, n) \/ Before(n, m)
<1>1. \A m \in S : Score(m) \in Nat /\ m.strength \in Nat /\ m.born \in Nat
    BY ScoreIsNat
<1>2. ASSUME NEW m \in S PROVE ~Before(m, m)
    BY <1>1 DEF Before
<1>3. ASSUME NEW k \in S, NEW m \in S, NEW n \in S, Before(k, m), Before(m, n) PROVE Before(k, n)
    BY <1>1, <1>3 DEF Before
<1>4. ASSUME NEW m \in S, NEW n \in S PROVE m = n \/ Before(m, n) \/ Before(n, m)
    BY <1>1 DEF Before, BornApart
<1>5. QED
    BY <1>2, <1>3, <1>4

\* The number of better records tells the records of a finite set apart and is
\* below their number, so that every such number is that of one record.
LEMMA Ranks ==
    ASSUME NEW S \in SUBSET Memory, IsFiniteSet(S), BornApart(S)
    PROVE  LET rank == [m \in S |-> Cardinality({n \in S : Before(n, m)})]
           IN /\ rank \in Injection(S, 0..(Cardinality(S) - 1))
              /\ rank \in Surjection(S, 0..(Cardinality(S) - 1))
              /\ \A m, n \in S : Before(m, n) => rank[m] < rank[n]
<1> DEFINE better(m) == {n \in S : Before(n, m)}
           rank == [m \in S |-> Cardinality(better(m))]
           places == 0..(Cardinality(S) - 1)
<1>1. /\ \A m \in S : ~Before(m, m)
      /\ \A k, m, n \in S : Before(k, m) /\ Before(m, n) => Before(k, n)
      /\ \A m, n \in S : m = n \/ Before(m, n) \/ Before(n, m)
    BY BeforeOrders
<1>2. \A m \in S : better(m) \in SUBSET S /\ m \notin better(m)
    BY <1>1
<1>3. \A m, n \in S : Before(m, n) => better(m) \in SUBSET better(n) /\ m \in better(n)
    BY <1>1
<1>4. \A m \in S : rank[m] = Cardinality(better(m))
    OBVIOUS
<1>5. rank = [m \in S |-> rank[m]]
    OBVIOUS
<1> HIDE DEF better, rank
<1>6. Cardinality(S) \in Nat
    BY FS_CardinalityType
<1>7. ASSUME NEW m \in S
      PROVE  IsFiniteSet(better(m)) /\ rank[m] \in Nat /\ rank[m] < Cardinality(S)
  <2>1. /\ IsFiniteSet(better(m)) /\ Cardinality(better(m)) <= Cardinality(S)
        /\ Cardinality(better(m)) # Cardinality(S)
      BY <1>2, FS_Subset
  <2>2. Cardinality(better(m)) \in Nat
      BY <2>1, FS_CardinalityType
  <2>3. QED
      BY <1>4, <1>6, <2>1, <2>2
<1>8. ASSUME NEW m \in S, NEW n \in S, Before(m, n) PROVE rank[m] < rank[n]
  <2>1. better(m) \in SUBSET better(n) /\ better(m) # better(n)
      BY <1>2, <1>3, <1>8
  <2>2. /\ Cardinality(better(m)) <= Cardinality(better(n))
        /\ Cardinality(better(m)) # Cardinality(better(n))
      BY <1>7, <2>1, FS_Subset
  <2>3. rank[m] \in Nat /\ rank[n] \in Nat
      BY <1>7
  <2>4. QED
      BY <1>4, <2>2, <2>3
<1>9. \A m, n \in S : rank[m] = rank[n] => m = n
  <2>1. ASSUME NEW m \in S, NEW n \in S, rank[m] = rank[n] PROVE m = n
    <3>1. rank[m] \in Nat /\ rank[n] \in Nat
        BY <1>7
    <3>2. ~(rank[m] < rank[n]) /\ ~(rank[n] < rank[m])
        BY <2>1, <3>1
    <3>3. QED
        BY <1>1, <1>8, <3>2
  <2>2. QED
      BY <2>1
<1>10. \A m \in S : rank[m] \in places
    BY <1>6, <1>7
<1>11. IsFiniteSet(places) /\ Cardinality(places) = Cardinality(S)
    BY <1>6, FS_Interval
<1> HIDE DEF places
<1>12. rank \in Injection(S, places)
  <2>1. rank \in [S -> places]
      BY <1>5, <1>10
  <2>2. QED
      BY <1>9, <2>1 DEF Injection, IsInjective
<1>13. rank \in Surjection(S, places)
    BY <1>11, <1>12, FS_Injection
<1>14. QED
    BY <1>8, <1>12, <1>13 DEF rank, better, places

\* Best takes as many records as there are places for, no record is left out
\* for a worse one, and none is left out while there is a place.
LEMMA BestFills ==
    ASSUME NEW S \in SUBSET Memory, IsFiniteSet(S), BornApart(S), NEW k \in Nat
    PROVE  /\ Best(k, S) \in SUBSET S /\ IsFiniteSet(Best(k, S))
           /\ k <= Cardinality(S) => Cardinality(Best(k, S)) = k
           /\ Cardinality(S) <= k => Best(k, S) = S
           /\ \A m \in Best(k, S), n \in S \ Best(k, S) : Before(m, n)
<1> DEFINE rank == [m \in S |-> Cardinality({n \in S : Before(n, m)})]
           best == Best(k, S)
           size == Cardinality(S)
           places == 0..(size - 1)
           low == 0..(k - 1)
<1>1. best = {m \in S : rank[m] < k}
    BY DEF Best
<1>2. /\ rank \in Injection(S, places) /\ rank \in Surjection(S, places)
      /\ \A m, n \in S : Before(m, n) => rank[m] < rank[n]
    BY Ranks
<1>3. \A m, n \in S : m = n \/ Before(m, n) \/ Before(n, m)
    BY BeforeOrders
<1> HIDE DEF rank, best
<1>4. size \in Nat
    BY FS_CardinalityType
<1> HIDE DEF size
<1>5. /\ \A m \in S : rank[m] \in Nat /\ rank[m] < size
      /\ \A m, n \in S : rank[m] = rank[n] => m = n
      /\ \A i \in places : \E m \in S : rank[m] = i
  <2>1. /\ rank \in [S -> places]
        /\ \A m, n \in S : rank[m] = rank[n] => m = n
        /\ \A i \in places : \E m \in S : rank[m] = i
      BY <1>2 DEF Injection, IsInjective, Surjection
  <2>2. \A m \in S : rank[m] \in places
      BY <2>1
  <2>3. QED
      BY <1>4, <2>1, <2>2
<1>6. best \in SUBSET S /\ IsFiniteSet(best)
    BY <1>1, FS_Subset
<1>7. ASSUME k <= size PROVE Cardinality(best) = k
  <2> DEFINE f == [m \in best |-> rank[m]]
  <2>1. \A m \in best : f[m] = rank[m] /\ m \in S /\ rank[m] \in Nat /\ rank[m] < k
      BY <1>1, <1>5
  <2>2. \A i \in low : i \in places /\ i < k
      BY <1>4, <1>7
  <2>3. \A i \in low : \E m \in best : f[m] = i
    <3> SUFFICES ASSUME NEW i \in low PROVE \E m \in best : f[m] = i
        OBVIOUS
    <3>1. PICK m \in S : rank[m] = i
        BY <1>5, <2>2
    <3>2. m \in best
        BY <1>1, <2>2, <3>1
    <3>3. QED
        BY <2>1, <3>1, <3>2
  <2>4. f \in [best -> low]
      BY <2>1
  <2>5. \A m, n \in best : f[m] = f[n] => m = n
      BY <1>5, <2>1
  <2> HIDE DEF f
  <2>6. f \in Injection(best, low) /\ f \in Surjection(best, low)
      BY <2>3, <2>4, <2>5 DEF Injection, IsInjective, Surjection
  <2>7. Cardinality(low) = Cardinality(best)
      BY <1>6, <2>6, FS_Surjection
  <2>8. Cardinality(low) = k
      BY FS_Interval
  <2>9. QED
      BY <2>7, <2>8
<1>8. ASSUME size <= k PROVE best = S
  <2>1. \A m \in S : rank[m] < k
      BY <1>4, <1>5, <1>8
  <2>2. QED
      BY <1>1, <2>1
<1>9. ASSUME NEW m \in best, NEW n \in S \ best PROVE Before(m, n)
  <2>1. /\ m \in S /\ rank[m] \in Nat /\ rank[m] < k
        /\ n \in S /\ rank[n] \in Nat /\ ~(rank[n] < k)
      BY <1>1, <1>5
  <2>2. m # n /\ ~(rank[n] < rank[m])
      BY <2>1
  <2>3. QED
      BY <1>2, <1>3, <2>1, <2>2
<1>10. QED
    BY <1>6, <1>7, <1>8, <1>9 DEF best, size

\* How many answers there are room for is what a context holds, and what it
\* quotes besides the schemas is better than what it leaves out.
LEMMA ContextFills ==
    ASSUME NEW memories \in SUBSET Memory, IsFiniteSet(memories), Distinct(memories),
           BornApart(memories), NEW top \in Nat
    PROVE  LET context == RagContext(memories, top)
               answers == Matching(memories)
           IN /\ top <= Cardinality(answers) => Cardinality(context) = top
              /\ Cardinality(answers) <= top => context = answers
              /\ \A m \in context, n \in answers \ context :
                     ~IsSchema(m) => Before(m, n)
<1> DEFINE answers == Matching(memories)
           schemaAnswers == Matching({m \in memories : IsSchema(m)})
           schemas == Schemas(memories, top)
           best == Best(top, answers)
           others == best \ schemas
           room == top - Cardinality(schemas)
           supporting == Best(room, others)
<1>1. /\ answers \in SUBSET memories /\ answers \in SUBSET Memory
      /\ schemaAnswers \in SUBSET answers /\ schemaAnswers \in SUBSET Memory
      /\ \A m \in schemaAnswers : IsSchema(m)
    BY DEF Matching
<1>2. schemas = Best(SchemaTop(top), schemaAnswers)
    BY DEF Schemas, Retrieve
<1>3. SchemaTop(top) \in Nat /\ SchemaTop(top) <= top
    BY DEF SchemaTop
<1>4. RagContext(memories, top)
          = schemas \cup Best(room, {m \in best : \A s \in schemas : s.id # m.id})
    BY DEF RagContext, Retrieve
<1> HIDE DEF answers, schemaAnswers, schemas
<1>5. /\ IsFiniteSet(answers) /\ BornApart(answers)
      /\ IsFiniteSet(schemaAnswers) /\ BornApart(schemaAnswers)
  <2>1. IsFiniteSet(answers) /\ IsFiniteSet(schemaAnswers)
      BY <1>1, FS_Subset
  <2>2. QED
      BY <1>1, <2>1 DEF BornApart
<1>6. /\ schemas \in SUBSET schemaAnswers /\ IsFiniteSet(schemas)
      /\ SchemaTop(top) <= Cardinality(schemaAnswers) => Cardinality(schemas) = SchemaTop(top)
      /\ Cardinality(schemaAnswers) <= SchemaTop(top) => schemas = schemaAnswers
    BY <1>1, <1>2, <1>3, <1>5, BestFills
<1>7. /\ Cardinality(schemas) \in Nat /\ Cardinality(schemas) <= top
      /\ Cardinality(answers) \in Nat
  <2>1. Cardinality(schemas) \in Nat /\ Cardinality(schemaAnswers) \in Nat
        /\ Cardinality(answers) \in Nat
      BY <1>5, <1>6, FS_CardinalityType
  <2>2. Cardinality(schemas) <= SchemaTop(top)
      BY <1>3, <1>6, <2>1
  <2>3. QED
      BY <1>3, <2>1, <2>2
<1>8. /\ best \in SUBSET answers /\ IsFiniteSet(best)
      /\ top <= Cardinality(answers) => Cardinality(best) = top
      /\ Cardinality(answers) <= top => best = answers
      /\ \A m \in best, n \in answers \ best : Before(m, n)
    BY <1>1, <1>5, BestFills
<1> HIDE DEF best
<1>9. {m \in best : \A s \in schemas : s.id # m.id} = others
  <2>1. best \subseteq memories /\ schemas \subseteq memories
      BY <1>1, <1>6, <1>8
  <2>2. \A m \in best, s \in schemas : s.id = m.id <=> s = m
      BY <2>1 DEF Distinct
  <2>3. QED
      BY <2>2
<1>10. /\ others \in SUBSET Memory /\ IsFiniteSet(others) /\ BornApart(others)
       /\ others \in SUBSET best
  <2>1. others \in SUBSET best /\ others \in SUBSET answers
      BY <1>8
  <2>2. QED
      BY <1>1, <1>5, <1>8, <2>1, FS_Subset DEF BornApart
<1>11. room \in Nat
    BY <1>7
<1> HIDE DEF room
<1>12. /\ supporting \in SUBSET others /\ IsFiniteSet(supporting)
       /\ room <= Cardinality(others) => Cardinality(supporting) = room
       /\ Cardinality(others) <= room => supporting = others
       /\ \A m \in supporting, n \in others \ supporting : Before(m, n)
    BY <1>10, <1>11, BestFills
<1> HIDE DEF supporting
<1>13. RagContext(memories, top) = schemas \cup supporting
    BY <1>4, <1>9 DEF supporting
<1>14. /\ Cardinality(others) \in Nat /\ Cardinality(best) \in Nat
       /\ Cardinality(best) <= Cardinality(others) + Cardinality(schemas)
  <2>1. /\ IsFiniteSet(best \cap schemas) /\ Cardinality(best \cap schemas) <= Cardinality(schemas)
      BY <1>6, <1>8, FS_Intersection
  <2>2. Cardinality(others) = Cardinality(best) - Cardinality(best \cap schemas)
      BY <1>8, FS_Difference
  <2>3. /\ Cardinality(others) \in Nat /\ Cardinality(best) \in Nat
        /\ Cardinality(best \cap schemas) \in Nat
      BY <1>8, <1>10, <2>1, FS_CardinalityType
  <2>4. QED
      BY <1>7, <2>1, <2>2, <2>3
<1>15. ASSUME top <= Cardinality(answers) PROVE Cardinality(schemas \cup supporting) = top
  <2>1. Cardinality(best) = top
      BY <1>8, <1>15
  <2>2. room <= Cardinality(others)
      BY <1>7, <1>14, <2>1 DEF room
  <2>3. Cardinality(supporting) = room
      BY <1>12, <2>2
  <2>4. schemas \cap supporting = {}
      BY <1>12
  <2>5. Cardinality(schemas \cup supporting)
            = Cardinality(schemas) + Cardinality(supporting) - Cardinality(schemas \cap supporting)
      BY <1>6, <1>12, FS_Union
  <2>6. Cardinality(schemas \cap supporting) = 0
      BY <2>4, FS_EmptySet
  <2>7. QED
      BY <1>7, <2>3, <2>5, <2>6 DEF room
<1>16. ASSUME Cardinality(answers) <= top PROVE schemas \cup supporting = answers
  <2>1. best = answers
      BY <1>8, <1>16
  <2>2. others = answers \ schemas /\ schemas \in SUBSET answers
      BY <1>1, <1>6, <2>1
  <2>3. Cardinality(others) <= room
    <3>1. answers \cap schemas = schemas
        BY <2>2
    <3>2. Cardinality(others) = Cardinality(answers) - Cardinality(answers \cap schemas)
        BY <1>5, <2>2, FS_Difference
    <3>3. QED
        BY <1>7, <1>16, <3>1, <3>2 DEF room
  <2>4. supporting = others
      BY <1>12, <2>3
  <2>5. QED
      BY <2>2, <2>4
<1>17. ASSUME NEW m \in schemas \cup supporting, NEW n \in answers \ (schemas \cup supporting),
              ~IsSchema(m)
       PROVE  Before(m, n)
  <2>1. m \in supporting
      BY <1>1, <1>6, <1>17
  <2>2. CASE n \in best
    <3>1. n \in others \ supporting
        BY <2>2
    <3>2. QED
        BY <1>12, <2>1, <3>1
  <2>3. CASE n \notin best
      BY <1>8, <1>10, <1>12, <2>1, <2>3
  <2>4. QED
      BY <2>2, <2>3
<1>18. QED
    BY <1>13, <1>15, <1>16, <1>17 DEF answers

\* In a store with distinct ids and places, contexts are filled with the best.
LEMMA ContextOfSound ==
    ASSUME ExchangeInvariant, ExchangeIds
    PROVE  ContextIsBest
<1> DEFINE answers == Matching(store.memories)
<1>1. /\ store.memories \in SUBSET Memory /\ IsFiniteSet(store.memories)
      /\ Distinct(store.memories) /\ BornApart(store.memories)
    BY DEF ExchangeInvariant, ExchangeTypeOK, Store, ExchangeIds, Sound
<1>2. answers \in SUBSET store.memories /\ IsFiniteSet(answers)
    BY <1>1, FS_Subset DEF Matching
<1> SUFFICES ASSUME NEW top \in Tops
             PROVE  LET context == RagContext(store.memories, top)
                    IN /\ Cardinality(context) = Min({top, Cardinality(answers)})
                       /\ \A m \in context, n \in answers \ context :
                              ~IsSchema(m) => ~(Score(n) > Score(m))
    BY DEF ContextIsBest
<1> DEFINE context == RagContext(store.memories, top)
<1>3. top \in Nat /\ Cardinality(answers) \in Nat
    BY <1>2, InputAssumption, FS_CardinalityType DEF Tops
<1>4. /\ top <= Cardinality(answers) => Cardinality(context) = top
      /\ Cardinality(answers) <= top => context = answers
      /\ \A m \in context, n \in answers \ context : ~IsSchema(m) => Before(m, n)
    BY <1>1, <1>3, ContextFills
<1>5. context \subseteq store.memories
    BY DEF RagContext, Schemas, Retrieve, Best, Matching
<1> HIDE DEF answers, context
<1>6. Cardinality(context) = Min({top, Cardinality(answers)})
  <2>1. \A i, j \in Nat : i <= j => Min({i, j}) = i /\ Min({j, i}) = i
    <3> SUFFICES ASSUME NEW i \in Nat, NEW j \in Nat, i <= j
                 PROVE  Min({i, j}) = i /\ Min({j, i}) = i
        OBVIOUS
    <3>1. i \in {i, j} /\ \A y \in {i, j} : i <= y
        OBVIOUS
    <3>2. \A x \in {i, j} : (\A y \in {i, j} : x <= y) => x = i
        OBVIOUS
    <3>3. Min({i, j}) = i
        BY <3>1, <3>2 DEF Min
    <3>4. {j, i} = {i, j}
        OBVIOUS
    <3>5. QED
        BY <3>3, <3>4
  <2>2. CASE top <= Cardinality(answers)
      BY <1>3, <1>4, <2>1, <2>2
  <2>3. CASE Cardinality(answers) <= top
    <3>1. context = answers
        BY <1>4, <2>3
    <3>2. Min({top, Cardinality(answers)}) = Cardinality(answers)
        BY <1>3, <2>1, <2>3
    <3>3. QED
        BY <3>1, <3>2
  <2>4. QED
      BY <1>3, <2>2, <2>3
<1>7. ASSUME NEW m \in context, NEW n \in answers \ context, ~IsSchema(m)
      PROVE  ~(Score(n) > Score(m))
  <2>1. Before(m, n)
      BY <1>4, <1>7
  <2>2. Score(m) \in Nat /\ Score(n) \in Nat
      BY <1>1, <1>2, <1>5, ScoreIsNat
  <2>3. QED
      BY <2>1, <2>2 DEF Before
<1>8. QED
    BY <1>6, <1>7 DEF answers, context

\* Whatever the store holds, a context is filled with the best answers: it has
\* as many as there are or as many as were asked for, and the places that
\* schemas take are never those of a better answer than one it quotes.
THEOREM ContextsAreBest ==
    ASSUME IdsDetermineKeys
    PROVE  ExchangeSpec => []ContextIsBest
<1>1. ExchangeInvariant /\ ExchangeIds => ContextIsBest
    BY ContextOfSound
<1>2. QED
    BY <1>1, ExchangeInvariantHolds, ExchangeIdsHold, PTL

=============================================================================
