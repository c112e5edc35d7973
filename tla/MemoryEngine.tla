---------------------------- MODULE MemoryEngine ----------------------------
(***************************************************************************)
(* A caller of src/engine.mjs that keeps one memory store and replaces it  *)
(* by the store each operation returns.  One action per operation; `last'  *)
(* is the action record the operation returned.                            *)
(***************************************************************************)
EXTENDS MemoryOps

CONSTANTS
    CreateInput,        \* inputs of createMemory
    AccommodateInput,   \* the same for accommodateSchema
    PacketInput,        \* records [id, key, strength, age]
    SchemaInput,        \* the same for rememberSchema
    IntentResult,       \* sequences of such records
    Patch,              \* patches for updateMemory
    ReplacementId,      \* ids callers choose for a superseding record
    GeneratedId,        \* ids supersedeMemory makes of an id and the time
    CallerRelation,     \* relation types callers pass to relateMemories
    CallerId,           \* ids a caller passes to name a memory, NoMemory for a blank one
    Evidence,           \* ids a caller gives as evidence, NoMemory for none
    MaxBirths           \* bound: records ever appended to the store

ASSUME InputAssumption ==
    /\ CreateInput \subseteq CallerInput /\ AccommodateInput \subseteq CallerInput
    /\ PacketInput \subseteq RememberedInput /\ SchemaInput \subseteq RememberedInput
    /\ IntentResult \subseteq Seq(RememberedInput)
    /\ Patch \subseteq PatchInput /\ CallerRelation \subseteq RelationType
    /\ CallerId \subseteq MemoryId \cup {NoMemory} /\ Evidence \subseteq MemoryId \cup {NoMemory}
    /\ ReplacementId \subseteq MemoryId /\ GeneratedId \subseteq MemoryId
    /\ MaxBirths \in Nat

VARIABLES store, last

vars == <<store, last>>

TypeOK ==
    /\ store \in Store
    /\ last \in [op : Operation \cup {"none"}, accepted : BOOLEAN, appended : 0..2]

Init ==
    /\ store = EmptyStore
    /\ last = [op |-> "none", accepted |-> TRUE, appended |-> 0]

Commit(outcome) ==
    /\ store' = outcome.store
    /\ last' = [op |-> outcome.op, accepted |-> outcome.accepted, appended |-> outcome.appended]

MayAppend(n) == store.births + n <= MaxBirths

-----------------------------------------------------------------------------

Create == \E input \in CreateInput : MayAppend(1) /\ Commit(CreateMemory(store, input))

Update == \E id \in CallerId, patch \in Patch : Commit(UpdateMemory(store, id, patch))

Delete == \E id \in CallerId : Commit(HardDelete(store, id))

Forget == \E id \in CallerId : Commit(ForgetMemory(store, id))

Weaken == \E id \in CallerId : Commit(WeakenMemory(store, id))

Correct == \E id \in CallerId : Commit(CreateCorrection(store, id))

Reinforce ==
    \E id \in CallerId, evidence \in Evidence :
        Commit(ReinforceMemory(store, id, evidence))

Assimilate ==
    \E id \in CallerId, evidence \in Evidence :
        Commit(AssimilateEvidence(store, id, evidence))

Accommodate ==
    \E input \in AccommodateInput, evidence \in Evidence :
        MayAppend(1) /\ Commit(AccommodateSchema(store, input, evidence))

\* An id the caller does not choose is made of the previous id and the time,
\* and no record has it yet.
FreshId == {id \in GeneratedId : ~Has(store, id)}

Supersede ==
    \E id \in CallerId, replacementId \in ReplacementId \cup FreshId :
        MayAppend(1) /\ Commit(SupersedeMemory(store, id, replacementId))

Relate ==
    \E from \in CallerId, to \in CallerId, type \in CallerRelation :
        Commit(RelateMemories(store, from, to, type))

LinkToEvidence ==
    \E from \in CallerId, to \in Evidence :
        Commit(LinkIntentToEvidence(store, from, to))

RememberAPacket ==
    \E input \in PacketInput : MayAppend(1) /\ Commit(RememberPacket(store, input))

RememberASchema ==
    \/ Commit(RememberNoSchema(store))
    \/ \E input \in SchemaInput : MayAppend(1) /\ Commit(RememberSchema(store, input))

RememberIntents ==
    \E intents \in IntentResult :
        MayAppend(Len(intents)) /\ Commit(RememberIntent(store, intents))

Snapshot == Commit(Outcome(AttachSnapshot(store), "attach_snapshot", TRUE, 0))

Compact == Commit(Outcome(CompactStore(store), "compact", TRUE, 0))

\* Time passes between two calls.
Tick == Commit(Outcome(AgeStore(store), "tick", TRUE, 0))

Next ==
    \/ Create \/ Update \/ Delete \/ Forget
    \/ Weaken \/ Correct \/ Reinforce \/ Assimilate \/ Accommodate
    \/ Supersede \/ Relate \/ LinkToEvidence
    \/ RememberAPacket \/ RememberASchema \/ RememberIntents
    \/ Snapshot \/ Compact \/ Tick

Spec == Init /\ [][Next]_vars

-----------------------------------------------------------------------------
(* Properties.                                                             *)

\* An id names at most one memory: createMemory refuses an id that exists and
\* a remembered record is merged into the one that has its key, so readMemory,
\* updateMemory and the action log always mean one record.
UniqueIds ==
    \A m, n \in store.memories : m.id = n.id => m = n

\* What makes the ids unique: the id that the remember operations derive from
\* an input goes with one merge key, no caller gives it to a record of another
\* key, no patch takes a derived key away, and superseding records get ids that
\* are made for them.  A slug that maps two schema ids to one memory id breaks
\* the first part, an edit of the label that an intent is merged by the third.
DerivedInput ==
    PacketInput \cup SchemaInput \cup UNION {{x[i] : i \in DOMAIN x} : x \in IntentResult}

IdsDetermineKeys ==
    /\ \A d, e \in DerivedInput : d.id = e.id => d.key = e.key
    /\ \A d \in DerivedInput, input \in CreateInput \cup AccommodateInput :
           input.id = d.id => input.key = d.key
    /\ \A d \in DerivedInput, patch \in Patch : patch.key[d.key] = d.key
    /\ ReplacementId = {}
    /\ \A d \in DerivedInput : d.id \notin GeneratedId

\* The inductive form of UniqueIds: a record that has a derived id also has
\* the key that goes with it, so a remember merges into it.
DerivedIdsKeepKeys ==
    \A m \in store.memories, d \in DerivedInput : m.id = d.id => m.key = d.key

IdInvariant == UniqueIds /\ DerivedIdsKeepKeys

\* Right after a remember no two records share a merge key: buildMemoryStore
\* merges every duplicate, those an earlier operation left behind included.
RememberSteps == {"remember_packet", "remember_schema", "remember_intent"}

RememberMergesAll ==
    last.op \in RememberSteps /\ last.accepted =>
        \A m, n \in store.memories : m.key = n.key => m = n

\* An operation that reports accepted: false has changed no memory and added
\* no relation, on any of the paths that refuse a call.
RejectedAddsNothing ==
    [][last'.accepted \/ /\ store'.memories = store.memories
                         /\ store'.relations \subseteq store.relations]_vars

\* A memory id leaves the store only by a hard delete of it, by compaction of
\* a forgotten or superseded record, or because a remember merged the record
\* into an older one with the same key.
OnlyDeletionLosesMemories ==
    [][\A m \in store.memories :
          \/ \E n \in store'.memories : n.id = m.id
          \/ last'.op = "delete_memory"
          \/ last'.op = "compact" /\ Reclaimable(m)
          \/ last'.op \in RememberSteps /\ \E n \in store'.memories : n.key = m.key]_vars

\* Whatever is merged, decayed, reinforced or related, a forgotten memory that
\* stays in the store stays out of use until the user edits it; weakenMemory
\* is the one operation left out here (see ForgottenStaysForgotten).
OnlyEditRevivesForgotten ==
    [][\A m \in store.memories, n \in store'.memories :
          n.id = m.id /\ m.state = "forgotten" /\ last'.op \notin {"update_memory", "weaken_memory"} =>
              n.state \in {"forgotten", "superseded"}]_vars

\* Deleting, compacting, relating and superseding never leave a relation that
\* names a memory the store does not have.
Closed(s) == \A r \in s.relations : Has(s, r.from) /\ Has(s, r.to)

OpensRelations ==
    RememberSteps \cup {"link_intent_to_evidence", "reinforce_memory",
                        "assimilate_evidence", "accommodate_schema"}

RelationsStayClosed ==
    [][Closed(store) /\ last'.op \notin OpensRelations => Closed(store')]_vars

\* Supersession is recorded in both directions or in none: as long as callers
\* relate memories by other types only, a supersedes relation has its mirror.
SupersessionMirrored ==
    \A r \in store.relations :
        /\ r.type = "supersedes" =>
               [from |-> r.to, to |-> r.from, type |-> "superseded_by"] \in store.relations
        /\ r.type = "superseded_by" =>
               [from |-> r.to, to |-> r.from, type |-> "supersedes"] \in store.relations

-----------------------------------------------------------------------------
(* Properties the repository's words promise and the code breaks.          *)

\* MEMACT.md:29: "`forgotten`: Deleted at your request."  No operation but an
\* edit by the user puts a forgotten memory into another live state.
ForgottenStaysForgotten ==
    [][\A m \in store.memories, n \in store'.memories :
          n.id = m.id /\ m.state = "forgotten" /\ last'.op # "update_memory" =>
              n.state \in {"forgotten", "superseded"}]_vars

\* scripts/check.mjs:504: "Expected supersession to preserve old memory and
\* add replacement."  A remember that decays nothing keeps a live record for
\* every key that had one.
Lively(m) == m.state = "active" /\ m.age = 0 /\ m.strength > Retention

RememberKeepsLiveKeys ==
    [][last'.op \in RememberSteps =>
          \A m \in store.memories : Lively(m) =>
              \E n \in store'.memories : n.key = m.key /\ n.state = "active"]_vars

\* engine.mjs:1020, the reason of an accepted remember_packet: "packet
\* retained".  A packet of today under a key the store has not met is live.
RetainedPacketIsLive ==
    [][last'.op = "remember_packet" /\ last'.accepted =>
          \A n \in store'.memories :
              n.born = store'.births /\ n.age = 0 => n.state = "active"]_vars

=============================================================================
