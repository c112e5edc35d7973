----------------------------- MODULE MemoryOps -----------------------------
(***************************************************************************)
(* The operations of the memory engine (src/engine.mjs) as pure operators  *)
(* on a store, the way the code writes them: every operation takes a store *)
(* and returns the next one with the action record that reports it.        *)
(*                                                                         *)
(* The array of memories is a set of records numbered by `born', the order *)
(* in which they were appended.  The engine looks at the order of the      *)
(* array to decide which of two records with one merge key is kept and     *)
(* which of two records with one id is read.  Of two records with one key  *)
(* the first one appended comes first, since buildMemoryStore sorts when   *)
(* no two records share a key any more; of two records with one id, which  *)
(* exist only where UniqueIds fails, the model reads the first appended.   *)
(*                                                                         *)
(* Strengths are levels 0..MaxStrength, ages are levels 0..StaleAge whose  *)
(* last one stands for "30 days or more".  Text, sources, themes and the   *)
(* derived fields that every operation recomputes from memories and        *)
(* relations (graph, stats, the lists per type) are left out.              *)
(***************************************************************************)
EXTENDS Integers, Sequences, FiniteSets, FiniteSetsExt

CONSTANTS
    MemoryId,           \* ids a memory may have
    NoMemory,           \* the blank id: a null result, an absent reference
    MergeKey,           \* what mergeDuplicateMemories identifies records by
    SchemaKey,          \* the merge keys of cognitive schema memories
    MaxStrength,        \* the level that stands for strength 1
    Retention,          \* DEFAULT_RETENTION_THRESHOLD
    WeakLevel,          \* at or below it weakenMemory marks a memory weak
    Gain,               \* what each strengthening step adds
    Loss,               \* what each weakening step takes
    StaleAge,           \* the age level that stands for 30 days or more
    DecayPerAge,        \* strength lost per age level in decayMemory
    SnapshotRetention   \* graph snapshots attachGraphSnapshot keeps

GainSteps == {"reinforce", "assimilate", "correct", "merge", "supersede"}
LossSteps == {"weaken", "supersede"}

ASSUME NoMemoryAssumption == NoMemory \notin MemoryId
ASSUME KeyAssumption == SchemaKey \subseteq MergeKey
ASSUME LevelAssumption ==
    /\ MaxStrength \in Nat /\ StaleAge \in Nat /\ DecayPerAge \in Nat
    /\ Retention \in 0..MaxStrength /\ WeakLevel \in 0..MaxStrength
    /\ Gain \in [GainSteps -> Nat] /\ Loss \in [LossSteps -> Nat]
    /\ SnapshotRetention \in Nat \ {0}

\* "approved" also stands for accepted, edited and user_verified.
MemoryState ==
    {"active", "approved", "pending", "rejected", "weak", "forgotten", "superseded"}

\* The relation types the properties tell apart; every other type of
\* MEMORY_RELATION_TYPES is "related".
RelationType == {"supersedes", "superseded_by", "related"}

\* `status' is "" where the record has no such field (remembered packets,
\* schemas and intents).  `foreign' says that the record carries a key that
\* the backup schema of its type does not list.
Memory == [id : MemoryId, key : MergeKey, born : Nat,
           status : MemoryState \cup {""}, state : MemoryState,
           strength : 0..MaxStrength, age : 0..StaleAge,
           superseded_by : MemoryId \cup {NoMemory}, foreign : BOOLEAN]

Relation == [from : MemoryId, to : MemoryId, type : RelationType]

\* What a caller gives createMemory: "" and age 0 where it gives no state and no
\* last_seen_at; `foreign' where a key or a value of it is none that the backup
\* schema lists.  (The spread of the input also keeps a strength outside of
\* 0..1 as it is; callers here give one within.)
CallerInput == [id : MemoryId, key : MergeKey, status : MemoryState \cup {""},
                state : MemoryState \cup {""}, strength : 0..MaxStrength,
                age : 0..StaleAge, foreign : BOOLEAN]

\* What the remember operations derive from a packet, a schema or an intent.

RememberedInput == [id : MemoryId, key : MergeKey,
                    strength : 0..MaxStrength, age : 0..StaleAge]

\* A patch: a status and a state, "" where it names none; what it makes of the
\* merge key, the strength and `foreign' of a record, the same where it leaves
\* them alone; and the age of the last_seen_at it names, 0 where it names none.
\* The merge key changes with type, label, schema_id, intent_id or packet id.
PatchInput == [status : MemoryState \cup {""}, state : MemoryState \cup {""},
               key : [MergeKey -> MergeKey], strength : [0..MaxStrength -> 0..MaxStrength],
               age : 0..StaleAge, foreign : [BOOLEAN -> BOOLEAN]]

\* A patch that sets status and state only.
StatePatch(status, state) ==
    [status |-> status, state |-> state, key |-> [k \in MergeKey |-> k],
     strength |-> [n \in 0..MaxStrength |-> n], age |-> 0,
     foreign |-> [b \in BOOLEAN |-> b]]

\* The types of action record the operations return; the last three name what
\* the engine does to a store without one.
Operation ==
    {"create_memory", "update_memory", "delete_memory", "forget_memory", "weaken_memory",
     "correction_record", "reinforce_memory", "assimilate_evidence", "accommodate_schema",
     "supersede_memory", "relate_memories", "link_intent_to_evidence",
     "remember_packet", "remember_schema", "remember_intent",
     "attach_snapshot", "compact", "tick"}

\* `logged' holds the memory ids the action log names, `snapshots' how many
\* graph snapshots the store carries, `births' how many records were appended.
Store == [memories : SUBSET Memory, relations : SUBSET Relation,
          logged : SUBSET (MemoryId \cup {NoMemory}),
          snapshots : 0..SnapshotRetention, births : Nat]

\* What an operation returns: the store, and the part of its action record
\* that says whether it was accepted; `appended' counts the log entries.
Outcome(store, op, accepted, appended) ==
    [store |-> store, op |-> op, accepted |-> accepted, appended |-> appended]

EmptyStore == [memories |-> {}, relations |-> {}, logged |-> {},
               snapshots |-> 0, births |-> 0]

-----------------------------------------------------------------------------
(* Reading a store.                                                        *)
(*                                                                         *)
(* An operator named Faulty... is what the operator after it would be with *)
(* a plausible mistake.  No specification uses one: each shows that a      *)
(* property of the runs would notice the mistake.                          *)

Clamp(n) == IF n \in 0..MaxStrength THEN n ELSE IF n < 0 THEN 0 ELSE MaxStrength

Has(store, id) == \E m \in store.memories : m.id = id

First(memories) == CHOOSE m \in memories : \A n \in memories : m.born <= n.born

ReadMemory(store, id) == First({m \in store.memories : m.id = id})

-----------------------------------------------------------------------------
(* The pieces the operations are built from.                               *)

Log(store, id) == [store EXCEPT !.logged = @ \cup {id}]

MapMemories(store, id, Mutate(_)) ==
    [store EXCEPT !.memories = {IF m.id = id THEN Mutate(m) ELSE m : m \in @}]

AppendMemory(store, memory) ==
    [store EXCEPT !.memories = @ \cup {memory}, !.births = @ + 1]

\* emptyMemoryStore rebuilds the store from a list of fields that lacks
\* graph_snapshots.
WithoutSnapshots(store) == [store EXCEPT !.snapshots = 0]

WithRelation(store, from, to, type) ==
    [store EXCEPT !.relations = @ \cup {[from |-> from, to |-> to, type |-> type]}]

\* addRelation after an operation that already logged its action.
AddRelation(outcome, from, to, type) ==
    [outcome EXCEPT !.store = WithRelation(@, from, to, type)]

ApplyMemoryAction(store, op, id, Mutate(_)) ==
    Outcome(Log(MapMemories(store, id, Mutate), id), op, Has(store, id), 1)

\* normalizeMemoryInput: the spread of the input comes after the fields that are
\* made of it, so whatever else the input carries stays in the record.
NormalizeInput(input, born) ==
    [id |-> input.id, key |-> input.key, born |-> born,
     status |-> IF input.status # "" THEN input.status
                ELSE IF input.state # "" THEN input.state ELSE "active",
     state |-> IF input.state # "" THEN input.state ELSE "active",
     strength |-> input.strength, age |-> input.age,
     superseded_by |-> NoMemory, foreign |-> input.foreign]

-----------------------------------------------------------------------------
(* Create, read, update, delete.                                           *)

CreateMemory(store, input) ==
    IF Has(store, input.id)
    THEN Outcome(WithoutSnapshots(store), "create_memory", FALSE, 0)
    ELSE Outcome(Log(AppendMemory(store, NormalizeInput(input, store.births + 1)), input.id),
                 "create_memory", TRUE, 1)

\* The record and the patch are spread into one input; only the id stays.
Patched(m, patch) ==
    LET state == IF patch.state # "" THEN patch.state ELSE m.state
        status == IF patch.status # "" THEN patch.status ELSE m.status
    IN [m EXCEPT !.state = state,
                 !.status = IF status # "" THEN status ELSE state,
                 !.key = patch.key[@],
                 !.strength = patch.strength[@],
                 !.age = patch.age,
                 !.foreign = patch.foreign[@]]

UpdateMemory(store, id, patch) ==
    ApplyMemoryAction(store, "update_memory", id, LAMBDA m : Patched(m, patch))

\* Only the relations that leave the memory are removed.
FaultyHardDelete(store, id) ==
    Outcome(Log([store EXCEPT
                    !.memories = {m \in @ : m.id # id},
                    !.relations = {r \in @ : r.from # id}], id),
            "delete_memory", Has(store, id), 1)

HardDelete(store, id) ==
    Outcome(Log([store EXCEPT
                    !.memories = {m \in @ : m.id # id},
                    !.relations = {r \in @ : r.from # id /\ r.to # id}], id),
            "delete_memory", Has(store, id), 1)

ForgetMemory(store, id) ==
    ApplyMemoryAction(store, "forget_memory", id,
        LAMBDA m : [m EXCEPT !.strength = 0, !.state = "forgotten"])

-----------------------------------------------------------------------------
(* Strengthening, weakening, correcting.                                   *)

\* The strength is not clamped.
FaultyWeakenMemory(store, id) ==
    ApplyMemoryAction(store, "weaken_memory", id,
        LAMBDA m : [m EXCEPT !.strength = @ - Loss["weaken"],
                             !.state = IF m.strength <= WeakLevel THEN "weak" ELSE @])

WeakenMemory(store, id) ==
    ApplyMemoryAction(store, "weaken_memory", id,
        LAMBDA m : [m EXCEPT !.strength = Clamp(@ - Loss["weaken"]),
                             !.state = IF m.strength <= WeakLevel THEN "weak" ELSE @])

\* `corrections' is no key of any memory type of the backup schema.
CreateCorrection(store, id) ==
    ApplyMemoryAction(store, "correction_record", id,
        LAMBDA m : [m EXCEPT !.strength = Clamp(@ + Gain["correct"]), !.foreign = TRUE])

\* The evidence names another memory, or none: then the relation points back.
EvidenceTarget(id, evidence) == IF evidence = NoMemory THEN id ELSE evidence

ReinforceMemory(store, id, evidence) ==
    LET outcome == ApplyMemoryAction(store, "reinforce_memory", id,
                       LAMBDA m : [m EXCEPT !.strength = Clamp(@ + Gain["reinforce"])])
    IN IF outcome.accepted
       THEN AddRelation(outcome, id, EvidenceTarget(id, evidence), "related")
       ELSE outcome

\* Assimilation writes support, evidence_packet_ids and schema_state, which
\* only the schema types may carry in a backup.
AssimilateEvidence(store, id, evidence) ==
    LET outcome == ApplyMemoryAction(store, "assimilate_evidence", id,
                       LAMBDA m : [m EXCEPT !.strength = Clamp(@ + Gain["assimilate"]),
                                            !.age = 0,
                                            !.foreign = @ \/ m.key \notin SchemaKey])
    IN IF outcome.accepted
       THEN AddRelation(outcome, id, EvidenceTarget(id, evidence), "related")
       ELSE outcome

AccommodateSchema(store, input, evidence) ==
    LET created == CreateMemory(store, input)
    IN IF created.accepted
       THEN AddRelation(Outcome(created.store, "accommodate_schema", TRUE, 2),
                        input.id, EvidenceTarget(input.id, evidence), "related")
       ELSE created

-----------------------------------------------------------------------------
(* Supersession.                                                           *)

\* The spread of the previous record comes last and wins the id.
FaultyReplacement(previous, id, born) ==
    [previous EXCEPT !.born = born, !.state = "active",
                     !.status = IF @ # "" THEN @ ELSE "active",
                     !.strength = Clamp(@ + Gain["supersede"]),
                     !.age = 0, !.foreign = TRUE]

\* The replacement spreads the previous record, its superseded_by included,
\* and adds `supersedes', which no memory type of the backup schema lists.
Replacement(previous, id, born) ==
    [previous EXCEPT !.id = id, !.born = born, !.state = "active",
                     !.status = IF @ # "" THEN @ ELSE "active",
                     !.strength = Clamp(@ + Gain["supersede"]),
                     !.age = 0, !.foreign = TRUE]

Superseded(m, by) ==
    [m EXCEPT !.state = "superseded", !.superseded_by = by,
              !.strength = Clamp(@ - Loss["supersede"]), !.foreign = TRUE]

SupersedeMemory(store, id, replacementId) ==
    IF ~Has(store, id)
    THEN Outcome(WithoutSnapshots(store), "supersede_memory", FALSE, 0)
    ELSE LET replacement == Replacement(ReadMemory(store, id), replacementId, store.births + 1)
             marked == MapMemories(store, id, LAMBDA m : Superseded(m, replacementId))
             next == Log(AppendMemory(marked, replacement), id)
         IN Outcome(WithRelation(WithRelation(next, replacementId, id, "supersedes"),
                                 id, replacementId, "superseded_by"),
                    "supersede_memory", TRUE, 1)

-----------------------------------------------------------------------------
(* Relations.                                                              *)

RelateMemories(store, from, to, type) ==
    IF Has(store, from) /\ Has(store, to)
    THEN Outcome(WithRelation(Log(store, from), from, to, type), "relate_memories", TRUE, 1)
    ELSE Outcome(WithoutSnapshots(store), "relate_memories", FALSE, 0)

\* Only blank endpoints are refused: neither end has to exist.
LinkIntentToEvidence(store, from, to) ==
    IF from = NoMemory \/ to = NoMemory
    THEN Outcome(WithoutSnapshots(store), "link_intent_to_evidence", FALSE, 0)
    ELSE Outcome(WithRelation(Log(store, from), from, to, "related"),
                 "link_intent_to_evidence", TRUE, 1)

-----------------------------------------------------------------------------
(* Remembering: merge, decay, rebuild.                                     *)

\* What activityMemoryFromRecord, schemaMemoryFromSchema and
\* intentMemoryFromIntent make of an input [id, key, strength, age].
RememberedMemory(input, born) ==
    [id |-> input.id, key |-> input.key, born |-> born,
     status |-> "", state |-> "active", strength |-> input.strength,
     age |-> input.age, superseded_by |-> NoMemory, foreign |-> FALSE]

SameKey(m, memories) == {n \in memories : n.key = m.key}

\* The first record of a merge key is kept; each later one raises it to the
\* larger strength of the two plus the merge gain.
Merged(group) ==
    LET first == First(group)
        later(m) == Cardinality({n \in group : n # first /\ n.born >= m.born})
    IN [first EXCEPT !.strength = Clamp(Max({m.strength + Gain["merge"] * later(m) : m \in group})),
                     !.age = Min({m.age : m \in group})]

\* Duplicates stay.
FaultyMergeDuplicates(memories) == memories

MergeDuplicates(memories) == {Merged(SameKey(m, memories)) : m \in memories}

\* Whatever has not expired becomes active.
FaultyDecayed(m) ==
    LET strength == Clamp(m.strength - m.age * DecayPerAge)
        expired == m.age >= StaleAge \/ strength <= Retention
    IN [m EXCEPT !.strength = strength,
                 !.state = IF expired THEN "forgotten" ELSE "active"]

Decayed(m) ==
    LET strength == Clamp(m.strength - m.age * DecayPerAge)
        expired == m.age >= StaleAge \/ strength <= Retention
    IN [m EXCEPT !.strength = strength,
                 !.state = IF expired THEN "forgotten" ELSE @]

\* What the passing of time does to the last_seen_at ages decayMemory reads.
Aged(m) == [m EXCEPT !.age = IF @ < StaleAge THEN @ + 1 ELSE @]

AgeStore(store) == [store EXCEPT !.memories = {Aged(m) : m \in @}]

\* Expired records are dropped where they should be marked.
FaultyBuildMemoryStore(store, inputs) ==
    LET news == {RememberedMemory(inputs[i], store.births + i) : i \in DOMAIN inputs}
        decayed == {Decayed(m) : m \in MergeDuplicates(store.memories \cup news)}
    IN [store EXCEPT !.memories = {m \in decayed : m.state # "forgotten"},
                     !.births = @ + Len(inputs),
                     !.snapshots = 0]

\* inputs is a sequence of remembered inputs, in the order of the batch.
BuildMemoryStore(store, inputs) ==
    LET news == {RememberedMemory(inputs[i], store.births + i) : i \in DOMAIN inputs}
    IN [store EXCEPT !.memories = {Decayed(m) : m \in MergeDuplicates(@ \cup news)},
                     !.births = @ + Len(inputs),
                     !.snapshots = 0]

\* The store is rebuilt before the packet is looked at.
FaultyRememberPacket(store, input) ==
    IF input.strength < Retention
    THEN Outcome(BuildMemoryStore(store, <<>>), "remember_packet", FALSE, 0)
    ELSE Outcome(Log(BuildMemoryStore(store, <<input>>), input.id), "remember_packet", TRUE, 1)

RememberPacket(store, input) ==
    IF input.strength < Retention
    THEN Outcome(store, "remember_packet", FALSE, 0)
    ELSE Outcome(Log(BuildMemoryStore(store, <<input>>), input.id), "remember_packet", TRUE, 1)

RememberSchema(store, input) ==
    Outcome(Log(BuildMemoryStore(store, <<input>>), input.id), "remember_schema", TRUE, 1)

\* schemaMemoryFromSchema makes nothing of a schema without an id.
RememberNoSchema(store) == Outcome(store, "remember_schema", FALSE, 0)

\* A result without intents is refused and logged, under a blank id.
FaultyRememberIntent(store, intents) ==
    IF intents = <<>>
    THEN Outcome(Log(store, NoMemory), "remember_intent", FALSE, 1)
    ELSE Outcome(Log(BuildMemoryStore(store, intents), intents[1].id), "remember_intent", TRUE, 1)

\* One result may carry several intents; the log names the first one only.
RememberIntent(store, intents) ==
    IF intents = <<>>
    THEN Outcome(store, "remember_intent", FALSE, 0)
    ELSE Outcome(Log(BuildMemoryStore(store, intents), intents[1].id), "remember_intent", TRUE, 1)

-----------------------------------------------------------------------------
(* Graph snapshots and compaction.                                         *)

AttachSnapshot(store) ==
    [store EXCEPT !.snapshots = IF @ < SnapshotRetention THEN @ + 1 ELSE @]

\* RECLAIMABLE_MEMORY_STATES; the model has no "deleted".
Reclaimable(m) == m.state \in {"forgotten", "superseded"}

ReclaimableIds(store) == {m.id : m \in {n \in store.memories : Reclaimable(n)}}

\* Only the relations that leave a removed memory are removed.
FaultyCompactStore(store) ==
    LET removed == ReclaimableIds(store)
    IN [store EXCEPT !.memories = {m \in @ : ~Reclaimable(m)},
                     !.relations = {r \in @ : r.from \notin removed},
                     !.logged = @ \ removed]

CompactStore(store) ==
    LET removed == ReclaimableIds(store)
    IN [store EXCEPT !.memories = {m \in @ : ~Reclaimable(m)},
                     !.relations = {r \in @ : r.from \notin removed /\ r.to \notin removed},
                     !.logged = @ \ removed]

=============================================================================
