--------------------------- MODULE RepositoryProofs ---------------------------
(***************************************************************************)
(* Theorems about Repository: however the two halves of calls and of runs  *)
(* of the daemon interleave, for any number of both, the disk stays a      *)
(* store that loads if callers keep to the schema, ids stay distinct, and  *)
(* only a call in flight can lose a memory or bring one back.              *)
(***************************************************************************)
EXTENDS Repository, MemoryOpsProofs

-----------------------------------------------------------------------------
(* What a step does.                                                       *)

\* What a client may save, and what a run of the daemon saves, after it loaded s.
Computed(s, o) ==
    \/ \E input \in CreateInput : o = CreateMemory(s, input)
    \/ \E id \in CallerId, patch \in Patch : o = UpdateMemory(s, id, patch)
    \/ \E id \in CallerId : o = ForgetMemory(s, id)
    \/ \E id \in CallerId : o = HardDelete(s, id)
    \/ \E intents \in IntentResult : o = RememberIntent(s, intents)
    \/ \E ids \in LinkedIds : o = RelateMemories(s, ids[1], ids[2], "related")
    \/ \E ids \in LinkedIds : o = LinkIntentToEvidence(s, ids[1], ids[2])

Compacted(s) == Outcome(CompactStore(s), "compact", TRUE, 0)

\* Nothing is saved: a process loads the disk, or gives up what it loaded.
Unsaved ==
    /\ UNCHANGED <<disk, last>>
    /\ calls' = calls \/ (calls' = calls + 1 /\ calls < MaxCalls)
    /\ stopped' \in BOOLEAN
    /\ \A p \in Process :
           \/ copy'[p] = copy[p]
           \/ copy'[p] = Idle
           \/ /\ ValidBackup(disk) /\ copy'[p] = disk
              /\ p \in Client => calls' = calls + 1
    /\ copy' \in [Process -> Store \cup {Idle}]

\* The half of a call that loads saves nothing, and the other half saves an
\* outcome of what was loaded.
LEMMA LoadShape ==
    ASSUME TypeOK, NEW p \in Process, Load(p)
    PROVE  /\ UNCHANGED <<disk, last, stopped>> /\ ValidBackup(disk)
           /\ copy' \in [Process -> Store \cup {Idle}]
           /\ copy'[p] = disk
           /\ \A q \in Process \ {p} : copy'[q] = copy[q]
BY DEF Load, TypeOK

\* A process gives up or has saved what it loaded.
LEMMA IdleShape ==
    ASSUME TypeOK, NEW p \in Process, copy' = [copy EXCEPT ![p] = Idle]
    PROVE  /\ copy' \in [Process -> Store \cup {Idle}]
           /\ copy'[p] = Idle
           /\ \A q \in Process \ {p} : copy'[q] = copy[q]
BY DEF TypeOK

\* The second half of a call saves an outcome, or is a read.
LEMMA EndSaves ==
    ASSUME TypeOK, NEW c \in Client, EndCall(c)
    PROVE  \/ Unsaved
           \/ InCall(c) /\ \E o : Computed(copy[c], o) /\ Save(c, o)
<1>1. CASE Create(c)
    BY <1>1 DEF Create, Computed
<1>2. CASE Update(c)
    BY <1>2 DEF Update, Computed
<1>3. CASE Delete(c)
    BY <1>3 DEF Delete, Computed
<1>4. CASE RememberIntents(c)
    BY <1>4 DEF RememberIntents, Computed
<1>5. CASE LinkToSchema(c)
    BY <1>5 DEF LinkToSchema, Computed
<1>6. CASE LinkToEvidence(c)
    BY <1>6 DEF LinkToEvidence, Computed
<1>7. CASE Read(c)
  <2>1. copy' = [copy EXCEPT ![c] = Idle] /\ UNCHANGED <<disk, calls, stopped, last>>
      BY <1>7 DEF Read
  <2>2. c \in Process
      BY DEF Process
  <2>3. QED
      BY <2>1, <2>2, IdleShape DEF Unsaved, TypeOK
<1>8. QED
    BY <1>1, <1>2, <1>3, <1>4, <1>5, <1>6, <1>7 DEF EndCall

\* Every step is one of three kinds.
LEMMA StepSaves ==
    ASSUME TypeOK, [Next]_vars
    PROVE  \/ Unsaved
           \/ \E c \in Client : InCall(c) /\ \E o : Computed(copy[c], o) /\ Save(c, o)
           \/ \E r \in Run : InCall(r) /\ Save(r, Compacted(copy[r]))
<1> USE DEF Process
<1>1. CASE UNCHANGED vars
    BY <1>1 DEF vars, Unsaved, TypeOK
<1>2. ASSUME NEW c \in Client, StartCall(c) PROVE Unsaved
  <2>1. Load(c) /\ calls < MaxCalls /\ calls' = calls + 1
      BY <1>2 DEF StartCall
  <2>2. QED
      BY <2>1, LoadShape DEF Unsaved, TypeOK
<1>3. ASSUME NEW c \in Client, EndCall(c)
      PROVE  Unsaved \/ (InCall(c) /\ \E o : Computed(copy[c], o) /\ Save(c, o))
    BY <1>3, EndSaves
<1>4. ASSUME NEW r \in Run, StartRun(r) PROVE Unsaved
  <2>1. Load(r) /\ calls' = calls /\ r \notin Client
      BY <1>4, ProcessAssumption DEF StartRun
  <2>2. QED
      BY <2>1, LoadShape DEF Unsaved, TypeOK
<1>5. ASSUME NEW r \in Run, EndRun(r)
      PROVE  Unsaved \/ (InCall(r) /\ Save(r, Compacted(copy[r])))
  <2>1. CASE ReclaimableIds(copy[r]) # {}
      BY <1>5, <2>1 DEF EndRun, Compacted
  <2>2. CASE ReclaimableIds(copy[r]) = {}
    <3>1. copy' = [copy EXCEPT ![r] = Idle] /\ UNCHANGED <<disk, calls, stopped, last>>
        BY <1>5, <2>2 DEF EndRun
    <3>2. QED
        BY <3>1, IdleShape DEF Unsaved, TypeOK
  <2>3. QED
      BY <2>1, <2>2
<1>6. CASE Stop
    BY <1>6 DEF Stop, Unsaved, TypeOK
<1>7. QED
    BY <1>1, <1>2, <1>3, <1>4, <1>5, <1>6 DEF Next

\* What is computed of a typed store is a typed store.
LEMMA ComputedType ==
    ASSUME NEW s \in Store, NEW o, Computed(s, o)
    PROVE  o \in OutcomeType
<1> USE CallAssumption
<1>1. CASE \E input \in CreateInput : o = CreateMemory(s, input)
    BY <1>1, CreateType
<1>2. CASE \E id \in CallerId, patch \in Patch : o = UpdateMemory(s, id, patch)
    BY <1>2, UpdateType
<1>3. CASE \E id \in CallerId : o = ForgetMemory(s, id)
    BY <1>3, ForgetType
<1>4. CASE \E id \in CallerId : o = HardDelete(s, id)
    BY <1>4, DeleteType
<1>5. CASE \E intents \in IntentResult : o = RememberIntent(s, intents)
    BY <1>5, RememberType
<1>6. \A ids \in LinkedIds : {ids[1], ids[2]} \subseteq MemoryId \cup {NoMemory}
    OBVIOUS
<1>7. "related" \in RelationType
    BY DEF RelationType
<1>8. CASE \E ids \in LinkedIds : o = RelateMemories(s, ids[1], ids[2], "related")
    BY <1>6, <1>7, <1>8, RelateType
<1>9. CASE \E ids \in LinkedIds : o = LinkIntentToEvidence(s, ids[1], ids[2])
    BY <1>6, <1>9, LinkType
<1>10. QED
    BY <1>1, <1>2, <1>3, <1>4, <1>5, <1>8, <1>9 DEF Computed

\* So is what a run of the daemon saves,
LEMMA CompactedType ==
    ASSUME NEW s \in Store
    PROVE  Compacted(s) \in OutcomeType
<1>1. "compact" \in Operation /\ 0 \in 0..2
    BY DEF Operation
<1>2. QED
    BY <1>1, UnloggedType, OutcomeTyped DEF Compacted

\* and saving it keeps the types.
LEMMA SaveType ==
    ASSUME TypeOK, NEW p \in Process, NEW o \in OutcomeType, Save(p, o)
    PROVE  TypeOK'
<1>1. o.store \in Store /\ o.op \in Operation /\ o.accepted \in BOOLEAN /\ o.appended \in 0..2
    BY DEF OutcomeType
<1>2. copy' \in [Process -> Store \cup {Idle}]
    BY IdleShape DEF Save
<1>3. QED
    BY <1>1, <1>2 DEF Save, TypeOK

\* What a call in flight holds is a store.
LEMMA Loaded ==
    ASSUME TypeOK, NEW p \in Process, InCall(p)
    PROVE  copy[p] \in Store
BY DEF TypeOK, InCall

\* The disk and every store that a call or a run holds keep their shape.
THEOREM RepositoryTypeCorrect == Spec => []TypeOK
<1>1. Init => TypeOK
  <2>1. EmptyStore \in Store
      BY LevelAssumption DEF EmptyStore, Store
  <2>2. 0 \in 0..MaxCalls /\ 0 \in 0..2
      BY CallAssumption
  <2>3. [op |-> "none", accepted |-> TRUE, appended |-> 0]
            \in [op : Operation \cup {"none"}, accepted : BOOLEAN, appended : 0..2]
      BY <2>2
  <2>4. [p \in Process |-> Idle] \in [Process -> Store \cup {Idle}]
      OBVIOUS
  <2> QED
      BY <2>1, <2>2, <2>3, <2>4 DEF Init, TypeOK
<1>2. TypeOK /\ [Next]_vars => TypeOK'
  <2> SUFFICES ASSUME TypeOK, [Next]_vars PROVE TypeOK'
      OBVIOUS
  <2>1. CASE Unsaved
      BY <2>1, CallAssumption DEF Unsaved, TypeOK
  <2>2. ASSUME NEW c \in Client, InCall(c), NEW o, Computed(copy[c], o), Save(c, o)
        PROVE  TypeOK'
      BY <2>2, Loaded, ComputedType, SaveType DEF Process
  <2>3. ASSUME NEW r \in Run, InCall(r), Save(r, Compacted(copy[r]))
        PROVE  TypeOK'
      BY <2>3, Loaded, CompactedType, SaveType DEF Process
  <2>4. QED
      BY <2>1, <2>2, <2>3, StepSaves
<1>3. QED
    BY <1>1, <1>2, PTL DEF Spec

-----------------------------------------------------------------------------
(* The disk loads.                                                         *)

\* The records that a batch is merged into stay loadable: the kept record of a
\* merge key is one of the group, and decay only forgets.
LEMMA MergedLoads ==
    ASSUME NEW group \in SUBSET Memory, group # {}, \A m \in group : ValidMemory(m)
    PROVE  ValidMemory(Decayed(Merged(group)))
<1> DEFINE first == First(group)
           merged == Merged(group)
<1>1. first \in group
    BY FirstMember DEF Memory
<1>2. ValidMemory(first) /\ first \in Memory
    BY <1>1
<1>3. merged.foreign = first.foreign /\ merged.state = first.state /\ merged.status = first.status
  <2> HIDE DEF first
  <2> QED
      BY <1>2 DEF merged, Merged, first, Memory
<1>4. merged \in Memory
    BY MergedType
<1> HIDE DEF merged, first
<1> DEFINE decayed == Decayed(merged)
<1>5. /\ decayed.foreign = merged.foreign /\ decayed.status = merged.status
      /\ decayed.state \in {merged.state, "forgotten"}
    BY <1>4 DEF Decayed, Memory
<1>6. "forgotten" \in VisibleStates
    BY DEF VisibleStates, MemoryState
<1> HIDE DEF decayed
<1>7. ValidMemory(decayed)
    BY <1>2, <1>3, <1>5, <1>6 DEF ValidMemory
<1>8. QED
    BY <1>7 DEF decayed, merged

\* So a store that is rebuilt with a batch loads if it did before.
LEMMA BuildLoads ==
    ASSUME NEW s \in Store, ValidBackup(s), NEW inputs \in Seq(RememberedInput)
    PROVE  ValidBackup(BuildMemoryStore(s, inputs))
<1> DEFINE all == s.memories \cup News(s, inputs)
           built == BuildMemoryStore(s, inputs)
<1>1. all \in SUBSET Memory
    BY NewsType DEF Store
<1>2. \A m \in all : ValidMemory(m)
  <2>1. "active" \in VisibleStates
      BY DEF VisibleStates, MemoryState
  <2>2. \A m \in News(s, inputs) : ValidMemory(m)
    <3> SUFFICES ASSUME NEW m \in News(s, inputs) PROVE ValidMemory(m)
        OBVIOUS
    <3>1. PICK i \in DOMAIN inputs : m = RememberedMemory(inputs[i], s.births + i)
        BY DEF News
    <3>2. m.status = "" /\ m.state = "active" /\ m.foreign = FALSE
        BY <3>1 DEF RememberedMemory
    <3>3. QED
        BY <2>1, <3>2 DEF ValidMemory
  <2>3. QED
      BY <2>2 DEF ValidBackup
<1>3. built.memories = {Decayed(m) : m \in MergeDuplicates(all)}
      /\ built.relations = s.relations /\ built.logged = s.logged
    BY DEF BuildMemoryStore, News, Store
<1> HIDE DEF all, built
<1>4. \A m \in all : ValidMemory(Decayed(Merged(SameKey(m, all))))
  <2> SUFFICES ASSUME NEW m \in all PROVE ValidMemory(Decayed(Merged(SameKey(m, all))))
      OBVIOUS
  <2>1. m \in SameKey(m, all) /\ SameKey(m, all) \subseteq all
      BY DEF SameKey
  <2>2. QED
      BY <1>1, <1>2, <2>1, MergedLoads
<1>5. \A m \in built.memories : ValidMemory(m)
    BY <1>3, <1>4 DEF MergeDuplicates
<1>6. QED
    BY <1>3, <1>5 DEF ValidBackup, built

\* A record that is changed in place stays loadable if the change is.
LEMMA ActionLoads ==
    ASSUME NEW s \in Store, ValidBackup(s), NEW id \in CallerId, NoMemory \notin CallerId,
           NEW op, NEW memories, \A m \in memories : ValidMemory(m)
    PROVE  ValidBackup(Outcome(Log([s EXCEPT !.memories = memories], id), op, Has(s, id), 1).store)
<1>1. id # NoMemory
    OBVIOUS
<1>2. QED
    BY <1>1 DEF Outcome, Log, ValidBackup, Store

\* A relation between two memories is valid, with its log entry;
LEMMA WithRelationLoads ==
    ASSUME NEW s \in Store, ValidBackup(s), NEW from \in MemoryId, NEW to, from # to
    PROVE  ValidBackup(WithRelation(Log(s, from), from, to, "related"))
<1>1. from # NoMemory
    BY NoMemoryAssumption
<1>2. QED
    BY <1>1 DEF WithRelation, Log, ValidBackup, ValidRelation, Store

\* and a refused call changes nothing that the check looks at.
LEMMA WithoutSnapshotsLoads ==
    ASSUME NEW s \in Store, ValidBackup(s)
    PROVE  ValidBackup(WithoutSnapshots(s))
BY DEF WithoutSnapshots, ValidBackup, Store

\* What a caller that keeps to the schema computes of a store that loads, loads.
LEMMA ComputedLoads ==
    ASSUME KeepsToSchema, NEW s \in Store, ValidBackup(s), NEW o, Computed(s, o)
    PROVE  ValidBackup(o.store)
<1> USE CallAssumption
<1>0. "active" \in VisibleStates /\ "forgotten" \in VisibleStates
    BY DEF VisibleStates, MemoryState
<1>1. ASSUME NEW input \in CreateInput, o = CreateMemory(s, input)
      PROVE  ValidBackup(o.store)
  <2> DEFINE memory == NormalizeInput(input, s.births + 1)
  <2>1. ValidMemory(memory)
      BY <1>0 DEF NormalizeInput, ValidMemory, KeepsToSchema
  <2>2. input.id # NoMemory
      BY NoMemoryAssumption DEF CallerInput
  <2>3. ValidBackup(Log(AppendMemory(s, memory), input.id))
    <3> HIDE DEF memory
    <3> QED
        BY <2>1, <2>2 DEF Log, AppendMemory, ValidBackup, Store
  <2>4. QED
      BY <1>1, <2>3, WithoutSnapshotsLoads DEF CreateMemory, Outcome
<1>2. ASSUME NEW id \in CallerId, NEW patch \in Patch, o = UpdateMemory(s, id, patch)
      PROVE  ValidBackup(o.store)
  <2> DEFINE memories == {IF m.id = id THEN Patched(m, patch) ELSE m : m \in s.memories}
  <2>1. ASSUME NEW m \in s.memories PROVE ValidMemory(Patched(m, patch))
    <3>1. ValidMemory(m) /\ m \in Memory
        BY DEF ValidBackup, Store
    <3>2. Patched(m, patch).foreign = patch.foreign[m.foreign]
          /\ Patched(m, patch).state = (IF patch.state # "" THEN patch.state ELSE m.state)
        BY <3>1 DEF Patched, Memory
    <3>3. Patched(m, patch).status \in {patch.status, patch.state, m.status, m.state} \ {""}
        BY <3>1 DEF Patched, Memory, MemoryState, ValidMemory, VisibleStates
    <3>4. {patch.status, patch.state} \subseteq VisibleStates \cup {""}
        BY DEF KeepsToSchema
    <3>5. ~patch.foreign[m.foreign]
        BY <3>1 DEF ValidMemory, Memory, KeepsToSchema
    <3>6. QED
        BY <3>1, <3>2, <3>3, <3>4, <3>5 DEF ValidMemory
  <2>2. \A m \in memories : ValidMemory(m)
      BY <2>1 DEF ValidBackup
  <2>3. o = Outcome(Log([s EXCEPT !.memories = memories], id), "update_memory", Has(s, id), 1)
      BY <1>2 DEF UpdateMemory, ApplyMemoryAction, MapMemories
  <2> HIDE DEF memories
  <2>4. QED
      BY <2>2, <2>3, ActionLoads DEF KeepsToSchema
<1>3. ASSUME NEW id \in CallerId, o = ForgetMemory(s, id)
      PROVE  ValidBackup(o.store)
  <2> DEFINE forgotten(m) == [m EXCEPT !.strength = 0, !.state = "forgotten"]
             memories == {IF m.id = id THEN forgotten(m) ELSE m : m \in s.memories}
  <2>1. ASSUME NEW m \in s.memories PROVE ValidMemory(forgotten(m))
    <3>1. ValidMemory(m) /\ m \in Memory
        BY DEF ValidBackup, Store
    <3>2. QED
        BY <1>0, <3>1 DEF ValidMemory, Memory
  <2>2. \A m \in memories : ValidMemory(m)
      BY <2>1 DEF ValidBackup
  <2>3. o = Outcome(Log([s EXCEPT !.memories = memories], id), "forget_memory", Has(s, id), 1)
      BY <1>3 DEF ForgetMemory, ApplyMemoryAction, MapMemories
  <2> HIDE DEF memories
  <2>4. QED
      BY <2>2, <2>3, ActionLoads DEF KeepsToSchema
<1>4. ASSUME NEW id \in CallerId, o = HardDelete(s, id)
      PROVE  ValidBackup(o.store)
  <2>1. id # NoMemory
      BY DEF KeepsToSchema
  <2>2. QED
      BY <1>4, <2>1 DEF HardDelete, Outcome, Log, ValidBackup, Store
<1>5. ASSUME NEW intents \in IntentResult, o = RememberIntent(s, intents)
      PROVE  ValidBackup(o.store)
  <2>1. CASE intents = <<>>
      BY <1>5, <2>1 DEF RememberIntent, Outcome
  <2>2. CASE intents # <<>>
    <3>1. intents[1].id # NoMemory
      <4>1. intents[1] \in RememberedInput
          BY <2>2
      <4>2. QED
          BY <4>1, NoMemoryAssumption DEF RememberedInput
    <3> DEFINE built == BuildMemoryStore(s, intents)
    <3>2. built \in Store /\ ValidBackup(built)
        BY BuildType, BuildLoads
    <3>3. o.store = Log(built, intents[1].id)
        BY <1>5, <2>2 DEF RememberIntent, Outcome
    <3> HIDE DEF built
    <3>4. QED
        BY <3>1, <3>2, <3>3 DEF Log, ValidBackup, Store
  <2>3. QED
      BY <2>1, <2>2
<1>6. \A ids \in LinkedIds : ids[1] \in MemoryId /\ ids[2] \in MemoryId /\ ids[1] # ids[2]
    BY DEF KeepsToSchema
<1>7. ASSUME NEW ids \in LinkedIds,
             \/ o = RelateMemories(s, ids[1], ids[2], "related")
             \/ o = LinkIntentToEvidence(s, ids[1], ids[2])
      PROVE  ValidBackup(o.store)
  <2>1. /\ ValidBackup(WithRelation(Log(s, ids[1]), ids[1], ids[2], "related"))
        /\ ValidBackup(WithoutSnapshots(s))
      BY <1>6, WithRelationLoads, WithoutSnapshotsLoads
  <2>2. o.store \in {WithRelation(Log(s, ids[1]), ids[1], ids[2], "related"), WithoutSnapshots(s)}
      BY <1>7 DEF RelateMemories, LinkIntentToEvidence, Outcome
  <2>3. QED
      BY <2>1, <2>2
<1>8. QED
    BY <1>1, <1>2, <1>3, <1>4, <1>5, <1>7 DEF Computed

\* Compaction only removes.
LEMMA CompactedLoads ==
    ASSUME NEW s \in Store, ValidBackup(s)
    PROVE  ValidBackup(Compacted(s).store)
BY DEF Compacted, Outcome, CompactStore, ValidBackup, Store

\* Copies load too, since nothing else was loaded.
EverythingLoads ==
    /\ ValidBackup(disk)
    /\ \A p \in Process : InCall(p) => ValidBackup(copy[p])

\* Every step leaves everything loadable.
LEMMA LoadsInductive ==
    ASSUME KeepsToSchema, TypeOK, EverythingLoads, [Next]_vars
    PROVE  EverythingLoads'
<1>1. ASSUME NEW p \in Process, InCall(p), NEW o, ValidBackup(o.store), Save(p, o)
      PROVE  EverythingLoads'
  <2>1. disk' = o.store /\ copy' = [copy EXCEPT ![p] = Idle]
      BY <1>1 DEF Save
  <2>2. copy'[p] = Idle /\ \A q \in Process \ {p} : copy'[q] = copy[q]
      BY <2>1, IdleShape
  <2>3. QED
      BY <1>1, <2>1, <2>2 DEF EverythingLoads, InCall
<1>2. CASE Unsaved
  <2>1. disk' = disk
      BY <1>2 DEF Unsaved
  <2>2. ASSUME NEW p \in Process, copy'[p] # Idle PROVE ValidBackup(copy'[p])
    <3>1. copy'[p] = copy[p] \/ copy'[p] = disk
        BY <1>2, <2>2 DEF Unsaved
    <3>2. QED
        BY <2>2, <3>1 DEF EverythingLoads, InCall
  <2>3. QED
      BY <2>1, <2>2 DEF EverythingLoads, InCall
<1>3. CASE \E c \in Client : InCall(c) /\ \E o : Computed(copy[c], o) /\ Save(c, o)
  <2>1. PICK c \in Client : InCall(c) /\ \E o : Computed(copy[c], o) /\ Save(c, o)
      BY <1>3
  <2>2. PICK o : Computed(copy[c], o) /\ Save(c, o)
      BY <2>1
  <2>3. c \in Process /\ copy[c] \in Store /\ ValidBackup(copy[c])
      BY <2>1, Loaded DEF Process, EverythingLoads
  <2>4. QED
      BY <1>1, <2>1, <2>2, <2>3, ComputedLoads
<1>4. CASE \E r \in Run : InCall(r) /\ Save(r, Compacted(copy[r]))
  <2>1. PICK r \in Run : InCall(r) /\ Save(r, Compacted(copy[r]))
      BY <1>4
  <2>2. r \in Process /\ copy[r] \in Store /\ ValidBackup(copy[r])
      BY <2>1, Loaded DEF Process, EverythingLoads
  <2>3. QED
      BY <1>1, <2>1, <2>2, CompactedLoads
<1>5. QED
    BY <1>2, <1>3, <1>4, StepSaves

\* However calls and runs of the daemon interleave, the store on the disk can
\* be loaded, if callers keep to the backup schema.
THEOREM DiskAlwaysLoads == Spec => []DiskLoads
<1>1. CASE ~KeepsToSchema
  <2>1. DiskLoads
      BY <1>1 DEF DiskLoads
  <2>2. QED
      BY <2>1, PTL
<1>2. CASE KeepsToSchema
  <2>1. Init => EverythingLoads
      BY DEF Init, EverythingLoads, InCall, EmptyStore, ValidBackup
  <2>2. TypeOK /\ EverythingLoads /\ [Next]_vars => EverythingLoads'
      BY <1>2, LoadsInductive
  <2>3. EverythingLoads => DiskLoads
      BY DEF EverythingLoads, DiskLoads
  <2>4. QED
      BY <2>1, <2>2, <2>3, RepositoryTypeCorrect, PTL DEF Spec
<1>3. QED
    BY <1>1, <1>2

-----------------------------------------------------------------------------
(* Ids.                                                                    *)

\* A store in which ids are distinct and derived ids have their keys.
HasUniqueIds(s) == Distinct(s.memories) /\ KeepsKeys(s.memories, DerivedInput)

\* Linking changes no memory.
LEMMA LinksKeepMemories ==
    ASSUME NEW s \in Store, NEW ids, NEW o,
           \/ o = RelateMemories(s, ids[1], ids[2], "related")
           \/ o = LinkIntentToEvidence(s, ids[1], ids[2])
    PROVE  o.store.memories = s.memories
<1>1. WithoutSnapshots(s).memories = s.memories
    BY DEF WithoutSnapshots, Store
<1>2. WithRelation(Log(s, ids[1]), ids[1], ids[2], "related").memories = s.memories
    BY DEF WithRelation, Log, Store
<1>3. o.store \in {WithRelation(Log(s, ids[1]), ids[1], ids[2], "related"), WithoutSnapshots(s)}
    BY DEF RelateMemories, LinkIntentToEvidence, Outcome
<1>4. QED
    BY <1>1, <1>2, <1>3

\* What is computed of such a store is one: a created id is free, and what a
\* remember derives is merged by the key that goes with its id.
LEMMA ComputedIds ==
    ASSUME IdsDetermineKeys, NEW s \in Store, HasUniqueIds(s), NEW o, Computed(s, o)
    PROVE  HasUniqueIds(o.store)
<1> USE CallAssumption
<1> DEFINE derived == DerivedInput
<1>0. Distinct(s.memories) /\ KeepsKeys(s.memories, derived)
    BY DEF HasUniqueIds
<1> HIDE DEF derived
<1> SUFFICES Distinct(o.store.memories) /\ KeepsKeys(o.store.memories, derived)
    BY DEF HasUniqueIds, derived
<1>1. CASE o.store.memories = s.memories
    BY <1>0, <1>1
<1>2. CASE MapsQuietly(s.memories, o.store.memories)
    BY <1>0, <1>2, QuietlyKeepsIds
<1>3. ASSUME NEW input \in CreateInput, o = CreateMemory(s, input)
      PROVE  Distinct(o.store.memories) /\ KeepsKeys(o.store.memories, derived)
  <2> DEFINE memory == NormalizeInput(input, s.births + 1)
  <2>1. CASE Has(s, input.id)
      BY <1>1, <1>3, <2>1 DEF CreateMemory, Outcome, WithoutSnapshots, Store
  <2>2. CASE ~ Has(s, input.id)
    <3>1. memory.id = input.id /\ memory.key = input.key
        BY DEF NormalizeInput
    <3>2. \A m \in s.memories : m.id # memory.id
        BY <2>2, <3>1 DEF Has
    <3>3. \A d \in derived : memory.id = d.id => memory.key = d.key
        BY <3>1 DEF IdsDetermineKeys, derived
    <3> HIDE DEF memory
    <3>4. o.store.memories = s.memories \cup {memory}
        BY <1>3, <2>2 DEF CreateMemory, Outcome, Log, AppendMemory, Store, memory
    <3>5. QED
        BY <1>0, <3>2, <3>3, <3>4, AppendKeepsIds
  <2>3. QED
      BY <2>1, <2>2
<1>4. ASSUME NEW id \in CallerId, NEW patch \in Patch, o = UpdateMemory(s, id, patch)
      PROVE  Distinct(o.store.memories) /\ KeepsKeys(o.store.memories, derived)
  <2>1. \A d \in derived : patch.key[d.key] = d.key
      BY DEF IdsDetermineKeys, derived
  <2>2. QED
      BY <1>0, <1>4, <2>1, UpdateRekeys, RekeysKeepIds
<1>5. ASSUME NEW id \in CallerId, o = ForgetMemory(s, id)
      PROVE  MapsQuietly(s.memories, o.store.memories)
    BY <1>5, ForgetMaps
<1>6. ASSUME NEW id \in CallerId, o = HardDelete(s, id)
      PROVE  Distinct(o.store.memories) /\ KeepsKeys(o.store.memories, derived)
  <2>1. o.store.memories \subseteq s.memories
      BY <1>6 DEF HardDelete, Outcome, Log, Store
  <2>2. QED
      BY <1>0, <2>1 DEF Distinct, KeepsKeys
<1>7. ASSUME NEW intents \in IntentResult, o = RememberIntent(s, intents)
      PROVE  Distinct(o.store.memories) /\ KeepsKeys(o.store.memories, derived)
  <2>1. CASE intents = <<>>
      BY <1>1, <1>7, <2>1 DEF RememberIntent, Outcome
  <2>2. CASE intents # <<>>
    <3>1. \A i \in DOMAIN intents : intents[i] \in derived
        BY DEF DerivedInput, derived
    <3>2. OneKeyPerId(derived)
        BY DEF IdsDetermineKeys, OneKeyPerId, derived
    <3>3. o.store.memories = BuildMemoryStore(s, intents).memories
        BY <1>7, <2>2, BuildType DEF RememberIntent, Outcome, Log, Store
    <3>4. QED
        BY <1>0, <3>1, <3>2, <3>3, BuildKeepsIds
  <2>3. QED
      BY <2>1, <2>2
<1>8. ASSUME NEW ids \in LinkedIds,
             \/ o = RelateMemories(s, ids[1], ids[2], "related")
             \/ o = LinkIntentToEvidence(s, ids[1], ids[2])
      PROVE  o.store.memories = s.memories
    BY <1>8, LinksKeepMemories
<1>9. QED
    BY <1>1, <1>2, <1>3, <1>4, <1>5, <1>6, <1>7, <1>8 DEF Computed

\* Compaction only removes.
LEMMA CompactedIds ==
    ASSUME NEW s \in Store, HasUniqueIds(s)
    PROVE  HasUniqueIds(Compacted(s).store)
<1>1. Compacted(s).store.memories \subseteq s.memories
    BY DEF Compacted, Outcome, CompactStore, Store
<1>2. QED
    BY <1>1 DEF HasUniqueIds, Distinct, KeepsKeys

\* The inductive form: of the disk, and of every copy in flight.
IdsEverywhere ==
    /\ HasUniqueIds(disk)
    /\ \A p \in Process : InCall(p) => HasUniqueIds(copy[p])

\* Every step keeps the ids distinct in all the stores.
LEMMA IdsStayEverywhere ==
    ASSUME IdsDetermineKeys, TypeOK, IdsEverywhere, [Next]_vars
    PROVE  IdsEverywhere'
<1>1. ASSUME NEW p \in Process, InCall(p), NEW o, HasUniqueIds(o.store), Save(p, o)
      PROVE  IdsEverywhere'
  <2>1. disk' = o.store /\ copy' = [copy EXCEPT ![p] = Idle]
      BY <1>1 DEF Save
  <2>2. copy'[p] = Idle /\ \A q \in Process \ {p} : copy'[q] = copy[q]
      BY <2>1, IdleShape
  <2>3. HasUniqueIds(disk')
      BY <1>1, <2>1
  <2>4. \A q \in Process : copy'[q] # Idle => HasUniqueIds(copy'[q])
      BY <2>2 DEF IdsEverywhere, InCall
  <2>5. QED
      BY <2>3, <2>4 DEF IdsEverywhere, InCall, HasUniqueIds
<1>2. CASE Unsaved
  <2>1. disk' = disk
      BY <1>2 DEF Unsaved
  <2>2. ASSUME NEW p \in Process, copy'[p] # Idle PROVE HasUniqueIds(copy'[p])
    <3>1. copy'[p] = copy[p] \/ copy'[p] = disk
        BY <1>2, <2>2 DEF Unsaved
    <3>2. QED
        BY <2>2, <3>1 DEF IdsEverywhere, InCall
  <2>3. HasUniqueIds(disk')
      BY <2>1 DEF IdsEverywhere
  <2>4. QED
      BY <2>2, <2>3 DEF IdsEverywhere, InCall, HasUniqueIds
<1>3. CASE \E c \in Client : InCall(c) /\ \E o : Computed(copy[c], o) /\ Save(c, o)
  <2>1. PICK c \in Client : InCall(c) /\ \E o : Computed(copy[c], o) /\ Save(c, o)
      BY <1>3
  <2>2. PICK o : Computed(copy[c], o) /\ Save(c, o)
      BY <2>1
  <2>3. c \in Process /\ copy[c] \in Store /\ HasUniqueIds(copy[c])
      BY <2>1, Loaded DEF Process, IdsEverywhere
  <2>4. QED
      BY <1>1, <2>1, <2>2, <2>3, ComputedIds
<1>4. CASE \E r \in Run : InCall(r) /\ Save(r, Compacted(copy[r]))
  <2>1. PICK r \in Run : InCall(r) /\ Save(r, Compacted(copy[r]))
      BY <1>4
  <2>2. r \in Process /\ copy[r] \in Store /\ HasUniqueIds(copy[r])
      BY <2>1, Loaded DEF Process, IdsEverywhere
  <2>3. QED
      BY <1>1, <2>1, <2>2, CompactedIds
<1>5. QED
    BY <1>2, <1>3, <1>4, StepSaves

\* Lost updates lose and revive whole records, but no interleaving of calls
\* puts two records with one id into the store, if ids determine merge keys.
THEOREM UniqueIdsAreKept ==
    ASSUME IdsDetermineKeys
    PROVE  Spec => []UniqueIdsEverywhere
<1>1. Init => IdsEverywhere
    BY DEF Init, IdsEverywhere, HasUniqueIds, Distinct, KeepsKeys, InCall, EmptyStore
<1>2. TypeOK /\ IdsEverywhere /\ [Next]_vars => IdsEverywhere'
    BY IdsStayEverywhere
<1>3. IdsEverywhere => UniqueIdsEverywhere
    BY DEF IdsEverywhere, UniqueIdsEverywhere, HasUniqueIds, UniqueIn, Distinct
<1>4. QED
    BY <1>1, <1>2, <1>3, RepositoryTypeCorrect, PTL DEF Spec

-----------------------------------------------------------------------------
(* Races.                                                                  *)

\* What becomes of an id between a store that was loaded and what is saved.
Remains(s, o, id) ==
    /\ Live(s, id) => \/ Has(o.store, id)
                      \/ o.op = "delete_memory"
                      \/ /\ o.op = "remember_intent"
                         /\ \E m \in s.memories, n \in o.store.memories :
                                m.id = id /\ n.key = m.key
    /\ Has(o.store, id) => Has(s, id) \/ o.op \in {"create_memory", "remember_intent"}

\* An operation that changes records in place neither loses nor adds an id.
LEMMA MapsRemain ==
    ASSUME NEW s, NEW o, NEW id, Maps(s.memories, o.store.memories)
    PROVE  Remains(s, o, id)
BY MapsDistinct DEF Remains, Live, Has, Keeps

\* A call loses an id by a hard delete or a merge, and adds one by a create or
\* a remember;
LEMMA ComputedRemains ==
    ASSUME NEW s \in Store, NEW o, Computed(s, o), NEW id
    PROVE  Remains(s, o, id)
<1> USE CallAssumption
<1>1. CASE o.store.memories = s.memories
    BY <1>1 DEF Remains, Live, Has
<1>2. ASSUME NEW input \in CreateInput, o = CreateMemory(s, input)
      PROVE  Remains(s, o, id)
  <2>1. s.memories \subseteq o.store.memories /\ o.op = "create_memory"
    <3> DEFINE memory == NormalizeInput(input, s.births + 1)
    <3> HIDE DEF memory
    <3>1. CreateMemory(s, input)
              = IF Has(s, input.id)
                THEN Outcome(WithoutSnapshots(s), "create_memory", FALSE, 0)
                ELSE Outcome(Log(AppendMemory(s, memory), input.id), "create_memory", TRUE, 1)
        BY DEF CreateMemory, memory
    <3>2. QED
        BY <1>2, <3>1 DEF Outcome, WithoutSnapshots, Log, AppendMemory, Store
  <2>2. QED
      BY <2>1 DEF Remains, Live, Has
<1>3. ASSUME NEW called \in CallerId, NEW patch \in Patch, o = UpdateMemory(s, called, patch)
      PROVE  Remains(s, o, id)
    BY <1>3, UpdateRekeys, RekeysMaps, MapsRemain
<1>4. ASSUME NEW called \in CallerId, o = ForgetMemory(s, called)
      PROVE  Remains(s, o, id)
    BY <1>4, ForgetMaps, QuietlyMaps, MapsRemain
<1>5. ASSUME NEW called \in CallerId, o = HardDelete(s, called)
      PROVE  Remains(s, o, id)
  <2>1. o.store.memories \subseteq s.memories /\ o.op = "delete_memory"
      BY <1>5 DEF HardDelete, Outcome, Log, Store
  <2>2. QED
      BY <2>1 DEF Remains, Has
<1>6. ASSUME NEW intents \in IntentResult, o = RememberIntent(s, intents)
      PROVE  Remains(s, o, id)
  <2>1. CASE intents = <<>>
      BY <1>1, <1>6, <2>1 DEF RememberIntent, Outcome
  <2>2. CASE intents # <<>>
    <3>1. /\ o.store.memories = BuildMemoryStore(s, intents).memories
          /\ o.op = "remember_intent"
        BY <1>6, <2>2, BuildType DEF RememberIntent, Outcome, Log, Store
    <3>2. \A m \in s.memories : \E n \in o.store.memories : n.key = m.key
      <4>1. intents \in Seq(RememberedInput)
          OBVIOUS
      <4>2. \A m \in s.memories \cup News(s, intents) :
                \E n \in BuildMemoryStore(s, intents).memories : n.key = m.key
          BY <4>1, BuildKeeps
      <4>3. QED
          BY <3>1, <4>2
    <3>3. QED
        BY <3>1, <3>2 DEF Remains, Live
  <2>3. QED
      BY <2>1, <2>2
<1>7. ASSUME NEW ids \in LinkedIds,
             \/ o = RelateMemories(s, ids[1], ids[2], "related")
             \/ o = LinkIntentToEvidence(s, ids[1], ids[2])
      PROVE  o.store.memories = s.memories
    BY <1>7, LinksKeepMemories
<1>8. QED
    BY <1>1, <1>2, <1>3, <1>4, <1>5, <1>6, <1>7 DEF Computed

\* compaction only loses what was to be reclaimed.
LEMMA CompactedRemains ==
    ASSUME NEW s \in Store, NEW id
    PROVE  Remains(s, Compacted(s), id)
BY DEF Remains, Live, Has, Compacted, Outcome, CompactStore, Store

\* What a save writes, it made of a store that was in flight.
LEMMA SaveRemains ==
    ASSUME NEW p \in Process, InCall(p), NEW o, Save(p, o),
           NEW id \in MemoryId, Remains(copy[p], o, id)
    PROVE  /\ (\A s \in Held : Live(s, id)) =>
                  \/ Has(disk', id)
                  \/ last'.op = "delete_memory"
                  \/ /\ last'.op = "remember_intent"
                     /\ \E s \in Held : \E m \in s.memories, n \in disk'.memories :
                            m.id = id /\ n.key = m.key
           /\ (\A s \in Held : ~Has(s, id)) =>
                  ~Has(disk', id) \/ last'.op \in {"create_memory", "remember_intent"}
<1>1. copy[p] \in Held
    BY DEF Held
<1>2. disk' = o.store /\ last'.op = o.op
    BY DEF Save
<1>3. QED
    BY <1>1, <1>2 DEF Remains

\* A memory is lost behind its user's back, or comes back, only through a call
\* that was in flight when it was written or removed: if every store in flight
\* agrees with the disk about it, nothing but a delete, a merge or a new write
\* changes that.
THEOREM RacesAreInFlight == Spec => OnlyRacesLoseOrRevive
<1> DEFINE Agreed(id) ==
        /\ (\A s \in Held : Live(s, id)) =>
               \/ Has(disk', id)
               \/ last'.op = "delete_memory"
               \/ /\ last'.op = "remember_intent"
                  /\ \E s \in Held : \E m \in s.memories, n \in disk'.memories :
                         m.id = id /\ n.key = m.key
        /\ (\A s \in Held : ~Has(s, id)) =>
               ~Has(disk', id) \/ last'.op \in {"create_memory", "remember_intent"}
<1>1. ASSUME TypeOK, [Next]_vars, NEW id \in MemoryId PROVE Agreed(id)
  <2>1. CASE Unsaved
    <3>1. disk' = disk /\ disk \in Held
        BY <2>1 DEF Unsaved, Held
    <3>2. QED
        BY <3>1 DEF Live, Has
  <2>2. ASSUME NEW c \in Client, InCall(c), NEW o, Computed(copy[c], o), Save(c, o)
        PROVE  Agreed(id)
    <3>1. c \in Process /\ Remains(copy[c], o, id)
        BY <1>1, <2>2, Loaded, ComputedRemains DEF Process
    <3>2. QED
        BY <2>2, <3>1, SaveRemains
  <2>3. ASSUME NEW r \in Run, InCall(r), Save(r, Compacted(copy[r]))
        PROVE  Agreed(id)
    <3>1. r \in Process /\ Remains(copy[r], Compacted(copy[r]), id)
        BY <1>1, <2>3, Loaded, CompactedRemains DEF Process
    <3>2. QED
        BY <2>3, <3>1, SaveRemains
  <2>4. QED
      BY <1>1, <2>1, <2>2, <2>3, StepSaves
<1>2. TypeOK /\ [Next]_vars => [\A id \in MemoryId : Agreed(id)]_vars
    BY <1>1
<1>3. QED
    BY <1>2, RepositoryTypeCorrect, PTL DEF Spec, OnlyRacesLoseOrRevive

=============================================================================
