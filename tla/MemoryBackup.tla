---------------------------- MODULE MemoryBackup ----------------------------
(***************************************************************************)
(* What leaves a store and what is accepted back: the structural check of  *)
(* src/memory-schemas.mjs, the backups of src/backup-restore.mjs, and the  *)
(* filter by which src/task-context-packet.mjs picks the memories a task   *)
(* context packet may quote.  A backup is a store: the derived fields that *)
(* serializeMemoryBackup strips are not part of the model.                 *)
(***************************************************************************)
EXTENDS MemoryOps

\* VISIBLE_SCOPE_TYPES.memory_states lists neither "weak" nor "rejected".
VisibleStates == MemoryState \ {"weak", "rejected"}

ValidMemory(m) ==
    /\ ~m.foreign
    /\ m.state \in VisibleStates
    /\ m.status \in VisibleStates \cup {""}

ValidRelation(r) == r.from # r.to

\* validateMemoryBackupShape: an action must name a memory id.
ValidBackup(backup) ==
    /\ \A m \in backup.memories : ValidMemory(m)
    /\ \A r \in backup.relations : ValidRelation(r)
    /\ NoMemory \notin backup.logged

Approved == {"active", "approved"}

\* Only the end that a relation leaves is looked at.  (An operator named
\* Faulty... is the one after it with a plausible mistake.)
FaultyApprovedBackup(store) ==
    LET kept == {m \in store.memories : m.state \in Approved}
    IN [store EXCEPT !.memories = kept,
                     !.relations = {r \in @ : \E m \in kept : r.from = m.id}]

\* serializeApprovedMemoryBackup filters memories by state.  refersToKept reads
\* from, to and target_id, none of which an action has: every action passes.
ApprovedBackup(store) ==
    LET kept == {m \in store.memories : m.state \in Approved}
        keptIds == {m.id : m \in kept}
    IN [store EXCEPT !.memories = kept,
                     !.relations = {r \in @ : r.from \in keptIds /\ r.to \in keptIds}]

\* isApproved of the task context packet: the status decides when there is one.
ApprovedForTask(m) == (IF m.status # "" THEN m.status ELSE m.state) \in Approved

TaskMemories(store) == {m \in store.memories : ApprovedForTask(m)}

=============================================================================
