--------------------------- MODULE MemorySharing ----------------------------
(***************************************************************************)
(* What a store that reached its state through the engine's operations     *)
(* hands out: to an approved backup and to a task context packet.  Each    *)
(* property restates what the repository promises of it; the code breaks   *)
(* every one of them, for the reasons the README lists.                    *)
(***************************************************************************)
EXTENDS MemoryEngine, MemoryBackup

\* MEMACT.md:29: "`forgotten`: Deleted at your request."  A forgotten memory is
\* not offered to a task.
TaskHidesForgotten ==
    \A m \in TaskMemories(store) : m.state # "forgotten"

\* README.md:37: "Pending, deleted, or forgotten entries are skipped."
BackupSkipsPending ==
    \A m \in ApprovedBackup(store).memories : m.status # "pending"

\* README.md:37: "You can export approved memory entries [...] and restore them
\* later."
ApprovedBackupRestores == ValidBackup(ApprovedBackup(store))

\* backup-restore.mjs:77-78: "dropping relations and actions that would dangle
\* once unapproved memories are excluded."
BackupDropsDanglingActions ==
    LET backup == ApprovedBackup(store)
        left == {m.id : m \in store.memories} \ {m.id : m \in backup.memories}
    IN backup.logged \cap left = {}

=============================================================================
