--------------------------- MODULE PostgresAdapter --------------------------
(***************************************************************************)
(* save() of src/adapters/postgresql.mjs: one transaction that deletes the *)
(* user's rows that are not in the store and upserts the others row by     *)
(* row, on a connection of a pool.  PostgreSQL itself is modelled from how *)
(* the adapter uses it, at its default isolation level: a statement sees   *)
(* what was committed when it started, a row that another transaction has  *)
(* written is waited for and then looked at again, a commit makes all      *)
(* writes visible at once, and a deadlock aborts one of the transactions.  *)
(*                                                                         *)
(* BEGIN changes nothing that others see, so it is one step with the       *)
(* snapshot of DELETE.  load() is a single SELECT: it reads the committed  *)
(* rows of the user, which is what the properties look at.                 *)
(***************************************************************************)
EXTENDS Naturals, FiniteSets

CONSTANTS
    User, MemoryId, Content,
    Saver,              \* calls of save() that may be in flight at once
    UserOf,             \* the user whose adapter a saver calls
    OwnId,              \* the memory ids that occur in a user's stores
    PoolSize,           \* connections of the pool
    NoRow, Untouched, NoSaver, NoId

ASSUME SaverAssumption ==
    /\ UserOf \in [Saver -> User] /\ OwnId \in [User -> SUBSET MemoryId]
    /\ NoSaver \notin Saver /\ NoId \notin MemoryId /\ PoolSize \in Nat \ {0}

VARIABLES
    table,      \* the committed rows of memact_memory_entries, by id
    lock,       \* the transaction that has written a row and not ended
    free,       \* connections in the pool
    phase,      \* where a save is: see Phase
    saving,     \* the store a save was given, from ids to contents
    todo,       \* rows its current statements have not reached
    at,         \* the row it waits for
    writes,     \* what it has written and not committed
    arrived     \* history: ids that other saves of its user committed meanwhile

vars == <<table, lock, free, phase, saving, todo, at, writes, arrived>>

Phase == {"idle", "connecting", "deleting", "upserting"}

Row == [user : User, content : Content]

StoresOf(u) == UNION {[ids -> Content] : ids \in SUBSET OwnId[u]}

NoStore == [id \in {} |-> NoRow]

ASSUME MarkerAssumption ==
    /\ NoRow \notin Row \cup {Untouched} /\ Untouched \notin Row
    /\ \A u \in User : NoRow \notin StoresOf(u)

TypeOK ==
    /\ table \in [MemoryId -> Row \cup {NoRow}]
    /\ lock \in [MemoryId -> Saver \cup {NoSaver}]
    /\ free \in 0..PoolSize
    /\ phase \in [Saver -> Phase]
    /\ \A p \in Saver : saving[p] \in StoresOf(UserOf[p])
    /\ todo \in [Saver -> SUBSET MemoryId]
    /\ at \in [Saver -> MemoryId \cup {NoId}]
    /\ writes \in [Saver -> [MemoryId -> Row \cup {NoRow, Untouched}]]
    /\ arrived \in [Saver -> SUBSET MemoryId]

Init ==
    /\ table = [id \in MemoryId |-> NoRow]
    /\ lock = [id \in MemoryId |-> NoSaver]
    /\ free = PoolSize
    /\ phase = [p \in Saver |-> "idle"]
    /\ saving = [p \in Saver |-> NoStore]
    /\ todo = [p \in Saver |-> {}]
    /\ at = [p \in Saver |-> NoId]
    /\ writes = [p \in Saver |-> [id \in MemoryId |-> Untouched]]
    /\ arrived = [p \in Saver |-> {}]

-----------------------------------------------------------------------------
(* The steps of a save.                                                    *)

CallSave(p) ==
    /\ phase[p] = "idle"
    /\ \E store \in StoresOf(UserOf[p]) : saving' = [saving EXCEPT ![p] = store]
    /\ phase' = [phase EXCEPT ![p] = "connecting"]
    /\ UNCHANGED <<table, lock, free, todo, at, writes, arrived>>

OwnRow(p, id) == table[id] # NoRow /\ table[id].user = UserOf[p]

\* pool.connect(), BEGIN, and the start of DELETE ... WHERE user_id = $1 AND
\* id <> ALL($2).
Connect(p) ==
    /\ phase[p] = "connecting" /\ free > 0
    /\ free' = free - 1
    /\ phase' = [phase EXCEPT ![p] = "deleting"]
    /\ todo' = [todo EXCEPT ![p] =
                   {id \in MemoryId : OwnRow(p, id) /\ id \notin DOMAIN saving[p]}]
    /\ UNCHANGED <<table, lock, saving, at, writes, arrived>>

Blocked(p, id) == lock[id] \notin {p, NoSaver}

\* A statement that meets a row of another transaction waits for that row.
Wait(p) ==
    /\ at[p] = NoId
    /\ \E id \in todo[p] : Blocked(p, id) /\ at' = [at EXCEPT ![p] = id]
    /\ UNCHANGED <<table, lock, free, phase, saving, todo, writes, arrived>>

Write(p, id, row) ==
    /\ at[p] \in {NoId, id} /\ ~Blocked(p, id)
    /\ lock' = [lock EXCEPT ![id] = p]
    /\ writes' = [writes EXCEPT ![p][id] = row]
    /\ todo' = [todo EXCEPT ![p] = @ \ {id}]
    /\ at' = [at EXCEPT ![p] = NoId]
    /\ UNCHANGED <<table, free, phase, saving, arrived>>

\* The row is looked at again once it is locked.
DeleteRow(p) ==
    /\ phase[p] = "deleting"
    /\ \E id \in todo[p] : Write(p, id, IF OwnRow(p, id) THEN NoRow ELSE Untouched)

StartUpserts(p) ==
    /\ phase[p] = "deleting" /\ todo[p] = {}
    /\ phase' = [phase EXCEPT ![p] = "upserting"]
    /\ todo' = [todo EXCEPT ![p] = DOMAIN saving[p]]
    /\ UNCHANGED <<table, lock, free, saving, at, writes, arrived>>

\* ON CONFLICT (id) DO NOTHING.  (An operator named Faulty... is the one after
\* it with a plausible mistake; no specification uses it.)
FaultyUpsertRow(p) ==
    /\ phase[p] = "upserting"
    /\ \E id \in todo[p] :
           Write(p, id, IF table[id] = NoRow
                        THEN [user |-> UserOf[p], content |-> saving[p][id]]
                        ELSE Untouched)

\* INSERT ... ON CONFLICT (id) DO UPDATE: whose row it was does not matter.
UpsertRow(p) ==
    /\ phase[p] = "upserting"
    /\ \E id \in todo[p] : Write(p, id, [user |-> UserOf[p], content |-> saving[p][id]])

\* Whether a transaction ends with COMMIT or ROLLBACK, its locks go and, in the
\* finally block, its connection goes back to the pool.
Ended(p) ==
    /\ phase' = [phase EXCEPT ![p] = "idle"]
    /\ saving' = [saving EXCEPT ![p] = NoStore]
    /\ lock' = [id \in MemoryId |-> IF lock[id] = p THEN NoSaver ELSE lock[id]]
    /\ writes' = [writes EXCEPT ![p] = [id \in MemoryId |-> Untouched]]

Release == free' = free + 1

\* The rows that a commit deletes are gone for the DELETE of another save, also
\* when a row with the same id is inserted later.
Deleted(p) == {id \in MemoryId : writes[p][id] = NoRow /\ table[id] # NoRow}

\* The connection is not released.
FaultyCommit(p) ==
    /\ phase[p] = "upserting" /\ todo[p] = {}
    /\ table' = [id \in MemoryId |->
                    IF writes[p][id] = Untouched THEN table[id] ELSE writes[p][id]]
    /\ Ended(p)
    /\ UNCHANGED <<free, todo, at, arrived>>

Commit(p) ==
    /\ phase[p] = "upserting" /\ todo[p] = {}
    /\ table' = [id \in MemoryId |->
                    IF writes[p][id] = Untouched THEN table[id] ELSE writes[p][id]]
    /\ Ended(p) /\ Release
    /\ todo' = [q \in Saver |->
                   IF phase[q] = "deleting" THEN todo[q] \ Deleted(p) ELSE todo[q]]
    /\ at' = [q \in Saver |->
                 IF phase[q] = "deleting" /\ at[q] \in Deleted(p) THEN NoId ELSE at[q]]
    /\ arrived' = [q \in Saver |->
                      IF q = p THEN {}
                      ELSE IF UserOf[q] = UserOf[p] /\ phase[q] # "idle"
                           THEN arrived[q] \cup DOMAIN saving[p]
                           ELSE arrived[q]]

Rollback(p) ==
    /\ phase[p] \in {"deleting", "upserting"}
    /\ Ended(p) /\ Release
    /\ todo' = [todo EXCEPT ![p] = {}]
    /\ at' = [at EXCEPT ![p] = NoId]
    /\ arrived' = [arrived EXCEPT ![p] = {}]
    /\ UNCHANGED table

\* connect() comes before the try block: if it fails there is nothing to roll
\* back or to release.
ConnectFails(p) ==
    /\ phase[p] = "connecting"
    /\ Ended(p)
    /\ arrived' = [arrived EXCEPT ![p] = {}]
    /\ UNCHANGED <<table, free, todo, at>>

\* Any statement may fail, and so may connect().
Fail(p) == Rollback(p) \/ ConnectFails(p)

\* A set of transactions each of which waits for another one of the set.
Deadlocked(p) ==
    \E cycle \in SUBSET Saver :
        /\ p \in cycle
        /\ \A q \in cycle : at[q] # NoId /\ lock[at[q]] \in cycle
        /\ \A q \in cycle : \E r \in cycle : lock[at[r]] = q

BreakDeadlock(p) == Deadlocked(p) /\ Rollback(p)

-----------------------------------------------------------------------------

Proceed(p) ==
    \/ Connect(p) \/ Wait(p) \/ DeleteRow(p)
    \/ StartUpserts(p) \/ UpsertRow(p) \/ Commit(p)

Next == \E p \in Saver : CallSave(p) \/ Proceed(p) \/ Fail(p) \/ BreakDeadlock(p)

Spec == Init /\ [][Next]_vars

\* Statements are answered; the pool and the lock manager serve their queues
\* in order, so a save that can go on again and again does; a deadlock is
\* detected.  Nothing makes a caller save, and nothing makes a save fail.
Fairness ==
    \A p \in Saver : SF_vars(Proceed(p)) /\ WF_vars(BreakDeadlock(p))

FairSpec == Spec /\ Fairness

-----------------------------------------------------------------------------
(* Properties.                                                             *)

\* Every save that is called settles, also when saves of one user lock their
\* rows in opposite orders, wait for a connection or fail half way.
SavesEnd ==
    \A p \in Saver : phase[p] # "idle" ~> phase[p] = "idle"

\* Whatever overlaps and whatever fails, a save stores its store as it was
\* given or changes nothing, and of what was there before only memories that an
\* overlapping save of the same user stored can stay.
LoadedBy(u) ==
    [id \in {i \in MemoryId : table[i] # NoRow /\ table[i].user = u} |-> table[id].content]

Requested(p) == IF phase[p] = "idle" THEN NoRow ELSE saving[p]

Stores == INSTANCE UserStores WITH
              stores <- [u \in User |-> LoadedBy(u)],
              request <- [p \in Saver |-> Requested(p)],
              Caller <- Saver, NoRequest <- NoRow

StoresSpec == Stores!Spec

\* postgresql.mjs:58: "Remove memories that are no longer in the store".  Right
\* after a commit the user's rows are the store that was saved, no more.
CommitReplacesStore ==
    [][\A p \in Saver :
          table' # table /\ phase[p] = "upserting" /\ phase'[p] = "idle" =>
              LoadedBy(UserOf[p])' = saving[p]]_vars

=============================================================================
