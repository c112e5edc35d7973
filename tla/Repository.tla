----------------------------- MODULE Repository -----------------------------
(***************************************************************************)
(* The repository of src/storage.mjs over one adapter, shared by clients   *)
(* and by the runs of the compaction daemon (src/compaction-daemon.mjs).   *)
(* Every call awaits load(), computes a new store in memory and awaits     *)
(* save(): nothing keeps two calls apart between the two awaits.           *)
(*                                                                         *)
(* disk is what the adapter holds.  copy[p] is the store that process p    *)
(* loaded and has not saved yet; the arguments of a call are chosen at its *)
(* save, since nothing before depends on them.                             *)
(***************************************************************************)
EXTENDS MemoryOps, MemoryBackup

CONSTANTS
    Client,             \* callers of the repository
    Run,                \* timer runs of the daemon that may be in flight at once
    CreateInput,        \* inputs of create
    IntentResult,       \* sequences of records [id, key, strength, age]
    Patch,              \* patches for update
    CallerId,           \* ids a client passes to name a memory, NoMemory for a blank one
    LinkedIds,          \* pairs of ids a client links
    MaxCalls,           \* bound: calls the clients make altogether
    Idle                \* no call in flight

VARIABLES disk, copy, calls, stopped, last

vars == <<disk, copy, calls, stopped, last>>

Process == Client \cup Run

ASSUME ProcessAssumption == Client \cap Run = {} /\ Idle \notin Store

ASSUME CallAssumption ==
    /\ CreateInput \subseteq CallerInput /\ Patch \subseteq PatchInput
    /\ CallerId \subseteq MemoryId \cup {NoMemory} /\ LinkedIds \subseteq CallerId \X CallerId
    /\ IntentResult \subseteq Seq(RememberedInput)
    /\ MaxCalls \in Nat

TypeOK ==
    /\ disk \in Store
    /\ copy \in [Process -> Store \cup {Idle}]
    /\ calls \in 0..MaxCalls
    /\ stopped \in BOOLEAN
    /\ last \in [op : Operation \cup {"none"}, accepted : BOOLEAN, appended : 0..2]

Init ==
    /\ disk = EmptyStore
    /\ copy = [p \in Process |-> Idle]
    /\ calls = 0
    /\ stopped = FALSE
    /\ last = [op |-> "none", accepted |-> TRUE, appended |-> 0]

-----------------------------------------------------------------------------
(* The two halves of a call.                                               *)

\* load(): a store that fails the structural check rejects the call, which
\* then changes nothing.
Load(p) ==
    /\ copy[p] = Idle
    /\ ValidBackup(disk)
    /\ copy' = [copy EXCEPT ![p] = disk]
    /\ UNCHANGED <<disk, stopped, last>>

StartCall(c) ==
    /\ calls < MaxCalls
    /\ calls' = calls + 1
    /\ Load(c)

\* save() of what an operation made of the loaded store; the call is over.
Save(p, outcome) ==
    /\ disk' = outcome.store
    /\ copy' = [copy EXCEPT ![p] = Idle]
    /\ last' = [op |-> outcome.op, accepted |-> outcome.accepted, appended |-> outcome.appended]
    /\ UNCHANGED <<calls, stopped>>

InCall(p) == copy[p] # Idle

-----------------------------------------------------------------------------
(* The second half of each method of the repository.                       *)

Create(c) ==
    /\ InCall(c)
    /\ \E input \in CreateInput : Save(c, CreateMemory(copy[c], input))

Update(c) ==
    /\ InCall(c)
    /\ \E id \in CallerId, patch \in Patch : Save(c, UpdateMemory(copy[c], id, patch))

\* delete forgets the memory unless the caller asks for a hard delete.
Delete(c) ==
    /\ InCall(c)
    /\ \E id \in CallerId :
           \/ Save(c, ForgetMemory(copy[c], id))
           \/ Save(c, HardDelete(copy[c], id))

RememberIntents(c) ==
    /\ InCall(c)
    /\ \E intents \in IntentResult : Save(c, RememberIntent(copy[c], intents))

\* Neither end is looked up before it is linked.  (For the Faulty... operators
\* see MemoryOps.)
FaultyLinkToSchema(c) ==
    /\ InCall(c)
    /\ \E ids \in LinkedIds :
           Save(c, Outcome(WithRelation(Log(copy[c], ids[1]), ids[1], ids[2], "related"),
                           "relate_memories", TRUE, 1))

LinkToSchema(c) ==
    /\ InCall(c)
    /\ \E ids \in LinkedIds : Save(c, RelateMemories(copy[c], ids[1], ids[2], "related"))

LinkToEvidence(c) ==
    /\ InCall(c)
    /\ \E ids \in LinkedIds : Save(c, LinkIntentToEvidence(copy[c], ids[1], ids[2]))

\* read, list and retrieveIntents load and never save.
Read(c) ==
    /\ InCall(c)
    /\ copy' = [copy EXCEPT ![c] = Idle]
    /\ UNCHANGED <<disk, calls, stopped, last>>

-----------------------------------------------------------------------------
(* The daemon.                                                             *)

\* The interval timer fires, whether or not an earlier run has ended.
StartRun(r) ==
    /\ ~stopped
    /\ Load(r)
    /\ UNCHANGED calls

\* The count of reclaimed memories is compared with one instead of zero.
FaultyEndRun(r) ==
    /\ InCall(r)
    /\ IF Cardinality(ReclaimableIds(copy[r])) > 1
       THEN Save(r, Outcome(CompactStore(copy[r]), "compact", TRUE, 0))
       ELSE /\ copy' = [copy EXCEPT ![r] = Idle]
            /\ UNCHANGED <<disk, calls, stopped, last>>

\* A run saves only if there is something to reclaim.
EndRun(r) ==
    /\ InCall(r)
    /\ IF ReclaimableIds(copy[r]) # {}
       THEN Save(r, Outcome(CompactStore(copy[r]), "compact", TRUE, 0))
       ELSE /\ copy' = [copy EXCEPT ![r] = Idle]
            /\ UNCHANGED <<disk, calls, stopped, last>>

\* stop() clears the timer; a run in flight goes on.
Stop ==
    /\ ~stopped
    /\ stopped' = TRUE
    /\ UNCHANGED <<disk, copy, calls, last>>

-----------------------------------------------------------------------------

EndCall(c) ==
    \/ Create(c) \/ Update(c) \/ Delete(c) \/ RememberIntents(c)
    \/ LinkToSchema(c) \/ LinkToEvidence(c) \/ Read(c)

Next ==
    \/ \E c \in Client : StartCall(c) \/ EndCall(c)
    \/ \E r \in Run : StartRun(r) \/ EndRun(r)
    \/ Stop

Spec == Init /\ [][Next]_vars

\* Awaited loads and saves settle, and the interval timer keeps firing until it
\* is cleared: each is weakly fair.  Nothing makes a client call.
Fairness ==
    /\ \A c \in Client : WF_vars(EndCall(c))
    /\ \A r \in Run : WF_vars(StartRun(r)) /\ WF_vars(EndRun(r))

FairSpec == Spec /\ Fairness

-----------------------------------------------------------------------------
(* Properties.                                                             *)

\* What the backup schema asks of callers, which no call checks before it saves:
\* no blank id for update and delete, which log it though they find nothing;
\* keys and values that the schema of the type lists; visible states; links
\* with distinct ends.
KeepsToSchema ==
    /\ NoMemory \notin CallerId
    /\ \A input \in CreateInput : ~input.foreign
    /\ \A patch \in Patch : ~patch.foreign[FALSE]
    /\ \A x \in CreateInput \cup Patch :
           {x.status, x.state} \subseteq VisibleStates \cup {""}
    /\ \A ids \in LinkedIds : ids[1] # ids[2]

\* However calls and daemon runs interleave, callers that keep to the schema
\* never make the store unloadable.  Each condition is needed: see
\* EverySaveLoads.
DiskLoads == KeepsToSchema => ValidBackup(disk)

\* Lost updates lose and revive whole records, but no interleaving of the two
\* halves of calls puts two records with one id into the store or a copy.
UniqueIn(s) == \A m, n \in s.memories : m.id = n.id => m = n

UniqueIdsEverywhere ==
    /\ UniqueIn(disk)
    /\ \A p \in Process : InCall(p) => UniqueIn(copy[p])

\* It takes an id that remember derives to go with one merge key, and that no
\* client gives the id or the key to another record (an edit of the label that
\* an intent is merged by does).
DerivedInput == UNION {{intents[i] : i \in DOMAIN intents} : intents \in IntentResult}

IdsDetermineKeys ==
    /\ \A d, e \in DerivedInput : d.id = e.id => d.key = e.key
    /\ \A d \in DerivedInput, input \in CreateInput : input.id = d.id => input.key = d.key
    /\ \A d \in DerivedInput, patch \in Patch : patch.key[d.key] = d.key

\* What a call undoes, it undoes of what was saved while it was in flight.  A
\* memory that is live on the disk and in every store in flight is lost by a
\* hard delete only, or to a record of its merge key that a remember keeps; and
\* one that is in none of them comes back only if it is written anew.
Held == {disk} \cup {copy[p] : p \in {q \in Process : InCall(q)}}

Live(s, id) == \E m \in s.memories : m.id = id /\ ~Reclaimable(m)

OnlyRacesLoseOrRevive ==
    [][\A id \in MemoryId :
          /\ (\A s \in Held : Live(s, id)) =>
                 \/ Has(disk', id)
                 \/ last'.op = "delete_memory"
                 \/ /\ last'.op = "remember_intent"
                    /\ \E s \in Held : \E m \in s.memories, n \in disk'.memories :
                           m.id = id /\ n.key = m.key
          /\ (\A s \in Held : ~Has(s, id)) =>
                 ~Has(disk', id) \/ last'.op \in {"create_memory", "remember_intent"}]_vars

\* While the daemon runs and the clients fall silent, whatever they forgot is
\* gone from the disk for good, also when a save of theirs undid an earlier run.
EventuallyCompacted == []~stopped => <>[](ReclaimableIds(disk) = {})

-----------------------------------------------------------------------------
(* Properties the repository's words promise and the code breaks.          *)

\* storage.mjs:32: "Memory repository requires an adapter with load() and
\* save(store)."  Whatever its callers do, a repository can load what it saved.
\* A blank id, a key or a date that the schema refuses, a state like "rejected"
\* and a link of a memory to itself are all saved, and refused at the next load.
EverySaveLoads == ValidBackup(disk)

\* compaction-daemon.mjs:5: "States that are safe to permanently remove during
\* compaction."  A run removes no memory in another state.
DaemonRemovesOnlyReclaimable ==
    [][last'.op = "compact" =>
          \A m \in disk.memories : Has(disk', m.id) \/ Reclaimable(m)]_vars

\* compaction-daemon.mjs:1: "Reclaims disk space [...] by permanently removing
\* soft-deleted memories".  A call that adds nothing brings no memory back.
ReclaimedStayGone ==
    [][last'.op \notin {"create_memory", "remember_intent"} =>
          \A m \in disk'.memories : Has(disk, m.id)]_vars

\* compaction-daemon.mjs:56: "call .stop() to shut it down cleanly".  After it
\* the daemon writes nothing.
StopIsFinal ==
    [][stopped /\ disk' # disk => last'.op # "compact"]_vars

=============================================================================
