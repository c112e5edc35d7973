# Verification of Memact Memory

TLA+ models of the memory engine and of the parts of this repository that keep
state around it, TLC configurations that check them on small instances, and
theorems about them that TLAPS proves for every value of the constants.

Paths such as `src/engine.mjs` are relative to the repository (`src/src/...`
in `PROJECT.json`, whose `map` gives the lines each definition translates).

## The system

| Component | Source | State | Operations | What makes it hard |
|---|---|---|---|---|
| Memory engine | `src/engine.mjs` | a memory store: memories, relations, actions, snapshots | create, update, delete, forget, weaken, correct, reinforce, assimilate, accommodate, supersede, relate, link; remember packets, schemas and intents, with merging by key and decay | long sequences of legal calls: merging, superseding, forgetting and decay meet each other |
| Query cache | `src/engine.mjs` | answers by query, ids and strengths | ask, clear | the store changes under it |
| Graph snapshots | `src/graph-snapshots.mjs` | snapshots kept in the store | attach, list, diff | other operations drop them |
| Repository | `src/storage.mjs` | none of its own: load, change, save | one method per engine operation | the awaits between load and save |
| JSON file adapter | `src/storage.mjs` | a file | load, save | `writeFile` empties the file first; calls overlap, fail, are killed |
| Compaction daemon | `src/compaction-daemon.mjs` | a timer | run, stop | races with clients and with its own slow runs |
| Backup, structural check | `src/backup-restore.mjs`, `src/memory-schemas.mjs` | none | serialize, approve, restore, partial export and import | every load runs the check, so a store it refuses is lost to every call |
| Task context, CAP packets | `src/task-context-packet.mjs`, `src/cap-packet.mjs`, `src/context-worker.mjs` | none | choose approved memories for a task, resolve contradictions, tell what is missing | a second notion of "approved"; records are matched before and after they are filtered and resolved |
| PostgreSQL adapter | `src/adapters/postgresql.mjs` | rows of a table, a pool | load, save | transactions of several saves, deadlocks, failures |
| Statement store | `src/postgres-statements.mjs`, `src/field-encryption.mjs` | encrypted rows | upsert, read, list, delete | rows under an older key; defaults that are filled in on the way |
| Read/write executor | `src/read-write-executor.mjs` | two pools | query, queryRead, close | failover, a close in two steps |
| Category index | `src/claims.mjs` | two maps | rebuild, upsert, remove, clear | two maps that must agree |
| Claim quarantine | `src/claims.mjs` | claims and who reported them | report, clear | spellings, repeated reports |
| Rectification, evidence links | `src/claims.mjs`, `src/evidence-links.mjs` | claims that applications hold | rectify, link | a trace inside metadata that updates replace; ids that several memories share |
| OAuth token cache | `src/auth/oauth.mjs`, used by `src/embeddings.mjs` | tokens and their expiries | acquire | concurrent callers, late answers, time |
| Snapshot manager | `src/snapshot-manager.mjs` | shallow copies of a store | create, query, release | changes in place |
| Commit journal | `src/engine.mjs` | the last 50 entries | append, read, clear | the array that callers hold |
| Retrieval and contexts | `src/engine.mjs`, `src/semantic-matching.mjs` | none | retrieve memories, schemas, build a context | three cuts that must fill one answer |
| Influence paths, competing origins | `src/temporal-paths.mjs`, `src/influence-paths.mjs`, `src/competing-origins.mjs`, `src/negative-evidence.mjs`, `src/scoring.mjs`, ... | none | timeline, paths, ranking of claims, contradictions | dates that are missing, tie or do not parse, judged by each module for itself |
| Command line, statistics, telemetry, audit | `src/cli.mjs`, `src/stats-server.mjs`, ... | none | input and output | - |

How they interact: the command line and applications call the engine on a
store they hold, or go through a repository, which loads the store from an
adapter (JSON file, remote, PostgreSQL), calls one engine operation and saves
the result. The daemon loads and saves through the same adapter. Every load
runs the structural check of `memory-schemas.mjs`. Backups and task packets
read a store that the operations left. Claims, tokens and the query cache are
module-level maps shared by all callers in the process.

What correctness means for the main components:

* engine: an id names one memory; duplicates merge when something is
  remembered; refused calls add nothing; memories leave
  only by deletion, compaction or merging; a forgotten memory is not brought
  back behind the user's back; relations do not dangle;
* repository and daemon: callers that keep to the schema never make the disk
  unloadable; a call undoes nothing but what was saved while it was in flight;
  what was forgotten is eventually compacted;
* JSON file: a load throws or returns what was to be had during the call, never a
  torn text; the next undisturbed save repairs any file;
* packages and backups: what comes back is what was taken out, the rest of the
  store is untouched, and a retry leaves the memories as they are;
* retrieval: a context is full and nothing better was left out;
* PostgreSQL adapter: a save takes effect as a whole or not at all, and ends;
* caches, indexes, snapshots, the journal: what they answer agrees with what
  they were filled from, also while others write to it;
* claims: a sensitive claim that is filed was reported by two applications, and
  the index lists each claim where it was filed last;
* origins: a timeline is what a definition by sets says it is, and the modules
  that judge the same dates of sources agree;
* statement store and packets: an application is told what the writers of the
  memories share with it, and the best supported value of a field.

## Modules

| Module | Models | Role |
|---|---|---|
| `MemoryOps` | the operations of the engine, as operators from a store to an outcome | shared by the modules below |
| `MemoryEngine` | one caller that applies operations to its store | state machine, safety and action properties |
| `MemoryBackup` | structural check, approved backup, task filter | operators |
| `MemorySharing` | `MemoryEngine` with `MemoryBackup` | what a store hands out |
| `MemoryRetrieval` | `retrieveMemories`, `retrieveCognitiveSchemas`, `buildRagContext` | operators |
| `StoreExchange` | packages of a category, encrypted backups, what is lost or changed on the way | composition of `MemoryEngine`, `MemoryBackup` and `MemoryRetrieval` |
| `Repository` | clients and daemon runs over one adapter | composition of `MemoryOps` and `MemoryBackup`, which it shares with `MemoryEngine` |
| `JsonFile` | `load` and `save` of the JSON adapter, one system call at a time | state machine with failures and kills |
| `UserStores` | the promise of an adapter's `save` | abstract specification |
| `PostgresAdapter` | `save` statement by statement | implements `UserStores` |
| `ClaimSet` | the promise of the category index | abstract specification |
| `CategoryIndex` | the two maps of the index | operators of `ClaimLifecycle`, which implements `ClaimSet` |
| `ClaimQuarantine` | `createClaim` and `verifyAndProcessClaim` | state machine |
| `ClaimLifecycle` | claims that are verified, kept, rectified, linked and filed | composition of the two above |
| `TokenCache` | `acquireToken` | state machine with time |
| `QueryCache` | `queryContextWithCache` over records that are objects | actions |
| `CommitJournal` | the journal and every array it handed out | actions |
| `ReaderViews` | snapshots, the cache and the journal beside a store that moves on | composition of the two above |
| `TemporalPath` | timelines and influence paths | operators |
| `OriginClaims` | evidence links, contradictions, competing origins, negative evidence | operators |
| `OriginReports` | an application that gathers the inputs of both and asks at any time | composition of the two above |
| `StatementStore` | rows, their split, sealing and restoration | actions of the store |
| `ContextPackets` | task filter, CAP packets, contradictions, worker | operators |
| `StatementContext` | a provider that answers applications from the statement store | composition of the two above |
| `MemoryOpsProofs`, `MemoryEngineProofs`, `RepositoryProofs`, `AdapterProofs`, `StatementContextProofs`, `ReaderViewsProofs`, `ClaimLifecycleProofs`, `OriginReportsProofs` | - | theorems |
| `MC...` | - | instances for TLC |

### The store and the operations (`MemoryOps`, `MemoryEngine`)

A memory is a record of what the operations read or write: `id`, the merge key
(`schema_id`, or type and label), `status`, `state`, `strength`, `age` (days
since it was seen, counted up to `StaleAge`), whether it carries a key that the
backup schema does not know, or a value such as a date that it refuses
(`foreign`), and `born`, its place in the array.
Text, themes, sources and the graph and statistics derived from memories are
left out: no property is about them, and `refreshMemoryStore` recomputes them.
A store is a set of memories, which is faithful since the code looks memories
up by id and `born` tells apart two with the same one (`find` takes the first).
`logged` is the set of ids that the action log names.

Each operation is an operator that returns the new store, whether the action
was accepted and how many memories were appended. Operations that call others
in the code do so in the model (`assimilateEvidence` calls `reinforceMemory`,
`accommodateSchema` calls `createMemory`, ...), and paths that refuse a call
return the store as `emptyMemoryStore` rebuilds it, without snapshots.
`rememberSchemaPacket` and `rememberFeatureOutput` are `createMemory` with an
id of their own and are covered by `CreateInput`.

A patch of `updateMemory` is spread into the record, so it may change any field,
the merge key with it (`Patched`). A blank id finds no memory, but `updateMemory`
and `deleteMemory` log it all the same.

`MemoryEngine` has one action per operation; `last` is the action record that
it returned. `Tick` lets time pass between two calls.

Strengths are small integers. `Gain`, `Loss`, `DecayPerAge`, `Retention` and
`WeakLevel` stand for the constants of the code and keep their order; the cap
on decay that the code applies beyond 30 days lies outside the ages modelled.

### Repository and daemon

A call is two steps: `StartCall` loads (and fails if the structural check
refuses the disk), one of the other actions computes and saves. A daemon run is
`StartRun` and `EndRun`; several may be in flight since `setInterval` does not
wait for the previous one. Here the adapter is atomic; `JsonFile`
says what becomes of that with files. `Stop` may happen at any time.

### JSON file

`StartSave` opens the file, which empties it, each `WritePiece` writes the next
piece at the position of its own call, `EndSave` closes it; `StartLoad`,
`ReadPiece` and `EndLoad` read to the end and parse. `BreakOff` is a write that
fails or a process that is killed, after any of these steps. A text is a
sequence of pieces; a piece in the file remembers the version it was written for
(a history) and says what it says. `JsonText` is what `JSON.parse` reads: pieces of
two versions may make up a text that parses, and a load then returns a store that
nobody saved. What is assumed of JSON is that a text without its end is none.
Writes beyond the end leave a hole. `current`, `clean` and `loaded` are history
variables.

### Packages, backups, retrieval

`StoreExchange` adds to the engine's actions an export and an import of one
category, an encrypted backup and its restore, `InTransit` (the package or
envelope is changed on its way) and `NewDevice` (the store is empty, the package
is not). A digest and an authentication tag are what they are computed from:
hashing and the cipher are external. A query may be asked at any time:
`MemoryRetrieval` has the cuts and orders of the code, with the scores of texts
and strengths as tables. The code pushes the relations and actions of a package
without looking at those there are. The sets of the model say which of them the
store has; `Repeated` says what an import pushes once more.

### PostgreSQL adapter

One step per statement and row. PostgreSQL is external and modelled from how
the adapter uses it, at READ COMMITTED: a DELETE works on the rows committed
when it started, rows written by others are waited for, a deadlock aborts one
of the transactions, any statement may fail. A failed COMMIT is one that did not
take effect; that the server commits and its acknowledgement is lost, after which
the caller is told of a failure that was none, is not modelled. The adapter saves
memories only: relations and actions of the store have no table and are gone at
the next load, in the code as in the model. `arrived` is a history variable for
the refinement: ids that other saves of the user committed since the call.

### Claims and tokens

`CategoryIndex` has one operator per exported function. `ClaimQuarantine` takes
spellings of applications and categories and says through its constants what
normalising makes of them. `ClaimLifecycle` holds the claims that a report
returned as verified: applications rectify them, link evidence, file them one by
one or as an array, remove and discard them, while the quarantine goes on. Its
index keeps of a claim what the properties tell apart: whether two
applications had reported it, and whether its category came from a
rectification. A trace entry is the text and the metadata of the former state,
which is all that the code keeps of it. A category of blanks is a key of the
index (`Blank`, the empty string), which the lookup then takes for none; an array
may name a claim twice, and `twice` is the history of the ids that the last one
repeats.

`TokenCache` splits `acquireToken` at its awaits: the call, the server issuing the
token, the answer arriving, after any time. The server states a lifetime or leaves
it out; 0 and none are the same to `expires_in || 3600` (`ExpiresIn`).

### Readers

In `QueryCache` a record is an object of a heap: an operation of the engine
replaces the objects it changes, a caller may write into one, and an answer is
a set of objects, so what it shows changes with them. `ReaderViews` adds
`SnapshotManager`: a snapshot has objects of its own, whose nested fields are
still those of the objects it was copied from (`source`, `touched`).
`CommitJournal` keeps every array that the journal ever used, since callers
hold them.

### Origins

`OriginReports` gathers memories, exposures, searches and claims in any order,
and its properties ask, in every state and for every date of a thought, for a
timeline, influence paths, and the set of competing origins. Dates are small
numbers, `Missing` or `Unreadable`; a date that cannot be read counts as 0, as
in `parseTime`, and so comes first in a timeline; one of `Blank` is there and
missing once it is normalised. The three modules read fields of their own: a
source has an `occurred_at` (`at`) and a `timestamp` (`stamp`), a memory has
`first_seen_at || last_seen_at` (`seen`) and may have an `occurred_at` (`at`) that
only negative evidence reads, and links refuse a date that is not written as an
ISO date (`iso`). `Rank` passes the claims of an origin set on, as
`scripts/check.mjs` does, so that contradictions found earlier are kept
(`contradicted`), and `Withdraw` takes a claim back. A path is as confident as
`retrieval_score ?? strength` says, not clamped to 0..1, and cites the
`evidence_ids` that the timeline never reads; `scoring.mjs` is arithmetic. Two more
things that the code does are modelled as they are: influence paths look at no
date, so a path may cite a source that came after the thought, and the ids of
packets that a path cites are not ids of evidence links.

### Statement store and packets

A row is the public columns and a payload sealed under a key, and opens only
with that key: `Restart` may bring another one. `Or` is the `||` by which the
code fills in what a memory lacks. A call is one SQL statement, hence one
step; the table is a sequence, the last updated row first, since the order
decides between records that tie.

`ContextPackets` has one operator per function of the two packet builders. The
texts that `semantic-matching.mjs` compares are not modelled: the constant operator
`Matches` says, of an item and a whole list of records, which positions match and
in which order, so it may depend on values, on the other records and on their
number. Records are grouped by what their own value is printed as (`TextOf`);
those without one are the group `"undefined"`, whatever they tell in its place
(`CapQuote`), and integers come first among the keys (`TextOrder`). A `created_at`
that does not parse makes the score of its group NaN, with which the sort may put
any group first: the one that `lead` names, which is chosen anew for every packet.
`TypeWeight` and `Freshness` stand for the factors of a record's score, in
whole numbers. `MemoryBackup` has the filter by status alone, for the stores
that the engine leaves; here the filter is complete. `wrote` is a history
variable: the memories of the table as their writers wrote them, against
which the packets are judged.

## Runs

A passing run checks all the properties named in its `.cfg`; a violating run
checks one, which quotes what the repository says, and TLC finds the behaviour
in which the code does otherwise.

| Run | Question | Bounds | Distinct states |
|---|---|---|---|
| `EngineLifecycle` | Do operations keep the shape of the store, duplicates merge, refused calls add nothing, memories stay and forgotten ones stay out of use? | 3 births, one written and one remembered memory, ages to 2, strengths to 2, patches of the state and of the merge key | 2.65 million |
| `EngineRelations` | Do ids, relations and supersession stay consistent through remembering, superseding, accommodating, deleting? | 3 births, schema, two intents, an accommodated memory and a replacement | 0.7 million |
| `RepositoryShared` | Does the disk stay loadable, what may the races of clients and daemon undo, and is everything forgotten compacted in the end? | 2 clients, 2 runs in flight, 3 calls | 36 000 |
| `JsonTorn` | What can a load return while saves overlap, fail and are killed? | 3 open calls, 3 saves, texts of 1 or 2 pieces, one mixture that is JSON | 1.7 million |
| `StoreExchange` | What do packages and backups bring back, and what does a query find meanwhile? | 3 births, 3 ids, one category, 2 keys, one package held | 0.7 million |
| `PostgresConcurrent` | Do overlapping, failing and deadlocking saves implement `UserStores`, and end? | 2 savers, 2 ids, 2 contents, 2 connections | 219 000 |
| `ClaimLifecycle` | Does the index list what a set of claims would, and does health that is filed have two reports? | 2 claims, 2 applications in 4 spellings, 2 claims held, 2 rectifications, 3 places in the buckets, categories of blanks, arrays that repeat a claim | 226 000 |
| `TokenExpiry` | Is a cached token still valid when it is used? | 2 callers, lifetimes 0, 1 and 5, stated or not (3 by default), a margin of 2, answers that take any time, time to 9 | 1.2 million |
| `ReaderViews` | Do snapshots, cached answers and arrays of the journal stay what they were? | 1 memory in 3 objects, 2 labels, 2 strengths, 2 snapshots, a threshold of 2 and 3 entries | 1.7 million |
| `StatementContext` | Is an application told only what is shared with it, and the best supported value; do rows survive rewriting? | 3 memory ids in 15 versions, 2 keys, 2 days, 4 requests | 29 000 |
| `OriginReports` | Is the timeline right whatever the order, and do the modules agree? | 3 inputs out of 13 memories, 5 exposures, 2 searches, 4 claims; thoughts at 0 (no date) and 2 | 127 000 |
| `DaemonOverwrites` | violated: the daemon removes only reclaimable memories | 1 client, 1 run | - |

Why the bounds are enough. Three births let a record be created, superseded or
duplicated, and remembered again: the smallest case of every interaction
between merging and the other operations. Two clients and one run suffice for
every lost update; the second run shows that runs overlap. Two savers with
different contents deadlock, mix and wait for rows; each finds a connection, so
that nobody waits for the pool in this run. Two callers let answers overtake
each other; three open calls of a file are two saves that mix and a load that
sees it; two snapshots and three objects are a record, its copy and a
replacement; three inputs are two memories with an exposure or a claim, or one
memory with two claims. Three places in the buckets are a claim filed twice beside
another one.
Time runs long enough for a token to be issued, expire and be replaced twice.
Three memories are a contradiction and a supporter, or a contradiction and
another field that the same item asks for. Every property has a mutant of the
code that breaks it within these bounds (`PROJECT.json`, `mutants`; the mutated
operators are named `Faulty...` and stand before the operator they mutate).

Deadlock is not checked in `RepositoryShared` and the runs beside it, where the
clients make a bounded number of calls and may then all be done, nor in
`OriginReports`, where everything was gathered once `MaxInputs` is reached.

Every state machine has a type invariant. `EngineLifecycle` checks the
engine's, which is also proved, as are those of `JsonFile`, `ClaimQuarantine`,
`Repository`, `StoreExchange` and `PostgresAdapter`; those of the other modules
(`HeldTypeOK`, `ReaderTypeOK`, `OriginTypeOK`, `TypeOK`) hold under the configuration of their
module's run when they are named in it, and so do `MapsAgree` and
`UniqueIdsEverywhere`, which are proved.

### What the violation shows

`DaemonOverwrites`: `runOnce` saves what it loaded before an await, and removes
what a client saved in between.

### Further counterexamples

These properties quote the repository, and the code does otherwise. TLC finds
each violated, in seconds, under the configuration named here with the property
in place of those it lists (as `INVARIANT`, or as `PROPERTY` where it says
`[][...]`). Four configurations are only for this.

| Configuration | Property | What the code does |
|---|---|---|
| `EngineLifecycle` | `ForgottenStaysForgotten` | `weakenMemory` turns a forgotten memory into a weak one |
| `EngineLifecycle` | `RetainedPacketIsLive` | a packet exactly at the threshold is "retained" and forgotten by the same call |
| `SchemaKeys` | `UniqueIds` | schema ids that differ in punctuation give two records with one id |
| `SchemaKeys` | `RememberKeepsLiveKeys` | a replacement has the key of the memory it replaces, so the next remember merges the two and the superseded record absorbs the live one |
| `StoreSharing` | `TaskHidesForgotten` | forgetting sets `state`, the task filter reads `status` first |
| `StoreSharing` | `BackupSkipsPending` | a memory with status pending and default state is exported |
| `StoreSharing` | `ApprovedBackupRestores` | a backup with a corrected memory cannot be restored |
| `StoreSharing` | `BackupDropsDanglingActions` | a backup keeps the actions of memories it leaves out |
| `StoreExchange` | `PackageIsIsolated` | a package of a category carries the actions of all memories |
| `StoreExchange` | `ImportKeepsForgotten` | an older package revives a memory that was forgotten since |
| `StoreExchange` | `ImportAppendsOnce` | an import appends relations and actions that the store already has |
| `StoreExchange` | `ContextHidesForgotten` | a forgotten memory that matches is quoted in a context |
| `DaemonOverwrites` | `ReclaimedStayGone` | a client's save brings back what compaction removed |
| `DaemonOverwrites` | `StopIsFinal` | a run in flight saves after `stop()` |
| `DaemonOverwrites` with `Patch <- MCAnyPatch` | `EverySaveLoads` | the documented status `rejected` makes a store unloadable |
| `DaemonOverwrites` with `CallerId = {"a", "i", NoMemory}` | `EverySaveLoads` | an update or delete of a blank id is saved as an action with a blank `memory_id`, which the next load refuses (`memory-schemas.mjs:355`) |
| `JsonTorn` | `LoadsWereSaved` | two overlapping saves of like length leave a mixture that parses |
| `PostgresConcurrent` | `CommitReplacesStore` | two overlapping saves leave the union of their stores |
| `QuarantineBypass` | `HealthNeedsTwoApps` | `createClaim` drops the field `category`, so the claim is not sensitive |
| `QuarantineBypass` | `HealthIsChecked` | a claim that is rectified to health is filed without any report |
| `ClaimLifecycle` | `BlanksAgree` | a claim filed under blanks is taken for an unfiled one: it stays there when it is filed elsewhere, and is filed there twice |
| `ClaimLifecycle` | `RepeatedAgree` | a claim that an array names twice keeps a copy that no upsert moves and no removal removes |
| `TokenExpiry` | `CachedTokenHasAMinute` | the expiry is counted from the arrival of an answer, and from an hour where it states none |
| `TokenExpiry` with `Resource = {"r", "s"}` | `TokenIsForResource` | a token for one resource answers a call for another |
| `ReaderViews` | `AnswerIsCurrent` | a query finds a memory by a label it no longer has |
| `ReaderViews` | `AnswersComeFromSnapshot` | a query of a snapshot is answered from the cache with records of the store |
| `ReaderViews` | `SnapshotsAreImmutable` | a write into what is nested in a record shows in a snapshot |
| `ReaderViews` | `HeldArraysAreBounded` | an array of the journal that a caller holds grows beyond the threshold |
| `StatementContext` | `ToldIsStrongest` | memories without a value of their own are one group, whose told values may be weaker than others |
| `StatementContext` | `MissingIsTold` | an item that matches only a record that lost the resolution is told missing |
| `StatementContext` | `QuarantineIsNotDropped` | a quarantined record that is not the best match is dropped from a CAP packet without an error |
| `NestedSensitivity` | `QuotesAreShared` | a memory whose sensitivity is an attribute becomes a normal one when it is stored, and is handed out |
| `OriginReports` | `ModulesAgree` | a source dated by its `timestamp` has a date for its link, and none for the timeline and the negative evidence |
| `OriginReports` | `PrimaryIsUncontradicted` | claims that are ranked again keep what contradicted them before |
| `OriginReports` | `PathsCiteNothingElse` | a path cites `evidence_ids`, which the timeline never reads |
| `OriginReports` | `EveryMemoryIsLinked` | of two memories of one packet and page only the first is linked |
| `OriginReports` | `RepetitionsAreSeveral` | a memory and its only source count as repeated exposures |

`EverySaveLoads` fails as well once an input or a patch carries a key or a value
that the schema of its type refuses (`foreign`), and once a memory is linked to
itself. `UniqueIdsEverywhere` fails without `IdsDetermineKeys`, for one, once an
edit changes the label that an intent is merged by.

### Fairness

* `Repository!FairSpec`: awaited loads and saves settle and the timer keeps
  firing until it is cleared, so `EndCall`, `StartRun` and `EndRun` are weakly
  fair. Nothing makes a client call, and a call may end as a read.
* `PostgresAdapter!FairSpec`: a save that can go on again and again does
  (strong fairness, since another save may lock a row in between; PostgreSQL
  queues waiters in order, and so does the pool), and a deadlock is broken
  (weak fairness; the detector runs after `deadlock_timeout`). Failures are
  never forced.

## Proofs

Every theorem holds for any values of the constants that meet the assumptions
of its module; hypotheses beyond these are named with the theorem. TLC checked
each inductive invariant on a run before it was proved.

### Engine

`MemoryEngineProofs!TypeCorrect` (`Spec => []TypeOK`): every operation maps
stores to stores, for any sets of ids, keys and inputs and any scale of
strengths. `MemoryOpsProofs` has one lemma per operator; the induction follows
the actions of `Next`.

`IdsUnique` (`Spec /\ IdsDetermineKeys => []UniqueIds`). `UniqueIds` is not
inductive: a remembered input is merged by key, so it stays unique only if the
record that has its derived id also has its key. `IdInvariant` adds that
(`DerivedIdsKeepKeys`), and `IdsAreKept` is the theorem about it.
`IdsDetermineKeys` states what callers must respect: a derived id goes with one
key, callers do not give it to another key, by a create or by a patch, nor choose
ids for replacements.
`SchemaKeys` shows that the slugs of the code do not guarantee it. `BuildKeeps`
is the lemma about `buildMemoryStore`: one record per key, each with the id and
key of a record that was there or was remembered. `RemembersMergeAll` follows
from it and the outcomes.

`OnlyDeletionLoses` and `OnlyEditRevives` go through what a step does to the
memories that were there (`StepEffects`): it keeps them all, edits one, removes
what a hard delete or a compaction may, merges by key, or is time. Losing an id
needs nothing more. Reviving does: a remember merges a record into the one with
its key that was born first, so a forgotten memory would come back as a
remembered one if the remembered one were born before it. `BornInOrder` says
that it is not: a batch gets the places after all that are there. Both need
that two records of one id have one key, which is `IdInvariant` again, so
`OnlyEditRevives` is under `IdsDetermineKeys`.

`SupersessionIsMirrored` (`Spec /\ RelatedOnly => []SupersessionMirrored`):
every `supersedes` has its `superseded_by`, in every store, if callers relate
memories by other types themselves. It is inductive with the type invariant;
one lemma says what each operation adds to the relations, and the pair that
`Superseded` adds mirrors itself. `RelationsStay` (`Spec =>
RelationsStayClosed`) has no hypothesis: what creates, edits or relates adds only
relations between ids that the store has afterwards, and what removes an id
removes the relations that name it. `RefusalsAddNothing` goes through the
outcomes: one that is not accepted has the memories it had and no new relation.

### Repository and daemon

`RepositoryProofs` reduces every step to one of three (`StepSaves`): nothing is
saved (`Unsaved`), an outcome of an operation on what a client had loaded is
(`Computed`), or a compaction of what a run had loaded (`Compacted`). What is to
hold of the disk must then hold of every loaded copy as well, since a copy may
be saved after anything happened; and it must survive the operations.

* `DiskAlwaysLoads` (`Spec => []DiskLoads`), with `EverythingLoads`.
  `DiskLoads` has `KeepsToSchema` as its condition, the caller's part, which no call checks
  before it saves: no blank ids, no keys and values that the schema of a type
  refuses, visible states, links with distinct ends. Without each of these the
  store does not load any more (Further counterexamples).
* `UniqueIdsAreKept` (`IdsDetermineKeys` implies `Spec =>
  []UniqueIdsEverywhere`), with `IdsEverywhere`: a lost update loses or revives
  whole records, and no interleaving puts two of one id on the disk.
* `RacesAreInFlight` (`Spec => OnlyRacesLoseOrRevive`): whatever a call undoes was
  saved while it was in flight. If the disk and every loaded copy have a memory
  live, whichever is computed on and saved next still has it, but for a hard
  delete and a merge (`Remains`, operation by operation); if none of them has it,
  only a create or a remember brings it. The property leaves out what the copies
  disagree about, since there the code does lose and revive.
* `RepositoryTypeCorrect` (`Spec => []TypeOK`).

### Packages, backups, retrieval

`MemoryEngineProofs` goes on with `StoreExchange`: its proofs reuse what is
proved of the engine's steps (`EngineStepIsNext`: they are steps of
`MemoryEngine`) and add the others.

* `TakenMemoriesReturn`, `ImportsKeepTheRest`, `RestoredStaysClosed` and
  `ExchangeTypeCorrect` need no hypothesis. `ExchangeInvariant` says what the
  digest of the held package or envelope stands for (`Original`): data of the
  declared shape, with the memories that were taken and relations among them
  only (`HeldSealed`). What happens on the way changes the data and never
  the digest, so an import or restore that is accepted brings back `Original`
  (`AcceptedIsOriginal`).
* `ExchangedRelationsStay`: an import takes no id out of the store, and both
  ends of a relation of a package come with it.
* `ExchangedIdsUnique` and `RetriedImportsKeepMemories` are under
  `IdsDetermineKeys`, as `IdsUnique` is. `ExchangeIds` says of the store and of
  `Original` that ids are distinct, go with their keys and that every record has a
  place of its own (`Sound`). The place of a record that is pushed counts the new
  records before it, so two of them differ and all lie behind the store
  (`PushedPlaces`). The second import then finds every record of the package at
  its id, and puts it where it is. This is about memories: relations and actions
  are appended again, which `ImportAppendsOnce` denies and the code does.
* `ContextsAreBest`: with places of their own the records are ordered strictly
  and totally, so the number of better records is a bijection from `n` memories
  onto `0..n-1` (`Ranks`), and the best `k` are as many as there is room for
  (`BestFills`). The schemas in a context are at most `top`; what they leave
  room for is filled from the best answers, of which they can have taken no
  more than their own number (`ContextFills`).

The run `StoreExchange` checks all of these under values of the constants that
meet `IdsDetermineKeys`.

### JSON file

`AdapterProofs!JsonLoadsAreRecent` and `JsonCleanSavesAreStored`, for any
number of callers and saves and any texts, also those of which pieces make up
other JSON texts. `FileInvariant` follows the versions: no two open saves write the
same one (`SavesAreApart`); a piece in the file is of a version that is current or
being written, since a save empties the file when it starts (`FileIsLive`), and it
is where its text has it (`PiecesInPlace`); and an open load may return whatever is
current or being written (`LoadsAreCovered`). What parses and is of one version is
then the start of its text, and all of it, since a text without its end is no JSON
(`ParsedIsWhole`). `CleanInvariant`: a save that has been alone so far wrote all
that is in the file. `JsonTypeOK` is the type invariant.

### PostgreSQL adapter

`AdapterProofs!AdapterImplementsStores` (`Spec => StoresSpec`), for any
number of users, callers and connections, under `OwnIdsApart`: no memory id
belongs to two users. Without it the theorem is false, since an upsert takes
over the row of another user (`postgresql.mjs:84`, listed as a hazard); with
one user it always holds, and that is the instance of `PostgresConcurrent`.

A call is `Ask`, a commit `Replace`, a rollback or a failed connect `Refuse`,
and everything else a stutter. That a commit leaves the store as it was given,
and beside it only what arrived, needs `AdapterInvariant`, which says of every
save in flight:

* what it has written is locked, and only a transaction holds a lock (`Locked`);
* what it deletes are rows of its user that are not in its store, what it writes
  are the rows of its store (`WritesOwn`), and after the deletes each of them is
  written or still on the list (`ToWrite`);
* a row of its user that is not in its store is still to be deleted, is deleted,
  or was committed by another save of the user meanwhile (`Reached`). This is
  the part that the snapshot of DELETE puts at risk: a row that is committed
  after the snapshot is on no list, and then it is among the arrivals.

`Pooled` says that every connection is in the pool or has a transaction on it;
`AdapterTypeCorrect` states it with the type invariant.

### Claims and tokens

`ClaimLifecycleProofs!ReleaseNeedsTwoApps` (`Spec => []TwoAppsRelease`), for
any claims, spellings and finite set of applications. The inductive invariant
`QuarantineInvariant` adds that the registry counts for a claim only
applications that reported it; the claim that is released is the one that was
registered, so its id is the one they reported. `LifecycleNeedsTwoApps` is the
same while applications handle the claims that were returned.

`HealthIsFiledChecked` is about those. A filed claim was a held claim and a held
claim may be filed again, so `LifecycleInvariant` says of both that a claim under
health was checked or has a category that was rectified or padded.

`IndexIsClaimSet` (`LifecycleSpec => ClaimSetSpec`): under every category that can
be named the two maps of the index list what a set of claims would, step by step,
but for the ids that the last array repeats. Categories of blanks and repeated
claims are steps of the lifecycle; what is proved is that they disturb nothing
else. `IndexAgrees` is the invariant: the lookup names the bucket a claim is in, and
no other bucket of a category that can be named has it.
`buildCategoryIndex` is a loop over an array and `Indexed` a recursive function of the
prefix. That it exists and has its equations is proved from the least prefix for
which it would fail (`LeastNat`), since the library's theorem on recursive
functions takes an operator; that it agrees with the set is shown the same way.

`AdapterProofs!CachedTokensAreValid` (`TokenSpec => []CachedTokenIsValid`), for
any number of callers, lifetimes and latencies and any default: a token from the
cache has not expired if the time that its answer took, and what its lifetime was
overrated by because it was not stated, are within the margin. Otherwise the code
does hand out expired tokens (`CachedTokenHasAMinute`). `ExpiryHolds` is the
invariant: the expiry in the cache is that of the token beside it, counted from
its own arrival, although answers of several callers overwrite each other.

### Readers

`ReaderViewsProofs!JournalHoldsTheTail` and `HeldArraysOnlyGrow`, for any
threshold and whatever readers do beside it (`ReaderSpec`). `JournalIsTail` is
inductive once the arrays and the history are typed without their bounds
(`JournalTyped`); the `LastOf...` lemmas say what an append does to the
end of a sequence.

`SnapshotsStayIsolated` and `AnswersAreStored`, for any number of objects,
snapshots and queries and any scores. `ReaderInvariant`: the objects of a
snapshot are never among those of the store, so an operation or a write in
place leaves them alone; and what an answer names it found in the records it was
asked over, at a hit and at a miss.

### Statements and packets

`StatementContextProofs`, for any memories, fields, applications, requests, keys,
ways to match, weights and freshness.

* `TableIsWritten`: the table has one row for every memory that was written and
  not deleted (`TableInvariant`). `ReadBack` says what its row gives back, and
  the filter (`Kept`), a recursive function of the position, keeps exactly the
  permitted positions in their order (`KeptPositions`).
  `RowsSurviveRewriting` follows, since what is read back needs no default any
  more, and so does `ContextTypeCorrect`.
* `OnlySharedIsQuoted` and `QuotedIsStrongest` are under `SensitivityIsAField`: no
  memory is sensitive by its attribute alone (without it the first one is false,
  `NestedSensitivity`), and under `MatchesAreRecords`: what matches is in the list.
  `Tells` says that the filter has the records of the memories that are shared and
  no others; an answer is then a function of that list. `QuotedIsStrongest` speaks
  of fields whose shared memories have values of their own and dates that can be
  read (`Comparable`); elsewhere the code may tell a weaker value
  (`ToldIsStrongest`). The property judges a value, as it is printed, by a sum over
  the *set* of memories that hold it (`SumFunction`, a fold), and the code adds it
  up along the *list*: `EvidenceIsSupport` is the theorem that both are the
  same, from `SumIsTotal`, and `ForemostExists` that the sort has a first.
* `AgreementKeepsValue` needs no hypothesis; `KeepsWinner` has the same condition
  on the records of the field. A new record comes first in the list, so it shifts
  every position by one; the evidence of its value grows by its weight and no other
  evidence changes (`EvidenceOfMore`), and it takes over a tie in favour of the
  value it agrees with.

The library's induction theorems take an operator. Here the induction of a loop
is over a set of positions (`UpTo`, from the least element of a set of
naturals), and that a recursive function exists (`LoopExists`) is proved the
same way, by extending one that runs to a position by one more round.

### Origins

`OriginReportsProofs`, for any memories, exposures, searches, claims, dates and
any number of them. `OriginAssumption` says what the constants are: memories
list their sources, an exposure that is reported names no source of a memory,
and what claims name beforehand is a set.

* `Arranged` writes `sort` and `filter` without recursion: the element at place
  `k` is the one with `k - 1` others ahead of it. `ArrangedIsArranged` shows by
  counting (`NumbersAhead`) that each place has exactly one, so an arrangement
  has the elements of the list and puts none ahead of one that comes before it.
  `SortSorts` and `KeptKeeps` are what the reports use of it.
* The lists of events and links are flattened, a recursive function of the
  position: `Flattened` says what it holds, from the least round that would
  fail.
* `OriginInvariant` types the inputs, keeps the ids of memories apart, which
  deletions must not disturb, and says that a claim is one of those that are
  made, with other evidence. Every report is a function of these lists, so the
  invariants follow from it state by state.
* `TimelinesStayExact`: what the list of exposures holds is `Candidates`, a
  definition by sets (`SeenAreCandidates`); the first of the list by date and
  the last of the strongest are then what the sort says.
* `ThreeModulesAgree`: the links of a memory leave out what an earlier memory
  linked, so a claim may name fewer dates than its memory has sources. `LinkedEach`
  counts both sets. `DatedLinksAreOfSources` is the argument that equal numbers mean
  that each source has its link, by the injection from links to sources; with it the
  earliest linked date is that of the earliest source. The theorem is about memories
  of whose sources the three modules read one date (`OneDateEach`); the others
  they do judge differently (`ModulesAgree`).
* `PathsStayCited`: the only path that is reported is that of a schema memory with
  evidence that none is more confident than (`ReportedPath`), and but for its
  `evidence_ids` it cites what the timeline cites.

`OriginTypes` is the type invariant, which also bounds a timeline: it has one to
five steps in the order of their dates.

### What is only model-checked

Liveness under fairness (`EventuallyCompacted`, `SavesEnd`): ENABLED and
fairness are out of the prover's reach. Every other property of a passing run
is stated by a theorem.

## Not modelled

* The texts and vectors behind scores: retrieval and contexts take scores as
  tables, matching is an arbitrary operator (`Matches`), and `scoring.mjs` and `app-trust-scoring.mjs` are arithmetic
  of their arguments (no caller in `src/` passes trust to a path).
* Text normalisation, hashing, ciphers, the rendering of packets, prompts and
  reports; values whose printing throws or whose name is that of a property
  of every object, such as `constructor`.
* `read-write-executor.mjs`: two pools whose state is the driver's. Its close
  and its retry of failed reads are listed as a hazard.
* Embeddings, the command line, the statistics server, telemetry and the audit
  log: input, output and counting.
* The diff of two graph snapshots, `core-schemas.mjs` and `source-metadata.mjs`
  beyond what the other modules use: functions without state.
* `BreakOff` is the only crash: writes that the operating system had accepted
  are not lost.

## Plan

1. The executor with failover and close under `StatementStore`; the media baseline
   and the purge of expired records.
2. Proofs about what that adds; the theorems cover the safety properties of
   what is modelled now.
