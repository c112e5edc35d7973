--------------------------- MODULE StatementStore ---------------------------
(***************************************************************************)
(* The statement store of src/postgres-statements.mjs: a memory is split   *)
(* into public columns and a payload, which src/field-encryption.mjs seals *)
(* under the key of the environment, and is put together again when the    *)
(* row is read.  "" is a field that a memory does not have.                *)
(*                                                                         *)
(* A call is one statement of the database, so it is one step.  The key id *)
(* that a row carries is never read, and is not part of the model.         *)
(***************************************************************************)
EXTENDS Naturals, Sequences

CONSTANTS
    MemoryId, Field, App, Value, EntryType,
    Key,            \* keys that the environment may hold
    Written,        \* memories that callers write
    MaxDay          \* bound on the days that pass

Status == {"accepted", "approved", "active", "edited", "user_verified",
           "pending", "rejected", "forgotten", "quarantined"}

\* nested is attributes.sensitivity; apps is allowed_app_ids, and worker tells
\* whether allowed_actor_types names memact_worker, which a missing list does.
\* aside is attributes.value or, without one, the summary or the label, which is
\* the id of a memory that has none; context is context.value where attributes
\* have no value.  date tells whether created_at is a date that can be read.
Memory == [id : MemoryId, field_path : Field \cup {""}, path : Field \cup {""},
           status : Status \cup {""}, state : Status \cup {""},
           sensitivity : {"", "normal", "sensitive"}, nested : {"", "normal", "sensitive"},
           apps : SUBSET App, worker : BOOLEAN,
           value : Value \cup {""}, context : Value \cup {""}, aside : Value,
           entry_type : EntryType, confidence : Nat,
           date : {"given", "none", "unreadable"}, created : 0..MaxDay]

ASSUME WrittenAssumption ==
    /\ MaxDay \in Nat /\ Written \subseteq Memory
    /\ \A m \in Written : m.field_path # "" \/ m.path # ""

VARIABLES
    rows,       \* the table, as list() selects it: the last updated first
    key,        \* the key of the environment
    today

storeVars == <<rows, key, today>>

Or(a, b) == IF a # "" THEN a ELSE b

\* filter(): what a list has at some of its positions, in the same order.
Kept(s, keep) ==
    LET kept[i \in 0..Len(s)] ==
            IF i = 0 THEN <<>>
            ELSE IF i \in keep THEN Append(kept[i - 1], s[i]) ELSE kept[i - 1]
    IN kept[Len(s)]

-----------------------------------------------------------------------------
(* Rows.                                                                   *)

\* Two halves of a memory: the columns and the payload.
PublicRow(m) ==
    [id |-> m.id, field_path |-> Or(m.field_path, m.path),
     status |-> Or(m.status, Or(m.state, "active")), state |-> Or(m.state, "active"),
     sensitivity |-> Or(m.sensitivity, "normal"), apps |-> m.apps, worker |-> m.worker]

SensitivePayload(m) ==
    [nested |-> m.nested, value |-> m.value, context |-> m.context, aside |-> m.aside,
     entry_type |-> m.entry_type, confidence |-> m.confidence,
     date |-> m.date, created |-> m.created]

EncryptStatementRow(m) ==
    [public |-> PublicRow(m), sealed |-> SensitivePayload(m), key |-> key]

\* A status that stands in the way of a packet is lost.  (An operator named
\* Faulty... is the one after it with a plausible mistake; no specification
\* uses it.)
FaultyMergeMemoryStatement(public, payload) ==
    [id |-> public.id, field_path |-> public.field_path, path |-> "",
     status |-> public.state, state |-> public.state,
     sensitivity |-> public.sensitivity, apps |-> public.apps, worker |-> public.worker,
     nested |-> payload.nested, value |-> payload.value, context |-> payload.context,
     aside |-> payload.aside, entry_type |-> payload.entry_type,
     confidence |-> payload.confidence, date |-> payload.date, created |-> payload.created]

MergeMemoryStatement(public, payload) ==
    [id |-> public.id, field_path |-> public.field_path, path |-> "",
     status |-> public.status, state |-> public.state,
     sensitivity |-> public.sensitivity, apps |-> public.apps, worker |-> public.worker,
     nested |-> payload.nested, value |-> payload.value, context |-> payload.context,
     aside |-> payload.aside, entry_type |-> payload.entry_type,
     confidence |-> payload.confidence, date |-> payload.date, created |-> payload.created]

\* The payload is opened with the key that the environment holds now.
Readable(row) == row.key = key

DecryptStatementRow(row) == MergeMemoryStatement(row.public, row.sealed)

\* list() is refused as a whole when one row does not open.
CanList == \A i \in DOMAIN rows : Readable(rows[i])

Listed == [i \in DOMAIN rows |-> DecryptStatementRow(rows[i])]

-----------------------------------------------------------------------------

StoreInit == rows = <<>> /\ key \in Key /\ today = 0

Upsert(m) ==
    /\ m.created <= today
    /\ rows' = <<EncryptStatementRow(m)>>
                 \o Kept(rows, {i \in DOMAIN rows : rows[i].public.id # m.id})
    /\ UNCHANGED <<key, today>>

Delete(id) ==
    /\ \E i \in DOMAIN rows : rows[i].public.id = id
    /\ rows' = Kept(rows, {i \in DOMAIN rows : rows[i].public.id # id})
    /\ UNCHANGED <<key, today>>

\* The service starts again with a key of its environment.
Restart ==
    /\ key' \in Key \ {key}
    /\ UNCHANGED <<rows, today>>

Day ==
    /\ today < MaxDay
    /\ today' = today + 1
    /\ UNCHANGED <<rows, key>>

StoreTypeOK ==
    /\ \A i \in DOMAIN rows :
           /\ rows[i].key \in Key /\ DecryptStatementRow(rows[i]) \in Memory
           /\ \A j \in DOMAIN rows : rows[i].public.id = rows[j].public.id => i = j
    /\ key \in Key /\ today \in 0..MaxDay

=============================================================================
