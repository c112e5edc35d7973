-------------------------- MODULE StatementContext --------------------------
(***************************************************************************)
(* A provider that keeps its memories in the statement store and answers   *)
(* applications with packets built from what the store lists.  While an    *)
(* application asks, memories are written and deleted, days pass, and the  *)
(* service is started again with another key.                              *)
(***************************************************************************)
EXTENDS ContextPackets, Functions

VARIABLES
    wrote,      \* the memories of the table, as their writers wrote them
    reply       \* what the last call answered an application

vars == <<rows, key, today, wrote, reply>>

TypeOK ==
    /\ StoreTypeOK
    /\ wrote \subseteq Written
    /\ {m.id : m \in wrote} = {rows[i].public.id : i \in DOMAIN rows}
    /\ reply = NoPacket \/ reply.request \in Request

Init == StoreInit /\ wrote = {} /\ reply = NoPacket

-----------------------------------------------------------------------------

Write(m) ==
    /\ Upsert(m)
    /\ wrote' = {n \in wrote : n.id # m.id} \cup {m}
    /\ reply' = NoPacket

Drop(id) ==
    /\ Delete(id)
    /\ wrote' = {n \in wrote : n.id # id}
    /\ reply' = NoPacket

Pass == (Day \/ Restart) /\ reply' = NoPacket /\ UNCHANGED wrote

AskTask(request) ==
    /\ CanList
    /\ reply' = BuildTaskContextPacket(Listed, request)
    /\ UNCHANGED <<rows, key, today, wrote>>

AskCap(request) ==
    /\ CanList
    /\ \E lead \in [Field -> Text] : reply' = BuildCapPacket(Listed, request, lead)
    /\ UNCHANGED <<rows, key, today, wrote>>

\* A row that does not open: the list is refused.
AskUnreadable ==
    /\ ~CanList
    /\ reply' = NoPacket
    /\ UNCHANGED <<rows, key, today, wrote>>

Work ==
    /\ reply # NoPacket /\ reply.kind # "output"
    /\ reply' = RunWorker(reply)
    /\ UNCHANGED <<rows, key, today, wrote>>

Next ==
    \/ \E m \in Written : Write(m)
    \/ \E id \in MemoryId : Drop(id)
    \/ Pass
    \/ \E request \in Request : AskTask(request) \/ AskCap(request)
    \/ AskUnreadable
    \/ Work

Spec == Init /\ [][Next]_vars

-----------------------------------------------------------------------------
(* Properties.                                                             *)

FieldOf(m) == Or(m.field_path, m.path)

\* What the writer of a memory lets an application have.
Shared(m, request) ==
    /\ Or(m.status, Or(m.state, "accepted")) \in ApprovedStatus
    /\ m.worker /\ (m.apps # {} => request.app \in m.apps)
    /\ Or(m.sensitivity, m.nested) = "sensitive" => FieldOf(m) \in request.sensitive
    /\ FieldOf(m) \notin Blocked
    /\ request.categories # {} => FieldCategory[FieldOf(m)] \in request.categories

\* What a memory says, by its value or by what is told in place of one.
Says(m) == {m.value, m.context, m.aside}

\* README.md:15: "retrieve only relevant approved statements when queried by
\* authorized apps".  Through the table, the filter, the resolution of
\* contradictions and the worker, an application is told something of a field
\* only if a memory that says so shares it with that application, by the
\* status, lists and sensitivity it was written with.
QuotesAreShared ==
    reply # NoPacket =>
        \A q \in reply.allowed :
            \E m \in wrote :
                FieldOf(m) = q.field /\ q.value \in Says(m) /\ Shared(m, reply.request)

\* Memories whose support can be added up: each has a value of its own, and no
\* date that cannot be read.
Comparable(memories) == \A m \in memories : m.value # "" /\ Dated(m)

\* What memories of a field say together.
Support(memories, field) ==
    SumFunction([m \in memories |-> Weight([m EXCEPT !.field_path = field])])

\* MEMACT.md:18: "returns the strongest active value".  A CAP packet quotes a
\* field once.  When all memories of the field that the application may have are
\* comparable, no value of them, told apart as they are printed, is supported by
\* more evidence than the quoted one.
StrongestIsQuoted ==
    reply # NoPacket /\ reply.kind = "cap" =>
        \A q \in reply.allowed :
            /\ \A p \in reply.allowed : p.field = q.field => p = q
            /\ LET shared == {m \in wrote : FieldOf(m) = q.field /\ Shared(m, reply.request)}
                   Of(text) == {m \in shared : TextOf[m.value] = text}
               IN Comparable(shared) =>
                      \A m \in shared :
                          Support(Of(TextOf[m.value]), q.field) <= Support(Of(TextOf[q.value]), q.field)

\* Reading a memory and writing it back under the same key leaves its row as it
\* was: the defaults that the split fills in are not filled in twice.
RewritingKeepsRows ==
    \A i \in DOMAIN rows :
        Readable(rows[i]) => EncryptStatementRow(DecryptStatementRow(rows[i])) = rows[i]

\* A record of an id of its own leaves the value that it agrees with the winner.
KeepsWinner(m) ==
    m.id \notin {n.id : n \in wrote} =>
        \A request \in Request :
          \A before \in {FilterApprovedTaskMemory(Listed, request)},
              after \in {FilterApprovedTaskMemory(Listed, request)'} :
            LET field == FieldOf(m)
            IN /\ OfField(before, field) # {}
               /\ Comparable({after[i] : i \in OfField(after, field)})
               => \A lead \in [Field -> Text] :
                      Winner(before, field, lead) = TextOf[m.value]
                      => Winner(after, field, lead) = TextOf[m.value]

\* A new record that agrees with the value that an application is told does not
\* make another value win, while the records of the field are comparable.
SupportKeepsValue == [][\A m \in wrote' \ wrote : KeepsWinner(m)]_vars

-----------------------------------------------------------------------------
(* What the code does not keep to (README.md).                             *)

\* MEMACT.md:18 without the condition: of what the memories of a field tell, the
\* quoted one has the most support.
ToldIsStrongest ==
    reply # NoPacket /\ reply.kind = "cap" =>
        \A q \in reply.allowed :
            LET shared == {m \in wrote : FieldOf(m) = q.field /\ Shared(m, reply.request)}
                Told(m) == Or(m.value, Or(m.context, m.aside))
                Telling(value) == {m \in shared : Told(m) = value}
            IN \A m \in shared :
                   Support(Telling(Told(m)), q.field) <= Support(Telling(q.value), q.field)

\* cap-packet.mjs:112: "No approved matching memory."  An item is reported missing
\* only if it matches none of the memories that the application may have.
MissingIsTold ==
    reply # NoPacket /\ reply.kind = "cap" /\ CanList =>
        \A item \in reply.missing :
            ~Matched(item, FilterApprovedTaskMemory(Listed, reply.request))

\* cap-packet.mjs:86-89: the quarantine is enforced "against both" the match and
\* the pool "to ensure we never silently drop/alter quarantined records".  No
\* packet is built from a list with a quarantined record that an item matches.
QuarantineIsNotDropped ==
    reply # NoPacket /\ reply.kind = "cap" =>
        \A item \in Asked(reply.request) : \A n \in DOMAIN Matches(item, Listed) :
            ~IsQuarantinedMemory(Listed[Matches(item, Listed)[n]])

=============================================================================
