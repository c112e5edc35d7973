--------------------------- MODULE ContextPackets ---------------------------
(***************************************************************************)
(* The packets that applications are given: task context packets of        *)
(* src/task-context-packet.mjs, CAP packets of src/cap-packet.mjs with the *)
(* resolution of contradictory records, and what the worker of             *)
(* src/context-worker.mjs makes of a packet.                               *)
(*                                                                         *)
(* Matches stands for src/semantic-matching.mjs, which reads the field, the *)
(* category, the label, the summary, the value and the themes of a record, *)
(* spreads along a graph of all records of the list and cuts its           *)
(* candidates: for an item and a list, the positions of the records that   *)
(* match, the best first.  A record is a memory as it was read, and the    *)
(* category of a record is that of its field.                              *)
(***************************************************************************)
EXTENDS StatementStore, FiniteSets

CONSTANTS
    Item, Category,
    FieldCategory,
    Blocked,        \* fields that name a full profile or raw captures
    Matches(_, _),  \* of an item and a list of records
    Text,
    TextOf,         \* what a value is printed as, "undefined" for no value
    TextOrder,      \* of the keys of an object: numbers first, by size
    TypeWeight,     \* what the entry type of a record counts
    Freshness,      \* what is left of that after some days, by field
    Request,        \* requests that applications make
    NoPacket

Purpose == {"onboarding_prefill", "field_mapping", "context_conversion"}

\* sensitive is allowedSensitiveFieldPaths.
AnyRequest ==
    [app : App, items : Seq(Item), required : SUBSET Item, categories : SUBSET Category,
     sensitive : SUBSET Field, purpose : Purpose \cup {"other"}, review : BOOLEAN]

ASSUME PacketAssumption ==
    /\ FieldCategory \in [Field -> Category] /\ Blocked \subseteq Field
    /\ TextOf \in [Value \cup {""} -> Text] /\ TextOrder \in [Text -> Nat]
    /\ TypeWeight \in [EntryType -> Nat] /\ Freshness \in [Field -> [0..MaxDay -> Nat]]
    /\ Request \subseteq AnyRequest

-----------------------------------------------------------------------------
(* Which records an application may have.                                  *)

ApprovedStatus == {"accepted", "approved", "active", "edited", "user_verified"}

NormalizeMemoryRecord(m) ==
    [m EXCEPT !.field_path = Or(@, m.path), !.status = Or(@, Or(m.state, "accepted")),
              !.sensitivity = Or(@, Or(m.nested, "normal"))]

IsApproved(m) == m.status \in ApprovedStatus

\* The applications of a list are not compared.  (An operator named Faulty... is the
\* one after it with a plausible mistake; no specification uses it.)
FaultyIsAllowedForApp(m, app) == m.apps = {} \/ app # ""

IsAllowedForApp(m, app) == m.apps = {} \/ app \in m.apps

Permitted(m, request) ==
    /\ m.field_path # ""
    /\ IsApproved(m)
    /\ request.categories = {} \/ FieldCategory[m.field_path] \in request.categories
    /\ IsAllowedForApp(m, request.app)
    /\ m.worker
    /\ m.sensitivity = "sensitive" => m.field_path \in request.sensitive
    /\ m.field_path \notin Blocked

FilterApprovedTaskMemory(records, request) ==
    LET normalized == [i \in DOMAIN records |-> NormalizeMemoryRecord(records[i])]
    IN Kept(normalized, {i \in DOMAIN records : Permitted(normalized[i], request)})

-----------------------------------------------------------------------------
(* Contradictions.                                                         *)

\* A record without a date counts as one of now.
CreatedOn(r) == IF r.date = "none" THEN today ELSE r.created

Dated(r) == r.date # "unreadable"

Weight(r) == TypeWeight[r.entry_type] * r.confidence * Freshness[r.field_path][today - CreatedOn(r)]

\* Records are grouped by what their value is printed as, whatever a packet
\* would tell of them: all records without a value of their own are one group.
OfField(records, field) == {i \in DOMAIN records : records[i].field_path = field}

Holders(records, field, text) ==
    {i \in OfField(records, field) : TextOf[records[i].value] = text}

Total(f, n) ==
    LET sum[i \in 0..n] == IF i = 0 THEN 0 ELSE sum[i - 1] + f[i]
    IN sum[n]

\* What they say on average.
FaultyEvidence(records, field, text) ==
    LET holders == Holders(records, field, text)
    IN Total([i \in DOMAIN records |-> IF i \in holders THEN Weight(records[i]) ELSE 0],
             Len(records)) \div Cardinality(holders)

Evidence(records, field, text) ==
    LET holders == Holders(records, field, text)
    IN Total([i \in DOMAIN records |-> IF i \in holders THEN Weight(records[i]) ELSE 0],
             Len(records))

\* The latest record says what counts.
FaultyStrongest(records, field) ==
    TextOf[records[CHOOSE i \in OfField(records, field) :
                       \A j \in OfField(records, field) :
                           records[j].created <= records[i].created].value]

\* The group with the most evidence; of two, the one whose text comes first
\* among the keys of an object.
Strongest(records, field) ==
    LET text(i) == TextOf[records[i].value]
        score(i) == Evidence(records, field, text(i))
        ahead(i, j) == \/ TextOrder[text(i)] < TextOrder[text(j)]
                       \/ TextOrder[text(i)] = TextOrder[text(j)] /\ i <= j
    IN text(CHOOSE i \in OfField(records, field) :
                \A j \in OfField(records, field) :
                    score(i) > score(j) \/ (score(i) = score(j) /\ ahead(i, j)))

\* The score of a group with a date that cannot be read compares with nothing,
\* and the sort may put any group first: the one that lead names.
Winner(records, field, lead) ==
    IF \E i, j \in OfField(records, field) :
           ~Dated(records[i]) /\ TextOf[records[j].value] = lead[field]
    THEN lead[field] ELSE Strongest(records, field)

\* A record that is alone is taken as it is.  Without a date that can be read,
\* the winning group of several records has no latest one, and the field none.
Alone(records, field) == \A i, j \in OfField(records, field) : i = j

IsResolved(records, field, lead) ==
    \/ Alone(records, field)
    \/ \E i \in Holders(records, field, Winner(records, field, lead)) : Dated(records[i])

\* The latest record of the group, with the value of its first record and the
\* best confidence of them all.
Resolution(records, field, lead) ==
    LET holders == Holders(records, field, Winner(records, field, lead))
        first == CHOOSE i \in holders : \A j \in holders : i <= j
        dated == {i \in holders : Dated(records[i])}
        latest == CHOOSE i \in dated :
                      \A j \in dated :
                          \/ CreatedOn(records[i]) > CreatedOn(records[j])
                          \/ CreatedOn(records[i]) = CreatedOn(records[j]) /\ i <= j
    IN IF Alone(records, field) THEN records[first]
       ELSE [records[latest] EXCEPT
                !.value = records[first].value,
                !.confidence = CHOOSE c \in {records[i].confidence : i \in holders} :
                                   \A i \in holders : records[i].confidence <= c]

\* At most one record for every field, in the order of the fields.
ResolveContradictoryRecords(records, lead) ==
    LET first == {i \in DOMAIN records :
                     /\ \A j \in OfField(records, records[i].field_path) : i <= j
                     /\ IsResolved(records, records[i].field_path, lead)}
        grouped == Kept(records, first)
    IN [k \in DOMAIN grouped |-> Resolution(records, grouped[k].field_path, lead)]

-----------------------------------------------------------------------------
(* Packets.                                                                *)

Quote(r, value) == [field |-> r.field_path, value |-> value, confidence |-> r.confidence]

\* memoryValue of the two builders: only the one of CAP packets looks into the context.
TaskQuote(r) == Quote(r, Or(r.value, r.aside))
CapQuote(r) == Quote(r, Or(r.value, Or(r.context, r.aside)))

\* Of every field, the first record in the order of the items and their matches,
\* or in that of the list when nothing is asked for; contradictions are not
\* resolved.
FirstMatches(records, items) ==
    LET matches(k) == Matches(items[k], records)
        field(k, n) == records[matches(k)[n]].field_path
        first(k, n) == \A l \in 1..k : \A p \in DOMAIN matches(l) :
                           field(l, p) = field(k, n) => l = k /\ n <= p
    IN IF items = <<>> THEN {i \in DOMAIN records : \A j \in OfField(records, records[i].field_path) : i <= j}
       ELSE UNION {{matches(k)[n] : n \in {p \in DOMAIN matches(k) : first(k, p)}} : k \in DOMAIN items}

BuildTaskContextPacket(records, request) ==
    LET approved == FilterApprovedTaskMemory(records, request)
    IN IF request.purpose \notin Purpose THEN NoPacket
       ELSE [kind |-> "task", request |-> request,
             allowed |-> {TaskQuote(approved[i]) : i \in FirstMatches(approved, request.items)},
             missing |-> {}, review |-> request.review]

Asked(request) == {request.items[k] : k \in DOMAIN request.items}

Matched(item, records) == Matches(item, records) # <<>>

\* The first of the matches.
Best(item, records) == records[Matches(item, records)[1]]

IsQuarantinedMemory(m) == Or(m.status, m.state) = "quarantined"

\* Quarantined records are looked for among all records, before the filter.
MeetsQuarantine(records, request) ==
    \E item \in Asked(request) : Matched(item, records) /\ IsQuarantinedMemory(Best(item, records))

BuildCapPacket(records, request, lead) ==
    LET resolved == ResolveContradictoryRecords(FilterApprovedTaskMemory(records, request), lead)
        missing == {item \in Asked(request) : ~Matched(item, resolved)}
    IN IF MeetsQuarantine(records, request) THEN NoPacket
       ELSE [kind |-> "cap", request |-> request,
             allowed |-> {CapQuote(Best(item, resolved)) : item \in Asked(request) \ missing},
             missing |-> missing,
             review |-> request.review \/ missing \cap request.required # {}]

\* Only a prefill and entries say whether the user has to review them.
RunWorker(packet) ==
    [kind |-> "output", request |-> packet.request, allowed |-> packet.allowed, missing |-> {},
     review |-> IF packet.request.purpose = "field_mapping" THEN FALSE ELSE packet.review]

=============================================================================
