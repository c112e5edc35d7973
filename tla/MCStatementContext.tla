------------------------- MODULE MCStatementContext -------------------------
(***************************************************************************)
(* An instance of StatementContext for TLC: up to three memories, two of   *)
(* which may contradict each other about one field, and one of another     *)
(* field that the same item asks for.  One may have no value of its own,   *)
(* and one a date that cannot be read.                                     *)
(***************************************************************************)
EXTENDS StatementContext, SequencesExt

Keys == Permutations(Key)

MCFieldCategory == [f \in Field |-> IF f = "goal" THEN "fitness" ELSE "food"]
MCTextOf == [v \in Value \cup {""} |-> IF v = "" THEN "undefined" ELSE v]
MCTextOrder == [t \in Text |-> CASE t = "2" -> 2 [] t = "3" -> 3 [] OTHER -> 9]
MCTypeWeight == [t \in EntryType |-> IF t = "declared" THEN 10 ELSE 7]
MCFreshness == [f \in Field |-> [d \in 0..MaxDay |-> IF d = 0 THEN 2 ELSE 1]]

\* Matching by the field for one item, and by the field or the value for the
\* other; a record of the category of a match is a match as well.
MCMatches(item, records) ==
    LET field(i) == Or(records[i].field_path, records[i].path)
        score(i) == IF item = "plan" THEN (IF field(i) = "goal" THEN 2 ELSE 0)
                    ELSE (IF field(i) = "meals" THEN 1 ELSE 0) + (IF records[i].value = "2" THEN 2 ELSE 0)
        found == {i \in DOMAIN records : score(i) > 0}
        near == {i \in DOMAIN records : \E j \in found : MCFieldCategory[field(i)] = MCFieldCategory[field(j)]}
    IN SetToSortSeq(found \cup near, LAMBDA i, j : score(i) > score(j) \/ (score(i) = score(j) /\ i < j))

\* A declared, an observed and, of the other field, a sensitive memory.
Said == [id |-> "a", field_path |-> "meals", path |-> "", status |-> "", state |-> "",
         sensitivity |-> "", nested |-> "", apps |-> {}, worker |-> TRUE,
         value |-> "3", context |-> "", aside |-> "2", entry_type |-> "declared",
         confidence |-> 2, date |-> "given", created |-> 0]
Seen == [Said EXCEPT !.id = "b", !.field_path = "", !.path = "meals", !.status = "approved",
                     !.apps = {"x"}, !.entry_type = "observed"]
Hidden == [Said EXCEPT !.id = "c", !.field_path = "goal", !.sensitivity = "sensitive"]

MCWritten ==
    {Said, [Said EXCEPT !.status = "quarantined"], [Said EXCEPT !.status = "pending", !.state = "active"],
     [Said EXCEPT !.value = "", !.context = "3"],
     Seen, [Seen EXCEPT !.value = "2"], [Seen EXCEPT !.value = "2", !.created = 1],
     [Seen EXCEPT !.value = "", !.date = "none"],
     [Said EXCEPT !.id = "c", !.value = "2", !.entry_type = "observed", !.created = 1],
     [Said EXCEPT !.id = "c", !.entry_type = "observed", !.confidence = 1],
     [Said EXCEPT !.id = "c", !.value = "2", !.date = "unreadable"],
     [Hidden EXCEPT !.sensitivity = "", !.field_path = "raw"],
     Hidden, [Hidden EXCEPT !.state = "forgotten"], [Hidden EXCEPT !.sensitivity = "", !.worker = FALSE]}

\* Its sensitivity is an attribute.
MCNested == {Said, [Hidden EXCEPT !.sensitivity = "", !.nested = "sensitive"]}

Ask == [app |-> "x", items |-> <<"restrictions", "plan">>, required |-> {"plan"}, categories |-> {},
        sensitive |-> {"goal"}, purpose |-> "onboarding_prefill", review |-> FALSE]

MCRequest ==
    {Ask, [Ask EXCEPT !.app = "y", !.sensitive = {}], [Ask EXCEPT !.items = <<>>, !.purpose = "field_mapping"],
     [Ask EXCEPT !.categories = {"food"}, !.purpose = "other"]}

=============================================================================
