--------------------------- MODULE MCClaimLifecycle --------------------------
(***************************************************************************)
(* Instances of ClaimLifecycle for TLC: two applications, one of them in   *)
(* two spellings, and updates that change the category and the category of *)
(* the metadata, one of them to blanks.                                    *)
(***************************************************************************)
EXTENDS ClaimLifecycle

MCAppName == [s \in Spelling |->
                 IF s \in {"Fit", "fit "} THEN "fit" ELSE IF s = "Clinic" THEN "clinic" ELSE NoApp]

MCKeyOf == [c \in Category |-> IF c \in Health THEN "health" ELSE IF c = "  " THEN "blank" ELSE c]

Written(id, metadata, valid) ==
    [id |-> id, text |-> "t", category |-> "", metadata |-> metadata, valid |-> valid]

\* A claim that the quarantine takes for sensitive, and one that it does not.
MCReported == {Written("c1", "Health", TRUE), Written("c2", " Health", TRUE),
               Written("c2", "Health", FALSE)}

MCOrdinary == {Written(id, "work", TRUE) : id \in ClaimId}

Changes(text, category, metadata) == [text |-> text, category |-> category, metadata |-> metadata]

\* Ordinary claims, and a claim whose category is a field of its own.
MCAround == MCOrdinary
    \cup {[id |-> id, text |-> "t", category |-> "Health", metadata |-> "", valid |-> TRUE] : id \in ClaimId}

MCUpdate == {Changes("-", "Health", "work"), Changes("-", "work", "  ")}

=============================================================================
