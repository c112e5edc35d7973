--------------------------- MODULE ClaimQuarantine --------------------------
(***************************************************************************)
(* verifyAndProcessClaim() of src/claims.mjs, with createClaim() before    *)
(* it: a sensitive claim is kept in a registry, by its id, until a second  *)
(* application reports it.  Categories and applications are spelled in     *)
(* various ways; the constants say what the code makes of a spelling.      *)
(***************************************************************************)
EXTENDS Naturals, FiniteSets

CONSTANTS
    ClaimId, Text,
    Category,       \* spellings of categories
    Health,         \* those that the category index files under health
    Lowered,        \* those that are "health" once lower-cased
    NoCategory,
    App, NoApp,     \* applications, and the name of a blank spelling
    Spelling,       \* of applications
    AppName,        \* the application of a spelling: normalize().toLowerCase()
    NoEntry

ASSUME SpellingAssumption ==
    /\ Lowered \subseteq Health /\ Health \subseteq Category \ {NoCategory}
    /\ NoCategory \in Category /\ IsFiniteSet(App)
    /\ AppName \in [Spelling -> App \cup {NoApp}]

\* A claim as an application writes it: the category is a field of its own or
\* of the metadata, and a claim without evidence is not valid.
Input == [id : ClaimId, text : Text, category : Category, metadata : Category, valid : BOOLEAN]

Claim == [id : ClaimId, text : Text, metadata : Category]

VARIABLES
    registry,   \* QUARANTINE_REGISTRY
    reports,    \* which application reported which sensitive claim
    released    \* what the last call returned as verified, with its input

vars == <<registry, reports, released>>

Entry == [claim : Claim, sources : SUBSET App]

TypeOK ==
    /\ registry \in [ClaimId -> Entry \cup {NoEntry}]
    /\ \A id \in ClaimId : registry[id] # NoEntry =>
           registry[id].claim.id = id /\ registry[id].sources # {}
    /\ reports \subseteq ClaimId \X App
    /\ released \subseteq Claim \X Input

Init == registry = [id \in ClaimId |-> NoEntry] /\ reports = {} /\ released = {}

-----------------------------------------------------------------------------

\* normalizeInfluenceClaim keeps the metadata and drops the category.
CreateClaim(input) == [id |-> input.id, text |-> input.text, metadata |-> input.metadata]

Sensitive(claim) == claim.metadata \in Lowered

\* A spelling counts as an application.  (An operator named Faulty... is the
\* one after it with a plausible mistake; no specification uses it.)
FaultySources(claim, spelling) ==
    (IF registry[claim.id] = NoEntry THEN {} ELSE registry[claim.id].sources) \cup {spelling}

Sources(claim, spelling) ==
    (IF registry[claim.id] = NoEntry THEN {} ELSE registry[claim.id].sources)
        \cup {AppName[spelling]}

\* The first report of a claim stays in the registry, also once it is released.
Quarantined(claim, spelling) ==
    [registry EXCEPT ![claim.id] =
        [claim |-> IF @ = NoEntry THEN claim ELSE @.claim, sources |-> Sources(claim, spelling)]]

Invalid(input) ==
    /\ ~input.valid
    /\ released' = {}
    /\ UNCHANGED <<registry, reports>>

Bypass(input) ==
    /\ input.valid /\ ~Sensitive(CreateClaim(input))
    /\ released' = {<<CreateClaim(input), input>>}
    /\ UNCHANGED <<registry, reports>>

Anonymous(input, spelling) ==
    /\ input.valid /\ Sensitive(CreateClaim(input)) /\ AppName[spelling] = NoApp
    /\ released' = {}
    /\ UNCHANGED <<registry, reports>>

\* A report without an application is counted.
FaultyReport(input, spelling) ==
    LET claim == CreateClaim(input)
    IN /\ input.valid /\ Sensitive(claim)
       /\ registry' = Quarantined(claim, spelling)
       /\ reports' = reports \cup {<<claim.id, AppName[spelling]>>}
       /\ released' = IF Cardinality(Sources(claim, spelling)) >= 2
                      THEN {<<registry[claim.id].claim, input>>} ELSE {}

Report(input, spelling) ==
    LET claim == CreateClaim(input)
    IN /\ input.valid /\ Sensitive(claim) /\ AppName[spelling] # NoApp
       /\ registry' = Quarantined(claim, spelling)
       /\ reports' = reports \cup {<<claim.id, AppName[spelling]>>}
       /\ released' = IF Cardinality(Sources(claim, spelling)) >= 2
                      THEN {<<registry[claim.id].claim, input>>} ELSE {}

\* clearQuarantineRegistry
Clear ==
    /\ registry' = [id \in ClaimId |-> NoEntry]
    /\ reports' = {} /\ released' = {}

\* The application matters only to a sensitive claim.
VerifyAndProcessClaim(input) ==
    \/ Invalid(input) \/ Bypass(input)
    \/ \E spelling \in Spelling : Anonymous(input, spelling) \/ Report(input, spelling)

Next ==
    \/ Clear
    \/ \E input \in Input : VerifyAndProcessClaim(input)

Spec == Init /\ [][Next]_vars

-----------------------------------------------------------------------------
(* Properties.                                                             *)

\* claims.mjs:107: a claim that is sensitive to verifyAndProcessClaim is
\* released only after two different applications reported it, however often
\* and with whatever spelling of its name one of them repeats itself.
TwoAppsRelease ==
    \A r \in released :
        Sensitive(r[1]) =>
            Cardinality({app \in App : <<r[1].id, app>> \in reports}) >= 2

\* claims.mjs:107: "Keeps sensitive claims quarantined until at least two unique
\* apps contribute matching signals."  That holds of every claim about health,
\* wherever its application wrote the category.
HealthNeedsTwoApps ==
    \A r \in released :
        {r[2].category, r[2].metadata} \cap Health # {} =>
            Cardinality({app \in App : <<r[1].id, app>> \in reports}) >= 2

=============================================================================
