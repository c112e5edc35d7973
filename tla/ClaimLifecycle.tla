---------------------------- MODULE ClaimLifecycle ---------------------------
(***************************************************************************)
(* What applications do with the claims that src/claims.mjs verified: they *)
(* keep them, rectify them, link more evidence to them, and file them in   *)
(* the category index.  The quarantine, the claims that are held and the   *)
(* index are three pieces of state that no function changes together.      *)
(*                                                                         *)
(* verifyAndProcessClaim reads the category of the metadata first and      *)
(* lower-cases it; the index reads the category of the claim first,        *)
(* lower-cases and trims it.                                               *)
(***************************************************************************)
EXTENDS ClaimQuarantine, Sequences, SequencesExt

CONSTANTS
    IndexKey,       \* the keys of the index: lower-cased, trimmed categories
    Blank,          \* the key that trimming makes of a category of blanks
    KeyOf,          \* the key of a spelling
    Reported,       \* the claims that applications report
    Update,         \* records [text, category, metadata], Keep where there is none
    Keep,
    Origin,         \* RECTIFICATION_ORIGINS
    MaxRectified,   \* bound: rectifications of the claims that are held
    MaxHeld,        \* bound: claims held at a time
    MaxListed       \* bound: claims listed altogether

ASSUME LifecycleAssumption ==
    /\ NoCategory \notin IndexKey /\ Blank \in IndexKey
    /\ KeyOf \in [Category -> IndexKey \cup {NoCategory}]
    /\ \A c, d \in Category : c \in Health /\ KeyOf[c] = KeyOf[d] => d \in Health
    /\ \A c \in Category : KeyOf[c] = NoCategory <=> c = NoCategory
    /\ Update \subseteq [text : Text \cup {Keep}, category : Category \cup {Keep},
                         metadata : Category \cup {Keep}]
    /\ Reported \subseteq Input
    /\ MaxRectified \in Nat /\ MaxHeld \in Nat /\ MaxListed \in Nat

VARIABLES
    held,       \* the claims that applications hold; no id occurs twice
    bucket,     \* CATEGORY_INVERTED_INDEX
    lookup,     \* CLAIM_CATEGORY_LOOKUP
    twice       \* history: the ids that the array of the last rebuild repeats

claimVars == <<held, bucket, lookup, twice>>

\* A claim with its trace.  `checked' is a history variable: whether two
\* applications had reported it when it was returned as verified.
Held(claim) ==
    [id |-> claim.id, text |-> claim.text, category |-> NoCategory, metadata |-> claim.metadata,
     trace |-> <<>>,
     checked |-> Cardinality({app \in App : <<claim.id, app>> \in reports'}) >= 2]

\* What the properties tell apart of a claim that is filed.
Content == [checked : BOOLEAN, around : BOOLEAN]

FiledClaim == [id : ClaimId, category : IndexKey \cup {NoCategory}, text : Content]

HeldTypeOK ==
    /\ TypeOK
    /\ Cardinality(held) <= MaxHeld
    /\ \A c, d \in held : c.id = d.id => c = d
    /\ \A c \in held :
           /\ c.id \in ClaimId /\ c.text \in Text
           /\ c.category \in Category /\ c.metadata \in Category
           /\ Len(c.trace) <= MaxRectified /\ \A i \in DOMAIN c.trace : c.trace[i].origin \in Origin
    /\ bucket \in [IndexKey -> Seq(FiledClaim)]
    /\ \A k \in IndexKey : \A c \in ToSet(bucket[k]) : c.category = k
    /\ lookup \in [ClaimId -> IndexKey \cup {NoCategory}]
    /\ twice \subseteq ClaimId

LifecycleInit ==
    /\ Init
    /\ held = {}
    /\ bucket = [k \in IndexKey |-> <<>>]
    /\ lookup = [id \in ClaimId |-> NoCategory]
    /\ twice = {}

-----------------------------------------------------------------------------
(* Claims that are held.                                                   *)

Replacing(claim) == {c \in held : c.id # claim.id} \cup {claim}

\* A call of createClaim and verifyAndProcessClaim; its application keeps what
\* is returned, in the place of what it had under the id.
Verify ==
    /\ \/ Clear
       \/ \E input \in Reported : VerifyAndProcessClaim(input)
    /\ \/ released' = {} /\ held' = held
       \/ \E r \in released' : held' \in {held, Replacing(Held(r[1]))}
    /\ Cardinality(held') <= MaxHeld
    /\ UNCHANGED <<bucket, lookup, twice>>

Given(new, old) == IF new = Keep THEN old ELSE new

\* The previous state in the trace is the text and the metadata, which holds
\* the trace until then, and nothing else: the category that the claim had as a
\* field of its own is lost.  An update brings fields and metadata, never a trace.
Rectified(claim, update, origin) ==
    [claim EXCEPT
        !.text = Given(update.text, @),
        !.category = Given(update.category, @),
        !.metadata = Given(update.metadata, @),
        !.trace = Append(@, [origin |-> origin, text |-> claim.text,
                             metadata |-> claim.metadata, trace |-> @])]

\* Any other origin throws.
RectifyClaimWithTrace ==
    /\ \E claim \in held, update \in Update, origin \in Origin :
           /\ MapThenSumSet(LAMBDA c : Len(c.trace), held) < MaxRectified
           /\ held' = Replacing(Rectified(claim, update, origin))
    /\ released' = {}
    /\ UNCHANGED <<registry, reports, bucket, lookup, twice>>

\* The claim is normalized, by which it loses a category of its own.
LinkClaimEvidence ==
    /\ \E claim \in held : held' = Replacing([claim EXCEPT !.category = NoCategory])
    /\ released' = {}
    /\ UNCHANGED <<registry, reports, bucket, lookup, twice>>

-----------------------------------------------------------------------------
(* The index.                                                              *)

\* The ways around the quarantine: a claim that was rectified, and one whose
\* category is padded with blanks, which only the index trims.
AroundQuarantine(claim) == claim.trace # <<>> \/ claim.metadata \in Health \ Lowered

Filed(claim) ==
    [id |-> claim.id,
     text |-> [checked |-> claim.checked, around |-> AroundQuarantine(claim)],
     category |-> KeyOf[IF claim.category # NoCategory THEN claim.category ELSE claim.metadata]]

\* The arrays of all claims that are held, in any order; they may repeat one.
Arrays == {s \in SeqOf(held, Cardinality(held) + 1) : ToSet(s) = held}

Index == INSTANCE CategoryIndex WITH Category <- IndexKey, Text <- Content

IndexFits == MapThenSumSet(LAMBDA k : Len(bucket[k]), IndexKey) <= MaxListed

FileClaims ==
    /\ \/ \E s \in Arrays : Index!Build([i \in DOMAIN s |-> Filed(s[i])])
       \/ \E claim \in held : Index!Upsert(Filed(claim))
       \/ \E id \in ClaimId : Index!RemoveClaim(id)
       \/ Index!Clear
    /\ IndexFits'
    /\ released' = {}
    /\ UNCHANGED <<registry, reports, held>>

\* An application gives a claim up, and whoever is careful removes it from the
\* index as well.
Discard ==
    /\ \E claim \in held : held' = held \ {claim}
    /\ released' = {}
    /\ UNCHANGED <<registry, reports, bucket, lookup, twice>>

LifecycleNext ==
    \/ Verify \/ RectifyClaimWithTrace \/ LinkClaimEvidence
    \/ FileClaims \/ Discard

LifecycleSpec == LifecycleInit /\ [][LifecycleNext]_<<vars, claimVars>>

-----------------------------------------------------------------------------
(* Properties; TwoAppsRelease of ClaimQuarantine is checked as well.       *)

\* The two maps of the index agree about the categories that can be named,
\* whatever the applications file, but for the ids that an array repeated.
MapsAgree == Index!MapsAgree

\* buildCategoryIndex, upsertCategoryIndex and removeFromCategoryIndex: whatever
\* mixture of them is called, and however the claims that are held change in
\* between, the index lists what a set of claims by category would.  Two cases
\* are outside of it, and break it: categories of blanks, and claims that the
\* last array repeats (see BlanksAgree and RepeatedAgree).
Claims == INSTANCE ClaimSet WITH
    Category <- Index!Named,
    current <- {Filed(claim) : claim \in held},
    filed <- [k \in Index!Named |-> {c \in ToSet(Index!Listed(k)) : c.id \notin twice}]

ClaimSetSpec == Claims!Spec

\* verifyAndProcessClaim and the index read different fields of a claim: a
\* claim that is filed under health was reported by two applications, unless it
\* went around the quarantine in one of two ways; also when the registry was
\* cleared since, and however often the claim was linked and filed anew.
FiledHealthIsChecked ==
    \A k \in IndexKey : \A c \in ToSet(bucket[k]) :
        k \in {KeyOf[s] : s \in Health} => c.text.checked \/ c.text.around

-----------------------------------------------------------------------------
(* Properties the repository's words promise and the code breaks.          *)

\* claims.mjs:263: "Adds a new claim to the index, or moves it if its category
\* changed."  A claim is not listed under blanks when it is filed elsewhere, or
\* twice.
BlanksAgree ==
    \A i, j \in DOMAIN bucket[Blank] :
        LET id == bucket[Blank][i].id
        IN id \notin twice =>
               lookup[id] = Blank /\ (bucket[Blank][j].id = id => j = i)

\* claims.mjs:300: "Removes a claim from the index entirely".  So it does also
\* when the array of the last rebuild repeats the claim.
RepeatedAgree ==
    \A k \in Index!Named : \A c \in ToSet(bucket[k]) : lookup[c.id] = k

\* claims.mjs:107: "Keeps sensitive claims quarantined until at least two unique
\* apps contribute matching signals."  A claim that is filed under health was
\* reported by two applications.
HealthIsChecked ==
    \A k \in IndexKey : \A c \in ToSet(bucket[k]) :
        k \in {KeyOf[s] : s \in Health} => c.text.checked

=============================================================================
