---------------------------- MODULE CategoryIndex ---------------------------
(***************************************************************************)
(* The incremental category index of src/claims.mjs: an inverted index     *)
(* from categories to arrays of claims, and a lookup that remembers where  *)
(* each claim id is filed.  Categories are those left after lower-casing   *)
(* and trimming; a claim without one has NoCategory.  A category of blanks *)
(* is one, though trimming leaves the empty string of it: its claims are   *)
(* filed under that, which the lookup then takes for none.                 *)
(***************************************************************************)
EXTENDS Naturals, Sequences, SequencesExt

CONSTANTS
    Category, ClaimId, Text,
    Blank,              \* the empty string that trimming leaves, one of Category
    NoCategory          \* none of the categories

Claim == [id : ClaimId, category : Category \cup {NoCategory}, text : Text]

\* The categories that a caller can name.
Named == Category \ {Blank}

VARIABLES
    bucket,     \* CATEGORY_INVERTED_INDEX; a missing category is an empty one
    lookup,     \* CLAIM_CATEGORY_LOOKUP; a missing id has NoCategory
    twice       \* history: the ids that the array of the last rebuild repeats

indexVars == <<bucket, lookup, twice>>

TypeOK ==
    /\ bucket \in [Category -> Seq(Claim)]
    /\ \A k \in Category : \A c \in ToSet(bucket[k]) : c.category = k
    /\ lookup \in [ClaimId -> Category \cup {NoCategory}]
    /\ twice \subseteq ClaimId

NoneListed == [k \in Category |-> <<>>]
NoneFiled == [id \in ClaimId |-> NoCategory]

Init ==
    /\ bucket = NoneListed
    /\ lookup = NoneFiled
    /\ twice = {}

-----------------------------------------------------------------------------

\* The two maps after the first claims of an array, each appended to the bucket
\* of its category; a later claim with the same id wins the lookup.
Indexed(claims) ==
    LET after[i \in 0..Len(claims)] ==
            IF i = 0 THEN [bucket |-> NoneListed, lookup |-> NoneFiled]
            ELSE IF claims[i].category = NoCategory THEN after[i - 1]
            ELSE [bucket |-> [after[i - 1].bucket EXCEPT
                                 ![claims[i].category] = Append(@, claims[i])],
                  lookup |-> [after[i - 1].lookup EXCEPT ![claims[i].id] = claims[i].category]]
    IN after

Repeated(claims) == {claims[i].id : i \in {j \in DOMAIN claims :
                                               \E k \in 1..(j - 1) : claims[k].id = claims[j].id}}

\* Both maps are cleared, then filled in the order of the array.
Build(claims) ==
    /\ bucket' = Indexed(claims)[Len(claims)].bucket
    /\ lookup' = Indexed(claims)[Len(claims)].lookup
    /\ twice' = Repeated(claims)

\* What `if (category)' lets pass of the lookup.
FiledAs(id) == lookup[id] \notin {NoCategory, Blank}

\* The bucket an id is filed in, without the first claim that has the id.
TakenOut(id) ==
    IF FiledAs(id)
    THEN [bucket EXCEPT ![lookup[id]] = RemoveFirstMatch(@, LAMBDA c : c.id = id)]
    ELSE bucket

\* A claim that is indexed stays in its old category.  (An operator named
\* Faulty... is the one after it with a plausible mistake; no specification
\* uses it.)
FaultyUpsert(claim) ==
    /\ bucket' = IF claim.category = NoCategory THEN bucket
                 ELSE [bucket EXCEPT ![claim.category] = Append(@, claim)]
    /\ lookup' = [lookup EXCEPT ![claim.id] = claim.category]
    /\ UNCHANGED twice

\* The claim is taken out of its old category before it is filed anew.
Upsert(claim) ==
    /\ bucket' = IF claim.category = NoCategory THEN TakenOut(claim.id)
                 ELSE [TakenOut(claim.id) EXCEPT ![claim.category] = Append(@, claim)]
    /\ lookup' = [lookup EXCEPT ![claim.id] = claim.category]
    /\ UNCHANGED twice

RemoveClaim(id) ==
    /\ FiledAs(id)
    /\ bucket' = TakenOut(id)
    /\ lookup' = [lookup EXCEPT ![id] = NoCategory]
    /\ UNCHANGED twice

Clear ==
    /\ bucket' = NoneListed
    /\ lookup' = NoneFiled
    /\ twice' = {}

-----------------------------------------------------------------------------
(* Properties.                                                             *)

\* getClaimsByCategory
Listed(k) == bucket[k]

\* A claim id that no array repeated is filed at most once under a category
\* that can be named, the one of the lookup: the two maps, which every
\* operation changes one after the other, agree.
MapsAgree ==
    \A k \in Named : \A i \in DOMAIN bucket[k] :
        LET id == bucket[k][i].id
        IN id \notin twice =>
               /\ lookup[id] = k
               /\ \A j \in DOMAIN bucket[k] : bucket[k][j].id = id => j = i

=============================================================================
