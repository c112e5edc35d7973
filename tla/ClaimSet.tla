------------------------------ MODULE ClaimSet ------------------------------
(***************************************************************************)
(* What the category index of src/claims.mjs promises: to list, for every  *)
(* category that can be named, the claims that were in it when each was    *)
(* last filed, and nothing else.  A rebuild takes up all claims there are, *)
(* an upsert one of them, a removal takes one id out.  Nothing is promised *)
(* of an id that the array of the last rebuild repeats.                    *)
(***************************************************************************)
CONSTANTS Category, ClaimId

VARIABLES
    current,        \* the claims there are, each in its present category
    filed,          \* the claims that are listed of each category
    twice           \* the ids that the last rebuild repeats

Listing(claims, ids) ==
    [k \in Category |-> {claim \in claims : claim.category = k /\ claim.id \notin ids}]

Without(id) == [k \in Category |-> {claim \in filed[k] : claim.id # id}]

Init == filed = Listing({}, {}) /\ twice = {}

\* The claims replace whatever was indexed.
Rebuild(ids) ==
    /\ filed' = Listing(current, ids)
    /\ twice' = ids

Upsert(claim) ==
    /\ filed' = [k \in Category |-> Without(claim.id)[k] \cup Listing({claim}, twice)[k]]
    /\ UNCHANGED twice

Remove(id) == filed' = Without(id) /\ UNCHANGED twice

Clear == filed' = Listing({}, {}) /\ twice' = {}

Next ==
    \/ \E ids \in SUBSET ClaimId : Rebuild(ids)
    \/ \E claim \in current : Upsert(claim)
    \/ \E id \in ClaimId : Remove(id)
    \/ Clear

\* The claims change as their applications like, the index only by its steps.
Spec == Init /\ [][Next]_<<filed, twice>>

=============================================================================
