----------------------------- MODULE UserStores -----------------------------
(***************************************************************************)
(* What a storage adapter that replaces stores row by row can promise the  *)
(* callers of save(): the save fails and nothing changes, or the user's    *)
(* store becomes the one that was handed over, plus at most memories that  *)
(* other saves of the same user stored since the call.  Without such saves *)
(* the store is replaced as a whole.                                       *)
(***************************************************************************)
CONSTANTS User, MemoryId, Content, Caller, UserOf, NoRequest

VARIABLES
    stores,     \* of each user: from ids to contents
    request,    \* the store that a caller has handed over
    arrived     \* ids that others have stored for its user since

Contents == UNION {[ids -> Content] : ids \in SUBSET MemoryId}

\* The new store, with the memories of the old one that are kept beside it.
With(new, old, kept) ==
    [id \in DOMAIN new \cup kept |-> IF id \in DOMAIN new THEN new[id] ELSE old[id]]

Init ==
    /\ stores = [u \in User |-> [id \in {} |-> {}]]
    /\ request = [c \in Caller |-> NoRequest]
    /\ arrived = [c \in Caller |-> {}]

Ask(c) ==
    /\ request[c] = NoRequest
    /\ \E contents \in Contents : request' = [request EXCEPT ![c] = contents]
    /\ UNCHANGED <<stores, arrived>>

Replace(c) ==
    LET u == UserOf[c]
    IN /\ request[c] # NoRequest
       /\ \E kept \in SUBSET (arrived[c] \cap DOMAIN stores[u]) :
              stores' = [stores EXCEPT ![u] = With(request[c], stores[u], kept)]
       /\ request' = [request EXCEPT ![c] = NoRequest]
       /\ arrived' = [d \in Caller |->
                         IF d = c THEN {}
                         ELSE IF UserOf[d] = u /\ request[d] # NoRequest
                              THEN arrived[d] \cup DOMAIN request[c]
                              ELSE arrived[d]]

Refuse(c) ==
    /\ request[c] # NoRequest
    /\ request' = [request EXCEPT ![c] = NoRequest]
    /\ arrived' = [arrived EXCEPT ![c] = {}]
    /\ UNCHANGED stores

Next == \E c \in Caller : Ask(c) \/ Replace(c) \/ Refuse(c)

Spec == Init /\ [][Next]_<<stores, request, arrived>>

=============================================================================
