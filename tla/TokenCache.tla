----------------------------- MODULE TokenCache -----------------------------
(***************************************************************************)
(* acquireToken() of src/auth/oauth.mjs: access tokens are cached by token *)
(* endpoint and client, and a cached token is handed out while its expiry, *)
(* as computed when the server's answer arrived, is more than Margin away. *)
(* Calls are not joined: each of those that miss asks the server, and the  *)
(* last answer stays in the cache.                                         *)
(*                                                                         *)
(* The token server is modelled from how the function uses it.  A token    *)
(* has a lifetime, and expires_in states it or is left out; a lifetime of  *)
(* zero and one that is left out are the same to the code, which then      *)
(* counts 3600 s.  fetch() has no timeout, so an answer may take any time. *)
(***************************************************************************)
EXTENDS Integers

CONSTANTS
    Requester,
    Key,            \* pairs of a token endpoint and a client
    Resource,       \* resources a token may be asked for, or none
    Lifetime,       \* lifetimes of the tokens that the server issues
    DefaultLifetime,    \* the 3600 s that are counted for a lifetime not stated
    Margin,         \* the minute that a cached token must have left
    MaxTime,        \* bounds the time that a behaviour lasts
    NoToken

ASSUME TimeAssumption ==
    /\ Lifetime \subseteq Nat /\ DefaultLifetime \in Nat
    /\ MaxTime \in Nat /\ Margin \in Nat

Unstated == 0

\* `expires' is what expires_in says.
Token == [key : Key, resource : Resource, issued : Nat, lifetime : Nat, expires : Nat]

ASSUME NoTokenAssumption == NoToken \notin Token

VARIABLES
    now,
    step,       \* of a caller: idle, asking the server, or issued a token
    request,    \* what a caller asks for
    token,      \* the token on its way to a caller, or the last it was given
    cache,      \* tokenCache: the token of a key
    until,      \* and its expiresAt
    since       \* history: when it was put there

tokenVars == <<now, step, request, token, cache, until, since>>

Request == [key : Key, resource : Resource]

TokenTypeOK ==
    /\ now \in Nat
    /\ step \in [Requester -> {"idle", "asking", "issued"}]
    /\ request \in [Requester -> Request]
    /\ token \in [Requester -> Token \cup {NoToken}]
    /\ cache \in [Key -> Token \cup {NoToken}]
    /\ until \in [Key -> Nat]
    /\ since \in [Key -> Nat]

TokenInit ==
    /\ now = 0
    /\ step = [c \in Requester |-> "idle"]
    /\ request \in [Requester -> Request]
    /\ token = [c \in Requester |-> NoToken]
    /\ cache = [k \in Key |-> NoToken]
    /\ until = [k \in Key |-> 0]
    /\ since = [k \in Key |-> 0]

-----------------------------------------------------------------------------

\* Any token that has not expired.  (An operator named Faulty... is the one
\* after it with a plausible mistake; no specification uses it.)
FaultyUsable(k) == cache[k] # NoToken /\ until[k] > now

Usable(k) == cache[k] # NoToken /\ until[k] > now + Margin

Hit(c, r) ==
    /\ step[c] = "idle" /\ Usable(r.key)
    /\ request' = [request EXCEPT ![c] = r]
    /\ token' = [token EXCEPT ![c] = cache[r.key]]
    /\ UNCHANGED <<now, step, cache, until, since>>

Miss(c, r) ==
    /\ step[c] = "idle" /\ ~Usable(r.key)
    /\ request' = [request EXCEPT ![c] = r]
    /\ step' = [step EXCEPT ![c] = "asking"]
    /\ UNCHANGED <<now, token, cache, until, since>>

\* The server issues a token, and says or does not say for how long.
Issue(c) ==
    /\ step[c] = "asking"
    /\ \E lifetime \in Lifetime : \E expires \in {lifetime, Unstated} :
           token' = [token EXCEPT ![c] =
                        [key |-> request[c].key, resource |-> request[c].resource,
                         issued |-> now, lifetime |-> lifetime, expires |-> expires]]
    /\ step' = [step EXCEPT ![c] = "issued"]
    /\ UNCHANGED <<now, request, cache, until, since>>

\* expires_in || 3600
ExpiresIn(t) == IF t.expires = Unstated THEN DefaultLifetime ELSE t.expires

\* The answer arrives; the lifetime is counted from now.
Arrive(c) ==
    /\ step[c] = "issued"
    /\ cache' = [cache EXCEPT ![request[c].key] = token[c]]
    /\ until' = [until EXCEPT ![request[c].key] = now + ExpiresIn(token[c])]
    /\ since' = [since EXCEPT ![request[c].key] = now]
    /\ step' = [step EXCEPT ![c] = "idle"]
    /\ UNCHANGED <<now, request, token>>

\* fetch() throws, or the answer is not ok.
NoAnswer(c) ==
    /\ step[c] # "idle"
    /\ step' = [step EXCEPT ![c] = "idle"]
    /\ token' = [token EXCEPT ![c] = NoToken]
    /\ UNCHANGED <<now, request, cache, until, since>>

Tick ==
    /\ now < MaxTime
    /\ now' = now + 1
    /\ UNCHANGED <<step, request, token, cache, until, since>>

TokenNext ==
    \/ \E c \in Requester :
           \/ \E r \in Request : Hit(c, r) \/ Miss(c, r)
           \/ Issue(c) \/ Arrive(c) \/ NoAnswer(c)
    \/ Tick

TokenSpec == TokenInit /\ [][TokenNext]_tokenVars

-----------------------------------------------------------------------------
(* Properties.                                                             *)

Expiry(t) == t.issued + t.lifetime

\* What a token is counted to live longer than it does.
Overrated(t) == IF ExpiresIn(t) > t.lifetime THEN ExpiresIn(t) - t.lifetime ELSE 0

\* A token that is answered from the cache has not expired, unless its answer
\* took so long, or said so little, that the margin does not make up for it:
\* also when the answers of several callers for one key overtake each other.
CachedTokenIsValid ==
    \A k \in Key :
        /\ Usable(k)
        /\ (since[k] - cache[k].issued) + Overrated(cache[k]) <= Margin
        => now < Expiry(cache[k])

\* Why: the expiry in the cache is that of the token beside it, counted from
\* its own arrival, and a token arrives after it was issued.
ExpiryInvariant ==
    /\ TokenTypeOK
    /\ \A k \in Key : cache[k] # NoToken =>
           /\ until[k] = since[k] + ExpiresIn(cache[k])
           /\ cache[k].issued <= since[k] /\ since[k] <= now
    /\ \A c \in Requester :
           step[c] = "issued" =>
               /\ token[c] # NoToken /\ token[c].key = request[c].key
               /\ token[c].issued <= now

-----------------------------------------------------------------------------
(* Properties that the words of the repository promise and the code breaks. *)

\* oauth.mjs:22: "Return cached token if it's still valid for at least 1 more
\* minute".  The code judges by the time at which the answer arrived.
CachedTokenHasAMinute ==
    \A k \in Key : Usable(k) => now + Margin < Expiry(cache[k])

\* oauth.mjs:11: "[config.resource] - Optional resource or audience parameter".
\* A call that asked for a resource is answered with a token for it.
TokenIsForResource ==
    \A c \in Requester :
        step[c] = "idle" /\ token[c] # NoToken => token[c].resource = request[c].resource

=============================================================================
