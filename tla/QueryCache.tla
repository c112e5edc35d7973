----------------------------- MODULE QueryCache -----------------------------
(***************************************************************************)
(* queryContextWithCache() of src/engine.mjs: the answers to queries are   *)
(* cached under the query and the ids and strengths of the memories it was *)
(* asked over, and buildMemoryStore() empties the cache.  The other        *)
(* operations of the engine change memories and leave the cache alone.     *)
(*                                                                         *)
(* Memories are objects: the operations of the engine make new ones, other *)
(* code may write into the ones there are, and an answer refers to those   *)
(* it was found in.  An object is its number in the heap.                  *)
(*                                                                         *)
(* Score is the fuzzy comparison of a query with a label, Threshold are    *)
(* the thresholds that callers ask with.                                   *)
(***************************************************************************)
EXTENDS Naturals, Sequences, FiniteSets

CONSTANTS
    MemoryId, Label, Strength, Query,
    Score,          \* of a query and a label
    Threshold,
    MaxObjects      \* bound: objects ever made

Memory == [id : MemoryId, label : Label, strength : Strength]

ASSUME QueryAssumption ==
    /\ Score \in [Query \X Label -> Nat] /\ Threshold \subseteq Nat
    /\ MaxObjects \in Nat

VARIABLES
    heap,       \* the memory that each object holds
    live,       \* the objects in the store; no id occurs twice
    cache,      \* queryCache: keys with their answers
    reply       \* what the last call was asked over, asked and answered

storeVars == <<heap, live>>
vars == <<heap, live, cache, reply>>

Object == 1..MaxObjects

Values(objects) == {heap[o] : o \in objects}

\* The objects that match, with their scores.
Matching(query, threshold, objects) ==
    {<<o, Score[query, heap[o].label]>> :
        o \in {p \in objects : Score[query, heap[p].label] >= threshold}}

\* Only the query.  (An operator named Faulty... is the one after it with a
\* plausible mistake; no specification uses it.)
FaultyCacheKey(query, objects) == <<query, {}>>

CacheKey(query, objects) == <<query, {<<m.id, m.strength>> : m \in Values(objects)}>>

Keys == Query \X SUBSET (MemoryId \X Strength)

Answers == SUBSET (Object \X Nat)

TypeOK ==
    /\ heap \in Seq(Memory) /\ Len(heap) <= MaxObjects
    /\ live \subseteq DOMAIN heap
    /\ \A o, p \in live : heap[o].id = heap[p].id => o = p
    /\ cache \subseteq Keys \X Answers
    /\ \A e, f \in cache : e[1] = f[1] => e = f
    /\ \A e \in cache : \A a \in e[2] :
           <<heap[a[1]].id, heap[a[1]].strength>> \in e[1][2]

Init == heap = <<>> /\ live = {} /\ cache = {} /\ reply = {}

-----------------------------------------------------------------------------
(* Queries.                                                                *)

Replied(query, threshold, objects, answer) ==
    reply' = {[query |-> query, threshold |-> threshold, over |-> objects, answer |-> answer]}

Hit(query, threshold, objects) ==
    /\ \E entry \in cache :
           entry[1] = CacheKey(query, objects) /\ Replied(query, threshold, objects, entry[2])
    /\ UNCHANGED <<heap, live, cache>>

Miss(query, threshold, objects) ==
    LET answer == Matching(query, threshold, objects)
    IN /\ ~\E entry \in cache : entry[1] = CacheKey(query, objects)
       /\ cache' = cache \cup {<<CacheKey(query, objects), answer>>}
       /\ Replied(query, threshold, objects, answer)
       /\ UNCHANGED <<heap, live>>

Ask(objects) ==
    \E query \in Query, threshold \in Threshold :
        Hit(query, threshold, objects) \/ Miss(query, threshold, objects)

-----------------------------------------------------------------------------
(* Changes of the store.                                                   *)

NewObject == Len(heap) + 1

\* createMemory, or any operation that makes a new record of a memory.
Write ==
    /\ Len(heap) < MaxObjects
    /\ \E m \in Memory :
           /\ heap' = Append(heap, m)
           /\ live' = {o \in live : heap[o].id # m.id} \cup {NewObject}
    /\ UNCHANGED cache

\* deleteMemory
Take ==
    /\ \E o \in live : live' = live \ {o}
    /\ UNCHANGED <<heap, cache>>

\* buildMemoryStore, and the remember operations that end in it.
Build ==
    /\ Len(heap) < MaxObjects
    /\ \E m \in Memory :
           /\ heap' = Append(heap, m)
           /\ live' = {o \in live : heap[o].id # m.id} \cup {NewObject}
    /\ cache' = {}

\* Other code writes a label into a record of the store, as
\* test/snapshot-manager.test.mjs does.
WriteInPlace ==
    /\ \E o \in live, label \in Label : heap' = [heap EXCEPT ![o].label = label]
    /\ UNCHANGED <<live, cache>>

Edit == (Write \/ Take \/ Build \/ WriteInPlace) /\ reply' = {}

Next == Ask(live) \/ Edit

Spec == Init /\ [][Next]_vars

-----------------------------------------------------------------------------
(* Properties.                                                             *)

\* Whatever changed the store meanwhile, an answer names only memories that
\* the query is asked over, with the strengths they have there: the cache does
\* not bring back a deleted memory, or the strength of one that was weakened.
AnswerIsStored ==
    \A r \in reply : \A a \in r.answer :
        \E m \in Values(r.over) : m.id = heap[a[1]].id /\ m.strength = heap[a[1]].strength

\* engine.mjs:258: "Clears the query cache whenever the underlying memory
\* database changes."  An answer is what the query finds in the memories as
\* they are.
AnswerIsCurrent ==
    \A r \in reply :
        {<<heap[a[1]], a[2]>> : a \in r.answer} =
            {<<heap[a[1]], a[2]>> : a \in Matching(r.query, r.threshold, r.over)}

=============================================================================
