--------------------------- MODULE MemoryRetrieval ---------------------------
(***************************************************************************)
(* How src/engine.mjs picks the memories that answer a query: the score of *)
(* a memory, the best ones of a set, and the context that buildRagContext  *)
(* puts together, schemas first.  Scores are hundredths; how well a query  *)
(* matches the text of a memory, or its embedding, is a parameter.         *)
(***************************************************************************)
EXTENDS MemoryOps

CONSTANTS
    SearchScore,    \* of a merge key: what the match with the query adds
    StrengthScore,  \* of a level of strength: what it adds
    SchemaBonus,    \* what being a schema memory adds
    MinScore        \* minScore, the score below which a memory is no answer

ASSUME RetrievalAssumption ==
    /\ SearchScore \in [MergeKey -> Nat] /\ StrengthScore \in [0..MaxStrength -> Nat]
    /\ SchemaBonus \in Nat /\ MinScore \in Nat

\* normalizeMemoryInput and the remember operations give a schema key to
\* records of a schema type only.
IsSchema(m) == m.key \in SchemaKey

Score(m) ==
    SearchScore[m.key] + StrengthScore[m.strength] + (IF IsSchema(m) THEN SchemaBonus ELSE 0)

\* The order of the answers.  Records that tie stay in the order of the array,
\* for which `born' stands; no property depends on it.
Before(m, n) ==
    \/ Score(m) > Score(n)
    \/ Score(m) = Score(n) /\ m.strength > n.strength
    \/ Score(m) = Score(n) /\ m.strength = n.strength /\ m.born < n.born

Best(top, memories) ==
    {m \in memories : Cardinality({n \in memories : Before(n, m)}) < top}

Matching(memories) == {m \in memories : Score(m) >= MinScore}

\* retrieveMemories; retrieveCognitiveSchemas and retrieveIntents hand it the
\* memories of a type.
Retrieve(memories, top) == Best(top, Matching(memories))

\* schemaTop, unless the caller chooses it.
SchemaTop(top) == IF top < 4 THEN top ELSE 4

Schemas(memories, top) == Retrieve({m \in memories : IsSchema(m)}, SchemaTop(top))

\* What the schemas leave room for is retrieved, and the schemas among it are
\* left out afterwards.  (An operator named Faulty... is the one after it with
\* a plausible mistake; no specification uses it.)
FaultyRagContext(memories, top) ==
    LET schemas == Schemas(memories, top)
        supporting == {m \in Retrieve(memories, top - Cardinality(schemas)) :
                          \A s \in schemas : s.id # m.id}
    IN schemas \cup supporting

\* The context items of buildRagContext: the schemas, and as many of the other
\* answers as there is room for.
RagContext(memories, top) ==
    LET schemas == Schemas(memories, top)
        supporting == {m \in Retrieve(memories, top) : \A s \in schemas : s.id # m.id}
    IN schemas \cup Best(top - Cardinality(schemas), supporting)

\* listMemories without filters.
Listed(store) == {m \in store.memories : m.state # "forgotten"}

=============================================================================
