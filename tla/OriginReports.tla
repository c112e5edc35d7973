---------------------------- MODULE OriginReports ----------------------------
(***************************************************************************)
(* An application that explains thoughts: it gathers memories, exposures,  *)
(* searches and claims as they come, in any order, and asks for a timeline *)
(* (src/temporal-paths.mjs), influence paths (src/influence-paths.mjs) and *)
(* the competing origins (src/competing-origins.mjs) at any time.  The     *)
(* three read the same memories and the same dates by code of their own.   *)
(***************************************************************************)
EXTENDS OriginClaims

CONSTANTS
    Memory,         \* the memories that are stored
    Exposure,       \* the exposures that applications report
    Search,         \* the searches and clicks
    Claimed,        \* the claims, before evidence is attached to them
    Thought,        \* dates of thoughts
    MaxInputs       \* bound: memories, exposures, searches and claims together

\* What claims name before links are attached to them.
NamedEvidence == UNION {c.evidence : c \in Claimed}

\* A date as it is given.
Written == Date \cup {Blank}

ASSUME OriginAssumption ==
    /\ Thought \subseteq Nat /\ MaxInputs \in Nat
    /\ \A m \in Memory :
           /\ m.id \in Int /\ m.strength \in Int /\ m.retrieved \in Int
           /\ m.seen \in Written /\ m.at \in Written
           /\ m.listed \in BOOLEAN /\ (~m.listed => m.packets = <<>>)
           /\ Len(m.packets) \in Nat /\ DOMAIN m.packets = 1..Len(m.packets)
           /\ Len(m.sources) \in Nat /\ DOMAIN m.sources = 1..Len(m.sources)
           /\ \A i \in DOMAIN m.sources :
                  /\ m.sources[i].at \in Written /\ m.sources[i].stamp \in Written
                  /\ \A e \in Exposure : e.of # <<m.id, i>>
    /\ \A e \in Exposure \cup Search : e.date \in Date /\ e.score \in Int
    /\ Claimed \subseteq
           [id : Int, confidence : Int, evidence : SUBSET NamedEvidence, contradicted : {{}}]

VARIABLES memories, exposures, searches, claims

vars == <<memories, exposures, searches, claims>>

OriginTypeOK ==
    /\ memories \in Seq(Memory) /\ exposures \in Seq(Exposure) /\ searches \in Seq(Search)
    /\ \A i, j \in DOMAIN memories : memories[i].id = memories[j].id => i = j
    /\ \A i \in DOMAIN claims :
           \E c \in Claimed : claims[i] = [c EXCEPT !.evidence = claims[i].evidence,
                                                   !.contradicted = claims[i].contradicted]
    /\ \A thought \in Thought :
           LET timeline == TemporalInfluencePath(memories, exposures, searches, thought)
           IN /\ Len(timeline) \in 1..5
              /\ \A i, j \in DOMAIN timeline : i < j => ~Earlier(timeline[j], timeline[i])

Init == memories = <<>> /\ exposures = <<>> /\ searches = <<>> /\ claims = <<>>

-----------------------------------------------------------------------------

Links == CollectEvidenceLinks(memories)

Room == Len(memories) + Len(exposures) + Len(searches) + Len(claims) < MaxInputs

\* A memory joins the store; its id is new.
Remember ==
    /\ Room
    /\ \E m \in Memory :
           /\ \A i \in DOMAIN memories : memories[i].id # m.id
           /\ memories' = Append(memories, m)
    /\ UNCHANGED <<exposures, searches, claims>>

\* A memory is deleted; the claims keep the ids of its links.
Forget ==
    /\ \E i \in DOMAIN memories : memories' = RemoveAt(memories, i)
    /\ UNCHANGED <<exposures, searches, claims>>

Expose ==
    /\ Room
    /\ \E e \in Exposure : exposures' = Append(exposures, e)
    /\ UNCHANGED <<memories, searches, claims>>

SearchOrClick ==
    /\ Room
    /\ \E e \in Search : searches' = Append(searches, e)
    /\ UNCHANGED <<memories, exposures, claims>>

\* A claim is given the evidence there is.
Claim ==
    /\ Room
    /\ \E c \in Claimed : claims' = Append(claims, AttachEvidence(c, Links))
    /\ UNCHANGED <<memories, exposures, searches>>

\* The evidence of a claim is attached anew.
Attach ==
    /\ \E i \in DOMAIN claims :
           claims' = [claims EXCEPT ![i] = AttachEvidence(@, Links)]
    /\ UNCHANGED <<memories, exposures, searches>>

\* The claims of an origin set are passed on, as scripts/check.mjs does: they
\* keep the contradictions that were found.
Rank ==
    /\ \E thought \in Thought : claims' = OriginSet(thought, claims, Links).claims
    /\ UNCHANGED <<memories, exposures, searches>>

\* A claim is no longer put forward.
Withdraw ==
    /\ \E i \in DOMAIN claims : claims' = RemoveAt(claims, i)
    /\ UNCHANGED <<memories, exposures, searches>>

Next ==
    \/ Remember \/ Forget \/ Expose \/ SearchOrClick
    \/ Claim \/ Attach \/ Rank \/ Withdraw

Spec == Init /\ [][Next]_vars

-----------------------------------------------------------------------------
(* Properties.                                                             *)

Seen(thought) == Exposures(memories, exposures, thought)

\* The exposures that a thought may go back to, without the code that sorts.
Candidates(thought) ==
    {e \in ToSet(exposures) \cup UNION {ToSet(EventsFromMemory(m)) : m \in ToSet(memories)} :
        e.date # Missing /\ (thought # Unreadable => ParseTime(e.date) <= thought)}

\* In whatever order things were reported, the timeline names an exposure that
\* none precedes, and the latest of the strongest ones, as a definition by sets
\* says, and cites the evidence of every exposure up to the thought.
TimelineIsExact ==
    \A thought \in Thought :
        LET seen == Seen(thought)
            timeline == TemporalInfluencePath(memories, exposures, searches, thought)
        IN Candidates(thought) # {} =>
               /\ FirstExposure(seen) \in Candidates(thought)
               /\ StrongestExposure(seen) \in
                      {e \in Candidates(thought) : \A f \in Candidates(thought) : ~Stronger(f, e)}
               /\ \A e \in Candidates(thought) : ~Earlier(e, FirstExposure(seen))
               /\ Evidence(timeline) =
                      Evidence(FirstOf(Sorted(UpTo(searches, thought), Earlier)))
                          \cup UNION {e.evidence : e \in Candidates(thought)}

DatedSources(m) == {i \in DOMAIN m.sources : Dated(Normalized(m.sources[i].at))}

\* Three modules judge by code of their own whether a source came after the
\* thought.  A claim is said to be predated by its thought exactly if it has
\* links with dates and the timeline shows none of them as a source; then the
\* negative evidence against its memory says so, and where the memory has one
\* source, it says so only then.
Agree(thought, c, m) ==
    LET dated == DatedSources(m)
        shown == {e.of : e \in ToSet(Seen(thought))}
    IN /\ Predates(thought, c, Links) <=>
              dated # {} /\ \A i \in dated : <<m.id, i>> \notin shown
       /\ 1 \in dated /\ Predates(thought, c, Links) => ExposureAfterThought(m, thought)
       /\ Len(m.sources) = 1 /\ ExposureAfterThought(m, thought) => Predates(thought, c, Links)

\* The three read one date of every source: the memory has none of its own, no
\* source is dated by its timestamp alone, and none in a way that links refuse.
\* Otherwise see ModulesAgree.
OneDateEach(m) ==
    /\ m.at = Missing
    /\ \A i \in DOMAIN m.sources : LinkDate(m.sources[i]) = Normalized(m.sources[i].at)

\* Every source whose link has a date has that link for itself, and shares it
\* with no other source or memory (see EveryMemoryIsLinked).
LinkedEach(m) ==
    Cardinality({l \in ToSet(Links) : l.claim = m.id /\ Dated(l.date)}) =
        Cardinality({i \in DOMAIN m.sources : Dated(LinkDate(m.sources[i]))})

\* The ids of the links of a memory.
LinkIds(m) == {l.id : l \in {k \in ToSet(Links) : k.claim = m.id}}

\* The three modules agree about every claim that has the links of its memory,
\* where they read the same date of every source and each has its link.
PredatingIsAgreed ==
    \A thought \in Thought \ {Unreadable} : \A c \in ToSet(claims) : \A m \in ToSet(memories) :
        c.id = m.id /\ c.evidence = LinkIds(m) /\ OneDateEach(m) /\ LinkedEach(m) =>
            Agree(thought, c, m)

\* The influence paths and the timeline are made from the same memories: but
\* for the evidence_ids, which only a path cites, that of a memory seen before
\* the thought cites nothing that the timeline does not cite, and the path that
\* is reported first is that of a memory which retrieval, or else its strength,
\* puts above all others with evidence.
PathsCiteTheTimeline ==
    \A thought \in Thought : \A p \in ToSet(InfluencePaths(memories, 1)) :
        \E m \in ToSet(memories) :
            /\ m.id = p.memory
            /\ Dated(Normalized(m.seen)) /\ m.seen <= thought =>
                   p.evidence \ m.ids \subseteq
                       Evidence(TemporalInfluencePath(memories, exposures, searches, thought))
            /\ \A n \in ToSet(memories) :
                   n.schema /\ PathEvidence(n) # {} => Confidence(n) <= Confidence(m)

-----------------------------------------------------------------------------
(* Properties that one may expect, or that the words of the repository     *)
(* promise, and the code breaks.                                           *)

\* What PredatingIsAgreed says, of every memory whose sources have a link each:
\* broken by a source that is dated by its timestamp, which only its link has
\* (evidence-links.mjs:41, temporal-paths.mjs:54, negative-evidence.mjs:31).
ModulesAgree ==
    \A thought \in Thought \ {Unreadable} : \A c \in ToSet(claims) : \A m \in ToSet(memories) :
        c.id = m.id /\ c.evidence = LinkIds(m) /\ LinkedEach(m) => Agree(thought, c, m)

\* No stronger source contradicts the primary claim: broken where claims that
\* were ranked are ranked again and the stronger one is no longer among them,
\* for they keep what contradicted them then (competing-origins.mjs:93).
PrimaryIsUncontradicted ==
    \A thought \in Thought :
        LET set == OriginSet(thought, claims, Links)
        IN claims # <<>> =>
               \A x \in set.claims[1].contradicted : x.type # "stronger_competing_source"

\* The path of a memory cites nothing that the timeline does not: broken by the
\* evidence_ids, which only a path cites (influence-paths.mjs:110).
PathsCiteNothingElse ==
    \A thought \in Thought : \A m \in ToSet(memories) :
        m.schema /\ Dated(Normalized(m.seen)) /\ m.seen <= thought =>
            InfluencePath(m).evidence \subseteq
                Evidence(TemporalInfluencePath(memories, exposures, searches, thought))

\* scripts/check.mjs:186: "Expected memory store to serialize evidence links."
\* Every memory with a source that has a date gets a link of its own.
EveryMemoryIsLinked ==
    \A m \in ToSet(memories) :
        DatedSources(m) # {} =>
            \E l \in ToSet(Links) : l.claim = m.id /\ Dated(l.date)

\* temporal-paths.mjs:119: "related exposures" that are repeated are several: a
\* memory that is the only thing there was, and has one source, is no repetition.
RepetitionsAreSeveral ==
    \A thought \in Thought :
        RepeatedExposures(Seen(thought)) # <<>> =>
            Len(exposures) + Len(memories) > 1 \/ \E m \in ToSet(memories) : Len(m.sources) > 1

=============================================================================
