----------------------------- MODULE TemporalPath ----------------------------
(***************************************************************************)
(* What may have led to a thought, by time: the timeline that              *)
(* reconstructTemporalInfluencePath of src/temporal-paths.mjs draws from   *)
(* the memories, exposures and searches it is given, and the influence     *)
(* paths that src/influence-paths.mjs builds from schema memories.         *)
(*                                                                         *)
(* A memory is [id, schema, packet, linked, listed, packets, ids, text,    *)
(* seen, at, strength, retrieved, sources]: packet is its source_packet_id *)
(* and linked the packet its links name (source_packet_id ||               *)
(* schema_packet_id); packets are its evidence_packet_ids, which need not  *)
(* be there (listed), ids its evidence_ids, text its summary || label,     *)
(* seen its first_seen_at || last_seen_at, at its occurred_at, which only  *)
(* negative evidence reads, and retrieved its retrieval_score.  A source   *)
(* is [page, at, stamp, iso]: at is its occurred_at, stamp its timestamp,  *)
(* and iso says whether the one that is read is written as an ISO date.    *)
(* An exposure or a search is an event.                                    *)
(***************************************************************************)
EXTENDS Integers, Sequences, SequencesExt

CONSTANT NoPacket       \* no packet as evidence

\* Dates.  One that is there and cannot be parsed counts as 0, and so does one
\* that is missing.
Missing == -1
Unreadable == 0
Blank == -2

ParseTime(date) == IF date = Missing THEN Unreadable ELSE date

Dated(date) == ParseTime(date) # Unreadable

Date == Nat \cup {Missing}

\* A date of blanks is there, and missing once it is normalised.
Given(date, fallback) == IF date = Missing THEN fallback ELSE date

Normalized(date) == IF date = Blank THEN Missing ELSE date

\* What a list has at some of its positions, each behind those ahead of it.
Arranged(s, ahead) ==
    [k \in 1..Cardinality(DOMAIN ahead) |->
        s[CHOOSE i \in DOMAIN ahead : Cardinality(ahead[i]) = k - 1]]

\* filter(): the order stays.
Kept(s, positions) == Arranged(s, [i \in positions |-> {j \in positions : j < i}])

\* sort(), which keeps what ties in its order.
Sorted(s, Before(_, _)) ==
    Arranged(s, [i \in DOMAIN s |->
        {j \in DOMAIN s : Before(s[j], s[i]) \/ (~Before(s[i], s[j]) /\ j < i)}])

Event(of, date, score, evidence) ==
    [of |-> of, date |-> date, score |-> score, evidence |-> evidence]

Earlier(e, f) == ParseTime(e.date) < ParseTime(f.date)

Stronger(e, f) == e.score > f.score \/ (e.score = f.score /\ Earlier(f, e))

-----------------------------------------------------------------------------

\* The packets that a memory names as its evidence; one without a list of them
\* names that it was made from.
Packets(m) == IF m.listed THEN ToSet(m.packets) ELSE {m.packet} \ {NoPacket}

\* A memory is an exposure, and so is each of its sources; a source without a
\* date has that of its memory.
EventsFromMemory(m) ==
    <<Event(<<m.id, 0>>, Normalized(m.seen), m.strength, Packets(m))>>
        \o [i \in DOMAIN m.sources |->
               Event(<<m.id, i>>, Normalized(Given(m.sources[i].at, m.seen)), m.strength, Packets(m))]

EventsFromMemoryStore(memories) ==
    FlattenSeq([i \in DOMAIN memories |-> EventsFromMemory(memories[i])])

\* A thought whose date cannot be read comes after everything.
NotAfter(thought, e) == thought = Unreadable \/ ParseTime(e.date) <= thought

\* The events a thought may go back to.
UpTo(events, thought) ==
    Kept(events, {i \in DOMAIN events : events[i].date # Missing /\ NotAfter(thought, events[i])})

Exposures(memories, exposures, thought) ==
    Sorted(UpTo(EventsFromMemoryStore(memories) \o exposures, thought), Earlier)

FirstExposure(seen) == Head(seen)

StrongestExposure(seen) == Head(Sorted(seen, Stronger))

Evidence(events) == UNION {events[i].evidence : i \in DOMAIN events}

\* Two exposures are not yet repeated.  (An operator named Faulty... is the one
\* after it with a plausible mistake; no specification uses it.)
FaultyRepeatedExposures(seen) ==
    IF Len(seen) <= 2 THEN <<>>
    ELSE <<Event(<<"repeated_exposures">>, Last(seen).date, Len(seen), Evidence(seen))>>

\* repetitionThreshold is 2.
RepeatedExposures(seen) ==
    IF Len(seen) < 2 THEN <<>>
    ELSE <<Event(<<"repeated_exposures">>, Last(seen).date, Len(seen), Evidence(seen))>>

FirstOf(events) == IF events = <<>> THEN <<>> ELSE <<Head(events)>>

\* The events of the timeline; the exposures and searches are events of the
\* input.
Steps(memories, exposures, searches, thought) ==
    LET seen == Exposures(memories, exposures, thought)
        first == IF seen = <<>> THEN <<>> ELSE <<FirstExposure(seen)>>
        strongest == IF seen = <<>> THEN <<>> ELSE <<StrongestExposure(seen)>>
        search == FirstOf(Sorted(UpTo(searches, thought), Earlier))
        entered == <<Event(<<"user_entered_thought">>, thought, 1, {})>>
    IN first \o RepeatedExposures(seen) \o strongest \o search \o entered

TemporalInfluencePath(memories, exposures, searches, thought) ==
    Sorted(Steps(memories, exposures, searches, thought), Earlier)

-----------------------------------------------------------------------------

\* The evidence of a path: the packets that are listed by the schema memory it
\* is built from, and its evidence_ids, which the timeline never reads.
PathEvidence(m) == ToSet(m.packets) \cup m.ids

\* retrieval_score ?? strength
Confidence(m) == IF m.retrieved = Missing THEN m.strength ELSE m.retrieved

InfluencePath(m) ==
    [memory |-> m.id, confidence |-> Confidence(m), evidence |-> PathEvidence(m)]

\* The schema memories that name evidence.
Schemas(memories) ==
    Kept(memories, {i \in DOMAIN memories :
                        memories[i].schema /\ PathEvidence(memories[i]) # {}})

\* The paths are cut before they are sorted.
FaultyInfluencePaths(memories, top) ==
    LET schemas == Schemas(memories)
        first == SubSeq(schemas, 1, IF Len(schemas) < top THEN Len(schemas) ELSE top)
    IN [i \in DOMAIN first |-> InfluencePath(first[i])]

\* buildInfluencePathsForThought: the paths of the schema memories that name
\* evidence, the most confident ones first; memory ids stand for path ids.
InfluencePaths(memories, top) ==
    LET schemas == Schemas(memories)
        paths == Sorted([i \in DOMAIN schemas |-> InfluencePath(schemas[i])], LAMBDA p, q :
                     \/ p.confidence > q.confidence
                     \/ p.confidence = q.confidence /\ p.memory < q.memory)
    IN SubSeq(paths, 1, IF Len(paths) < top THEN Len(paths) ELSE top)

=============================================================================
