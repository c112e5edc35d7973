----------------------------- MODULE OriginClaims ----------------------------
(***************************************************************************)
(* Claims about where a thought came from, and what speaks against them:   *)
(* src/evidence-links.mjs, which draws links from the memories and gives   *)
(* them to claims, src/competing-origins.mjs, which ranks the claims and   *)
(* finds their contradictions, and src/negative-evidence.mjs.  A claim is  *)
(* [id, confidence, evidence, contradicted]; a confidence is a number of   *)
(* hundredths.                                                             *)
(***************************************************************************)
EXTENDS TemporalPath

\* The date of a link; one that is not written as an ISO date is refused, also
\* where Date.parse reads it.
LinkDate(s) ==
    LET date == Normalized(Given(s.at, s.stamp))
    IN IF date # Missing /\ ~s.iso THEN Unreadable ELSE date

Readable(date) == date = Missing \/ Dated(date)

\* Links without a date, and with one that can be read, are valid.  The id of a
\* link is made of its packet, page and snippet, and of nothing else; where the
\* memory has no packet, the page stands for that of the source, too.
LinksFromMemory(m) ==
    LET ofSource(s) == [id |-> <<m.linked, s.page>>, claim |-> m.id, date |-> LinkDate(s)]
        ofPacket(p) == [id |-> <<p, 0, m.text>>, claim |-> m.id, date |-> Missing]
    IN [i \in DOMAIN m.sources |-> ofSource(m.sources[i])]
           \o [k \in DOMAIN m.packets |-> ofPacket(m.packets[k])]

\* The links of all memories, of those with one id the first.  (An operator
\* named Faulty... is the one after it with a plausible mistake; no
\* specification uses it.)
CollectEvidenceLinks(memories) ==
    LET all == FlattenSeq([i \in DOMAIN memories |-> LinksFromMemory(memories[i])])
        links == Kept(all, {i \in DOMAIN all : Readable(all[i].date)})
    IN Kept(links, {i \in DOMAIN links : \A j \in DOMAIN links : links[j].id = links[i].id => i <= j})

LinksForClaim(id, links) == Kept(links, {i \in DOMAIN links : links[i].claim = id})

\* attachEvidenceToClaim: what the claim names stays.
AttachEvidence(claim, links) ==
    [claim EXCEPT !.evidence = @ \cup {l.id : l \in ToSet(LinksForClaim(claim.id, links))}]

-----------------------------------------------------------------------------

\* Links without a date count as the earliest ones.  (An operator named
\* Faulty... is the one after it with a plausible mistake; no specification
\* uses it.)
FaultyFirstEvidenceTime(claim, links) ==
    LET times == {ParseTime(l.date) : l \in {k \in ToSet(links) : k.id \in claim.evidence}}
    IN IF times = {} THEN Unreadable ELSE Min(times)

\* The first date among the links of a claim that are still there.
FirstEvidenceTime(claim, links) ==
    LET times == {ParseTime(l.date) : l \in {k \in ToSet(links) : k.id \in claim.evidence}}
                     \ {Unreadable}
    IN IF times = {} THEN Unreadable ELSE Min(times)

Ranked(claims) == Sorted(claims, LAMBDA c, d : c.confidence > d.confidence)

Predates(thought, claim, links) ==
    /\ thought # Unreadable
    /\ FirstEvidenceTime(claim, links) > thought

\* detectOriginContradictions; 18 hundredths make a source materially stronger.
Contradictions(thought, claims, links) ==
    LET strongest == Head(Ranked(claims))
    IN {[type |-> "thought_predates_exposure", claim |-> c.id, by |-> c.id] :
            c \in {d \in ToSet(claims) : Predates(thought, d, links)}}
       \cup {[type |-> "stronger_competing_source", claim |-> c.id, by |-> strongest.id] :
            c \in {d \in ToSet(claims) : d.id # strongest.id
                                             /\ strongest.confidence - d.confidence >= 18}}

\* The claims of other ids, in their order.
OtherThan(claim, claims) == Kept(claims, {i \in DOMAIN claims : claims[i].id # claim.id})

\* The claims that compete with a claim: those ranked first of the other ids.
Competing(claim, claims) ==
    LET others == OtherThan(claim, Ranked(claims))
    IN [i \in 1..(IF Len(others) < 3 THEN Len(others) ELSE 3) |-> others[i].id]

\* The contradictions of an id are noted at every claim that has it, behind
\* those that it had.
Contradicted(claim, found) ==
    [claim EXCEPT !.contradicted = @ \cup {x \in found : x.claim = claim.id}]

\* buildCompetingOriginSet
OriginSet(thought, claims, links) ==
    LET ranked == Ranked(claims)
        found == Contradictions(thought, ranked, links)
    IN [claims |-> [i \in DOMAIN ranked |-> Contradicted(ranked[i], found)],
        competing |-> [i \in DOMAIN ranked |-> Competing(ranked[i], claims)],
        primary |-> IF claims = <<>> THEN <<>> ELSE <<Head(ranked).id>>]

\* detectNegativeEvidence reads the date of a candidate or else that of its
\* first source, and a date that cannot be read is no date.
CandidateDate(m) ==
    Normalized(Given(m.at, IF m.sources = <<>> THEN Missing ELSE m.sources[1].at))

ExposureAfterThought(m, thought) ==
    Dated(CandidateDate(m)) /\ thought # Unreadable /\ CandidateDate(m) > thought

=============================================================================
