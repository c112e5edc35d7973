--------------------------- MODULE MCOriginReports ---------------------------
(***************************************************************************)
(* Instances of OriginReports for TLC: memories of one packet with no      *)
(* source, with one and with two, dated before and after the thought, with *)
(* no date, with one that cannot be read and with one that is read by some *)
(* modules only.                                                           *)
(***************************************************************************)
EXTENDS OriginReports

Source(page, at, stamp, iso) == [page |-> page, at |-> at, stamp |-> stamp, iso |-> iso]

At(page, date) == Source(page, date, Missing, TRUE)

\* A memory that names its packet "k" as evidence, one with a packet and no list
\* of evidence, and one with neither.
MemoryOf(id, seen, strength, sources) ==
    [id |-> id, schema |-> TRUE, packet |-> "k", linked |-> "k", listed |-> TRUE, packets |-> <<"k">>,
     ids |-> {}, text |-> id, seen |-> seen, at |-> Missing, strength |-> strength,
     retrieved |-> Missing, sources |-> sources]

Unlisted(memory) == [memory EXCEPT !.listed = FALSE, !.packets = <<>>]

Bare(memory) == [Unlisted(memory) EXCEPT !.schema = FALSE, !.packet = "", !.linked = ""]

MCMemory ==
    {MemoryOf(id, 1, 1, <<At(id, 1)>>) : id \in {1, 2}}
        \cup {MemoryOf(id, 1, 2, <<At(id, 3)>>) : id \in {1, 2}}
        \cup {MemoryOf(id, 3, 2, <<At(id, 3), At(9, 2)>>) : id \in {1, 2}}
        \cup {MemoryOf(2, 1, 1, <<At(9, 3)>>), MemoryOf(1, 2, 1, <<At(1, Missing), At(9, Unreadable)>>),
              Bare(MemoryOf(1, 2, 3, <<>>)), Bare(MemoryOf(2, Missing, 1, <<At(2, 1)>>)),
              \* dates that the modules read differently, and one of blanks
              MemoryOf(1, 1, 1, <<Source(1, Missing, 3, TRUE)>>),
              [Unlisted(MemoryOf(2, Blank, 2, <<Source(2, 3, Missing, FALSE), At(8, 1)>>)) EXCEPT !.at = 3],
              \* evidence that only its path cites, and a retrieval that finds it weak
              [MemoryOf(2, 2, 3, <<At(2, Blank)>>) EXCEPT !.packets = <<"k", "l">>, !.ids = {"i"},
                                                          !.retrieved = 1]}

MCExposure ==
    {Event(<<"heard">>, 1, 1, {"e1"}), Event(<<"heard">>, 2, 3, {"e2"}), Event(<<"heard">>, 3, 2, {"e3"}),
     Event(<<"heard">>, Unreadable, 2, {"e0"}), Event(<<"heard">>, Missing, 3, {})}

MCSearch == {Event(<<"search">>, 1, 2, {"s1"}), Event(<<"search">>, 3, 1, {"s3"})}

ClaimOf(id, confidence) == 
    [id |-> id, confidence |-> confidence, evidence |-> {}, contradicted |-> {}]

MCClaimed == {ClaimOf(1, 50), ClaimOf(1, 80), ClaimOf(2, 70), ClaimOf(3, 40)}

=============================================================================
