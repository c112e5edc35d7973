---------------------------- MODULE MCReaderViews ----------------------------
(***************************************************************************)
(* Instances of ReaderViews for TLC: a memory that a query matches well or *)
(* a little by its label.                                                  *)
(***************************************************************************)
EXTENDS ReaderViews

\* "day" matches "daytime" well and "dad" a little.
MCScore == [q \in Query, l \in Label |-> IF l = "daytime" THEN 3 ELSE 1]

=============================================================================
