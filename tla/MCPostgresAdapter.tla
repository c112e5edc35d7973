-------------------------- MODULE MCPostgresAdapter -------------------------
(***************************************************************************)
(* Instances of PostgresAdapter for TLC: every saver saves stores of one   *)
(* user with any of the ids.                                               *)
(***************************************************************************)
EXTENDS PostgresAdapter

MCOwnId == [u \in User |-> MemoryId]

MCUserOf == [p \in Saver |-> "u"]

=============================================================================
