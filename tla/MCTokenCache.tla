---------------------------- MODULE MCTokenCache ----------------------------
(***************************************************************************)
(* Instances of TokenCache for TLC: two units of margin stand for the      *)
(* minute, and three for the default lifetime; callers are                 *)
(* interchangeable.                                                        *)
(***************************************************************************)
EXTENDS TokenCache, TLC

Symmetry == Permutations(Requester)

=============================================================================
