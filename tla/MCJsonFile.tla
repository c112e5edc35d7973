----------------------------- MODULE MCJsonFile -----------------------------
(***************************************************************************)
(* An instance of JsonFile for TLC: three calls may be open at a time, of  *)
(* interchangeable callers.  Two texts have the same length, and what the  *)
(* first one begins with and the second one ends with is JSON.             *)
(***************************************************************************)
EXTENDS JsonFile, TLC

MCStoreText == {<<"short">>, <<"head", "tail">>, <<"top", "end">>}

MCJsonText == MCStoreText \cup {<<"head", "end">>}

MCSymmetry == Permutations(Caller)

=============================================================================
