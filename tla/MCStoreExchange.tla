--------------------------- MODULE MCStoreExchange ---------------------------
(***************************************************************************)
(* An instance of StoreExchange for TLC.  A caller writes a memory "a" of  *)
(* category "work" and supersedes it by "v"; a schema "s" is remembered,   *)
(* has no category and is linked to "a".  A query matches the texts of "a" *)
(* and "v", and the schema not at all.                                     *)
(***************************************************************************)
EXTENDS StoreExchange, TLC

MCSymmetry == Permutations(Key)

MCGain == [step \in GainSteps |-> 1]
MCLoss == [step \in LossSteps |-> 1]

MCCreate == {[id |-> "a", key |-> "ka", status |-> "", state |-> "", strength |-> 1,
              age |-> 0, foreign |-> FALSE]}
MCSchema == {[id |-> "s", key |-> "ks", strength |-> 1, age |-> 0]}

MCCategoryOf == [k \in MergeKey |-> IF k = "ka" THEN "work" ELSE NoCategory]
MCSearchScore == [k \in MergeKey |-> IF k = "ka" THEN 30 ELSE 0]
MCStrengthScore == [n \in 0..MaxStrength |-> 34 * n]

=============================================================================
