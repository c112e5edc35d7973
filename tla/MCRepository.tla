---------------------------- MODULE MCRepository ----------------------------
(***************************************************************************)
(* Instances of Repository for TLC: a memory "a" that clients create, an   *)
(* intent "i" with the derived key "ki", and what they write into them.    *)
(***************************************************************************)
EXTENDS Repository, TLC

MCGain == [step \in GainSteps |-> 1]
MCLoss == [step \in LossSteps |-> 1]

MCCreate == {[id |-> "a", key |-> "ka", status |-> "", state |-> "", strength |-> 1,
              age |-> 0, foreign |-> FALSE]}
MCIntent == {<<>>, <<[id |-> "i", key |-> "ki", strength |-> 2, age |-> 0]>>}

\* Patches with states that the backup schema lists, and with the documented
\* state "rejected" that it does not.
MCPatch == {StatePatch("approved", "")}
MCAnyPatch == {StatePatch(s, "") : s \in {"approved", "rejected"}}

MCLinked == {<<"a", "i">>}

Symmetry == Permutations(Client)

=============================================================================
