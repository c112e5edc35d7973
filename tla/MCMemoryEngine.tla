--------------------------- MODULE MCMemoryEngine ---------------------------
(***************************************************************************)
(* Instances of MemoryEngine and MemorySharing for TLC.  Two merge keys, a *)
(* schema key and a packet key.  Ids: "s" is derived for the schema, "p"   *)
(* for the packet, "a" is chosen by a caller, "v" is a replacement id.     *)
(***************************************************************************)
EXTENDS MemorySharing

MCGain == [step \in GainSteps |-> 1]
MCLoss == [step \in LossSteps |-> 1]

Manual(id, key, status, state, strength) ==
    [id |-> id, key |-> key, status |-> status, state |-> state, strength |-> strength,
     age |-> 0, foreign |-> FALSE]

Remembered(id, key, strength, age) ==
    [id |-> id, key |-> key, strength |-> strength, age |-> age]

MCEvidence == {NoMemory, "c"}

\* A caller writes a memory under a key of its own, pending or active.
MCCreate == {Manual("a", "ka", "", "", 2), Manual("a", "ka", "", "pending", 1)}
MCWritten == {Manual("a", "ka", s, "", 2) : s \in {"", "pending"}}
MCAccommodate == {Manual("c", "ks", "", "", 2)}
MCPacket == {Remembered("p", "kp", 1, 0), Remembered("p", "kp", 2, 0), Remembered("p", "kp", 0, 0)}
MCSchema == {Remembered("s", "ks", 2, 0)}
\* slug() maps the schema ids "focus.mode" and "focus-mode" to one memory id,
\* while schema_id, the merge key, keeps them apart.
MCSlugCollision == {Remembered("s", "ks", 2, 0), Remembered("s", "kt", 2, 0)}

MCIntent == {<<>>, <<Remembered("i", "ki", 2, 0)>>,
             <<Remembered("i", "ki", 2, 0), Remembered("j", "kj", 1, 1)>>}
\* An edit revives a memory, or gives it the label of the packet.
MCPatch == {StatePatch("", "active"),
            [StatePatch("", "") EXCEPT !.key = [k \in MergeKey |-> "kp"]]}
MCStatePatch == {StatePatch("", "active"), StatePatch("approved", "")}

=============================================================================
