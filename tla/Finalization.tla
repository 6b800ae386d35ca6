---------------------------- MODULE Finalization ----------------------------
(***************************************************************************)
(* What the block synchronisation promises to the rest of the node: the    *)
(* finalized block moves along one chain, only onto blocks that have been  *)
(* imported and justified, and never back.                                 *)
(***************************************************************************)
EXTENDS Chain

CONSTANT Justifiable

VARIABLES db, top

Init == db = {Genesis} /\ top = Genesis

Import(b) ==
    /\ b \notin db
    /\ Parent[b] \in db
    /\ db' = db \cup {b}
    /\ UNCHANGED top

Finalize(b) ==
    /\ b \in db \cap Justifiable
    /\ b # top
    /\ Descends(b, top)
    /\ top' = b
    /\ UNCHANGED db

Next == \E b \in Blocks : Import(b) \/ Finalize(b)

Spec == Init /\ [][Next]_<<db, top>>
=============================================================================
