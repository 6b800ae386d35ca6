---------------------------- MODULE MCSyncSession ----------------------------
(* One session of three blocks: the genesis block, a1 and the last one, a2. *)
EXTENDS SyncHandler, TLC

CONSTANTS g0, a1, a2

MCBlocks == {g0, a1, a2}
MCParent == (g0 :> g0) @@ (a1 :> g0) @@ (a2 :> a1)
MCNumber == (g0 :> 0) @@ (a1 :> 1) @@ (a2 :> 2)
=============================================================================
