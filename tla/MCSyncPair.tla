----------------------------- MODULE MCSyncPair -----------------------------
(***************************************************************************)
(* A chain of five blocks in three sessions of two; the forest of the node *)
(* reaches three blocks up and its verifier one session.                   *)
(***************************************************************************)
EXTENDS SyncPair, TLC

CONSTANTS g0, a1, a2, a3, a4, a5

MCBlocks == {g0, a1, a2, a3, a4, a5}
MCParent == (g0 :> g0) @@ (a1 :> g0) @@ (a2 :> a1) @@ (a3 :> a2) @@ (a4 :> a3) @@ (a5 :> a4)
MCNumber == (g0 :> 0) @@ (a1 :> 1) @@ (a2 :> 2) @@ (a3 :> 3) @@ (a4 :> 4) @@ (a5 :> 5)
=============================================================================
