----------------------------- MODULE MCSyncChain -----------------------------
(***************************************************************************)
(* One chain of five blocks that is longer than the forest is deep, so     *)
(* that blocks are imported which do not fit.  The depth and the threshold *)
(* for a manual sync keep the order of the code's 1800 and 1312.           *)
(***************************************************************************)
EXTENDS SyncHandler, TLC

CONSTANTS g0, a1, a2, a3, a4, a5

MCBlocks == {g0, a1, a2, a3, a4, a5}
MCParent == (g0 :> g0) @@ (a1 :> g0) @@ (a2 :> a1) @@ (a3 :> a2) @@ (a4 :> a3) @@ (a5 :> a4)
MCNumber == (g0 :> 0) @@ (a1 :> 1) @@ (a2 :> 2) @@ (a3 :> 3) @@ (a4 :> 4) @@ (a5 :> 5)
=============================================================================
