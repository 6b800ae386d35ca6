------------------------------ MODULE MCForest ------------------------------
(* A chain that gets justified, and a fork at each of its first two levels. *)
EXTENDS ForestSpec, TLC

CONSTANTS g0, a1, a2, a3, b1, b2, c2

MCBlocks == {g0, a1, a2, a3, b1, b2, c2}
MCParent ==
    (g0 :> g0) @@ (a1 :> g0) @@ (a2 :> a1) @@ (a3 :> a2) @@ (b1 :> g0) @@ (b2 :> b1) @@ (c2 :> a1)
MCNumber ==
    (g0 :> 0) @@ (a1 :> 1) @@ (a2 :> 2) @@ (a3 :> 3) @@ (b1 :> 1) @@ (b2 :> 2) @@ (c2 :> 2)
=============================================================================
