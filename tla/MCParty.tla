------------------------------- MODULE MCParty -------------------------------
(***************************************************************************)
(* Instances of Party: sessions of two blocks, two of which the node       *)
(* validates, with a pruning threshold of one session.                     *)
(***************************************************************************)
EXTENDS Party
=============================================================================
