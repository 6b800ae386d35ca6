------------------------------- MODULE MCClique -------------------------------
(***************************************************************************)
(* An instance of Clique: three commands let a node add, remove and add    *)
(* its peer again while tasks of the first time are still there.           *)
(***************************************************************************)
EXTENDS Clique
=============================================================================
