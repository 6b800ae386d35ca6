---------------------------- MODULE MCDataStore ----------------------------
(* Two branches, and proposals of every kind: good ones, one that stands on *)
(* another block than it should, one with a wrong branch, one with a wrong  *)
(* number and one outside the session.                                      *)
EXTENDS DataStore, TLC

CONSTANTS g0, a1, a2, b1

MCBlocks == {g0, a1, a2, b1}
MCParent == (g0 :> g0) @@ (a1 :> g0) @@ (a2 :> a1) @@ (b1 :> g0)
MCNumber == (g0 :> 0) @@ (a1 :> 1) @@ (a2 :> 2) @@ (b1 :> 1)

P(branch, number) == [branch |-> branch, number |-> number]

Whole == P(<<a1, a2>>, 2)
Upper == P(<<a2>>, 2)
Fork == P(<<b1>>, 1)
WrongBranch == P(<<b1, a2>>, 2)
WrongNumber == P(<<a1>>, 2)
Outside == P(<<a2>>, 3)

MCMessages == {{Upper, Fork}, {WrongBranch, Whole}, {WrongNumber, Outside}}
=============================================================================
