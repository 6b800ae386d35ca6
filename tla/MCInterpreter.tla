--------------------------- MODULE MCInterpreter ---------------------------
(* Two members, a chain that is longer than a proposal and goes on past the  *)
(* session, a fork, and proposals that overlap and compete.                  *)
EXTENDS Interpreter, TLC

CONSTANTS g0, a1, a2, a3, a4, b1, n1, n2

MCBlocks == {g0, a1, a2, a3, a4, b1}
MCParent == (g0 :> g0) @@ (a1 :> g0) @@ (a2 :> a1) @@ (a3 :> a2) @@ (a4 :> a3)
            @@ (b1 :> g0)
MCNumber == (g0 :> 0) @@ (a1 :> 1) @@ (a2 :> 2) @@ (a3 :> 3) @@ (a4 :> 4)
            @@ (b1 :> 1)

P(branch, number) == [branch |-> branch, number |-> number]

MCProposed ==
    {P(<<a1>>, 1), P(<<a1, a2>>, 2), P(<<a2>>, 2), P(<<a2, a3>>, 3), P(<<b1>>, 1),
     P(<<b1, a2>>, 2)}

Members == Permutations(Nodes)
=============================================================================
