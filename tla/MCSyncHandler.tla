---------------------------- MODULE MCSyncHandler ----------------------------
(***************************************************************************)
(* Blocks a1, a2, a3 get justified, b1 is a fork.  Sessions have two       *)
(* blocks, so a1 and a3 end a session and a2 does not.                     *)
(***************************************************************************)
EXTENDS SyncHandler, TLC

CONSTANTS g0, a1, a2, a3, b1

MCBlocks == {g0, a1, a2, a3, b1}
MCParent == (g0 :> g0) @@ (a1 :> g0) @@ (a2 :> a1) @@ (a3 :> a2) @@ (b1 :> g0)
MCNumber == (g0 :> 0) @@ (a1 :> 1) @@ (a2 :> 2) @@ (a3 :> 3) @@ (b1 :> 1)

Item(t, b) == [type |-> t, id |-> b]

\* What handle_state of a peer sends: its top justification, or the last one
\* of a session and a higher one.
MCStateResponses == {<<a1, a3>>, <<a3>>}

\* What peers send in response to a request: a whole chunk; a block of the
\* other branch behind two justifications; one nobody signed.
MCResponses ==
    {<<Item("Justification", a3), Item("Header", a2), Item("Header", a1), Item("Block", a1)>>,
     <<Item("Justification", a1), Item("Justification", a2), Item("Block", b1)>>,
     <<Item("Justification", b1), Item("Block", b1)>>}
=============================================================================
