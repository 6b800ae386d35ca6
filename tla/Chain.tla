------------------------------- MODULE Chain -------------------------------
(***************************************************************************)
(* The tree of blocks.  A header fixes the parent and the number of its    *)
(* block, so both are constant functions of the identifier: what a node    *)
(* learns over time is which blocks exist, never what a header says.       *)
(***************************************************************************)
EXTENDS Naturals, FiniteSets

CONSTANTS
    Blocks,      \* block identifiers
    Genesis,     \* the only block without a parent
    Parent,      \* the parent a block's header names (Genesis maps to itself)
    Number       \* the number a block's header names

(***************************************************************************)
(* Ancestry.  Climb(b, T) is the path that starts in b and goes on to the  *)
(* parent from every block of T, as the smallest set with that property.   *)
(***************************************************************************)
Climb(b, T) ==
    {c \in Blocks : \A S \in SUBSET Blocks :
        (b \in S /\ \A d \in S \cap T : Parent[d] \in S) => c \in S}

Ancestors == [b \in Blocks |-> Climb(b, Blocks)]

Descends(b, a) == a \in Ancestors[b]

ASSUME BlockTree ==
    /\ Genesis \in Blocks
    /\ Parent \in [Blocks -> Blocks]
    /\ Number \in [Blocks -> Nat]
    /\ Number[Genesis] = 0
    /\ Parent[Genesis] = Genesis
    /\ \A b \in Blocks \ {Genesis} : Number[b] = Number[Parent[b]] + 1

\* The ancestor of b at a number that is not above it.
AncestorAt(b, n) == CHOOSE a \in Ancestors[b] : Number[a] = n

HasParent(b, p) == b # Genesis /\ Parent[b] = p
=============================================================================
