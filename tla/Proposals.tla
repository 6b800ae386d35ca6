----------------------------- MODULE Proposals -----------------------------
(***************************************************************************)
(* What a member of the committee may propose to AlephBFT, what an honest  *)
(* one does propose, and what a node thinks of a proposal                  *)
(* (finality-aleph/src/data_io/proposal.rs, data_provider.rs and           *)
(* status_provider.rs).                                                    *)
(*                                                                         *)
(* A proposal is a branch of block hashes and the number its author claims *)
(* for the last of them; nothing says that the hashes form a branch or     *)
(* that the number is right.  A chain is what the ChainInfoProvider        *)
(* answers from: the imported blocks, the highest finalized one, and the   *)
(* block AuxFinalizationChainInfoProvider takes for finalized as well      *)
(* (Genesis where that wrapper is not used).  The caches in front of it    *)
(* (CachedChainInfoProvider and available_proposals_cache) only hold       *)
(* answers that never change, which is what AvailabilityIsStable of the    *)
(* data store says.                                                        *)
(***************************************************************************)
EXTENDS Chain, Sequences

CONSTANTS
    FirstBlock,   \* session_boundaries.first_block()
    LastBlock,    \* session_boundaries.last_block()
    MaxBranchLen  \* MAX_DATA_BRANCH_LEN

ASSUME SessionBounds ==
    FirstBlock \in Nat /\ LastBlock \in Nat /\ MaxBranchLen \in Nat \ {0}

Chains == [imported : SUBSET Blocks, finalized : Blocks, aux : Blocks]

TopBlock(p) == p.branch[Len(p.branch)]

NumberBelow(p) == p.number - Len(p.branch)

\* validate_bounds: the number is at least the length, so that the branch
\* does not start at the genesis block.
ValidBounds(p) ==
    /\ Len(p.branch) \in 1..MaxBranchLen
    /\ p.number >= Len(p.branch)
    /\ FirstBlock <= NumberBelow(p) + 1
    /\ p.number <= LastBlock

-----------------------------------------------------------------------------
(* ChainInfoProvider *)

HighestFinalized(chain) ==
    IF Number[chain.aux] > Number[chain.finalized] THEN chain.aux ELSE chain.finalized

IsFinalized(chain, n) == n <= Number[HighestFinalized(chain)]

\* The client knows best up to its own finalized block.
FinalizedAt(chain, n) ==
    AncestorAt(IF n <= Number[chain.finalized] THEN chain.finalized ELSE chain.aux, n)

\* A block with another number than the claimed one is not imported.
IsBlockImported(chain, b, n) == b \in chain.imported /\ Number[b] = n

\* get_parent_hash looks a header up by its hash alone.
IsParentHash(chain, b, p) == b \in chain.imported /\ HasParent(b, p)

-----------------------------------------------------------------------------
(* get_proposal_status *)

PendingStatuses == {"PendingTopBlock", "IncorrectBranch", "NotFinalizedAncestor"}

IsHopelessFork(chain, p) ==
    \E i \in 1..Len(p.branch) :
        /\ IsFinalized(chain, NumberBelow(p) + i)
        /\ FinalizedAt(chain, NumberBelow(p) + i) # p.branch[i]

\* Mutant: the branch must stand on the highest finalized block itself.
IsAncestorHighest(chain, p) == IsParentHash(chain, p.branch[1], chain.finalized)

IsAncestorFinalized(chain, p) ==
    /\ IsFinalized(chain, NumberBelow(p))
    /\ IsParentHash(chain, p.branch[1], FinalizedAt(chain, NumberBelow(p)))

\* Mutant: the links of the branch are not looked at.
IsBranchKnown(chain, p) == \A i \in 2..Len(p.branch) : p.branch[i] \in chain.imported

IsBranchAncestryCorrect(chain, p) ==
    \A i \in 2..Len(p.branch) : IsParentHash(chain, p.branch[i], p.branch[i - 1])

\* The status of p when it was `old` before; a new proposal starts as one
\* whose top block is missing.  Only that status looks at the branch.  The
\* number of the highest finalized block is read before everything else.
StatusSince(chain, highest, p, old) ==
    LET new == old = "PendingTopBlock"
    IN  IF highest >= p.number \/ IsHopelessFork(chain, p) THEN "Ignore"
        ELSE IF new /\ ~IsBlockImported(chain, TopBlock(p), p.number) THEN "PendingTopBlock"
        ELSE IF old = "IncorrectBranch" \/ (new /\ ~IsBranchAncestryCorrect(chain, p))
             THEN "IncorrectBranch"
        ELSE IF IsAncestorFinalized(chain, p) THEN "Finalize"
        ELSE "NotFinalizedAncestor"

ProposalStatus(chain, p, old) ==
    StatusSince(chain, Number[HighestFinalized(chain)], p, old)

Available(status) == status \in {"Finalize", "Ignore"}

\* blocks_from_num: the part of the branch from a number on.
BlocksFrom(p, n) ==
    LET skipped == IF n > NumberBelow(p) + 1 THEN n - NumberBelow(p) - 1 ELSE 0
    IN  SubSeq(p.branch, skipped + 1, Len(p.branch))

-----------------------------------------------------------------------------
(* What the ChainTracker of an honest member proposes *)

\* get_best_block_in_session, for a best block that has reached the session.
\* The block found before is only returned when it is this one.
BestInSession(best) == IF Number[best] <= LastBlock THEN best ELSE AncestorAt(best, LastBlock)

\* The part of a branch between two numbers.
Branch(top, from, to) ==
    [branch |-> [i \in 1..(to + 1 - from) |-> AncestorAt(top, from + i - 1)], number |-> to]

\* Mutant: a branch that is too long loses its lowest blocks.
GetProposalTop(top, finalized) ==
    Branch(top, IF Number[top] > Number[finalized] + MaxBranchLen
                THEN Number[top] - MaxBranchLen + 1 ELSE Number[finalized] + 1, Number[top])

\* get_proposal: the lowest MaxBranchLen blocks above the finalized one.
GetProposal(top, finalized) ==
    Branch(top, Number[finalized] + 1,
           IF Number[top] > Number[finalized] + MaxBranchLen
           THEN Number[finalized] + MaxBranchLen ELSE Number[top])

\* update_data with a best block and a finalized one, read one after the other:
\* the new data_to_propose, if there is any.
UpdateData ==
    [best, finalized \in Blocks |->
        LET top == BestInSession(best)
        IN  IF /\ Number[best] >= FirstBlock /\ Number[finalized] < LastBlock
               /\ Number[top] > Number[finalized] /\ Descends(top, finalized)
            THEN {GetProposal(top, finalized)} ELSE {}]

-----------------------------------------------------------------------------
(***************************************************************************)
(* The definition of availability in the comment of data_store.rs, 110-117,*)
(* without statuses: either the whole branch is there and stands on a      *)
(* finalized block, or a conflicting block was finalized.                  *)
(***************************************************************************)
DataAvailable(chain, p) ==
    \/ /\ IsBlockImported(chain, TopBlock(p), p.number)
       /\ \A i \in 2..Len(p.branch) : HasParent(p.branch[i], p.branch[i - 1])
       /\ p.branch[1] # Genesis /\ Descends(chain.finalized, Parent[p.branch[1]])
    \/ \E i \in 1..Len(p.branch) :
        \E b \in Ancestors[chain.finalized] :
            Number[b] = NumberBelow(p) + i /\ b # p.branch[i]
=============================================================================
