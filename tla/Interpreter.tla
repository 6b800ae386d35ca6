---------------------------- MODULE Interpreter ----------------------------
(***************************************************************************)
(* From ordered data to finalized blocks: the OrderedDataInterpreter of    *)
(* every member of a committee (finality-aleph/src/data_io/                *)
(* data_interpreter.rs) reads the data AlephBFT has ordered and sends the  *)
(* blocks to finalize to its aggregator.                                   *)
(*                                                                         *)
(* AlephBFT, external, gives all members the same sequence of data, and    *)
(* hands a piece to a member after the member's data store has let the     *)
(* message with it pass.  A block that members sent to their aggregators   *)
(* gets a justification, which finalizes it in the client of any member    *)
(* that has it, however far the interpreter of that member is.  The client *)
(* runs on other threads: it may import and finalize while a status is     *)
(* being computed, after the first look at the highest finalized block.    *)
(***************************************************************************)
EXTENDS Proposals

CONSTANTS
    Nodes,      \* honest members of the committee
    Proposed,   \* data that may be ordered
    MaxOrdered, \* bound on the ordered data
    Nil         \* no status is being computed

VARIABLES
    ordered,    \* the data in the order of AlephBFT
    chain,      \* what each node's ChainInfoProvider answers from
    handled,    \* how many pieces of data a node has interpreted
    seen,       \* the number of the highest finalized block a node looked up
    sent,       \* blocks_to_finalize_tx of a node
    panicked    \* nodes that met a pending proposal in the data

vars == <<ordered, chain, handled, seen, sent, panicked>>

\* The block below the session, last_finalized_by_aleph of a new interpreter.
Start == CHOOSE b \in Blocks : Number[b] = FirstBlock - 1

Init ==
    /\ ordered = <<>>
    /\ chain = [n \in Nodes |->
                    [imported |-> Ancestors[Start], finalized |-> Start, aux |-> Start]]
    /\ handled = [n \in Nodes |-> 0]
    /\ seen = [n \in Nodes |-> Nil]
    /\ sent = [n \in Nodes |-> <<>>]
    /\ panicked = {}

Order(p) ==
    /\ Len(ordered) < MaxOrdered
    /\ ordered' = Append(ordered, p)
    /\ UNCHANGED <<chain, handled, seen, sent, panicked>>

ImportBlock(n, b) ==
    /\ b \notin chain[n].imported /\ Parent[b] \in chain[n].imported
    /\ chain' = [chain EXCEPT ![n].imported = @ \cup {b}]
    /\ UNCHANGED <<ordered, handled, seen, sent, panicked>>

Elements(s) == {s[i] : i \in DOMAIN s}

FinalizeBlock(n, b) ==
    /\ \E m \in Nodes : b \in Elements(sent[m])
    /\ b \in chain[n].imported \ {chain[n].finalized}
    /\ Descends(b, chain[n].finalized)
    /\ chain' = [chain EXCEPT ![n].finalized = b]
    /\ UNCHANGED <<ordered, handled, seen, sent, panicked>>

-----------------------------------------------------------------------------
\* Mutant: the data store lets everything within bounds pass.
PassedUnchecked(n, p) == ValidBounds(p)

\* The data store of the node has found the data available.
PassedDataStore(n, p) ==
    /\ ValidBounds(p)
    /\ Available(ProposalStatus([chain[n] EXCEPT !.aux = Genesis], p, "PendingTopBlock"))

\* data_finalized begins: get_proposal_status looks up the highest finalized
\* block.
DataFinalized(n) ==
    /\ seen[n] = Nil /\ n \notin panicked
    /\ handled[n] < Len(ordered)
    /\ PassedDataStore(n, ordered[handled[n] + 1])
    /\ seen' = [seen EXCEPT ![n] = Number[HighestFinalized(chain[n])]]
    /\ UNCHANGED <<ordered, chain, handled, sent, panicked>>

\* Mutant: only the last block of the branch is sent.
SendTop(n, blocks) ==
    /\ sent' = [sent EXCEPT ![n] = IF blocks = <<>> THEN @ ELSE Append(@, blocks[Len(blocks)])]
    /\ chain' = [chain EXCEPT ![n].aux = IF blocks = <<>> THEN @ ELSE blocks[Len(blocks)]]

\* Mutant: the first block of the branch is remembered.
SendFirstKept(n, blocks) ==
    /\ sent' = [sent EXCEPT ![n] = @ \o blocks]
    /\ chain' = [chain EXCEPT ![n].aux = IF blocks = <<>> THEN @ ELSE blocks[1]]

\* The blocks go out in order, and the last one becomes aux_finalized.
Send(n, blocks) ==
    /\ sent' = [sent EXCEPT ![n] = @ \o blocks]
    /\ chain' = [chain EXCEPT ![n].aux = IF blocks = <<>> THEN @ ELSE blocks[Len(blocks)]]

Advance(n) ==
    handled' = [handled EXCEPT ![n] = @ + 1] /\ seen' = [seen EXCEPT ![n] = Nil]

\* The rest of data_finalized: the status decides what is sent, if anything.
Interpret(n) ==
    /\ seen[n] # Nil
    /\ LET p == ordered[handled[n] + 1]
           status == StatusSince(chain[n], seen[n], p, "PendingTopBlock")
       IN  /\ Send(n, IF status = "Finalize" THEN BlocksFrom(p, seen[n] + 1) ELSE <<>>)
           /\ panicked' = IF Available(status) THEN panicked ELSE panicked \cup {n}
    /\ Advance(n)
    /\ UNCHANGED ordered

\* What data_to_propose of a member may hold when get_data takes it: it was
\* computed, now or earlier in the session, from a best block of the client and
\* from a finalized one.  prev_chain_info only saves computing it again.
DataToPropose(n) ==
    UNION {UpdateData[best, finalized] :
            best \in chain[n].imported,
            finalized \in {b \in Ancestors[chain[n].finalized] : Descends(b, Start)}}

Next ==
    \/ \E p \in Proposed : Order(p)
    \/ \E n \in Nodes :
        \/ \E b \in Blocks : ImportBlock(n, b) \/ FinalizeBlock(n, b)
        \/ DataFinalized(n)
        \/ Interpret(n)

Spec == Init /\ [][Next]_vars

-----------------------------------------------------------------------------
(* Type invariant. *)
TypeOK ==
    /\ ordered \in Seq(Proposed) /\ Len(ordered) <= MaxOrdered
    /\ chain \in [Nodes -> Chains]
    /\ handled \in [Nodes -> 0..Len(ordered)]
    /\ seen \in [Nodes -> Nat \cup {Nil}]
    /\ \A n \in Nodes : sent[n] \in Seq(Blocks)
    /\ panicked \subseteq Nodes

\* Data that passed the data store is never pending for the interpreter
\* (data_interpreter.rs:111), though the two look at different finalized
\* blocks at different times.
NeverPanics == panicked = {}

\* All members send blocks of one chain and none leaves a hole, however their
\* imports and their client's finalization interleave with the data: the
\* parent of a block was sent just before, or is finalized in the client of
\* the member already.
SentAlongOneChain ==
    /\ \A n, m \in Nodes :
        \A b \in Elements(sent[n]), c \in Elements(sent[m]) : Descends(b, c) \/ Descends(c, b)
    /\ \A n \in Nodes : \A i \in DOMAIN sent[n] :
        \/ Descends(chain[n].finalized, Parent[sent[n][i]])
        \/ i > 1 /\ sent[n][i - 1] = Parent[sent[n][i]]

\* Members that have interpreted all the data there is have come to the same
\* block, whatever their clients finalized in the meantime.
SameDataSameBlock ==
    \A n, m \in Nodes : handled[n] = Len(ordered) /\ handled[m] = Len(ordered)
        /\ seen[n] = Nil /\ seen[m] = Nil
        => HighestFinalized(chain[n]) = HighestFinalized(chain[m])

\* An honest member never waits for its own proposal: whatever its tracker left
\* for AlephBFT, from whichever best and finalized block and however long ago,
\* its own data store finds within bounds and available.
OwnDataPasses ==
    \A n \in Nodes : \A p \in DataToPropose(n) : PassedDataStore(n, p)
=============================================================================
