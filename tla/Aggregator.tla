----------------------------- MODULE Aggregator -----------------------------
(***************************************************************************)
(* The aggregators of a committee (aggregator/src/aggregator.rs and        *)
(* finality-aleph/src/party/manager/aggregator.rs): each member collects   *)
(* multisignatures under the blocks its interpreter sends and submits them *)
(* to the chain as justifications, in the order of the blocks.             *)
(*                                                                         *)
(* The blocks are those of one chain, which is what the interpreters       *)
(* guarantee (SentAlongOneChain), so a number stands for a hash.  Reliable *)
(* multicast is external: a hash that enough members have started becomes  *)
(* multisigned, and the multisignature reaches a member once, whether or   *)
(* not that member has started the hash.                                   *)
(***************************************************************************)
EXTENDS Naturals, Sequences, FiniteSets

CONSTANTS
    Nodes,      \* members of the committee
    Quorum,     \* how many of them a multisignature needs
    LastBlock,  \* the last block of the session, the first one is 1
    MaxStops,   \* bound on the tasks that are told to exit
    EarlyEnd,   \* whether the stream of blocks may end before the session does
    Nil         \* hash_of_last_block is None

ASSUME CommitteeSize == Quorum \in 1..Cardinality(Nodes) /\ LastBlock \in Nat \ {0}

VARIABLES
    next,       \* the next block the interpreter of a node sends
    aggregator, \* the BlockSignatureAggregator of a node
    received,   \* multisignatures the multicast has given to a node
    last,       \* hash_of_last_block
    ended,      \* no_more_blocks
    submitted,  \* the justifications a node has submitted, in order
    task        \* how the task of a node stands

vars == <<next, aggregator, received, last, ended, submitted, task>>

Numbers == 1..LastBlock

Init ==
    /\ next = [n \in Nodes |-> 1]
    /\ aggregator = [n \in Nodes |->
                        [started_hashes |-> {}, hash_queue |-> <<>>, signatures |-> {}]]
    /\ received = [n \in Nodes |-> {}]
    /\ last = [n \in Nodes |-> Nil]
    /\ ended = [n \in Nodes |-> FALSE]
    /\ submitted = [n \in Nodes |-> <<>>]
    /\ task = [n \in Nodes |-> "Running"]

-----------------------------------------------------------------------------
(* BlockSignatureAggregator *)

OnStart(a, h) ==
    IF h \in a.started_hashes THEN a
    ELSE [a EXCEPT !.started_hashes = @ \cup {h}, !.hash_queue = Append(@, h)]

\* Mutant: a signature under a block that is not started is thrown away.
OnMultisignedStarted(a, h) ==
    IF h \in a.started_hashes THEN [a EXCEPT !.signatures = @ \cup {h}] ELSE a

OnMultisignedHash(a, h) == [a EXCEPT !.signatures = @ \cup {h}]

HeadSigned(a) == a.hash_queue # <<>> /\ Head(a.hash_queue) \in a.signatures

Popped(a) ==
    [a EXCEPT !.hash_queue = Tail(@), !.signatures = @ \ {Head(a.hash_queue)}]

-----------------------------------------------------------------------------
(* The task *)

\* The end of an iteration: everything provided was processed.
Iterate(n) ==
    task' = [task EXCEPT ![n] = IF last'[n] = Nil /\ ended'[n] THEN "Finished" ELSE @]

\* take_while lets the blocks of the session pass.
InSession(h) == h <= LastBlock

BlockFromInterpreter(n) ==
    /\ task[n] = "Running" /\ ~ended[n] /\ InSession(next[n])
    /\ aggregator' = [aggregator EXCEPT ![n] = OnStart(@, next[n])]
    /\ last' = [last EXCEPT ![n] = next[n]]
    /\ next' = [next EXCEPT ![n] = @ + 1]
    /\ UNCHANGED <<received, ended, submitted>>
    /\ Iterate(n)

\* The interpreter leaves out what the client of its node has finalized,
\* with a justification that some member submitted.
InterpreterSkips(n) ==
    /\ ~ended[n] /\ next[n] <= LastBlock
    /\ \E m \in Nodes : \E i \in DOMAIN submitted[m] : submitted[m][i] = next[n]
    /\ next' = [next EXCEPT ![n] = @ + 1]
    /\ UNCHANGED <<aggregator, received, last, ended, submitted, task>>

\* The stream of blocks ends: the task of the interpreter is gone.  Nothing
\* makes this happen when the last block has been sent.
BlocksEnd(n) ==
    /\ task[n] = "Running" /\ ~ended[n]
    /\ next[n] > LastBlock \/ EarlyEnd
    /\ ended' = [ended EXCEPT ![n] = TRUE]
    /\ UNCHANGED <<next, aggregator, received, last, submitted>>
    /\ Iterate(n)

\* Mutant: any signed hash ends the wait for the last one.
ForgetAny(n, h) == Nil

\* What hash_of_last_block becomes when h is submitted.
Forget(n, h) == IF h = last[n] THEN Nil ELSE last[n]

\* process_hash for the head of the queue of a: the submission may fail,
\* which ends the task.
ProcessHead(n, a) ==
    \/ /\ submitted' = [submitted EXCEPT ![n] = Append(@, Head(a.hash_queue))]
       /\ last' = [last EXCEPT ![n] = Forget(n, Head(a.hash_queue))]
       /\ Iterate(n)
    \/ /\ Cardinality({m \in Nodes : task[m] = "Stopped"}) < MaxStops
       /\ task' = [task EXCEPT ![n] = "Stopped"]
       /\ UNCHANGED <<submitted, last>>

\* next_multisigned_hash finds a signed hash at once.
PopHash(n) ==
    /\ task[n] = "Running" /\ HeadSigned(aggregator[n])
    /\ aggregator' = [aggregator EXCEPT ![n] = Popped(@)]
    /\ UNCHANGED <<next, received, ended>>
    /\ ProcessHead(n, aggregator[n])

\* It waits for the multicast otherwise, and looks again.
NextSignature(n, h) ==
    /\ task[n] = "Running" /\ ~HeadSigned(aggregator[n])
    /\ h \notin received[n]
    /\ received' = [received EXCEPT ![n] = @ \cup {h}]
    /\ UNCHANGED <<next, ended>>
    /\ LET a == OnMultisignedHash(aggregator[n], h)
       IN  IF HeadSigned(a)
           THEN aggregator' = [aggregator EXCEPT ![n] = Popped(a)] /\ ProcessHead(n, a)
           ELSE /\ aggregator' = [aggregator EXCEPT ![n] = a]
                /\ UNCHANGED <<last, submitted>>
                /\ Iterate(n)

\* The exit signal, or the end of the network.
Stop(n) ==
    /\ task[n] = "Running"
    /\ Cardinality({m \in Nodes : task[m] = "Stopped"}) < MaxStops
    /\ task' = [task EXCEPT ![n] = "Stopped"]
    /\ UNCHANGED <<next, aggregator, received, last, ended, submitted>>

-----------------------------------------------------------------------------
Started(h) == {n \in Nodes : h \in aggregator[n].started_hashes}

\* Reliable multicast: enough members have started the hash.
Multisigned(h) == Cardinality(Started(h)) >= Quorum

\* The multicasts of enough members still run, so it will be delivered.
Supported(h) == Cardinality({n \in Started(h) : task[n] = "Running"}) >= Quorum

Deliver(n, h) == Multisigned(h) /\ NextSignature(n, h)

Step(n) == BlockFromInterpreter(n) \/ PopHash(n)

Next ==
    \E n \in Nodes :
        \/ Step(n)
        \/ BlocksEnd(n)
        \/ InterpreterSkips(n)
        \/ \E h \in Numbers : Deliver(n, h)
        \/ Stop(n)

\* The loop of the task never waits for one of its inputs only; the multicast
\* repeats its messages as long as its owners run.
Fairness ==
    \A n \in Nodes :
        /\ WF_vars(Step(n))
        /\ \A h \in Numbers : WF_vars(Supported(h) /\ NextSignature(n, h))

Spec == Init /\ [][Next]_vars /\ Fairness

-----------------------------------------------------------------------------
(* Type invariant. *)
TypeOK ==
    /\ next \in [Nodes -> 1..LastBlock + 1]
    /\ aggregator \in [Nodes -> [started_hashes : SUBSET Numbers,
                                 hash_queue : Seq(Numbers),
                                 signatures : SUBSET Numbers]]
    /\ received \in [Nodes -> SUBSET Numbers]
    /\ last \in [Nodes -> Numbers \cup {Nil}]
    /\ ended \in [Nodes -> BOOLEAN]
    /\ submitted \in [Nodes -> Seq(Numbers)]
    /\ task \in [Nodes -> {"Running", "Finished", "Stopped"}]

Elements(s) == {s[i] : i \in DOMAIN s}

\* Signatures complete in any order, but justifications go out in the order
\* of the blocks and nothing is lost: what was submitted, followed by what is
\* queued, is what was started, each block once and in order, and a signature
\* that came before its block waits in `signatures`.  hash_of_last_block is
\* None exactly when nothing is queued, so a task that finishes by itself has
\* submitted all it was given.
SubmittedInOrder ==
    \A n \in Nodes :
        LET all == submitted[n] \o aggregator[n].hash_queue
        IN  task[n] # "Stopped" =>
                /\ \A i, j \in DOMAIN all : i < j => all[i] < all[j]
                /\ Elements(all) = aggregator[n].started_hashes
                /\ aggregator[n].signatures = received[n] \ Elements(submitted[n])
                /\ last[n] = IF aggregator[n].hash_queue = <<>> THEN Nil ELSE all[Len(all)]

Submitted(h) == \E n \in Nodes : h \in Elements(submitted[n])

\* A task was stopped, or its blocks ended early.
Interrupted ==
    \E n \in Nodes : task[n] = "Stopped" \/ (ended[n] /\ next[n] <= LastBlock)

\* Every block of the session gets justified by somebody unless a member is
\* interrupted, though signatures come before their blocks, members finish at
\* different times (a finished one no longer helps the others) and leave out
\* what others have justified.
EveryBlockJustified == \A h \in Numbers : <>(Submitted(h) \/ Interrupted)
=============================================================================
