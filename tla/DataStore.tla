----------------------------- MODULE DataStore -----------------------------
(***************************************************************************)
(* The data availability proxy in front of AlephBFT                        *)
(* (finality-aleph/src/data_io/data_store.rs).  Messages from the network  *)
(* wait in the store until every proposal they carry is available; events  *)
(* of the client, and a periodic maintenance, make the store look at the   *)
(* proposals again.                                                        *)
(*                                                                         *)
(* One iteration of the loop of `run` has no await point besides the       *)
(* select!, so an action is an event together with the pruning that starts *)
(* the next iteration.  The client is the environment: it imports and      *)
(* finalizes blocks on its own and queues notifications, some of which it  *)
(* may drop.                                                               *)
(***************************************************************************)
EXTENDS Proposals

CONSTANTS
    Messages,            \* messages from the network, as sets of proposals
    MaxProposalsPending, \* config.max_proposals_pending
    MaxMessagesPending,  \* config.max_messages_pending
    MaxTriggersPending,  \* config.max_triggers_pending
    MaxReceived,         \* bound on the messages received
    MaxLost              \* bound on the notifications the client drops

VARIABLES
    chain,       \* the client's database
    imports,     \* import_notification_stream
    finalities,  \* finality_notification_stream
    lost,        \* how many notifications were dropped
    store,       \* the DataStore
    sent,        \* messages_for_aleph, as the set of [id, message] sent so far
    requested    \* blocks asked for with request_block

clientVars == <<chain, imports, finalities, lost>>
vars == <<clientVars, store, sent, requested>>

Proposed == UNION Messages

Imported(b, n) == [kind |-> "Imported", block |-> b, number |-> n]

Finalized(n) == [kind |-> "Finalized", block |-> Genesis, number |-> n]

Events == [kind : {"Imported", "Finalized"}, block : Blocks, number : Nat]

Init ==
    /\ chain = [imported |-> {Genesis}, finalized |-> Genesis, aux |-> Genesis]
    /\ imports = <<>> /\ finalities = <<>> /\ lost = 0
    /\ store = [next_free_id |-> 0,
                pending_proposals |-> <<>>,
                pending_messages |-> <<>>,
                event_triggers |-> {},
                registered |-> 0,
                highest_finalized_num |-> 0]
    /\ sent = {} /\ requested = {}

-----------------------------------------------------------------------------
(* The client *)

Notify(queue, b) ==
    \/ queue' = Append(queue, b) /\ UNCHANGED lost
    \/ lost < MaxLost /\ lost' = lost + 1 /\ UNCHANGED queue

ImportBlock(b) ==
    /\ b \notin chain.imported /\ Parent[b] \in chain.imported
    /\ chain' = [chain EXCEPT !.imported = @ \cup {b}]
    /\ Notify(imports, b)
    /\ UNCHANGED <<finalities, store, sent, requested>>

FinalizeBlock(b) ==
    /\ b \in chain.imported \ {chain.finalized} /\ Descends(b, chain.finalized)
    /\ chain' = [chain EXCEPT !.finalized = b]
    /\ Notify(finalities, b)
    /\ UNCHANGED <<imports, store, sent, requested>>

-----------------------------------------------------------------------------
(* Triggers and bumps *)

\* Mutant: the trigger is always for the block below the branch.
NextFinalityBelow(hf, p) == Finalized(NumberBelow(p))

\* The next finality event that may change what p is.
NextFinality(hf, p) == Finalized(IF hf < NumberBelow(p) THEN NumberBelow(p) ELSE hf + 1)

\* register_next_finality_trigger for a set of proposals.
RegisterNextFinality(s, P) ==
    LET hf == s.highest_finalized_num
        open == {p \in P : hf < p.number}
    IN  [s EXCEPT !.event_triggers = @ \cup
                      {[event |-> NextFinality(hf, p), proposal |-> p] : p \in open},
                  !.registered = @ + Cardinality(open)]

\* register_block_import_trigger for a set of proposals.
RegisterImport(s, P) ==
    [s EXCEPT !.event_triggers = @ \cup
                  {[event |-> Imported(TopBlock(p), p.number), proposal |-> p] : p \in P},
              !.registered = @ + Cardinality(P)]

Restriction(f, S) == [x \in DOMAIN f \cap S |-> f[x]]

\* Which proposals get a new finality trigger when a bump leaves them pending:
\* one with a wrong branch waits for the maintenance.
StillWatched(status) == status \in {"PendingTopBlock", "NotFinalizedAncestor"}

\* bump_proposal for every pending proposal of P.  The order does not
\* matter: bumps of different proposals only meet in the messages they free.
Bump(s, P) ==
    LET pending == s.pending_proposals
        bumped == P \cap DOMAIN pending
        status == [p \in bumped |-> ProposalStatus(chain, p, pending[p].status)]
        done == {p \in bumped : Available(status[p])}
        watched == {p \in bumped : StillWatched(status[p])}
        left(id) == s.pending_messages[id].pending_proposals
                        \ {p \in done : id \in pending[p].messages}
        waiting == {id \in DOMAIN s.pending_messages : left(id) # {}}
    IN  RegisterNextFinality(
            [s EXCEPT
                !.pending_proposals = [p \in DOMAIN pending \ done |->
                    IF p \in bumped THEN [pending[p] EXCEPT !.status = status[p]]
                    ELSE pending[p]],
                !.pending_messages = [id \in waiting |->
                    [@[id] EXCEPT !.pending_proposals = left(id)]]],
            watched)

\* What leaves the list of pending messages is sent to AlephBFT.
Resolved(s, t) ==
    {[id |-> id, message |-> s.pending_messages[id].message] :
        id \in DOMAIN s.pending_messages \ DOMAIN t.pending_messages}

\* Remove the triggers of a set of events and bump their proposals.
Fire(s, fired) ==
    LET due == {t \in s.event_triggers : t.event \in fired}
    IN  Bump([s EXCEPT !.event_triggers = @ \ due], {t.proposal : t \in due})

OnBlockImported(s, b) == Fire(s, {Imported(b, Number[b])})

\* All finality triggers up to the new number fire.
OnBlockFinalized(s, b) ==
    LET hf == s.highest_finalized_num
    IN  IF Number[b] <= hf THEN s
        ELSE Fire([s EXCEPT !.highest_finalized_num = Number[b]],
                  {Finalized(n) : n \in hf + 1 .. Number[b]})

-----------------------------------------------------------------------------
(* Pruning *)

\* The messages left when the oldest n identifiers are gone.
Kept(s, n) == {id \in DOMAIN s.pending_messages : id >= n}

\* Mutant: the proposals keep the identifier of a dropped message.
DropMessagesOnly(s, n) ==
    [s EXCEPT !.pending_messages = Restriction(@, Kept(s, n))]

\* prune_single_message for every message below an identifier.
DropBelow(s, n) ==
    LET kept == Kept(s, n)
        gone(p) == {id \in DOMAIN s.pending_messages \ kept :
                        p \in s.pending_messages[id].pending_proposals}
        unneeded == {p \in DOMAIN s.pending_proposals :
                        gone(p) # {} /\ s.pending_proposals[p].messages \subseteq gone(p)}
    IN  [s EXCEPT
            !.pending_messages = Restriction(@, kept),
            !.pending_proposals = [p \in DOMAIN @ \ unneeded |->
                [@[p] EXCEPT !.messages = @ \ gone(p)]]]

WithinLimits(s) ==
    /\ Cardinality(DOMAIN s.pending_messages) <= MaxMessagesPending
    /\ Cardinality(DOMAIN s.pending_proposals) <= MaxProposalsPending

\* Mutant: only the number of messages counts.
PruneByMessages(s) ==
    LET enough == {n \in 0..s.next_free_id :
                    Cardinality(Kept(s, n)) <= MaxMessagesPending \/ n = s.next_free_id}
    IN  DropBelow(s, CHOOSE n \in enough : \A k \in enough : n <= k)

\* The oldest messages go, one by one, until the limits are met or nothing
\* is left to drop.
PrunePendingMessages(s) ==
    LET enough == {n \in 0..s.next_free_id : WithinLimits(DropBelow(s, n)) \/ n = s.next_free_id}
    IN  DropBelow(s, CHOOSE n \in enough : \A k \in enough : n <= k)

PruneTriggers(s) ==
    IF s.registered <= MaxTriggersPending THEN s
    ELSE [s EXCEPT !.event_triggers = {t \in @ : t.proposal \in DOMAIN s.pending_proposals},
                   !.registered = 0]

\* What the loop does before it waits for the next event.
Settle(s) == \E t \in {PrunePendingMessages(s)} : store' = PruneTriggers(t)

-----------------------------------------------------------------------------
(* Events *)

\* The proposals a message adds to the pending ones.
NewlyPending(s, P) ==
    {p \in P \ DOMAIN s.pending_proposals :
        ~Available(ProposalStatus(chain, p, "PendingTopBlock"))}

\* add_message_proposal_dependency for every proposal of a message: one that
\* is pending already is not checked again.
AddDependencies(s, P, id) ==
    LET status == [p \in P |-> ProposalStatus(chain, p, "PendingTopBlock")]
        new == NewlyPending(s, P)
        added == [s EXCEPT !.pending_proposals = [p \in DOMAIN @ \cup new |->
                    IF p \in new THEN [messages |-> {id}, status |-> status[p], aged |-> FALSE]
                    ELSE IF p \in P THEN [@[p] EXCEPT !.messages = @ \cup {id}]
                    ELSE @[p]]]
    IN  RegisterNextFinality(
            RegisterImport(added, {p \in new : status[p] = "PendingTopBlock"}), new)

\* A message with a proposal out of bounds is dropped.
MessageReceived(m) ==
    /\ store.next_free_id < MaxReceived
    /\ \A p \in m : ValidBounds(p)
    /\ LET id == store.next_free_id
           s == AddDependencies([store EXCEPT !.next_free_id = @ + 1], m, id)
           waits == m \cap DOMAIN s.pending_proposals
       IN  IF waits = {}
           THEN Settle(s) /\ sent' = sent \cup {[id |-> id, message |-> m]}
           ELSE /\ Settle([s EXCEPT !.pending_messages = [n \in DOMAIN @ \cup {id} |->
                        IF n = id THEN [message |-> m, pending_proposals |-> waits] ELSE @[n]]])
                /\ UNCHANGED sent
    /\ UNCHANGED <<clientVars, requested>>

\* The store after an event, and what the event sent.
Handle(s) == Settle(s) /\ sent' = sent \cup Resolved(store, s)

BlockImported ==
    /\ imports # <<>>
    /\ Handle(OnBlockImported(store, Head(imports)))
    /\ imports' = Tail(imports)
    /\ UNCHANGED <<chain, finalities, lost, requested>>

BlockFinalized ==
    /\ finalities # <<>>
    /\ Handle(OnBlockFinalized(store, Head(finalities)))
    /\ finalities' = Tail(finalities)
    /\ UNCHANGED <<chain, imports, lost, requested>>

\* Mutant: a missing top block is left to the import notification.
BumpAncestors(s) ==
    Bump(s, {p \in DOMAIN s.pending_proposals : s.pending_proposals[p].status # "PendingTopBlock"})

\* Maintenance bumps every pending proposal.
BumpAll(s) == Bump(s, DOMAIN s.pending_proposals)

\* The blocks the maintenance requests.  The interval between two of them is
\* longer than request_block_after: what was pending at the last one is
\* overdue, what came later may be.
RequestMissing(pending) ==
    LET missing == {p \in DOMAIN pending : ~IsBlockImported(chain, TopBlock(p), p.number)}
    IN  \E asked \in SUBSET missing :
            /\ {p \in missing : pending[p].aged} \subseteq asked
            /\ requested' = requested \cup
                    {[block |-> TopBlock(p), number |-> p.number] : p \in asked}

\* run_maintenance.
RunMaintenance ==
    \E imported \in {OnBlockImported(store, chain.finalized)} :
    \E updated \in {OnBlockFinalized(imported, chain.finalized)} :
    \E bumped \in {BumpAll(updated)} :
    \E aged \in {[bumped EXCEPT !.pending_proposals =
                    [p \in DOMAIN @ |-> [@[p] EXCEPT !.aged = TRUE]]]} :
        /\ Handle(aged)
        /\ RequestMissing(bumped.pending_proposals)
        /\ UNCHANGED clientVars

Client == \E b \in Blocks : ImportBlock(b) \/ FinalizeBlock(b)

Next ==
    \/ Client
    \/ \E m \in Messages : MessageReceived(m)
    \/ BlockImported
    \/ BlockFinalized
    \/ RunMaintenance

\* The clock of the maintenance restarts after every maintenance and its
\* branch of the select! is picked in the end.
Fairness == WF_vars(RunMaintenance)

Spec == Init /\ [][Next]_vars /\ Fairness

-----------------------------------------------------------------------------
Ids == 0..MaxReceived - 1

ProposalInfo == [messages : SUBSET Ids, status : PendingStatuses, aged : BOOLEAN]

(* Type invariant. *)
TypeOK ==
    /\ chain \in Chains
    /\ imports \in Seq(Blocks) /\ finalities \in Seq(Blocks) /\ lost \in 0..MaxLost
    /\ store.next_free_id \in 0..MaxReceived
    /\ \E P \in SUBSET Proposed : store.pending_proposals \in [P -> ProposalInfo]
    /\ \A id \in DOMAIN store.pending_messages :
        /\ id \in Ids
        /\ store.pending_messages[id].message \in Messages
        /\ store.pending_messages[id].pending_proposals \subseteq Proposed
    /\ \A t \in store.event_triggers : t.event \in Events /\ t.proposal \in Proposed
    /\ store.registered \in Nat /\ store.highest_finalized_num \in Nat
    /\ \A m \in sent : m.id \in Ids /\ m.message \in Messages

\* The two maps of pending things mirror each other and hold nothing idle, so
\* the warnings of data_store.rs:534, 555 and 574 never show.
LinksAgree ==
    LET pending == store.pending_proposals
        waiting == store.pending_messages
    IN  /\ \A p \in DOMAIN pending : pending[p].messages # {}
        /\ \A id \in DOMAIN waiting : waiting[id].pending_proposals # {}
        /\ \A p \in Proposed, id \in Ids :
            (p \in DOMAIN pending /\ id \in pending[p].messages)
            <=> (id \in DOMAIN waiting /\ p \in waiting[id].pending_proposals)

\* Only available data reaches AlephBFT: every proposal of a message that was
\* passed on is available in the sense of the comment at data_store.rs:110.
SentIsAvailable ==
    \A m \in sent : \A p \in m.message : ValidBounds(p) /\ DataAvailable(chain, p)

\* A proposal that is available stays available, whatever is imported and
\* finalized later: this is what lets the store cache such answers.
AvailabilityIsStable ==
    [][\A p \in Proposed : ValidBounds(p) /\ Available(ProposalStatus(chain, p, "PendingTopBlock"))
        => Available(ProposalStatus(chain', p, "PendingTopBlock"))]_chain

\* Without lost notifications messages leave at the very first moment: once
\* all notifications are handled, a message only waits for proposals that are
\* not available, or whose branch was wrong when their top block came.
SentPromptly ==
    imports = <<>> /\ finalities = <<>> /\ lost = 0 =>
        \A p \in DOMAIN store.pending_proposals :
            \/ store.pending_proposals[p].status = "IncorrectBranch"
            \/ ~DataAvailable(chain, p)

\* The memory of the store is bounded while it waits: messages and proposals
\* by their limits, triggers by two per pending proposal and those registered
\* since the last pruning.
MemoryBounded ==
    /\ WithinLimits(store)
    /\ store.registered <= MaxTriggersPending
    /\ Cardinality(store.event_triggers) <= 2 * MaxProposalsPending + store.registered

\* The maintenance makes up for every notification the client dropped: after
\* it no message waits whose proposals are all available, and what was missing
\* at the maintenance before and still is has been requested.
AllAvailable(id) == \A p \in store.pending_messages[id].message : DataAvailable(chain, p)

Overdue(p) == store.pending_proposals[p].aged /\ ~IsBlockImported(chain, TopBlock(p), p.number)

MaintenanceRecovers ==
    [][RunMaintenance =>
        /\ ~\E id \in DOMAIN store'.pending_messages : AllAvailable(id)'
        /\ \A p \in DOMAIN store.pending_proposals \cap DOMAIN store'.pending_proposals :
            Overdue(p) => [block |-> TopBlock(p), number |-> p.number] \in requested']_vars
=============================================================================
