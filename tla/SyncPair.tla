------------------------------ MODULE SyncPair ------------------------------
(***************************************************************************)
(* A node that catches up with a peer over a network that loses and        *)
(* reorders messages: the handler and service of SyncHandler on one side,  *)
(* on the other an honest peer that answers requests and states            *)
(* (sync/handler/request_handler.rs, message_limiter.rs and handle_state   *)
(* of sync/handler/mod.rs).  Blocks reach the database of the node only    *)
(* through the responses it accepts.                                       *)
(***************************************************************************)
EXTENDS SyncHandler

LOCAL INSTANCE SequencesExt

CONSTANTS
    PeerBlocks,   \* the database of the peer
    PeerStart,    \* what the peer has finalized at the start
    MessageItems, \* items that fit in one message (MAX_SYNC_MESSAGE_SIZE)
    MaxInFlight,  \* bound on messages under way when a node sends another
    MaxLost       \* bound on lost messages

ASSUME PeerIsAhead ==
    /\ Justifiable \subseteq PeerBlocks
    /\ PeerStart \in Justifiable \cup {Genesis}
    /\ MessageItems \in Nat \ {0}

VARIABLES
    peerTop,       \* the block the peer has finalized
    peerJustified, \* blocks the peer has a justification for
    network,       \* messages under way, in both directions
    queue,         \* the import queue of the node
    lost           \* messages lost so far

peerVars == <<peerTop, peerJustified>>
pairVars == <<vars, peerVars, network, queue, lost>>

\* The node starts, or starts again, from what it finds in its database.
PairInit ==
    /\ \E tip \in PeerBlocks : db = Ancestors[tip]
    /\ top \in {b \in db \cap (Justifiable \cup {Genesis}) : Descends(PeerStart, b)}
    /\ ~NewForestFails(top, db)
    /\ forest = NewForest(top, db)
    /\ missed = AllGood /\ oldest = 0 /\ tasks = {} /\ call = Idle
    /\ imports = <<>> /\ failures = 0 /\ restarts = 0
    /\ peerTop = PeerStart
    /\ peerJustified = {b \in Justifiable : Descends(PeerStart, b)}
    /\ network = {}
    /\ queue = <<>>
    /\ lost = 0

-----------------------------------------------------------------------------
(* The peer answers a request, RequestHandler *)

\* upper_limit: the end of the session after the one of the requester's top.
UpperLimit(to) == LastOfSession(Number[to] + SessionPeriod)

\* adjust_head: the highest block the requester can verify, unless the target
\* is not finalized here.
AdjustHead(target, limit) ==
    IF Number[target] > Number[peerTop] THEN target
    ELSE IF limit > Number[peerTop] THEN peerTop
    ELSE AncestorAt(peerTop, limit)

\* What the requester lacks below a head, down to its top.
Lacking(head, to) == {b \in Ancestors[head] : Number[b] > Number[to]}

\* Whether the walk down to b has met the identifier of that kind.
Met(knowledge, kind, path, b) ==
    knowledge.kind = kind /\ knowledge.id \in path /\ Number[b] <= Number[knowledge.id]

Up(a, b) == Number[a] < Number[b]

Down(a, b) == Number[a] > Number[b]

ItemsOf(type, blocks) == [i \in DOMAIN blocks |-> [type |-> type, id |-> blocks[i]]]

\* PreChunk::into_chunk for the part of the path that starts in b and ends
\* above the next justified block: a justification, headers below the lowest
\* one the requester knows, and blocks above the ones it has.
Chunk(b, path, justified, knowledge) ==
    LET below == {c \in path : /\ Number[c] <= Number[b]
                               /\ \A d \in (path \cap justified) \ {b} :
                                    Number[d] < Number[b] => Number[d] < Number[c]}
        headers == {c \in below \ justified : Met(knowledge, "LowestId", path, c)}
        blocks == {c \in below : ~Met(knowledge, "TopImported", path, c)}
    IN  ItemsOf("Justification", IF b \in justified THEN <<b>> ELSE <<>>)
        \o ItemsOf("Header", SetToSortSeq(headers, Down))
        \o ItemsOf("Block", SetToSortSeq(blocks, Up))

\* response_items: the chunks from the lowest to the highest; nothing when the
\* top of the requester is not below the head.
ResponseItems ==
    [head \in Blocks, to \in Blocks, justified \in SUBSET Justifiable,
     knowledge \in [kind : {"LowestId", "TopImported"}, id : Blocks] |->
        LET path == Lacking(head, to)
            heads == SetToSortSeq({b \in path : b = head \/ b \in justified}, Up)
        IN  IF ~Descends(head, to) THEN <<>>
            ELSE FlattenSeq([i \in DOMAIN heads |-> Chunk(heads[i], path, justified, knowledge)])]

\* RequestHandler::action.
Action(r) ==
    IF Number[r.target] > UpperLimit(r.top) \/ r.target \notin PeerBlocks THEN <<>>
    ELSE ResponseItems[AdjustHead(r.target, UpperLimit(r.top)), r.top, peerJustified, r.knowledge]

\* Limiter::next_largest_msg, over and over.
Pieces(items) ==
    {SubSeq(items, i, IF i + MessageItems > Len(items) THEN Len(items) ELSE i + MessageItems - 1) :
        i \in {k \in DOMAIN items : (k - 1) % MessageItems = 0}}

\* last_justification_unverified: an honest peer has one for every session it
\* has finished.
LastJustification(s) == AncestorAt(peerTop, (s + 1) * SessionPeriod - 1)

\* Mutant: the top justification is sent to any peer that is behind.
StateReplyTop(to) == IF Number[to] >= Number[peerTop] THEN {} ELSE {<<peerTop>>}

\* handle_state of a peer that is ahead.
StateReply(to) ==
    LET s == SessionOf(Number[to])
        ahead == SessionOf(Number[peerTop]) - s
    IN  IF Number[to] >= Number[peerTop] THEN {}
        ELSE IF ahead = 0 THEN {<<peerTop>>}
        ELSE IF ahead = 1 THEN {<<LastJustification(s), peerTop>>}
        ELSE {<<LastJustification(s), LastJustification(s + 1)>>}

\* Everything the peer sends on a request: the response, in pieces, and what
\* it makes of the state in the request.
Answer(m) ==
    {[kind |-> "StateResponse", items |-> js] : js \in StateReply(m.top)}
    \cup {[kind |-> "Response", items |-> piece] :
            piece \in IF m.kind = "Request" THEN Pieces(Action(m)) ELSE {}}

PeerHandles ==
    /\ \E m \in {n \in network : n.kind \in {"Request", "State"}} :
        network' = (network \ {m}) \cup Answer(m)
    /\ UNCHANGED <<vars, peerVars, queue, lost>>

\* The peer finalizes, in order or by jumping to the end of a session, as its
\* own try_finalize does.
PeerFinalizes(b) ==
    /\ Number[b] \in {Number[peerTop] + 1, LastOfSession(Number[peerTop] + 1)}
    /\ Descends(b, peerTop)
    /\ peerTop' = b
    /\ peerJustified' = peerJustified \cup {b}
    /\ UNCHANGED <<vars, network, queue, lost>>

-----------------------------------------------------------------------------
(* Messages of the node *)

Send(m) == Cardinality(network) < MaxInFlight /\ network' = network \cup {m}

\* The node hears the broadcast of the peer.
HearState ==
    /\ ReceiveState(peerTop)
    /\ UNCHANGED <<peerVars, network, queue, lost>>

\* The broadcast of the node's own state, on its ticker.
Broadcast ==
    /\ call = Idle
    /\ Send([kind |-> "State", top |-> top])
    /\ UNCHANGED <<vars, peerVars, queue, lost>>

\* handle_task on a task that is still wanted: it sends a request and stays.
SendRequest(task) ==
    /\ call = Idle
    /\ task \in tasks
    /\ StillWanted(task)
    /\ Send([kind |-> "Request", target |-> task.id,
             knowledge |-> BranchKnowledge(forest, task.id), top |-> top])
    /\ UNCHANGED <<vars, peerVars, queue, lost>>

Lose ==
    /\ lost < MaxLost
    /\ lost' = lost + 1
    /\ \E m \in network : network' = network \ {m}
    /\ UNCHANGED <<vars, peerVars, queue>>

\* handle_network_data on what the peer sent.
Receive ==
    /\ \E m \in network :
        /\ \/ m.kind = "Response" /\ ReceiveResponse(m.items)
           \/ m.kind = "StateResponse" /\ ReceiveStateResponse(m.items)
        /\ network' = network \ {m}
    /\ UNCHANGED <<peerVars, queue, lost>>

-----------------------------------------------------------------------------
(* The import queue of the node *)

\* A block that waits already is not put in again: its second import would
\* find it in the database, or fail as the first one did.
Queued == IF \E i \in DOMAIN queue : queue[i] = item.id THEN queue ELSE Append(queue, item.id)

\* The steps inside a call; an importable block goes to the import queue.
PairCall ==
    /\ CallSteps
    /\ queue' = IF /\ NextItem /\ item.type = "Block"
                   /\ ImportableId(forest, item.id) /\ ~Skippable(forest, item.id)
                THEN Queued ELSE queue
    /\ UNCHANGED <<peerVars, network, lost>>

\* The queue imports in order; an orphan or a block it knows is dropped.
ImportNext ==
    /\ queue # <<>>
    /\ queue' = Tail(queue)
    /\ LET b == Head(queue)
       IN  IF b \notin db /\ Parent[b] \in db /\ Number[b] > Number[top] THEN ImportBlock(b)
           ELSE UNCHANGED vars
    /\ UNCHANGED <<peerVars, network, lost>>

NodeSteps ==
    /\ BlockImported \/ DropTask \/ \E id \in Requested : InternalRequest(id)
    /\ UNCHANGED <<peerVars, network, queue, lost>>

PairNext ==
    \/ PeerHandles \/ HearState \/ Lose
    \/ \E b \in Justifiable : PeerFinalizes(b)
    \/ Broadcast
    \/ \E task \in tasks : SendRequest(task)
    \/ Receive \/ PairCall \/ ImportNext \/ NodeSteps

\* A task for one of the targets is due, and a request for one is under way.
Due(targets) ==
    /\ call = Idle /\ Cardinality(network) < MaxInFlight
    /\ \E task \in tasks : task.id \in targets /\ StillWanted(task)

Asked(targets) == \E m \in network : m.kind = "Request" /\ m.target \in targets

\* The handler never waits within a call and a call is finite; what is sent is
\* delivered or lost; the import queue and the notifications are worked off.
\* The service picks at random among its ready inputs, so the broadcast comes
\* round, and so does a task that is due again and again: for a requested
\* block and for a justified one apart, each has a task of its own.
PairFairness ==
    /\ []<>(call = Idle) /\ []<>(network = {})
    /\ []<>(queue = <<>>) /\ []<>(imports = <<>>)
    /\ []<>(\E m \in network : m.kind = "State")
    /\ \A targets \in {Requested, Blocks \ Requested} : []<>Due(targets) => []<>Asked(targets)

PairSpec == PairInit /\ [][PairNext]_pairVars /\ PairFairness

-----------------------------------------------------------------------------
(* Properties *)

\* The node catches up: whatever the peer finalizes, the node finalizes in the
\* end, over lost, late and cut messages and from any database it starts with.
PeerHas(b) == b \in peerJustified

Reached(b) == Number[top] >= Number[b]

CatchesUp == \A b \in Justifiable : PeerHas(b) ~> Reached(b)

\* A block that the node wants and the peer has arrives, also one that is not
\* finalized yet, unless finality leaves it behind.
Wanted(b) == forest.vertices[b].importance = "ExplicitlyRequired"

Arrived(b) == b \in db \/ Number[top] >= Number[b]

WantedArrives == \A b \in Requested \cap PeerBlocks : Wanted(b) ~> Arrived(b)
=============================================================================
