----------------------------- MODULE SyncHandler -----------------------------
(***************************************************************************)
(* The handler of the block synchronisation and the part of its service    *)
(* that owns the request tasks (finality-aleph/src/sync/handler/mod.rs,    *)
(* service.rs, tasks.rs), next to the chain database it works on.          *)
(*                                                                         *)
(* The handler runs in one task, the import queue of the node in another:  *)
(* blocks enter the database at any moment, also while the handler is in   *)
(* the middle of a call, and the handler only learns of them through the   *)
(* queue of import notifications.  A call is therefore a small state       *)
(* machine: `call` holds what is left to do of the message being handled,  *)
(* and no other handler action is enabled before it is finished.           *)
(***************************************************************************)
EXTENDS Forest, Sequences

CONSTANTS
    SessionPeriod, \* blocks per session
    SyncThreshold, \* how far finality must move between two manual syncs (1312)
    Requested,     \* blocks that this node or its peers may ask for by name
    StateResponses, \* state responses a peer may send, sequences of blocks
    Responses,     \* request responses a peer may send, sequences of items
    CacheSize,     \* sessions the verifier cache keeps (VERIFIER_CACHE_SIZE, 2)
    MaxFailures,   \* bound on failing database finalizations
    MaxRestarts,   \* bound on restarts of the node
    NoBlock

ASSUME SessionPositive == {SessionPeriod, CacheSize} \subseteq Nat \ {0} /\ SyncThreshold \in Nat


VARIABLES
    forest,    \* Handler::forest
    missed,    \* Handler::missed_import_data
    oldest,    \* VerifierCache::lower_bound, the oldest session it verifies
    tasks,     \* Service::tasks, the pending request tasks
    call,      \* the handler call in progress
    db,        \* blocks imported into the database of the node
    top,       \* the highest block the database considers finalized
    imports,   \* import notifications the handler has not seen yet
    failures,  \* finalizations the database refused so far
    restarts   \* restarts so far

handlerVars == <<forest, missed, oldest, tasks, call>>
chainVars == <<db, top, imports>>
boundVars == <<failures, restarts>>
vars == <<handlerVars, chainVars, boundVars>>

\* SessionBoundaryInfo::session_id_from_block_num.
SessionOf(n) == n \div SessionPeriod

\* SessionBoundaryInfo: last_block_of_session(session_id_from_block_num(n)).
LastOfSession(n) == (SessionOf(n) + 1) * SessionPeriod - 1

Items == [type : {"Justification", "Header", "Block"}, id : Blocks]

ASSUME MessagesOfBlocks ==
    /\ NoBlock \notin Blocks
    /\ Requested \subseteq Blocks
    /\ StateResponses \subseteq Seq(Blocks)
    /\ Responses \subseteq Seq(Items)

AllGood == [highest_missed |-> 0, last_sync |-> 0]

Idle == [kind |-> "Idle", items |-> <<>>, number |-> 0, found |-> NoBlock, highest |-> NoBlock]

Call(kind, items) == [Idle EXCEPT !.kind = kind, !.items = items]

JustificationItem(id) == [type |-> "Justification", id |-> id]

Init ==
    /\ forest = NewForest(Genesis, {Genesis})
    /\ missed = AllGood
    /\ oldest = 0
    /\ tasks = {}
    /\ call = Idle
    /\ db = {Genesis}
    /\ top = Genesis
    /\ imports = <<>>
    /\ failures = 0
    /\ restarts = 0

-----------------------------------------------------------------------------
(* The rest of the node *)

\* The import queue puts a block into the database and notifies.  The sync
\* does not control it: the block may come from the block producer or from
\* the legacy sync.  Substrate refuses orphans and blocks that are not above
\* the finalized one.
ImportBlock(b) ==
    /\ b \notin db
    /\ Parent[b] \in db
    /\ Number[b] > Number[top]
    /\ db' = db \cup {b}
    /\ imports' = Append(imports, b)
    /\ UNCHANGED <<handlerVars, top, boundVars>>

\* The node stops at any moment and starts again from its database.  Blocks
\* imported between the subscription to the notifications and Forest::new
\* are in the forest and are notified as well.
Restart ==
    /\ restarts < MaxRestarts
    /\ ~NewForestFails(top, db)
    /\ \E again \in {<<>>} \cup {<<b>> : b \in Above(db, top)} : imports' = again
    /\ forest' = NewForest(top, db)
    /\ missed' = AllGood
    /\ oldest' = 0
    /\ tasks' = {}
    /\ call' = Idle
    /\ restarts' = restarts + 1
    /\ UNCHANGED <<db, top, failures>>

-----------------------------------------------------------------------------
(* Handler calls *)


\* Go on with the message in c, or return to the service, which schedules a
\* request for the highest justified block the handler reported.
Proceed(c) ==
    IF c.items # <<>> THEN call' = c /\ UNCHANGED tasks
    ELSE /\ call' = Idle
         /\ tasks' = IF c.highest = NoBlock THEN tasks
                     ELSE tasks \cup {[kind |-> "HighestJustified", id |-> c.highest]}

\* An error drops the rest of the message.
Abort(c) == Proceed([c EXCEPT !.items = <<>>])

\* try_finalize starts right above what the database has finalized.
StartFinalizing(c) == call' = [c EXCEPT !.number = Number[top] + 1] /\ UNCHANGED tasks

\* MissedImportData::update.
Missed(number) ==
    IF missed = AllGood THEN [highest_missed |-> number, last_sync |-> Number[top]]
    ELSE IF number > missed.highest_missed THEN [missed EXCEPT !.highest_missed = number]
    ELSE missed

\* Mutant: one notification stands for all that wait.
BlockImportedDropped ==
    /\ call = Idle
    /\ imports # <<>>
    /\ imports' = <<>>
    /\ forest' = UpdateBody(forest, Head(imports))
    /\ StartFinalizing(Call("BlockImported", <<>>))
    /\ UNCHANGED <<missed, oldest, db, top, boundVars>>

\* block_imported: only blocks that are too new are remembered as missed.
BlockImported ==
    /\ call = Idle
    /\ imports # <<>>
    /\ imports' = Tail(imports)
    /\ LET b == Head(imports)
           error == BodyError(forest, b)
       IN  /\ forest' = UpdateBody(forest, b)
           /\ IF error = "None"
              THEN StartFinalizing(Call("BlockImported", <<>>)) /\ UNCHANGED missed
              ELSE /\ missed' = IF error = "TooNew" THEN Missed(Number[b]) ELSE missed
                   /\ UNCHANGED <<call, tasks>>
    /\ UNCHANGED <<oldest, db, top, boundVars>>

\* handle_justification_from_user, and handle_state on a state that is not
\* behind ours: one verified justification.
ReceiveJustification(j) ==
    /\ call = Idle
    /\ call' = Call("Justification", <<JustificationItem(j)>>)
    /\ UNCHANGED <<forest, missed, oldest, tasks, chainVars, boundVars>>

ReceiveState(j) == Number[j] >= Number[top] /\ ReceiveJustification(j)

\* handle_state_response with one or two justifications.
ReceiveStateResponse(js) ==
    /\ call = Idle
    /\ call' = Call("StateResponse", [i \in DOMAIN js |-> JustificationItem(js[i])])
    /\ UNCHANGED <<forest, missed, oldest, tasks, chainVars, boundVars>>

ReceiveResponse(items) ==
    /\ call = Idle
    /\ call' = Call("Response", items)
    /\ UNCHANGED <<forest, missed, oldest, tasks, chainVars, boundVars>>

\* Mutant: nobody is asked for a block that a peer or we want.
RequireBlockSilently(id) ==
    /\ forest' = IF SpecialState(forest, id) = "TooNew" THEN forest
                 ELSE SetExplicitlyRequired(InsertId(forest, id), id)
    /\ UNCHANGED tasks

\* update_block_identifier with `required`, and the task for a block that is
\* newly required.
RequireBlock(id) ==
    LET f == InsertId(forest, id)
    IN  IF SpecialState(forest, id) = "TooNew" THEN UNCHANGED <<forest, tasks>>
        ELSE /\ forest' = SetExplicitlyRequired(f, id)
             /\ tasks' = IF NewlyRequired(f, id) THEN tasks \cup {[kind |-> "Block", id |-> id]}
                         ELSE tasks

\* handle_internal_request.
InternalRequest(id) ==
    /\ call = Idle
    /\ RequireBlock(id)
    /\ UNCHANGED <<missed, oldest, call, chainVars, boundVars>>

\* A peer's request for a block we do not have makes us want it too, unless
\* it is more than one session ahead of the peer's own top justification j.
\* The state in the request is handled after the request.
ReceiveRequest(id, j) ==
    /\ call = Idle
    /\ IF id \notin db /\ Number[id] <= LastOfSession(Number[j] + SessionPeriod)
       THEN RequireBlock(id) ELSE UNCHANGED <<forest, tasks>>
    /\ call' = IF Number[j] >= Number[top] THEN Call("Justification", <<JustificationItem(j)>>)
               ELSE Idle
    /\ UNCHANGED <<missed, oldest, chainVars, boundVars>>

-----------------------------------------------------------------------------
(* One item of a message *)

NextItem == call.kind # "Idle" /\ call.number = 0 /\ call.items # <<>>

item == Head(call.items)

rest == [call EXCEPT !.items = Tail(@)]

\* Mutant: signatures are not checked.
VerifiesAnything(id) == TRUE

\* Mutant: the authorities of one more session are taken for certain.
InWindowAhead(id) == SessionOf(Number[id]) \in oldest..SessionOf(Number[top]) + 2

\* The sessions VerifierCache::get answers for: none it has pruned, and none
\* whose authorities are not certain yet.
InWindow(id) == SessionOf(Number[id]) \in oldest..SessionOf(Number[top]) + 1

\* What the verifier accepts: the justification of a committee it knows, or
\* the header of the genesis block.
Verifies(id) == id = Genesis \/ (InWindow(id) /\ id \in Justifiable)

\* A session at the end of the cache prunes the oldest ones, whether the
\* signatures turn out to be good or not.
OldestAfter(id) ==
    IF id # Genesis /\ InWindow(id) /\ SessionOf(Number[id]) >= oldest + CacheSize
    THEN SessionOf(Number[id]) - CacheSize + 1 ELSE oldest

\* handle_justification: verify, update the forest, then try to finalize.
HandleJustification ==
    /\ NextItem
    /\ item.type = "Justification"
    /\ Verifies(item.id)
    /\ oldest' = OldestAfter(item.id)
    /\ forest' = UpdateJustification(forest, item.id)
    /\ IF JustificationError(forest, item.id) # "None" THEN Abort(rest)
       ELSE StartFinalizing([rest EXCEPT
                !.found = IF NewHighest(forest, item.id) THEN item.id ELSE NoBlock])
    /\ UNCHANGED <<missed, chainVars, boundVars>>

RejectJustification ==
    /\ NextItem
    /\ item.type = "Justification"
    /\ ~Verifies(item.id)
    /\ oldest' = OldestAfter(item.id)
    /\ Abort(rest)
    /\ UNCHANGED <<forest, missed, chainVars, boundVars>>

HandleHeader ==
    /\ NextItem
    /\ item.type = "Header"
    /\ IF Skippable(forest, item.id) THEN forest' = forest /\ Proceed(rest)
       ELSE IF ~ImportableId(forest, item.id) THEN forest' = forest /\ Abort(rest)
       ELSE /\ forest' = SetExplicitlyRequired(UpdateHeader(forest, item.id), item.id)
            /\ IF HeaderError(forest, item.id) # "None" THEN Abort(rest) ELSE Proceed(rest)
    /\ UNCHANGED <<missed, oldest, chainVars, boundVars>>

\* A block we want is handed to the import queue, which may or may not
\* import it (ImportBlock).
HandleBlock ==
    /\ NextItem
    /\ item.type = "Block"
    /\ IF Skippable(forest, item.id) \/ ImportableId(forest, item.id) THEN Proceed(rest)
       ELSE Abort(rest)
    /\ UNCHANGED <<forest, missed, oldest, chainVars, boundVars>>

-----------------------------------------------------------------------------
(* The loop of try_finalize *)


\* The block the loop finalizes next: the one of the current number or else
\* the last one of its session.
Targets ==
    LET here == FinalizeCandidates(forest, call.number)
    IN  IF here # {} THEN here ELSE FinalizeCandidates(forest, LastOfSession(call.number))

FinalizeNext ==
    /\ call.number # 0
    /\ \E id \in Targets :
        /\ forest' = Finalize(forest, id)
        /\ top' = id
        /\ call' = [call EXCEPT !.number = Number[id] + 1]
    /\ UNCHANGED <<missed, oldest, tasks, db, imports, boundVars>>

\* The database refuses: the forest has moved its root already, and what
\* handle_justification was about to report is lost.
FinalizeFails ==
    /\ call.number # 0
    /\ failures < MaxFailures
    /\ failures' = failures + 1
    /\ \E id \in Targets : forest' = Finalize(forest, id)
    /\ Abort([call EXCEPT !.number = 0])
    /\ UNCHANGED <<missed, oldest, chainVars, restarts>>

\* MissedImportData::try_sync on the database as it is now.
SyncDue == missed # AllGood /\ Number[top] - missed.last_sync > SyncThreshold

ToMark == {b \in Above(db, top) : Number[b] <= missed.highest_missed}

\* update_body fails on the children of a finalized block that is not the
\* root of the forest; their state in the forest does not change.
SyncFails == SyncDue /\ top # forest.root_id /\ ToMark # {}

Fits(b) == Number[b] <= Number[top] + MaxDepth

TrySync ==
    IF ~SyncDue THEN UNCHANGED <<forest, missed>>
    ELSE IF SyncFails THEN UNCHANGED <<forest, missed>>
    ELSE /\ forest' = MarkImported(forest, {b \in ToMark : Fits(b)})
         /\ missed' = IF \A b \in ToMark : Fits(b) THEN AllGood
                      ELSE [missed EXCEPT !.last_sync = Number[top]]

\* Nothing is left to finalize.  A state response keeps what the last of its
\* justifications gave; a request response keeps the last one that gave
\* anything.
StopFinalizing ==
    /\ call.number # 0
    /\ Targets = {}
    /\ TrySync
    /\ IF SyncFails THEN Abort([call EXCEPT !.number = 0])
       ELSE Proceed([call EXCEPT !.number = 0, !.found = NoBlock,
                        !.highest = IF call.kind = "Response" /\ call.found = NoBlock THEN @
                                    ELSE call.found])
    /\ UNCHANGED <<oldest, chainVars, boundVars>>

-----------------------------------------------------------------------------
(* Request tasks *)

\* Whether the task still sends a request, RequestKind::should_request.
StillWanted(task) ==
    RequestInterest(forest, task.id) =
        IF task.kind = "Block" THEN "Required" ELSE "HighestJustified"

\* A task that comes up and is no longer of interest disappears; any other
\* sends a request and is scheduled again.
DropTask ==
    /\ call = Idle
    /\ \E task \in tasks : ~StillWanted(task) /\ tasks' = tasks \ {task}
    /\ UNCHANGED <<forest, missed, oldest, call, chainVars, boundVars>>

-----------------------------------------------------------------------------
\* The steps inside a call.
CallSteps ==
    \/ HandleJustification \/ RejectJustification \/ HandleHeader \/ HandleBlock
    \/ FinalizeNext \/ FinalizeFails \/ StopFinalizing

Inputs ==
    \/ \E b \in Blocks : ImportBlock(b)
    \/ \E j \in Blocks : ReceiveJustification(j) \/ ReceiveState(j)
    \/ \E js \in StateResponses : ReceiveStateResponse(js)
    \/ \E items \in Responses : ReceiveResponse(items)
    \/ \E id \in Requested : InternalRequest(id)
    \/ \E id \in Requested, j \in Blocks : ReceiveRequest(id, j)
    \/ Restart

Next == BlockImported \/ CallSteps \/ DropTask \/ Inputs

\* The handler never waits within a call.  Between calls the service picks
\* at random among its ready inputs (tokio::select!), so a notification that
\* waits is picked in the end, however many messages arrive meanwhile.
Fairness == WF_vars(CallSteps) /\ SF_vars(BlockImported)

Spec == Init /\ [][Next]_vars /\ Fairness
-----------------------------------------------------------------------------
(* Properties *)

TypeOK ==
    /\ forest \in ForestType
    /\ missed \in [highest_missed : Nat, last_sync : Nat]
    /\ oldest \in Nat
    /\ tasks \subseteq [kind : {"Block", "HighestJustified"}, id : Blocks]
    /\ call.kind \in {"Idle", "BlockImported", "Justification", "StateResponse", "Response"}
    /\ call.items \in Seq(Items)
    /\ call.number \in Nat
    /\ {call.found, call.highest} \subseteq Blocks \cup {NoBlock}
    /\ db \subseteq Blocks
    /\ top \in db
    /\ imports \in Seq(db)
    /\ failures \in 0..MaxFailures
    /\ restarts \in 0..MaxRestarts


\* No import escapes the forest: once the notifications are read and nothing
\* is recorded as missed, every block of the database above the root that
\* fits in the forest is marked as imported there.
ForestSeesImports ==
    call = Idle /\ imports = <<>> /\ missed = AllGood =>
        \A b \in Above(db, forest.root_id) :
            Number[b] <= Number[forest.root_id] + MaxDepth => forest.vertices[b].imported


\* What is still to be finalized can be verified: the cache never prunes the
\* session of the next block, although the highest session a peer mentions
\* moves its lower bound.
NeededIsVerifiable == oldest <= SessionOf(Number[top] + 1)

\* Finalization as the rest of the node sees it.
Promise == INSTANCE Finalization WITH db <- db, top <- top

FinalizesSafely == Promise!Spec

\* b is the last block of the session being finalized and can be finalized.
EndReady(b) ==
    /\ b \in db
    /\ forest.vertices[b].inner = "Justification"
    /\ Number[b] = LastOfSession(Number[top] + 1)

\* The last block of the session being finalized gets finalized once it is
\* in the database and its justification has reached the forest, even if no
\* other block of the session is ever justified.
SessionEndFinalized ==
    \A b \in Justifiable : EndReady(b) ~> Number[top] >= Number[b]
=============================================================================
