----------------------------- MODULE SyncProofs -----------------------------
(***************************************************************************)
(* Proofs about the handler of the block synchronisation, for every block  *)
(* tree, session length and depth of the forest, any messages, and any     *)
(* number of refused finalizations and restarts.                           *)
(***************************************************************************)
EXTENDS SyncHandler, ForestLemmas, NatLemmas

-----------------------------------------------------------------------------
(* The block tree and sessions *)

\* Every chain of parents ends in the genesis block.
LEMMA AllDescend ==
    ASSUME NEW b \in Blocks
    PROVE  Descends(b, Genesis)
  <1> SUFFICES ASSUME NEW S \in SUBSET Blocks, b \in S,
                      \A d \in S \cap Blocks : Parent[d] \in S
               PROVE  Genesis \in S
    BY BlockTree DEF Descends, Ancestors, Climb
  <1> DEFINE T == {Number[c] : c \in S}
  <1>1. T \in SUBSET Nat /\ T # {}
    BY BlockTree
  <1>2. PICK n \in T : \A m \in T : n <= m
    <2> HIDE DEF T
    <2> QED BY <1>1, LeastNumber
  <1>3. PICK c \in S : Number[c] = n
    OBVIOUS
  <1>4. ASSUME c # Genesis PROVE FALSE
    <2>1. Parent[c] \in S /\ Number[Parent[c]] \in T
      OBVIOUS
    <2>2. Number[c] = Number[Parent[c]] + 1 /\ Number[Parent[c]] \in Nat
      BY <1>4, BlockTree
    <2>3. n <= Number[Parent[c]]
      BY <1>2, <2>1
    <2> HIDE DEF T
    <2> QED BY <1>3, <2>2, <2>3
  <1> QED BY <1>4

\* Of two blocks of the justified chain the one with the higher number is a
\* descendant of the other.
LEMMA HigherDescends ==
    ASSUME NEW a \in Justifiable, NEW b \in Justifiable \cup {Genesis}, Number[b] < Number[a]
    PROVE  Descends(a, b)
  <1>1. a \in Blocks /\ b \in Blocks /\ Number[a] \in Nat /\ Number[b] \in Nat /\ a # b
    BY JustifiedChain, BlockTree
  <1>2. CASE b = Genesis
    BY <1>1, <1>2, AllDescend
  <1>3. CASE b \in Justifiable
    <2>1. Descends(a, b) \/ Descends(b, a)
      BY <1>3, JustifiedChain
    <2>2. Descends(b, a) => Number[a] < Number[b]
      BY <1>1, AncestorBelow
    <2> QED BY <1>1, <2>1, <2>2
  <1> QED BY <1>2, <1>3

\* The last block of a session is not below any block of it.
LEMMA SessionEnd ==
    ASSUME NEW n \in Nat
    PROVE  LastOfSession(n) \in Nat /\ n <= LastOfSession(n)
  <1>1. SessionPeriod \in Nat \ {0}
    BY SessionPositive
  <1>2. n \div SessionPeriod \in Nat
    BY <1>1
  <1>3. n < ((n \div SessionPeriod) + 1) * SessionPeriod
    BY <1>1, SMTT(30)
  <1> QED BY <1>1, <1>2, <1>3 DEF LastOfSession, SessionOf

-----------------------------------------------------------------------------
(* The inductive invariant *)

CallType == [kind : {"Idle", "BlockImported", "Justification", "StateResponse", "Response"},
             items : Seq(Items),
             number : Nat,
             found : Blocks \cup {NoBlock},
             highest : Blocks \cup {NoBlock}]

\* The loop of try_finalize always stands right above the finalized block.
InStep(c, t) == c \in CallType /\ c.number \in {0, Number[t] + 1}

\* The finalized block is imported and on the justified chain, and the forest
\* and the notifications only speak of what is there.
Inv ==
    /\ db \in SUBSET Blocks
    /\ top \in db /\ top \in Justifiable \cup {Genesis}
    /\ imports \in Seq(db)
    /\ Backed(forest, db)
    /\ InStep(call, top)

LEMMA EmptyMessage == <<>> \in Seq(Items)
  OBVIOUS

LEMMA IdleType == Idle \in CallType /\ Idle.number = 0
  BY MessagesOfBlocks DEF Idle, CallType

LEMMA CallInStep ==
    ASSUME NEW t, NEW items \in Seq(Items),
           NEW kind \in {"BlockImported", "Justification", "StateResponse", "Response"}
    PROVE  InStep(Call(kind, items), t)
  BY IdleType, Zenon DEF Call, InStep, CallType

LEMMA NumberType ==
    ASSUME NEW c \in CallType, NEW n \in Nat
    PROVE  [c EXCEPT !.number = n] \in CallType /\ [c EXCEPT !.number = n].number = n
  BY Zenon DEF CallType

\* proceed or return to the service: the loop is not running.
LEMMA ProceedInStep ==
    ASSUME NEW t, NEW c \in CallType, c.number = 0, Proceed(c)
    PROVE  InStep(call', t)
  BY IdleType DEF Proceed, InStep

LEMMA AbortInStep ==
    ASSUME NEW t, NEW c \in CallType, c.number = 0, Abort(c)
    PROVE  InStep(call', t)
  <1> DEFINE d == [c EXCEPT !.items = <<>>]
  <1>1. d \in CallType /\ d.number = 0
    BY EmptyMessage, Zenon DEF CallType
  <1> HIDE DEF d
  <1> QED BY <1>1, ProceedInStep, Zenon DEF Abort, d

LEMMA StartInStep ==
    ASSUME NEW c \in CallType, top \in Blocks, StartFinalizing(c)
    PROVE  InStep(call', top)
  <1>1. Number[top] + 1 \in Nat
    BY BlockTree
  <1> QED BY <1>1, NumberType, Zenon DEF StartFinalizing, InStep

\* What is left of a message that is being worked on.
LEMMA ItemTypes ==
    ASSUME Inv, NextItem
    PROVE  item.id \in Blocks /\ rest \in CallType /\ rest.number = 0
  <1>1. call \in CallType /\ call.items \in Seq(Items) /\ call.items # <<>> /\ call.number = 0
    BY DEF Inv, InStep, NextItem, CallType
  <1>2. Head(call.items) \in Items /\ Tail(call.items) \in Seq(Items)
    BY <1>1
  <1> QED BY <1>1, <1>2, Zenon DEF item, rest, Items, CallType

\* What try_finalize takes is imported, justified and above the finalized
\* block, also when it jumps to the end of the session.
LEMMA TargetFacts ==
    ASSUME Inv, call.number # 0, NEW id \in Targets
    PROVE  id \in db /\ id \in Justifiable /\ id \in Blocks /\ Number[top] < Number[id]
  <1>1. call.number = Number[top] + 1 /\ top \in Blocks
    BY DEF Inv, InStep
  <1>2. Number[top] \in Nat
    BY <1>1, BlockTree
  <1>3. Number[id] \in {call.number, LastOfSession(call.number)} /\ id \in forest.justified_blocks
    BY DEF Targets, FinalizeCandidates
  <1>4. call.number <= LastOfSession(call.number) /\ LastOfSession(call.number) \in Nat
    BY <1>1, <1>2, SessionEnd
  <1>5. id \in db /\ id \in Justifiable /\ id \in Blocks
    BY <1>3, JustifiedChain DEF Inv, Backed
  <1> QED BY <1>1, <1>2, <1>3, <1>4, <1>5

LEMMA InitInv == Init => Inv
  <1> SUFFICES ASSUME Init PROVE Inv
    OBVIOUS
  <1>1. Backed(forest, db)
    BY BlockTree, NewForestBacked DEF Init
  <1>2. imports \in Seq(db)
    BY DEF Init
  <1>3. InStep(call, top)
    BY IdleType DEF Init, InStep
  <1> QED BY <1>1, <1>2, <1>3, BlockTree DEF Init, Inv

LEMMA StepInv == Inv /\ [Next]_vars => Inv'
  <1> SUFFICES ASSUME Inv, [Next]_vars PROVE Inv'
    OBVIOUS
  <1> USE DEF chainVars, handlerVars, boundVars
  <1>0. /\ db \in SUBSET Blocks /\ top \in db /\ top \in Blocks /\ top \in Justifiable \cup {Genesis}
        /\ imports \in Seq(db) /\ Backed(forest, db) /\ InStep(call, top)
    BY DEF Inv
  <1>same. ASSUME UNCHANGED chainVars, Backed(forest', db), InStep(call', top) PROVE Inv'
    BY <1>0, <1>same DEF Inv
  <1>1. CASE BlockImported
    <2> DEFINE b == Head(imports)
    <2>1. b \in db /\ b \in Blocks /\ imports' \in Seq(db)
      BY <1>0, <1>1 DEF BlockImported
    <2>2. Backed(forest', db)
      BY <1>0, <1>1, <2>1, UpdateBodyBacked DEF BlockImported
    <2>3. Call("BlockImported", <<>>) \in CallType
      BY EmptyMessage, CallInStep, Zenon DEF InStep
    <2>4. InStep(call', top)
      BY <1>0, <1>1, <2>3, StartInStep DEF BlockImported
    <2> QED BY <1>0, <1>1, <2>1, <2>2, <2>4 DEF BlockImported, Inv
  <1>2. CASE HandleJustification
    <2>1. item.id \in Justifiable \cup {Genesis} /\ rest \in CallType /\ rest.number = 0
          /\ item.id \in Blocks
      BY <1>2, ItemTypes DEF HandleJustification, Verifies
    <2>2. Backed(forest', db)
      BY <1>0, <1>2, <2>1, UpdateJustificationBacked DEF HandleJustification
    <2>3. \A n \in {item.id, NoBlock} : [rest EXCEPT !.found = n] \in CallType
      BY <2>1 DEF CallType
    <2>4. InStep(call', top)
      BY <1>0, <1>2, <2>1, <2>3, AbortInStep, StartInStep DEF HandleJustification
    <2> QED BY <1>2, <1>same, <2>2, <2>4 DEF HandleJustification
  <1>3. CASE RejectJustification
    BY <1>0, <1>3, <1>same, ItemTypes, AbortInStep DEF RejectJustification
  <1>4. CASE HandleHeader
    <2>1. item.id \in Blocks /\ rest \in CallType /\ rest.number = 0
      BY <1>4, ItemTypes DEF HandleHeader
    <2>2. Backed(SetExplicitlyRequired(UpdateHeader(forest, item.id), item.id), db)
      BY <1>0, <2>1, UpdateHeaderBacked, SetExplicitlyRequiredBacked
    <2>3. Backed(forest', db)
      BY <1>0, <1>4, <2>2 DEF HandleHeader
    <2>4. InStep(call', top)
      BY <1>4, <2>1, AbortInStep, ProceedInStep DEF HandleHeader
    <2> QED BY <1>4, <1>same, <2>3, <2>4 DEF HandleHeader
  <1>5. CASE HandleBlock
    BY <1>0, <1>5, <1>same, ItemTypes, AbortInStep, ProceedInStep DEF HandleBlock
  <1>6. CASE FinalizeNext
    <2>1. PICK id \in Targets : /\ forest' = Finalize(forest, id) /\ top' = id
                                /\ call' = [call EXCEPT !.number = Number[id] + 1]
      BY <1>6 DEF FinalizeNext
    <2>2. id \in db /\ id \in Justifiable /\ id \in Blocks /\ Number[id] \in Nat
      BY <1>6, TargetFacts, BlockTree DEF FinalizeNext
    <2>3. Backed(forest', db)
      BY <1>0, <2>1, <2>2, FinalizeBacked
    <2>4. InStep(call', top')
      <3>1. Number[id] + 1 \in Nat
        BY <2>2
      <3> QED BY <1>0, <2>1, <3>1, NumberType, Zenon DEF InStep
    <2> QED BY <1>0, <1>6, <2>1, <2>2, <2>3, <2>4 DEF FinalizeNext, Inv
  <1>7. CASE FinalizeFails
    <2>1. PICK id \in Targets : forest' = Finalize(forest, id)
      BY <1>7 DEF FinalizeFails
    <2>2. id \in Blocks
      BY <1>7, TargetFacts DEF FinalizeFails
    <2>3. Backed(forest', db)
      BY <1>0, <2>1, <2>2, FinalizeBacked
    <2> DEFINE c == [call EXCEPT !.number = 0]
    <2>4. c \in CallType /\ c.number = 0
      BY <1>0, NumberType, Zenon DEF InStep
    <2> HIDE DEF c
    <2>5. Abort(c)
      BY <1>7 DEF FinalizeFails, c
    <2>6. InStep(call', top)
      BY <2>4, <2>5, AbortInStep
    <2> QED BY <1>7, <1>same, <2>3, <2>6 DEF FinalizeFails
  <1>8. CASE StopFinalizing
    <2>1. {b \in ToMark : Fits(b)} \in SUBSET (Blocks \cap db)
      BY <1>0 DEF ToMark, Above
    <2>2. Backed(forest', db)
      BY <1>0, <1>8, <2>1, MarkImportedBacked DEF StopFinalizing, TrySync
    <2> DEFINE c == [call EXCEPT !.number = 0]
               d == [call EXCEPT !.number = 0, !.found = NoBlock,
                        !.highest = IF call.kind = "Response" /\ call.found = NoBlock THEN @
                                    ELSE call.found]
    <2>3. c \in CallType /\ c.number = 0 /\ d \in CallType /\ d.number = 0
      BY <1>0, MessagesOfBlocks, Zenon DEF InStep, CallType
    <2> HIDE DEF c, d
    <2>4. Abort(c) \/ Proceed(d)
      BY <1>8 DEF StopFinalizing, c, d
    <2>5. InStep(call', top)
      BY <2>3, <2>4, AbortInStep, ProceedInStep
    <2> QED BY <1>8, <1>same, <2>2, <2>5 DEF StopFinalizing
  <1>9. CASE DropTask
    BY <1>0, <1>9, <1>same DEF DropTask
  <1>10. ASSUME NEW b \in Blocks, ImportBlock(b) PROVE Inv'
    <2>1. /\ db \subseteq db' /\ db' \in SUBSET Blocks /\ b \in db'
          /\ UNCHANGED <<forest, call, top>>
      BY <1>0, <1>10 DEF ImportBlock
    <2>2. imports' \in Seq(db')
      <3>1. imports \in Seq(db')
        BY <1>0, <2>1
      <3> QED BY <1>10, <2>1, <3>1 DEF ImportBlock
    <2>3. Backed(forest', db')
      BY <1>0, <2>1, GrowingBacked
    <2> QED BY <1>0, <2>1, <2>2, <2>3 DEF Inv
  <1>11. ASSUME NEW j \in Blocks, ReceiveJustification(j) PROVE Inv'
    <2>1. <<JustificationItem(j)>> \in Seq(Items)
      BY DEF JustificationItem, Items
    <2>2. InStep(Call("Justification", <<JustificationItem(j)>>), top)
      BY <2>1, CallInStep, Zenon
    <2> QED BY <1>0, <1>11, <1>same, <2>2, Zenon DEF ReceiveJustification
  <1>12. ASSUME NEW js \in StateResponses, ReceiveStateResponse(js) PROVE Inv'
    <2> DEFINE items == [i \in DOMAIN js |-> JustificationItem(js[i])]
    <2>1. js \in Seq(Blocks)
      BY MessagesOfBlocks
    <2>2. items \in Seq(Items)
      <3>1. DOMAIN js = 1..Len(js) /\ Len(js) \in Nat /\ \A i \in 1..Len(js) : js[i] \in Blocks
        BY <2>1
      <3>2. \A i \in 1..Len(js) : JustificationItem(js[i]) \in Items
        BY <3>1 DEF JustificationItem, Items
      <3> QED BY <3>1, <3>2
    <2> HIDE DEF items
    <2>3. InStep(Call("StateResponse", items), top)
      BY <2>2, CallInStep
    <2> QED BY <1>0, <1>12, <1>same, <2>3 DEF ReceiveStateResponse, items
  <1>13. ASSUME NEW items \in Responses, ReceiveResponse(items) PROVE Inv'
    <2>1. items \in Seq(Items)
      BY MessagesOfBlocks
    <2> QED BY <1>0, <1>13, <1>same, <2>1, CallInStep DEF ReceiveResponse
  <1>14. ASSUME NEW id \in Blocks, RequireBlock(id) PROVE Backed(forest', db)
    <2>1. Backed(SetExplicitlyRequired(InsertId(forest, id), id), db)
      BY <1>0, InsertIdBacked, SetExplicitlyRequiredBacked
    <2> QED BY <1>0, <1>14, <2>1 DEF RequireBlock
  <1>15. ASSUME NEW id \in Requested, InternalRequest(id) PROVE Inv'
    BY <1>0, <1>14, <1>15, <1>same, MessagesOfBlocks DEF InternalRequest
  <1>16. ASSUME NEW id \in Requested, NEW j \in Blocks, ReceiveRequest(id, j) PROVE Inv'
    <2>1. Backed(forest', db)
      BY <1>0, <1>14, <1>16, MessagesOfBlocks DEF ReceiveRequest
    <2>2. <<JustificationItem(j)>> \in Seq(Items)
      BY DEF JustificationItem, Items
    <2>3. InStep(Call("Justification", <<JustificationItem(j)>>), top) /\ InStep(Idle, top)
      BY <2>2, CallInStep, IdleType, Zenon DEF InStep
    <2>4. InStep(call', top)
      BY <1>16, <2>3 DEF ReceiveRequest
    <2> QED BY <1>16, <1>same, <2>1, <2>4 DEF ReceiveRequest
  <1>17. CASE Restart
    <2>1. Backed(forest', db)
      BY <1>0, <1>17, NewForestBacked DEF Restart
    <2>2. imports' \in Seq(db)
      <3>1. PICK again \in {<<>>} \cup {<<b>> : b \in Above(db, top)} : imports' = again
        BY <1>17 DEF Restart
      <3>2. CASE again = <<>>
        BY <3>1, <3>2
      <3>3. ASSUME NEW b \in Above(db, top), again = <<b>> PROVE imports' \in Seq(db)
        <4>1. b \in db
          BY DEF Above
        <4> QED BY <3>1, <3>3, <4>1
      <3> QED BY <3>1, <3>2, <3>3
    <2>3. InStep(call', top)
      BY <1>17, IdleType DEF Restart, InStep
    <2> QED BY <1>0, <1>17, <2>1, <2>2, <2>3 DEF Restart, Inv
  <1>18. CASE UNCHANGED vars
    BY <1>0, <1>18, <1>same DEF vars
  <1> QED
    BY <1>1, <1>2, <1>3, <1>4, <1>5, <1>6, <1>7, <1>8, <1>9, <1>10, <1>11, <1>12, <1>13,
       <1>15, <1>16, <1>17, <1>18 DEF Next, CallSteps, Inputs, ReceiveState

LEMMA InvAlways == Spec => []Inv
  BY InitInv, StepInv, PTL DEF Spec

-----------------------------------------------------------------------------
(* The handler implements Finalization *)

\* Only the import queue and the loop of try_finalize change what the rest of
\* the node sees.
LEMMA ChainSteps ==
    ASSUME Inv, [Next]_vars
    PROVE  \/ UNCHANGED <<db, top>>
           \/ \E b \in Blocks : ImportBlock(b)
           \/ FinalizeNext
  <1> USE DEF chainVars, handlerVars, boundVars
  <1>1. CASE BlockImported \/ DropTask
    BY <1>1 DEF BlockImported, DropTask
  <1>2. CASE HandleJustification \/ RejectJustification \/ HandleHeader \/ HandleBlock
    BY <1>2 DEF HandleJustification, RejectJustification, HandleHeader, HandleBlock
  <1>3. CASE FinalizeFails \/ StopFinalizing
    BY <1>3 DEF FinalizeFails, StopFinalizing
  <1>4. CASE Inputs
    BY <1>4, Zenon DEF Inputs, ReceiveJustification, ReceiveState, ReceiveStateResponse,
                ReceiveResponse, InternalRequest, ReceiveRequest, Restart
  <1>5. CASE UNCHANGED vars
    BY <1>5 DEF vars
  <1> QED
    BY <1>1, <1>2, <1>3, <1>4, <1>5 DEF Next, CallSteps

LEMMA StepRefines ==
    ASSUME Inv, [Next]_vars
    PROVE  [Promise!Next]_<<db, top>>
  <1>1. ASSUME NEW b \in Blocks, ImportBlock(b) PROVE Promise!Next
    BY <1>1 DEF ImportBlock, Promise!Next, Promise!Import
  <1>2. CASE FinalizeNext
    <2>1. PICK id \in Targets : top' = id
      BY <1>2 DEF FinalizeNext
    <2>2. /\ id \in db /\ id \in Justifiable /\ id \in Blocks
          /\ Number[top] < Number[id] /\ db' = db
      BY <1>2, TargetFacts DEF FinalizeNext
    <2>3. top \in Justifiable \cup {Genesis} /\ Number[top] \in Nat
      BY BlockTree DEF Inv
    <2>4. Descends(id, top) /\ id # top
      BY <2>2, <2>3, HigherDescends
    <2>5. Promise!Descends(id, top)
      BY <2>4, Zenon DEF Descends, Ancestors, Climb, Promise!Descends, Promise!Ancestors, Promise!Climb
    <2>6. Promise!Finalize(id)
      BY <2>1, <2>2, <2>4, <2>5 DEF Promise!Finalize
    <2> QED BY <2>2, <2>6 DEF Promise!Next
  <1> QED BY <1>1, <1>2, ChainSteps

\* Finality is safe on every block tree: seen from the rest of the node the
\* handler only ever moves the finalized block up one chain of imported and
\* justified blocks, through messages in any order, jumps to the end of a
\* session, finalizations that the database refuses after the forest has
\* moved, and restarts.
THEOREM SafeFinalization == Spec => FinalizesSafely
  <1>1. Init => Promise!Init
    BY DEF Init, Promise!Init
  <1>2. Inv /\ [Next]_vars => [Promise!Next]_<<db, top>>
    BY StepRefines
  <1> QED
    BY <1>1, <1>2, InvAlways, PTL DEF Spec, FinalizesSafely, Promise!Spec

-----------------------------------------------------------------------------
(* The verifier cache *)

\* A higher block is not in an earlier session.
LEMMA SessionMonotone ==
    ASSUME NEW a \in Nat, NEW b \in Nat, a <= b
    PROVE  SessionOf(a) \in Nat /\ SessionOf(b) \in Nat /\ SessionOf(a) <= SessionOf(b)
  <1>1. SessionPeriod \in Nat \ {0}
    BY SessionPositive
  <1>2. a \div SessionPeriod \in Nat /\ b \div SessionPeriod \in Nat
    BY <1>1
  <1>3. a \div SessionPeriod <= b \div SessionPeriod
    BY <1>1, SMTT(30)
  <1> QED BY <1>2, <1>3 DEF SessionOf

Kept == oldest \in Nat /\ NeededIsVerifiable

\* A justification that prunes the cache leaves at least the session of the
\* finalized block, as the cache holds two sessions or more.
LEMMA PruningKeeps ==
    ASSUME CacheSize >= 2, Inv, Kept, NEW id \in Blocks
    PROVE  OldestAfter(id) \in Nat /\ OldestAfter(id) <= SessionOf(Number[top] + 1)
  <1>1. CacheSize \in Nat /\ Number[top] \in Nat /\ Number[id] \in Nat /\ oldest \in Nat
    BY SessionPositive, BlockTree DEF Inv, Kept
  <1>2. /\ SessionOf(Number[top]) \in Nat /\ SessionOf(Number[top] + 1) \in Nat
        /\ SessionOf(Number[top]) <= SessionOf(Number[top] + 1)
        /\ SessionOf(Number[id]) \in Nat
    BY <1>1, SessionMonotone
  <1>3. InWindow(id) => SessionOf(Number[id]) <= SessionOf(Number[top]) + 1
    BY <1>1, <1>2 DEF InWindow
  <1> QED
    BY <1>1, <1>2, <1>3 DEF OldestAfter, Kept, NeededIsVerifiable

LEMMA StepKept ==
    ASSUME CacheSize >= 2, Inv, Kept, [Next]_vars
    PROVE  Kept'
  <1> USE DEF chainVars, handlerVars, boundVars
  <1>1. ASSUME UNCHANGED <<oldest, top>> PROVE Kept'
    BY <1>1 DEF Kept, NeededIsVerifiable
  <1>2. CASE HandleJustification \/ RejectJustification
    <2>1. item.id \in Blocks /\ oldest' = OldestAfter(item.id) /\ top' = top
      BY <1>2, ItemTypes DEF HandleJustification, RejectJustification
    <2> QED BY <2>1, PruningKeeps DEF Kept, NeededIsVerifiable
  <1>3. CASE FinalizeNext
    <2>1. PICK id \in Targets : top' = id
      BY <1>3 DEF FinalizeNext
    <2>2. /\ id \in Blocks /\ Number[top] < Number[id] /\ oldest' = oldest
          /\ Number[top] \in Nat /\ Number[id] \in Nat
      BY <1>3, TargetFacts, BlockTree DEF FinalizeNext, Inv
    <2>3. /\ SessionOf(Number[top] + 1) \in Nat /\ SessionOf(Number[id] + 1) \in Nat
          /\ SessionOf(Number[top] + 1) <= SessionOf(Number[id] + 1)
      BY <2>2, SessionMonotone
    <2> QED BY <2>1, <2>2, <2>3 DEF Kept, NeededIsVerifiable
  <1>4. CASE Restart
    <2>1. top \in Blocks /\ oldest' = 0 /\ top' = top
      BY <1>4 DEF Restart, Inv
    <2>2. SessionOf(Number[top] + 1) \in Nat
      BY <2>1, BlockTree, SessionMonotone
    <2> QED BY <2>1, <2>2 DEF Kept, NeededIsVerifiable
  <1>5. CASE BlockImported \/ DropTask \/ HandleHeader \/ HandleBlock
    BY <1>1, <1>5 DEF BlockImported, DropTask, HandleHeader, HandleBlock
  <1>6. CASE FinalizeFails \/ StopFinalizing
    BY <1>1, <1>6 DEF FinalizeFails, StopFinalizing
  <1>7. CASE Inputs /\ ~Restart
    BY <1>1, <1>7, Zenon DEF Inputs, ImportBlock, ReceiveJustification, ReceiveState,
                      ReceiveStateResponse, ReceiveResponse, InternalRequest, ReceiveRequest
  <1>8. CASE UNCHANGED vars
    BY <1>1, <1>8 DEF vars
  <1> QED
    BY <1>2, <1>3, <1>4, <1>5, <1>6, <1>7, <1>8 DEF Next, CallSteps

\* The verifier cache can always verify the block that is to be finalized
\* next: whatever sessions the messages mention, and however far they jump,
\* the cache does not prune that session, if it holds two sessions or more.
THEOREM NextIsVerifiable ==
    ASSUME CacheSize >= 2
    PROVE  Spec => []NeededIsVerifiable
  <1>1. Init => Kept
    <2> SUFFICES ASSUME Init PROVE Kept
      OBVIOUS
    <2>1. SessionOf(Number[top] + 1) \in Nat
      BY BlockTree, SessionMonotone DEF Init
    <2> QED BY <2>1 DEF Init, Kept, NeededIsVerifiable
  <1>2. Inv /\ Kept /\ [Next]_vars => Kept'
    BY StepKept
  <1>3. Kept => NeededIsVerifiable
    BY DEF Kept
  <1> QED
    BY <1>1, <1>2, <1>3, InvAlways, PTL DEF Spec
=============================================================================
