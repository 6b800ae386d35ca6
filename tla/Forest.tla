------------------------------- MODULE Forest -------------------------------
(***************************************************************************)
(* The forest of blocks that the block synchronisation keeps above the     *)
(* highest finalized block (finality-aleph/src/sync/forest/mod.rs and      *)
(* vertex.rs).                                                             *)
(*                                                                         *)
(* A block identifier is an element of Blocks; one whose header is never   *)
(* seen is simply one that stays Empty.                                    *)
(*                                                                         *)
(* Every method of the code takes `&mut self` and has no await point, so   *)
(* it is one operator from forests to forests; what the method returns is  *)
(* an operator of its own.  The sets of peers that know a block            *)
(* (`know_most`) only choose who is asked and are left out.                *)
(***************************************************************************)
EXTENDS Chain

CONSTANTS
    Justifiable, \* blocks a committee may ever produce a justification for
    MaxDepth     \* MAX_DEPTH, how far above the root the forest reaches

\* Finality: the committees of AlephBFT only ever justify one chain.
ASSUME JustifiedChain ==
    /\ Justifiable \subseteq Blocks
    /\ \A a, b \in Justifiable : Descends(a, b) \/ Descends(b, a)

ASSUME DepthPositive == MaxDepth \in Nat \ {0}

-----------------------------------------------------------------------------
(* Vertices, vertex.rs *)

Importance == {"Auxiliary", "Required", "ExplicitlyRequired"}

\* An absent vertex stands for an identifier that is no key of `vertices`.
\* An imported vertex and one with a justification carry no importance in
\* the code; theirs is Auxiliary here.
Vertex == [inner : {"Absent", "Empty", "Header", "Justification"},
           importance : Importance,
           imported : BOOLEAN,
           children : SUBSET Blocks]

Absent == [inner |-> "Absent", importance |-> "Auxiliary",
           imported |-> FALSE, children |-> {}]

NewVertex == [Absent EXCEPT !.inner = "Empty"]

Importable(v) ==
    /\ ~v.imported
    /\ v.inner = "Justification" \/ v.importance # "Auxiliary"

Requestable(v) ==
    ~v.imported /\ v.importance = "ExplicitlyRequired"

ParentKnown(v) == v.inner \in {"Header", "Justification"}

JustifiedBlock(v) == v.inner = "Justification" /\ v.imported

\* Whether set_required changes the vertex: Empty or Header, not imported.
BecomesRequired(v) ==
    v.inner \in {"Empty", "Header"} /\ ~v.imported /\ v.importance = "Auxiliary"

BecomesExplicit(v) ==
    /\ v.inner \in {"Empty", "Header"}
    /\ ~v.imported
    /\ v.importance # "ExplicitlyRequired"

InsertHeader(v) ==
    IF v.inner = "Empty" THEN [v EXCEPT !.inner = "Header"] ELSE v

InsertBody(v) ==
    [v EXCEPT !.inner = IF v.inner = "Justification" THEN @ ELSE "Header",
              !.importance = "Auxiliary",
              !.imported = TRUE]

InsertJustification(v) ==
    [v EXCEPT !.inner = "Justification", !.importance = "Auxiliary"]

-----------------------------------------------------------------------------
(* The forest, mod.rs *)

\* justified_blocks maps a number to the block of that number, so the set of
\* its values says everything.
ForestType == [vertices : [Blocks -> Vertex],
               highest_justified : Blocks,
               justified_blocks : SUBSET Blocks,
               root_id : Blocks,
               root_children : SUBSET Blocks,
               compost_bin : SUBSET Blocks]

SpecialState(f, id) ==
    IF id = f.root_id THEN "HighestFinalized"
    ELSE IF Number[id] <= Number[f.root_id] THEN "BelowMinimal"
    ELSE IF Number[id] > Number[f.root_id] + MaxDepth THEN "TooNew"
    ELSE IF id \in f.compost_bin THEN "HopelessFork"
    ELSE "None"

\* The variant of VertexHandle the code sees for an identifier.
Handle(f, id) ==
    IF SpecialState(f, id) # "None" THEN SpecialState(f, id)
    ELSE IF f.vertices[id].inner = "Absent" THEN "Unknown"
    ELSE "Candidate"

Present(f) == {b \in Blocks : f.vertices[b].inner # "Absent"}

\* What recursive pruning from the identifiers in R removes.
Subtree(f, R) ==
    {b \in Present(f) : \A S \in SUBSET Present(f) :
        /\ R \cap Present(f) \subseteq S
        /\ \A c \in S : f.vertices[c].children \cap Present(f) \subseteq S
        => b \in S}

Prune(f, R) ==
    LET gone == Subtree(f, R)
    IN  [f EXCEPT !.vertices = [b \in Blocks |-> IF b \in gone THEN Absent ELSE @[b]],
                  !.compost_bin = @ \cup gone]

\* Mutant: the compost bin and the vertices are cut one level too late.
PruneLevelShort(f, level) == [Prune(f, {b \in Blocks : Number[b] < level}) EXCEPT
        !.compost_bin = {b \in @ : Number[b] > level},
        !.justified_blocks = {b \in @ : Number[b] > level}]

\* prune_level: drop everything up to the level with all that grows on it.
PruneLevel(f, level) ==
    [Prune(f, {b \in Blocks : Number[b] <= level}) EXCEPT
        !.compost_bin = {b \in @ : Number[b] > level},
        !.justified_blocks = {b \in @ : Number[b] > level}]

\* set_required walks up for as long as it changes something.
SetRequired(f, id) ==
    LET Changes == {b \in Blocks : Handle(f, b) = "Candidate" /\ BecomesRequired(f.vertices[b])}
        path == Climb(id, {b \in Changes : ParentKnown(f.vertices[b])})
    IN  [f EXCEPT !.vertices = [b \in Blocks |->
            IF b \in path \cap Changes THEN [@[b] EXCEPT !.importance = "Required"] ELSE @[b]]]

NewlyRequired(f, id) ==
    Handle(f, id) = "Candidate" /\ BecomesExplicit(f.vertices[id])

SetExplicitlyRequired(f, id) ==
    LET marked == [f EXCEPT !.vertices[id].importance = "ExplicitlyRequired"]
    IN  IF ~NewlyRequired(f, id) THEN f
        ELSE IF ParentKnown(f.vertices[id]) THEN SetRequired(marked, Parent[id])
        ELSE marked

InsertId(f, id) ==
    IF Handle(f, id) = "Unknown" THEN [f EXCEPT !.vertices[id] = NewVertex] ELSE f

\* add_child on a vertex, or on the empty one insert_id has just made.
WithChildren(v, ids) ==
    [v EXCEPT !.inner = IF @ = "Absent" THEN "Empty" ELSE @, !.children = @ \cup ids]

AddChild(f, p, id) == [f EXCEPT !.vertices[p] = WithChildren(@, {id})]

\* Mutant: a parent that is a vertex already does not learn of the child.
ConnectNewParent(f, id) ==
    LET p == Parent[id]
        state == Handle(f, p)
    IN  IF state = "HighestFinalized" THEN [f EXCEPT !.root_children = @ \cup {id}]
        ELSE IF state \in {"HopelessFork", "BelowMinimal"} THEN Prune(f, {id})
        ELSE IF state = "Unknown" THEN AddChild(f, p, id)
        ELSE f

\* Called by update_header on a candidate whose header has been inserted.
\* A parent that is too new "should not happen" and changes nothing.
ConnectParent(f, id) ==
    LET p == Parent[id]
        state == Handle(f, p)
    IN  IF state = "HighestFinalized" THEN [f EXCEPT !.root_children = @ \cup {id}]
        ELSE IF state \in {"HopelessFork", "BelowMinimal"} THEN Prune(f, {id})
        ELSE IF state = "TooNew" THEN f
        ELSE IF Importable(f.vertices[id]) THEN SetRequired(AddChild(f, p, id), p)
        ELSE AddChild(f, p, id)

\* The error of process_header followed by insert_id.
HeaderError(f, id) ==
    IF id = Genesis THEN "HeaderMissingParentId"
    ELSE IF SpecialState(f, id) = "TooNew" THEN "TooNew"
    ELSE "None"

\* update_header with `required` false; it changes nothing on an error.
UpdateHeader(f, id) ==
    LET inserted == InsertId(f, id)
    IN  IF HeaderError(f, id) # "None" \/ Handle(inserted, id) # "Candidate" THEN f
        ELSE ConnectParent([inserted EXCEPT !.vertices[id] = InsertHeader(@)], id)

\* Mutant: a block may be marked imported before its parent.
BodyErrorAnyParent(f, id) ==
    IF HeaderError(f, id) # "None" THEN HeaderError(f, id)
    ELSE IF Handle(UpdateHeader(f, id), id) # "Candidate" THEN "IncorrectVertexState"
    ELSE "None"

\* What update_body returns once update_header is done.
BodyError(f, id) ==
    LET g == UpdateHeader(f, id)
        parentState == Handle(g, Parent[id])
    IN  IF HeaderError(f, id) # "None" THEN HeaderError(f, id)
        ELSE IF parentState = "Candidate" /\ ~g.vertices[Parent[id]].imported
             THEN "ParentNotImported"
        ELSE IF parentState \notin {"Candidate", "HighestFinalized"}
             THEN "IncorrectParentState"
        ELSE IF Handle(g, id) # "Candidate" THEN "IncorrectVertexState"
        ELSE "None"

\* Mutant: every block with a justification is cached, imported or not.
CacheUnimported(f, id) ==
    IF f.vertices[id].inner = "Justification"
    THEN [f EXCEPT !.justified_blocks = {b \in @ : Number[b] # Number[id]} \cup {id}]
    ELSE f

\* HashMap::insert under the block's number.
CacheJustified(f, id) ==
    IF JustifiedBlock(f.vertices[id])
    THEN [f EXCEPT !.justified_blocks = {b \in @ : Number[b] # Number[id]} \cup {id}]
    ELSE f

\* Mutant: only a justification that comes after the body is cached.
UpdateBodyUncached(f, id) ==
    LET g == UpdateHeader(f, id)
    IN  IF BodyError(f, id) # "None" THEN g ELSE [g EXCEPT !.vertices[id] = InsertBody(@)]

UpdateBody(f, id) ==
    LET g == UpdateHeader(f, id)
    IN  IF BodyError(f, id) # "None" THEN g
        ELSE CacheJustified([g EXCEPT !.vertices[id] = InsertBody(@)], id)

\* Mutant: the highest justified block is tracked for any known identifier.
NewHighestAnywhere(f, id) ==
    HeaderError(f, id) = "None" /\ Number[id] >= Number[f.root_id]

\* Whether update_justification makes id the new highest justified block.
NewHighest(f, id) ==
    /\ HeaderError(f, id) = "None"
    /\ Handle(UpdateHeader(f, id), id) = "Candidate"
    /\ Number[id] > Number[f.highest_justified]

\* The genesis block is accepted without looking at it.
JustificationError(f, id) == IF Number[id] = 0 THEN "None" ELSE HeaderError(f, id)

UpdateJustification(f, id) ==
    LET g == UpdateHeader(f, id)
        justified == CacheJustified([g EXCEPT !.vertices[id] = InsertJustification(@)], id)
    IN  IF HeaderError(f, id) # "None" \/ Handle(g, id) # "Candidate" THEN g
        ELSE IF NewHighest(f, id) THEN [justified EXCEPT !.highest_justified = id]
        ELSE justified

\* The vertex that try_finalize takes out, if there is one.
FinalizeCandidates(f, number) ==
    {b \in f.justified_blocks \cap Present(f) : Number[b] = number}

\* Mutant: the finalized vertex is still there when its level is pruned.
FinalizePrunesBranch(f, id) ==
    PruneLevel([f EXCEPT !.root_id = id, !.root_children = f.vertices[id].children], Number[id])

\* try_finalize on a candidate.  The code panics unless the vertex it finds
\* in its cache is an imported one with a justification.
Finalize(f, id) ==
    PruneLevel([f EXCEPT !.vertices[id] = Absent,
                         !.root_id = id,
                         !.root_children = f.vertices[id].children],
               Number[id])

\* The end of the walk of branch_knowledge: the first imported or
\* parentless vertex, the root, or something that is no branch at all.
BranchEnd(f, id) ==
    LET walk == Climb(id, {b \in Blocks : /\ Handle(f, b) = "Candidate"
                                          /\ ~f.vertices[b].imported
                                          /\ ParentKnown(f.vertices[b])})
    IN  CHOOSE b \in walk : \A c \in walk : Number[b] <= Number[c]

BranchKnowledge(f, id) ==
    LET end == BranchEnd(f, id)
        state == Handle(f, end)
    IN  IF state = "HighestFinalized" \/ (state = "Candidate" /\ f.vertices[end].imported)
        THEN [kind |-> "TopImported", id |-> end]
        ELSE IF state = "Candidate" THEN [kind |-> "LowestId", id |-> end]
        ELSE [kind |-> "None", id |-> id]

\* prepare_request_info and request_interest.
RequestInterest(f, id) ==
    IF \/ Handle(f, id) # "Candidate"
       \/ ~Requestable(f.vertices[id]) /\ id # f.highest_justified
       \/ BranchKnowledge(f, id).kind = "None"
    THEN "Uninterested"
    ELSE IF id = f.highest_justified THEN "HighestJustified"
    ELSE "Required"

ImportableId(f, id) == Handle(f, id) = "Candidate" /\ Importable(f.vertices[id])

Skippable(f, id) ==
    \/ Handle(f, id) \in {"BelowMinimal", "HighestFinalized"}
    \/ Handle(f, id) = "Candidate" /\ f.vertices[id].imported

ChildrenIn(S, p) == {b \in S : Parent[b] = p}

\* What a breadth first walk over the database leaves behind when it calls
\* update_body on every block of S, parents first, and none of the calls
\* fails: S is closed under parents down to the root.
MarkImported(f, S) ==
    LET ready == {b \in S : f.vertices[b].inner = "Justification"}
    IN  [f EXCEPT
            !.vertices = [b \in Blocks |->
                IF b \in S THEN WithChildren(InsertBody(@[b]), ChildrenIn(S, b)) ELSE @[b]],
            !.root_children = @ \cup ChildrenIn(S, f.root_id),
            !.justified_blocks =
                {b \in @ : \A c \in ready : Number[c] # Number[b]} \cup ready]

\* The blocks of a database above one of its blocks.
Above(db, root) == {b \in db : b # root /\ Descends(b, root)}

\* Forest::new on a database whose highest finalized block is root.
NewForest(root, db) ==
    MarkImported([vertices |-> [b \in Blocks |-> Absent],
                  highest_justified |-> root,
                  justified_blocks |-> {},
                  root_id |-> root,
                  root_children |-> {},
                  compost_bin |-> {}],
                 Above(db, root))

\* It fails when the database holds a block that is too new for the forest.
NewForestFails(root, db) ==
    \E b \in Above(db, root) : Number[b] > Number[root] + MaxDepth
=============================================================================
