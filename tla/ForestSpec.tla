----------------------------- MODULE ForestSpec -----------------------------
(***************************************************************************)
(* The forest as a component: any caller may use any public method of      *)
(* finality-aleph/src/sync/forest/mod.rs with any argument, in any order.  *)
(* The one thing assumed of the callers is what the verifier guarantees:   *)
(* justifications exist for the blocks of Justifiable only.                *)
(***************************************************************************)
EXTENDS Forest

VARIABLE forest

\* Forest::new, for every database that fits.
Init ==
    \E root \in Justifiable \cup {Genesis}, db \in SUBSET Blocks :
        /\ \A b \in db \ {root} : Parent[b] \in db
        /\ root \in db
        /\ ~NewForestFails(root, db)
        /\ forest = NewForest(root, db)

UpdateBlockIdentifierCall(id, required) ==
    /\ SpecialState(forest, id) # "TooNew"
    /\ LET f == InsertId(forest, id)
       IN  forest' = IF required THEN SetExplicitlyRequired(f, id) ELSE f

UpdateHeaderCall(id, required) ==
    /\ HeaderError(forest, id) = "None"
    /\ LET f == UpdateHeader(forest, id)
       IN  forest' = IF required THEN SetExplicitlyRequired(f, id) ELSE f

UpdateBodyCall(id) == forest' = UpdateBody(forest, id)

UpdateJustificationCall(id) == forest' = UpdateJustification(forest, id)

TryFinalizeCall(number) ==
    \E id \in FinalizeCandidates(forest, number) : forest' = Finalize(forest, id)

Next ==
    \/ \E id \in Blocks, required \in BOOLEAN : UpdateBlockIdentifierCall(id, required)
    \/ \E id \in Blocks, required \in BOOLEAN : UpdateHeaderCall(id, required)
    \/ \E id \in Blocks : UpdateBodyCall(id)
    \/ \E id \in Justifiable : UpdateJustificationCall(id)
    \/ \E id \in Blocks : TryFinalizeCall(Number[id])

Spec == Init /\ [][Next]_forest

-----------------------------------------------------------------------------
(* Type invariant: the forest is a forest. *)
TypeOK == forest \in ForestType

\* A vertex is a candidate: keys of `vertices` are never the root, at or
\* below it, out of reach, or in the compost bin.  This is why the `get` of
\* the code may look at the special states first.
PresentAreCandidates ==
    \A b \in Present(forest) : Handle(forest, b) = "Candidate"

\* Every vertex with a known parent hangs on that parent: the root lists it
\* in root_children, any other parent is a vertex that lists it as a child.
\* Pruning relies on these links to find whole branches.
LinkedToParent ==
    \A b \in Present(forest) : ParentKnown(forest.vertices[b]) =>
        LET p == Parent[b]
        IN  IF p = forest.root_id THEN b \in forest.root_children
            ELSE p \in Present(forest) /\ b \in forest.vertices[p].children

\* Imported vertices are connected to the root through imported vertices,
\* which is what TopImported promises to a peer (data.rs:81-84).
ImportedDownToRoot ==
    \A b \in Present(forest) : forest.vertices[b].imported =>
        /\ ParentKnown(forest.vertices[b])
        /\ Parent[b] = forest.root_id \/ forest.vertices[Parent[b]].imported

\* try_finalize never panics: a block in the justified_blocks cache that is
\* still a vertex is imported and has a justification (mod.rs:448-456).
CacheNeverCorrupted ==
    \A b \in forest.justified_blocks \cap Present(forest) :
        JustifiedBlock(forest.vertices[b])

\* The cache misses nothing: an imported vertex with a justification can be
\* finalized by asking for its number.
CacheComplete ==
    \A b \in Present(forest) : JustifiedBlock(forest.vertices[b]) =>
        b \in FinalizeCandidates(forest, Number[b])

\* The compost bin only holds blocks that can never be finalized: none of
\* them descends from the root.
CompostIsHopeless ==
    \A b \in forest.compost_bin : ~Descends(b, forest.root_id)

\* The highest justified block is the root or still a vertex with its
\* justification, so the node never forgets what it has to catch up with.
HighestJustifiedKept ==
    \/ forest.highest_justified = forest.root_id
    \/ forest.vertices[forest.highest_justified].inner = "Justification"

=============================================================================
