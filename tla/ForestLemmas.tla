---------------------------- MODULE ForestLemmas ----------------------------
(***************************************************************************)
(* What the methods of the forest preserve, for every block tree and every *)
(* depth: the lemmas that the proofs about the forest and about the        *)
(* handler that owns it rest on.                                           *)
(***************************************************************************)
EXTENDS Forest, TLAPS

\* The operators on vertices return vertices, vertex.rs.
LEMMA VertexTypes ==
    ASSUME NEW v \in Vertex
    PROVE  /\ Absent \in Vertex
           /\ NewVertex \in Vertex
           /\ InsertHeader(v) \in Vertex
           /\ InsertBody(v) \in Vertex
           /\ InsertJustification(v) \in Vertex
           /\ \A ids \in SUBSET Blocks : WithChildren(v, ids) \in Vertex
  BY ZenonT(30) DEF WithChildren, Vertex, Importance, Absent, NewVertex, InsertHeader, InsertBody, InsertJustification

\* Replacing one vertex keeps the type.
LEMMA SetVertexType ==
    ASSUME NEW f \in ForestType, NEW id \in Blocks, NEW v \in Vertex
    PROVE  [f EXCEPT !.vertices[id] = v] \in ForestType
  BY DEF ForestType

\* Pruning keeps the type, prune and prune_level.
LEMMA PruneType ==
    ASSUME NEW f \in ForestType, NEW R
    PROVE  Prune(f, R) \in ForestType
  <1>1. Absent \in Vertex
    BY DEF Vertex, Importance, Absent
  <1>2. Subtree(f, R) \subseteq Blocks
    BY SMTT(30) DEF Subtree, Present
  <1> QED
    BY <1>1, <1>2, Zenon DEF Prune, ForestType

LEMMA PruneLevelType ==
    ASSUME NEW f \in ForestType, NEW level
    PROVE  PruneLevel(f, level) \in ForestType
  <1> DEFINE R == {b \in Blocks : Number[b] <= level}
  <1>1. Prune(f, R) \in ForestType
    BY PruneType
  <1> HIDE DEF R
  <1>2. Prune(f, R) \in ForestType
    BY <1>1
  <1> QED
    BY <1>2, Zenon DEF PruneLevel, ForestType, R

\* set_required keeps the type.
LEMMA SetRequiredType ==
    ASSUME NEW f \in ForestType, NEW id
    PROVE  SetRequired(f, id) \in ForestType
  <1>1. \A b \in Blocks : /\ f.vertices[b] \in Vertex
                          /\ [f.vertices[b] EXCEPT !.importance = "Required"] \in Vertex
    BY DEF ForestType, Vertex, Importance
  <1>2. PICK S : SetRequired(f, id) = [f EXCEPT !.vertices = [b \in Blocks |->
                    IF b \in S THEN [f.vertices[b] EXCEPT !.importance = "Required"]
                    ELSE f.vertices[b]]]
    BY Zenon DEF SetRequired
  <1> QED
    BY <1>1, <1>2, SMTT(30) DEF ForestType

LEMMA SetExplicitlyRequiredType ==
    ASSUME NEW f \in ForestType, NEW id \in Blocks
    PROVE  SetExplicitlyRequired(f, id) \in ForestType
  <1> DEFINE marked == [f EXCEPT !.vertices[id].importance = "ExplicitlyRequired"]
  <1>1. marked \in ForestType
    <2>1. [f.vertices[id] EXCEPT !.importance = "ExplicitlyRequired"] \in Vertex
      BY DEF ForestType, Vertex, Importance
    <2>2. marked = [f EXCEPT !.vertices[id] =
                        [f.vertices[id] EXCEPT !.importance = "ExplicitlyRequired"]]
      BY DEF ForestType
    <2> QED BY <2>1, <2>2, SetVertexType
  <1>2. SetRequired(marked, Parent[id]) \in ForestType
    BY <1>1, SetRequiredType
  <1> QED
    BY <1>1, <1>2 DEF SetExplicitlyRequired

LEMMA InsertIdType ==
    ASSUME NEW f \in ForestType, NEW id \in Blocks
    PROVE  InsertId(f, id) \in ForestType
  BY Zenon DEF InsertId, ForestType, NewVertex, Absent, Vertex, Importance

LEMMA AddChildType ==
    ASSUME NEW f \in ForestType, NEW p \in Blocks, NEW id \in Blocks
    PROVE  AddChild(f, p, id) \in ForestType
  <1>1. f.vertices[p] \in Vertex
    BY DEF ForestType
  <1>2. WithChildren(f.vertices[p], {id}) \in Vertex
    BY <1>1, VertexTypes
  <1> QED
    BY <1>2, SetVertexType DEF AddChild

LEMMA ConnectParentType ==
    ASSUME NEW f \in ForestType, NEW id \in Blocks
    PROVE  ConnectParent(f, id) \in ForestType
  <1>1. Parent[id] \in Blocks
    BY BlockTree
  <1>2. AddChild(f, Parent[id], id) \in ForestType
    BY <1>1, AddChildType
  <1>3. SetRequired(AddChild(f, Parent[id], id), Parent[id]) \in ForestType
    BY <1>2, SetRequiredType
  <1>4. Prune(f, {id}) \in ForestType
    BY PruneType
  <1>5. [f EXCEPT !.root_children = @ \cup {id}] \in ForestType
    BY DEF ForestType
  <1> QED
    BY <1>2, <1>3, <1>4, <1>5 DEF ConnectParent

LEMMA UpdateHeaderType ==
    ASSUME NEW f \in ForestType, NEW id \in Blocks
    PROVE  UpdateHeader(f, id) \in ForestType
  <1> DEFINE inserted == InsertId(f, id)
             linked == [inserted EXCEPT !.vertices[id] = InsertHeader(@)]
  <1>1. inserted \in ForestType
    BY InsertIdType
  <1>2. inserted.vertices[id] \in Vertex
    BY <1>1 DEF ForestType
  <1>3. InsertHeader(inserted.vertices[id]) \in Vertex
    BY <1>2, VertexTypes
  <1>4. linked \in ForestType
    <2> HIDE DEF inserted
    <2> QED BY <1>1, <1>3 DEF ForestType
  <1>5. ConnectParent(linked, id) \in ForestType
    BY <1>4, ConnectParentType
  <1> QED
    BY <1>5 DEF UpdateHeader

LEMMA CacheType ==
    ASSUME NEW f \in ForestType, NEW id \in Blocks
    PROVE  CacheJustified(f, id) \in ForestType
  BY DEF CacheJustified, ForestType

LEMMA UpdateBodyType ==
    ASSUME NEW f \in ForestType, NEW id \in Blocks
    PROVE  UpdateBody(f, id) \in ForestType
  <1> DEFINE g == UpdateHeader(f, id)
             imported == [g EXCEPT !.vertices[id] = InsertBody(@)]
  <1>1. g \in ForestType
    BY UpdateHeaderType
  <1>2. InsertBody(g.vertices[id]) \in Vertex
    <2>1. g.vertices[id] \in Vertex
      BY <1>1 DEF ForestType
    <2> QED BY <2>1, VertexTypes
  <1>3. imported \in ForestType
    <2> HIDE DEF g
    <2> QED BY <1>1, <1>2 DEF ForestType
  <1>4. CacheJustified(imported, id) \in ForestType
    BY <1>3, CacheType
  <1> QED
    BY <1>1, <1>4 DEF UpdateBody

LEMMA UpdateJustificationType ==
    ASSUME NEW f \in ForestType, NEW id \in Blocks
    PROVE  UpdateJustification(f, id) \in ForestType
  <1> DEFINE g == UpdateHeader(f, id)
             inserted == [g EXCEPT !.vertices[id] = InsertJustification(@)]
             cached == CacheJustified(inserted, id)
  <1>1. g \in ForestType
    BY UpdateHeaderType
  <1>2. InsertJustification(g.vertices[id]) \in Vertex
    <2>1. g.vertices[id] \in Vertex
      BY <1>1 DEF ForestType
    <2> QED BY <2>1, VertexTypes
  <1>3. inserted \in ForestType
    <2> HIDE DEF g
    <2> QED BY <1>1, <1>2 DEF ForestType
  <1>4. cached \in ForestType
    BY <1>3, CacheType
  <1>5. [cached EXCEPT !.highest_justified = id] \in ForestType
    <2> HIDE DEF cached
    <2> QED BY <1>4 DEF ForestType
  <1> QED
    BY <1>1, <1>4, <1>5 DEF UpdateJustification

LEMMA FinalizeType ==
    ASSUME NEW f \in ForestType, NEW id \in Blocks
    PROVE  Finalize(f, id) \in ForestType
  <1> DEFINE moved == [f EXCEPT !.vertices[id] = Absent, !.root_id = id,
                                !.root_children = f.vertices[id].children]
  <1>1. moved \in ForestType
    BY Zenon DEF ForestType, Vertex, Importance, Absent
  <1>2. PruneLevel(moved, Number[id]) \in ForestType
    BY <1>1, PruneLevelType
  <1> QED
    BY <1>2 DEF Finalize

LEMMA MarkImportedType ==
    ASSUME NEW f \in ForestType, NEW S \in SUBSET Blocks
    PROVE  MarkImported(f, S) \in ForestType
  <1>1. \A b \in Blocks : f.vertices[b] \in Vertex
    BY DEF ForestType
  <1>2. \A b \in Blocks : InsertBody(f.vertices[b]) \in Vertex
    BY <1>1, VertexTypes
  <1> DEFINE ready == {b \in S : f.vertices[b].inner = "Justification"}
             vs == [b \in Blocks |->
                IF b \in S THEN WithChildren(InsertBody(f.vertices[b]), ChildrenIn(S, b))
                ELSE f.vertices[b]]
             js == {b \in f.justified_blocks : \A c \in ready : Number[c] # Number[b]} \cup ready
  <1>3. \A p : ChildrenIn(S, p) \in SUBSET Blocks
    BY DEF ChildrenIn
  <1>4. vs \in [Blocks -> Vertex]
    BY <1>1, <1>2, <1>3, VertexTypes, Zenon
  <1>5. js \in SUBSET Blocks
    BY DEF ForestType
  <1>6. MarkImported(f, S) = [f EXCEPT !.vertices = vs,
                                       !.root_children = @ \cup ChildrenIn(S, f.root_id),
                                       !.justified_blocks = js]
    BY Zenon DEF MarkImported
  <1> HIDE DEF vs, js
  <1> QED BY <1>3, <1>4, <1>5, <1>6, Zenon DEF ForestType

\* A fresh forest has the right type, Forest::new.
LEMMA NewForestType ==
    ASSUME NEW root \in Blocks, NEW db \in SUBSET Blocks
    PROVE  NewForest(root, db) \in ForestType
  <1> DEFINE empty == [vertices |-> [b \in Blocks |-> Absent],
                       highest_justified |-> root,
                       justified_blocks |-> {},
                       root_id |-> root,
                       root_children |-> {},
                       compost_bin |-> {}]
  <1>1. empty \in ForestType
    BY DEF ForestType, Absent, Vertex, Importance
  <1>2. Above(db, root) \in SUBSET Blocks
    BY DEF Above
  <1> QED
    BY <1>1, <1>2, MarkImportedType DEF NewForest

-----------------------------------------------------------------------------
(* The cache of finalizable blocks *)

\* Within reach of the root, as special_state sees it.
Near(f, b) ==
    Number[f.root_id] < Number[b] /\ Number[b] <= Number[f.root_id] + MaxDepth

Placed(f) == \A b \in Present(f) : Near(f, b) /\ b \notin f.compost_bin

\* A cached block that is no vertex any more was pruned, and insert_id refuses
\* it from then on: without this a pruned block could come back as an empty
\* vertex that the cache takes for a finalizable one.
Cached(f) ==
    \A b \in f.justified_blocks : JustifiedBlock(f.vertices[b]) \/ b \in f.compost_bin

Sound(f) == f \in ForestType /\ Placed(f) /\ Cached(f)

\* special_state and get, spelt out.
LEMMA HandleFacts ==
    ASSUME NEW f \in ForestType, NEW b \in Blocks
    PROVE  /\ SpecialState(f, b) = "None" <=> Near(f, b) /\ b \notin f.compost_bin
           /\ Handle(f, b) \in {"Candidate", "Unknown"} <=> SpecialState(f, b) = "None"
           /\ Handle(f, b) = "Candidate" => b \in Present(f)
           /\ Handle(f, b) = "Unknown" => b \notin Present(f)
  <1>1. Number[b] \in Nat /\ Number[f.root_id] \in Nat /\ MaxDepth \in Nat
    BY BlockTree, DepthPositive DEF ForestType
  <1>2. SpecialState(f, b) = "None" <=> Near(f, b) /\ b \notin f.compost_bin
    BY <1>1 DEF SpecialState, Near
  <1>3. SpecialState(f, b) \in {"None", "HighestFinalized", "BelowMinimal", "TooNew", "HopelessFork"}
    BY DEF SpecialState
  <1> QED
    BY <1>2, <1>3 DEF Handle, Present

\* Vertices may change and appear where special_state allows it, as long as
\* no imported and justified one stops being so.
LEMMA VerticesSound ==
    ASSUME NEW f, Sound(f), NEW vs \in [Blocks -> Vertex],
           \A b \in Blocks : vs[b].inner # "Absent" =>
                b \in Present(f) \/ SpecialState(f, b) = "None",
           \A b \in Blocks : JustifiedBlock(f.vertices[b]) => JustifiedBlock(vs[b])
    PROVE  Sound([f EXCEPT !.vertices = vs])
  <1> DEFINE h == [f EXCEPT !.vertices = vs]
  <1>1. h \in ForestType /\ f \in ForestType
    BY DEF Sound, ForestType
  <1>2. /\ h.vertices = vs /\ h.root_id = f.root_id /\ h.compost_bin = f.compost_bin
        /\ h.justified_blocks = f.justified_blocks
    BY DEF Sound, ForestType
  <1>3. Placed(h)
    BY <1>1, <1>2, HandleFacts DEF Sound, Placed, Present, Near
  <1>4. Cached(h)
    BY <1>1, <1>2 DEF Sound, Cached, ForestType
  <1> QED
    BY <1>1, <1>3, <1>4 DEF Sound

\* The same for a single vertex.
LEMMA VertexSound ==
    ASSUME NEW f, Sound(f), NEW id \in Blocks, NEW v \in Vertex,
           SpecialState(f, id) = "None" \/ id \in Present(f),
           JustifiedBlock(f.vertices[id]) => JustifiedBlock(v)
    PROVE  Sound([f EXCEPT !.vertices[id] = v])
  <1> DEFINE vs == [f.vertices EXCEPT ![id] = v]
  <1>1. f \in ForestType /\ f.vertices \in [Blocks -> Vertex]
    BY DEF Sound, ForestType
  <1>2. vs \in [Blocks -> Vertex]
    BY <1>1
  <1>3. \A b \in Blocks : vs[b].inner # "Absent" =>
            b \in Present(f) \/ SpecialState(f, b) = "None"
    BY <1>1 DEF Present
  <1>4. \A b \in Blocks : JustifiedBlock(f.vertices[b]) => JustifiedBlock(vs[b])
    BY <1>1
  <1>5. [f EXCEPT !.vertices[id] = v] = [f EXCEPT !.vertices = vs]
    BY <1>1 DEF ForestType
  <1> HIDE DEF vs
  <1> QED
    BY <1>2, <1>3, <1>4, <1>5, VerticesSound

LEMMA PruneSound ==
    ASSUME NEW f, Sound(f), NEW R
    PROVE  Sound(Prune(f, R))
  <1> DEFINE gone == Subtree(f, R)
             h == Prune(f, R)
  <1>1. f \in ForestType /\ h \in ForestType
    BY PruneType, SMTT(30) DEF Sound
  <1>2. /\ h.vertices = [b \in Blocks |-> IF b \in gone THEN Absent ELSE f.vertices[b]]
        /\ h.compost_bin = f.compost_bin \cup gone
        /\ h.root_id = f.root_id
        /\ h.justified_blocks = f.justified_blocks
    BY <1>1, Zenon DEF Prune, ForestType
  <1> HIDE DEF gone, h
  <1>3. Placed(h)
    BY <1>1, <1>2 DEF Sound, Placed, Present, Near, Absent
  <1>4. Cached(h)
    BY <1>1, <1>2 DEF Sound, Cached, ForestType
  <1> QED
    BY <1>1, <1>3, <1>4 DEF Sound, h

LEMMA SetRequiredSound ==
    ASSUME NEW f, Sound(f), NEW id
    PROVE  Sound(SetRequired(f, id))
  <1>1. f \in ForestType /\ f.vertices \in [Blocks -> Vertex]
    BY DEF Sound, ForestType
  <1>2. PICK S : SetRequired(f, id) = [f EXCEPT !.vertices = [b \in Blocks |->
                    IF b \in S THEN [f.vertices[b] EXCEPT !.importance = "Required"]
                    ELSE f.vertices[b]]]
    BY Zenon DEF SetRequired
  <1> DEFINE vs == [b \in Blocks |->
                    IF b \in S THEN [f.vertices[b] EXCEPT !.importance = "Required"]
                    ELSE f.vertices[b]]
  <1>3. \A b \in Blocks : LET w == [f.vertices[b] EXCEPT !.importance = "Required"]
                           IN  /\ w \in Vertex
                               /\ w.inner = f.vertices[b].inner
                               /\ w.imported = f.vertices[b].imported
    BY <1>1 DEF Vertex, Importance
  <1>4. vs \in [Blocks -> Vertex]
    BY <1>1, <1>3
  <1>5. \A b \in Blocks : /\ vs[b].inner = f.vertices[b].inner
                          /\ vs[b].imported = f.vertices[b].imported
    BY <1>1, <1>3
  <1> HIDE DEF vs
  <1>6. Sound([f EXCEPT !.vertices = vs])
    BY <1>4, <1>5, VerticesSound DEF Present, JustifiedBlock
  <1> QED
    BY <1>2, <1>6 DEF vs

LEMMA SetExplicitlyRequiredSound ==
    ASSUME NEW f, Sound(f), NEW id \in Blocks
    PROVE  Sound(SetExplicitlyRequired(f, id))
  <1> DEFINE v == [f.vertices[id] EXCEPT !.importance = "ExplicitlyRequired"]
             marked == [f EXCEPT !.vertices[id].importance = "ExplicitlyRequired"]
  <1>1. f \in ForestType /\ f.vertices[id] \in Vertex
    BY DEF Sound, ForestType
  <1>2. v \in Vertex /\ v.inner = f.vertices[id].inner /\ v.imported = f.vertices[id].imported
    BY <1>1 DEF Vertex, Importance
  <1>3. marked = [f EXCEPT !.vertices[id] = v]
    BY <1>1 DEF ForestType
  <1>4. ASSUME NewlyRequired(f, id) PROVE Sound(marked)
    <2>1. SpecialState(f, id) = "None"
      BY <1>1, <1>4, HandleFacts DEF NewlyRequired
    <2> HIDE DEF v, marked
    <2> QED BY <1>2, <1>3, <2>1, VertexSound DEF JustifiedBlock
  <1> HIDE DEF marked
  <1> QED
    BY <1>4, SetRequiredSound DEF SetExplicitlyRequired, marked

LEMMA InsertIdSound ==
    ASSUME NEW f, Sound(f), NEW id \in Blocks
    PROVE  Sound(InsertId(f, id))
  <1>1. f \in ForestType
    BY DEF Sound
  <1>2. CASE Handle(f, id) = "Unknown"
    <2>1. SpecialState(f, id) = "None" /\ f.vertices[id].inner = "Absent"
      BY <1>1, <1>2, HandleFacts DEF Present
    <2>2. Sound([f EXCEPT !.vertices[id] = NewVertex])
      <3>1. NewVertex \in Vertex
        BY Zenon DEF NewVertex, Absent, Vertex, Importance
      <3> QED BY <2>1, <3>1, VertexSound DEF JustifiedBlock
    <2> QED BY <1>2, <2>2 DEF InsertId
  <1> QED
    BY <1>2 DEF InsertId

LEMMA AddChildSound ==
    ASSUME NEW f, Sound(f), NEW p \in Blocks, NEW id \in Blocks,
           Handle(f, p) \in {"Candidate", "Unknown"}
    PROVE  Sound(AddChild(f, p, id))
  <1>1. f \in ForestType /\ f.vertices[p] \in Vertex
    BY DEF Sound, ForestType
  <1>2. SpecialState(f, p) = "None"
    BY <1>1, HandleFacts
  <1>3. WithChildren(f.vertices[p], {id}) \in Vertex
    BY <1>1, VertexTypes
  <1>4. JustifiedBlock(f.vertices[p]) => JustifiedBlock(WithChildren(f.vertices[p], {id}))
    BY <1>1 DEF JustifiedBlock, WithChildren, Vertex
  <1> QED
    BY <1>2, <1>3, <1>4, VertexSound DEF AddChild

LEMMA ConnectParentSound ==
    ASSUME NEW f, Sound(f), NEW id \in Blocks
    PROVE  Sound(ConnectParent(f, id))
  <1> DEFINE p == Parent[id]
  <1>1. f \in ForestType /\ p \in Blocks
    BY BlockTree DEF Sound
  <1>2. Sound([f EXCEPT !.root_children = @ \cup {id}])
    <2> DEFINE h == [f EXCEPT !.root_children = @ \cup {id}]
    <2>1. /\ h \in ForestType /\ h.vertices = f.vertices /\ h.root_id = f.root_id
          /\ h.compost_bin = f.compost_bin /\ h.justified_blocks = f.justified_blocks
      BY <1>1 DEF ForestType
    <2> HIDE DEF h
    <2>2. Sound(h)
      BY <2>1 DEF Sound, Placed, Cached, Near, Present
    <2> QED BY <2>2 DEF h
  <1>3. Sound(Prune(f, {id}))
    BY PruneSound
  <1>4. Handle(f, p) \in {"Candidate", "Unknown"} =>
            Sound(AddChild(f, p, id)) /\ Sound(SetRequired(AddChild(f, p, id), p))
    BY <1>1, AddChildSound, SetRequiredSound
  <1>5. Handle(f, p) \in {"Candidate", "Unknown", "HighestFinalized", "BelowMinimal",
                          "TooNew", "HopelessFork"}
    BY DEF Handle, SpecialState
  <1> QED
    BY <1>2, <1>3, <1>4, <1>5 DEF ConnectParent

LEMMA UpdateHeaderSound ==
    ASSUME NEW f, Sound(f), NEW id \in Blocks
    PROVE  Sound(UpdateHeader(f, id))
  <1> DEFINE inserted == InsertId(f, id)
             linked == [inserted EXCEPT !.vertices[id] = InsertHeader(@)]
  <1>1. Sound(inserted)
    BY InsertIdSound
  <1>2. ASSUME Handle(inserted, id) = "Candidate" PROVE Sound(linked)
    <2> DEFINE v == inserted.vertices[id]
    <2>1. inserted \in ForestType /\ v \in Vertex
      BY <1>1 DEF Sound, ForestType
    <2>2. SpecialState(inserted, id) = "None"
      BY <1>2, <2>1, HandleFacts
    <2>3. InsertHeader(v) \in Vertex /\ (JustifiedBlock(v) => JustifiedBlock(InsertHeader(v)))
      <3> HIDE DEF v
      <3> QED BY <2>1, VertexTypes DEF JustifiedBlock, InsertHeader
    <2> HIDE DEF inserted
    <2> QED BY <1>1, <2>2, <2>3, VertexSound
  <1>3. Handle(inserted, id) = "Candidate" => Sound(ConnectParent(linked, id))
    BY <1>2, ConnectParentSound
  <1> QED
    BY <1>3 DEF UpdateHeader

LEMMA CacheSound ==
    ASSUME NEW f, Sound(f), NEW id \in Blocks
    PROVE  Sound(CacheJustified(f, id))
  <1> DEFINE h == CacheJustified(f, id)
  <1>1. f \in ForestType /\ h \in ForestType
    BY CacheType DEF Sound
  <1>2. /\ h.vertices = f.vertices /\ h.root_id = f.root_id /\ h.compost_bin = f.compost_bin
        /\ h.justified_blocks \subseteq f.justified_blocks \cup {id}
        /\ id \in h.justified_blocks =>
                id \in f.justified_blocks \/ JustifiedBlock(f.vertices[id])
    BY <1>1 DEF CacheJustified, ForestType
  <1> HIDE DEF h
  <1>3. Sound(h)
    BY <1>1, <1>2 DEF Sound, Placed, Cached, Near, Present
  <1> QED BY <1>3 DEF h

LEMMA UpdateBodySound ==
    ASSUME NEW f, Sound(f), NEW id \in Blocks
    PROVE  Sound(UpdateBody(f, id))
  <1> DEFINE g == UpdateHeader(f, id)
             v == g.vertices[id]
             imported == [g EXCEPT !.vertices[id] = InsertBody(@)]
  <1>1. Sound(g) /\ g \in ForestType
    BY UpdateHeaderSound DEF Sound
  <1>2. v \in Vertex
    BY <1>1 DEF ForestType
  <1>3. BodyError(f, id) = "None" => Handle(g, id) = "Candidate"
    BY SMTT(30) DEF BodyError
  <1>4. InsertBody(v) \in Vertex /\ (JustifiedBlock(v) => JustifiedBlock(InsertBody(v)))
    <2> HIDE DEF v
    <2> QED BY <1>2, VertexTypes, Zenon DEF JustifiedBlock, InsertBody, Vertex
  <1>5. BodyError(f, id) = "None" => Sound(imported)
    <2>1. Handle(g, id) = "Candidate" => SpecialState(g, id) = "None"
      BY <1>1, HandleFacts
    <2> HIDE DEF g
    <2> QED BY <1>1, <1>3, <1>4, <2>1, VertexSound
  <1>6. BodyError(f, id) = "None" => Sound(CacheJustified(imported, id))
    BY <1>5, CacheSound
  <1> QED
    BY <1>1, <1>6 DEF UpdateBody

LEMMA UpdateJustificationSound ==
    ASSUME NEW f, Sound(f), NEW id \in Blocks
    PROVE  Sound(UpdateJustification(f, id))
  <1> DEFINE g == UpdateHeader(f, id)
             v == g.vertices[id]
             inserted == [g EXCEPT !.vertices[id] = InsertJustification(@)]
             cached == CacheJustified(inserted, id)
             highest == [cached EXCEPT !.highest_justified = id]
  <1>1. Sound(g) /\ g \in ForestType
    BY UpdateHeaderSound DEF Sound
  <1>2. v \in Vertex
    BY <1>1 DEF ForestType
  <1>3. /\ InsertJustification(v) \in Vertex
        /\ JustifiedBlock(v) => JustifiedBlock(InsertJustification(v))
    <2> HIDE DEF v
    <2> QED BY <1>2, VertexTypes, Zenon DEF JustifiedBlock, InsertJustification, Vertex
  <1>4. Handle(g, id) = "Candidate" => Sound(inserted)
    <2>1. Handle(g, id) = "Candidate" => SpecialState(g, id) = "None"
      BY <1>1, HandleFacts
    <2> HIDE DEF g
    <2> QED BY <1>1, <1>3, <2>1, VertexSound
  <1>5. Handle(g, id) = "Candidate" => Sound(cached)
    BY <1>4, CacheSound
  <1>6. Sound(cached) => Sound(highest)
    <2> HIDE DEF cached
    <2> SUFFICES ASSUME Sound(cached) PROVE Sound(highest)
      OBVIOUS
    <2>1. /\ highest \in ForestType /\ highest.vertices = cached.vertices
          /\ highest.root_id = cached.root_id /\ highest.compost_bin = cached.compost_bin
          /\ highest.justified_blocks = cached.justified_blocks
      BY DEF Sound, ForestType
    <2> HIDE DEF highest
    <2> QED BY <2>1 DEF Sound, Placed, Cached, Near, Present
  <1> QED
    BY <1>1, <1>5, <1>6, SMTT(30) DEF UpdateJustification

LEMMA FinalizeSound ==
    ASSUME NEW f, Sound(f), NEW id \in Present(f)
    PROVE  Sound(Finalize(f, id))
  <1> DEFINE moved == [f EXCEPT !.vertices[id] = Absent, !.root_id = id,
                                !.root_children = f.vertices[id].children]
             low == {b \in Blocks : Number[b] <= Number[id]}
             gone == Subtree(moved, low)
             h == Finalize(f, id)
  <1>1. f \in ForestType /\ id \in Blocks /\ h \in ForestType
    BY FinalizeType DEF Sound, Present
  <1>2. moved \in ForestType
    BY <1>1, Zenon DEF ForestType, Vertex, Importance, Absent
  <1>3. /\ moved.vertices = [f.vertices EXCEPT ![id] = Absent]
        /\ moved.root_id = id /\ moved.compost_bin = f.compost_bin
        /\ moved.justified_blocks = f.justified_blocks
    BY <1>1 DEF ForestType
  <1>4. low \cap Present(moved) \subseteq gone
    BY DEF Subtree
  <1>5. /\ h.vertices = [b \in Blocks |-> IF b \in gone THEN Absent ELSE moved.vertices[b]]
        /\ h.compost_bin = {b \in moved.compost_bin \cup gone : Number[b] > Number[id]}
        /\ h.root_id = moved.root_id
        /\ h.justified_blocks = {b \in moved.justified_blocks : Number[b] > Number[id]}
    <2> HIDE DEF moved
    <2> QED BY <1>2 DEF Finalize, PruneLevel, Prune, ForestType, moved
  <1>6. Number \in [Blocks -> Nat] /\ MaxDepth \in Nat
    BY BlockTree, DepthPositive
  <1>7. Number[f.root_id] < Number[id] /\ f.root_id \in Blocks
    BY <1>1 DEF Sound, Placed, Near, ForestType
  <1> HIDE DEF moved, gone, h
  <1>8. \A b \in Present(h) : /\ b \in Present(f) /\ b \in Blocks /\ b \notin gone
                              /\ Number[b] > Number[id]
    BY <1>1, <1>3, <1>4, <1>5, <1>6 DEF Present, Absent, ForestType
  <1>9. Placed(h)
    BY <1>1, <1>3, <1>5, <1>6, <1>7, <1>8 DEF Sound, Placed, Near
  <1>10. Cached(h)
    BY <1>1, <1>3, <1>5, <1>6 DEF Sound, Cached, ForestType
  <1> QED
    BY <1>1, <1>9, <1>10 DEF Sound, h

\* A proper ancestor has a smaller number, since every header's number is one
\* more than its parent's.
LEMMA AncestorBelow ==
    ASSUME NEW a \in Blocks, NEW b \in Blocks, Descends(b, a), a # b
    PROVE  Number[a] < Number[b]
  <1> DEFINE S == {b} \cup {c \in Blocks : Number[c] < Number[b]}
  <1>1. \A c \in Blocks : Parent[c] \in Blocks
                         /\ (Parent[c] = c \/ Number[Parent[c]] < Number[c])
    BY BlockTree
  <1>2. S \in SUBSET Blocks /\ b \in S /\ \A d \in S \cap Blocks : Parent[d] \in S
    BY <1>1, BlockTree
  <1>3. a \in S
    <2> HIDE DEF S
    <2> QED BY <1>2 DEF Descends, Ancestors, Climb
  <1> QED BY <1>3

LEMMA NewForestSound ==
    ASSUME NEW root \in Blocks, NEW db \in SUBSET Blocks, ~NewForestFails(root, db)
    PROVE  Sound(NewForest(root, db))
  <1> DEFINE f == NewForest(root, db)
             S == Above(db, root)
  <1>1. f \in ForestType /\ S \in SUBSET Blocks
    BY NewForestType DEF Above
  <1>2. /\ \A b \in Blocks : f.vertices[b].inner # "Absent" => b \in S
        /\ f.root_id = root /\ f.justified_blocks = {} /\ f.compost_bin = {}
    <2> HIDE DEF S
    <2> QED BY <1>1 DEF NewForest, MarkImported, Absent, S
  <1>3. \A b \in S : Number[root] < Number[b]
    BY AncestorBelow DEF Above
  <1>4. \A b \in S : Number[b] <= Number[root] + MaxDepth
    BY <1>1, BlockTree, DepthPositive DEF NewForestFails
  <1> HIDE DEF f, S
  <1>5. Placed(f) /\ Cached(f)
    BY <1>2, <1>3, <1>4 DEF Placed, Cached, Near, Present
  <1> QED BY <1>1, <1>5 DEF Sound, f

-----------------------------------------------------------------------------
(* Where what the forest knows comes from *)

\* What the forest takes for imported is in the database, and what it takes
\* for justified has a justification.
Backed(f, db) ==
    /\ f \in ForestType
    /\ \A b \in Blocks : /\ f.vertices[b].imported => b \in db
                         /\ f.vertices[b].inner = "Justification" => b \in Justifiable
    /\ f.justified_blocks \subseteq db \cap Justifiable

\* Vertices may change as long as they learn nothing that is not so.
LEMMA VerticesBacked ==
    ASSUME NEW db, NEW f, Backed(f, db), NEW h \in ForestType,
           h.justified_blocks \subseteq f.justified_blocks,
           \A b \in Blocks : h.vertices[b].imported => f.vertices[b].imported,
           \A b \in Blocks : h.vertices[b].inner = "Justification" =>
                                f.vertices[b].inner = "Justification"
    PROVE  Backed(h, db)
  BY Zenon DEF Backed

LEMMA VertexBacked ==
    ASSUME NEW db, NEW f, Backed(f, db), NEW id \in Blocks, NEW v \in Vertex,
           v.imported => id \in db,
           v.inner = "Justification" => id \in Justifiable
    PROVE  Backed([f EXCEPT !.vertices[id] = v], db)
  <1> DEFINE h == [f EXCEPT !.vertices[id] = v]
  <1>1. f \in ForestType /\ h \in ForestType
    BY SetVertexType DEF Backed
  <1>2. /\ h.vertices = [f.vertices EXCEPT ![id] = v]
        /\ h.justified_blocks = f.justified_blocks
        /\ f.vertices \in [Blocks -> Vertex]
    BY <1>1 DEF ForestType
  <1>3. h.vertices[id] = v /\ \A b \in Blocks \ {id} : h.vertices[b] = f.vertices[b]
    BY <1>2
  <1> HIDE DEF h
  <1>4. Backed(h, db)
    BY <1>1, <1>2, <1>3, Zenon DEF Backed
  <1> QED BY <1>4 DEF h

LEMMA PruneBacked ==
    ASSUME NEW db, NEW f, Backed(f, db), NEW R
    PROVE  Backed(Prune(f, R), db)
  <1> DEFINE gone == Subtree(f, R)
             h == Prune(f, R)
  <1>1. f \in ForestType /\ h \in ForestType
    BY PruneType, SMTT(30) DEF Backed
  <1>2. /\ h.vertices = [b \in Blocks |-> IF b \in gone THEN Absent ELSE f.vertices[b]]
        /\ h.justified_blocks = f.justified_blocks
    BY <1>1, Zenon DEF Prune, ForestType
  <1>3. Absent.imported = FALSE /\ Absent.inner # "Justification"
    BY DEF Absent
  <1> HIDE DEF gone, h
  <1>4. \A b \in Blocks : h.vertices[b] = Absent \/ h.vertices[b] = f.vertices[b]
    BY <1>2
  <1>5. \A b \in Blocks : /\ h.vertices[b].imported => f.vertices[b].imported
                          /\ h.vertices[b].inner = "Justification" =>
                                f.vertices[b].inner = "Justification"
    BY <1>3, <1>4, Zenon
  <1>6. Backed(h, db)
    BY <1>1, <1>2, <1>5, VerticesBacked
  <1> QED BY <1>6 DEF h

LEMMA SetRequiredBacked ==
    ASSUME NEW db, NEW f, Backed(f, db), NEW id
    PROVE  Backed(SetRequired(f, id), db)
  <1> DEFINE h == SetRequired(f, id)
  <1>1. f \in ForestType /\ f.vertices \in [Blocks -> Vertex] /\ h \in ForestType
    BY SetRequiredType DEF Backed, ForestType
  <1>2. PICK S : h = [f EXCEPT !.vertices = [b \in Blocks |->
                    IF b \in S THEN [f.vertices[b] EXCEPT !.importance = "Required"]
                    ELSE f.vertices[b]]]
    BY Zenon DEF SetRequired
  <1>3. \A b \in Blocks : LET w == [f.vertices[b] EXCEPT !.importance = "Required"]
                           IN  w.inner = f.vertices[b].inner /\ w.imported = f.vertices[b].imported
    BY <1>1 DEF Vertex
  <1> HIDE DEF h
  <1>4. \A b \in Blocks : /\ h.vertices[b].inner = f.vertices[b].inner
                          /\ h.vertices[b].imported = f.vertices[b].imported
    BY <1>1, <1>2, <1>3 DEF ForestType
  <1>5. h.justified_blocks = f.justified_blocks
    BY <1>1, <1>2 DEF ForestType
  <1>6. Backed(h, db)
    BY <1>1, <1>4, <1>5, VerticesBacked
  <1> QED BY <1>6 DEF h

LEMMA SetExplicitlyRequiredBacked ==
    ASSUME NEW db, NEW f, Backed(f, db), NEW id \in Blocks
    PROVE  Backed(SetExplicitlyRequired(f, id), db)
  <1> DEFINE v == [f.vertices[id] EXCEPT !.importance = "ExplicitlyRequired"]
             marked == [f EXCEPT !.vertices[id].importance = "ExplicitlyRequired"]
  <1>1. f \in ForestType /\ f.vertices[id] \in Vertex
    BY DEF Backed, ForestType
  <1>2. v \in Vertex /\ v.inner = f.vertices[id].inner /\ v.imported = f.vertices[id].imported
    BY <1>1 DEF Vertex, Importance
  <1>3. marked = [f EXCEPT !.vertices[id] = v]
    BY <1>1 DEF ForestType
  <1>4. (v.imported => id \in db) /\ (v.inner = "Justification" => id \in Justifiable)
    BY <1>2, Zenon DEF Backed
  <1> HIDE DEF v, marked
  <1>5. Backed(marked, db)
    BY <1>2, <1>3, <1>4, VertexBacked
  <1> QED
    BY <1>5, SetRequiredBacked DEF SetExplicitlyRequired, marked

LEMMA InsertIdBacked ==
    ASSUME NEW db, NEW f, Backed(f, db), NEW id \in Blocks
    PROVE  Backed(InsertId(f, id), db)
  <1>1. NewVertex \in Vertex /\ NewVertex.imported = FALSE /\ NewVertex.inner = "Empty"
    BY Zenon DEF NewVertex, Absent, Vertex, Importance
  <1> QED
    BY <1>1, VertexBacked DEF InsertId

LEMMA AddChildBacked ==
    ASSUME NEW db, NEW f, Backed(f, db), NEW p \in Blocks, NEW id \in Blocks
    PROVE  Backed(AddChild(f, p, id), db)
  <1> DEFINE v == f.vertices[p]
             w == WithChildren(v, {id})
  <1>1. v \in Vertex
    BY DEF Backed, ForestType
  <1>2. w \in Vertex
    BY <1>1, VertexTypes
  <1>3. w.imported = v.imported /\ (w.inner = "Justification" => v.inner = "Justification")
    <2> HIDE DEF v
    <2> QED BY <1>1 DEF WithChildren, Vertex
  <1>4. (v.imported => p \in db) /\ (v.inner = "Justification" => p \in Justifiable)
    BY Zenon DEF Backed
  <1>5. AddChild(f, p, id) = [f EXCEPT !.vertices[p] = w]
    BY DEF AddChild
  <1> HIDE DEF v, w
  <1> QED
    BY <1>2, <1>3, <1>4, <1>5, VertexBacked

LEMMA ConnectParentBacked ==
    ASSUME NEW db, NEW f, Backed(f, db), NEW id \in Blocks
    PROVE  Backed(ConnectParent(f, id), db)
  <1> DEFINE h == [f EXCEPT !.root_children = @ \cup {id}]
  <1>1. Parent[id] \in Blocks
    BY BlockTree
  <1>2. Backed(h, db)
    <2>1. /\ h \in ForestType /\ h.vertices = f.vertices
          /\ h.justified_blocks = f.justified_blocks
      BY DEF Backed, ForestType
    <2> HIDE DEF h
    <2> QED BY <2>1, VerticesBacked
  <1>3. Backed(Prune(f, {id}), db)
    BY PruneBacked
  <1>4. Backed(AddChild(f, Parent[id], id), db)
    BY <1>1, AddChildBacked
  <1>5. Backed(SetRequired(AddChild(f, Parent[id], id), Parent[id]), db)
    BY <1>4, SetRequiredBacked
  <1> QED
    BY <1>2, <1>3, <1>4, <1>5 DEF ConnectParent

LEMMA UpdateHeaderBacked ==
    ASSUME NEW db, NEW f, Backed(f, db), NEW id \in Blocks
    PROVE  Backed(UpdateHeader(f, id), db)
  <1> DEFINE inserted == InsertId(f, id)
             v == inserted.vertices[id]
             linked == [inserted EXCEPT !.vertices[id] = InsertHeader(@)]
  <1>1. Backed(inserted, db)
    BY InsertIdBacked
  <1> HIDE DEF inserted
  <1>2. v \in Vertex /\ (v.imported => id \in db) /\ (v.inner = "Justification" => id \in Justifiable)
    BY <1>1, Zenon DEF Backed, ForestType
  <1>3. /\ InsertHeader(v) \in Vertex /\ InsertHeader(v).imported = v.imported
        /\ InsertHeader(v).inner = "Justification" => v.inner = "Justification"
    <2> HIDE DEF v
    <2> QED BY <1>2, VertexTypes DEF InsertHeader, Vertex
  <1>4. linked = [inserted EXCEPT !.vertices[id] = InsertHeader(v)]
    BY <1>1 DEF Backed, ForestType
  <1> HIDE DEF v, linked
  <1>5. Backed(linked, db)
    BY <1>1, <1>2, <1>3, <1>4, VertexBacked
  <1>6. Backed(ConnectParent(linked, id), db)
    BY <1>5, ConnectParentBacked
  <1> QED
    BY <1>6 DEF UpdateHeader, linked, inserted

LEMMA CacheBacked ==
    ASSUME NEW db, NEW f, Backed(f, db), NEW id \in Blocks
    PROVE  Backed(CacheJustified(f, id), db)
  <1> DEFINE h == CacheJustified(f, id)
  <1>1. f \in ForestType /\ h \in ForestType
    BY CacheType DEF Backed
  <1>2. /\ h.vertices = f.vertices
        /\ h.justified_blocks \subseteq f.justified_blocks \cup {id}
        /\ id \in h.justified_blocks =>
                id \in f.justified_blocks \/ JustifiedBlock(f.vertices[id])
    BY <1>1 DEF CacheJustified, ForestType
  <1>3. JustifiedBlock(f.vertices[id]) => id \in db \cap Justifiable
    BY Zenon DEF Backed, JustifiedBlock
  <1>4. h.justified_blocks \subseteq db \cap Justifiable
    BY <1>2, <1>3 DEF Backed
  <1> HIDE DEF h
  <1>5. Backed(h, db)
    BY <1>1, <1>2, <1>4, Zenon DEF Backed
  <1> QED BY <1>5 DEF h

\* update_body is only called for blocks of the database.
LEMMA UpdateBodyBacked ==
    ASSUME NEW db, NEW f, Backed(f, db), NEW id \in Blocks \cap db
    PROVE  Backed(UpdateBody(f, id), db)
  <1> DEFINE g == UpdateHeader(f, id)
             v == g.vertices[id]
             imported == [g EXCEPT !.vertices[id] = InsertBody(@)]
  <1>1. Backed(g, db)
    BY UpdateHeaderBacked
  <1> HIDE DEF g
  <1>2. v \in Vertex /\ (v.inner = "Justification" => id \in Justifiable)
    BY <1>1, Zenon DEF Backed, ForestType
  <1>3. /\ InsertBody(v) \in Vertex
        /\ InsertBody(v).inner = "Justification" => v.inner = "Justification"
    <2> HIDE DEF v
    <2> QED BY <1>2, VertexTypes, Zenon DEF InsertBody, Vertex
  <1>4. imported = [g EXCEPT !.vertices[id] = InsertBody(v)]
    BY <1>1 DEF Backed, ForestType
  <1> HIDE DEF v, imported
  <1>5. Backed(imported, db)
    BY <1>1, <1>2, <1>3, <1>4, VertexBacked
  <1>6. Backed(CacheJustified(imported, id), db)
    BY <1>5, CacheBacked
  <1> QED
    BY <1>1, <1>6 DEF UpdateBody, imported, g

\* update_justification is only called with what the verifier accepts.
LEMMA UpdateJustificationBacked ==
    ASSUME NEW db, NEW f, Backed(f, db), NEW id \in Justifiable \cup {Genesis}
    PROVE  Backed(UpdateJustification(f, id), db)
  <1> DEFINE g == UpdateHeader(f, id)
             v == g.vertices[id]
             inserted == [g EXCEPT !.vertices[id] = InsertJustification(@)]
             cached == CacheJustified(inserted, id)
             highest == [cached EXCEPT !.highest_justified = id]
  <1>1. id \in Blocks
    BY JustifiedChain, BlockTree
  <1>2. Backed(g, db)
    BY <1>1, UpdateHeaderBacked
  <1>3. ASSUME id # Genesis
        PROVE  Backed(cached, db) /\ Backed(highest, db)
    <2> HIDE DEF g
    <2>1. v \in Vertex /\ (v.imported => id \in db)
      BY <1>1, <1>2, Zenon DEF Backed, ForestType
    <2>2. InsertJustification(v) \in Vertex /\ InsertJustification(v).imported = v.imported
      <3> HIDE DEF v
      <3> QED BY <2>1, VertexTypes, Zenon DEF InsertJustification, Vertex
    <2>3. inserted = [g EXCEPT !.vertices[id] = InsertJustification(v)]
      BY <1>2 DEF Backed, ForestType
    <2> HIDE DEF v, inserted
    <2>4. Backed(inserted, db)
      BY <1>1, <1>2, <1>3, <2>1, <2>2, <2>3, VertexBacked
    <2>5. Backed(cached, db)
      BY <1>1, <2>4, CacheBacked
    <2> HIDE DEF cached
    <2>6. /\ highest \in ForestType /\ highest.vertices = cached.vertices
          /\ highest.justified_blocks = cached.justified_blocks
      BY <1>1, <2>5 DEF Backed, ForestType
    <2> HIDE DEF highest
    <2> QED BY <2>5, <2>6, VerticesBacked
  <1>4. id = Genesis => UpdateJustification(f, id) = g
    BY DEF UpdateJustification, HeaderError
  <1>5. UpdateJustification(f, id) \in {g, cached, highest}
    BY DEF UpdateJustification
  <1> HIDE DEF g, cached, highest
  <1> QED
    BY <1>2, <1>3, <1>4, <1>5

LEMMA FinalizeBacked ==
    ASSUME NEW db, NEW f, Backed(f, db), NEW id \in Blocks
    PROVE  Backed(Finalize(f, id), db)
  <1> DEFINE moved == [f EXCEPT !.vertices[id] = Absent, !.root_id = id,
                                !.root_children = f.vertices[id].children]
             low == {b \in Blocks : Number[b] <= Number[id]}
             pruned == Prune(moved, low)
             h == Finalize(f, id)
  <1>1. f \in ForestType /\ h \in ForestType
    BY FinalizeType DEF Backed
  <1>2. moved \in ForestType
    BY <1>1, Zenon DEF ForestType, Vertex, Importance, Absent
  <1>3. /\ moved.vertices = [f.vertices EXCEPT ![id] = Absent]
        /\ moved.justified_blocks = f.justified_blocks
        /\ f.vertices \in [Blocks -> Vertex]
    BY <1>1 DEF ForestType
  <1> HIDE DEF moved
  <1>4. Backed(moved, db)
    <2>1. \A b \in Blocks : moved.vertices[b] = Absent \/ moved.vertices[b] = f.vertices[b]
      BY <1>3
    <2>2. Absent.imported = FALSE /\ Absent.inner # "Justification"
      BY DEF Absent
    <2>3. \A b \in Blocks : /\ moved.vertices[b].imported => f.vertices[b].imported
                            /\ moved.vertices[b].inner = "Justification" =>
                                  f.vertices[b].inner = "Justification"
      BY <2>1, <2>2, Zenon
    <2> QED BY <1>2, <1>3, <2>3, VerticesBacked
  <1>5. Backed(pruned, db)
    BY <1>4, PruneBacked
  <1> HIDE DEF pruned
  <1>6. h = [pruned EXCEPT !.compost_bin = {b \in @ : Number[b] > Number[id]},
                           !.justified_blocks = {b \in @ : Number[b] > Number[id]}]
    BY DEF Finalize, PruneLevel, pruned, low, moved
  <1>7. h.vertices = pruned.vertices /\ h.justified_blocks \subseteq pruned.justified_blocks
    BY <1>5, <1>6 DEF Backed, ForestType
  <1> HIDE DEF h
  <1>8. Backed(h, db)
    BY <1>1, <1>5, <1>7, VerticesBacked
  <1> QED BY <1>8 DEF h

\* Walks over the database only mark blocks of the database.
LEMMA MarkImportedBacked ==
    ASSUME NEW db, NEW f, Backed(f, db), NEW S \in SUBSET (Blocks \cap db)
    PROVE  Backed(MarkImported(f, S), db)
  <1> DEFINE h == MarkImported(f, S)
             ready == {b \in S : f.vertices[b].inner = "Justification"}
             body(b) == WithChildren(InsertBody(f.vertices[b]), ChildrenIn(S, b))
  <1>1. f \in ForestType /\ h \in ForestType
    BY MarkImportedType DEF Backed
  <1>2. /\ h.vertices = [b \in Blocks |-> IF b \in S THEN body(b) ELSE f.vertices[b]]
        /\ h.justified_blocks =
             {b \in f.justified_blocks : \A c \in ready : Number[c] # Number[b]} \cup ready
    BY <1>1, Zenon DEF MarkImported, ForestType
  <1>3. ready \subseteq db \cap Justifiable
    BY Zenon DEF Backed
  <1>4. h.justified_blocks \subseteq db \cap Justifiable
    BY <1>2, <1>3 DEF Backed
  <1>5. ASSUME NEW b \in Blocks
        PROVE  body(b).inner = "Justification" => f.vertices[b].inner = "Justification"
    <2> DEFINE v == f.vertices[b]
               w == InsertBody(v)
    <2>1. v \in Vertex
      BY <1>1 DEF ForestType
    <2> HIDE DEF v
    <2>2. w \in Vertex /\ (w.inner = "Justification" => v.inner = "Justification")
      BY <2>1, VertexTypes, Zenon DEF InsertBody, Vertex
    <2> HIDE DEF w
    <2>3. WithChildren(w, ChildrenIn(S, b)).inner = "Justification" => w.inner = "Justification"
      BY <2>2, Zenon DEF WithChildren, Vertex
    <2> QED BY <2>2, <2>3 DEF v, w
  <1> HIDE DEF h, ready, body
  <1>6. \A b \in Blocks : /\ b \in S => b \in db /\ h.vertices[b] = body(b)
                          /\ b \notin S => h.vertices[b] = f.vertices[b]
    BY <1>2
  <1>7. \A b \in Blocks : /\ h.vertices[b].imported => b \in db
                          /\ h.vertices[b].inner = "Justification" => b \in Justifiable
    BY <1>5, <1>6, Zenon DEF Backed
  <1>8. Backed(h, db)
    BY <1>1, <1>4, <1>7, Zenon DEF Backed
  <1> QED BY <1>8 DEF h

LEMMA NewForestBacked ==
    ASSUME NEW db \in SUBSET Blocks, NEW root \in Blocks
    PROVE  Backed(NewForest(root, db), db)
  <1> DEFINE empty == [vertices |-> [b \in Blocks |-> Absent],
                       highest_justified |-> root,
                       justified_blocks |-> {},
                       root_id |-> root,
                       root_children |-> {},
                       compost_bin |-> {}]
  <1>1. empty \in ForestType
    BY DEF ForestType, Absent, Vertex, Importance
  <1>2. \A b \in Blocks : empty.vertices[b] = Absent
    OBVIOUS
  <1>3. Absent.imported = FALSE /\ Absent.inner # "Justification"
    BY DEF Absent
  <1>4. empty.justified_blocks = {}
    OBVIOUS
  <1>5. NewForest(root, db) = MarkImported(empty, Above(db, root))
    BY DEF NewForest
  <1> HIDE DEF empty
  <1>6. Backed(empty, db)
    BY <1>1, <1>2, <1>3, <1>4, Zenon DEF Backed
  <1>7. Above(db, root) \in SUBSET (Blocks \cap db)
    BY DEF Above
  <1> QED
    BY <1>5, <1>6, <1>7, MarkImportedBacked

\* The database only grows.
LEMMA GrowingBacked ==
    ASSUME NEW db, NEW db2, db \subseteq db2, NEW f, Backed(f, db)
    PROVE  Backed(f, db2)
  BY Zenon DEF Backed
=============================================================================
