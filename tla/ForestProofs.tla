---------------------------- MODULE ForestProofs ----------------------------
(***************************************************************************)
(* Proofs about the forest, for every block tree, every depth and any      *)
(* number of calls.                                                        *)
(***************************************************************************)
EXTENDS ForestSpec, ForestLemmas

\* The forest is always a forest: every public method keeps its type, on
\* every block tree and from every database it starts from.
THEOREM TypeCorrect == Spec => []TypeOK
  <1>1. Init => TypeOK
    BY NewForestType, BlockTree, JustifiedChain DEF Init, TypeOK
  <1>2. TypeOK /\ [Next]_forest => TypeOK'
    <2> SUFFICES ASSUME TypeOK, [Next]_forest PROVE TypeOK'
      OBVIOUS
    <2>1. ASSUME NEW id \in Blocks, NEW required \in BOOLEAN,
                 UpdateBlockIdentifierCall(id, required)
          PROVE  TypeOK'
      BY <2>1, InsertIdType, SetExplicitlyRequiredType DEF UpdateBlockIdentifierCall, TypeOK
    <2>2. ASSUME NEW id \in Blocks, NEW required \in BOOLEAN, UpdateHeaderCall(id, required)
          PROVE  TypeOK'
      BY <2>2, UpdateHeaderType, SetExplicitlyRequiredType DEF UpdateHeaderCall, TypeOK
    <2>3. ASSUME NEW id \in Blocks, UpdateBodyCall(id) PROVE TypeOK'
      BY <2>3, UpdateBodyType DEF UpdateBodyCall, TypeOK
    <2>4. ASSUME NEW id \in Justifiable, UpdateJustificationCall(id) PROVE TypeOK'
      BY <2>4, UpdateJustificationType, JustifiedChain DEF UpdateJustificationCall, TypeOK
    <2>5. ASSUME NEW n, TryFinalizeCall(n) PROVE TypeOK'
      BY <2>5, FinalizeType DEF TryFinalizeCall, FinalizeCandidates, Present, TypeOK
    <2>6. CASE UNCHANGED forest
      BY <2>6 DEF TypeOK
    <2> QED
      BY <2>1, <2>2, <2>3, <2>4, <2>5, <2>6 DEF Next
  <1> QED
    BY <1>1, <1>2, PTL DEF Spec

\* The inductive invariant behind the two theorems below.
LEMMA SoundAlways == Spec => []Sound(forest)
  <1>1. Init => Sound(forest)
    BY NewForestSound, BlockTree, JustifiedChain DEF Init
  <1>2. Sound(forest) /\ [Next]_forest => Sound(forest)'
    <2> SUFFICES ASSUME Sound(forest), [Next]_forest PROVE Sound(forest')
      OBVIOUS
    <2>1. ASSUME NEW id \in Blocks, NEW required \in BOOLEAN,
                 UpdateBlockIdentifierCall(id, required)
          PROVE  Sound(forest')
      BY <2>1, InsertIdSound, SetExplicitlyRequiredSound DEF UpdateBlockIdentifierCall
    <2>2. ASSUME NEW id \in Blocks, NEW required \in BOOLEAN, UpdateHeaderCall(id, required)
          PROVE  Sound(forest')
      BY <2>2, UpdateHeaderSound, SetExplicitlyRequiredSound DEF UpdateHeaderCall
    <2>3. ASSUME NEW id \in Blocks, UpdateBodyCall(id) PROVE Sound(forest')
      BY <2>3, UpdateBodySound DEF UpdateBodyCall
    <2>4. ASSUME NEW id \in Justifiable, UpdateJustificationCall(id) PROVE Sound(forest')
      BY <2>4, UpdateJustificationSound, JustifiedChain DEF UpdateJustificationCall
    <2>5. ASSUME NEW n, TryFinalizeCall(n) PROVE Sound(forest')
      BY <2>5, FinalizeSound DEF TryFinalizeCall, FinalizeCandidates
    <2>6. CASE UNCHANGED forest
      BY <2>6
    <2> QED
      BY <2>1, <2>2, <2>3, <2>4, <2>5, <2>6 DEF Next
  <1> QED
    BY <1>1, <1>2, PTL DEF Spec

\* try_finalize never meets a corrupted cache: its panic at mod.rs:456 cannot
\* happen, whatever the callers of the forest do.
THEOREM CacheSafe == Spec => []CacheNeverCorrupted
  <1>1. Sound(forest) => CacheNeverCorrupted
    BY DEF Sound, Placed, Cached, CacheNeverCorrupted, Present
  <1> QED
    BY <1>1, SoundAlways, PTL

\* The keys of `vertices` are exactly what `get` calls candidates: none of them
\* is ever the root, at or below it, too new or a hopeless fork.
THEOREM CandidatesOnly == Spec => []PresentAreCandidates
  <1>1. Sound(forest) => PresentAreCandidates
    BY HandleFacts DEF Sound, Placed, PresentAreCandidates, Present, Handle
  <1> QED
    BY <1>1, SoundAlways, PTL
=============================================================================
