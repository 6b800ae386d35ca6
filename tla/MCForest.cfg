SPECIFICATION Spec
CONSTANTS
    g0 = g0
    a1 = a1
    a2 = a2
    a3 = a3
    b1 = b1
    b2 = b2
    c2 = c2
    Blocks <- MCBlocks
    Genesis = g0
    Parent <- MCParent
    Number <- MCNumber
    Justifiable = {a1, a2, a3}
    MaxDepth = 2
INVARIANTS
    PresentAreCandidates
    LinkedToParent
    ImportedDownToRoot
    CacheNeverCorrupted
    CacheComplete
    CompostIsHopeless
    HighestJustifiedKept
