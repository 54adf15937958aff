SPECIFICATION FairSpec
CONSTANTS
    v1 = v1
    v2 = v2
    v3 = v3
    c1 = c1
    c2 = c2
    c3 = c3
    c4 = c4
    Null = Null
    Slots = 2
    Setups <- RaceAndChain
    AllProcs <- EveryProc
INVARIANTS
    PayloadIntact
    WaitersKept
    NodesAlive
    AliveWhenAccessed
    ResolvedToConcrete
PROPERTIES
    WaitersRun
    Reclaimed
CHECK_DEADLOCK FALSE
