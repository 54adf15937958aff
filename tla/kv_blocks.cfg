SPECIFICATION Spec
CONSTANTS
    r1 = r1
    r2 = r2
    r3 = r3
    d1 = d1
    Requests = {r1, r2, r3}
    Dummies = {d1}
    Prompt <- MCPrompt
    NumBlocks = 4
    BlockSize = 2
    NumReplicas = 2
    Sampled = {0}
    MaxLength = 6
    MaxClaims = 3
    CrossReplicaCopy = TRUE
INVARIANTS
    BlocksAccounted
    RequestsReadTheirOwn
    CacheIsTrue
    CacheIsReachable
    AssertsHold
PROPERTY
    LeftAsItWas
CHECK_DEADLOCK FALSE
