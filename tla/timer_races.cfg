SPECIFICATION FairSpec
CONSTANTS
    c1 = c1
    c2 = c2
    c3 = c3
    Chains <- Three
    Delays <- DelaysOfThree
    MaxClock = 2
    Punctual = FALSE
    MayBeReady <- One
    MayStop = TRUE
INVARIANTS
    RootIsEarliest
    EmplacedOnce
    ResultIsRight
    NothingLeftBehind
PROPERTIES
    CallsReturn
    StopReturns
CHECK_DEADLOCK FALSE
