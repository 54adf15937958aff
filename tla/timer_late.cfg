SPECIFICATION Spec
CONSTANTS
    c1 = c1
    c2 = c2
    c3 = c3
    Chains <- Two
    Delays <- DelaysOfTwo
    MaxClock = 4
    Punctual = TRUE
    MayBeReady <- Two
    MayStop = FALSE
INVARIANTS
    TriggeredOnTime
CHECK_DEADLOCK FALSE
