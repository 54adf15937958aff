SPECIFICATION HistFairSpec
CONSTANTS
    p1 = p1
    p2 = p2
    c1 = c1
    c2 = c2
    x1 = x1
    x2 = x2
    NoItem = NoItem
    Producers <- TwoProducers
    Consumers <- TwoConsumers
    Items <- TwoItems
    ItemsOf <- OneEach
    Size = 2
    Word = 5
INVARIANTS
    CountersOrdered
    SlotsExclusive
    NoLostItem
    SettledWhenIdle
    RefusedOnlyWhenEmpty
PROPERTIES
    OwnersFinish
    IsFifoQueue
CHECK_DEADLOCK FALSE
