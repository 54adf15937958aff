SPECIFICATION FairSpec
CONSTANTS
    f1 = f1
    ta = ta
    tb = tb
    tc = tc
    td = td
    NumWorkers = 2
    Foreign = {f1}
    Tasks <- FourTasks
    Setups <- ClientPools
INVARIANTS
    ItemsConserved
    AffinityKept
    SharedWorkIsSeen
    AffinityWorkIsSeen
    AwaitCountsExact
    AwaitsHonoured
PROPERTIES
    ClientsFinish
CHECK_DEADLOCK FALSE
