SPECIFICATION FairSpec
CONSTANTS
    f1 = f1
    ta = ta
    tb = tb
    tc = tc
    td = td
    NumWorkers = 2
    Foreign = {f1}
    Tasks <- FourTasks
    Setups <- Stranding
PROPERTIES
    AwaitReturns
CHECK_DEADLOCK FALSE
