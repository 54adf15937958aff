SPECIFICATION Spec
CONSTANTS
    f1 = f1
    ta = ta
    tb = tb
    tc = tc
    td = td
    NumWorkers = 2
    Foreign = {f1}
    Tasks <- FourTasks
    Setups <- Undrained
INVARIANTS
    DrainedAtShutdown
CHECK_DEADLOCK FALSE
