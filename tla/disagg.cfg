SPECIFICATION FairSpec
CONSTANTS
    r1 = r1
    r2 = r2
    Nobody = Nobody
    Requests = {r1, r2}
    Setups <- Scenarios
INVARIANTS
    DecodesOwnKV
    Accounted
    OneEnding
PROPERTIES
    EveryRequestEnds
    AllReturned
