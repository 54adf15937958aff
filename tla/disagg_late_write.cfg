SPECIFICATION Spec
CONSTANTS
    r1 = r1
    r2 = r2
    Nobody = Nobody
    Requests = {r1, r2}
    Setups <- OnlyCancelling
INVARIANT
    NoWriteToFreeBlocks
