SPECIFICATION FairFenceSpec
CONSTANTS
    r1 = r1
    r2 = r2
    r3 = r3
    None = None
    Requests = {r1, r2, r3}
    Rotations = {r1, r2}
    MaxRequests = 2
INVARIANTS
    LoadBounded
    LockIsBarrier
    FenceHonoured
    NeverServedWithZeroKey
PROPERTIES
    LockReturns
    EveryRequestAnswered
CHECK_DEADLOCK FALSE
