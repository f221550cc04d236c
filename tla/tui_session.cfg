SPECIFICATION Spec
CONSTANTS
    t1 = t1
    t2 = t2
    t3 = t3
    None = None
    Tasks = {t1, t2}
    MaxGen = 3
    MaxRequests = 3
    Screens = {"launch", "access", "other"}
INVARIANTS
    OverlaysAccounted
    LockedShowsNothing
    WaitsEnd
PROPERTY
    ResultsFenced
SYMMETRY Symmetry
CHECK_DEADLOCK FALSE
