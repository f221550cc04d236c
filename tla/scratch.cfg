SPECIFICATION Spec
CONSTANTS
    p1 = p1
    p2 = p2
    t1 = t1
    t2 = t2
    t3 = t3
    None = None
    Blank = Blank
    Pads = {p1, p2}
    Tasks = {t1, t2}
    Failures = {"save", "delete", "editor"}
    MaxGen = 3
    MaxRevision = 3
INVARIANTS
    TypeOK
    PadsKeepTheirText
    PlaintextAccounted
PROPERTY
    StaleAnswersIgnored
SYMMETRY Symmetry
CHECK_DEADLOCK FALSE
