SPECIFICATION HSpec
CONSTANTS
    l1 = l1
    l2 = l2
    settings = settings
    catalog = catalog
    a = a
    b = b
    keys = keys
    rest = rest
    None = None
    Launches = {l1, l2}
    Files = {settings, catalog}
    Layers = {a, b}
    Parts = {keys, rest}
    Plans <- MCPlans
    MaxEdits = 2
INVARIANTS
    TypeOK
    EditsPreserved
PROPERTY
    RestoredExactly
CHECK_DEADLOCK FALSE
