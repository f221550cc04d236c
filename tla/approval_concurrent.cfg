SPECIFICATION HSpec
CONSTANTS
    p1 = p1
    p2 = p2
    k1 = k1
    k2 = k2
    resolve = resolve
    rotate = rotate
    None = None
    Procs = {p1, p2}
    Secrets = {k1}
    Caps = {resolve}
    MaxBindings = 2
    MaxGrants = 2
SYMMETRY Symmetric
INVARIANTS
    MetadataConsistent
PROPERTIES
    ImplementsGrantLifecycle
CHECK_DEADLOCK FALSE
