SPECIFICATION HSpec
CONSTANTS
    p1 = p1
    p2 = p2
    k1 = k1
    k2 = k2
    resolve = resolve
    rotate = rotate
    None = None
    Procs = {p1}
    Secrets = {k1, k2}
    Caps = {resolve}
    MaxBindings = 1
    MaxGrants = 2
INVARIANTS
    GrantPolicyJustified
PROPERTIES
    NeededPolicyKept
    AdministrativePolicyKept
CHECK_DEADLOCK FALSE
