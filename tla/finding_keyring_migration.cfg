SPECIFICATION Spec
CONSTANTS
    Processes = {p1}
    Records = {r1}
    RecoveryFiles = {f1}
    MaxFresh = 2
    MaxBackups = 0
    Commands = {"require"}
    Faults = {"write", "sync"}
    Installed <- MCSound
    None = None
INVARIANTS
    Recoverable
CHECK_DEADLOCK FALSE
