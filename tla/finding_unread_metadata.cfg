SPECIFICATION Spec
CONSTANTS
    Processes = {p1}
    Records = {r1}
    RecoveryFiles = {}
    MaxFresh = 2
    MaxBackups = 0
    Commands = {"mutate"}
    Faults = {"reread"}
    Installed <- MCSound
    None = None
PROPERTIES
    WritesReopen
CHECK_DEADLOCK FALSE
