SPECIFICATION Spec
CONSTANTS
    Processes = {p1, p2}
    Records = {r1, r2}
    RecoveryFiles = {f1, f2}
    MaxFresh = 3
    MaxBackups = 1
    Commands = {"mutate", "session", "init", "rekey", "preserve", "upgrade", "backup",
                "enable", "require", "recover"}
    Faults = {"write", "config", "keyring"}
    Installed <- MCInstalled
    None = None
SYMMETRY Symmetric
INVARIANTS
    Recoverable
PROPERTIES
    ImplementsVaultContents
    WritesReopen
    RepairsAreBackedUp
