SPECIFICATION Spec
CONSTANTS
    a = a
    b = b
    k1 = k1
    n1 = n1
    tui = tui
    cli = cli
    Slugs = {a, b}
    Defaults = {a}
    Families <- NoFamilies
    Keys = {k1}
    Names = {n1}
    Processes = {tui, cli}
    Tui = tui
    Commands <- MCCommands
    Default = b
    Blank = Blank
    Missing = Missing
    Unused = Unused
    None = None
INVARIANTS
    TypeOK
    KeysHaveProviders
PROPERTIES
    RemovedUnused
    NothingUndone
CHECK_DEADLOCK FALSE
