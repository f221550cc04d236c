SPECIFICATION BridgeSpec
CONSTANTS
    r1 = r1
    r2 = r2
    Requests = {r1, r2}
    Conversations <- MCConversations
    Chunks <- MCChunks
    MaxChunks = 3
INVARIANTS
    SilentAfterClose
    CallsAnswered
    BlocksWellFormed
PROPERTY
    CloseReturns
CHECK_DEADLOCK FALSE
