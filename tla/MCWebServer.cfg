SPECIFICATION Spec
CONSTANTS
    p1 = p1
    p2 = p2
    p3 = p3
    None = None
    Peers <- MCPeers
    Browsers <- MCBrowsers
    Backlog = 2
    FileUnits = 1
    TxUnits = 1
    MaxLost = 1
INVARIANTS
    SocketsAreFreedOnce
    NobodyIsForgotten
PROPERTIES
    SlotComesBack
    RequestIsAnswered
