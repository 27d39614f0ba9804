SPECIFICATION FairSpec
CONSTANTS
    ch1 = ch1  ch2 = ch2  alice = alice  bob = bob  k1 = k1  k2 = k2
    Chunks <- MCChunks
    Users <- MCUsers
    Owner <- MCOwner
    Conns <- MCConns
    NoConn = NoConn
    UpCap = 1
    DownCap = 1
    MaxDrops = 1
    MaxOverlaps = 0
    MaxTimeouts = 1
    MaxStalls = 1
    MaxAgentRestarts = 1
    MaxMidCollect = 0
    MaxWipes = 0
    MaxSaveErrors = 0
    MaxCounterLosses = 0
    MaxPanelRestarts = 1
    MaxDBErrors = 0
    MaxReassigns = 0
    MaxKinds = 1
PROPERTIES Delivered ImplementsLedger
CHECK_DEADLOCK FALSE
