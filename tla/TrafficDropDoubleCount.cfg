SPECIFICATION Spec
CONSTANTS
    ch1 = ch1  ch2 = ch2  alice = alice  bob = bob  k1 = k1  k2 = k2
    Chunks <- MCChunks
    Users <- MCUsers
    Owner <- MCOwner
    Conns <- MCConns
    NoConn = NoConn
    UpCap = 2
    DownCap = 1
    MaxDrops = 1
    MaxOverlaps = 1
    MaxTimeouts = 0
    MaxStalls = 0
    MaxAgentRestarts = 0
    MaxMidCollect = 0
    MaxWipes = 0
    MaxSaveErrors = 0
    MaxCounterLosses = 0
    MaxPanelRestarts = 0
    MaxDBErrors = 0
    MaxReassigns = 0
    MaxKinds = 9
SYMMETRY Symmetry
INVARIANTS NoDoubleCount
