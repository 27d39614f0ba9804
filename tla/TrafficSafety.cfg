SPECIFICATION Spec
CONSTANTS
    ch1 = ch1  ch2 = ch2  alice = alice  bob = bob  k1 = k1  k2 = k2
    Chunks <- MCChunks
    Users <- MCUsers
    Owner <- MCOwner
    Conns <- MCConns
    NoConn = NoConn
    UpCap = 1
    DownCap = 1
    MaxDrops = 1
    MaxOverlaps = 1
    MaxTimeouts = 0
    MaxStalls = 0
    MaxAgentRestarts = 1
    MaxMidCollect = 1
    MaxWipes = 1
    MaxSaveErrors = 1
    MaxCounterLosses = 1
    MaxPanelRestarts = 1
    MaxDBErrors = 1
    MaxReassigns = 1
    MaxKinds = 2
SYMMETRY Symmetry
CONSTRAINT NoLossFault
INVARIANTS TypeOK NoLoss DuplicateIsSettled AtMostOnce
