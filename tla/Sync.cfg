SPECIFICATION FairSpec
CONSTANTS
    alice = alice  w1 = w1  w2 = w2  k1 = k1  k2 = k2  s1 = s1  s2 = s2
    Users <- MCUsers
    Settings <- MCSettings
    Workers <- MCOneWorker
    Conns <- MCConns
    NoConn = NoConn
    NoConfig = NoConfig
    QueueCap = 1
    MaxChanges = 1
    MaxRaces = 0
    MaxDrops = 1
    MaxDBErrors = 1
    MaxRestarts = 1
    MaxStalls = 1
    MaxKinds = 2
INVARIANTS TypeOK OpenIsRegistered SyncedMeansSent
PROPERTIES EventuallyConsistent
