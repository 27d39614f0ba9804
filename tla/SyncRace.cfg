SPECIFICATION FairSpec
CONSTANTS
    alice = alice  w1 = w1  w2 = w2  k1 = k1  k2 = k2  s1 = s1  s2 = s2
    Users <- MCUsers
    Settings <- MCOneSetting
    Workers <- MCWorkers
    Conns <- MCOneConn
    NoConn = NoConn
    NoConfig = NoConfig
    QueueCap = 1
    MaxChanges = 2
    MaxRaces = 1
    MaxDrops = 0
    MaxDBErrors = 0
    MaxRestarts = 0
    MaxStalls = 0
    MaxKinds = 1
PROPERTIES EventuallyConsistent
