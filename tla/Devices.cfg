SPECIFICATION FairSpec
CONSTANTS
    alice = alice  ip = ip  i1 = i1  i2 = i2  c1 = c1  c2 = c2
    Users <- MCUsers
    IPs <- MCIPs
    Inodes <- MCInodes
    Conns <- MCConns
    NoConn = NoConn
    Skew = 1
    Active = 0
    Retention = 1
    MaxTime = 3
    UpCap = 1
    MaxLines = 2
    MaxWrites = 3
    Budget <- MCBudget
    MaxEvents = 1
INVARIANTS TypeOK AtMostOnce NoGhostClients
PROPERTIES SweepHidesNothing Reported
CHECK_DEADLOCK FALSE
