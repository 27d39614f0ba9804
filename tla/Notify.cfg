SPECIFICATION FairSpec
CONSTANTS
    alice = alice  c1 = c1  c2 = c2
    Users <- MCUsers
    Conns <- MCConns
    NoConn = NoConn
    Grace = 1
    MaxConnects = 3
    MaxRestarts = 1
    MaxDBErrors = 1
    MaxFlips = 2
    MaxEvents = 2
INVARIANTS TypeOK Debounced
PROPERTIES OutageReported RecoveryReported LapseReported
CHECK_DEADLOCK FALSE
