SPECIFICATION Spec
CONSTANTS
    alice = alice  i1 = i1  i2 = i2  s1 = s1  s2 = s2
    Users <- MCUsers
    Ids <- MCOneId
    Settings <- MCOneSetting
    NoId = NoId
    NoConfig = NoConfig
    MaxChanges = 0
    MaxCerts = 0
    MaxGrpcFaults = 0
    MaxDockerFaults = 0
    MaxWriteErrors = 0
    MaxPersistErrors = 0
    MaxCrashes = 1
    MaxXrayRestarts = 0
    MaxKinds = 1
INVARIANTS UpdateSeamless
CHECK_DEADLOCK FALSE
