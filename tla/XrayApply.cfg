SPECIFICATION FairSpec
CONSTANTS
    alice = alice  i1 = i1  i2 = i2  s1 = s1  s2 = s2
    Users <- MCUsers
    Ids <- MCIds
    Settings <- MCSettings
    NoId = NoId
    NoConfig = NoConfig
    MaxChanges = 1
    MaxCerts = 1
    MaxGrpcFaults = 1
    MaxDockerFaults = 1
    MaxWriteErrors = 1
    MaxPersistErrors = 1
    MaxCrashes = 1
    MaxXrayRestarts = 1
    MaxKinds = 3
INVARIANTS TypeOK BaselineTrue UsersApplyLive RecordedIsRunning
 
CHECK_DEADLOCK FALSE
