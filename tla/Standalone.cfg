SPECIFICATION FairSpec
CONSTANTS
    alice = alice  bob = bob  a1 = a1  a2 = a2  b1 = b1  p1 = p1  p2 = p2
    Commands <- MCCommands
    Boot = Boot
    Names <- MCNames
    Accounts <- MCAccounts
    Name <- MCName
    NoConfig = NoConfig
    MaxCommands = 3
    MaxKills = 1
    MaxDockers = 1
    MaxGrpcs = 1
    MaxXrays = 1
    MaxPersists = 1
    MaxOverlaps = 1
    MaxEvents = 2
INVARIANTS TypeOK NoLostUpdate AppliedAtRest BaselineTrue
PROPERTIES BootApplies
CHECK_DEADLOCK FALSE
