SPECIFICATION FairSpec
CONSTANTS
    n1 = n1  h1 = h1
    Nodes <- MCOneNode
    Handlers <- MCOneHandler
    Bot = Bot
    ResetLoop = ResetLoop
    EnforceLoop = EnforceLoop
    NoNode = NoNode
    Month = 2
    Limits <- MCLimits
    Expiries <- MCExpiries
    ResetDays <- MCResetDays
    MaxTime = 3
    MaxTraffic = 1
    MaxOps = 2
    MaxRestarts = 1
    MaxDBErrors = 1
    MaxSyncs = 2
    MaxNodeDeletes = 1
    MaxEvents = 2
INVARIANTS TypeOK BreakdownAddsUp ResetOncePerMonth
PROPERTIES Enforced ResetHappens
CHECK_DEADLOCK FALSE
