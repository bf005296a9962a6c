CONSTANTS
    r3 = r3
    c1 = c1
    c2 = c2
    p1 = p1
    p2 = p2
    p3 = p3
    p4 = p4
    i1 = i1
    i2 = i2
    AsyncRuns = {r1}
    SyncRuns = {r2}
    EliteRuns = {}
    Processes = {p1, p2}
    RunHost <- MCRunHost
    Clears = {}
    ClearHost <- MCClearHost
    OperationId <- MCOperationId
    NoOwner = NoOwner
    LeaseTime = 1
    Generations = 2
    Population = 1
    Activations = {a1, a2}
    Deactivations = {d1}
SPECIFICATION FairSpec
INVARIANTS AuditsVerify WorkersOwnTheLease HeartbeatFindsOwnLease RecoverySparesLiveRuns
PROPERTIES LeaseIsReturned KillSwitchStopsRuns
CHECK_DEADLOCK FALSE
