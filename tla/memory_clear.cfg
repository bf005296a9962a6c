CONSTANTS
    r3 = r3
    c1 = c1
    c2 = c2
    p1 = p1
    p2 = p2
    p3 = p3
    p4 = p4
    i1 = i1
    i2 = i2
    AsyncRuns = {}
    SyncRuns = {}
    EliteRuns = {r3}
    Processes = {p1, p2, p3, p4}
    RunHost <- MCRunHost
    Clears = {c1, c2, c3}
    ClearHost <- MCClearHost
    OperationId <- MCOperationId
    NoOwner = NoOwner
    LeaseTime = 1
    Generations = 1
    Population = 1
    Activations = {}
    Deactivations = {}
SPECIFICATION Spec
INVARIANTS ControlTypeOK AuditsVerify ClearedDataIsRecoverable
PROPERTIES ImplementsSingleFlight
CHECK_DEADLOCK FALSE
