CONSTANTS
    m1 = m1
    m2 = m2
    g1 = g1
    g2 = g2
    Workers = {w1, w2}
    MaxState = 2
    Decisions <- MCDecisions
    GateEvaluations <- MCGateEvaluations
    Certifications <- MCCertifications
    RegistryCommands <- MCRegistryCommands
    InitialCouncil = {m1, m2}
    InitialGuards <- MCGuards
    Executive = Executive
    Weight <- MCWeight
    Quorum = 1
    MaxRequests = 5
SPECIFICATION Spec
SYMMETRY WorkerSymmetry
INVARIANTS GovernanceTypeOK LogsVerify AdvancesAreEarned
CHECK_DEADLOCK FALSE
