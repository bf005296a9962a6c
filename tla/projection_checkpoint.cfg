CONSTANTS
    Tasks = {t1}
    NoTask = NoTask
    Durable = TRUE
    ReplayWindow = 2
    MaxSequence = 3
    Slots <- ClientSlots
    ReplayLimit = 2
    MaxRecoveryAttempts = 2
    Poison = {}
    Checkpointing = TRUE
    MaxHashing = 1
    Probing = FALSE
    SharedSocket = FALSE
    MaxQueue = 1
    MaxRestarts = 2
    OverlapRestart = FALSE
SPECIFICATION Spec
CHECK_DEADLOCK FALSE
INVARIANTS StateIsOrderedFold GuardAgreesWithTracker ConsistencySkipsOnlyHoles
