CONSTANTS
    Tasks = {t1}
    NoTask = NoTask
    Durable = TRUE
    ReplayWindow = 2
    MaxSequence = 2
    Slots <- ClientSlots
    ReplayLimit = 2
    MaxRecoveryAttempts = 2
    Poison = {}
    Checkpointing = FALSE
    MaxHashing = 1
    Probing = FALSE
    SharedSocket = FALSE
    MaxQueue = 1
    MaxRestarts = 0
    OverlapRestart = FALSE
SPECIFICATION Spec
CHECK_DEADLOCK FALSE
INVARIANT SnapshotNamesLastEvent
