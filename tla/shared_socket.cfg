CONSTANTS
    Tasks = {t1}
    NoTask = NoTask
    Durable = FALSE
    ReplayWindow = 2
    MaxSequence = 2
    Slots <- ClientSlots
    ReplayLimit = 2
    MaxRecoveryAttempts = 2
    Poison = {}
    Checkpointing = FALSE
    MaxHashing = 1
    Probing = FALSE
    SharedSocket = TRUE
    MaxQueue = 1
    MaxRestarts = 0
    OverlapRestart = FALSE
SPECIFICATION Spec
CHECK_DEADLOCK FALSE
INVARIANT OnlyOwnStream
