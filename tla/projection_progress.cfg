CONSTANTS
    Tasks = {t1, t2}
    NoTask = NoTask
    Durable = TRUE
    ReplayWindow = 2
    MaxSequence = 1
    Slots <- ClientSlots
    ReplayLimit = 2
    MaxRecoveryAttempts = 1
    Poison = {1}
    Checkpointing = TRUE
    MaxHashing = 1
    Probing = TRUE
    SharedSocket = TRUE
    MaxQueue = 1
    MaxRestarts = 1
    OverlapRestart = FALSE
SPECIFICATION Spec
CHECK_DEADLOCK FALSE
INVARIANTS DispatcherTypeOK SequenceOrderIsPersistOrder AnnouncedIsPersisted
PROPERTIES StartSettles LockIsReleased
