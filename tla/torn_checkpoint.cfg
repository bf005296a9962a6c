CONSTANTS
    Tasks = {t1}
    NoTask = NoTask
    Durable = FALSE
    ReplayWindow = 2
    MaxSequence = 2
    Slots <- ClientSlots
    ReplayLimit = 2
    MaxRecoveryAttempts = 2
    Poison = {}
    Checkpointing = TRUE
    MaxHashing = 1
    Probing = FALSE
    SharedSocket = FALSE
    MaxQueue = 1
    MaxRestarts = 1
    OverlapRestart = FALSE
SPECIFICATION Spec
CHECK_DEADLOCK FALSE
INVARIANT NoSilentSkip
