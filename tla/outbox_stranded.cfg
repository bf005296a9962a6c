CONSTANTS
    Events = {e1}
    NoEvent = NoEvent
    Workers = {w1, w2}
    MaxAttempts = 2
    Lease = 1
    BaseBackoff = 1
    MaxBackoff = 1
    BatchLimit = 1
    MaxRequeues = 0
SPECIFICATION Spec
INVARIANT NoStrandedRow
