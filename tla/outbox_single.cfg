CONSTANTS
    Events = {e1, e2}
    NoEvent = NoEvent
    Workers = {w1}
    MaxAttempts = 2
    Lease = 1
    BaseBackoff = 1
    MaxBackoff = 2
    BatchLimit = 1
    MaxRequeues = 1
SPECIFICATION Spec
INVARIANTS NoStrandedRow DeadLetterAtLimit
PROPERTIES AcknowledgedIsRecorded EventuallySettled ImplementsDelivery
