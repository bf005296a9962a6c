CONSTANTS
    Events = {e1, e2}
    NoEvent = NoEvent
    Workers = {w1, w2}
    MaxAttempts = 2
    Lease = 1
    BaseBackoff = 1
    MaxBackoff = 1
    BatchLimit = 2
    MaxRequeues = 1
SPECIFICATION Spec
SYMMETRY OutboxSymmetry
INVARIANTS OutboxTypeOK DeliveredIsStored PublishedAtMostOnce PostsAreBounded
