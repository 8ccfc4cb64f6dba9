\* Two threads, two lives of the process, every setting and every backend.
SPECIFICATION Spec
CONSTANTS
    t1 = t1
    t2 = t2
    Thread = {t1, t2}
    NoThread = NoThread
    MaxAttempts = 2
    MaxCalls = 4
    MaxLives = 2
INVARIANTS
    TypeOK
    AcknowledgedWritesKept
    LossIsAnnounced
PROPERTIES
    CallsAreAtomic
    EveryCallReturns
