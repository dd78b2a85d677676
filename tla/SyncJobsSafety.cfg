SPECIFICATION Spec
CONSTANTS
    a1 = a1
    a2 = a2
    w1 = w1
    w2 = w2
    m1 = m1
    m2 = m2
    None = None
    Mailboxes <- OneMailbox
    Apis <- OneApi
    Workers <- TwoWorkers
    Crashing <- OneApiTwoWorkers
    MaxJobs = 3
    MaxRetries = 1
SYMMETRY WorkerSymmetry
INVARIANTS
    TypeOK
    SyncMutex
    LockCoversSync
    OrphansAreRetries
PROPERTIES
    LifeCycle
    SerialOnce
CHECK_DEADLOCK FALSE
