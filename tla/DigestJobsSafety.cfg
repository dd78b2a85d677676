SPECIFICATION Spec
CONSTANTS
    a1 = a1
    a2 = a2
    w1 = w1
    w2 = w2
    m1 = m1
    u1 = u1
    u2 = u2
    None = None
    MailboxScopes <- OneMailbox
    AllScopes <- NoScope
    Apis <- OneApi
    Workers <- TwoWorkers
    Crashing <- OneApiTwoWorkers
    MaxJobs = 3
    MaxRetries = 1
SYMMETRY WorkerSymmetry
INVARIANTS
    TypeOK
    OneGenerator
    CurrentIsLatest
    SucceededHasDigest
PROPERTIES
    VersionedHistory
CHECK_DEADLOCK FALSE
