SPECIFICATION Spec
CONSTANTS
    a1 = a1
    a2 = a2
    w1 = w1
    w2 = w2
    m1 = m1
    u1 = u1
    u2 = u2
    None = None
    MailboxScopes <- NoScope
    AllScopes <- TwoUsers
    Apis <- OneApi
    Workers <- OneWorker
    Crashing <- Nobody
    MaxJobs = 2
    MaxRetries = 1
INVARIANTS
    RefusedForOwnScope
CHECK_DEADLOCK FALSE
