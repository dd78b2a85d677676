SPECIFICATION FairSpec
CONSTANTS
    a1 = a1
    a2 = a2
    w1 = w1
    w2 = w2
    m1 = m1
    m2 = m2
    None = None
    Mailboxes <- OneMailbox
    Apis <- TwoApis
    Workers <- TwoWorkers
    Crashing <- Nobody
    MaxJobs = 2
    MaxRetries = 1
PROPERTIES
    SessionsEnd
    QueuedMessageServed
CHECK_DEADLOCK FALSE
