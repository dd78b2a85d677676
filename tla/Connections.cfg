SPECIFICATION Spec
CONSTANTS
    u1 = u1
    u2 = u2
    s1 = s1
    s2 = s2
    b1 = b1
    r1 = r1
    r2 = r2
    g1 = g1
    i1 = i1
    i2 = i2
    a1 = a1
    a2 = a2
    a3 = a3
    None = None
    Users <- TwoUsers
    Sessions <- TwoSessions
    Browsers <- OneBrowser
    Requests <- TwoRequests
    GmailAccounts <- OneGmail
    ImapAccounts <- TwoServers
    GmailAddresses <- OneAddress
    ImapAddresses <- TwoAddresses
    MaxMailboxes = 1
    MaxFlows = 1
SYMMETRY Symmetric
INVARIANTS
    TypeOK
    RegisteredOnce
    GrantedByOwner
    AddressOnce
PROPERTIES
    RevokedForever
    QuietConnectWorks
    QuietDisconnectForgets
CHECK_DEADLOCK FALSE
