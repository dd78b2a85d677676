SPECIFICATION ReviewSpec
CONSTANTS
    m1 = m1
    m2 = m2
    e1 = e1
    e2 = e2
    e3 = e3
    x1 = x1
    x2 = x2
    None = None
    Mailboxes <- TwoMailboxes
    Emails <- ThreeEmails
    MailboxOf <- TwoAndOne
    ExternalIds <- TwoIds
    MaxProviders = 2
    MaxTries = 2
    MaxItems = 2
    OtherMailbox = m2
    MaxActions = 1
SYMMETRY Symmetry
INVARIANTS
    ReviewTypeOK
    ItemsInScope
    AllProvidersTried
    ActionsAgree
    ItemsActionable
PROPERTIES
    ParserMeetsSchema
CHECK_DEADLOCK FALSE
