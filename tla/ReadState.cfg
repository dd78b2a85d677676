SPECIFICATION FairSpec
CONSTANTS
    e1 = e1
    e2 = e2
    p1 = p1
    p2 = p2
    s = s
    None = None
    Emails <- OneEmail
    Marks <- TwoMarks
    Sync = s
    Crashing <- OneOfEach
    MaxToggles = 1
INVARIANTS
    TypeOK
    EffectAudited
PROPERTIES
    Converges
