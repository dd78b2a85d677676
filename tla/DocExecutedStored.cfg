SPECIFICATION Spec
CONSTANTS
    e1 = e1
    e2 = e2
    p1 = p1
    p2 = p2
    s = s
    None = None
    Emails <- OneEmail
    Marks <- OneMark
    Sync = s
    Crashing <- Nobody
    MaxToggles = 1
PROPERTIES
    ExecutedStored
CHECK_DEADLOCK FALSE
