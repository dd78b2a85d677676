SPECIFICATION FairSpec
CONSTANTS
    p1 = p1
    p2 = p2
    NMailboxes = 2
    MaxDays = 2
    MaxNights = 1
    MaxEvents = 1
    Passes <- TwoPasses
INVARIANTS
    TypeOK
    NeverEarly
PROPERTIES
    OncePerDay
    EverybodyServed
