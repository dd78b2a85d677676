SPECIFICATION FairSpec
CONSTANTS
    MaxMessages = 3
    PageSize = 1
    MaxRebuilds = 1
INVARIANTS
    TypeOK
    BatchDistinct
PROPERTIES
    StableIdentity
    CompleteSync
    SyncEnds
