SPECIFICATION FairSpec
CONSTANTS
    Kinds <- MCKinds
    BindAttempts = 1
    ReadAttempts = 1
    MaxDeferrals = 2
    StaleAfter = 1
    MaxCopies = 2
    MaxFailures = 1
INVARIANTS
    QueueFollowsTheClipboard
    HandledMeansCaptured
PROPERTIES
    EveryCopySettles
    RestartsEnd
CHECK_DEADLOCK FALSE
