SPECIFICATION FairSpec
CONSTANTS
    Images <- TwoImages
    MaxAttempts = 2
    MaxRequests = 1
    MaxFaults = 1
INVARIANTS
    ProcessingIsOwned
    AttemptsBounded
PROPERTIES
    EveryImageSettles
CHECK_DEADLOCK FALSE
