SPECIFICATION FairSpec
CONSTANTS
    Capacity = 3
    MaxBytes = 3
    Sizes <- MCSizes
    MaxSends = 4
INVARIANTS
    Bounded
    ClearNotLost
PROPERTIES
    EvictsOnlyUnderPressure
    NoLostWakeUp
CHECK_DEADLOCK FALSE
