SPECIFICATION IgnoreSpec
CONSTANTS
    Capacity = 3
    MaxBytes = 6
    a = a
    b = b
    Hashes <- MCHashes
    Size <- MixedSize
    MaxWrites = 4
    MaxPastes = 2
INVARIANTS
    SpentMarkerNotLive
    StaleNeverSwallows
PROPERTIES
    NeverSpentTwiceInARow
CHECK_DEADLOCK FALSE
