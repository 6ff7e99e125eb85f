CONSTANTS
    u = u
    v = v
    x = x
    None = None
    Clips <- MCClips
    Hashes <- MCHashes
    ImageOf <- MCImageOf
    MaxCaptures = 3
    MaxCommands = 2
    MaxFailures = 2
    MaxRestarts = 1
SPECIFICATION StoreSpec
INVARIANTS
    OriginalsAreKept
    NothingLeftOver
CHECK_DEADLOCK FALSE
