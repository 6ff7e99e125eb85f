SPECIFICATION FairSpec
CONSTANTS
    a = a
    b = b
    x = x
    Gone = Gone
    None = None
    Clips <- MCClips
    Unreadable <- MCUnreadable
    Stored <- MCStored
    Ranks <- MCRanks
    Limit = 1
    MaxScans = 1
    MaxChanges = 2
    Operations <- AllOperations
INVARIANTS
    ScansAreExact
PROPERTIES
    ImplementsView
    EverySearchAnswers
CHECK_DEADLOCK FALSE
