CONSTANTS
    a = a
    b = b
    Cubby = Cubby
    None = None
    Windows <- MCWindows
    Manual <- MCManual
    MaxCallers = 1
SPECIFICATION FairSpec
INVARIANTS
    OneAnimation
    PasteLandsWhereChosen
PROPERTIES
    EverythingIsAnswered
CHECK_DEADLOCK FALSE
