SPECIFICATION FairSpec
CONSTANTS
    Contents <- MCContents
    Secrets <- MCSecrets
    Images <- MCImages
    ForgetAttempts = 2
    Window = 1
    Commands <- EveryCommand
    MaxEvents = 3
    MaxCommands = 1
    MaxFailures = 1
INVARIANTS
    ClearTargetIsLastCopy
PROPERTIES
    ForgetsOnlyEarlierUnpinned
    ClearedSecretIsForgotten
CHECK_DEADLOCK FALSE
