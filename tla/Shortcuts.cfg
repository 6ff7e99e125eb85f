CONSTANTS
    hotkeyA = hotkeyA
    Fallback = Fallback
    Bridge = Bridge
    Nothing = Nothing
    Keys <- MCKeys
    MaxTakes = 1
    MaxFailures = 2
    MaxDeaths = 1
    MaxSaves = 1
    MaxAttempts = 1
SPECIFICATION FairShortcutSpec
INVARIANTS
    AlwaysAWayIn
    ConfigurationIsFollowed
PROPERTIES
    RecoveryKeepsTheChoice
    WinVComesBack
CHECK_DEADLOCK FALSE
