CONSTANTS
    pm = pm
    first = first
    second = second
    None = None
    Bad = Bad
    Apps <- MCApps
    BuiltIn <- MCBuiltIn
    Tasks <- MCTasks
    MaxCommands = 3
    MaxFailures = 2
    MaxRestarts = 3
    MaxDamage = 1
SPECIFICATION Spec
INVARIANTS
    SavedSettingsSurvive
    RetentionIsChosen
    IgnoredAppsStay
CHECK_DEADLOCK FALSE
