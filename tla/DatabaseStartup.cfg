CONSTANTS
    a = a
    b = b
    f = f
    picture = picture
    path = path
    k = k
    rival = rival
    Absent = Absent
    Torn = Torn
    Clips <- MCClips
    Contents <- MCContents
    ContentOf <- MCContentOf
    Images = {a, b}
    FileClips = {f}
    Keys = {k, rival}
    InitialRows <- MCInitialRows
    RichBackup = 1
    MaxWrites = 3
    MaxStepFailures = 2
    MaxCrashes = 2
    MaxDays = 1
    MaxFileDamage = 1
SPECIFICATION StartupSpec
INVARIANTS
    NothingLostSilently
    MarkedIsDone
    NamedOriginalsExist
PROPERTIES
    LastResortsKept
CHECK_DEADLOCK FALSE
