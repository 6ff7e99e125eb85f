CONSTANTS
    text = text
    image = image
    None = None
    Texts = {text}
    Images = {image}
    FormatCount = 2
    DittoClips <- MCDittoClips
    InitialRows <- MCInitialRows
    InitialBundles <- MCInitialBundles
    MaxRows = 4
    MaxCommands = 1
    MaxFailures = 2
    MaxCrashes = 1
    MaxPicks = 2
    MaxClock = 2
SPECIFICATION Spec
INVARIANTS
    ExportIsComplete
    ImportsAreWhole
    BundleKept
PROPERTIES
    EveryWriteWasPicked
CHECK_DEADLOCK FALSE
