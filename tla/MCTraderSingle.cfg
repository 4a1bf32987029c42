SPECIFICATION FairSpec

CONSTANTS
    scheduler = scheduler
    api = api
    viewer = viewer
    Callers <- OneCaller
    Viewers <- NoViewers
    LocalSim = FALSE
    Crashes = TRUE
    SlowRuns = TRUE
    Faults = {"position", "row", "quote", "trade"}
    LimitIoc = TRUE
    MaxAttempts = 2
    CancelLimit = 2
    Lot = 1
    MaxHeld = 2
    MaxBar = 2
    MaxRows = 3

INVARIANTS
    OneAttemptPerBar

PROPERTIES
    NoAveragingDown
    LockIsReleased
