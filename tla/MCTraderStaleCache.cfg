SPECIFICATION Spec

CONSTANTS
    scheduler = scheduler
    api = api
    viewer = viewer
    Callers <- OneCaller
    Viewers <- OneViewer
    LocalSim = FALSE
    Crashes = FALSE
    SlowRuns = TRUE
    Faults = {}
    LimitIoc = TRUE
    MaxAttempts = 2
    CancelLimit = 2
    Lot = 1
    MaxHeld = 2
    MaxBar = 2
    MaxRows = 3

PROPERTIES
    NoAveragingDown
