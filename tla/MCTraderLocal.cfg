SPECIFICATION Spec

CONSTANTS
    scheduler = scheduler
    api = api
    viewer = viewer
    Callers <- OneCaller
    Viewers <- OneViewer
    LocalSim = TRUE
    Crashes = TRUE
    SlowRuns = TRUE
    Faults = {"signal", "quote"}
    LimitIoc = TRUE
    MaxAttempts = 3
    CancelLimit = 2
    Lot = 2
    MaxHeld = 4
    MaxBar = 3
    MaxRows = 5

INVARIANTS
    SellsAreCovered
    MemoryMatchesLedger
    BuysWithinLimits

PROPERTIES
    FilledSellsAreRealized
