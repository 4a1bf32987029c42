SPECIFICATION Spec

CONSTANTS
    scheduler = scheduler
    api = api
    viewer = viewer
    Callers <- TwoCallers
    Viewers <- NoViewers
    LocalSim = FALSE
    Crashes = TRUE
    SlowRuns = TRUE
    Faults = {"post", "signal"}
    LimitIoc = FALSE
    MaxAttempts = 2
    CancelLimit = 1
    Lot = 1
    MaxHeld = 1
    MaxBar = 2
    MaxRows = 2

SYMMETRY CallerSymmetry

INVARIANTS
    OneOrderInFlight
    ApprovalStaysValid
