SPECIFICATION ExitSpec

CONSTANTS
    Settings <- GuardedScalping
    Prices = {92, 100, 106, 112}
    Offset = 1
    EmergencyPct = 12
    StopLossPct = 8
    TakeProfitPct = 10
    TrailingPct = 4
    ArmPct = 4
    MinProfitPct = 2
    MaxAge = 2
    MinHold = 1

INVARIANTS
    OldPositionsWaitForProfit
