SPECIFICATION MCSpec

CONSTANTS
    Callers = {c1, c2, c3}
    MaxCalls = 2
    Window = 3
    AlertThreshold = 2

    Settings <- SomeSettings
    Prices = {92, 100, 106, 112}
    Offset = 1
    EmergencyPct = 12
    StopLossPct = 8
    TakeProfitPct = 10
    TrailingPct = 4
    ArmPct = 4
    MinProfitPct = 2
    MaxAge = 2
    MinHold = 1

    Lookback = 2
    MaxRecent = 2
    Cooldown = 1
    Escalation = 4
    KillSwitch = TRUE
    MaxStreak = 3
    Crashes = TRUE
    MaxCancels = 5

    Fetchers = {f1, f2}
    CacheSeconds = 1
    StaleAfter = 2

    Senders = {s1, s2}
    Kinds = {k1, k2}
    AlertCooldown = 1
    RiskCooldown = 2
    PostTimeout = 1

INVARIANTS
    WindowBudget
    TrailingIsEarned
    StopsAreActedOn
    OldPositionsAreSold
    LossesNeedEmergency
    EscalationHolds
    ServedBarsAreRecent
    SilenceIsEarned

PROPERTIES
    WaitersProgress
    TimedGuardEnds
