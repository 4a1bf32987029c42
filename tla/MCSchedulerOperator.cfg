SPECIFICATION FairSpec

CONSTANTS
    anna = anna
    ben = ben
    cooldown = cooldown
    budget = budget
    Admins <- OneAdmin
    RiskReasons <- OneRisk
    KillSwitch = FALSE
    Faults = {"state", "event", "restore"}
    Crashes = TRUE
    MaxBlocks = 2
    MaxErrors = 2
    MaxLoops = 2

PROPERTIES
    StopsEnd
    OnlyResumeUnpausesRow
