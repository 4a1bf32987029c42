SPECIFICATION Spec

CONSTANTS
    anna = anna
    ben = ben
    cooldown = cooldown
    budget = budget
    Admins <- TwoAdmins
    RiskReasons <- TwoRisks
    KillSwitch = TRUE
    Faults = {}
    Crashes = TRUE
    MaxBlocks = 2
    MaxErrors = 2
    MaxLoops = 3

INVARIANTS
    BreakerTrips

PROPERTIES
    GateImplemented
    LoopsAreForgottenByStops
