\* Native maintenance that is measured below its estimate.
CONSTANTS
    s1 = s1
    s2 = s2
    k1 = k1
    k2 = k2
    Steers <- NoSteers
    BadSteers <- NoSteers
    Calls <- OneCall
    MaxToolRounds = 1
    Immediate = TRUE
    OnRequest = FALSE
    Policy = TRUE
    Budget = 6
    Trigger = 4
    Growth = 3
    Opaque <- Native
    Excess <- Under
    MaxAttempts = 6
SPECIFICATION Spec
PROPERTY GrowthBetweenMaintenance
CHECK_DEADLOCK FALSE
