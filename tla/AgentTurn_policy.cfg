\* run_turn_context with immediate steering under a policy, either kind of maintenance.
CONSTANTS
    s1 = s1
    s2 = s2
    k1 = k1
    k2 = k2
    Steers <- OneSteer
    BadSteers <- NoSteers
    Calls <- OneCall
    MaxToolRounds = 1
    Immediate = TRUE
    OnRequest = FALSE
    Policy = TRUE
    Budget = 6
    Trigger = 4
    Growth = 3
    Opaque <- Either
    Excess <- UnderOrOver
    MaxAttempts = 6
SPECIFICATION FairSpec
INVARIANTS
    WithinBudget
    UsageSummed
PROPERTIES
    SoftNeedsGrowth
    TurnTerminates
CHECK_DEADLOCK FALSE
