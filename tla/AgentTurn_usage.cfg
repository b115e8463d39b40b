\* run_turn_in with one compaction on request, which fails.
CONSTANTS
    s1 = s1
    s2 = s2
    k1 = k1
    k2 = k2
    Steers <- NoSteers
    BadSteers <- NoSteers
    Calls <- OneCall
    MaxToolRounds = 1
    Immediate = FALSE
    OnRequest = TRUE
    Policy = FALSE
    Budget = 7
    Trigger = 4
    Growth = 3
    Opaque <- Portable
    Excess <- NoExcess
    MaxAttempts = 2
SPECIFICATION Spec
INVARIANT AllUsageReported
CHECK_DEADLOCK FALSE
