\* run_turn_in with compaction on request: two steers, two parallel calls.
CONSTANTS
    s1 = s1
    s2 = s2
    k1 = k1
    k2 = k2
    Steers <- TwoSteers
    BadSteers <- BadSteer
    Calls <- TwoCalls
    MaxToolRounds = 1
    Immediate = FALSE
    OnRequest = TRUE
    Policy = FALSE
    Budget = 9
    Trigger = 9
    Growth = 1
    Opaque <- Portable
    Excess <- NoExcess
    MaxAttempts = 3
SPECIFICATION Spec
INVARIANTS
    SteersAnswered
    CallsAnswered
    ContinuationFits
PROPERTY CancelFreezesContext
CHECK_DEADLOCK FALSE
