\* Two executions race for one control; a cancel; queue_steer and steer.
CONSTANTS
    a1 = a1
    a2 = a2
    s1 = s1
    s2 = s2
    c1 = c1
    Agents <- TwoAgents
    Steerers <- TwoSteerers
    EarlySteerers <- OneEarly
    Cancellers <- OneCanceller
    Immediate = TRUE
SPECIFICATION FairSpec
INVARIANTS
    DeliveredInCallOrder
    CompletedLosesNothing
PROPERTIES
    MailboxSpec
    CancelEndsTurn
    SteerInterruptsStream
CHECK_DEADLOCK FALSE
