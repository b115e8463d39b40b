\* Four attempts of complete_stream.
SPECIFICATION FairSpec
CONSTANTS
    Streaming = TRUE
    MaxAttempts = 4
    InitialBackoff = 1
    MaxBackoff = 3
    Multiplier = 2
    Responses <- SomeResponses
    MaxDelay = 3
    MaxSeconds = 5
    MaxDeltas = 3
PROPERTIES
    StreamSpec
    NeverEarly
    CallEnds
CHECK_DEADLOCK FALSE
