\* Transcripts that grow, shrink and grow again: every kind of message, parallel
\* calls, orphans and a screenshot.
SPECIFICATION FairSpec
CONSTANTS
    Alphabet <- Everything
    CallIds = {"a", "b"}
    MaxMessages = 4
    MaxCompactions = 2
    TailTokens = {0, 6}
    KeepImages <- ImageLimits
    ImageTokens = 3
    Overhead = 1
    SummarySizes = {1}
    Budget = 5
INVARIANTS
    OrderKept
    NothingForgotten
    LatestRequestVerbatim
    TailIsLeastSafe
    RequestsFit
    RequestsArePaired
    RefusedForOneExchange
PROPERTIES RetainedIndicesAgree CompactionEnds
CHECK_DEADLOCK FALSE
