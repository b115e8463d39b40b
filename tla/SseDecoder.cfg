\* Every body of six bytes, cut into chunks in every way.
SPECIFICATION DecoderSpec
CONSTANTS
    Bytes = {"data", "event", "hi", "lo", "CR", "LF"}
    MaxEventBytes = 4
    MaxBody = 6
INVARIANTS
    DecodedAsSent
    RefusedForTheText
\* A decoder that failed or was finished is not fed again.
CHECK_DEADLOCK FALSE
