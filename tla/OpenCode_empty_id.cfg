\* One model of the Google adapter, whose calls may have the empty id.
SPECIFICATION Spec
CONSTANTS
    Models <- OnlyGemini
    Service = "zen"
    Tools <- SomeTools
    Sayings <- OnePhoto
    Outputs <- SomeOutputs
    MaxBlocks = 3
    MaxItems = 3
    MaxMessages = 3
INVARIANT EveryAnswerContinues
