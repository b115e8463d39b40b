\* Five models of four protocols; one fault in a response.
SPECIFICATION Spec
CONSTANTS
    Models <- SomeModels
    Service = "zen"
    Tools <- SomeTools
    Sayings <- SomeSayings
    Outputs <- SomeOutputs
    MaxBlocks = 3
    MaxItems = 3
    MaxMessages = 3
INVARIANTS
    AnswerIsTheResponse
    RequestTellsConversation
    ThoughtsReplayed
    NextRequestAccepted
PROPERTY AttemptSpec
