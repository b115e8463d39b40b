\* Three adapters, five outputs, one fault in a response.
SPECIFICATION Spec
CONSTANTS
    MaxItems = 3
    Routes <- SomeRoutes
    Sayings = {"u", "v"}
    Letters = {"a", "b", "c"}
    Outputs <- SomeOutputs
    MaxMessages = 3
INVARIANTS
    AnswerIsTheResponse
    InputTellsTranscript
    NextRequestAccepted
PROPERTY AttemptSpec
