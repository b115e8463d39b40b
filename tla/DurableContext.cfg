\* The Responses adapter, two endpoints and up to three messages.
SPECIFICATION DurableSpec
CONSTANTS
    i1 = i1
    i2 = i2
    Texts = {t1}
    Identities <- TwoIdentities
    Compared <- EndpointOfWindows
    Ways <- Responses
    MaxMessages = 3
SYMMETRY Interchangeable
INVARIANTS
    TellsTranscript
    ContinuationFits
    SavedRestores
PROPERTIES
    DispatchIsStored
CHECK_DEADLOCK FALSE
