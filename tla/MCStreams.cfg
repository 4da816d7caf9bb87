\* Every stream of up to five chat frames, or seven response events, over small alphabets.
SPECIFICATION Spec
CONSTANTS
    ChatFrames <- MCChatFrames
    ChatModes <- MCChatModes
    CallIds = {"call_a", "call_b"}
    Objects <- MCObjects
    Allowed <- MCObjects
    MaxFrames = 5
    Events <- MCEvents
    Pieces = {"a", "b"}
    MaxEvents = 7
    None = None
    Null = Null
INVARIANTS
    ReadersAgree
    CompletedHasOneReading
CHECK_DEADLOCK FALSE
