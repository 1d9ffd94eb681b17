CONSTANTS
    Runs = {r1, r2}
    MaxResponses = 1
    MaxCalls = 2
    MaxInputs = 3
    SteeringMode = "one-at-a-time"
    FollowUpMode = "all"
    HooksThrow = FALSE
    EarlyPrompts = FALSE
    ListenersThrow = FALSE
SYMMETRY RunSymmetry
SPECIFICATION Spec
INVARIANTS
    TranscriptMirrorsContext
    RequestsAnswered
    QueuedOnceInOrder
    OneRunAtATime
CHECK_DEADLOCK FALSE
