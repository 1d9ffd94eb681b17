CONSTANTS
    Runs = {r1}
    MaxResponses = 1
    MaxCalls = 2
    MaxInputs = 2
    SteeringMode = "one-at-a-time"
    FollowUpMode = "one-at-a-time"
    HooksThrow = TRUE
    EarlyPrompts = TRUE
    ListenersThrow = TRUE
SPECIFICATION FairSpec

    
PROPERTIES
    
    AbortEndsRun
CHECK_DEADLOCK FALSE
