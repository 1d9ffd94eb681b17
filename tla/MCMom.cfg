SPECIFICATION MCSpec
CONSTANTS
    Texts = {"a", "stop", "aside"}
    MaxSent = 2
    MaxEvents = 2
    MaxArrivals = 3
    QueueLimit = 1
    MaxFaults = 1
    Files = {f}
    MaxWrites = 3
    MaxTime = 2
    MaxDelay = 1
    MaxStarts = 2
INVARIANTS
    
    UserNeverWaits
    TimersMatchFiles
PROPERTIES
    StopEndsRun
    
    
\* The program idles once the bounds are used up.
CHECK_DEADLOCK FALSE
