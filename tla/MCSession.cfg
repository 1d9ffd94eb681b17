SPECIFICATION MCSpec
CONSTANTS
    Files = {1, 2}
    MaxId = 4
    MaxLines = 6
    Kinds <- Compacting
    Labels = {}
    Features = {"fork", "share"}
    Calls = {c1, c2}
    Dialogs = {d1, d2}
    Timed = {d1}
INVARIANTS
    RpcExact
    
PROPERTY ForkKeepsContext
\* Entries and calls are used up.
CHECK_DEADLOCK FALSE
