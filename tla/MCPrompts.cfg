SPECIFICATION MCSpec
CONSTANTS
    MaxText = 5
    MaxKeys = 6
    MaxPastes = 2
    KeepRecentTokens = 2
    ResultTokens = {1, 3}
    MaxCalls = 2
    MaxLength = 6
    MaxCompactions = 2
INVARIANTS
    
    
    RequestsPaired
    CutExact
\* Keys are used up, the branch is as long as it may be.
CHECK_DEADLOCK FALSE
