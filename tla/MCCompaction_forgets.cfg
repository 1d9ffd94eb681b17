SPECIFICATION CompactionSpec
CONSTANTS
    KeepRecentTokens = 2
    ResultTokens = {1, 3}
    MaxCalls = 1
    MaxLength = 6
    MaxCompactions = 2
INVARIANT NothingForgotten
CHECK_DEADLOCK FALSE
