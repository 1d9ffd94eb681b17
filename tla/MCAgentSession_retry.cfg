SPECIFICATION FairSpec
CONSTANTS
    Callers = {c1}
    Handlers = {h1, h2}
    Sessions <- MCSessions
    MaxRetries = 1
    MaxAnswers = 3
    MaxCommands = 3
    Answers = {"ok", "full", "tool", "retryable", "overflow", "fatal"}
    Commands = {"abort", "abortRetry", "abortCompaction", "bash", "compact", "switch"}
INVARIANTS
    WaitsForAttempt
PROPERTIES
    
    RetryEnds
\* The program idles once the bounds are used up.
CHECK_DEADLOCK FALSE
