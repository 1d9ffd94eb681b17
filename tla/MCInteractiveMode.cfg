SPECIFICATION FairModeSpec
CONSTANTS
    Main = c1
    Callers = {c1, c2, c3, c4}
    Handlers = {h1, h2}
    Sessions <- MCSessions
    MaxRetries = 1
    MaxAnswers = 2
    MaxCommands = 4
    Answers = {"ok", "full", "retryable", "overflow"}
    Commands = {"abortRetry", "abortCompaction", "bash", "compact", "switch"}
INVARIANTS
    EscapeTrue

    
\* The program idles once the bounds are used up.
CHECK_DEADLOCK FALSE
