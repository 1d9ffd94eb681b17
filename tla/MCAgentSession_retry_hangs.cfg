SPECIFICATION FairSpec
CONSTANTS
    Callers = {c1}
    Handlers = {h1}
    Sessions <- OneSession
    MaxRetries = 1
    MaxAnswers = 2
    MaxCommands = 1
    Answers = {"ok", "retryable", "fatal"}
    Commands = {}
PROPERTIES
    PromptReturns
\* The program idles once the bounds are used up.
CHECK_DEADLOCK FALSE
