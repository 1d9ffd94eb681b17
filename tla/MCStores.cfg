SPECIFICATION MCSpec
CONSTANTS
    Files = {1, 2}
    MaxId = 3
    MaxLines = 5
    Kinds <- Labelled
    Labels = {"a"}
    Features = {"kill", "torn", "fork"}
    Instance = {"i1", "i2"}
    Caller = {"c1", "c2"}
    InstanceOf <- MCInstanceOf
    Provider = {"a", "b"}
    MaxTokens = 2
    MaxUpsets = 1
    Session = {"s1", "s2"}
    Field = {"f", "g"}
    Value = {"v", "w"}
    MaxChanges = 3
INVARIANTS
    ReopenSame
    IndexAgrees
    TokenGood
    ChoiceHolds
PROPERTIES
    
    
    RefreshShared
    FileKept
\* The programs idle once the bounds are used up.
CHECK_DEADLOCK FALSE
