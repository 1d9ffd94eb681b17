SPECIFICATION MCSpec
CONSTANTS
    Lines = {"x", "y"}
    MaxLines = 4
    Height = 2
    Outgrow = FALSE
    Overlay = {o1, o2, o3}
    Responsive = {o1, o2}
    Nested = TRUE
    Editor = editor
    Keys <- MCKeys
    Pastes <- MCPastes
    MaxSent = 2
INVARIANTS
    
    FocusAlive

    
CHECK_DEADLOCK FALSE
