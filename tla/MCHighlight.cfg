SPECIFICATION HighlightSpec
CONSTANTS
    b1 = b1
    b2 = b2
    e1 = e1
    e2 = e2
    Bufs = {b1, b2}
    Scratch = scratch
    Editors = {e1, e2}
    Languages <- MCLanguages
    Texts <- MCTexts
    Loaded <- MCLoaded
    Compiled <- MCCompiled
    Limit = 10
    MaxCommands = 5
SYMMETRY Symmetric
INVARIANTS
    HandlesOwned
    DrawnByRule
    CommentsShown
CHECK_DEADLOCK FALSE
