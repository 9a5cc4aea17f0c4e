SPECIFICATION Spec
CONSTANTS
    Kinds = {"string", "completion", "file", "narrow", "fileNarrow"}
    MaxPrompts = 2
    MaxDepth = 2
INVARIANTS
    OwnAnswer
CHECK_DEADLOCK FALSE
