SPECIFICATION Spec
CONSTANTS
    Kinds = {"string", "completion", "file", "narrow", "fileNarrow"}
    MaxPrompts = 3
    MaxDepth = 3
INVARIANTS
    NoNestedKeys
    TypeOK
    NothingLeft
    AloneAnswer
PROPERTIES
    AnswerEnds
CHECK_DEADLOCK FALSE
