SPECIFICATION Spec
CONSTANTS
    t1 = t1
    t2 = t2
    Terms = {t1, t2}
    MaxCmds = 2
    Fds = {1, 2}
    MaxChunks = 2
    EofRetries = 1
    ReapTries = 1
INVARIANTS
    TypeOK
    OutputComplete
PROPERTY
    CommandEnds
CHECK_DEADLOCK FALSE
