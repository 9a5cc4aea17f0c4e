SPECIFICATION Spec
CONSTANTS
    Names <- MCNames
    Interval <- MCInterval
    Guarded <- MCGuarded
    FirstNow = 2
    MaxNow = 3
    MaxGen = 3
    MaxDepth = 2
INVARIANTS
    TypeOK
    TableFaithful
    GuardedOnce
PROPERTIES
    EventuallyRuns
