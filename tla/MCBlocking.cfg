SPECIFICATION BlockingSpec
CONSTANTS
    Threads = {t1, t2, t3}
    FirstCap = 2
    MaxTotal = 2
INVARIANTS
    BlockingTypeOK
    HeapSafe
    WholeResult
PROPERTIES
    CollectionRuns
