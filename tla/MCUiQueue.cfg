SPECIFICATION Spec
CONSTANTS
    s1 = s1
    r1 = r1
    r2 = r2
    Workers <- MCWorkers
    Streams <- MCStreams
    MaxLines = 2
    Capacity = 2
    Batch = 2
    MaxDepth = 2
INVARIANTS
    TypeOK
    QueueOrdered
    Accounted
PROPERTIES
    LinkSpec
    AllSettled
