SPECIFICATION Spec
CONSTANTS
    Buffers = {scratch, term}
    Scratch = scratch
    Terminals = {term}
    MaxWindows = 5
INVARIANTS
    TypeOK
    InSync
    DestroyedOnce
PROPERTIES
    ListSpec
