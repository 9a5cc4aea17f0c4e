SPECIFICATION WinnerSpec
CONSTANTS
    Buffers = {scratch, b}
    Scratch = scratch
    Terminals = {}
    MaxWindows = 3
    MaxHistory = 2
INVARIANTS
    HistoryBounded
PROPERTIES
    BuffersRestored
