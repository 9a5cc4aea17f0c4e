SPECIFICATION ScreenSpec
CONSTANTS
    a = a
    blank = blank
    Lines = {a, blank}
    Blank = blank
    Before = before
    NULL = NULL
    Default = 2
    Sizes = {0, 1}
    Heights = {1, 3}
    Contents <- MCContents
    ManyDirty = 1
    MaxChunks = 1
INVARIANTS
    TextsOwned
    ScreenTypeOK
    CacheFresh
    AltExact
PROPERTIES
    LogSpec
    DamageShown
