SPECIFICATION Spec
CONSTANTS
    MaxWindows = 4
    MaxBias = 1
    Screens <- MCScreens
INVARIANTS
    TypeOK
    Tiled
PROPERTIES
    ListSpec
    EnlargeGrows
