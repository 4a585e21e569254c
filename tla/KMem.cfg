CONSTANTS
    FreeMem = 1
    HoleStart = 8
    HoleEnd = 10
    MaxAddr = 15
    NULL = NULL
    Sizes = {0, 1, 2, 4}
    ExactFits = FALSE
SPECIFICATION Spec
INVARIANTS TypeOK BlocksDisjoint RefusesOnlyWhenFull
