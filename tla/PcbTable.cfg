CONSTANTS
    PCBTABLE_SIZE = 5
    Blocks = 5
    TIME_SLICE = 10
    MaxTicks = 1
    Memories = {{}, {1}, {4}, {1, 2, 3, 4}}
SPECIFICATION Spec
INVARIANTS TypeOK FoundByPid SlotFound StacksOwned
CHECK_DEADLOCK FALSE
