CONSTANTS
    MaxPid = 3
    NULL = NULL
SPECIFICATION Spec
INVARIANTS TypeOK Linked QueuedAreReady
PROPERTIES ImplementsFifo NoStarvation
