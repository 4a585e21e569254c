CONSTANTS
    MaxPid = 3
    NULL = NULL
    TIME_SLICE = 2
    Requests = {"CREATE", "YIELD", "WAIT"}
    SendTo <- NoTargets
    ReceiveFrom <- NoTargets
    WaitOn <- WaitForEachOther
    Kill <- NoTargets
    KillSignals = {}
    Durations <- NoTargets
    Buffers = {}
    KBD_BUF_SIZE = 4
    Devices = {}
    ReadLengths = {}
    EofChars = {}
    Keys = {}
    Typist = "any"
SPECIFICATION Spec
INVARIANTS WalksEnd
