CONSTANTS
    MaxPid = 3
    NULL = NULL
    TIME_SLICE = 2
    Requests = {"CREATE", "SLEEP"}
    SendTo <- NoTargets
    ReceiveFrom <- NoTargets
    WaitOn <- NoTargets
    Kill <- NoTargets
    KillSignals = {}
    Durations <- SleepsUnequal
    Buffers = {}
    KBD_BUF_SIZE = 4
    Devices = {}
    ReadLengths = {}
    EofChars = {}
    Keys = {}
    Typist = "any"
SPECIFICATION Spec
INVARIANTS SleeperNotLost
