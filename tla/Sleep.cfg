CONSTANTS
    MaxPid = 3
    NULL = NULL
    TIME_SLICE = 4
    Requests = {"CREATE", "YIELD", "STOP", "SLEEP"}
    SendTo <- NoTargets
    ReceiveFrom <- NoTargets
    WaitOn <- NoTargets
    Kill <- NoTargets
    KillSignals = {}
    Durations <- SleepsOverslept
    Buffers = {}
    KBD_BUF_SIZE = 4
    Devices = {}
    ReadLengths = {}
    EofChars = {}
    Keys = {}
    Typist = "any"
SPECIFICATION Spec
INVARIANTS SleeperNotLost
PROPERTIES ImplementsTimers SleepersWake
