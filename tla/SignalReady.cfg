CONSTANTS
    MaxPid = 3
    NULL = NULL
    TIME_SLICE = 2
    Requests = {"CREATE", "YIELD", "KILL"}
    SendTo <- NoTargets
    ReceiveFrom <- NoTargets
    WaitOn <- NoTargets
    Kill <- OneKills
    KillSignals = {31}
    Durations <- NoTargets
    Buffers = {}
    KBD_BUF_SIZE = 4
    Devices = {}
    ReadLengths = {}
    EofChars = {}
    Keys = {}
    Typist = "any"
SPECIFICATION Spec
INVARIANTS ReadyNotLost
