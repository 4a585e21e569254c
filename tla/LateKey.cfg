CONSTANTS
    MaxPid = 2
    NULL = NULL
    TIME_SLICE = 2
    Requests = {"SLEEP", "DV_OPEN", "DV_READ"}
    SendTo <- NoTargets
    ReceiveFrom <- NoTargets
    WaitOn <- NoTargets
    Kill <- NoTargets
    KillSignals = {}
    Durations <- SleepsUnequal
    Buffers = {100}
    KBD_BUF_SIZE = 2
    Devices = {1, 2}
    ReadLengths = {1}
    EofChars = {"a", "C_D"}
    Keys = {"a", "ENTER", "BKSPC", "NOCHAR", "C_D"}
    Typist = "any"
SPECIFICATION Spec
PROPERTIES WokenByTime
