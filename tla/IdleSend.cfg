CONSTANTS
    MaxPid = 1
    NULL = NULL
    TIME_SLICE = 2
    Requests = {"SEND"}
    SendTo <- SendToIdle
    ReceiveFrom <- NoTargets
    WaitOn <- NoTargets
    Kill <- NoTargets
    KillSignals = {}
    Durations <- NoTargets
    Buffers = {100}
    KBD_BUF_SIZE = 4
    Devices = {}
    ReadLengths = {}
    EofChars = {}
    Keys = {}
    Typist = "any"
SPECIFICATION Spec
PROPERTIES SendsBlockUntilReceive
