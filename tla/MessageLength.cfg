CONSTANTS
    MaxPid = 2
    NULL = NULL
    TIME_SLICE = 2
    Requests = {"CREATE", "YIELD", "SEND", "RECV"}
    SendTo <- OneSendsToTwo
    ReceiveFrom <- TwoReceives
    WaitOn <- NoTargets
    Kill <- NoTargets
    KillSignals = {}
    Durations <- NoTargets
    Buffers = {64, 128}
    KBD_BUF_SIZE = 4
    Devices = {}
    ReadLengths = {}
    EofChars = {}
    Keys = {}
    Typist = "any"
SPECIFICATION Spec
PROPERTIES LesserLength
