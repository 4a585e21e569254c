CONSTANTS
    MaxPid = 2
    NULL = NULL
    TIME_SLICE = 2
    Requests = {"CREATE", "YIELD", "KILL", "RECV", "SEND"}
    SendTo <- OneSendsToTwo
    ReceiveFrom <- TwoReceives
    WaitOn <- NoTargets
    Kill <- OneKills
    KillSignals = {31}
    Durations <- NoTargets
    Buffers = {100}
    KBD_BUF_SIZE = 4
    Devices = {}
    ReadLengths = {}
    EofChars = {}
    Keys = {}
    Typist = "any"
SPECIFICATION Spec
PROPERTIES SendsBlockUntilReceive
