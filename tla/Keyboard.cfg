CONSTANTS
    MaxPid = 2
    NULL = NULL
    TIME_SLICE = 2
    Requests = {"CREATE", "YIELD", "DV_OPEN", "DV_CLOSE", "DV_READ", "DV_WRITE", "DV_IOCTL"}
    SendTo <- NoTargets
    ReceiveFrom <- NoTargets
    WaitOn <- NoTargets
    Kill <- NoTargets
    KillSignals = {}
    Durations <- NoTargets
    Buffers <- GoodAndBad
    KBD_BUF_SIZE = 2
    Devices = {1, 2}
    ReadLengths = {0, 1, 3}
    EofChars = {"a", "C_D"}
    Keys = {"a", "ENTER", "BKSPC", "NOCHAR", "C_D"}
    Typist = "patient"
SPECIFICATION Spec
INVARIANTS ReaderNotLost KeyboardOwned
PROPERTIES WaitedReadCounts ImplementsTerminal
