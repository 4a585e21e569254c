CONSTANTS
    MaxPid = 2
    NULL = NULL
    TIME_SLICE = 2
    Requests = {"CREATE", "YIELD", "STOP", "KILL", "SLEEP", "SIGHANDLE", "RECV", "SEND"}
    SendTo <- OneSendsToTwo
    ReceiveFrom <- TwoReceives
    WaitOn <- NoTargets
    Kill <- KillTwo
    KillSignals = {5, 31, 32}
    Durations <- OnlyTwoSleeps
    Buffers = {100}
    KBD_BUF_SIZE = 4
    Devices = {}
    ReadLengths = {}
    EofChars = {}
    Keys = {}
    Typist = "any"
SPECIFICATION Spec
INVARIANTS SignalledWillRun DeadStayDead
