CONSTANTS
    MaxPid = 4
    NULL = NULL
    TIME_SLICE = 4
    Requests = {"CREATE", "STOP", "SEND", "RECV", "SLEEP", "WAIT"}
    SendTo <- SendToThree
    ReceiveFrom <- ThreeServes
    WaitOn <- WaitOneLevel
    Kill <- NoTargets
    KillSignals = {}
    Durations <- FourSleeps
    Buffers = {100}
    KBD_BUF_SIZE = 4
    Devices = {}
    ReadLengths = {}
    EofChars = {}
    Keys = {}
    Typist = "any"
SPECIFICATION Spec
INVARIANTS OneListEach ReadyNotLost WaiterNotLost WalksEnd
PROPERTIES WokenByDeath
