CONSTANTS
    MaxPid = 4
    NULL = NULL
    TIME_SLICE = 1
    Requests = {"CREATE", "YIELD", "STOP", "KILL", "GETPID", "SEND", "RECV", "SLEEP", "SIGHANDLE", "WAIT", "DV_OPEN", "DV_CLOSE", "DV_READ", "DV_WRITE", "DV_IOCTL"}
    SendTo <- NoWorkload
    ReceiveFrom <- NoWorkload
    WaitOn <- NoWorkload
    Kill <- NoWorkload
    KillSignals = {}
    Durations <- NoWorkload
    Buffers = {}
    KBD_BUF_SIZE = 4
    Devices = {}
    ReadLengths = {}
    EofChars = {}
    Keys = {"x", "ENTER", "C_D", "cs415", "EveryonegetsanA", "a", " ", "2"}
    Typist = "patient"
    Roots = {"mainProgram"}
    Lines <- Foreground
SPECIFICATION PSpec
INVARIANTS LoginWaits
