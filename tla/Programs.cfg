CONSTANTS
    MaxPid = 4
    NULL = NULL
    TIME_SLICE = 1
    Requests = {"CREATE", "YIELD", "STOP", "KILL", "GETPID", "SEND", "RECV", "SLEEP", "SIGHANDLE", "WAIT", "DV_OPEN", "DV_CLOSE", "DV_READ", "DV_WRITE", "DV_IOCTL"}
    SendTo <- NoWorkload
    ReceiveFrom <- NoWorkload
    WaitOn <- NoWorkload
    Kill <- NoWorkload
    KillSignals = {}
    Durations <- NoWorkload
    Buffers = {}
    KBD_BUF_SIZE = 4
    Devices = {}
    ReadLengths = {}
    EofChars = {}
    Keys = {"x", "ENTER", "C_D", "cs415", "EveryonegetsanA", "ex", "k", "a", " ", "2", "&", "t"}
    Typist = "patient"
    Roots = {"testIpc1", "testIpc3", "testIpc8", "testIpc9", "testIpc10", "testDev0", "testDev1", "testDev2", "testDev3", "testDev4", "testDev5", "testDev6", "testDev7", "testDev8", "waitTest", "mainProgram"}
    Lines <- Background
SPECIFICATION PSpec
INVARIANTS TestsPass NobodyLeftBehind LoginWaits ReadsAreOfOpenFiles
