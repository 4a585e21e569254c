CONSTANTS
    MaxPid = 3
    NULL = NULL
    TIME_SLICE = 2
    Requests = {"CREATE", "YIELD", "STOP", "GETPID", "SEND", "RECV"}
    SendTo <- AllTargets
    ReceiveFrom <- AllSources
    WaitOn <- NoTargets
    Kill <- NoTargets
    KillSignals = {}
    Durations <- NoTargets
    Buffers <- GoodAndBad
    KBD_BUF_SIZE = 4
    Devices = {}
    ReadLengths = {}
    EofChars = {}
    Keys = {}
    Typist = "any"
SPECIFICATION Spec
INVARIANTS TypeOK BlockedNotLost DeadStayDead PartnersAreBlocked NoMissedRendezvous
PROPERTIES NoOvertaking ImplementsRendezvous ReadyRuns
