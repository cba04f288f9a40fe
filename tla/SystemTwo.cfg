CONSTANTS
    u1 = u1
    u2 = u2
    p1 = p1
    t1 = t1
    t2 = t2
    NULL = NULL
    Uid <- MCUid
    Pid <- MCNoPid
    TimerId <- MCTimerId
    FaultyCalls <- NoFaults
    MaxSilence = 1
    MaxRequests = 1
    MaxUnread = 0
    MaxConnects = 1
    RetryCount = 1
    Trouble = {"slow daemon", "slow client", "misread"}
SPECIFICATION SystemSpec
CHECK_DEADLOCK FALSE
SYMMETRY Symmetric
INVARIANTS
    SystemTypeOK
    CheckIsOfRecording
    WaitsCanEnd
PROPERTIES
    ResultIsAnnounced
    ImplementsServer
