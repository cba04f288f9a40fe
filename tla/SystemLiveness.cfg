CONSTANTS
    u1 = u1
    u2 = u2
    p1 = p1
    t1 = t1
    t2 = t2
    NULL = NULL
    Uid <- MCOneUid
    Pid <- MCPid
    TimerId <- MCTimerId
    FaultyCalls <- NoFaults
    MaxSilence = 1
    MaxRequests = 2
    MaxUnread = 0
    MaxConnects = 1
    RetryCount = 2
    Trouble = {"slow load", "misread"}
SPECIFICATION FairAgreementSpec
CHECK_DEADLOCK FALSE
INVARIANTS
    SessionsAgree
PROPERTIES
    NobodyWaitsForever
    OrphanRecordingEnds
    PrepareArrives
