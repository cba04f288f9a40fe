CONSTANTS
    u1 = u1
    u2 = u2
    p1 = p1
    t1 = t1
    t2 = t2
    t3 = t3
    NULL = NULL
    Uid <- MCUid
    Pid <- MCPid
    TimerId <- MCTimerId
    FaultyCalls <- WillingEngine
    MaxSilence = 1
SPECIFICATION Spec
SYMMETRY Symmetric
INVARIANTS
    TypeOK
    EngineServesHolder
    DeletedTimerIsOwn
