CONSTANTS
    c1 = c1
    c2 = c2
    c3 = c3
    NULL = NULL
    Camcorder <- MCCamcorder
    FaultyCalls <- AllFaults
SPECIFICATION Spec
INVARIANTS
    TypeOK
    CaptureIsReachable
PROPERTIES
    ImplementsMicrophone
