CONSTANTS
    h1 = h1
    h2 = h2
    NULL = NULL
    Handle <- MCOneHandle
    MaxHandle = 1
    Offered = {"result", "partial"}
    MaxAge = 2
    MaxTimers = 2
    MaxUnread = 3
    Trouble = {"late answer", "lost result", "daemon dies"}
SPECIFICATION FairClientSpec
CHECK_DEADLOCK FALSE
INVARIANTS
    ClientTypeOK
    StringsAreNotFreed
    NothingIsKeptBack
PROPERTIES
    PrepareIsAnswered
    ResultIsHandedOver
