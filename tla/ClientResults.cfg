CONSTANTS
    h1 = h1
    h2 = h2
    NULL = NULL
    Handle <- MCOneHandle
    MaxHandle = 2
    Offered = {"result"}
    MaxAge = 2
    MaxTimers = 1
    MaxUnread = 1
    Trouble = {}
SPECIFICATION ClientSpec
CHECK_DEADLOCK FALSE
INVARIANTS
    ResultIsFreedOnce
