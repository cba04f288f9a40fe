CONSTANTS
    h1 = h1
    h2 = h2
    NULL = NULL
    Handle <- MCHandle
    MaxHandle = 2
    Offered = {"state"}
    MaxAge = 3
    MaxTimers = 2
    MaxUnread = 2
    Trouble = {}
SPECIFICATION ClientSpec
CHECK_DEADLOCK FALSE
SYMMETRY Symmetric
INVARIANTS
    NumbersComeRound
    ApplicationIsTold
PROPERTIES
    DaemonServesSessions
