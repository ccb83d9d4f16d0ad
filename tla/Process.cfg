CONSTANTS
    NULL = NULL
    x = x
    y = y
    Conns = {x, y}
    Fds = {1, 2, 3}
    MaxGens = 2
    MaxSignals = 2
    Procs = {p1, p2, p3}
    p1 = p1
    p2 = p2
    p3 = p3
    CacheSize = 2
    INT_MAX = 20
    Clients = {x, y}
    PathSeq <- MCPathSeq
    FR_CACHE_TIME_TO_LIVE = 0
    MaxEvents = 4
    MaxChanges = 1
    Changing = {"a"}
    MaxSize = 2
    Callers = {p1, p2}
    Sockets = {1, 2, 3}
    Names <- MCNames
    WORD = WORD
    Resolved <- MCResolved
SPECIFICATION Spec
INVARIANTS ReloadIsSafe PidFileTellsTheServer SocketsAccounted RecordsAccounted
PROPERTIES SignalsAreObeyed CopiesAreFresh
CHECK_DEADLOCK FALSE
