SPECIFICATION Spec
CONSTANTS
    Data = {d1}
    Sockets = {s1, s2, s3}
    FirstSocket = s1
    IdLimit = 8
    ViaExtHost = FALSE
    SendKeepAlive = TRUE
    MaxMsgs = 2
    MaxFaults = 2
    MaxLosses = 1
    MaxIdle = 1
CHECK_DEADLOCK FALSE
SYMMETRY Symmetry
INVARIANTS InOrderExactlyOnce NothingForgotten NoGap IndInv
