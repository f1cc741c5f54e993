SPECIFICATION FairSpec
CONSTANTS
    Data = {d1}
    Sockets = {s1, s2, s3}
    FirstSocket = s1
    IdLimit = 8
    ViaExtHost = TRUE
    SendKeepAlive = FALSE
    MaxMsgs = 2
    MaxFaults = 1
    MaxLosses = 0
    MaxIdle = 1
CHECK_DEADLOCK FALSE
INVARIANT NothingRegularInHandOff
PROPERTIES ImplementsChannel ImplementsFairChannel EventuallyAcked
