SPECIFICATION FairSpec
CONSTANTS
    Conns = {"e"}
    Management = {}
    Sockets = {"s1", "s2", "s3"}
    FirstSocket <- ExtHostOnly
    MaxFaults = 3
CHECK_DEADLOCK FALSE
PROPERTIES
    NoMoreAttempts
