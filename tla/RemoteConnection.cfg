SPECIFICATION FairSpec
CONSTANTS
    Conns = {"m", "e"}
    Management = {"m"}
    Sockets = {"s1", "s2", "s3", "s4"}
    FirstSocket <- Both
    MaxFaults = 2
CHECK_DEADLOCK FALSE
INVARIANTS RemoteInv GraceOnlyWhenDisconnected RejectedOnlyWhenForgotten Agreement ListenersKnow
PROPERTIES Settles NoLeak
