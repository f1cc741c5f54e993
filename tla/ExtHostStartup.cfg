SPECIFICATION FairSpec
CONSTANTS
    None = None
    MaxSockets = 9
    MaxFaults = 3
    MaxReduces = 2
CHECK_DEADLOCK FALSE
INVARIANTS TypeOK OneOwner NoGraceWhileConnected
PROPERTY ClientServed
