SPECIFICATION FairSpec
CONSTANTS
    Windows = {"w1"}
    Keys = {"k"}
    Values = {"v1"}
    Absent = Absent
    Same = Same
    MaxWrites = 2
    MaxFailures = 1
CHECK_DEADLOCK FALSE
PROPERTY AlwaysClosed
