SPECIFICATION FairSpec
CONSTANTS
    Windows = {"w1", "w2"}
    Keys = {"k"}
    Values = {"v1"}
    Absent = Absent
    Same = Same
    MaxWrites = 3
    MaxFailures = 1
CHECK_DEADLOCK FALSE
INVARIANTS EveryWriteAccounted Converges CloseIsDurable
PROPERTY EventuallyQuiet
