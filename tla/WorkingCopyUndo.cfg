SPECIFICATION FairSpec
CONSTANTS
    Kinds = {"auto", "explicit", "overwrite"}
    None = None
    MaxEdits = 3
    MaxSaves = 2
    MaxExternal = 0
    MaxReverts = 0
    MaxFailures = 0
    MaxCancels = 0
CHECK_DEADLOCK FALSE
INVARIANT SavedVersionIsOnDisk
