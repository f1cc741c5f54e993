SPECIFICATION FairSpec
CONSTANTS
    Kinds = {"auto", "explicit", "overwrite"}
    None = None
    MaxEdits = 3
    MaxSaves = 2
    MaxExternal = 1
    MaxReverts = 1
    MaxFailures = 1
    MaxCancels = 1
CHECK_DEADLOCK FALSE
INVARIANTS TypeOK OneWriteAtATime CleanMeansSaved
PROPERTIES NoBlindOverwrite ReloadKeepsEdits SavesSettle
