SPECIFICATION FairSpec
CONSTANTS
    AcknowledgeTime = 1
    TimeoutTime = 6
    KeepAliveSendTime = 2
    MinimumDelay = 1
    HistoryLength = 2
    MaxSilence = 1
    MaxInbox = 1
    MaxUnack = 1
    MaxBlocks = 1
    MaxDeaths = 2
INVARIANTS NoFalseAlarm Watched AckedByKeepAlive
PROPERTY DeadLinkNoticed
