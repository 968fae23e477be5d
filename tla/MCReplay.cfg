\* Edits in the second of a mark-off.
CONSTANTS
    DJs <- TwoDJs
    Videos = {1, 2, 3}
    Duration <- Durations
    Owner = 9
    Mods <- None
    Voters <- None
    Reporters <- None
    Skippers <- None
    InitialStages <- BothOnStage
    InitialQueues <- Shared
    QueueChoices <- Edits
    AutoLists <- None
    OnlineSets <- AllPresent
    Skews <- OnTime
    OneEditASecond = TRUE
    Downtimes <- Short
    MaxDJs = 3
    Heartbeat = 2
    Backoff = 3
    ResumeSlack = 2
    BrokenQuorum = 2
    BrokenWindow = 3
    BrokenBlock = 5
    SkipThreshold = 2
    BangerMax = 2
    UseSQLite = TRUE
    MaxTime = 9
    MaxMoves = 3
SPECIFICATION FairSpec
PROPERTIES
    PlaysOnce
\* The clock and the moves are bounded: a behaviour ends at MaxTime.
CHECK_DEADLOCK FALSE
