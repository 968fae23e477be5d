\* A broken track in a cycled queue.
CONSTANTS
    DJs <- OneDJ
    Videos = {1, 2, 3}
    Duration <- Durations
    Owner = 9
    Mods <- None
    Voters <- None
    Reporters <- TwoMembers
    Skippers <- None
    InitialStages <- Alone
    InitialQueues <- Shared
    QueueChoices <- Edits
    AutoLists <- None
    OnlineSets <- NonePresent
    Skews <- OnTime
    OneEditASecond = TRUE
    Downtimes <- Short
    MaxDJs = 3
    Heartbeat = 2
    Backoff = 3
    ResumeSlack = 2
    BrokenQuorum = 2
    BrokenWindow = 3
    BrokenBlock = 5
    SkipThreshold = 2
    BangerMax = 2
    UseSQLite = TRUE
    MaxTime = 9
    MaxMoves = 4
SPECIFICATION FairSpec
PROPERTIES
    BrokenStaysOut
\* The clock and the moves are bounded: a behaviour ends at MaxTime.
CHECK_DEADLOCK FALSE
