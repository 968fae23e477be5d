\* Three DJs come and go, a stage of three; queues, crashes.
CONSTANTS
    DJs <- ThreeDJs
    Videos = {1, 2}
    Duration <- Durations
    Owner = 9
    Mods <- None
    Voters <- None
    Reporters <- None
    Skippers <- None
    InitialStages <- AnyStage
    InitialQueues <- OneEach
    QueueChoices <- OneTrack
    AutoLists <- None
    OnlineSets <- AnyPresence
    Skews <- Late
    OneEditASecond = TRUE
    Downtimes <- Short
    MaxDJs = 3
    Heartbeat = 2
    Backoff = 3
    ResumeSlack = 2
    BrokenQuorum = 2
    BrokenWindow = 3
    BrokenBlock = 5
    SkipThreshold = 2
    BangerMax = 2
    UseSQLite = TRUE
    MaxTime = 9
    MaxMoves = 2
SPECIFICATION FairSpec
INVARIANTS
    NoDJStarves
PROPERTIES
    MusicStarts
\* The clock and the moves are bounded: a behaviour ends at MaxTime.
CHECK_DEADLOCK FALSE
