\* A skip request of a client whose clock is ahead.
CONSTANTS
    DJs <- TwoDJs
    Videos = {1, 2, 3}
    Duration <- Durations
    Owner = 9
    Mods <- Moderator
    Voters <- None
    Reporters <- None
    Skippers <- OneDJAndModerator
    InitialStages <- BothOnStage
    InitialQueues <- LongQueues
    QueueChoices <- None
    AutoLists <- None
    OnlineSets <- AllPresent
    Skews <- Early
    OneEditASecond = TRUE
    Downtimes <- Short
    MaxDJs = 3
    Heartbeat = 2
    Backoff = 3
    ResumeSlack = 2
    BrokenQuorum = 2
    BrokenWindow = 3
    BrokenBlock = 5
    SkipThreshold = 2
    BangerMax = 2
    UseSQLite = TRUE
    MaxTime = 7
    MaxMoves = 3
SPECIFICATION Spec
INVARIANTS
    SkipHitsWhatWasSeen
\* The clock and the moves are bounded: a behaviour ends at MaxTime.
CHECK_DEADLOCK FALSE
