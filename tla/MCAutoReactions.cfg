\* Reactions under Auto DJ.
CONSTANTS
    DJs <- TwoDJs
    Videos = {1, 2, 3}
    Duration <- Durations
    Owner = 9
    Mods <- None
    Voters <- OneDJ
    Reporters <- None
    Skippers <- None
    InitialStages <- Nobody
    InitialQueues <- Shared
    QueueChoices <- None
    AutoLists <- Playlists
    OnlineSets <- AllPresent
    Skews <- Late
    OneEditASecond = TRUE
    Downtimes <- Short
    MaxDJs = 3
    Heartbeat = 2
    Backoff = 3
    ResumeSlack = 2
    BrokenQuorum = 2
    BrokenWindow = 3
    BrokenBlock = 5
    SkipThreshold = 2
    BangerMax = 2
    UseSQLite = TRUE
    MaxTime = 11
    MaxMoves = 3
SPECIFICATION FairSpec
PROPERTIES
    ReactionsArePruned
\* The clock and the moves are bounded: a behaviour ends at MaxTime.
CHECK_DEADLOCK FALSE
