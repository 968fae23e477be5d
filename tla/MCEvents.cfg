\* Without SQLite, Auto DJ and broken reports included.
CONSTANTS
    DJs <- TwoDJs
    Videos = {1, 2, 3}
    Duration <- Durations
    Owner = 9
    Mods <- Moderator
    Voters <- None
    Reporters <- MembersAndModerator
    Skippers <- None
    InitialStages <- BothOnStage
    InitialQueues <- Shared
    QueueChoices <- None
    AutoLists <- Playlists
    OnlineSets <- AllPresent
    Skews <- Late
    OneEditASecond = TRUE
    Downtimes <- Short
    MaxDJs = 3
    Heartbeat = 2
    Backoff = 3
    ResumeSlack = 2
    BrokenQuorum = 2
    BrokenWindow = 3
    BrokenBlock = 5
    SkipThreshold = 2
    BangerMax = 2
    UseSQLite = FALSE
    MaxTime = 9
    MaxMoves = 3
SPECIFICATION Spec
INVARIANTS
    TrackEndsOnTime
PROPERTIES
    LedgerSpec
\* The clock and the moves are bounded: a behaviour ends at MaxTime.
CHECK_DEADLOCK FALSE
