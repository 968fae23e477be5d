\* Real DJs, edits, skips, reactions, crashes and restarts.
CONSTANTS
    DJs <- TwoDJs
    Videos = {1, 2, 3}
    Duration <- LastIsLong
    Owner = 9
    Mods <- Moderator
    Voters <- TwoDJs
    Reporters <- None
    Skippers <- OneDJAndModerator
    InitialStages <- BothOnStage
    InitialQueues <- Shared
    QueueChoices <- Edits
    AutoLists <- None
    OnlineSets <- AnyPresence
    Skews <- Late
    OneEditASecond = TRUE
    Downtimes <- ShortOrLong
    MaxDJs = 3
    Heartbeat = 2
    Backoff = 3
    ResumeSlack = 2
    BrokenQuorum = 2
    BrokenWindow = 3
    BrokenBlock = 5
    SkipThreshold = 2
    BangerMax = 2
    UseSQLite = TRUE
    MaxTime = 7
    MaxMoves = 3
SPECIFICATION Spec
INVARIANTS
    TypeOK
    NowPlayingAgrees
    TrackEndsOnTime
    SkipHitsWhatWasSeen
    BangersAreEarned
PROPERTIES
    LedgerSpec
    PlaysOnce
\* The clock and the moves are bounded: a behaviour ends at MaxTime.
CHECK_DEADLOCK FALSE
