\* Two commands, reconnections, a restart.
CONSTANTS
    Videos = {1, 2}
    Handlers = {1, 2}
    Playlists <- OneList
    Results <- OneList
    Timeouts = FALSE
    OneEditASecond = TRUE
    PlaylistsOffStage = FALSE
    MaxMoves = 2
    MaxStarts = 2
SPECIFICATION FairSpec
INVARIANTS
    TypeOK
    AcknowledgedStays
PROPERTIES
    SinceIsKept
    StageFollowsQueue
    LeavesExhausted
