\* A playlist for a bot that is off stage.
CONSTANTS
    Videos = {1, 2}
    Handlers = {1}
    Playlists <- OneList
    Results <- OneList
    Timeouts = FALSE
    OneEditASecond = TRUE
    PlaylistsOffStage = TRUE
    MaxMoves = 2
    MaxStarts = 2
SPECIFICATION FairSpec
PROPERTIES
    StageFollowsQueue
