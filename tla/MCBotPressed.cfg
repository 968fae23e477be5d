\* One command at a time; the process may die after a press.
CONSTANTS
    Videos = {1, 2}
    Handlers = {1}
    Playlists <- OneList
    Results <- OneList
    Timeouts = FALSE
    OneEditASecond = TRUE
    PlaylistsOffStage = FALSE
    MaxMoves = 2
    MaxStarts = 2
SPECIFICATION Spec
INVARIANTS
    PromisedIsOnItsWay
