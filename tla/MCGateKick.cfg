\* A moderator kicks the same DJ in another club.
CONSTANTS
    DJs = {a, b}
    Owner = a
    AutoDJ = auto
    Keys = {1}
    Main = 1
    Id <- Ids
    MaxDJs = 2
    MaxAt = 1
    MaxFlight = 1
    Posts <- Join
    KickStamps <- AnyStamp
    Removable = {b}
    Failures = TRUE
    SlowStore = FALSE
    Rejoins = FALSE
    OtherClubs = TRUE
SPECIFICATION Spec
INVARIANTS
    KickHolds
