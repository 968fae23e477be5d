\* One DJ with two keys; kicks, leaving.
CONSTANTS
    DJs = {b}
    Owner = b
    AutoDJ = auto
    Keys = {1, 2}
    Main = 1
    Id <- Ids
    MaxDJs = 2
    MaxAt = 2
    MaxFlight = 2
    Posts <- TwoKeys
    KickStamps <- AnyStamp
    Removable = {b}
    Failures = TRUE
    SlowStore = FALSE
    Rejoins = FALSE
    OtherClubs = FALSE
SPECIFICATION Spec
INVARIANTS
    TypeOK
    KickHolds
    RestartKeepsStage
