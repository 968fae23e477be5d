\* A member leaves and comes back.
CONSTANTS
    DJs = {a, b}
    Owner = a
    AutoDJ = auto
    Keys = {1}
    Main = 1
    Id <- Ids
    MaxDJs = 2
    MaxAt = 1
    MaxFlight = 1
    Posts <- Join
    KickStamps <- Nothing
    Removable = {b}
    Failures = FALSE
    SlowStore = FALSE
    Rejoins = TRUE
    OtherClubs = FALSE
SPECIFICATION Spec
INVARIANTS
    RevokedStaysOff
