\* A write outlasts its reservation.
CONSTANTS
    DJs = {a, b}
    Owner = a
    AutoDJ = auto
    Keys = {1}
    Main = 1
    Id <- Ids
    MaxDJs = 2
    MaxAt = 1
    MaxFlight = 2
    Posts <- Join
    KickStamps <- Nothing
    Removable <- Nothing
    Failures = FALSE
    SlowStore = TRUE
    Rejoins = FALSE
    OtherClubs = FALSE
SPECIFICATION Spec
INVARIANTS
    ReservedUntilIndexed
