\* A DJ and Auto DJ for one slot; kicks, members who leave and come back, failures.
CONSTANTS
    DJs = {a, b}
    Owner = a
    AutoDJ = auto
    Keys = {1}
    Main = 1
    Id <- Ids
    MaxDJs = 1
    MaxAt = 1
    MaxFlight = 2
    Posts <- DJAgainstAuto
    KickStamps <- FirstStamp
    Removable = {b}
    Failures = TRUE
    SlowStore = FALSE
    Rejoins = TRUE
    OtherClubs = TRUE
SPECIFICATION Spec
INVARIANTS
    NeverOvercommitted
