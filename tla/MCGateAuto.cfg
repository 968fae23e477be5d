\* The owner leaves and comes back.
CONSTANTS
    DJs = {a, b}
    Owner = a
    AutoDJ = auto
    Keys = {1}
    Main = 1
    Id <- Ids
    MaxDJs = 1
    MaxAt = 1
    MaxFlight = 1
    Posts <- JoinOrArm
    KickStamps <- Nothing
    Removable = {a}
    Failures = FALSE
    SlowStore = FALSE
    Rejoins = TRUE
    OtherClubs = FALSE
SPECIFICATION Spec
INVARIANTS
    ArmedOwnsASlot
