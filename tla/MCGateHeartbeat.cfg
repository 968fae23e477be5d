\* A heartbeat races a kick.
CONSTANTS
    DJs = {a, b}
    Owner = a
    AutoDJ = auto
    Keys = {1}
    Main = 1
    Id <- Ids
    MaxDJs = 1
    MaxAt = 2
    MaxFlight = 2
    Posts <- Heartbeat
    KickStamps <- FirstStamp
    Removable = {a}
    Failures = FALSE
    SlowStore = FALSE
    Rejoins = FALSE
    OtherClubs = FALSE
SPECIFICATION Spec
INVARIANTS
    ParticipantsOwnSlots
