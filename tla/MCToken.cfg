\* A token that names no id is presented twice.
CONSTANTS
    Conns = {c1, c2, c3}
    Sessions = {}
    Joins = {}
    Own = own
    Bare = bare
    Same = same
    SameLater = later
    Tokens = {own, bare, same, later}
    NonceIds = {"own", "shared"}
    NoId = noid
    NonceId <- Named
    NoRequest = none
    Receipts = {}
    ReceiptOf <- Carried
    CreatedAt <- Stamps
    MaxPast = 2
    MaxFuture = 1
    ReplayWindow = 5
    ReplayMax = 1
    ReceiptLife = 2
    MaxSkew = 1
    NonceLife = 4
    MaxPause = 1
    MaxTime = 6
SYMMETRY Interchangeable
SPECIFICATION Spec
INVARIANT
    TokensAreSingleUse
CHECK_DEADLOCK FALSE
