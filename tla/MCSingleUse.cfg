\* Three deliveries at a time of three session events, of two joins with one receipt,
\* or of four tokens: one names an id of its own, one names none, two name the same;
\* room for two ids in the replay cache.
CONSTANTS
    Conns = {c1, c2, c3}
    Sessions = {1, 2, 3}
    Joins = {j1, j2}
    Own = own
    Bare = bare
    Same = same
    SameLater = later
    Tokens = {own, bare, same, later}
    NonceIds = {"own", "shared"}
    NoId = noid
    NonceId <- Named
    NoRequest = none
    Receipts = {r1}
    ReceiptOf <- Carried
    CreatedAt <- Stamps
    MaxPast = 2
    MaxFuture = 1
    ReplayWindow = 5
    ReplayMax = 2
    ReceiptLife = 2
    MaxSkew = 1
    NonceLife = 4
    MaxPause = 1
    MaxTime = 6
SYMMETRY Interchangeable
SPECIFICATION Spec
CONSTRAINT OneKind
INVARIANTS
    TypeOK
    AcceptedOnce
    ReceiptAdmitsOnce
    RefusalsAreForgotten
CHECK_DEADLOCK FALSE
