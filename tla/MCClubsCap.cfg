\* Counterexample: with one event handled at a time, an account whose clubs a
\* restart's query left out creates another (clubcap.go:12, 44).
CONSTANTS
    Ids = {c1, c2, c3}
    First = c1
    Accounts = {a1, a2}
    Founder = a1
    Nobody = Nobody
    Conns = {n1}
    MaxClubs = 1
    QueryLimit = 1
    CreatedAt <- Stamps
    MaxEvents = 2
    MaxRestarts = 1
SPECIFICATION Spec
SYMMETRY Symmetry
INVARIANT AtMostThreeClubs
