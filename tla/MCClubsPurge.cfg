\* Counterexample: an event under way outlives its club (socialguard.go:54-56).
CONSTANTS
    Ids = {c1, c2, c3}
    First = c1
    Accounts = {a1, a2}
    Founder = a1
    Nobody = Nobody
    Conns = {n1, n2}
    MaxClubs = 1
    QueryLimit = 1
    CreatedAt <- Stamps
    MaxEvents = 2
    MaxRestarts = 1
SPECIFICATION Spec
SYMMETRY Symmetry
INVARIANT PurgeIsFinal
