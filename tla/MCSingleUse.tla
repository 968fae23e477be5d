----------------------------- MODULE MCSingleUse -----------------------------
(***************************************************************************)
(* A small instance of SingleUse: durations keep the order, and the sums,  *)
(* they have in the code, but are a few units each.                        *)
(***************************************************************************)
EXTENDS SingleUse

Interchangeable == Permutations(Conns) \cup Permutations(Joins)

CONSTANTS Own, Bare, Same, SameLater  \* the tokens

\* Sessions are numbered by when they are signed.  The joins come from a client
\* whose clock may be too far ahead.  Of two tokens that name the same id, the
\* later one is fresh when the record of the other has expired.
Stamps ==
    [r \in Requests |-> CASE r \in Sessions -> r
                          [] r \in Joins -> 2
                          [] r = SameLater -> 5
                          [] OTHER -> 1]
Named == [t \in Tokens |-> CASE t = Bare -> NoId [] t = Own -> "own" [] OTHER -> "shared"]

\* Session events, joins and tokens share nothing but the clock and the connections,
\* so a behaviour need only have one kind of them.
Begun(reqs) == \E c \in Conns : conn[c].req \in reqs
OneKind ==
    LET sessions == Begun(Sessions) \/ replay # <<>> \/ \E s \in Sessions : accepted[s] > 0
        joins == Begun(Joins) \/ used # {} \/ \E r \in Receipts : paid[r] # Unpaid
        tokens == Begun(Tokens) \/ nonces # {} \/ \E t \in Tokens : accepted[t] > 0
    IN  /\ ~(sessions /\ joins) /\ ~(joins /\ tokens) /\ ~(tokens /\ sessions)

Carried == [j \in Joins |-> CHOOSE r \in Receipts : TRUE]
=============================================================================
