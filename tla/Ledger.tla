------------------------------- MODULE Ledger -------------------------------
(***************************************************************************)
(* What the credibility board promises (recordSettlement in                *)
(* relay/credibility.go, settleTrack in relay/conductor.go): a performance *)
(* of a track, named by its position and its start time, is settled at     *)
(* most once, and performances are settled in the order they started.      *)
(***************************************************************************)
EXTENDS Naturals, Sequences

VARIABLE settled    \* the performances <<pos, startedAt>>, as they were settled

Init == settled = <<>>

Settle(p) ==
    /\ \A i \in 1..Len(settled) : settled[i][1] < p[1] /\ settled[i][2] < p[2]
    /\ settled' = Append(settled, p)

\* One more performance is settled.
Next == \E i \in 1..Len(settled') : Settle(settled'[i])

Spec == Init /\ [][Next]_settled
=============================================================================
