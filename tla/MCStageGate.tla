----------------------------- MODULE MCStageGate -----------------------------
(***************************************************************************)
(* Small instances of StageGate: a DJ, sometimes two, and Auto DJ compete  *)
(* for one or two slots.  The ids of one second have an arbitrary, fixed   *)
(* order.                                                                  *)
(***************************************************************************)
EXTENDS StageGate

Ids == [k \in Keys \X BOOLEAN |-> 2 * k[1] + (IF k[2] THEN 1 ELSE 0)]

Post(who, key, at, on) == [who |-> who, key |-> key, at |-> at, on |-> on]
\* The DJs only go on stage.
Join == {Post(d, Main, 1, TRUE) : d \in DJs}
\* The owner also sends a heartbeat.
Heartbeat == Join \cup {Post(Owner, Main, 2, TRUE)}
\* The owner uses two keys; joins, heartbeats and an off of the same second.
TwoKeys ==
    {Post(Owner, 1, 1, TRUE), Post(Owner, 1, 1, FALSE), Post(Owner, 2, 2, TRUE)}
\* The owner arms Auto DJ too.
JoinOrArm == {Post(p, Main, 1, TRUE) : p \in Principals}
\* A DJ who may be removed joins and comes down, the owner arms Auto DJ.
DJAgainstAuto ==
    {Post(d, Main, 1, on) : d \in Removable, on \in BOOLEAN}
    \cup {Post(AutoDJ, Main, 1, TRUE)}
\* The owner joins too.
Everyone == DJAgainstAuto \cup {Post(Owner, Main, 1, TRUE)}
Nothing == {}
FirstStamp == {1}
AnyStamp == 1..MaxAt
=============================================================================
