----------------------------- MODULE MCConductor -----------------------------
(***************************************************************************)
(* Small instances of Conductor: two DJs and a moderator, three videos.    *)
(***************************************************************************)
EXTENDS Conductor

None == {}
OneDJ == {1}
TwoDJs == {1, 2}
ThreeDJs == {1, 2, 3}
Moderator == {8}
OneDJAndModerator == {1, 8}
TwoMembers == {6, 7}
MembersAndModerator == {6, 7, 8}
OwnerPk == 9

On(v) == [vid |-> v, active |-> TRUE]
Off(v) == [vid |-> v, active |-> FALSE]

Durations == [v \in Videos |-> IF v = 1 THEN 2 ELSE 1]
LastIsLong == [v \in Videos |-> IF v = 3 THEN 2 ELSE 1]

Nobody == {<<>>}
Alone == {<<1>>}
BothOnStage == {<<1, 2>>}
\* The DJs of OneEach are interchangeable: every stage up to their names.
AnyStage == {<<>>, <<1>>, <<1, 2>>}

\* The DJs share a track.
Shared == {[d \in DJs |-> IF d = 1 THEN <<On(1), On(2)>> ELSE <<On(2), On(3)>>]}
OneEach == {[d \in DJs |-> <<On(1), On(2)>>]}
LongQueues == {[d \in DJs |-> <<On(d), On(3)>>]}
\* Published while the relay runs: a republish of everything, one partly played.
Edits == {<<On(1), On(2)>>, <<Off(1), On(3)>>}
OneTrack == {<<On(2)>>}
Playlists == {{2, 3}, {}}

AnyPresence == SUBSET DJs
AllPresent == {DJs}
NonePresent == {{}}
Late == {-1}
OnTime == {0}
Early == {1}
Short == {1}
ShortOrLong == {1, 4}
=============================================================================
