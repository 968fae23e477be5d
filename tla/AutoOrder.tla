------------------------------ MODULE AutoOrder ------------------------------
(***************************************************************************)
(* The shuffled rotation of Auto DJ (relay/conductor.go): the order that   *)
(* plays, the order planned ahead for the preview in now_playing, and what *)
(* becomes of both when the owner replaces the playlist, real DJs take     *)
(* over, nobody drives the club, or the relay restarts.                    *)
(*                                                                         *)
(* A tick is one step: only the conductor's goroutine touches the orders,  *)
(* which live in memory alone.  Why a track ends is the Conductor          *)
(* module's; here it may end at any tick.                                  *)
(***************************************************************************)
EXTENDS Integers, Sequences, SequencesExt, Functions

CONSTANTS
    Tracks,
    Playlists,  \* what the owner may arm: sequences of tracks; <<>> disarms
    Preview     \* how many tracks now_playing announces

ASSUME AutoOrderAssumption == Playlists \subseteq Seq(Tracks) /\ Preview \in Nat \ {0}

VARIABLES
    armed, onStage,   \* the armed playlist; whether a real DJ is on stage
    loaded, running,  \* whether c.clubs has the club; pb.playing
    plan,             \* autoOrder, autoNextOrder and autoIdx (one-based)
    announced,        \* the "next" tags of the stored now_playing
    stands, sameList  \* history: no restart, no other list since announced

orderVars == <<armed, onStage, loaded, running, plan, announced, stands, sameList>>

NoPlan == [order |-> <<>>, next |-> <<>>, idx |-> 1]

\* makeShuffledOrder
ShuffledOrders(n) == Bijection(1..n, 1..n)

From(order) == [order |-> order, next |-> <<>>, idx |-> 1]

\* Mutant: only a shorter playlist gets a new order.
FittedIfShorter(p, n) ==
    IF Len(p.order) >= n THEN {p} ELSE {From(o) : o \in ShuffledOrders(n)}

\* driveAutoClub: an order of another length is thrown away.
Fitted(p, n) ==
    IF Len(p.order) = n THEN {p} ELSE {From(o) : o \in ShuffledOrders(n)}

\* Mutant: the planned order is not consumed.
AdvancedAnew(p, n) ==
    IF p.idx < n THEN {[p EXCEPT !.idx = @ + 1]}
    ELSE {From(o) : o \in ShuffledOrders(n)}

\* advanceAutoOrder
Advanced(p, n) ==
    IF p.idx < n THEN {[p EXCEPT !.idx = @ + 1]}
    ELSE IF Len(p.next) = n THEN {From(p.next)}
    ELSE {From(o) : o \in ShuffledOrders(n)}

\* autoUpcomingTracks plans the next order when the preview reaches it.
Planned(p, n) ==
    IF n - p.idx >= Preview \/ Len(p.next) = n THEN {p}
    ELSE {[p EXCEPT !.next = o] : o \in ShuffledOrders(n)}

\* autoUpcomingTracks
Upcoming(p, tracks) ==
    LET ahead == SubSeq(p.order, p.idx + 1, Len(tracks)) \o p.next
        shown == IF Len(ahead) < Preview THEN Len(ahead) ELSE Preview
    IN  [i \in 1..shown |-> tracks[ahead[i]]]

-----------------------------------------------------------------------------
OrderInit ==
    /\ armed = <<>> /\ onStage \in BOOLEAN
    /\ loaded = FALSE /\ running = FALSE
    /\ plan = NoPlan
    /\ announced = <<>>
    /\ stands = TRUE /\ sameList = TRUE

\* The owner arms a playlist, replaces it or disarms.
ArmAutoDJ(list) ==
    /\ armed' = list /\ armed # list
    /\ stands' = FALSE /\ sameList' = FALSE
    /\ UNCHANGED <<onStage, loaded, running, plan, announced>>

StageChanges ==
    /\ onStage' = ~onStage
    /\ UNCHANGED <<armed, loaded, running, plan, announced, stands, sameList>>

\* now_playing with this preview, <<>> from a real DJ's drive.
Publish(upNext) == announced' = upNext /\ stands' = TRUE /\ sameList' = TRUE
Quiet == UNCHANGED <<announced, stands, sameList>>

AutoDrives == armed # <<>> /\ ~onStage

\* driveAutoClub starts a track: the first one, or the one after an ending.
StartTrack ==
    /\ AutoDrives /\ loaded
    /\ \E fit \in Fitted(plan, Len(armed)) :
       \E p \in IF running THEN Advanced(fit, Len(armed)) ELSE {fit} :
       \E q \in Planned(p, Len(armed)) :
          /\ plan' = q
          /\ Publish(Upcoming(q, armed))
    /\ running' = TRUE
    /\ UNCHANGED <<armed, onStage, loaded>>

\* driveAutoClub lets the track run, with a heartbeat on cadence.
HoldTrack ==
    /\ AutoDrives /\ loaded /\ running
    /\ \E fit \in Fitted(plan, Len(armed)) :
          \/ plan' = fit /\ Quiet
          \/ \E q \in Planned(fit, Len(armed)) :
                plan' = q /\ Publish(Upcoming(q, armed))
    /\ UNCHANGED <<armed, onStage, loaded, running>>

\* driveClub: real DJs start, stop or hold tracks; the orders stay.
RealDJsDrive ==
    /\ onStage /\ loaded
    /\ \/ running' \in BOOLEAN /\ Publish(<<>>)
       \/ UNCHANGED running /\ Quiet
    /\ UNCHANGED <<armed, onStage, loaded, plan>>

\* resume, at the first tick that drives the club again.
Resume ==
    /\ ~loaded /\ (onStage \/ AutoDrives)
    /\ loaded' = TRUE /\ running' \in BOOLEAN
    /\ UNCHANGED <<armed, onStage, plan, announced, stands, sameList>>

\* tick: nobody drives the club; its track runs out, then it is forgotten.
Undriven ==
    /\ ~onStage /\ armed = <<>> /\ loaded
    /\ \/ /\ running
          /\ Publish(<<>>)
          /\ UNCHANGED <<loaded, running, plan>>
       \/ /\ IF running THEN Publish(<<>>) ELSE Quiet
          /\ loaded' = FALSE /\ running' = FALSE
          /\ plan' = NoPlan
    /\ UNCHANGED <<armed, onStage>>

\* The relay dies and comes back.
Restart ==
    /\ loaded' = FALSE /\ running' = FALSE
    /\ plan' = NoPlan
    /\ stands' = FALSE
    /\ UNCHANGED <<armed, onStage, announced, sameList>>

OrderNext ==
    \/ \E list \in Playlists : ArmAutoDJ(list)
    \/ StageChanges
    \/ StartTrack \/ HoldTrack \/ RealDJsDrive \/ Resume \/ Undriven
    \/ Restart

OrderSpec == OrderInit /\ [][OrderNext]_orderVars

-----------------------------------------------------------------------------
(* Properties.                                                             *)

\* The orders of a plan are permutations of one playlist's indexes.
Fits(p) ==
    /\ p = NoPlan \/ p.order \in ShuffledOrders(Len(p.order))
    /\ p # NoPlan => p.idx \in 1..Len(p.order)
    /\ p.next = <<>> \/ p.next \in ShuffledOrders(Len(p.order))

\* driveAutoClub indexes tracks[autoOrder[autoIdx]] without a test: an order
\* in memory is a permutation with the index inside it, and so is the order
\* planned ahead, which belongs to the same playlist length.
OrdersFit == Fits(plan)

\* The relay plays what it announced: unless it restarted or the owner
\* replaced the playlist since, the next track Auto DJ starts is the first of
\* the preview clients were last given.
AnnouncedIsPlayed ==
    [][(StartTrack /\ running /\ stands /\ announced # <<>>
          => armed[plan'.order[plan'.idx]] = announced[1])]_orderVars

\* "The relay always plays what it announced to clients", restarts included.
PreviewSurvivesRestart ==
    [][(StartTrack /\ running /\ sameList /\ announced # <<>>
          => armed[plan'.order[plan'.idx]] = announced[1])]_orderVars
=============================================================================
