------------------------------ MODULE StageGate ------------------------------
(***************************************************************************)
(* Who is on the stage of a club: the admission gate (stageGate in         *)
(* relay/conductor.go), the stage, kick and Auto DJ indexes it reads       *)
(* without a common lock, the alias cleaner (relay/sessionevents.go) and   *)
(* the revocation of a membership (relay/main.go), with connections that   *)
(* run concurrently, stage leases that lapse, and a relay that restarts.   *)
(*                                                                         *)
(* A DJ signs with one of several keys; the event store keeps a row per    *)
(* key.  The since tags, which decide who is cut when more DJs than slots  *)
(* hold a lease, are not modelled: any of them may be cut.  Bans act on    *)
(* eligibility as leaving does and are not modelled apart from it.         *)
(***************************************************************************)
EXTENDS Integers, FiniteSets, FiniteSetsExt

CONSTANTS
    DJs, Owner, AutoDJ,  \* the members; who arms Auto DJ; the virtual DJ
    Keys, Main,          \* signing keys of a DJ, the main one among them
    Id,                  \* order of the ids of one second: [Keys \X BOOLEAN -> Nat]
    MaxDJs, MaxAt,       \* stage slots; bound of the timestamps
    MaxFlight,           \* bound of the events being handled at once
    Posts,               \* the events clients send
    KickStamps,          \* when moderators kick
    Removable,           \* the DJs who may leave or be kicked
    Failures,            \* whether writes fail and the relay restarts
    SlowStore,           \* whether a write may outlast its reservation
    Rejoins,             \* whether a member who left may come back
    OtherClubs           \* whether a moderator kicks in other clubs too

Principals == DJs \cup {AutoDJ}
Events ==
    [who : DJs, key : Keys, at : 1..MaxAt, on : BOOLEAN]
    \cup [who : {AutoDJ}, key : {Main}, at : 1..MaxAt, on : BOOLEAN]

ASSUME StageGateAssumption ==
    /\ IsFiniteSet(DJs) /\ Owner \in DJs /\ AutoDJ \notin DJs /\ Main \in Keys
    /\ Id \in [Keys \X BOOLEAN -> Nat] /\ \A x, y \in Keys \X BOOLEAN : Id[x] = Id[y] => x = y
    /\ MaxDJs \in Nat \ {0} /\ MaxAt \in Nat \ {0} /\ MaxFlight \in Nat \ {0}
    /\ Posts \subseteq Events /\ KickStamps \subseteq 1..MaxAt /\ Removable \subseteq DJs
    /\ {Failures, SlowStore, Rejoins, OtherClubs} \subseteq BOOLEAN

VARIABLES
    member,             \* socialGuard.members
    rows, kickRows,     \* the event store: kinds 30102 and 30105; 30106
    leases, kicked,     \* stageIdx and autoDJIdx; kickIdx
    pending,            \* stageGate.pending: the events holding a reservation
    gate,               \* under stageGate.mu: what reject has read so far
    flight,             \* accepted events, how far their handlers are and
                        \* (history) whether they go without a reservation
    revoking,           \* how far the member revoker is, per DJ
    horizon,            \* leases older than this are stale
    overtaken, asked, kickSeen  \* history, see the properties

store == <<member, rows, kickRows>>
index == <<leases, kicked>>
history == <<overtaken, asked, kickSeen>>
vars == <<store, index, pending, gate, flight, revoking, horizon, history>>

Idle == {}

\* The principal whose membership counts: Auto DJ stands for the owner.
Account(who) == IF who = AutoDJ THEN Owner ELSE who

\* eventNewer
EventNewer(e, f) ==
    \/ e.at > f.at
    \/ e.at = f.at /\ Id[<<e.key, e.on>>] < Id[<<f.key, f.on>>]

\* Mutant: the event that is indexed last wins.
SupersedesAlways(e, f) == TRUE

\* idxStage breaks ties by id, idxAutoDJ keeps the first.
Supersedes(e, f) == IF e.who = AutoDJ THEN e.at > f.at ELSE EventNewer(e, f)

Latest(set, who) == {e \in set : e.who = who /\ \A f \in set :
                                    f.who = who => f = e \/ EventNewer(e, f)}

-----------------------------------------------------------------------------
(* What the gate reads.                                                    *)

\* activeClubs, countActiveOtherDJs: on, fresh, eligible and not kicked since.
OnStage(entries, kicks) ==
    {d \in member : \E e \in entries :
        e.who = d /\ e.on /\ e.at >= horizon /\ e.at > kicks[d]}
Counted == OnStage(leases, kicked)

\* orderAndCapDJs, whatever the since tags.
Capped ==
    kSubset(IF Cardinality(Counted) < MaxDJs THEN Cardinality(Counted) ELSE MaxDJs,
            Counted)

\* hasActiveAutoDJ
Armed == \E e \in leases : e.who = AutoDJ /\ e.on
AutoActive == Armed /\ Owner \in member

\* Reservations past their ten seconds.  Unless writes are slow, only those of
\* an event whose handler is gone.
Expirable == {e \in pending : SlowStore \/ \A h \in flight : h.ev # e}

Init ==
    /\ member = DJs /\ rows = {} /\ kickRows = [d \in DJs |-> 0]
    /\ leases = {} /\ kicked = [d \in DJs |-> 0]
    /\ pending = {} /\ gate = Idle /\ flight = {}
    /\ revoking = [d \in DJs |-> "no"]
    /\ horizon = 1
    /\ overtaken = FALSE /\ asked = DJs /\ kickSeen = [d \in DJs |-> 0]

-----------------------------------------------------------------------------
(* The gate.                                                               *)

\* A new event of a member may be handled beside those in flight.
Arrives(ev) ==
    /\ Account(ev.who) \in member
    /\ Cardinality(flight) < MaxFlight
    /\ \A h \in flight : h.ev # ev
    /\ \A g \in gate : g.ev # ev

\* stageGate.reject takes its lock, drops what has expired and counts.
BeginAdmission(ev) ==
    /\ gate = Idle /\ ev.on /\ Arrives(ev)
    /\ \E expired \in SUBSET Expirable : pending' = pending \ expired
    /\ \E capped \in Capped : gate' = {[ev |-> ev, capped |-> capped]}
    /\ UNCHANGED <<store, index, flight, revoking, horizon, history>>

\* stageGate.reject asks for Auto DJ and decides.
EndAdmission ==
    \E g \in gate :
      LET who    == g.ev.who
          slots  == g.capped \cup (IF AutoActive THEN {AutoDJ} ELSE {})
          holder == who \in slots \/ \E e \in pending : e.who = who
          full   == Cardinality(slots) + Cardinality(pending) >= MaxDJs
      IN  /\ gate' = Idle
          /\ IF holder \/ ~full
             THEN /\ flight' = flight \cup {[ev |-> g.ev, pc |-> "accepted", free |-> holder]}
                  /\ pending' = IF holder THEN pending ELSE pending \cup {g.ev}
                  /\ asked' = asked \cup ({who} \cap DJs)
             ELSE UNCHANGED <<flight, pending, asked>>
          /\ UNCHANGED <<store, index, revoking, horizon, overtaken, kickSeen>>

\* Coming down and disarming pass the gate.
ComeDown(ev) ==
    /\ ~ev.on /\ Arrives(ev)
    /\ flight' = flight \cup {[ev |-> ev, pc |-> "accepted", free |-> TRUE]}
    /\ UNCHANGED <<store, index, pending, gate, revoking, horizon, history>>

-----------------------------------------------------------------------------
(* The handlers behind the gate, in the order main.go registers them.      *)

Advances(h, pc) == flight' = (flight \ {h}) \cup {[h EXCEPT !.pc = pc]}

\* History: somebody is back in a slot that nobody holds for him any more,
\* with an event that needed no reservation, by coming back to the club or
\* because a restart forgot a kick.
Holders == Counted \cup (IF AutoActive THEN {AutoDJ} ELSE {})
Taken == Holders \cup {e.who : e \in pending}
Overtakes(free) == overtaken' = (overtaken \/ (free /\ ~(Holders' \subseteq Taken)))

\* The store replaces the row of the same key; or the write fails.
Stored(ev) ==
    LET old == {e \in rows : e.who = ev.who /\ e.key = ev.key}
    IN  IF \E e \in old : ~EventNewer(ev, e) THEN rows ELSE (rows \ old) \cup {ev}

Save(h) ==
    /\ h.pc = "accepted"
    /\ rows' = Stored(h.ev) /\ Advances(h, "saved")
    /\ UNCHANGED <<member, kickRows, index, pending, gate, revoking, horizon, history>>

SaveFails(h) ==
    /\ Failures /\ h.pc = "accepted"
    /\ flight' = flight \ {h}
    /\ UNCHANGED <<store, index, pending, gate, revoking, horizon, history>>

\* idxStage asks for the membership before it takes the index's lock.
CheckEligible(h) ==
    /\ h.pc = "saved" /\ h.ev.who \in DJs
    /\ Advances(h, IF h.ev.who \in member THEN "checked" ELSE "indexed")
    /\ UNCHANGED <<store, index, pending, gate, revoking, horizon, history>>

\* Mutant: the index is kept by signing key.
IndexedByKey(ev) ==
    LET old == {e \in leases : e.who = ev.who /\ e.key = ev.key}
    IN  IF \E e \in old : ~Supersedes(ev, e) THEN leases ELSE (leases \ old) \cup {ev}

\* idxStage, idxAutoDJ: the index is kept by principal.
Indexed(ev) ==
    LET old == {e \in leases : e.who = ev.who}
    IN  IF \E e \in old : ~Supersedes(ev, e) THEN leases ELSE (leases \ old) \cup {ev}

Index(h) ==
    /\ h.pc = IF h.ev.who = AutoDJ THEN "saved" ELSE "checked"
    /\ leases' = Indexed(h.ev) /\ Advances(h, "indexed")
    /\ UNCHANGED <<store, kicked, pending, gate, revoking, horizon, asked, kickSeen>>
    /\ Overtakes(h.free)

\* Mutant: any event of the principal releases its reservation.
ReleasedByAny(ev) == {e \in pending : e.who # ev.who}

\* stageGate.observe releases the reservation of this very event.
Released(ev) == pending \ {ev}

Release(h) ==
    /\ h.pc = "indexed" /\ gate = Idle
    /\ pending' = Released(h.ev) /\ Advances(h, "released")
    /\ UNCHANGED <<store, index, gate, revoking, horizon, history>>

\* stageAliasCleaner.observe
Cleaned(ev) ==
    IF ev.who = AutoDJ THEN rows
    ELSE IF ev.who \notin member THEN rows \ {ev}
    ELSE {e \in rows : e.who = ev.who => e \in Latest(rows, e.who)}

CleanAliases(h) ==
    /\ h.pc = "released"
    /\ rows' = Cleaned(h.ev) /\ flight' = flight \ {h}
    /\ UNCHANGED <<member, kickRows, index, pending, gate, revoking, horizon, history>>

-----------------------------------------------------------------------------
(* Everything else that moves the stage.                                   *)

\* Mutant: the kick that arrives last counts.
KickLast(old, at) == at

\* idxKick: the newest kick counts, in whatever order they arrive.
KickMax(old, at) == IF at > old THEN at ELSE old

\* The row is saved and then indexed; both are one step here, so a restart
\* between the two, which reads the row, is not told apart from one after them.
Kick(d, at) ==
    /\ kicked' = [kicked EXCEPT ![d] = KickMax(@, at)]
    /\ kickRows' = [kickRows EXCEPT ![d] = IF at > @ THEN at ELSE @]
    /\ kickSeen' = [kickSeen EXCEPT ![d] = IF at > @ THEN at ELSE @]
    /\ UNCHANGED <<member, rows, leases, pending, gate, flight, revoking, horizon,
                   overtaken, asked>>

\* A kick of the same DJ by the same moderator in another club has the same
\* address, kind and d tag, and replaces this club's row.
KickElsewhere(d) ==
    /\ OtherClubs /\ kickRows[d] # 0
    /\ kickRows' = [kickRows EXCEPT ![d] = 0]
    /\ UNCHANGED <<member, rows, index, pending, gate, flight, revoking, horizon, history>>

\* A member leaves or is removed; the revoker of main.go runs step by step.
Leave(d) ==
    /\ d \in member /\ revoking[d] = "no"
    /\ member' = member \ {d}
    /\ revoking' = [revoking EXCEPT ![d] = "rows"]
    /\ asked' = asked \ {d}
    /\ UNCHANGED <<rows, kickRows, index, pending, gate, flight, horizon, overtaken, kickSeen>>

\* purgeClubPrincipal
PurgeRows(d) ==
    /\ revoking[d] = "rows"
    /\ rows' = {e \in rows : e.who # d}
    /\ revoking' = [revoking EXCEPT ![d] = "lease"]
    /\ UNCHANGED <<member, kickRows, index, pending, gate, flight, horizon, history>>

\* revokeClubStagePrincipal
RevokeLease(d) ==
    /\ revoking[d] = "lease"
    /\ leases' = {e \in leases : e.who # d}
    /\ revoking' = [revoking EXCEPT ![d] = "reservation"]
    /\ UNCHANGED <<store, kicked, pending, gate, flight, horizon, history>>

\* revokeClubPrincipal
RevokeReservation(d) ==
    /\ revoking[d] = "reservation" /\ gate = Idle
    /\ pending' = {e \in pending : e.who # d}
    /\ flight' = {[h EXCEPT !.free = @ \/ h.ev.who = d] : h \in flight}
    /\ revoking' = [revoking EXCEPT ![d] = "no"]
    /\ UNCHANGED <<store, index, gate, horizon, history>>

Rejoin(d) ==
    /\ Rejoins /\ d \notin member
    /\ member' = member \cup {d}
    /\ UNCHANGED <<rows, kickRows, index, pending, gate, flight, revoking, horizon,
                   asked, kickSeen>>
    /\ Overtakes(TRUE)

\* Five minutes pass: the oldest stamps are stale.
Lapse ==
    /\ horizon <= MaxAt
    /\ horizon' = horizon + 1
    /\ UNCHANGED <<store, index, pending, gate, flight, revoking, history>>

\* warmIndexes from the rows of the store.
Warm == (UNION {Latest(rows, d) : d \in member}) \cup Latest(rows, AutoDJ)

Restart ==
    /\ Failures
    /\ leases' = Warm /\ kicked' = kickRows
    /\ pending' = {} /\ gate' = Idle /\ flight' = {}
    /\ revoking' = [d \in DJs |-> "no"]
    /\ UNCHANGED <<store, horizon, asked, kickSeen>>
    /\ Overtakes(TRUE)

Handle(h) ==
    \/ Save(h) \/ SaveFails(h) \/ CheckEligible(h) \/ Index(h)
    \/ Release(h) \/ CleanAliases(h)

Revoke(d) == Leave(d) \/ PurgeRows(d) \/ RevokeLease(d) \/ RevokeReservation(d)

Next ==
    \/ \E ev \in Posts : BeginAdmission(ev) \/ ComeDown(ev)
    \/ EndAdmission
    \/ \E h \in flight : Handle(h)
    \/ \E d \in Removable : \/ \E at \in KickStamps : Kick(d, at)
                            \/ KickElsewhere(d) \/ Revoke(d) \/ Rejoin(d)
    \/ Lapse
    \/ Restart

Spec == Init /\ [][Next]_vars

-----------------------------------------------------------------------------
(* Properties.                                                             *)

\* The shape of the state: one row per key, one lease and one reservation per
\* principal, one event at a time under the gate's lock.
PerWho(set) == set \subseteq Events /\ \A e, f \in set : e.who = f.who => e = f
TypeOK ==
    /\ member \subseteq DJs /\ asked \subseteq DJs /\ overtaken \in BOOLEAN
    /\ rows \subseteq Events /\ \A e, f \in rows : <<e.who, e.key>> = <<f.who, f.key>> => e = f
    /\ PerWho(leases) /\ PerWho(pending)
    /\ {kickRows, kicked, kickSeen} \subseteq [DJs -> 0..MaxAt]
    /\ gate \subseteq [ev : Posts, capped : SUBSET DJs] /\ Cardinality(gate) <= 1
    /\ flight \subseteq [ev : Posts, free : BOOLEAN,
                         pc : {"accepted", "saved", "checked", "indexed", "released"}]
    /\ revoking \in [DJs -> {"no", "rows", "lease", "reservation"}]
    /\ horizon \in 1..MaxAt + 1

Within(slots) == Cardinality(slots) <= MaxDJs

\* Concurrent joins never share the last slot: the leases that count, Auto DJ
\* and the reservations fit the stage, whatever kicks, leaves, lapses and
\* restarts in between, unless somebody came back into a slot without one.
NeverOvercommitted == ~overtaken => Within(Taken)

\* A kick outranks every heartbeat up to its second, in whatever order the
\* events arrive and across restarts (the test "drops a kicked DJ until they
\* heartbeat after the kick").
KickHolds ==
    \A d \in Counted : \E e \in leases : e.who = d /\ e.at > kickSeen[d]

\* Once every handler is done, a restart brings back the same stage.
RestartKeepsStage ==
    (flight = {} /\ \A d \in DJs : revoking[d] = "no") =>
        OnStage(Warm, kickRows) = Counted

\* "Heartbeats and Auto-DJ config replacements are always allowed because
\* their participant already owns a slot."
ParticipantsOwnSlots == Within(Holders)

\* An armed Auto DJ "permanently owns one of the three slots".
ArmedOwnsASlot == Armed /\ ~overtaken => Within(Counted \cup {AutoDJ})

\* "Neither a restart nor a later rejoin can resurrect" the lease of a member
\* who left: a DJ on stage has asked for it since joining.
RevokedStaysOff == \A d \in Counted : revoking[d] = "no" => d \in asked

\* "Reserve accepted joins until OnEventSaved updates the conductor index."
ReservedUntilIndexed ==
    \A h \in flight :
        ~h.free /\ h.pc \in {"accepted", "saved"} /\ Account(h.ev.who) \in member
            => h.ev \in pending
=============================================================================
