------------------------------ MODULE Conductor ------------------------------
(***************************************************************************)
(* The conductor of one club (relay/conductor.go): the scheduler that      *)
(* decides which track runs, marks it off in the DJ's queue, announces it, *)
(* settles its result and resumes after a restart of the relay.            *)
(*                                                                         *)
(* One pass of tick() is a sequence of steps, one for each write it makes  *)
(* to memory that other goroutines read or to a store that survives a      *)
(* crash.  Between two steps a client's event may be handled and the relay *)
(* may crash.  Time counts ticks: now moves when a tick ends or the relay  *)
(* comes back, so the CreatedAt stamps of two ticks differ and those of    *)
(* one tick are equal.                                                     *)
(*                                                                         *)
(* DJs and videos are positive numbers, NoDJ and NoVideo the empty string. *)
(***************************************************************************)
EXTENDS RoundRobin, FiniteSets

CONSTANTS
    DJs, Videos,
    Duration,       \* Duration[v]: ticks; the fallback cap when unknown
    Owner,          \* the club's owner, in whose name Auto DJ plays
    Mods,           \* owner and moderators: they may skip any track
    Voters,         \* who sends Vibemeter reactions
    Reporters,      \* who reports broken tracks
    Skippers,       \* who asks for skips
    InitialStages,  \* who may be on stage when the relay comes up
    InitialQueues,  \* the stored queues it may come up with: [DJs -> queue]
    QueueChoices,   \* the queues a DJ may publish: Seq([vid, active])
    AutoLists,      \* the playlists the owner may arm: sets of videos
    OnlineSets,     \* the sets of DJs that may be present at a tick
    Skews,          \* a client's clock minus the relay's
    OneEditASecond, \* TRUE: no DJ publishes two queues with one stamp
    Downtimes,      \* ticks a restart may take
    MaxDJs, Heartbeat, Backoff, ResumeSlack,
    BrokenQuorum, BrokenWindow, BrokenBlock, SkipThreshold, BangerMax,
    UseSQLite,      \* FALSE: the relay runs without its SQLite store
    MaxTime,        \* bound: the last tick
    MaxMoves        \* bound: events of clients and crashes in a behaviour

NoVideo == 0

ASSUME ConductorAssumption ==
    /\ DJs \subseteq Nat \ {0} /\ Videos \subseteq Nat \ {0}
    /\ Duration \in [Videos -> Nat \ {0}]
    /\ Owner \in Nat \ {0}
    /\ InitialStages \subseteq Seq(DJs)
    /\ \A s \in InitialStages : \A i, j \in 1..Len(s) : s[i] = s[j] => i = j
    /\ InitialQueues \subseteq [DJs -> Seq([vid : Videos, active : BOOLEAN])]
    /\ QueueChoices \subseteq Seq([vid : Videos, active : BOOLEAN])
    /\ AutoLists \subseteq SUBSET Videos
    /\ Skews \subseteq Int /\ Downtimes \subseteq Nat \ {0}
    /\ {MaxDJs, Heartbeat, BrokenQuorum, SkipThreshold, BangerMax} \subseteq Nat \ {0}
    /\ {Backoff, ResumeSlack, BrokenWindow, BrokenBlock, MaxTime, MaxMoves} \subseteq Nat
    /\ Heartbeat <= Backoff
    /\ UseSQLite \in BOOLEAN /\ OneEditASecond \in BOOLEAN

VARIABLES
    now, up, pc,
    stage,        \* the DJs on stage, oldest since first (activeClubs)
    armed,        \* the armed Auto DJ playlist, {} when disarmed
    tk,           \* what this tick works on: djs, queues, auto; row: the mark-off
    loaded, pb,   \* the entry of c.clubs and whether there is one
    queueIdx,     \* queueIdx[d]: the newest queue of d; at = 0 when none
    played,       \* played[d][v]: when d's v was played, 0 when not in the set
    wake, bootstrapAt, brokenSkipAt, moodSkipAt,
    bangers, skips,     \* accepted reactions by position
    inflight,           \* reactions checked by moodTrackState, not yet counted
    broken,             \* broken[v][r]: r's newest report of v, 0 when none
    brokenVids,         \* brokenVids[v]: when v was broken-skipped, 0 when not
    skip,               \* the newest skip request (stored, so it survives)
    dbOwn, dbRelay,     \* the stored queues of d: by d, by the relay
    np,           \* the stored now_playing; at = 0 when none
    log,          \* the stored play log (kind 1313)
    sqState,      \* the conductor_state row; there = FALSE when none
    sqPlayed,     \* the played rows
    lastTrack, results, \* the credibility board: dedup marker, its records
    moves,        \* bound counter
    fresh,        \* history: fresh[d], tracks d asked for since they last ran
    cast,         \* history: <<performance, n>>, the n-th banger accepted for it
    bypass        \* history: bypass[d], picks that passed over d since its last
                  \* turn and since anybody left the stage

dbQueue == <<dbOwn, dbRelay>>
stores == <<dbQueue, np, log, sqState, sqPlayed, lastTrack, results>>
marks  == <<queueIdx, played>>
votes  == <<bangers, skips, inflight, cast>>
breaks == <<broken, brokenVids, brokenSkipAt>>
timers == <<wake, bootstrapAt, moodSkipAt>>
world  == <<stage, armed, skip, moves, fresh>>
vars == <<now, up, pc, tk, loaded, pb, stores, marks, votes, breaks, timers,
          world, bypass>>

Start == Heartbeat      \* any time by which every timer at 0 has run out
Positions == 0..(MaxTime + 1)
Track == [vid : Videos, active : BOOLEAN]
NoQueue == [at |-> 0, relay |-> FALSE, tracks |-> <<>>]
NoClub == [pos |-> 0, dj |-> NoDJ, vid |-> NoVideo, startedAt |-> 0,
           playing |-> FALSE, auto |-> FALSE, lastBeat |-> 0]
NoTick == [djs |-> <<>>, queues |-> [d \in DJs |-> <<>>], auto |-> {},
           row |-> NoQueue]
NoNowPlaying == [pos |-> 0, dj |-> NoDJ, vid |-> NoVideo, startedAt |-> 0,
                 playing |-> FALSE, auto |-> FALSE, at |-> 0, bangers |-> 0,
                 skips |-> 0]

Performance(r) == <<r.pos, r.startedAt>>
Least(a, b) == IF a <= b THEN a ELSE b

HasActive(tracks) == \E i \in 1..Len(tracks) : tracks[i].active
Active(tracks) == {tracks[i].vid : i \in {j \in 1..Len(tracks) : tracks[j].active}}

\* The relay comes up for the first time with this code: the indexes are
\* warm, nothing has been played.
Init ==
    /\ now = Start /\ up = TRUE /\ pc = "idle"
    /\ stage \in InitialStages /\ armed = {}
    /\ tk = NoTick
    /\ loaded = FALSE /\ pb = NoClub
    /\ \E qs \in InitialQueues :
          /\ dbOwn = [d \in DJs |->
                IF qs[d] = <<>> THEN NoQueue
                ELSE [at |-> 1, relay |-> FALSE, tracks |-> qs[d]]]
          /\ fresh = [d \in DJs |-> Active(qs[d])]
    /\ dbRelay = [d \in DJs |-> NoQueue]
    /\ queueIdx = dbOwn
    /\ wake = \E d \in DJs : HasActive(dbOwn[d].tracks)
    /\ played = [d \in DJs |-> [v \in Videos |-> 0]]
    /\ bootstrapAt = 0 /\ brokenSkipAt = 0 /\ moodSkipAt = 0
    /\ bangers = [p \in Positions |-> 0] /\ skips = [p \in Positions |-> 0]
    /\ inflight = {}
    /\ broken = [v \in Videos |-> [r \in Reporters |-> 0]]
    /\ brokenVids = [v \in Videos |-> 0]
    /\ skip = [by |-> NoDJ, pos |-> 0, at |-> 0, seen |-> <<0, 0>>]
    /\ np = NoNowPlaying
    /\ log = {}
    /\ sqState = [there |-> FALSE, row |-> NoClub]
    /\ sqPlayed = [d \in DJs |-> [v \in Videos |-> 0]]
    /\ lastTrack = <<0, 0>> /\ results = <<>>
    /\ moves = 0
    /\ cast = {}
    /\ bypass = [d \in DJs |-> 0]

-----------------------------------------------------------------------------
(* Clients.                                                                *)

Move == moves < MaxMoves /\ moves' = moves + 1

JoinStage(d) ==
    /\ Move /\ up
    /\ \A i \in 1..Len(stage) : stage[i] # d
    /\ stage' = Append(stage, d)
    /\ UNCHANGED <<now, up, pc, tk, loaded, pb, stores, marks, votes, breaks,
                   timers, armed, skip, fresh, bypass>>

LeaveStage(d) ==
    /\ Move /\ up
    /\ \E i \in 1..Len(stage) :
          /\ stage[i] = d
          /\ stage' = SubSeq(stage, 1, i - 1) \o SubSeq(stage, i + 1, Len(stage))
    /\ bypass' = [x \in DJs |-> 0]
    /\ UNCHANGED <<now, up, pc, tk, loaded, pb, stores, marks, votes, breaks,
                   timers, armed, skip, fresh>>

\* The owner arms a playlist or disarms.
ArmAutoDJ(list) ==
    /\ Move /\ up
    /\ armed' = list /\ armed # list
    /\ UNCHANGED <<now, up, pc, tk, loaded, pb, stores, marks, votes, breaks,
                   timers, stage, skip, fresh, bypass>>

\* Mutant: the index takes only what the DJ signed.
NewerOwn(row, than) == IF row.at > than.at /\ ~row.relay THEN row ELSE than

\* The index keeps the strictly newest queue.
Newer(row, than) == IF row.at > than.at THEN row ELSE than

\* The store keeps the newest event of an author; the ids decide a tie.
Replaced(old, new) == IF new.at > old.at THEN {new}
                      ELSE IF new.at = old.at THEN {old, new} ELSE {old}

PublishQueue(d, tracks, skew) ==
    LET row == [at |-> now + skew, relay |-> FALSE, tracks |-> tracks]
    IN  /\ Move /\ up
        /\ row.at > 0 /\ (OneEditASecond => row.at > dbOwn[d].at)
        /\ \E kept \in Replaced(dbOwn[d], row) :
              dbOwn' = [dbOwn EXCEPT ![d] = kept]
        /\ queueIdx' = [queueIdx EXCEPT ![d] = Newer(row, @)]
        /\ wake' = (wake \/ HasActive(tracks))
        /\ fresh' = [fresh EXCEPT ![d] = @ \cup Active(tracks)]
        /\ UNCHANGED <<now, up, pc, tk, loaded, pb, dbRelay, np, log, sqState, sqPlayed,
                       lastTrack, results, played, votes, breaks, bootstrapAt,
                       moodSkipAt, stage, armed, skip, bypass>>

\* A client asks to skip the track it was told of.
RequestSkip(who, skew) ==
    LET request == [by |-> who, pos |-> np.pos, at |-> now + skew,
                    seen |-> Performance(np)]
    IN  /\ Move /\ up
        /\ np.playing
        /\ request.at > skip.at
        /\ skip' = request
        /\ UNCHANGED <<now, up, pc, tk, loaded, pb, stores, marks, votes, breaks,
                       timers, stage, armed, fresh, bypass>>

\* rejectMood and observeMood: the check needs the conductor's lock, which a
\* tick holds; the count comes later under a lock of its own.
CheckReaction(who, kind) ==
    /\ Move /\ up
    /\ pc = "idle" /\ loaded /\ pb.playing
    /\ who # pb.dj
    /\ inflight' = inflight \cup
          {[by |-> who, kind |-> kind, pos |-> pb.pos, perf |-> Performance(pb)]}
    /\ UNCHANGED <<now, up, pc, tk, loaded, pb, stores, marks, bangers, skips, cast,
                   breaks, timers, stage, armed, skip, fresh, bypass>>

CastFor(perf) == {c \in cast : c[1] = perf}

CountAt(m, pos) ==
    /\ up
    /\ inflight' = inflight \ {m}
    /\ \/ /\ m.kind = "banger"
          /\ bangers' = [bangers EXCEPT ![pos] = Least(@ + 1, BangerMax)]
          /\ cast' = cast \cup {<<m.perf, Cardinality(CastFor(m.perf)) + 1>>}
          /\ UNCHANGED skips
       \/ /\ m.kind = "skip"
          /\ skips' = [skips EXCEPT ![pos] = Least(@ + 1, SkipThreshold)]
          /\ UNCHANGED <<bangers, cast>>
    /\ UNCHANGED <<now, up, pc, tk, loaded, pb, stores, marks, breaks, timers,
                   world, bypass>>

\* Mutant: a reaction counts for the track that runs when it is counted.
CountForCurrent(m) == CountAt(m, pb.pos)

CountReaction(m) == CountAt(m, m.pos)

ReportBroken(r, v, skew) ==
    /\ Move /\ up
    /\ now + skew > 0 /\ broken[v][r] # now + skew
    /\ broken' = [broken EXCEPT ![v][r] = now + skew]
    /\ UNCHANGED <<now, up, pc, tk, loaded, pb, stores, marks, votes, brokenVids,
                   brokenSkipAt, timers, stage, armed, skip, fresh, bypass>>

-----------------------------------------------------------------------------
(* The tick.                                                               *)

EndTick == pc' = "idle" /\ now' = now + 1 /\ tk' = NoTick

Fresh(v, r) == broken[v][r] # 0 /\ now - broken[v][r] < BrokenWindow

\* tick: who is on stage, the queues as the index has them, old reports gone.
BeginTick ==
    /\ up /\ pc = "idle" /\ now < MaxTime
    /\ tk' = [djs |-> SubSeq(stage, 1, Least(Len(stage), MaxDJs)),
              queues |-> [d \in DJs |-> queueIdx[d].tracks],
              auto |-> IF stage = <<>> THEN armed ELSE {},
              row |-> NoQueue]
    /\ pc' = "drive"
    /\ broken' = [v \in Videos |-> [r \in Reporters |->
                      IF Fresh(v, r) THEN broken[v][r] ELSE 0]]
    /\ brokenVids' = [v \in Videos |->
          IF now - brokenVids[v] < BrokenBlock THEN brokenVids[v] ELSE 0]
    /\ UNCHANGED <<now, up, loaded, pb, stores, marks, votes, brokenSkipAt,
                   timers, world, bypass>>

Driven == tk.djs # <<>> \/ tk.auto # {}
\* Mutant: off by one.
OverLate == now - pb.startedAt > Duration[pb.vid]

Over == now - pb.startedAt >= Duration[pb.vid]
BeatDue == now - pb.lastBeat >= Heartbeat

Announcement(club, status, auto) ==
          [pos |-> club.pos, dj |-> club.dj, vid |-> club.vid,
           startedAt |-> club.startedAt, playing |-> status = "playing",
           auto |-> auto, at |-> now,
           bangers |-> IF status = "playing" THEN bangers[club.pos] ELSE 0,
           skips |-> IF status = "playing" THEN skips[club.pos] ELSE 0]

\* Mutant: the announcement says the track starts now.
AnnounceAsNew(club, status, auto) ==
    np' = [Announcement(club, status, auto) EXCEPT !.startedAt = now]

\* publishNowPlaying, publishNowPlayingAuto, publishNowPlayingPaused
Announce(club, status, auto) == np' = Announcement(club, status, auto)

Beaten(club) == [club EXCEPT !.lastBeat = now]

\* sqSaveState: the row has no lastBeat.
Saved(club) == IF UseSQLite THEN [there |-> TRUE, row |-> [club EXCEPT !.lastBeat = 0]]
               ELSE sqState

\* recordSettlement.  A discarded ending only moves the marker in the code; it
\* is kept among the results, with its reason, so that the ledger sees it.
Record(how) ==
    /\ lastTrack' = Performance(pb)
    /\ results' = Append(results,
          [perf |-> Performance(pb), vid |-> pb.vid, dj |-> pb.dj, auto |-> pb.auto,
           how |-> how, bangers |-> bangers[pb.pos]])

\* Mutant: no marker, every settlement counts.
SettleAlways(how) ==
    IF pb.playing THEN Record(how) ELSE UNCHANGED <<lastTrack, results>>

\* settleTrack: the marker of the last settled performance is all that keeps
\* a second settlement out.
Settle(how) ==
    IF pb.playing /\ lastTrack # Performance(pb) THEN Record(how)
    ELSE UNCHANGED <<lastTrack, results>>

\* restoreMoodFromEvent
RestoreReactions(pos) ==
    /\ bangers' = [bangers EXCEPT ![pos] =
                      IF np.bangers > 0 THEN Least(np.bangers, BangerMax) ELSE @]
    /\ skips' = [skips EXCEPT ![pos] = IF np.skips > 0 THEN np.skips ELSE @]

Stale(row) == row.playing /\ now - row.startedAt > Duration[row.vid] + ResumeSlack

\* Mutant: the forgotten track plays on.
KeptPlaying(row) == IF Stale(row) THEN [row EXCEPT !.vid = NoVideo] ELSE row

\* A track that ended long ago is forgotten.
Kept(row) ==
    IF Stale(row) THEN [row EXCEPT !.playing = FALSE, !.vid = NoVideo] ELSE row

\* resume from the SQLite row.
ResumeFromSQLite ==
    LET kept == Kept(sqState.row)
        club == IF np.at = 0 THEN kept
                ELSE [kept EXCEPT !.auto = kept.playing /\ np.auto]
    IN  /\ UseSQLite /\ sqState.there
        /\ pb' = club
        /\ played' = IF \A d \in DJs, v \in Videos : sqPlayed[d][v] = 0
                     THEN played ELSE sqPlayed
        /\ RestoreReactions(club.pos)
        /\ sqState' = Saved(club)
        /\ UNCHANGED sqPlayed

Plays(d, v, rows) == {e \in rows : e.dj = d /\ e.vid = v}

\* The log is read in an order of the store's choice, and the last row of a
\* DJ's track counts: one row of each.
LastRows ==
    {rows \in SUBSET log : \A e \in log : Cardinality(Plays(e.dj, e.vid, rows)) = 1}

\* When d's v was played by these rows of the log, 0 when in none.
LastLogged(d, v, rows) ==
    LET ts == {e.startedAt : e \in Plays(d, v, rows)}
    IN  IF ts = {} THEN 0 ELSE CHOOSE t \in ts : TRUE

Announced ==
    IF np.at = 0 THEN NoClub
    ELSE [pos |-> np.pos, dj |-> np.dj, vid |-> np.vid, startedAt |-> np.startedAt,
          playing |-> np.vid # NoVideo, auto |-> np.auto, lastBeat |-> 0]

\* Mutant: a resumed track starts again.
AnnouncedAnew == [Announced EXCEPT !.startedAt = now]

\* The club as the stored now_playing tells it.
FromNowPlaying == Announced

\* resume from the stored now_playing and the play log.
ResumeFromEvents ==
    LET club == FromNowPlaying
    IN  /\ ~(UseSQLite /\ sqState.there)
        /\ pb' = club
        /\ IF np.at = 0
           THEN UNCHANGED <<played, bangers, skips, sqState, sqPlayed>>
           ELSE /\ RestoreReactions(club.pos)
                /\ \E rows \in LastRows :
                      played' = [d \in DJs |-> [v \in Videos |->
                          LET at == LastLogged(d, v, rows)
                          IN  IF at # 0 THEN at ELSE played[d][v]]]
                /\ sqState' = Saved(club)
                /\ sqPlayed' = IF UseSQLite THEN played' ELSE sqPlayed

Resume ==
    /\ up /\ pc = "drive" /\ Driven /\ ~loaded
    /\ loaded' = TRUE
    /\ ResumeFromSQLite \/ ResumeFromEvents
    /\ UNCHANGED <<now, up, pc, tk, queueIdx, inflight, cast, breaks, timers, world,
                   dbQueue, np, log, lastTrack, results, bypass>>

-----------------------------------------------------------------------------
(* driveClub and driveAutoClub.                                            *)

\* The playing DJ left while other DJs stay: the track may run out first.
Orphan == tk.djs # <<>> /\ \A i \in 1..Len(tk.djs) : tk.djs[i] # pb.dj

Authorized(who) == who \in Mods \/ who = pb.dj

\* Mutant: an old request counts, as long as the position is the same.
SkipRequestedAnyTime == skip.at > 0 /\ skip.pos = pb.pos /\ Authorized(skip.by)

\* skipRequested.  startedAt counts milliseconds and a stamp is the start of
\* its second, so a stamp of the second the track started in is too old.
SkipRequested ==
    skip.at > 0 /\ skip.pos = pb.pos /\ skip.at > pb.startedAt /\ Authorized(skip.by)

BrokenSkip ==
    LET fresh1 == {r \in Reporters : Fresh(pb.vid, r)}
    IN  Cardinality(fresh1) >= BrokenQuorum \/ \E r \in fresh1 : Authorized(r)

BrokenDue == BrokenSkip /\ now - brokenSkipAt >= Heartbeat
MoodDue == skips[pb.pos] >= SkipThreshold /\ now - moodSkipAt >= Heartbeat

\* Mutant: a throttled broken skip keeps the later reasons from being asked.
ReasonsThrottled ==
    IF Orphan THEN (IF Over THEN {"orphan"} ELSE {})
    ELSE IF SkipRequested THEN {"skip"}
    ELSE IF BrokenSkip THEN (IF BrokenDue THEN {"broken"} ELSE {})
    ELSE IF MoodDue THEN {"mood"}
    ELSE IF Over THEN {"over"} ELSE {}

\* Why the running track ends at this tick, in the order the code asks.
Reasons ==
    IF Orphan THEN (IF Over THEN {"orphan"} ELSE {})
    ELSE IF SkipRequested THEN {"skip"}
    ELSE IF BrokenDue THEN {"broken"}
    ELSE IF MoodDue THEN {"mood"}
    ELSE IF Over THEN {"over"} ELSE {}

Settlement(reason) ==
    CASE reason \in {"skip", "broken"} -> "discarded"
      [] reason = "mood" -> "communitySkipped"
      [] OTHER -> "played"

\* driveAutoClub's startTrack after its settlement: any track of the list
\* (the order is the AutoOrder module's).  Nothing is saved to SQLite.
StartAuto ==
    /\ \E v \in tk.auto :
          pb' = [pb EXCEPT !.pos = @ + 1, !.dj = Owner, !.vid = v, !.startedAt = now,
                           !.playing = TRUE, !.auto = TRUE]
    /\ pc' = "autonp"

\* The running track ends: its result is settled, then the next one is picked.
EndTrack ==
    /\ up /\ pc = "drive" /\ Driven /\ loaded /\ pb.playing
    /\ \E reason \in Reasons :
          /\ Settle(Settlement(reason))
          /\ brokenSkipAt' = IF reason = "broken" THEN now ELSE brokenSkipAt
          /\ brokenVids' = IF reason = "broken" THEN [brokenVids EXCEPT ![pb.vid] = now]
                           ELSE brokenVids
          /\ moodSkipAt' = IF reason = "mood" THEN now ELSE moodSkipAt
    /\ IF tk.djs = <<>> THEN StartAuto ELSE pc' = "pick" /\ UNCHANGED pb
    /\ UNCHANGED <<now, up, tk, loaded, dbQueue, np, log, sqState, sqPlayed, marks,
                   votes, broken, wake, bootstrapAt, world, bypass>>

\* The running track goes on: a heartbeat on cadence.  Also tick's loop over
\* the clubs nobody drives, while their track runs.
HoldTrack ==
    /\ up /\ pc = "drive" /\ loaded /\ pb.playing
    /\ IF Driven THEN Reasons = {} ELSE ~Over
    /\ IF BeatDue
       THEN Announce(pb, "playing", tk.auto # {}) /\ pb' = Beaten(pb)
       ELSE UNCHANGED <<np, pb>>
    /\ EndTick
    /\ UNCHANGED <<up, loaded, dbQueue, log, sqState, sqPlayed, lastTrack, results,
                   marks, votes, breaks, timers, world, bypass>>

\* Mutant: the throttle starts anew at every tick that tries.
RetryLater ==
    /\ bootstrapAt' = now
    /\ IF wake \/ now - bootstrapAt >= Heartbeat
       THEN pc' = "pick" /\ UNCHANGED <<now, tk>>
       ELSE EndTick

\* At most one pick a heartbeat, unless a new queue woke the club.
Retry ==
    IF wake \/ now - bootstrapAt >= Heartbeat
    THEN bootstrapAt' = now /\ pc' = "pick" /\ UNCHANGED <<now, tk>>
    ELSE UNCHANGED bootstrapAt /\ EndTick

\* Nothing plays: bootstrap from the queues, at most once a heartbeat unless
\* a new queue woke the club; Auto DJ starts at once.
Bootstrap ==
    /\ up /\ pc = "drive" /\ Driven /\ loaded /\ ~pb.playing
    /\ IF tk.djs = <<>>
       THEN StartAuto /\ UNCHANGED <<wake, bootstrapAt, now, tk>>
       ELSE /\ wake' = FALSE
            /\ UNCHANGED pb
            /\ Retry
    /\ UNCHANGED <<up, loaded, stores, marks, votes, breaks, moodSkipAt, world, bypass>>

\* Nobody drives the club and its track is over: stop, then save and forget.
StopUndriven ==
    /\ up /\ pc = "drive" /\ ~Driven /\ loaded /\ pb.playing /\ Over
    /\ Settle("played")
    /\ Announce(pb, "paused", FALSE)
    /\ pb' = [Beaten(pb) EXCEPT !.playing = FALSE, !.auto = FALSE]
    /\ pc' = "forget"
    /\ UNCHANGED <<now, up, tk, loaded, dbQueue, log, sqState, sqPlayed, marks, votes,
                   breaks, timers, world, bypass>>

Forget ==
    /\ up
    /\ \/ pc = "forget" /\ sqState' = Saved(pb)
       \/ /\ pc = "drive" /\ ~Driven /\ (loaded => ~pb.playing)
          /\ UNCHANGED sqState
    /\ loaded' = FALSE /\ pb' = NoClub
    /\ EndTick
    /\ UNCHANGED <<up, dbQueue, np, log, sqPlayed, lastTrack, results, marks, votes,
                   breaks, timers, world, bypass>>

-----------------------------------------------------------------------------
(* advance.                                                                *)

NotCurrent(v) == ~pb.playing \/ v # pb.vid
PlayedSince(d, v) == played[d][v] > 0 /\ queueIdx[d].at <= played[d][v]
IsBrokenVid(v) == brokenVids[v] # 0 /\ now - brokenVids[v] < BrokenBlock


\* Neither the played-set nor a breakage blocks d's v; the relay's own marks
\* replace the played-set.
Unblocked(d, v) ==
    /\ queueIdx[d].relay \/ ~PlayedSince(d, v)
    /\ ~IsBrokenVid(v)

\* The places of d's queue that only the played-set or a breakage may block.
Wanted(d) == {i \in 1..Len(tk.queues[d]) :
                 tk.queues[d][i].active /\ NotCurrent(tk.queues[d][i].vid)}

\* The loop-reset: an absent DJ's own queue that has been through once.
CycledOut(d, online) ==
    /\ d \notin online /\ ~queueIdx[d].relay /\ Wanted(d) # {}
    /\ \A i \in Wanted(d) : PlayedSince(d, tk.queues[d][i].vid)

\* matrix
PlayableRow(d, online) ==
    [i \in 1..Len(tk.queues[d]) |->
        /\ i \in Wanted(d)
        /\ CycledOut(d, online) \/ Unblocked(d, tk.queues[d][i].vid)]

OnStage(d) == \E i \in 1..Len(tk.djs) : tk.djs[i] = d

ResetCycled(set, online) ==
    [d \in DJs |-> IF OnStage(d) /\ CycledOut(d, online) THEN [v \in Videos |-> 0]
                   ELSE set[d]]

\* History: d is passed over, unless its turn comes, it has nothing to offer
\* or has left.  Where the last DJ is not on stage the turns start over.
CountBypass(mat, slot) ==
    [d \in DJs |->
        LET i == IndexOf(tk.djs, d)
        IN  IF i \in {0, slot[1]} \/ ~Offers(mat, i) \/ IndexOf(stage, d) = 0 THEN 0
            ELSE (IF IndexOf(tk.djs, pb.dj) = 0 THEN 0 ELSE bypass[d]) + 1]

\* Up to sqRecordPlayed.
Pick ==
    /\ up /\ pc = "pick"
    /\ \E online \in OnlineSets :
        LET mat == [i \in 1..Len(tk.djs) |-> PlayableRow(tk.djs[i], online)]
            slot == FairNext(tk.djs, pb.dj, mat)
            d == tk.djs[slot[1]]
            v == tk.queues[d][slot[2]].vid
            cleared == ResetCycled(played, online)
            sqCleared == IF UseSQLite THEN ResetCycled(sqPlayed, online) ELSE sqPlayed
        IN  /\ bypass' = CountBypass(mat, slot)
            /\ \/ /\ slot = NoSlot
                  /\ played' = cleared /\ sqPlayed' = sqCleared
                  /\ pc' = "stop" /\ UNCHANGED pb
               \/ /\ slot # NoSlot
                  /\ pb' = [pb EXCEPT !.pos = @ + 1, !.dj = d, !.vid = v,
                                      !.startedAt = now, !.playing = TRUE, !.auto = FALSE]
                  /\ played' = [cleared EXCEPT ![d][v] = now]
                  /\ sqPlayed' = IF UseSQLite THEN [sqCleared EXCEPT ![d][v] = now]
                                 ELSE sqPlayed
                  /\ pc' = "mark"
    /\ UNCHANGED <<now, up, tk, loaded, dbQueue, np, log, sqState, lastTrack, results,
                   queueIdx, votes, breaks, timers, world>>

\* markTrackOff: the relay's copy of the indexed queue, without the track.
MarkTrackOff ==
    /\ up /\ pc = "mark"
    /\ LET q == queueIdx[pb.dj]
           hit == {i \in 1..Len(q.tracks) : q.tracks[i].vid = pb.vid /\ q.tracks[i].active}
           row == [at |-> now, relay |-> TRUE,
                   tracks |-> [i \in 1..Len(q.tracks) |->
                      IF i \in hit THEN [q.tracks[i] EXCEPT !.active = FALSE]
                      ELSE q.tracks[i]]]
       IN  IF hit = {} THEN pc' = "np" /\ UNCHANGED <<tk, dbRelay>>
           ELSE /\ tk' = [tk EXCEPT !.row = row]
                /\ dbRelay' = [dbRelay EXCEPT ![pb.dj] = row]
                /\ pc' = "index"
    /\ UNCHANGED <<now, up, loaded, pb, dbOwn, np, log, sqState, sqPlayed, lastTrack,
                   results, marks, votes, breaks, timers, world, bypass>>

\* markTrackOff goes on: index the copy; an exhausted queue forgets its plays.
IndexMark ==
    /\ up /\ pc = "index"
    /\ queueIdx' = [queueIdx EXCEPT ![pb.dj] = Newer(tk.row, @)]
    /\ IF HasActive(tk.row.tracks) THEN UNCHANGED <<played, sqPlayed>>
       ELSE /\ played' = [played EXCEPT ![pb.dj] = [v \in Videos |-> 0]]
            /\ sqPlayed' = IF UseSQLite
                           THEN [sqPlayed EXCEPT ![pb.dj] = [v \in Videos |-> 0]]
                           ELSE sqPlayed
    /\ pc' = "np"
    /\ UNCHANGED <<now, up, tk, loaded, pb, dbQueue, np, log, sqState, lastTrack,
                   results, votes, breaks, timers, world, bypass>>

\* The new track is announced: here the listeners hear it start.
AnnounceTrack ==
    /\ up /\ pc \in {"np", "autonp"}
    /\ Announce(pb, "playing", pb.auto)
    /\ pb' = Beaten(pb)
    /\ fresh' = IF pb.auto THEN fresh ELSE [fresh EXCEPT ![pb.dj] = @ \ {pb.vid}]
    /\ pc' = IF pc = "np" THEN "play" ELSE "autoplay"
    /\ UNCHANGED <<now, up, tk, loaded, dbQueue, log, sqState, sqPlayed, lastTrack,
                   results, marks, votes, breaks, timers, stage, armed, skip, moves,
                   bypass>>

\* publishPlay; Auto DJ is done after it.
LogPlay ==
    /\ up /\ pc \in {"play", "autoplay"}
    /\ log' = log \cup {[pos |-> pb.pos, dj |-> pb.dj, vid |-> pb.vid,
                         startedAt |-> pb.startedAt]}
    /\ IF pc = "play" THEN pc' = "save" /\ UNCHANGED <<now, tk>> ELSE EndTick
    /\ UNCHANGED <<up, loaded, pb, dbQueue, np, sqState, sqPlayed, lastTrack, results,
                   marks, votes, breaks, timers, world, bypass>>

\* advance ends: save, and forget the reactions two tracks back.
SaveTrack ==
    /\ up /\ pc = "save"
    /\ sqState' = Saved(pb)
    /\ bangers' = [p \in Positions |-> IF p < pb.pos - 2 THEN 0 ELSE bangers[p]]
    /\ skips' = [p \in Positions |-> IF p < pb.pos - 2 THEN 0 ELSE skips[p]]
    /\ EndTick
    /\ UNCHANGED <<up, loaded, pb, dbQueue, np, log, sqPlayed, lastTrack, results,
                   marks, inflight, cast, breaks, timers, world, bypass>>

\* Nothing to pick: stop to the lobby, announce it, save, and back off.
Stop ==
    /\ up /\ pc = "stop"
    /\ Settle("played")
    /\ IF pb.vid = NoVideo
       THEN UNCHANGED np /\ pb' = [pb EXCEPT !.playing = FALSE, !.auto = FALSE]
       ELSE /\ Announce(pb, "paused", FALSE)
            /\ pb' = [Beaten(pb) EXCEPT !.playing = FALSE, !.auto = FALSE]
    /\ pc' = "stopped"
    /\ UNCHANGED <<now, up, tk, loaded, dbQueue, log, sqState, sqPlayed, marks, votes,
                   breaks, timers, world, bypass>>

SaveStopped ==
    /\ up /\ pc = "stopped"
    /\ sqState' = Saved(pb)
    /\ bootstrapAt' = now + (Backoff - Heartbeat)
    /\ EndTick
    /\ UNCHANGED <<up, loaded, pb, dbQueue, np, log, sqPlayed, lastTrack, results,
                   marks, votes, breaks, wake, moodSkipAt, world, bypass>>

-----------------------------------------------------------------------------
(* Crash and restart.                                                      *)

Crash ==
    /\ Move /\ up
    /\ up' = FALSE /\ pc' = "idle" /\ tk' = NoTick
    /\ loaded' = FALSE /\ pb' = NoClub
    /\ queueIdx' = [d \in DJs |-> NoQueue]
    /\ played' = [d \in DJs |-> [v \in Videos |-> 0]]
    /\ wake' = FALSE
    /\ bootstrapAt' = 0 /\ brokenSkipAt' = 0 /\ moodSkipAt' = 0
    /\ bangers' = [p \in Positions |-> 0] /\ skips' = [p \in Positions |-> 0]
    /\ inflight' = {}
    /\ broken' = [v \in Videos |-> [r \in Reporters |-> 0]]
    /\ brokenVids' = [v \in Videos |-> 0]
    /\ bypass' = [d \in DJs |-> 0]
    /\ UNCHANGED <<now, stores, stage, armed, skip, fresh, cast>>

\* warmIndexes replays the stored queues in an order of the store's choice.
Restart(downtime) ==
    /\ ~up /\ now + downtime <= MaxTime
    /\ up' = TRUE /\ now' = now + downtime
    /\ queueIdx' \in [DJs -> UNION {{dbOwn[d], dbRelay[d]} : d \in DJs}]
    /\ \A d \in DJs : queueIdx'[d] \in Replaced(dbOwn[d], dbRelay[d])
    /\ wake' = \E d \in DJs : HasActive(dbOwn[d].tracks)
    /\ UNCHANGED <<pc, tk, loaded, pb, stores, played, votes, breaks, bootstrapAt,
                   moodSkipAt, world, bypass>>

-----------------------------------------------------------------------------
Clients ==
    \/ \E d \in DJs : JoinStage(d) \/ LeaveStage(d)
    \/ \E list \in AutoLists : ArmAutoDJ(list)
    \/ \E d \in DJs, q \in QueueChoices, s \in Skews : PublishQueue(d, q, s)
    \/ \E w \in Skippers, s \in Skews : RequestSkip(w, s)
    \/ \E w \in Voters, k \in {"banger", "skip"} : CheckReaction(w, k)
    \/ \E r \in Reporters, v \in Videos, s \in Skews : ReportBroken(r, v, s)

Tick ==
    \/ BeginTick \/ Resume \/ EndTrack \/ HoldTrack \/ Bootstrap \/ StopUndriven
    \/ Forget \/ Pick \/ MarkTrackOff \/ IndexMark \/ AnnounceTrack \/ LogPlay
    \/ SaveTrack \/ Stop \/ SaveStopped

Count == \E m \in inflight : CountReaction(m)
Restarts == \E t \in Downtimes : Restart(t)

Next == Clients \/ Count \/ Tick \/ Crash \/ Restarts

Spec == Init /\ [][Next]_vars

-----------------------------------------------------------------------------
(* Properties.                                                             *)

\* The shape of the state.
TypeOK ==
    /\ now \in Nat /\ up \in BOOLEAN
    /\ pc \in {"idle", "drive", "pick", "mark", "index", "np", "play", "save", "stop",
               "stopped", "forget", "autonp", "autoplay"}
    /\ stage \in Seq(DJs) /\ armed \in SUBSET Videos
    /\ loaded \in BOOLEAN
    /\ pb.pos \in Positions /\ pb.startedAt \in Nat /\ pb.playing \in BOOLEAN
    /\ pb.playing => pb.vid \in Videos
    /\ \A d \in DJs : queueIdx[d].at \in Nat /\ queueIdx[d].tracks \in Seq(Track)
    /\ bangers \in [Positions -> 0..BangerMax] /\ skips \in [Positions -> 0..SkipThreshold]
    /\ played \in [DJs -> [Videos -> Nat]] /\ sqPlayed \in [DJs -> [Videos -> Nat]]

\* The board keeps its ledger across crashes: every performance is settled at
\* most once ("settleTrack records an attributable public performance exactly
\* once"), in the order the performances started.
SettledPerformances == [i \in 1..Len(results) |-> results[i].perf]

L == INSTANCE Ledger WITH settled <- SettledPerformances
LedgerSpec == L!Spec

\* A set plays through once: a DJ's track is announced only if that DJ
\* published it as active since it was last announced.
PlaysOnce ==
    [][pc = "np" /\ pc' = "play" => pb.vid \in fresh[pb.dj]]_vars

\* A skip request ends the performance its sender was told of, whatever
\* crashed in between and whichever positions were used again.
SkipHitsWhatWasSeen ==
    pc = "drive" /\ loaded /\ Driven /\ pb.playing /\ "skip" \in Reasons
        => skip.seen = Performance(pb)

\* A settled performance earned the bangers it is credited with: none were
\* cast for another performance, and none counted twice by a restart.
BangersAreEarned ==
    \A i \in 1..Len(results) :
        results[i].bangers <= Cardinality(CastFor(results[i].perf))

\* Between ticks the stored now_playing, which clients and a restart go by,
\* is the track the relay has in memory.
NowPlayingAgrees ==
    up /\ pc = "idle" /\ loaded /\ pb.lastBeat > 0
        => /\ Performance(np) = Performance(pb)
           /\ np.vid = pb.vid /\ np.dj = pb.dj /\ np.playing = pb.playing

\* No track outlives its duration by a tick, whoever leaves the stage and
\* whatever throttles the reactions to it.
TrackEndsOnTime ==
    up /\ pc = "idle" /\ loaded /\ pb.playing
        => now - pb.startedAt <= Duration[pb.vid]

\* Turns are fair on a growing stage: as long as nobody leaves it, fewer than
\* MaxDJs picks in a row pass over a DJ who could be picked.
NoDJStarves == \A d \in DJs : bypass[d] < MaxDJs

\* A track that was skipped as broken does not come back while it is blocked
\* (recordBrokenVid), picked or started by Auto DJ.  Violated: the loop-reset
\* of matrix does not ask isBrokenVid, and neither does driveAutoClub.
BrokenStaysOut ==
    [][(pc # pc' /\ pc' \in {"mark", "autonp"} => ~IsBrokenVid(pb'.vid))]_vars

\* "Exactly once": no performance has two results.
SettledOnce ==
    \A i, j \in 1..Len(results) : results[i].perf = results[j].perf => i = j

\* Only what Auto DJ started is kept as an Auto DJ result; a real DJ's result
\* builds that DJ's credibility.
AutoResultsAreTheOwners ==
    \A i \in 1..Len(results) : results[i].auto => results[i].dj = Owner

\* A position names one started track in the play log.
PositionsAreUnique == \A e, f \in log : e.pos = f.pos => e = f

\* Every track that starts leaves no reactions to tracks more than two
\* positions back.
ReactionsArePruned ==
    [][(pc \in {"save", "autoplay"} /\ pc' = "idle" =>
          \A p \in Positions : p < pb.pos - 2 => bangers'[p] + skips'[p] = 0)]_vars

\* Music starts: a club with a DJ on stage and a track nothing blocks does
\* not stay silent.
CouldPlay ==
    \E i \in 1..Least(Len(stage), MaxDJs) :
        LET q == queueIdx[stage[i]]
        IN  \E j \in 1..Len(q.tracks) :
                q.tracks[j].active /\ Unblocked(stage[i], q.tracks[j].vid)
Silent == up /\ ~(loaded /\ pb.playing) /\ CouldPlay
MusicStarts ==
    (Silent /\ now + Backoff + 2 <= MaxTime) ~> (~Silent)

\* The tick loop never stops and the service manager restarts the relay.
FairSpec == Spec /\ WF_vars(Tick) /\ WF_vars(Restarts)
=============================================================================
