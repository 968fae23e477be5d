--------------------------- MODULE ConductorProofs ---------------------------
(***************************************************************************)
(* What the conductor keeps, for every set of DJs, tracks, queues, clocks  *)
(* and crashes.                                                            *)
(*                                                                         *)
(*   TypeCorrect          the state keeps its types                        *)
(*   TurnsComeRound       nobody is passed over on a growing stage         *)
(*   LedgerKept           performances are settled once and in order       *)
(*   TracksEndOnTime, AnnouncesWhatPlays, SkipsHitWhatWasSeen,             *)
(*   BangersAreCredited   playback and the votes on it                     *)
(*                                                                         *)
(* TypeOK is not inductive, since a restart resumes from what is stored,   *)
(* the next start from what is in memory, and a position is in range only  *)
(* because no tick starts two tracks; TypeInv adds the stores and the      *)
(* clock.  The other invariants build on it.                               *)
(***************************************************************************)
EXTENDS Conductor, RoundRobinProofs, SequenceTheorems, FiniteSetTheorems

PCs == {"idle", "drive", "pick", "mark", "index", "np", "play", "save", "stop",
        "stopped", "forget", "autonp", "autoplay"}
Row == [at : Nat, relay : BOOLEAN, tracks : Seq(Track)]
Vids == Videos \cup {NoVideo}
Club == [pos : Positions, dj : Nat, vid : Vids, startedAt : Nat, playing : BOOLEAN,
         auto : BOOLEAN, lastBeat : Nat]
NowPlaying == [pos : Positions, dj : Nat, vid : Vids, startedAt : Nat,
               playing : BOOLEAN, auto : BOOLEAN, at : Nat,
               bangers : 0..BangerMax, skips : 0..SkipThreshold]
TickState == [djs : Seq(DJs), queues : [DJs -> Seq(Track)], auto : SUBSET Videos,
              row : Row]
PlayedSet == [DJs -> [Videos -> Nat]]

\* No track has been started at this tick.
BeforeStart == pc \notin {"mark", "index", "np", "play", "save", "autonp", "autoplay"}

ControlOK ==
    /\ now \in Nat \ {0} /\ up \in BOOLEAN /\ loaded \in BOOLEAN /\ pc \in PCs
    /\ pc # "idle" => up /\ now < MaxTime
    /\ pc \notin {"idle", "drive"} => loaded
    /\ ~up => ~loaded

StageOK == stage \in Seq(DJs) /\ armed \in SUBSET Videos

QueuesOK ==
    queueIdx \in [DJs -> Row] /\ dbOwn \in [DJs -> Row] /\ dbRelay \in [DJs -> Row]

ClubOK ==
    /\ pb \in Club
    /\ pb.playing => pb.vid \in Videos
    /\ ~BeforeStart => pb.playing
    /\ pc \in {"mark", "index"} => pb.dj \in DJs

StoresOK ==
    /\ sqState \in [there : BOOLEAN, row : Club]
    /\ sqState.row.playing => sqState.row.vid \in Videos
    /\ np \in NowPlaying

VotesOK ==
    /\ bangers \in [Positions -> 0..BangerMax]
    /\ skips \in [Positions -> 0..SkipThreshold]
    /\ \A m \in inflight : m.pos \in Positions

PlayedOK ==
    /\ played \in PlayedSet /\ sqPlayed \in PlayedSet
    /\ \A e \in log : e.startedAt \in Nat /\ e.startedAt <= now

\* What r tells of is not in the future, and was not started at this tick.
InThePast(r) ==
    /\ r.pos <= now /\ r.startedAt <= now
    /\ up /\ BeforeStart => r.pos < now /\ r.startedAt < now

PastOK == InThePast(pb) /\ InThePast(np) /\ InThePast(sqState.row)

TypeInv ==
    /\ ControlOK /\ StageOK /\ QueuesOK /\ tk \in TickState /\ ClubOK /\ StoresOK
    /\ VotesOK /\ PlayedOK /\ PastOK

LEMMA TypeInvImpliesTypeOK ==
    ASSUME TypeInv
    PROVE  TypeOK
<1>1. pb.pos \in Positions /\ pb.startedAt \in Nat /\ pb.playing \in BOOLEAN
  BY DEF TypeInv, ClubOK, Club
<1>2. \A d \in DJs : queueIdx[d].at \in Nat /\ queueIdx[d].tracks \in Seq(Track)
  BY DEF TypeInv, QueuesOK, Row
<1> QED BY <1>1, <1>2 DEF TypeInv, TypeOK, ControlOK, StageOK, ClubOK, VotesOK,
                          PlayedOK, PlayedSet, PCs

LEMMA PositionsRange ==
    Positions = 0..(MaxTime + 1) /\ MaxTime \in Nat /\ Positions \subseteq Nat
BY ConductorAssumption DEF Positions

-----------------------------------------------------------------------------
(* The initial states.                                                     *)

LEMMA InitHasTypes == Init => TypeInv
<1> SUFFICES ASSUME Init PROVE TypeInv
  OBVIOUS
<1> USE ConductorAssumption
<1>0. 0 \in Positions
  BY PositionsRange
<1>1. ControlOK
  BY DEF Init, ControlOK, PCs, Start
<1>2. StageOK
  BY DEF Init, StageOK
<1>3. NoQueue \in Row
  BY DEF NoQueue, Row
<1>4. QueuesOK
  <2>1. PICK qs \in InitialQueues :
           dbOwn = [d \in DJs |->
              IF qs[d] = <<>> THEN NoQueue
              ELSE [at |-> 1, relay |-> FALSE, tracks |-> qs[d]]]
    BY DEF Init
  <2>2. \A d \in DJs : qs[d] \in Seq(Track)
    <3>1. InitialQueues \subseteq [DJs -> Seq(Track)]
      BY DEF Track
    <3> HIDE ConductorAssumption
    <3>2. qs \in [DJs -> Seq(Track)]
      BY <3>1
    <3> QED BY <3>2
  <2>3. dbOwn \in [DJs -> Row]
    BY <1>3, <2>1, <2>2 DEF Row
  <2> QED BY <1>3, <2>3 DEF Init, QueuesOK
<1>5. NoTick \in TickState
  BY <1>3 DEF NoTick, TickState
<1>6. NoClub \in Club /\ ~NoClub.playing
  BY <1>0 DEF NoClub, Club, Vids, NoVideo, NoDJ
<1>7. ClubOK
  BY <1>6 DEF Init, ClubOK, BeforeStart
<1>8. NoNowPlaying \in NowPlaying
  BY <1>0 DEF NoNowPlaying, NowPlaying, Vids, NoVideo, NoDJ
<1>9. StoresOK
  BY <1>6, <1>8 DEF Init, StoresOK
<1>10. VotesOK
  BY DEF Init, VotesOK
<1>11. PlayedOK
  BY DEF Init, PlayedOK, PlayedSet
<1>12. PastOK
  BY DEF Init, PastOK, InThePast, NoClub, NoNowPlaying, Start
<1> QED BY <1>1, <1>2, <1>4, <1>5, <1>7, <1>9, <1>10, <1>11, <1>12 DEF Init, TypeInv

-----------------------------------------------------------------------------
(* The clients.                                                            *)

\* What a client does not touch keeps its type.
LEMMA ClientFrame ==
    ASSUME TypeInv,
           UNCHANGED <<now, up, pc, loaded, tk, pb, sqState, np, played, sqPlayed, log>>
    PROVE  ControlOK' /\ (tk \in TickState)' /\ ClubOK' /\ StoresOK' /\ PlayedOK' /\ PastOK'
BY DEF TypeInv, ControlOK, ClubOK, StoresOK, PlayedOK, PastOK, InThePast, BeforeStart

LEMMA JoinHasTypes ==
    ASSUME TypeInv, NEW d \in DJs, JoinStage(d)
    PROVE  TypeInv'
<1>1. StageOK'
  BY DEF JoinStage, TypeInv, StageOK
<1>2. QueuesOK' /\ VotesOK'
  BY DEF JoinStage, TypeInv, QueuesOK, VotesOK, marks, stores, dbQueue, votes
<1> QED BY <1>1, <1>2, ClientFrame DEF JoinStage, TypeInv, marks, stores

LEMMA LeaveHasTypes ==
    ASSUME TypeInv, NEW d \in DJs, LeaveStage(d)
    PROVE  TypeInv'
<1>1. StageOK'
  <2>1. PICK i \in 1..Len(stage) :
           stage' = SubSeq(stage, 1, i - 1) \o SubSeq(stage, i + 1, Len(stage))
    BY DEF LeaveStage
  <2>2. stage \in Seq(DJs)
    BY DEF TypeInv, StageOK
  <2>3. Len(stage) \in Nat /\ i \in Nat
    BY <2>2, LenProperties
  <2>4. \A j \in 1..(i - 1) : stage[j] \in DJs
    BY <2>1, <2>2, <2>3
  <2>5. \A j \in (i + 1)..Len(stage) : stage[j] \in DJs
    BY <2>1, <2>2, <2>3
  <2>6. /\ SubSeq(stage, 1, i - 1) \in Seq(DJs)
        /\ SubSeq(stage, i + 1, Len(stage)) \in Seq(DJs)
    BY <2>2, <2>3, <2>4, <2>5, SubSeqProperties
  <2> QED BY <2>1, <2>6, ConcatProperties DEF LeaveStage, TypeInv, StageOK
<1>2. QueuesOK' /\ VotesOK'
  BY DEF LeaveStage, TypeInv, QueuesOK, VotesOK, marks, stores, dbQueue, votes
<1> QED BY <1>1, <1>2, ClientFrame DEF LeaveStage, TypeInv, marks, stores

LEMMA ArmHasTypes ==
    ASSUME TypeInv, NEW list \in AutoLists, ArmAutoDJ(list)
    PROVE  TypeInv'
<1>1. StageOK'
  BY ConductorAssumption DEF ArmAutoDJ, TypeInv, StageOK
<1>2. QueuesOK' /\ VotesOK'
  BY DEF ArmAutoDJ, TypeInv, QueuesOK, VotesOK, marks, stores, dbQueue, votes
<1> QED BY <1>1, <1>2, ClientFrame DEF ArmAutoDJ, TypeInv, marks, stores

LEMMA PublishHasTypes ==
    ASSUME TypeInv, NEW d \in DJs, NEW q \in QueueChoices, NEW s \in Skews,
           PublishQueue(d, q, s)
    PROVE  TypeInv'
<1> DEFINE new == [at |-> now + s, relay |-> FALSE, tracks |-> q]
<1>1. new \in Row
  <2>1. now + s > 0
    BY DEF PublishQueue
  <2>2. now \in Nat /\ s \in Int
    BY ConductorAssumption DEF TypeInv, ControlOK
  <2>3. q \in Seq(Track)
    BY ConductorAssumption DEF Track
  <2> QED BY <2>1, <2>2, <2>3 DEF Row
<1>2. PICK kept \in Replaced(dbOwn[d], new) : dbOwn' = [dbOwn EXCEPT ![d] = kept]
  BY DEF PublishQueue
<1>3. queueIdx' = [queueIdx EXCEPT ![d] = Newer(new, @)]
  BY DEF PublishQueue
<1> HIDE DEF new
<1>4. QueuesOK'
  <2>1. kept \in Row
    BY <1>1, <1>2 DEF Replaced, TypeInv, QueuesOK
  <2>2. (dbOwn \in [DJs -> Row])'
    BY <1>2, <2>1 DEF TypeInv, QueuesOK
  <2>3. (queueIdx \in [DJs -> Row])'
    BY <1>1, <1>3 DEF Newer, TypeInv, QueuesOK
  <2> QED BY <2>2, <2>3 DEF PublishQueue, TypeInv, QueuesOK
<1>5. VotesOK' /\ StageOK'
  BY DEF PublishQueue, TypeInv, StageOK, VotesOK, votes
<1> QED BY <1>4, <1>5, ClientFrame DEF PublishQueue, TypeInv

LEMMA RequestHasTypes ==
    ASSUME TypeInv, NEW w \in Skippers, NEW s \in Skews, RequestSkip(w, s)
    PROVE  TypeInv'
<1>1. QueuesOK' /\ VotesOK' /\ StageOK'
  BY DEF RequestSkip, TypeInv, QueuesOK, VotesOK, StageOK, marks, stores, dbQueue, votes
<1> QED BY <1>1, ClientFrame DEF RequestSkip, TypeInv, marks, stores

LEMMA CheckHasTypes ==
    ASSUME TypeInv, NEW w \in Voters, NEW k \in {"banger", "skip"}, CheckReaction(w, k)
    PROVE  TypeInv'
<1>1. QueuesOK' /\ StageOK'
  BY DEF CheckReaction, TypeInv, QueuesOK, StageOK, marks, stores, dbQueue
<1>2. VotesOK'
  <2>1. pb.pos \in Positions
    BY DEF TypeInv, ClubOK, Club
  <2> QED BY <2>1 DEF CheckReaction, TypeInv, VotesOK
<1> QED BY <1>1, <1>2, ClientFrame DEF CheckReaction, TypeInv, marks, stores

LEMMA ReportHasTypes ==
    ASSUME TypeInv, NEW r \in Reporters, NEW v \in Videos, NEW s \in Skews,
           ReportBroken(r, v, s)
    PROVE  TypeInv'
<1>1. QueuesOK' /\ VotesOK' /\ StageOK'
  BY DEF ReportBroken, TypeInv, QueuesOK, VotesOK, StageOK, marks, stores, dbQueue, votes
<1> QED BY <1>1, ClientFrame DEF ReportBroken, TypeInv, marks, stores

LEMMA CountHasTypes ==
    ASSUME TypeInv, NEW m \in inflight, CountReaction(m)
    PROVE  TypeInv'
<1>1. QueuesOK' /\ StageOK'
  BY DEF CountReaction, CountAt, TypeInv, QueuesOK, StageOK, marks, stores, dbQueue, world
<1>2. VotesOK'
  <2>1. \A a \in Nat, b \in Nat : Least(a + 1, b) \in 0..b
    BY DEF Least
  <2>2. SkipThreshold \in Nat /\ BangerMax \in Nat
    BY ConductorAssumption
  <2>3. m.pos \in Positions /\ (\A n \in inflight' : n.pos \in Positions)
    BY DEF CountReaction, CountAt, TypeInv, VotesOK
  <2>4. /\ bangers \in [Positions -> 0..BangerMax]
        /\ skips \in [Positions -> 0..SkipThreshold]
    BY DEF TypeInv, VotesOK
  <2>5. /\ Least(bangers[m.pos] + 1, BangerMax) \in 0..BangerMax
        /\ Least(skips[m.pos] + 1, SkipThreshold) \in 0..SkipThreshold
    BY <2>1, <2>2, <2>3, <2>4
  <2>6. bangers' \in [Positions -> 0..BangerMax] /\ skips' \in [Positions -> 0..SkipThreshold]
    BY <2>3, <2>4, <2>5 DEF CountReaction, CountAt
  <2> QED BY <2>3, <2>6 DEF VotesOK
<1> QED BY <1>1, <1>2, ClientFrame DEF CountReaction, CountAt, TypeInv, marks, stores

-----------------------------------------------------------------------------
(* The tick.                                                               *)

\* Where a tick ends, the clock moves on.
LEMMA EndOfTick ==
    ASSUME TypeInv, up, EndTick
    PROVE  /\ now' \in Nat \ {0} /\ now' = now + 1 /\ pc' = "idle"
           /\ (tk \in TickState)'
           /\ \A r \in Club \cup NowPlaying : r.pos <= now /\ r.startedAt <= now
                 => /\ r.pos < now' /\ r.startedAt < now'
                    /\ r.pos <= now' /\ r.startedAt <= now'
           /\ \A r \in {pb, np, sqState.row} :
                 /\ r.pos < now' /\ r.startedAt < now'
                 /\ r.pos <= now' /\ r.startedAt <= now'
<1>1. NoTick \in TickState
  BY DEF NoTick, TickState, NoQueue, Row
<1>2. now \in Nat \ {0}
  BY DEF TypeInv, ControlOK
<1>3. \A r \in Club \cup NowPlaying : r.pos \in Nat /\ r.startedAt \in Nat
  BY PositionsRange DEF Club, NowPlaying
<1>4. \A r \in {pb, np, sqState.row} :
         r \in Club \cup NowPlaying /\ r.pos <= now /\ r.startedAt <= now
  BY DEF TypeInv, ClubOK, StoresOK, PastOK, InThePast
<1> QED BY <1>1, <1>2, <1>3, <1>4 DEF EndTick

LEMMA BeginHasTypes ==
    ASSUME TypeInv, BeginTick
    PROVE  TypeInv'
<1>1. (tk \in TickState)'
  <2>1. MaxDJs \in Nat
    BY ConductorAssumption
  <2>2. stage \in Seq(DJs) /\ Len(stage) \in Nat
    BY LenProperties DEF TypeInv, StageOK
  <2>3. Least(Len(stage), MaxDJs) \in 0..Len(stage)
    BY <2>1, <2>2 DEF Least
  <2>4. \A j \in 1..Least(Len(stage), MaxDJs) : stage[j] \in DJs
    BY <2>2, <2>3
  <2>5. SubSeq(stage, 1, Least(Len(stage), MaxDJs)) \in Seq(DJs)
    BY <2>2, <2>3, <2>4, SubSeqProperties
  <2>6. [d \in DJs |-> queueIdx[d].tracks] \in [DJs -> Seq(Track)]
    BY DEF TypeInv, QueuesOK, Row
  <2>7. (IF stage = <<>> THEN armed ELSE {}) \in SUBSET Videos
    BY DEF TypeInv, StageOK
  <2>8. NoQueue \in Row
    BY DEF NoQueue, Row
  <2> QED BY <2>5, <2>6, <2>7, <2>8 DEF BeginTick, TickState
<1>2. ControlOK'
  BY DEF BeginTick, TypeInv, ControlOK, PCs
<1>3. ClubOK' /\ PastOK'
  BY DEF BeginTick, TypeInv, ClubOK, PastOK, InThePast, BeforeStart, stores
<1>4. QueuesOK' /\ VotesOK' /\ StageOK' /\ StoresOK' /\ PlayedOK'
  BY DEF BeginTick, TypeInv, QueuesOK, VotesOK, StageOK, StoresOK, PlayedOK,
         stores, dbQueue, marks, votes, world
<1> QED BY <1>1, <1>2, <1>3, <1>4 DEF TypeInv

\* A play of the log, and so what the played-set takes from it, is in range.
LEMMA LastLoggedIsPast ==
    ASSUME TypeInv, NEW d, NEW v, NEW rows \in LastRows
    PROVE  LastLogged(d, v, rows) \in Nat
<1> DEFINE ts == {e.startedAt : e \in Plays(d, v, rows)}
<1>1. \A t \in ts : t \in Nat
  <2>1. rows \subseteq log
    BY DEF LastRows
  <2> QED BY <2>1 DEF TypeInv, PlayedOK, Plays
<1>2. ts # {} => (CHOOSE t \in ts : TRUE) \in ts
  OBVIOUS
<1>3. LastLogged(d, v, rows) = IF ts = {} THEN 0 ELSE CHOOSE t \in ts : TRUE
  BY DEF LastLogged
<1> HIDE DEF ts
<1> QED BY <1>1, <1>2, <1>3

\* What restoreMoodFromEvent puts back is in range.
LEMMA RestoreHasTypes ==
    ASSUME TypeInv, NEW p \in Positions, RestoreReactions(p),
           UNCHANGED inflight
    PROVE  VotesOK'
<1>1. BangerMax \in Nat /\ SkipThreshold \in Nat
  BY ConductorAssumption
<1>2. /\ bangers \in [Positions -> 0..BangerMax]
      /\ skips \in [Positions -> 0..SkipThreshold]
  BY DEF TypeInv, VotesOK
<1>3. np.bangers \in 0..BangerMax /\ np.skips \in 0..SkipThreshold
  BY DEF TypeInv, StoresOK, NowPlaying
<1>4. Least(np.bangers, BangerMax) \in 0..BangerMax
  BY <1>1, <1>3 DEF Least
<1>5. bangers' \in [Positions -> 0..BangerMax]
  BY <1>2, <1>4 DEF RestoreReactions
<1>6. skips' \in [Positions -> 0..SkipThreshold]
  BY <1>2, <1>3 DEF RestoreReactions
<1> QED BY <1>5, <1>6 DEF TypeInv, VotesOK

LEMMA ResumeFromSQLiteHasTypes ==
    ASSUME TypeInv, ResumeFromSQLite, pc = "drive", up,
           UNCHANGED <<now, up, pc, np, log, inflight>>
    PROVE  ClubOK' /\ StoresOK' /\ VotesOK' /\ PlayedOK' /\ PastOK'
<1> DEFINE row == sqState.row
           stale == row.playing /\ now - row.startedAt > Duration[row.vid] + ResumeSlack
           kept == IF stale THEN [row EXCEPT !.playing = FALSE, !.vid = NoVideo] ELSE row
           club == IF np.at = 0 THEN kept
                   ELSE [kept EXCEPT !.auto = kept.playing /\ np.auto]
<1>1. row \in Club /\ (row.playing => row.vid \in Videos) /\ np.auto \in BOOLEAN
  BY DEF TypeInv, StoresOK, NowPlaying
<1>2. kept \in Club /\ (kept.playing => kept.vid \in Videos)
      /\ kept.pos = row.pos /\ kept.startedAt = row.startedAt
  BY <1>1 DEF Club, Vids
<1>3. club \in Club /\ (club.playing => club.vid \in Videos)
      /\ club.pos = row.pos /\ club.startedAt = row.startedAt
  <2> HIDE DEF kept
  <2>1. (kept.playing /\ np.auto) \in BOOLEAN
    BY <1>1, <1>2
  <2> QED BY <1>1, <1>2, <2>1 DEF Club
<1>4. /\ pb' = club /\ sqState' = [there |-> TRUE, row |-> [club EXCEPT !.lastBeat = 0]]
      /\ RestoreReactions(club.pos) /\ UNCHANGED sqPlayed
      /\ played' \in {played, sqPlayed}
  BY DEF ResumeFromSQLite, Saved, Kept, Stale
<1>5. InThePast(row)
  BY DEF TypeInv, PastOK
<1> HIDE DEF club, row
<1>6. ClubOK'
  BY <1>3, <1>4 DEF ClubOK, BeforeStart
<1>7. StoresOK'
  BY <1>3, <1>4 DEF StoresOK, TypeInv, Club
<1>8. VotesOK'
  BY <1>3, <1>4, RestoreHasTypes DEF Club
<1>9. PlayedOK'
  BY <1>4 DEF TypeInv, PlayedOK
<1>10. PastOK'
  <2>1. sqState'.row.pos = row.pos /\ sqState'.row.startedAt = row.startedAt
    BY <1>3, <1>4 DEF Club
  <2> QED BY <1>3, <1>4, <1>5, <2>1 DEF PastOK, InThePast, TypeInv, BeforeStart
<1> QED BY <1>6, <1>7, <1>8, <1>9, <1>10

LEMMA ResumeFromEventsHasTypes ==
    ASSUME TypeInv, ResumeFromEvents, pc = "drive", up,
           UNCHANGED <<now, up, pc, np, log, inflight>>
    PROVE  ClubOK' /\ StoresOK' /\ VotesOK' /\ PlayedOK' /\ PastOK'
<1> DEFINE club == IF np.at = 0 THEN NoClub
                   ELSE [pos |-> np.pos, dj |-> np.dj, vid |-> np.vid,
                         startedAt |-> np.startedAt, playing |-> np.vid # NoVideo,
                         auto |-> np.auto, lastBeat |-> 0]
<1>1. np \in NowPlaying
  BY DEF TypeInv, StoresOK
<1>2. NoClub \in Club /\ ~NoClub.playing
  BY PositionsRange, ConductorAssumption DEF NoClub, Club, Vids, NoVideo, NoDJ
<1>3. club \in Club /\ (club.playing => club.vid \in Videos)
  <2>1. CASE np.at = 0
    BY <1>2, <2>1
  <2>2. CASE np.at # 0
    BY <1>1, <2>2 DEF Club, NowPlaying, Vids
  <2> QED BY <2>1, <2>2
<1>4. InThePast(club)
  <2>1. InThePast(np) /\ now \in Nat \ {0}
    BY DEF TypeInv, PastOK, ControlOK
  <2> QED BY <2>1 DEF InThePast, NoClub
<1>5. pb' = club
  BY DEF ResumeFromEvents, FromNowPlaying, Announced
<1>6. \/ UNCHANGED <<played, bangers, skips, sqState, sqPlayed>>
      \/ /\ RestoreReactions(club.pos)
         /\ \E rows \in LastRows :
               played' = [d \in DJs |-> [v \in Videos |->
                   LET at == LastLogged(d, v, rows)
                   IN  IF at # 0 THEN at ELSE played[d][v]]]
         /\ sqState' = Saved(club)
         /\ sqPlayed' = IF UseSQLite THEN played' ELSE sqPlayed
  BY DEF ResumeFromEvents, FromNowPlaying, Announced
<1> HIDE DEF club
<1>7. ClubOK'
  BY <1>3, <1>5 DEF ClubOK, BeforeStart
<1>8. StoresOK' /\ PastOK'
  <2>1. CASE sqState' = sqState
    BY <1>4, <1>5, <2>1 DEF TypeInv, StoresOK, PastOK, InThePast, BeforeStart
  <2>2. CASE sqState' = [there |-> TRUE, row |-> [club EXCEPT !.lastBeat = 0]]
    <3>1. /\ sqState' \in [there : BOOLEAN, row : Club]
          /\ sqState'.row.playing = club.playing /\ sqState'.row.vid = club.vid
          /\ sqState'.row.pos = club.pos /\ sqState'.row.startedAt = club.startedAt
      BY <1>3, <2>2 DEF Club
    <3> QED BY <1>3, <1>4, <1>5, <3>1 DEF TypeInv, StoresOK, PastOK, InThePast, BeforeStart
  <2> QED BY <1>6, <2>1, <2>2 DEF Saved
<1>9. VotesOK'
  <2>1. CASE RestoreReactions(club.pos)
    BY <1>3, <2>1, RestoreHasTypes DEF Club
  <2>2. CASE UNCHANGED <<bangers, skips>>
    BY <2>2 DEF TypeInv, VotesOK
  <2> QED BY <1>6, <2>1, <2>2
<1>10. PlayedOK'
  <2>1. played' \in PlayedSet
    <3>1. CASE played' = played
      BY <3>1 DEF TypeInv, PlayedOK
    <3>2. CASE played' # played
      <4>1. PICK rows \in LastRows :
                played' = [d \in DJs |-> [v \in Videos |->
                    LET at == LastLogged(d, v, rows)
                    IN  IF at # 0 THEN at ELSE played[d][v]]]
        BY <1>6, <3>2
      <4> QED BY <4>1, LastLoggedIsPast DEF TypeInv, PlayedOK, PlayedSet
    <3> QED BY <3>1, <3>2
  <2>2. sqPlayed' \in PlayedSet
    BY <1>6, <2>1 DEF TypeInv, PlayedOK
  <2> QED BY <2>1, <2>2 DEF TypeInv, PlayedOK
<1> QED BY <1>7, <1>8, <1>9, <1>10

LEMMA ResumeHasTypes ==
    ASSUME TypeInv, Resume
    PROVE  TypeInv'
<1>1. ControlOK' /\ StageOK' /\ QueuesOK' /\ (tk \in TickState)'
  BY DEF Resume, TypeInv, ControlOK, StageOK, QueuesOK, world, dbQueue
<1>2. UNCHANGED <<now, up, pc, np, log, inflight>> /\ pc = "drive" /\ up
  BY DEF Resume
<1> QED BY <1>1, <1>2, ResumeFromSQLiteHasTypes, ResumeFromEventsHasTypes
       DEF Resume, TypeInv

\* Announcing the track in memory stores what is in memory.
LEMMA AnnounceHasTypes ==
    ASSUME TypeInv, NEW status, NEW auto \in BOOLEAN, Announce(pb, status, auto)
    PROVE  np' \in NowPlaying /\ np'.pos = pb.pos /\ np'.startedAt = pb.startedAt
<1>1. pb \in Club /\ now \in Nat
  BY DEF TypeInv, ClubOK, ControlOK
<1>2. bangers[pb.pos] \in 0..BangerMax /\ skips[pb.pos] \in 0..SkipThreshold
  BY <1>1 DEF TypeInv, VotesOK, Club
<1>3. 0 \in 0..BangerMax /\ 0 \in 0..SkipThreshold
  BY ConductorAssumption
<1> QED BY <1>1, <1>2, <1>3 DEF Announce, Announcement, NowPlaying, Club

\* The same record, beaten or stopped, keeps its type.
LEMMA BeatenHasTypes ==
    ASSUME TypeInv
    PROVE  /\ Beaten(pb) \in Club
           /\ Beaten(pb).pos = pb.pos /\ Beaten(pb).startedAt = pb.startedAt
           /\ Beaten(pb).playing = pb.playing /\ Beaten(pb).vid = pb.vid
           /\ Beaten(pb).dj = pb.dj /\ Beaten(pb).auto = pb.auto
BY DEF TypeInv, ControlOK, ClubOK, Beaten, Club

LEMMA StoppedHasTypes ==
    ASSUME NEW c \in Club
    PROVE  LET s == [c EXCEPT !.playing = FALSE, !.auto = FALSE]
           IN  s \in Club /\ ~s.playing /\ s.pos = c.pos /\ s.startedAt = c.startedAt
BY DEF Club

LEMMA SavedHasTypes ==
    ASSUME TypeInv, NEW c \in Club, c.playing => c.vid \in Videos, InThePast(c),
           sqState' = Saved(c)
    PROVE  /\ sqState' \in [there : BOOLEAN, row : Club]
           /\ sqState'.row.playing => sqState'.row.vid \in Videos
           /\ InThePast(sqState'.row)
           /\ UseSQLite => /\ sqState'.there
                           /\ sqState'.row.pos = c.pos
                           /\ sqState'.row.startedAt = c.startedAt
           /\ ~UseSQLite => UNCHANGED sqState
<1>1. CASE UseSQLite
  BY <1>1 DEF Saved, Club, InThePast
<1>2. CASE ~UseSQLite
  BY <1>2 DEF Saved, TypeInv, StoresOK, PastOK
<1> QED BY <1>1, <1>2

\* A position below the clock leaves room for the next.
LEMMA NextPosition ==
    ASSUME TypeInv, pc \notin {"idle"}, BeforeStart
    PROVE  pb.pos + 1 \in Positions /\ pb.pos + 1 <= now
<1>1. pb.pos \in Positions /\ pb.pos < now /\ now < MaxTime /\ now \in Nat
  BY DEF TypeInv, ClubOK, Club, PastOK, InThePast, ControlOK
<1> QED BY <1>1, PositionsRange

\* Auto DJ starts a track.
LEMMA StartAutoHasTypes ==
    ASSUME TypeInv, StartAuto, pc = "drive", up, loaded, UNCHANGED <<now, up, loaded>>
    PROVE  ControlOK' /\ ClubOK' /\ InThePast(pb)'
<1>1. PICK v \in tk.auto :
         pb' = [pb EXCEPT !.pos = @ + 1, !.dj = Owner, !.vid = v, !.startedAt = now,
                          !.playing = TRUE, !.auto = TRUE]
  BY DEF StartAuto
<1>2. v \in Videos /\ Owner \in Nat
  BY ConductorAssumption DEF TypeInv, TickState
<1>3. pb.pos + 1 \in Positions /\ pb.pos + 1 <= now
  BY NextPosition DEF BeforeStart
<1>4. pb' \in Club /\ pb'.playing /\ pb'.vid \in Videos
      /\ pb'.pos <= now /\ pb'.startedAt = now
  BY <1>1, <1>2, <1>3 DEF TypeInv, ClubOK, ControlOK, Club, Vids
<1>5. pc' = "autonp"
  BY DEF StartAuto
<1> QED BY <1>4, <1>5 DEF TypeInv, ControlOK, ClubOK, InThePast, BeforeStart, PCs

LEMMA EndTrackHasTypes ==
    ASSUME TypeInv, EndTrack
    PROVE  TypeInv'
<1>1. StageOK' /\ QueuesOK' /\ (tk \in TickState)' /\ StoresOK' /\ VotesOK' /\ PlayedOK'
  BY DEF EndTrack, TypeInv, StageOK, QueuesOK, StoresOK, VotesOK, PlayedOK, dbQueue,
         marks, votes, world
<1>2. ControlOK' /\ ClubOK' /\ InThePast(pb)'
  <2>1. CASE tk.djs = <<>>
    BY <2>1, StartAutoHasTypes DEF EndTrack
  <2>2. CASE tk.djs # <<>>
    BY <2>2 DEF EndTrack, TypeInv, ControlOK, ClubOK, PastOK, InThePast, BeforeStart, PCs
  <2> QED BY <2>1, <2>2
<1>3. PastOK'
  BY <1>2 DEF EndTrack, TypeInv, PastOK, InThePast, BeforeStart
<1> QED BY <1>1, <1>2, <1>3 DEF TypeInv

LEMMA BootstrapHasTypes ==
    ASSUME TypeInv, Bootstrap
    PROVE  TypeInv'
<1>1. StageOK' /\ QueuesOK' /\ StoresOK' /\ VotesOK'
  BY DEF Bootstrap, TypeInv, StageOK, QueuesOK, StoresOK, VotesOK, stores, dbQueue,
         marks, votes, world
<1>2. CASE tk.djs = <<>>
  <2>1. ControlOK' /\ ClubOK' /\ InThePast(pb)'
    BY <1>2, StartAutoHasTypes DEF Bootstrap
  <2>2. PastOK' /\ (tk \in TickState)' /\ PlayedOK'
    BY <1>2, <2>1 DEF Bootstrap, TypeInv, PastOK, InThePast, BeforeStart, PlayedOK, stores,
                      marks
  <2> QED BY <1>1, <2>1, <2>2 DEF TypeInv
<1>3. CASE tk.djs # <<>> /\ pc' = "pick" /\ UNCHANGED <<now, tk>>
  <2>1. ControlOK' /\ ClubOK' /\ (tk \in TickState)'
    BY <1>3 DEF Bootstrap, TypeInv, ControlOK, ClubOK, BeforeStart, PCs
  <2>2. PastOK' /\ PlayedOK'
    BY <1>3 DEF Bootstrap, TypeInv, PastOK, InThePast, BeforeStart, PlayedOK, stores, marks
  <2> QED BY <1>1, <2>1, <2>2 DEF TypeInv
<1>4. CASE tk.djs # <<>> /\ EndTick
  <2>1. UNCHANGED <<up, loaded, pb, sqState, np, played, sqPlayed, log>> /\ up
    BY <1>4 DEF Bootstrap, stores, marks
  <2>2. now' \in Nat \ {0} /\ now' = now + 1 /\ pc' = "idle" /\ (tk \in TickState)'
    BY <1>4, <2>1, EndOfTick
  <2>3. ControlOK' /\ ClubOK' /\ PlayedOK'
    BY <2>1, <2>2 DEF TypeInv, ControlOK, ClubOK, PlayedOK, BeforeStart, PCs
  <2>4. PastOK'
    <3>1. \A r \in {pb, np, sqState.row} :
             /\ r.pos < now' /\ r.startedAt < now'
             /\ r.pos <= now' /\ r.startedAt <= now'
      BY <1>4, <2>1, EndOfTick
    <3> QED BY <2>1, <3>1 DEF PastOK, InThePast
  <2> QED BY <1>1, <2>2, <2>3, <2>4 DEF TypeInv
<1> QED BY <1>2, <1>3, <1>4 DEF Bootstrap, Retry

LEMMA HoldHasTypes ==
    ASSUME TypeInv, HoldTrack
    PROVE  TypeInv'
<1>1. StageOK' /\ QueuesOK' /\ VotesOK'
  BY DEF HoldTrack, TypeInv, StageOK, QueuesOK, VotesOK, dbQueue, marks, votes, world
<1>2. UNCHANGED <<up, loaded, sqState, played, sqPlayed, log>> /\ up
  BY DEF HoldTrack, marks
<1>3. now' \in Nat \ {0} /\ now' = now + 1 /\ pc' = "idle" /\ (tk \in TickState)'
  BY <1>2, EndOfTick DEF HoldTrack
<1>4. \A r \in {pb, np, sqState.row} :
         r.pos < now' /\ r.startedAt < now' /\ r.pos <= now' /\ r.startedAt <= now'
  BY <1>2, EndOfTick DEF HoldTrack
<1>5. pb' \in {pb, Beaten(pb)}
  BY DEF HoldTrack
<1>6. np' \in NowPlaying /\ (np' = np \/ (np'.pos = pb.pos /\ np'.startedAt = pb.startedAt))
  <2>1. CASE UNCHANGED np
    BY <2>1 DEF TypeInv, StoresOK
  <2>2. CASE Announce(pb, "playing", tk.auto # {})
    BY <2>2, AnnounceHasTypes DEF Announce
  <2> QED BY <2>1, <2>2 DEF HoldTrack
<1>7. /\ pb' \in Club /\ pb'.pos = pb.pos /\ pb'.startedAt = pb.startedAt
      /\ pb'.playing => pb'.vid \in Videos
  BY <1>5, BeatenHasTypes DEF TypeInv, ClubOK
<1>8. ControlOK' /\ ClubOK' /\ PlayedOK' /\ StoresOK'
  BY <1>2, <1>3, <1>6, <1>7
     DEF TypeInv, ControlOK, ClubOK, PlayedOK, StoresOK, BeforeStart, PCs
<1>9. PastOK'
  BY <1>2, <1>4, <1>6, <1>7 DEF PastOK, InThePast
<1> QED BY <1>1, <1>3, <1>8, <1>9 DEF TypeInv

\* The playback is stopped and, when there was a track, announced as paused.
LEMMA StoppingHasTypes ==
    ASSUME TypeInv, up, loaded, BeforeStart, pc # "idle",
           pc' \in {"forget", "stopped"},
           UNCHANGED <<now, up, loaded, sqState>>,
           \/ UNCHANGED np /\ pb' = [pb EXCEPT !.playing = FALSE, !.auto = FALSE]
           \/ /\ Announce(pb, "paused", FALSE)
              /\ pb' = [Beaten(pb) EXCEPT !.playing = FALSE, !.auto = FALSE]
    PROVE  /\ ControlOK' /\ ClubOK' /\ StoresOK' /\ PastOK'
           /\ pb'.pos = pb.pos /\ pb'.startedAt = pb.startedAt
           /\ np' = np \/ (np'.pos = pb.pos /\ np'.startedAt = pb.startedAt)
<1>1. np' \in NowPlaying /\ (np' = np \/ (np'.pos = pb.pos /\ np'.startedAt = pb.startedAt))
  <2>1. CASE UNCHANGED np
    BY <2>1 DEF TypeInv, StoresOK
  <2>2. CASE Announce(pb, "paused", FALSE)
    BY <2>2, AnnounceHasTypes DEF Announce
  <2> QED BY <2>1, <2>2
<1>2. pb' \in Club /\ ~pb'.playing /\ pb'.pos = pb.pos /\ pb'.startedAt = pb.startedAt
  <2>1. pb \in Club /\ Beaten(pb) \in Club
    BY BeatenHasTypes DEF TypeInv, ClubOK
  <2> QED BY <2>1, BeatenHasTypes, StoppedHasTypes
<1>3. ControlOK' /\ ClubOK' /\ StoresOK'
  BY <1>1, <1>2 DEF TypeInv, ControlOK, ClubOK, StoresOK, BeforeStart, PCs
<1>4. PastOK'
  BY <1>1, <1>2 DEF TypeInv, PastOK, InThePast, BeforeStart
<1> QED BY <1>1, <1>2, <1>3, <1>4

LEMMA StopUndrivenHasTypes ==
    ASSUME TypeInv, StopUndriven
    PROVE  TypeInv'
<1>1. StageOK' /\ QueuesOK' /\ VotesOK' /\ PlayedOK' /\ (tk \in TickState)'
  BY DEF StopUndriven, TypeInv, StageOK, QueuesOK, VotesOK, PlayedOK, dbQueue, marks,
         votes, world
<1>2. ControlOK' /\ ClubOK' /\ StoresOK' /\ PastOK'
  BY StoppingHasTypes DEF StopUndriven, BeforeStart
<1> QED BY <1>1, <1>2 DEF TypeInv

LEMMA StopHasTypes ==
    ASSUME TypeInv, Stop
    PROVE  TypeInv'
<1>1. StageOK' /\ QueuesOK' /\ VotesOK' /\ PlayedOK' /\ (tk \in TickState)'
  BY DEF Stop, TypeInv, StageOK, QueuesOK, VotesOK, PlayedOK, dbQueue, marks, votes, world
<1>2. loaded
  BY DEF Stop, TypeInv, ControlOK
<1>3. ControlOK' /\ ClubOK' /\ StoresOK' /\ PastOK'
  BY <1>2, StoppingHasTypes DEF Stop, BeforeStart
<1> QED BY <1>1, <1>3 DEF TypeInv

\* A tick ends with the state of the club saved, or not.
LEMMA SavingHasTypes ==
    ASSUME TypeInv, up, EndTick, sqState' = Saved(pb) \/ UNCHANGED sqState,
           UNCHANGED <<up, np, played, sqPlayed, log>>,
           \/ UNCHANGED <<loaded, pb>>
           \/ loaded' = FALSE /\ pb' = NoClub
    PROVE  ControlOK' /\ (tk \in TickState)' /\ ClubOK' /\ StoresOK' /\ PlayedOK' /\ PastOK'
<1>1. now' \in Nat \ {0} /\ now' = now + 1 /\ pc' = "idle" /\ (tk \in TickState)'
  BY EndOfTick
<1>2. \A r \in {pb, np, sqState.row} :
         r.pos < now' /\ r.startedAt < now' /\ r.pos <= now' /\ r.startedAt <= now'
  BY EndOfTick
<1>3. /\ sqState' \in [there : BOOLEAN, row : Club]
      /\ sqState'.row.playing => sqState'.row.vid \in Videos
      /\ \/ sqState'.row = sqState.row
         \/ sqState'.row.pos = pb.pos /\ sqState'.row.startedAt = pb.startedAt
  <2>1. pb \in Club /\ (pb.playing => pb.vid \in Videos) /\ InThePast(pb)
    BY DEF TypeInv, ClubOK, PastOK
  <2>2. CASE UNCHANGED sqState
    BY <2>2 DEF TypeInv, StoresOK
  <2>3. CASE sqState' = Saved(pb)
    BY <2>1, <2>3, SavedHasTypes
  <2> QED BY <2>2, <2>3
<1>4. NoClub \in Club /\ ~NoClub.playing /\ NoClub.pos = 0 /\ NoClub.startedAt = 0
  BY PositionsRange, ConductorAssumption DEF NoClub, Club, Vids, NoVideo, NoDJ
<1>5. ControlOK' /\ ClubOK' /\ StoresOK' /\ PlayedOK'
  <2>1. ControlOK'
    BY <1>1 DEF TypeInv, ControlOK, PCs
  <2>2. ClubOK'
    BY <1>1, <1>4 DEF TypeInv, ClubOK, BeforeStart
  <2>3. StoresOK'
    BY <1>3 DEF TypeInv, StoresOK
  <2>4. PlayedOK'
    BY <1>1 DEF TypeInv, ControlOK, PlayedOK
  <2> QED BY <2>1, <2>2, <2>3, <2>4
<1>6. PastOK'
  <2>1. 0 < now' /\ 0 <= now'
    BY <1>1
  <2> QED BY <1>2, <1>3, <1>4, <2>1 DEF PastOK, InThePast
<1> QED BY <1>1, <1>5, <1>6

LEMMA ForgetHasTypes ==
    ASSUME TypeInv, Forget
    PROVE  TypeInv'
<1>1. StageOK' /\ QueuesOK' /\ VotesOK'
  BY DEF Forget, TypeInv, StageOK, QueuesOK, VotesOK, dbQueue, marks, votes, world
<1> QED BY <1>1, SavingHasTypes DEF Forget, TypeInv, marks

LEMMA SaveStoppedHasTypes ==
    ASSUME TypeInv, SaveStopped
    PROVE  TypeInv'
<1>1. StageOK' /\ QueuesOK' /\ VotesOK'
  BY DEF SaveStopped, TypeInv, StageOK, QueuesOK, VotesOK, dbQueue, marks, votes, world
<1> QED BY <1>1, SavingHasTypes DEF SaveStopped, TypeInv, marks

LEMMA SaveTrackHasTypes ==
    ASSUME TypeInv, SaveTrack
    PROVE  TypeInv'
<1>1. StageOK' /\ QueuesOK'
  BY DEF SaveTrack, TypeInv, StageOK, QueuesOK, dbQueue, marks, world
<1>2. VotesOK'
  <2>1. 0 \in 0..BangerMax /\ 0 \in 0..SkipThreshold
    BY ConductorAssumption
  <2> QED BY <2>1 DEF SaveTrack, TypeInv, VotesOK
<1> QED BY <1>1, <1>2, SavingHasTypes DEF SaveTrack, TypeInv, marks

-----------------------------------------------------------------------------
(* The steps of advance.                                                   *)

\* A row of the matrix has a place for every track of the queue.
LEMMA RowIsAsLong ==
    ASSUME TypeInv, NEW e \in DJs, NEW online
    PROVE  /\ PlayableRow(e, online) \in Seq(BOOLEAN)
           /\ Len(PlayableRow(e, online)) = Len(tk.queues[e])
<1>1. tk.queues[e] \in Seq(Track)
  BY DEF TypeInv, TickState
<1>2. Len(tk.queues[e]) \in Nat
  BY <1>1, LenProperties
<1> QED BY <1>2 DEF PlayableRow

\* A picked slot names a DJ on stage and a track of that DJ's queue.
LEMMA PickIsOnStage ==
    ASSUME TypeInv, NEW online,
           LET mat == [i \in 1..Len(tk.djs) |-> PlayableRow(tk.djs[i], online)]
           IN  FairNext(tk.djs, pb.dj, mat) # NoSlot
    PROVE  LET mat == [i \in 1..Len(tk.djs) |-> PlayableRow(tk.djs[i], online)]
               slot == FairNext(tk.djs, pb.dj, mat)
               d == tk.djs[slot[1]]
           IN  d \in DJs /\ tk.queues[d][slot[2]].vid \in Videos
<1> DEFINE n == Len(tk.djs)
           mat == [i \in 1..n |-> PlayableRow(tk.djs[i], online)]
           slot == FairNext(tk.djs, pb.dj, mat)
           d == tk.djs[slot[1]]
           q == tk.queues[d]
<1>1. tk.djs \in Seq(DJs) /\ n \in Nat /\ tk.queues \in [DJs -> Seq(Track)]
  BY LenProperties DEF TypeInv, TickState
<1>2. \A i \in 1..n : tk.djs[i] \in DJs
  BY <1>1
<1>3. \A i \in 1..n : PlayableRow(tk.djs[i], online) \in Seq(BOOLEAN)
  BY <1>2, RowIsAsLong
<1>4. mat \in Seq(Seq(BOOLEAN))
  BY <1>1, <1>3
<1>5. slot[1] \in 1..n /\ slot[2] \in 1..Len(mat[slot[1]])
  BY <1>1, <1>4, FairNextIsFair
<1>6. d \in DJs /\ mat[slot[1]] = PlayableRow(d, online)
  BY <1>2, <1>5
<1>7. q \in Seq(Track) /\ Len(q) \in Nat
  BY <1>1, <1>6, LenProperties
<1>8. Len(PlayableRow(d, online)) = Len(q)
  BY <1>6, RowIsAsLong
<1>9. slot[2] \in 1..Len(q)
  BY <1>5, <1>6, <1>8
<1>10. q[slot[2]] \in Track
  <2> HIDE DEF q, slot
  <2> QED BY <1>7, <1>9
<1> QED BY <1>6, <1>10 DEF Track

LEMMA ResetHasTypes ==
    ASSUME NEW set \in PlayedSet, NEW online
    PROVE  ResetCycled(set, online) \in PlayedSet
BY DEF ResetCycled, PlayedSet

LEMMA PickHasTypes ==
    ASSUME TypeInv, Pick
    PROVE  TypeInv'
<1>1. StageOK' /\ QueuesOK' /\ VotesOK' /\ StoresOK' /\ (tk \in TickState)'
  BY DEF Pick, TypeInv, StageOK, QueuesOK, VotesOK, StoresOK, dbQueue, votes, world
<1>2. PICK online \in OnlineSets :
        LET mat == [i \in 1..Len(tk.djs) |-> PlayableRow(tk.djs[i], online)]
            slot == FairNext(tk.djs, pb.dj, mat)
            d == tk.djs[slot[1]]
            v == tk.queues[d][slot[2]].vid
            cleared == ResetCycled(played, online)
            sqCleared == IF UseSQLite THEN ResetCycled(sqPlayed, online) ELSE sqPlayed
        IN  \/ /\ slot = NoSlot
               /\ played' = cleared /\ sqPlayed' = sqCleared
               /\ pc' = "stop" /\ UNCHANGED pb
            \/ /\ slot # NoSlot
               /\ pb' = [pb EXCEPT !.pos = @ + 1, !.dj = d, !.vid = v,
                                   !.startedAt = now, !.playing = TRUE, !.auto = FALSE]
               /\ played' = [cleared EXCEPT ![d][v] = now]
               /\ sqPlayed' = IF UseSQLite THEN [sqCleared EXCEPT ![d][v] = now]
                              ELSE sqPlayed
               /\ pc' = "mark"
  BY DEF Pick
<1> DEFINE mat == [i \in 1..Len(tk.djs) |-> PlayableRow(tk.djs[i], online)]
           slot == FairNext(tk.djs, pb.dj, mat)
           d == tk.djs[slot[1]]
           v == tk.queues[d][slot[2]].vid
           cleared == ResetCycled(played, online)
           sqCleared == IF UseSQLite THEN ResetCycled(sqPlayed, online) ELSE sqPlayed
<1>3. cleared \in PlayedSet /\ sqCleared \in PlayedSet
  BY ResetHasTypes DEF TypeInv, PlayedOK
<1>4. slot # NoSlot => d \in DJs /\ v \in Videos
  BY PickIsOnStage
<1>5. \/ /\ slot = NoSlot
         /\ played' = cleared /\ sqPlayed' = sqCleared
         /\ pc' = "stop" /\ UNCHANGED pb
      \/ /\ slot # NoSlot
         /\ pb' = [pb EXCEPT !.pos = @ + 1, !.dj = d, !.vid = v,
                             !.startedAt = now, !.playing = TRUE, !.auto = FALSE]
         /\ played' = [cleared EXCEPT ![d][v] = now]
         /\ sqPlayed' = IF UseSQLite THEN [sqCleared EXCEPT ![d][v] = now] ELSE sqPlayed
         /\ pc' = "mark"
  BY <1>2
<1>6. now \in Nat /\ UNCHANGED <<now, up, loaded, np, sqState, log>>
      /\ pc = "pick" /\ loaded /\ up /\ now < MaxTime
  BY DEF Pick, TypeInv, ControlOK
<1> HIDE DEF slot, d, v, cleared, sqCleared
<1>7. PlayedOK'
  <2>1. played \in PlayedSet /\ sqPlayed \in PlayedSet
    BY DEF TypeInv, PlayedOK
  <2>2. ASSUME NEW set \in PlayedSet, NEW e \in DJs, NEW w \in Videos
        PROVE  [set EXCEPT ![e][w] = now] \in PlayedSet
    BY <1>6 DEF PlayedSet
  <2>3. played' \in PlayedSet /\ sqPlayed' \in PlayedSet
    BY <1>3, <1>4, <1>5, <2>1, <2>2
  <2> QED BY <1>6, <2>3 DEF TypeInv, PlayedOK
<1>8. CASE pc' = "stop" /\ UNCHANGED pb
  BY <1>1, <1>6, <1>7, <1>8
     DEF TypeInv, ControlOK, ClubOK, PastOK, InThePast, BeforeStart, PCs
<1>9. CASE slot # NoSlot /\ pc' = "mark"
  <2>1. pb.pos + 1 \in Positions /\ pb.pos + 1 <= now
    BY <1>6, NextPosition DEF BeforeStart
  <2>2. DJs \subseteq Nat /\ Videos \subseteq Nat /\ Videos \subseteq Vids
    BY ConductorAssumption DEF Vids
  <2>3. pb' = [pb EXCEPT !.pos = @ + 1, !.dj = d, !.vid = v,
                         !.startedAt = now, !.playing = TRUE, !.auto = FALSE]
    BY <1>5, <1>9
  <2>4. pb' \in Club /\ pb'.playing /\ pb'.vid \in Videos /\ pb'.dj \in DJs
        /\ pb'.pos <= now /\ pb'.startedAt = now
    BY <1>4, <1>6, <1>9, <2>1, <2>2, <2>3 DEF TypeInv, ClubOK, Club
  <2>5. ControlOK' /\ ClubOK'
    BY <1>6, <1>9, <2>4 DEF TypeInv, ControlOK, ClubOK, BeforeStart, PCs
  <2>6. PastOK'
    BY <1>6, <1>9, <2>4 DEF TypeInv, PastOK, InThePast, BeforeStart
  <2> QED BY <1>1, <1>7, <2>5, <2>6 DEF TypeInv
<1> QED BY <1>5, <1>8, <1>9

LEMMA MarkHasTypes ==
    ASSUME TypeInv, MarkTrackOff
    PROVE  TypeInv'
<1> DEFINE q == queueIdx[pb.dj]
           hit == {i \in 1..Len(q.tracks) : q.tracks[i].vid = pb.vid /\ q.tracks[i].active}
           off == [i \in 1..Len(q.tracks) |->
                      IF i \in hit THEN [q.tracks[i] EXCEPT !.active = FALSE]
                      ELSE q.tracks[i]]
           row == [at |-> now, relay |-> TRUE, tracks |-> off]
<1>1. StageOK' /\ VotesOK' /\ StoresOK' /\ PlayedOK'
  BY DEF MarkTrackOff, TypeInv, StageOK, VotesOK, StoresOK, PlayedOK, votes, world, marks
<1>2. /\ pc = "mark" /\ up /\ loaded /\ pc' \in {"np", "index"}
      /\ UNCHANGED <<now, up, loaded, pb, np, sqState, queueIdx, dbOwn>>
  BY DEF MarkTrackOff, TypeInv, ControlOK, marks
<1>3. ControlOK' /\ PastOK'
  BY <1>2 DEF TypeInv, ControlOK, PastOK, InThePast, BeforeStart, PCs
<1>4. ClubOK'
  BY <1>2 DEF TypeInv, ClubOK, BeforeStart
<1>5. row \in Row
  <2>1. q \in Row
    BY <1>2 DEF TypeInv, ClubOK, QueuesOK
  <2>2. q.tracks \in Seq(Track) /\ Len(q.tracks) \in Nat
    BY <2>1, LenProperties DEF Row
  <2>3. \A i \in 1..Len(q.tracks) : q.tracks[i] \in Track
    BY <2>2
  <2>4. \A t \in Track : [t EXCEPT !.active = FALSE] \in Track
    BY DEF Track
  <2>5. off \in Seq(Track)
    <3> HIDE DEF q, hit
    <3> QED BY <2>2, <2>3, <2>4
  <2> HIDE DEF off
  <2> QED BY <2>5 DEF Row, TypeInv, ControlOK
<1>6. \/ UNCHANGED <<tk, dbRelay>>
      \/ tk' = [tk EXCEPT !.row = row] /\ dbRelay' = [dbRelay EXCEPT ![pb.dj] = row]
  BY DEF MarkTrackOff
<1> HIDE DEF row
<1>7. QueuesOK'
  BY <1>2, <1>5, <1>6 DEF TypeInv, QueuesOK
<1>8. (tk \in TickState)'
  BY <1>5, <1>6 DEF TypeInv, TickState
<1> QED BY <1>1, <1>3, <1>4, <1>7, <1>8 DEF TypeInv

LEMMA IndexHasTypes ==
    ASSUME TypeInv, IndexMark
    PROVE  TypeInv'
<1>1. StageOK' /\ VotesOK' /\ StoresOK' /\ (tk \in TickState)'
  BY DEF IndexMark, TypeInv, StageOK, VotesOK, StoresOK, votes, world, dbQueue
<1>2. /\ pc = "index" /\ up /\ loaded /\ pc' = "np" /\ pb.dj \in DJs
      /\ UNCHANGED <<now, up, loaded, pb, np, sqState, log, dbOwn, dbRelay>>
  BY DEF IndexMark, TypeInv, ControlOK, ClubOK, dbQueue
<1>3. ControlOK' /\ PastOK' /\ ClubOK'
  BY <1>2 DEF TypeInv, ControlOK, PastOK, InThePast, ClubOK, BeforeStart, PCs
<1>4. QueuesOK'
  <2>1. tk.row \in Row /\ queueIdx \in [DJs -> Row]
    BY DEF TypeInv, TickState, QueuesOK
  <2>2. queueIdx' = [queueIdx EXCEPT ![pb.dj] = Newer(tk.row, @)]
    BY DEF IndexMark
  <2>3. queueIdx' \in [DJs -> Row]
    BY <1>2, <2>1, <2>2 DEF Newer
  <2> QED BY <1>2, <2>3 DEF TypeInv, QueuesOK
<1>5. PlayedOK'
  <2>1. \A set \in PlayedSet :
           [set EXCEPT ![pb.dj] = [v \in Videos |-> 0]] \in PlayedSet
    BY <1>2 DEF PlayedSet
  <2>2. played' \in PlayedSet /\ sqPlayed' \in PlayedSet
    BY <2>1 DEF IndexMark, TypeInv, PlayedOK
  <2> QED BY <1>2, <2>2 DEF TypeInv, PlayedOK
<1> QED BY <1>1, <1>3, <1>4, <1>5 DEF TypeInv

LEMMA AnnounceTrackHasTypes ==
    ASSUME TypeInv, AnnounceTrack
    PROVE  TypeInv'
<1>1. StageOK' /\ VotesOK' /\ QueuesOK' /\ PlayedOK' /\ (tk \in TickState)'
  BY DEF AnnounceTrack, TypeInv, StageOK, VotesOK, QueuesOK, PlayedOK, votes, marks, dbQueue
<1>2. /\ pc \in {"np", "autonp"} /\ pc' \in {"play", "autoplay"} /\ up /\ loaded
      /\ UNCHANGED <<now, up, loaded, sqState>> /\ pb' = Beaten(pb)
  BY DEF AnnounceTrack, TypeInv, ControlOK
<1>3. np' \in NowPlaying /\ np'.pos = pb.pos /\ np'.startedAt = pb.startedAt
  <2>1. pb.auto \in BOOLEAN
    BY DEF TypeInv, ClubOK, Club
  <2> QED BY <2>1, AnnounceHasTypes DEF AnnounceTrack, Announce
<1>4. ControlOK' /\ StoresOK'
  BY <1>2, <1>3 DEF TypeInv, ControlOK, StoresOK, PCs
<1>5. ClubOK'
  BY <1>2, BeatenHasTypes DEF TypeInv, ClubOK, BeforeStart
<1>6. PastOK'
  BY <1>2, <1>3, BeatenHasTypes DEF TypeInv, PastOK, InThePast, BeforeStart
<1> QED BY <1>1, <1>4, <1>5, <1>6 DEF TypeInv

LEMMA LogHasTypes ==
    ASSUME TypeInv, LogPlay
    PROVE  TypeInv'
<1>1. StageOK' /\ VotesOK' /\ QueuesOK' /\ StoresOK'
  BY DEF LogPlay, TypeInv, StageOK, VotesOK, QueuesOK, StoresOK, votes, marks, dbQueue, world
<1>2. /\ pc \in {"play", "autoplay"} /\ up /\ loaded
      /\ UNCHANGED <<up, loaded, pb, np, sqState, played, sqPlayed>>
      /\ log' = log \cup {[pos |-> pb.pos, dj |-> pb.dj, vid |-> pb.vid,
                           startedAt |-> pb.startedAt]}
  BY DEF LogPlay, TypeInv, ControlOK, marks
<1>3. /\ pb.startedAt \in Nat /\ pb.startedAt <= now /\ now \in Nat \ {0}
  BY DEF TypeInv, ClubOK, Club, PastOK, InThePast, ControlOK
<1>4. CASE pc' = "save" /\ UNCHANGED <<now, tk>>
  <2>1. PlayedOK'
    BY <1>2, <1>3, <1>4 DEF TypeInv, PlayedOK
  <2>2. ControlOK' /\ ClubOK' /\ PastOK' /\ (tk \in TickState)'
    BY <1>2, <1>4 DEF TypeInv, ControlOK, ClubOK, PastOK, InThePast, BeforeStart, PCs
  <2> QED BY <1>1, <2>1, <2>2 DEF TypeInv
<1>5. CASE EndTick
  <2>1. now' \in Nat \ {0} /\ now' = now + 1 /\ pc' = "idle" /\ (tk \in TickState)'
    BY <1>2, <1>5, EndOfTick
  <2>2. \A r \in {pb, np, sqState.row} :
           r.pos < now' /\ r.startedAt < now' /\ r.pos <= now' /\ r.startedAt <= now'
    BY <1>2, <1>5, EndOfTick
  <2>3. PlayedOK'
    BY <1>2, <1>3, <2>1 DEF TypeInv, PlayedOK
  <2>4. ControlOK' /\ ClubOK'
    BY <1>2, <2>1 DEF TypeInv, ControlOK, ClubOK, BeforeStart, PCs
  <2>5. PastOK'
    BY <1>2, <2>2 DEF PastOK, InThePast
  <2> QED BY <1>1, <2>1, <2>3, <2>4, <2>5 DEF TypeInv
<1> QED BY <1>4, <1>5 DEF LogPlay

-----------------------------------------------------------------------------
(* Crash and restart.                                                      *)

LEMMA CrashHasTypes ==
    ASSUME TypeInv, Crash
    PROVE  TypeInv'
<1>1. StageOK' /\ StoresOK'
  BY DEF Crash, TypeInv, StageOK, StoresOK, stores
<1>2. (tk \in TickState)' /\ (NoQueue \in Row)
  BY DEF Crash, NoTick, TickState, NoQueue, Row
<1>3. QueuesOK'
  BY <1>2 DEF Crash, TypeInv, QueuesOK, stores, dbQueue
<1>4. VotesOK'
  BY ConductorAssumption DEF Crash, VotesOK
<1>5. PlayedOK'
  BY DEF Crash, TypeInv, PlayedOK, PlayedSet, stores
<1>6. NoClub \in Club /\ ~NoClub.playing /\ NoClub.pos = 0 /\ NoClub.startedAt = 0
  BY PositionsRange, ConductorAssumption DEF NoClub, Club, Vids, NoVideo, NoDJ
<1>7. /\ ~up' /\ up' \in BOOLEAN /\ pc' = "idle" /\ loaded' = FALSE
      /\ pb' = NoClub /\ UNCHANGED <<now, np, sqState>>
  BY DEF Crash, stores
<1>8. ControlOK' /\ ClubOK'
  BY <1>6, <1>7 DEF TypeInv, ControlOK, ClubOK, BeforeStart, PCs
<1>9. PastOK'
  BY <1>6, <1>7 DEF TypeInv, PastOK, InThePast, ControlOK
<1> QED BY <1>1, <1>2, <1>3, <1>4, <1>5, <1>8, <1>9 DEF TypeInv

LEMMA RestartHasTypes ==
    ASSUME TypeInv, NEW t \in Downtimes, Restart(t)
    PROVE  TypeInv'
<1>1. t \in Nat \ {0}
  BY ConductorAssumption
<1>2. /\ up' = TRUE /\ pc = "idle" /\ now' = now + t
      /\ UNCHANGED <<pc, tk, loaded, pb, dbOwn, dbRelay, np, sqState, sqPlayed, log,
                     played, stage, armed, bangers, skips, inflight>>
  BY DEF Restart, TypeInv, ControlOK, stores, dbQueue, votes, world
<1>3. now \in Nat \ {0} /\ now' \in Nat \ {0} /\ now < now'
  BY <1>1, <1>2 DEF TypeInv, ControlOK
<1>4. StageOK' /\ VotesOK' /\ StoresOK' /\ (tk \in TickState)'
  BY <1>2 DEF TypeInv, StageOK, VotesOK, StoresOK
<1>5. QueuesOK'
  <2>1. \A d \in DJs : queueIdx'[d] \in {dbOwn[d], dbRelay[d]}
    BY DEF Restart, Replaced
  <2>2. queueIdx' \in [DJs -> UNION {{dbOwn[d], dbRelay[d]} : d \in DJs}]
    BY DEF Restart
  <2>3. queueIdx' \in [DJs -> Row]
    BY <2>1, <2>2 DEF TypeInv, QueuesOK
  <2> QED BY <1>2, <2>3 DEF TypeInv, QueuesOK
<1>6. PlayedOK'
  BY <1>2, <1>3 DEF TypeInv, PlayedOK
<1>7. ControlOK' /\ ClubOK'
  BY <1>2, <1>3 DEF TypeInv, ControlOK, ClubOK, BeforeStart, PCs
<1>8. PastOK'
  <2>1. \A r \in {pb, np, sqState.row} :
           /\ r.pos \in Nat /\ r.startedAt \in Nat
           /\ r.pos <= now /\ r.startedAt <= now
    BY PositionsRange
       DEF TypeInv, ClubOK, StoresOK, Club, NowPlaying, PastOK, InThePast
  <2>2. \A r \in {pb, np, sqState.row} :
           r.pos < now' /\ r.startedAt < now' /\ r.pos <= now' /\ r.startedAt <= now'
    BY <1>3, <2>1
  <2> QED BY <1>2, <2>2 DEF PastOK, InThePast
<1> QED BY <1>4, <1>5, <1>6, <1>7, <1>8 DEF TypeInv

-----------------------------------------------------------------------------
(* The theorem.                                                            *)

LEMMA NextHasTypes == TypeInv /\ [Next]_vars => TypeInv'
<1> SUFFICES ASSUME TypeInv, [Next]_vars PROVE TypeInv'
  OBVIOUS
<1>1. CASE Clients
  BY <1>1, JoinHasTypes, LeaveHasTypes, ArmHasTypes, PublishHasTypes, RequestHasTypes,
     CheckHasTypes, ReportHasTypes DEF Clients
<1>2. CASE Count
  BY <1>2, CountHasTypes DEF Count
<1>3. CASE Tick
  BY <1>3, BeginHasTypes, ResumeHasTypes, EndTrackHasTypes, HoldHasTypes,
     BootstrapHasTypes, StopUndrivenHasTypes, ForgetHasTypes, PickHasTypes,
     MarkHasTypes, IndexHasTypes, AnnounceTrackHasTypes, LogHasTypes,
     SaveTrackHasTypes, StopHasTypes, SaveStoppedHasTypes DEF Tick
<1>4. CASE Crash
  BY <1>4, CrashHasTypes
<1>5. CASE Restarts
  BY <1>5, RestartHasTypes DEF Restarts
<1>6. CASE UNCHANGED vars
  <2>1. UNCHANGED <<now, up, pc, tk, loaded, pb, stage, armed, dbOwn, dbRelay, np, log,
                    sqState, sqPlayed, queueIdx, played, bangers, skips, inflight>>
    BY <1>6 DEF vars, stores, dbQueue, marks, votes, world
  <2>2. StageOK' /\ QueuesOK' /\ VotesOK'
    BY <2>1 DEF TypeInv, StageOK, QueuesOK, VotesOK
  <2> QED BY <2>1, <2>2, ClientFrame DEF TypeInv
<1> QED BY <1>1, <1>2, <1>3, <1>4, <1>5, <1>6 DEF Next

LEMMA TypesAlways == Spec => []TypeInv
BY InitHasTypes, NextHasTypes, PTL DEF Spec

\* Whatever the DJs publish, the members report, the clocks of clients show
\* and the relay crashes in between, memory and the stores keep their types:
\* no counter of reactions leaves its cap, no position its range, and a track
\* that plays is one of the tracks.
THEOREM TypeCorrect == Spec => []TypeOK
<1>1. TypeInv => TypeOK
  BY TypeInvImpliesTypeOK
<1> QED BY <1>1, TypesAlways, PTL

-----------------------------------------------------------------------------
(* Turns on a growing stage.                                               *)

NoneTwice(s) == \A i, j \in 1..Len(s) : s[i] = s[j] => i = j

\* How many DJs of the stage play.
Playing == Least(Len(stage), MaxDJs)

\* The turns between the one of place l and the one of place i, of n places.
Gap(l, i, n) == IF i > l THEN i - l - 1 ELSE n + i - l - 1

Calm == \A d \in DJs : bypass[d] = 0

StageSane ==
    /\ NoneTwice(stage) /\ NoneTwice(tk.djs)
    /\ Len(tk.djs) <= MaxDJs
    /\ pc = "forget" => tk.djs = <<>>

\* The picks that passed over d and the turns still before d's fit on the stage.
TurnComes(d) ==
    \E i, l \in 1..Playing :
        /\ stage[i] = d /\ stage[l] = pb.dj
        /\ bypass[d] + Gap(l, i, Playing) < Playing

PassedOver ==
    /\ bypass \in [DJs -> Nat]
    /\ NoDJStarves
    /\ \A d \in DJs : bypass[d] > 0 =>
          d # pb.dj /\ \E i \in 1..Len(stage) : stage[i] = d
    /\ \A d \in DJs : bypass[d] > 1 => TurnComes(d)
    /\ ~loaded => Calm

\* A tick that has not picked yet sees the first DJs of the stage, unless
\* somebody left since it began.
TickSeesStage ==
    pc \in {"drive", "pick", "forget"} =>
        \/ Calm
        \/ /\ tk.djs # <<>> /\ Len(tk.djs) <= Playing
           /\ \A i \in 1..Len(tk.djs) : tk.djs[i] = stage[i]

FairInv == StageSane /\ PassedOver /\ TickSeesStage

\* A pick brings the turn nearer to every place it passes over; more places
\* may have come to the stage since the tick began.
LEMMA GapShrinks ==
    ASSUME NEW m \in Nat \ {0}, NEW n \in Nat, m <= n,
           NEW l \in 1..m, NEW i \in 1..m, NEW off \in 0..(m - 1), l # i,
           Turn(l, off, m) # i, \A p \in 0..(off - 1) : Turn(l, p, m) # i
    PROVE  Gap(Turn(l, off, m), i, n) < Gap(l, i, n)
<1> DEFINE o == Gap(l, i, m)
           s == Turn(l, off, m)
<1>1. o \in 0..(m - 1) /\ o = (IF i > l THEN i - l - 1 ELSE m + i - l - 1)
  BY DEF Gap
<1>2. Turn(l, o, m) = IF l + o < m THEN l + o + 1 ELSE l + o - m + 1
  BY <1>1, TurnWraps
<1>3. Turn(l, o, m) = i
  BY <1>1, <1>2
<1>4. off < o
  BY <1>1, <1>3
<1>5. s = IF l + off < m THEN l + off + 1 ELSE l + off - m + 1
  BY TurnWraps
<1> HIDE DEF o, s
<1> QED BY <1>1, <1>4, <1>5 DEF Gap, s

LEMMA PlayingRange ==
    ASSUME TypeInv
    PROVE  /\ Playing \in Nat /\ Playing <= Len(stage) /\ Playing <= MaxDJs
           /\ Len(stage) \in Nat /\ MaxDJs \in Nat \ {0}
           /\ Len(stage) <= MaxDJs => Playing = Len(stage)
           /\ Len(stage) > MaxDJs => Playing = MaxDJs
<1>1. Len(stage) \in Nat /\ MaxDJs \in Nat \ {0}
  BY ConductorAssumption, LenProperties DEF TypeInv, StageOK, ConductorAssumption
<1> QED BY <1>1 DEF Playing, Least

\* What most steps leave alone.
LEMMA FairFrame ==
    ASSUME FairInv, UNCHANGED <<stage, bypass>>, tk'.djs \in {tk.djs, <<>>},
           Calm \/ (pb'.dj = pb.dj /\ (loaded => loaded')),
           pc' \in {"drive", "pick", "forget"} =>
               pc \in {"drive", "pick", "forget"} /\ tk'.djs = tk.djs,
           pc' = "forget" => tk'.djs = <<>>
    PROVE  FairInv'
<1>1. StageSane'
  <2>1. NoneTwice(<<>>) /\ Len(<<>>) <= MaxDJs
    BY ConductorAssumption DEF NoneTwice, ConductorAssumption
  <2> QED BY <2>1 DEF FairInv, StageSane, NoneTwice
<1>2. PassedOver'
  BY DEF FairInv, PassedOver, Calm, NoDJStarves, TurnComes, Playing
<1>3. TickSeesStage'
  BY DEF FairInv, TickSeesStage, Calm, Playing
<1> QED BY <1>1, <1>2, <1>3 DEF FairInv

\* Where nobody has been passed over, the turns are fair.
LEMMA CalmIsFair ==
    ASSUME bypass' = [d \in DJs |-> 0], StageSane'
    PROVE  FairInv'
<1>1. MaxDJs \in Nat \ {0}
  BY ConductorAssumption DEF ConductorAssumption
<1>2. Calm'
  BY DEF Calm
<1> QED BY <1>1, <1>2 DEF FairInv, PassedOver, TickSeesStage, NoDJStarves

LEMMA JoinIsFair ==
    ASSUME TypeInv, TypeInv', FairInv, NEW x \in DJs, JoinStage(x)
    PROVE  FairInv'
<1> DEFINE n == Len(stage)
<1>1. /\ stage' = Append(stage, x) /\ \A i \in 1..n : stage[i] # x
      /\ UNCHANGED <<bypass, tk, pb, pc, loaded>>
  BY DEF JoinStage
<1>2. stage \in Seq(DJs) /\ n \in Nat
  BY LenProperties DEF TypeInv, StageOK
<1>3. Len(stage') = n + 1 /\ stage'[n + 1] = x /\ \A i \in 1..n : stage'[i] = stage[i]
  BY <1>1, <1>2, AppendProperties
<1>4. Playing' \in {Playing, Playing + 1} /\ Playing \in Nat /\ Playing <= n
  <2>1. /\ Playing = IF n <= MaxDJs THEN n ELSE MaxDJs
        /\ Playing' = IF n + 1 <= MaxDJs THEN n + 1 ELSE MaxDJs
    BY <1>3 DEF Playing, Least
  <2>2. MaxDJs \in Nat
    BY ConductorAssumption DEF ConductorAssumption
  <2> QED BY <1>2, <2>1, <2>2
<1> HIDE DEF n
<1>5. StageSane'
  <2>1. NoneTwice(stage)'
    <3>1. \A i \in 1..n : stage'[i] # x
      BY <1>1, <1>3
    <3>2. \A i, j \in 1..n : stage'[i] = stage'[j] => i = j
      BY <1>3 DEF FairInv, StageSane, NoneTwice, n
    <3>3. ASSUME NEW i \in 1..(n + 1), NEW j \in 1..(n + 1), stage'[i] = stage'[j]
          PROVE  i = j
      <4>1. i \in 1..n \/ i = n + 1
        BY <1>2
      <4>2. j \in 1..n \/ j = n + 1
        BY <1>2
      <4> QED BY <1>3, <3>1, <3>2, <3>3, <4>1, <4>2
    <3> QED BY <1>3, <3>3 DEF NoneTwice
  <2> QED BY <1>1, <2>1 DEF FairInv, StageSane, NoneTwice
<1>6. PassedOver'
  <2>1. ASSUME NEW d \in DJs, bypass[d] > 1 PROVE TurnComes(d)'
    <3>1. PICK i \in 1..Playing, l \in 1..Playing :
             /\ stage[i] = d /\ stage[l] = pb.dj
             /\ bypass[d] + Gap(l, i, Playing) < Playing
      BY <2>1 DEF FairInv, PassedOver, TurnComes
    <3>2. bypass[d] + Gap(l, i, Playing') < Playing' /\ i \in 1..Playing' /\ l \in 1..Playing'
      BY <1>4, <3>1 DEF Gap, FairInv, PassedOver
    <3>3. i \in 1..n /\ l \in 1..n /\ pb' = pb
      BY <1>1, <1>2, <1>4
    <3>4. stage'[i] = d /\ stage'[l] = pb'.dj
      BY <1>3, <3>1, <3>3
    <3> QED BY <1>1, <3>2, <3>4 DEF TurnComes
  <2>2. ASSUME NEW d \in DJs, bypass[d] > 0
        PROVE  d # pb'.dj /\ \E i \in 1..Len(stage') : stage'[i] = d
    <3>1. PICK i \in 1..n : stage[i] = d
      BY <2>2 DEF FairInv, PassedOver, n
    <3> QED BY <1>1, <1>2, <1>3, <2>2, <3>1 DEF FairInv, PassedOver
  <2> QED BY <1>1, <2>1, <2>2 DEF FairInv, PassedOver, NoDJStarves, Calm
<1>7. TickSeesStage'
  <2>1. ASSUME Len(tk.djs) <= Playing, \A i \in 1..Len(tk.djs) : tk.djs[i] = stage[i]
        PROVE  Len(tk.djs) <= Playing' /\ \A i \in 1..Len(tk.djs) : tk.djs[i] = stage'[i]
    <3>1. Len(tk.djs) \in Nat
      BY LenProperties DEF TypeInv, TickState
    <3> QED BY <1>2, <1>3, <1>4, <2>1, <3>1
  <2> QED BY <1>1, <2>1 DEF FairInv, TickSeesStage, Calm
<1> QED BY <1>5, <1>6, <1>7 DEF FairInv

LEMMA LeaveIsFair ==
    ASSUME TypeInv, FairInv, NEW x \in DJs, LeaveStage(x)
    PROVE  FairInv'
<1> DEFINE n == Len(stage)
<1>1. PICK i \in 1..n : stage' = SubSeq(stage, 1, i - 1) \o SubSeq(stage, i + 1, n)
  BY DEF LeaveStage
<1>2. stage \in Seq(DJs) /\ n \in Nat
  BY LenProperties DEF TypeInv, StageOK
<1>3. Len(stage') = n - 1
      /\ \A j \in 1..(n - 1) : stage'[j] = IF j < i THEN stage[j] ELSE stage[j + 1]
  <2> DEFINE a == SubSeq(stage, 1, i - 1)
             b == SubSeq(stage, i + 1, n)
  <2>1. a \in Seq(DJs) /\ Len(a) = i - 1 /\ \A j \in 1..(i - 1) : a[j] = stage[j]
    BY <1>2
  <2>2. b \in Seq(DJs) /\ Len(b) = n - i /\ \A j \in 1..(n - i) : b[j] = stage[i + j]
    BY <1>2
  <2> HIDE DEF a, b
  <2>3. stage' = a \o b
    BY <1>1 DEF a, b
  <2>4. /\ Len(stage') = n - 1
        /\ \A j \in 1..(n - 1) :
              stage'[j] = IF j <= i - 1 THEN a[j] ELSE b[j - i + 1]
    BY <1>2, <2>1, <2>2, <2>3
  <2>5. ASSUME NEW j \in 1..(n - 1) PROVE stage'[j] = IF j < i THEN stage[j] ELSE stage[j + 1]
    <3>1. CASE j < i
      BY <1>2, <2>1, <2>4, <3>1
    <3>2. CASE j >= i
      <4>1. j - i + 1 \in 1..(n - i) /\ i + (j - i + 1) = j + 1
        BY <1>2, <3>2
      <4> QED BY <1>2, <2>2, <2>4, <3>2, <4>1
    <3> QED BY <1>2, <3>1, <3>2
  <2> QED BY <2>4, <2>5
<1> HIDE DEF n
<1>4. NoneTwice(stage)'
  BY <1>2, <1>3 DEF FairInv, StageSane, NoneTwice, n
<1>5. StageSane' /\ bypass' = [d \in DJs |-> 0]
  BY <1>4 DEF LeaveStage, FairInv, StageSane, NoneTwice
<1> QED BY <1>5, CalmIsFair

LEMMA BeginIsFair ==
    ASSUME TypeInv, FairInv, BeginTick
    PROVE  FairInv'
<1> DEFINE n == Playing
<1>1. /\ tk'.djs = SubSeq(stage, 1, n)
      /\ UNCHANGED <<stage, bypass, pb, loaded>> /\ pc' = "drive"
  BY DEF BeginTick, Playing, world
<1>2. stage \in Seq(DJs) /\ n \in Nat /\ n <= Len(stage) /\ n <= MaxDJs
  BY PlayingRange DEF TypeInv, StageOK
<1>3. Len(tk'.djs) = n /\ \A i \in 1..n : tk'.djs[i] = stage[i]
  <2> HIDE DEF n
  <2> QED BY <1>1, <1>2
<1>4. n = 0 => Len(stage) = 0
  BY PlayingRange
<1>5. StageSane'
  BY <1>1, <1>2, <1>3, PlayingRange DEF FairInv, StageSane, NoneTwice
<1>6. PassedOver'
  BY <1>1 DEF FairInv, PassedOver, Calm, NoDJStarves, TurnComes, Playing
<1>7. TickSeesStage'
  <2>1. CASE Calm
    BY <1>1, <2>1 DEF TickSeesStage, Calm
  <2>2. CASE ~Calm
    <3>1. n # 0
      BY <1>4, <2>2, PlayingRange DEF FairInv, PassedOver, Calm
    <3>2. Playing' = n
      BY <1>1 DEF Playing
    <3> QED BY <1>1, <1>2, <1>3, <3>1, <3>2 DEF TickSeesStage
  <2> QED BY <2>1, <2>2
<1> QED BY <1>5, <1>6, <1>7 DEF FairInv

\* A pick passes over fewer DJs than play, and comes nearer to each of them.
LEMMA PickIsFair ==
    ASSUME TypeInv, FairInv, Pick
    PROVE  FairInv'
<1>1. PICK online \in OnlineSets :
        LET mat == [i \in 1..Len(tk.djs) |-> PlayableRow(tk.djs[i], online)]
            slot == FairNext(tk.djs, pb.dj, mat)
        IN  /\ bypass' = CountBypass(mat, slot)
            /\ \/ slot = NoSlot
               \/ slot # NoSlot /\ pb'.dj = tk.djs[slot[1]]
  BY DEF Pick, TypeInv, ClubOK, Club
<1> DEFINE m == Len(tk.djs)
           mat == [i \in 1..m |-> PlayableRow(tk.djs[i], online)]
           slot == FairNext(tk.djs, pb.dj, mat)
           s == slot[1]
           last == IndexOf(tk.djs, pb.dj)
           n == Playing
<1>2. bypass' = CountBypass(mat, slot) /\ (slot # NoSlot => pb'.dj = tk.djs[s])
  BY <1>1
<1>3. /\ UNCHANGED <<stage, tk, loaded>> /\ pc = "pick" /\ loaded
      /\ pc' \notin {"drive", "pick", "forget"}
  BY DEF Pick, world, TypeInv, ControlOK
<1>4. tk.djs \in Seq(DJs) /\ m \in Nat /\ m <= MaxDJs /\ NoneTwice(tk.djs)
  BY LenProperties DEF TypeInv, TickState, FairInv, StageSane
<1>5. mat \in Seq(Seq(BOOLEAN))
  <2>1. \A i \in 1..m : PlayableRow(tk.djs[i], online) \in Seq(BOOLEAN)
    BY <1>4, RowIsAsLong
  <2> QED BY <1>4, <2>1
<1>6. /\ slot = NoSlot => \A i \in 1..m : ~Offers(mat, i)
      /\ slot # NoSlot => \E off \in 0..(m - 1) :
            /\ s = Turn(last, off, m) /\ s \in 1..m
            /\ \A p \in 0..(off - 1) : ~Offers(mat, Turn(last, p, m))
  BY <1>4, <1>5, FairNextIsFair
<1>7. last \in 0..m
  BY <1>4, IndexOfCorrect
<1> HIDE DEF mat, slot, s
\* Who was passed over, and how often.
<1>8. ASSUME NEW d \in DJs, bypass'[d] # 0
      PROVE  \E i \in 1..m : /\ i # s /\ Offers(mat, i) /\ tk.djs[i] = d
                             /\ IndexOf(stage, d) # 0
                             /\ bypass'[d] = (IF last = 0 THEN 0 ELSE bypass[d]) + 1
  <2> DEFINE i == IndexOf(tk.djs, d)
  <2>1. i \in 0..m /\ (i # 0 => tk.djs[i] = d)
    BY <1>4, IndexOfCorrect
  <2>2. /\ i \notin {0, s} /\ Offers(mat, i) /\ IndexOf(stage, d) # 0
        /\ bypass'[d] = (IF last = 0 THEN 0 ELSE bypass[d]) + 1
    <3>1. bypass'[d] = IF i \in {0, s} \/ ~Offers(mat, i) \/ IndexOf(stage, d) = 0 THEN 0
                       ELSE (IF last = 0 THEN 0 ELSE bypass[d]) + 1
      BY <1>2 DEF CountBypass, s
    <3> QED BY <1>8, <3>1
  <2> HIDE DEF i
  <2> QED BY <1>4, <2>1, <2>2
<1>9. ASSUME NEW d \in DJs, bypass'[d] # 0
      PROVE  /\ d # pb'.dj /\ \E i \in 1..Len(stage) : stage[i] = d
             /\ bypass'[d] > 1 => TurnComes(d)'
             /\ bypass'[d] \in Nat /\ bypass'[d] < MaxDJs
  <2>1. PICK i \in 1..m : /\ i # s /\ Offers(mat, i) /\ tk.djs[i] = d
                          /\ IndexOf(stage, d) # 0
                          /\ bypass'[d] = (IF last = 0 THEN 0 ELSE bypass[d]) + 1
    BY <1>8, <1>9
  <2>2. PICK off \in 0..(m - 1) :
           /\ s = Turn(last, off, m) /\ s \in 1..m
           /\ \A p \in 0..(off - 1) : ~Offers(mat, Turn(last, p, m))
    BY <1>6, <2>1
  <2>3. pb'.dj = tk.djs[s] /\ d # pb'.dj
    <3>1. slot # NoSlot
      BY <1>6, <2>1
    <3> QED BY <1>2, <1>4, <2>1, <2>2, <3>1 DEF NoneTwice
  <2>4. \E j \in 1..Len(stage) : stage[j] = d
    <3>1. stage \in Seq(DJs)
      BY DEF TypeInv, StageOK
    <3> QED BY <2>1, <3>1, IndexOfCorrect
  <2>5. m >= 2 /\ MaxDJs >= 2 /\ MaxDJs \in Nat
    BY <1>4, <2>1, <2>2, PlayingRange
  <2>6. bypass[d] \in Nat /\ bypass'[d] \in Nat
    BY <2>1 DEF FairInv, PassedOver
  <2>7. CASE bypass'[d] = 1
    BY <2>3, <2>4, <2>5, <2>6, <2>7
  <2>8. CASE bypass'[d] # 1
    <3>1. last # 0 /\ bypass[d] > 0 /\ bypass'[d] = bypass[d] + 1
      BY <2>1, <2>6, <2>8
    <3>2. /\ tk.djs # <<>> /\ m <= n /\ \A k \in 1..m : tk.djs[k] = stage[k]
      BY <1>3, <3>1 DEF FairInv, TickSeesStage, Calm
    <3>3. n \in Nat /\ n <= Len(stage) /\ n <= MaxDJs /\ Len(stage) \in Nat
      BY PlayingRange
    <3>4. last \in 1..m /\ tk.djs[last] = pb.dj /\ stage[last] = pb.dj /\ stage[i] = d
      BY <1>4, <1>7, <2>1, <3>1, <3>2, IndexOfCorrect
    <3>5. last # i
      BY <3>1, <3>4 DEF FairInv, PassedOver
    <3>6. bypass[d] + Gap(last, i, n) < n
      <4>1. CASE bypass[d] = 1
        BY <1>4, <3>2, <3>3, <3>4, <3>5, <4>1 DEF Gap
      <4>2. CASE bypass[d] > 1
        <5>1. PICK i2 \in 1..n, l2 \in 1..n :
                 /\ stage[i2] = d /\ stage[l2] = pb.dj
                 /\ bypass[d] + Gap(l2, i2, n) < n
          BY <4>2 DEF FairInv, PassedOver, TurnComes
        <5>2. NoneTwice(stage) /\ i \in 1..Len(stage) /\ last \in 1..Len(stage)
              /\ i2 \in 1..Len(stage) /\ l2 \in 1..Len(stage)
          BY <1>4, <3>2, <3>3, <3>4 DEF FairInv, StageSane
        <5>3. i2 = i /\ l2 = last
          BY <3>4, <5>1, <5>2 DEF NoneTwice
        <5> QED BY <5>1, <5>3
      <4> QED BY <2>6, <3>1, <4>1, <4>2
    <3>7. Gap(s, i, n) < Gap(last, i, n)
      <4>1. Turn(last, off, m) # i
        BY <2>1, <2>2
      <4>2. \A p \in 0..(off - 1) : Turn(last, p, m) # i
        BY <2>1, <2>2
      <4>3. m \in Nat \ {0}
        BY <1>4, <2>1
      <4> QED BY <2>2, <3>2, <3>3, <3>4, <3>5, <4>1, <4>2, <4>3, GapShrinks
    <3>8. Gap(s, i, n) \in Nat /\ Gap(last, i, n) \in Nat
      <4>1. i \in 1..n /\ s \in 1..n /\ last \in 1..n
        BY <1>4, <2>2, <3>2, <3>3, <3>4
      <4> HIDE DEF n, last
      <4> QED BY <3>3, <4>1 DEF Gap
    <3>9. bypass'[d] + Gap(s, i, n) < n /\ bypass'[d] < MaxDJs
      <4> DEFINE a == Gap(s, i, n)
                 b == Gap(last, i, n)
      <4>1. a \in Nat /\ b \in Nat /\ a < b /\ bypass[d] + b < n /\ n <= MaxDJs
        BY <3>3, <3>6, <3>7, <3>8
      <4> HIDE DEF a, b, n
      <4>2. bypass'[d] + a < n /\ bypass'[d] < MaxDJs
        BY <2>5, <2>6, <3>1, <3>3, <4>1
      <4> QED BY <4>2 DEF a
    <3>10. i \in 1..n /\ s \in 1..n /\ stage[s] = pb'.dj
      BY <1>4, <2>2, <2>3, <3>2, <3>3
    <3>11. TurnComes(d)'
      <4>1. Playing' = n
        BY <1>3 DEF Playing
      <4> HIDE DEF n
      <4> QED BY <1>3, <3>4, <3>9, <3>10, <4>1 DEF TurnComes
    <3> QED BY <2>3, <2>4, <2>6, <3>9, <3>11
  <2> QED BY <2>7, <2>8
<1>10. PassedOver'
  <2>1. bypass' \in [DJs -> Nat]
    <3>1. bypass' = [d \in DJs |-> bypass'[d]]
      BY <1>2 DEF CountBypass
    <3> QED BY <1>9, <3>1
  <2>2. \A d \in DJs : bypass'[d] < MaxDJs
    BY <1>9, PlayingRange
  <2>3. \A d \in DJs : bypass'[d] > 0 => bypass'[d] # 0
    OBVIOUS
  <2>4. \A d \in DJs : bypass'[d] > 1 => bypass'[d] # 0
    OBVIOUS
  <2> QED BY <1>3, <1>9, <2>1, <2>2, <2>3, <2>4 DEF PassedOver, NoDJStarves
<1>11. StageSane' /\ TickSeesStage'
  BY <1>3 DEF FairInv, StageSane, TickSeesStage, NoneTwice
<1> QED BY <1>10, <1>11 DEF FairInv

\* Nobody has been passed over when the stage was empty at the tick.
LEMMA EmptyIsCalm ==
    ASSUME FairInv, pc \in {"drive", "pick", "forget"}, tk.djs = <<>>
    PROVE  Calm
BY DEF FairInv, TickSeesStage

LEMMA FairNextStep == TypeInv /\ TypeInv' /\ FairInv /\ [Next]_vars => FairInv'
<1> SUFFICES ASSUME TypeInv, TypeInv', FairInv, [Next]_vars PROVE FairInv'
  OBVIOUS
<1>0. pb \in Club /\ tk \in TickState
  BY DEF TypeInv, ClubOK
<1>1. CASE \E d \in DJs : JoinStage(d) \/ LeaveStage(d)
  BY <1>1, JoinIsFair, LeaveIsFair
<1>2. ASSUME UNCHANGED <<stage, bypass, tk, pb, pc, loaded>> PROVE FairInv'
  BY <1>2, FairFrame DEF FairInv, StageSane
<1>3. CASE Clients \/ Count
  BY <1>1, <1>2, <1>3
     DEF Clients, ArmAutoDJ, PublishQueue, RequestSkip, CheckReaction, ReportBroken, Count,
         CountReaction, CountAt, world
<1>4. CASE Resume
  <2>1. Calm
    BY <1>4 DEF Resume, FairInv, PassedOver
  <2>2. UNCHANGED <<stage, bypass, tk, pc>> /\ pc = "drive"
    BY <1>4 DEF Resume, world
  <2> QED BY <2>1, <2>2, FairFrame
\* The tick goes on with what it saw, or ends.
<1>5. ASSUME UNCHANGED <<stage, bypass>>, tk'.djs \in {tk.djs, <<>>},
             pb'.dj = pb.dj, loaded => loaded',
             pc' \notin {"drive", "pick", "forget"}
      PROVE  FairInv'
  BY <1>5, FairFrame
<1>6. CASE EndTrack \/ Bootstrap
  <2>1. /\ UNCHANGED <<stage, bypass, loaded>> /\ pc = "drive"
        /\ pc' \in {"pick", "autonp", "idle"}
        /\ tk'.djs \in {tk.djs, <<>>} /\ (pc' = "pick" => tk' = tk)
        /\ tk.djs # <<>> => pb' = pb
    <3>1. CASE EndTrack
      BY <3>1 DEF EndTrack, StartAuto, world
    <3>2. CASE Bootstrap
      <4>1. UNCHANGED <<stage, bypass, loaded>> /\ pc = "drive" /\ (tk.djs # <<>> => pb' = pb)
        BY <3>2 DEF Bootstrap, world
      <4>2. \/ pc' = "autonp" /\ tk' = tk
            \/ pc' = "pick" /\ tk' = tk
            \/ pc' = "idle" /\ tk' = NoTick
        BY <3>2 DEF Bootstrap, StartAuto, Retry, EndTick
      <4> QED BY <4>1, <4>2 DEF NoTick
    <3> QED BY <1>6, <3>1, <3>2
  <2>2. tk.djs = <<>> => Calm
    BY <2>1, EmptyIsCalm
  <2> QED BY <2>1, <2>2, FairFrame
<1>7. CASE HoldTrack
  <2>1. /\ UNCHANGED <<stage, bypass, loaded>> /\ pc' = "idle" /\ tk' = NoTick
        /\ pb' = pb \/ pb' = Beaten(pb)
    BY <1>7 DEF HoldTrack, EndTick, world
  <2> QED BY <1>0, <1>5, <2>1 DEF Beaten, Club, NoTick
<1>8. CASE StopUndriven
  <2>1. /\ UNCHANGED <<stage, bypass, loaded, tk>> /\ pc = "drive" /\ tk.djs = <<>>
        /\ pc' = "forget"
    BY <1>8 DEF StopUndriven, Driven, world
  <2> QED BY <2>1, EmptyIsCalm, FairFrame
<1>9. CASE Forget
  <2>1. /\ UNCHANGED <<stage, bypass>> /\ pc \in {"drive", "forget"} /\ tk.djs = <<>>
        /\ pc' = "idle" /\ tk' = NoTick
    BY <1>9 DEF Forget, Driven, EndTick, world, FairInv, StageSane
  <2> QED BY <2>1, EmptyIsCalm, FairFrame DEF NoTick
<1>10. CASE MarkTrackOff \/ IndexMark
  <2>1. /\ UNCHANGED <<stage, bypass, loaded, pb>> /\ pc' \in {"index", "np"}
        /\ tk'.djs = tk.djs
    BY <1>0, <1>10 DEF MarkTrackOff, IndexMark, world, TickState
  <2> QED BY <1>5, <2>1
<1>11. CASE AnnounceTrack \/ LogPlay \/ SaveTrack \/ SaveStopped
  <2>1. /\ UNCHANGED <<stage, bypass, loaded>>
        /\ pc' \in {"play", "autoplay", "save", "idle"} /\ tk' \in {tk, NoTick}
        /\ pb' = pb \/ pb' = Beaten(pb)
    BY <1>11 DEF AnnounceTrack, LogPlay, SaveTrack, SaveStopped, EndTick, world
  <2> QED BY <1>0, <1>5, <2>1 DEF Beaten, Club, NoTick
<1>12. CASE Stop
  <2>1. UNCHANGED <<stage, bypass, loaded, tk>> /\ pc' = "stopped"
    BY <1>12 DEF Stop, world
  <2>2. pb'.dj = pb.dj
    BY <1>0, <1>12 DEF Stop, Beaten, Club
  <2> QED BY <1>5, <2>1, <2>2
<1>13. CASE Crash
  <2>1. /\ bypass' = [d \in DJs |-> 0] /\ stage' = stage /\ tk'.djs = <<>> /\ pc' = "idle"
    BY <1>13 DEF Crash, NoTick
  <2>2. MaxDJs \in Nat \ {0}
    BY ConductorAssumption DEF ConductorAssumption
  <2>3. StageSane'
    BY <2>1, <2>2 DEF FairInv, StageSane, NoneTwice
  <2> QED BY <2>1, <2>3, CalmIsFair
<1>14. CASE Restarts
  BY <1>2, <1>14 DEF Restarts, Restart, world
<1>15. CASE UNCHANGED vars
  BY <1>2, <1>15 DEF vars, world
<1> QED BY <1>3, <1>4, <1>6, <1>7, <1>8, <1>9, <1>10, <1>11, <1>12, <1>13, <1>14, <1>15,
           BeginIsFair, PickIsFair DEF Next, Tick

\* fairNext counts turns from the DJ who played last: however the stage grows
\* and the queues change, as long as nobody leaves the stage fewer than
\* condMaxDJs picks in a row pass over a DJ who offers a track.
THEOREM TurnsComeRound == Spec => []NoDJStarves
<1>1. Init => FairInv
  <2> SUFFICES ASSUME Init PROVE FairInv
    OBVIOUS
  <2>1. /\ stage \in InitialStages /\ tk = NoTick /\ pc = "idle"
        /\ bypass = [d \in DJs |-> 0]
    BY DEF Init
  <2>2. NoneTwice(stage) /\ MaxDJs \in Nat \ {0}
    BY <2>1, ConductorAssumption DEF ConductorAssumption, NoneTwice
  <2>3. tk.djs = <<>>
    BY <2>1 DEF NoTick
  <2>4. StageSane
    BY <2>1, <2>2, <2>3 DEF StageSane, NoneTwice
  <2>5. PassedOver
    BY <2>1, <2>2 DEF PassedOver, NoDJStarves, Calm
  <2> QED BY <2>1, <2>4, <2>5 DEF FairInv, TickSeesStage
<1>2. FairInv => NoDJStarves
  BY DEF FairInv, PassedOver
<1> QED BY <1>1, <1>2, FairNextStep, TypesAlways, PTL DEF Spec

-----------------------------------------------------------------------------
(* The ledger of the credibility board (the module Ledger) is kept as long *)
(* as the SQLite store and Auto DJ are not used together.  Together they   *)
(* break it: Auto DJ never saves its state, see the run                    *)
(* auto_settles_twice.                                                     *)

\* The condition under which the ledger is kept.
StoreFollowsPlayback == ~UseSQLite \/ AutoLists \subseteq {{}}

\* What a restart resumes from.
Durable == IF UseSQLite /\ sqState.there THEN sqState.row ELSE np

\* The performance p is the last settled one or comes after it.
AtOrAfter(p) ==
    p = lastTrack \/ (lastTrack[1] < p[1] /\ lastTrack[2] < p[2])

\* How a track can end.
Endings == {"discarded", "communitySkipped", "played"}

Result == [perf : Nat \X Nat, vid : Vids, dj : Nat, auto : BOOLEAN, how : Endings,
           bangers : 0..BangerMax]

\* Nothing is settled after the marker.
NoneAfter(rows, marker) ==
    \A i \in 1..Len(rows) :
        rows[i].perf[1] <= marker[1] /\ rows[i].perf[2] <= marker[2]

\* The board has settled nothing after its marker.
BoardOK ==
    /\ results \in Seq(Result)
    /\ NoneAfter(results, lastTrack)
    /\ lastTrack \in Nat \X Nat
    /\ lastTrack[2] <= now
    /\ up /\ BeforeStart => lastTrack[2] < now

LedgerInv ==
    /\ BoardOK
    \* neither memory nor the store ever falls behind the marker
    /\ AtOrAfter(Performance(Durable))
    /\ loaded => AtOrAfter(Performance(pb))
    \* they agree whenever a settlement may happen
    /\ loaded /\ BeforeStart => Performance(Durable) = Performance(pb)
    /\ loaded /\ pc \in {"play", "save", "autoplay"} /\ ~UseSQLite
          => Performance(np) = Performance(pb)
    /\ np.at = 0 => np.pos = 0 /\ np.startedAt = 0
    /\ UseSQLite => armed = {} /\ tk.auto = {} /\ pc \notin {"autonp", "autoplay"}

IInv == TypeInv /\ LedgerInv

LedgerStep == L!Next \/ UNCHANGED SettledPerformances

-----------------------------------------------------------------------------
(* Steps that settle nothing.                                              *)

\* What the invariant reads.
core == <<now, up, loaded, pc, tk, pb, sqState, np, lastTrack, results>>

LEMMA CoreUnchanged ==
    ASSUME IInv, UNCHANGED core, UseSQLite => armed' = {}
    PROVE  LedgerInv' /\ LedgerStep
<1>1. BoardOK'
  BY DEF IInv, LedgerInv, BoardOK, BeforeStart, core
<1>2. LedgerInv'
  BY <1>1 DEF IInv, LedgerInv, core, AtOrAfter, Performance, Durable, BeforeStart
<1>3. UNCHANGED SettledPerformances
  BY DEF core, SettledPerformances
<1> QED BY <1>2, <1>3 DEF LedgerStep

LEMMA QuietStep ==
    ASSUME UNCHANGED results
    PROVE  LedgerStep
BY DEF LedgerStep, SettledPerformances

LEMMA ClientsKeepLedger ==
    ASSUME IInv, StoreFollowsPlayback, Clients
    PROVE  LedgerInv' /\ LedgerStep
<1> USE DEF stores, dbQueue, marks, votes, world
<1>1. CASE \E d \in DJs : JoinStage(d) \/ LeaveStage(d)
  BY <1>1, CoreUnchanged DEF JoinStage, LeaveStage, core, IInv, LedgerInv
<1>2. CASE \E list \in AutoLists : ArmAutoDJ(list)
  <2>1. UseSQLite => armed' = {}
    BY <1>2 DEF ArmAutoDJ, StoreFollowsPlayback
  <2> QED BY <1>2, <2>1, CoreUnchanged DEF ArmAutoDJ, core
<1>3. CASE \E d \in DJs, q \in QueueChoices, s \in Skews : PublishQueue(d, q, s)
  BY <1>3, CoreUnchanged DEF PublishQueue, core, IInv, LedgerInv
<1>4. CASE \E w \in Skippers, s \in Skews : RequestSkip(w, s)
  BY <1>4, CoreUnchanged DEF RequestSkip, core, IInv, LedgerInv
<1>5. CASE \E w \in Voters, k \in {"banger", "skip"} : CheckReaction(w, k)
  BY <1>5, CoreUnchanged DEF CheckReaction, core, IInv, LedgerInv
<1>6. CASE \E r \in Reporters, v \in Videos, s \in Skews : ReportBroken(r, v, s)
  BY <1>6, CoreUnchanged DEF ReportBroken, core, IInv, LedgerInv
<1> QED BY <1>1, <1>2, <1>3, <1>4, <1>5, <1>6 DEF Clients

LEMMA CountKeepsLedger ==
    ASSUME IInv, Count
    PROVE  LedgerInv' /\ LedgerStep
BY CoreUnchanged DEF Count, CountReaction, CountAt, core, IInv, LedgerInv, stores, dbQueue,
                     marks, world

LEMMA MarkKeepsLedger ==
    ASSUME IInv, MarkTrackOff \/ IndexMark
    PROVE  LedgerInv' /\ LedgerStep
<1>1. /\ UNCHANGED <<now, up, loaded, pb, sqState, np, lastTrack, results, armed>>
      /\ tk'.auto = tk.auto /\ pc \in {"mark", "index"} /\ pc' \in {"index", "np"}
  BY DEF MarkTrackOff, IndexMark, marks, world, dbQueue, IInv, TypeInv, TickState
<1>2. BoardOK'
  BY <1>1 DEF IInv, LedgerInv, BoardOK, BeforeStart
<1>3. LedgerInv'
  BY <1>1, <1>2 DEF IInv, LedgerInv, AtOrAfter, Performance, Durable, BeforeStart
<1> QED BY <1>1, <1>3, QuietStep

LEMMA BeginKeepsLedger ==
    ASSUME IInv, BeginTick
    PROVE  LedgerInv' /\ LedgerStep
<1>1. /\ UNCHANGED <<now, up, loaded, pb, sqState, np, lastTrack, results, armed>>
      /\ tk'.auto = (IF stage = <<>> THEN armed ELSE {})
      /\ pc = "idle" /\ pc' = "drive"
  BY DEF BeginTick, stores, world
<1>2. BoardOK'
  BY <1>1 DEF IInv, LedgerInv, BoardOK, BeforeStart
<1>3. LedgerInv'
  BY <1>1, <1>2 DEF IInv, LedgerInv, AtOrAfter, Performance, Durable, BeforeStart
<1> QED BY <1>1, <1>3, QuietStep

-----------------------------------------------------------------------------
(* Settling: the performance in memory becomes the marker.                 *)

\* Every numeric part of a performance is a natural number.
LEMMA PerformanceTyped ==
    ASSUME TypeInv
    PROVE  /\ pb.pos \in Nat /\ pb.startedAt \in Nat
           /\ np.pos \in Nat /\ np.startedAt \in Nat
           /\ sqState.row.pos \in Nat /\ sqState.row.startedAt \in Nat
           /\ now \in Nat \ {0}
BY PositionsRange DEF TypeInv, ClubOK, StoresOK, Club, NowPlaying, ControlOK

LEMMA SettleIsALedgerStep ==
    ASSUME IInv, loaded, NEW how \in Endings, Settle(how)
    PROVE  /\ LedgerStep
           /\ lastTrack' \in Nat \X Nat
           /\ lastTrack' \in {lastTrack, Performance(pb)}
           /\ \/ Performance(pb) = lastTrack'
              \/ lastTrack'[1] < pb.pos /\ lastTrack'[2] < pb.startedAt
           /\ results' \in Seq(Result) /\ NoneAfter(results', lastTrack')
<1> DEFINE p == Performance(pb)
<1>1. p \in Nat \X Nat /\ p[1] = pb.pos /\ p[2] = pb.startedAt
  BY PerformanceTyped DEF IInv, Performance
<1>2. p = lastTrack \/ (lastTrack[1] < p[1] /\ lastTrack[2] < p[2])
  BY DEF IInv, LedgerInv, AtOrAfter
<1>3. /\ lastTrack \in Nat \X Nat /\ results \in Seq(Result)
      /\ NoneAfter(results, lastTrack)
  BY DEF IInv, LedgerInv, BoardOK
<1>4. CASE UNCHANGED <<lastTrack, results>>
  <2>1. LedgerStep
    BY <1>4, QuietStep
  <2> QED BY <1>1, <1>2, <1>3, <1>4, <2>1
<1>5. CASE pb.playing /\ lastTrack # p
  <2> DEFINE res == [perf |-> p, vid |-> pb.vid, dj |-> pb.dj, auto |-> pb.auto,
                     how |-> how, bangers |-> bangers[pb.pos]]
             n == Len(results)
  <2>1. lastTrack' = p /\ results' = Append(results, res) /\ res.perf = p
    BY <1>5 DEF Settle, Record
  <2>2. res \in Result
    <3>1. pb \in Club /\ bangers[pb.pos] \in 0..BangerMax
      BY DEF IInv, TypeInv, ClubOK, VotesOK, Club
    <3> QED BY <1>1, <3>1 DEF Result, Club, Endings
  <2> HIDE DEF p, res
  <2>3. n \in Nat /\ \A i \in 1..n : results[i] \in Result
    BY <1>3, LenProperties
  <2>4. \A i \in 1..n : results[i].perf[1] < p[1] /\ results[i].perf[2] < p[2]
    <3>1. \A i \in 1..n : results[i].perf \in Nat \X Nat
      BY <2>3 DEF Result
    <3> QED BY <1>1, <1>2, <1>3, <1>5, <3>1 DEF NoneAfter
  <2>5. /\ results' \in Seq(Result) /\ Len(results') = n + 1 /\ results'[n + 1] = res
        /\ \A i \in 1..n : results'[i] = results[i]
    BY <1>3, <2>1, <2>2, AppendProperties
  <2>6. NoneAfter(results', p)
    <3>1. \A i \in 1..n : results[i].perf \in Nat \X Nat
      BY <2>3 DEF Result
    <3>2. \A i \in 1..n : results'[i].perf[1] <= p[1] /\ results'[i].perf[2] <= p[2]
      BY <1>1, <2>4, <2>5, <3>1
    <3>3. results'[n + 1].perf[1] <= p[1] /\ results'[n + 1].perf[2] <= p[2]
      BY <1>1, <2>1, <2>5
    <3> QED BY <2>3, <2>5, <3>2, <3>3 DEF NoneAfter
  <2>7. /\ SettledPerformances' = Append(SettledPerformances, p)
        /\ Len(SettledPerformances) = n /\ Len(SettledPerformances') = n + 1
        /\ SettledPerformances'[n + 1] = p
        /\ \A i \in 1..n : SettledPerformances[i] = results[i].perf
    <3>1. SettledPerformances = [i \in 1..n |-> results[i].perf]
      BY DEF SettledPerformances
    <3>2. SettledPerformances' = [i \in 1..(n + 1) |-> results'[i].perf]
      BY <2>5 DEF SettledPerformances
    <3>3. \A i \in 1..n : results'[i].perf = results[i].perf
      BY <2>5
    <3>4. results'[n + 1].perf = p
      BY <2>1, <2>5
    <3>5. Len(SettledPerformances) = n /\ Len(SettledPerformances') = n + 1
      BY <2>3, <3>1, <3>2
    <3>6. Append(SettledPerformances, p) =
             [i \in 1..(n + 1) |-> IF i = n + 1 THEN p ELSE SettledPerformances[i]]
      BY <2>3, <3>5 DEF SettledPerformances
    <3> QED BY <2>3, <3>1, <3>2, <3>3, <3>4, <3>5, <3>6
  <2>8. L!Settle(SettledPerformances'[n + 1])
    BY <2>4, <2>7 DEF L!Settle
  <2>9. L!Next
    BY <2>3, <2>7, <2>8 DEF L!Next
  <2> QED BY <1>1, <2>1, <2>5, <2>6, <2>9 DEF LedgerStep, p
<1> QED BY <1>4, <1>5 DEF Settle

\* The board after a settlement, at a step that leaves the clock alone.
LEMMA SettleKeepsBoard ==
    ASSUME IInv, loaded, up, BeforeStart, NEW how \in Endings, Settle(how),
           UNCHANGED now
    PROVE  BoardOK' /\ lastTrack'[2] < now
<1>1. lastTrack[2] < now /\ pb.startedAt < now /\ now \in Nat
  BY DEF IInv, LedgerInv, BoardOK, TypeInv, PastOK, InThePast, ControlOK
<1>2. lastTrack'[2] < now /\ lastTrack' \in Nat \X Nat
  BY <1>1, SettleIsALedgerStep DEF Performance
<1>3. lastTrack'[2] <= now
  BY <1>1, <1>2
<1> QED BY <1>2, <1>3, SettleIsALedgerStep DEF BoardOK

\* Auto DJ's start puts memory after the marker.
LEMMA StartAutoIsLater ==
    ASSUME TypeInv, StartAuto, NEW m \in Nat \X Nat, m[2] < now,
           \/ Performance(pb) = m
           \/ m[1] < pb.pos /\ m[2] < pb.startedAt
    PROVE  m[1] < pb'.pos /\ m[2] < pb'.startedAt
<1>1. pb'.pos = pb.pos + 1 /\ pb'.startedAt = now
  BY DEF StartAuto, TypeInv, ClubOK, Club
<1>2. m[1] <= pb.pos /\ pb.pos \in Nat /\ m[1] \in Nat
  BY PerformanceTyped DEF Performance
<1> QED BY <1>1, <1>2

LEMMA EndTrackKeepsLedger ==
    ASSUME IInv, EndTrack
    PROVE  LedgerInv' /\ LedgerStep
<1>1. PICK how \in Endings : Settle(how)
  BY DEF EndTrack, Settlement, Endings
<1>2. /\ up /\ loaded /\ pc = "drive" /\ tk.djs \in Seq(DJs)
      /\ UNCHANGED <<now, up, tk, loaded, np, sqState, armed>>
  BY DEF EndTrack, world, IInv, TypeInv, TickState
<1>3. BoardOK' /\ LedgerStep
  BY <1>1, <1>2, SettleKeepsBoard, SettleIsALedgerStep DEF BeforeStart
<1>4. /\ lastTrack' \in Nat \X Nat /\ lastTrack'[2] < now
      /\ \/ Performance(pb) = lastTrack'
         \/ lastTrack'[1] < pb.pos /\ lastTrack'[2] < pb.startedAt
  BY <1>1, <1>2, SettleKeepsBoard, SettleIsALedgerStep DEF BeforeStart
<1>5. Performance(Durable) = Performance(pb)
  BY <1>2 DEF IInv, LedgerInv, BeforeStart
<1>6. AtOrAfter(Performance(Durable))'
  BY <1>2, <1>4, <1>5 DEF AtOrAfter, Durable, Performance
<1>7. CASE tk.djs = <<>>
  <2>1. StartAuto /\ pc' = "autonp"
    BY <1>7 DEF EndTrack, StartAuto
  <2>2. ~UseSQLite
    BY <2>1 DEF IInv, LedgerInv, StartAuto
  <2>3. AtOrAfter(Performance(pb))'
    BY <1>4, <2>1, StartAutoIsLater DEF IInv, AtOrAfter, Performance
  <2> QED BY <1>2, <1>3, <1>6, <2>1, <2>2, <2>3 DEF IInv, LedgerInv, BeforeStart
<1>8. CASE tk.djs # <<>>
  <2>1. pc' = "pick" /\ UNCHANGED pb
    BY <1>8 DEF EndTrack
  <2>2. AtOrAfter(Performance(pb))'
    BY <1>4, <2>1 DEF AtOrAfter, Performance
  <2> QED BY <1>2, <1>3, <1>5, <1>6, <2>1, <2>2
          DEF IInv, LedgerInv, BeforeStart, Durable, Performance
<1> QED BY <1>7, <1>8

\* A stop settles, then announces the same performance as paused.
LEMMA StoppingKeepsLedger ==
    ASSUME IInv, StopUndriven \/ Stop
    PROVE  LedgerInv' /\ LedgerStep
<1>1. /\ Settle("played") /\ up /\ loaded /\ BeforeStart /\ pc # "idle"
      /\ pc' \in {"forget", "stopped"}
      /\ UNCHANGED <<now, up, tk, loaded, sqState, armed>>
      /\ \/ UNCHANGED np /\ pb' = [pb EXCEPT !.playing = FALSE, !.auto = FALSE]
         \/ /\ Announce(pb, "paused", FALSE)
            /\ pb' = [Beaten(pb) EXCEPT !.playing = FALSE, !.auto = FALSE]
  BY DEF StopUndriven, Stop, world, IInv, TypeInv, ControlOK, BeforeStart
<1>2. BoardOK' /\ LedgerStep
  BY <1>1, SettleKeepsBoard, SettleIsALedgerStep DEF Endings
<1>3. \/ Performance(pb) = lastTrack'
      \/ lastTrack'[1] < pb.pos /\ lastTrack'[2] < pb.startedAt
  BY <1>1, SettleIsALedgerStep DEF Endings
<1>4. /\ pb'.pos = pb.pos /\ pb'.startedAt = pb.startedAt
      /\ np' = np \/ (np'.pos = pb.pos /\ np'.startedAt = pb.startedAt)
  BY <1>1, StoppingHasTypes DEF IInv
<1>5. np'.at = 0 => np'.pos = 0 /\ np'.startedAt = 0
  BY <1>1, PerformanceTyped DEF IInv, LedgerInv, Announce, Announcement
<1>6. Performance(Durable) = Performance(pb)
  BY <1>1 DEF IInv, LedgerInv
<1>7. Performance(Durable)' = Performance(pb) /\ Performance(pb)' = Performance(pb)
  BY <1>1, <1>4, <1>6 DEF Performance, Durable
<1>8. AtOrAfter(Performance(Durable))' /\ AtOrAfter(Performance(pb))'
  BY <1>3, <1>7 DEF AtOrAfter, Performance
<1> QED BY <1>1, <1>2, <1>5, <1>7, <1>8 DEF IInv, LedgerInv

-----------------------------------------------------------------------------
(* Steps that move memory or the store.                                    *)

\* What is resumed is the performance that was stored, and it is stored again.
LEMMA ResumesDurable ==
    ASSUME IInv, Resume
    PROVE  /\ Performance(pb)' = Performance(Durable)
           /\ Performance(Durable)' = Performance(Durable)
<1>1. UNCHANGED np /\ pb' \in Club
  BY ResumeHasTypes DEF Resume, IInv, TypeInv, ClubOK
<1>2. CASE ResumeFromSQLite
  <2>1. /\ UseSQLite /\ sqState.there /\ sqState' = Saved(pb')
        /\ pb'.pos = sqState.row.pos /\ pb'.startedAt = sqState.row.startedAt
    <3>1. sqState.row \in Club
      BY DEF IInv, TypeInv, StoresOK
    <3> QED BY <1>2, <3>1 DEF ResumeFromSQLite, Kept, Club
  <2> QED BY <1>1, <2>1 DEF Saved, Durable, Performance, Club
<1>3. CASE ResumeFromEvents
  <2>1. ~(UseSQLite /\ sqState.there)
    BY <1>3 DEF ResumeFromEvents
  <2>2. pb'.pos = np.pos /\ pb'.startedAt = np.startedAt
    BY <1>3 DEF ResumeFromEvents, FromNowPlaying, Announced, NoClub, IInv, LedgerInv
  <2>3. sqState' = sqState \/ sqState' = Saved(pb')
    BY <1>3 DEF ResumeFromEvents
  <2> QED BY <1>1, <2>1, <2>2, <2>3 DEF Saved, Durable, Performance, Club
<1> QED BY <1>2, <1>3 DEF Resume

LEMMA ResumeKeepsLedger ==
    ASSUME IInv, Resume
    PROVE  LedgerInv' /\ LedgerStep
<1>1. /\ up /\ pc = "drive" /\ loaded'
      /\ UNCHANGED <<now, up, pc, tk, np, lastTrack, results, armed>>
  BY DEF Resume, world
<1>2. BoardOK'
  BY <1>1 DEF IInv, LedgerInv, BoardOK, BeforeStart
<1>3. Performance(pb)' = Performance(Durable) /\ Performance(Durable)' = Performance(Durable)
  BY ResumesDurable
<1>4. AtOrAfter(Performance(pb))' /\ AtOrAfter(Performance(Durable))'
  BY <1>1, <1>3 DEF IInv, LedgerInv, AtOrAfter
<1>5. LedgerInv'
  BY <1>1, <1>2, <1>3, <1>4 DEF IInv, LedgerInv
<1> QED BY <1>1, <1>5, QuietStep

\* A tick ends with memory saved, left alone or forgotten; the store stays
\* where memory was.
LEMMA SavingKeepsLedger ==
    ASSUME IInv, up, EndTick, UNCHANGED <<up, lastTrack, results, armed>>,
           loaded => Performance(Durable)' = Performance(pb),
           ~loaded => Performance(Durable)' = Performance(Durable),
           np'.at = 0 => np'.pos = 0 /\ np'.startedAt = 0,
           \/ loaded' = loaded /\ Performance(pb)' = Performance(pb)
           \/ loaded' = FALSE
    PROVE  LedgerInv' /\ LedgerStep
<1>1. now \in Nat \ {0} /\ now' = now + 1 /\ pc' = "idle" /\ tk'.auto = {}
  BY EndOfTick DEF IInv, TypeInv, ControlOK, EndTick, NoTick
<1>2. BoardOK'
  BY <1>1 DEF IInv, LedgerInv, BoardOK
<1>3. AtOrAfter(Performance(Durable))' /\ (loaded' => AtOrAfter(Performance(pb))')
  BY <1>1 DEF IInv, LedgerInv, AtOrAfter
<1>4. loaded' => Performance(Durable)' = Performance(pb)'
  OBVIOUS
<1>5. LedgerInv'
  BY <1>1, <1>2, <1>3, <1>4 DEF IInv, LedgerInv
<1> QED BY <1>5, QuietStep

LEMMA HoldKeepsLedger ==
    ASSUME IInv, HoldTrack
    PROVE  LedgerInv' /\ LedgerStep
<1>1. /\ up /\ loaded /\ pc = "drive" /\ EndTick
      /\ UNCHANGED <<up, loaded, sqState, lastTrack, results, armed>>
  BY DEF HoldTrack, world
<1>2. Performance(pb)' = Performance(pb)
  BY BeatenHasTypes DEF HoldTrack, IInv, Performance
<1>3. np' = np \/ (np'.pos = pb.pos /\ np'.startedAt = pb.startedAt /\ np'.at = now)
  BY DEF HoldTrack, Announce, Announcement
<1>4. Performance(Durable) = Performance(pb)
  BY <1>1 DEF IInv, LedgerInv, BeforeStart
<1>5. Performance(Durable)' = Performance(pb)
  BY <1>1, <1>3, <1>4 DEF Durable, Performance
<1>6. np'.at = 0 => np'.pos = 0 /\ np'.startedAt = 0
  BY <1>3, PerformanceTyped DEF IInv, LedgerInv
<1> QED BY <1>1, <1>2, <1>5, <1>6, SavingKeepsLedger

LEMMA BootstrapKeepsLedger ==
    ASSUME IInv, Bootstrap
    PROVE  LedgerInv' /\ LedgerStep
<1>1. /\ up /\ loaded /\ pc = "drive"
      /\ UNCHANGED <<up, loaded, np, sqState, lastTrack, results, armed>>
  BY DEF Bootstrap, stores, world
<1>2. Performance(Durable) = Performance(pb) /\ Performance(Durable)' = Performance(Durable)
  BY <1>1 DEF IInv, LedgerInv, BeforeStart, Durable
<1>3. CASE tk.djs = <<>>
  <2>1. StartAuto /\ pc' = "autonp" /\ UNCHANGED <<now, tk>>
    BY <1>3 DEF Bootstrap, StartAuto
  <2>2. ~UseSQLite
    BY <2>1 DEF IInv, LedgerInv, StartAuto
  <2>3. BoardOK'
    BY <1>1, <2>1 DEF IInv, LedgerInv, BoardOK, BeforeStart
  <2>4. AtOrAfter(Performance(pb))'
    <3>1. lastTrack \in Nat \X Nat /\ lastTrack[2] < now
      BY <1>1 DEF IInv, LedgerInv, BoardOK, BeforeStart
    <3>2. \/ Performance(pb) = lastTrack
          \/ lastTrack[1] < pb.pos /\ lastTrack[2] < pb.startedAt
      BY <1>1 DEF IInv, LedgerInv, AtOrAfter, Performance
    <3> QED BY <1>1, <2>1, <3>1, <3>2, StartAutoIsLater DEF IInv, AtOrAfter, Performance
  <2>5. AtOrAfter(Performance(Durable))'
    BY <1>1, <1>2 DEF IInv, LedgerInv, AtOrAfter
  <2>6. LedgerInv'
    BY <1>1, <2>1, <2>2, <2>3, <2>4, <2>5 DEF IInv, LedgerInv, BeforeStart
  <2> QED BY <1>1, <2>6, QuietStep
<1>4. CASE tk.djs # <<>> /\ pc' = "pick" /\ UNCHANGED <<now, tk>>
  <2>1. UNCHANGED pb
    BY <1>4 DEF Bootstrap
  <2>2. BoardOK'
    BY <1>1, <1>4 DEF IInv, LedgerInv, BoardOK, BeforeStart
  <2>3. LedgerInv'
    BY <1>1, <1>2, <1>4, <2>1, <2>2
       DEF IInv, LedgerInv, BeforeStart, AtOrAfter, Performance, Durable
  <2> QED BY <1>1, <2>3, QuietStep
<1>5. CASE tk.djs # <<>> /\ EndTick
  <2>1. UNCHANGED pb
    BY <1>5 DEF Bootstrap
  <2>2. np'.at = 0 => np'.pos = 0 /\ np'.startedAt = 0
    BY <1>1 DEF IInv, LedgerInv
  <2> QED BY <1>1, <1>2, <1>5, <2>1, <2>2, SavingKeepsLedger DEF Performance
<1> QED BY <1>3, <1>4, <1>5 DEF Bootstrap, Retry

LEMMA SavesKeepLedger ==
    ASSUME IInv, Forget \/ SaveStopped \/ SaveTrack
    PROVE  LedgerInv' /\ LedgerStep
<1>1. /\ up /\ EndTick /\ UNCHANGED <<up, np, lastTrack, results, armed>>
      /\ pc \in {"forget", "drive", "stopped", "save"}
      /\ sqState' = Saved(pb) \/ (pc = "drive" /\ UNCHANGED sqState)
      /\ loaded' = FALSE \/ UNCHANGED <<loaded, pb>>
  BY DEF Forget, SaveStopped, SaveTrack, world
<1>2. pb \in Club
  BY DEF IInv, TypeInv, ClubOK
<1>3. loaded => Performance(Durable)' = Performance(pb)
  <2>1. CASE UseSQLite /\ sqState' = Saved(pb)
    BY <1>2, <2>1 DEF Saved, Durable, Performance, Club
  <2>2. CASE ~UseSQLite /\ sqState' = Saved(pb)
    BY <1>1, <2>2 DEF Saved, Durable, IInv, LedgerInv, BeforeStart, Performance
  <2>3. CASE pc = "drive" /\ UNCHANGED sqState
    BY <1>1, <2>3 DEF Durable, IInv, LedgerInv, BeforeStart, Performance
  <2> QED BY <1>1, <2>1, <2>2, <2>3
<1>4. ~loaded => Performance(Durable)' = Performance(Durable)
  <2>1. ~loaded => pc = "drive"
    BY <1>1 DEF IInv, TypeInv, ControlOK
  <2>2. pc = "drive" => UNCHANGED sqState
    BY DEF Forget, SaveStopped, SaveTrack
  <2> QED BY <1>1, <2>1, <2>2 DEF Durable
<1>5. np'.at = 0 => np'.pos = 0 /\ np'.startedAt = 0
  BY <1>1 DEF IInv, LedgerInv
<1> QED BY <1>1, <1>3, <1>4, <1>5, SavingKeepsLedger DEF Performance

LEMMA PickKeepsLedger ==
    ASSUME IInv, Pick
    PROVE  LedgerInv' /\ LedgerStep
<1>1. /\ up /\ loaded /\ pc = "pick" /\ pc' \in {"stop", "mark"}
      /\ UNCHANGED <<now, up, tk, loaded, np, sqState, lastTrack, results, armed>>
  BY DEF Pick, world, IInv, TypeInv, ControlOK
<1>2. \/ pc' = "stop" /\ UNCHANGED pb
      \/ pc' = "mark" /\ pb'.pos = pb.pos + 1 /\ pb'.startedAt = now
  BY DEF Pick, IInv, TypeInv, ClubOK, Club
<1>3. BoardOK'
  BY <1>1, <1>2 DEF IInv, LedgerInv, BoardOK, BeforeStart
<1>4. AtOrAfter(Performance(Durable))'
  BY <1>1 DEF IInv, LedgerInv, AtOrAfter, Durable, Performance
<1>5. AtOrAfter(Performance(pb))'
  <2>1. CASE UNCHANGED pb
    BY <1>1, <2>1 DEF IInv, LedgerInv, AtOrAfter, Performance
  <2>2. CASE pb'.pos = pb.pos + 1 /\ pb'.startedAt = now
    <3>1. lastTrack \in Nat \X Nat /\ lastTrack[2] < now
      BY <1>1 DEF IInv, LedgerInv, BoardOK, BeforeStart
    <3>2. lastTrack[1] <= pb.pos /\ pb.pos \in Nat
      <4>1. \/ Performance(pb) = lastTrack
            \/ lastTrack[1] < pb.pos /\ lastTrack[2] < pb.startedAt
        BY <1>1 DEF IInv, LedgerInv, AtOrAfter, Performance
      <4> QED BY <3>1, <4>1, PerformanceTyped DEF IInv, Performance
    <3> QED BY <1>1, <2>2, <3>1, <3>2 DEF AtOrAfter, Performance
  <2> QED BY <1>2, <2>1, <2>2
<1>6. LedgerInv'
  BY <1>1, <1>2, <1>3, <1>4, <1>5
     DEF IInv, LedgerInv, BeforeStart, Durable, Performance
<1> QED BY <1>1, <1>6, QuietStep

\* The announcement of a track that starts carries it to the stored
\* now_playing.
LEMMA AnnounceKeepsLedger ==
    ASSUME IInv, AnnounceTrack
    PROVE  LedgerInv' /\ LedgerStep
<1>1. /\ up /\ loaded
      /\ \/ pc = "np" /\ pc' = "play"
         \/ pc = "autonp" /\ pc' = "autoplay"
      /\ UNCHANGED <<now, up, tk, loaded, sqState, lastTrack, results, armed>>
  BY DEF AnnounceTrack, IInv, TypeInv, ControlOK
<1>2. Performance(pb)' = Performance(pb)
  BY BeatenHasTypes DEF AnnounceTrack, IInv, Performance
<1>3. Performance(np)' = Performance(pb) /\ np'.at # 0
  BY PerformanceTyped DEF AnnounceTrack, Announce, Announcement, Performance, IInv
<1>4. BoardOK'
  BY <1>1 DEF IInv, LedgerInv, BoardOK, BeforeStart
<1>5. AtOrAfter(Performance(pb))'
  BY <1>1, <1>2 DEF IInv, LedgerInv, AtOrAfter
<1>6. AtOrAfter(Performance(Durable))'
  <2>1. CASE UseSQLite /\ sqState.there
    BY <1>1, <2>1 DEF IInv, LedgerInv, AtOrAfter, Durable
  <2>2. CASE ~(UseSQLite /\ sqState.there)
    <3>1. Performance(Durable)' = Performance(np)'
      BY <1>1, <2>2 DEF Durable
    <3> QED BY <1>1, <1>2, <1>3, <1>5, <3>1 DEF AtOrAfter
  <2> QED BY <2>1, <2>2
<1>7. LedgerInv'
  BY <1>1, <1>2, <1>3, <1>4, <1>5, <1>6 DEF IInv, LedgerInv, BeforeStart
<1> QED BY <1>1, <1>7, QuietStep

LEMMA LogKeepsLedger ==
    ASSUME IInv, LogPlay
    PROVE  LedgerInv' /\ LedgerStep
<1>1. /\ up /\ loaded /\ pc \in {"play", "autoplay"}
      /\ UNCHANGED <<up, loaded, pb, np, sqState, lastTrack, results, armed>>
  BY DEF LogPlay, world, IInv, TypeInv, ControlOK
<1>2. CASE pc = "play"
  <2>1. pc' = "save" /\ UNCHANGED <<now, tk>>
    BY <1>2 DEF LogPlay
  <2>2. BoardOK'
    BY <1>1, <1>2, <2>1 DEF IInv, LedgerInv, BoardOK, BeforeStart
  <2>3. LedgerInv'
    BY <1>1, <1>2, <2>1, <2>2
       DEF IInv, LedgerInv, BeforeStart, AtOrAfter, Durable, Performance
  <2> QED BY <1>1, <2>3, QuietStep
<1>3. CASE pc = "autoplay"
  <2>1. EndTick /\ ~UseSQLite
    BY <1>3 DEF LogPlay, IInv, LedgerInv
  <2>2. Performance(Durable)' = Performance(pb) /\ Performance(pb)' = Performance(pb)
    BY <1>1, <1>3, <2>1 DEF IInv, LedgerInv, Durable, Performance
  <2>3. np'.at = 0 => np'.pos = 0 /\ np'.startedAt = 0
    BY <1>1 DEF IInv, LedgerInv
  <2> QED BY <1>1, <2>1, <2>2, <2>3, SavingKeepsLedger
<1> QED BY <1>1, <1>2, <1>3

LEMMA CrashKeepsLedger ==
    ASSUME IInv, Crash
    PROVE  LedgerInv' /\ LedgerStep
<1>1. /\ ~up' /\ ~loaded' /\ pc' = "idle" /\ tk'.auto = {}
      /\ UNCHANGED <<now, np, sqState, lastTrack, results, armed>>
  BY DEF Crash, stores, NoTick
<1>2. BoardOK'
  BY <1>1 DEF IInv, LedgerInv, BoardOK
<1>3. LedgerInv'
  BY <1>1, <1>2 DEF IInv, LedgerInv, AtOrAfter, Durable, Performance
<1> QED BY <1>1, <1>3, QuietStep

LEMMA RestartKeepsLedger ==
    ASSUME IInv, NEW t \in Downtimes, Restart(t)
    PROVE  LedgerInv' /\ LedgerStep
<1>1. /\ ~loaded' /\ pc = "idle" /\ now' = now + t /\ t \in Nat \ {0}
      /\ UNCHANGED <<pc, tk, loaded, pb, np, sqState, lastTrack, results, armed>>
  BY ConductorAssumption DEF Restart, stores, world, IInv, TypeInv, ControlOK
<1>2. BoardOK'
  BY <1>1, PerformanceTyped DEF IInv, LedgerInv, BoardOK
<1>3. LedgerInv'
  BY <1>1, <1>2 DEF IInv, LedgerInv, AtOrAfter, Durable, Performance
<1> QED BY <1>1, <1>3, QuietStep

-----------------------------------------------------------------------------
(* The theorem.                                                            *)

LEMMA InitIsLedgerInit == Init => LedgerInv /\ L!Init
<1> SUFFICES ASSUME Init PROVE LedgerInv /\ L!Init
  OBVIOUS
<1>1. BoardOK
  <2>1. results = <<>> /\ lastTrack = <<0, 0>> /\ now \in Nat \ {0}
    BY ConductorAssumption DEF Init, Start
  <2>2. results \in Seq(Result) /\ NoneAfter(results, lastTrack)
    BY <2>1 DEF NoneAfter
  <2> QED BY <2>1, <2>2 DEF BoardOK
<1>2. LedgerInv
  BY <1>1 DEF Init, LedgerInv, AtOrAfter, Performance, Durable, NoNowPlaying, NoTick
<1> QED BY <1>2 DEF Init, L!Init, SettledPerformances

LEMMA NextIsLedgerNext ==
    ASSUME IInv, StoreFollowsPlayback, [Next]_vars
    PROVE  LedgerInv' /\ LedgerStep
<1>1. CASE Tick
  BY <1>1, BeginKeepsLedger, ResumeKeepsLedger, EndTrackKeepsLedger, HoldKeepsLedger,
     BootstrapKeepsLedger, StoppingKeepsLedger, SavesKeepLedger, PickKeepsLedger,
     MarkKeepsLedger, AnnounceKeepsLedger, LogKeepsLedger DEF Tick
<1>2. CASE Restarts
  BY <1>2, RestartKeepsLedger DEF Restarts
<1>3. CASE UNCHANGED vars
  <2>1. UNCHANGED core /\ UNCHANGED armed
    BY <1>3 DEF vars, core, stores, world
  <2> QED BY <2>1, CoreUnchanged DEF IInv, LedgerInv
<1> QED BY <1>1, <1>2, <1>3, ClientsKeepLedger, CountKeepsLedger, CrashKeepsLedger
        DEF Next

\* The conductor implements the ledger: whenever the relay crashes, whatever
\* it resumes from, each performance is settled at most once and performances
\* are settled in the order they started, if StoreFollowsPlayback.
THEOREM LedgerKept ==
    ASSUME StoreFollowsPlayback
    PROVE  Spec => LedgerSpec
<1>1. TypeInv /\ LedgerInv /\ [Next]_vars => LedgerInv' /\ [L!Next]_SettledPerformances
  BY NextIsLedgerNext DEF IInv, LedgerStep
<1>2. Init => LedgerInv /\ L!Init
  BY InitIsLedgerInit
<1> QED BY <1>1, <1>2, TypesAlways, PTL DEF Spec, LedgerSpec, L!Spec

-----------------------------------------------------------------------------
(* Playback: tracks end on time and are announced.                         *)

\* A track whose start is not done yet was started at this tick, and a tick
\* that stopped the music saves a stopped club.
OnTime ==
    /\ TrackEndsOnTime
    /\ ~BeforeStart => pb.startedAt = now
    /\ pc = "stopped" => ~pb.playing

LEMMA OnTimeQuiet ==
    ASSUME TypeInv, OnTime, UNCHANGED <<now, up, loaded, pb>>,
           pc' = pc \/ (pc = "idle" /\ pc' = "drive")
                    \/ (pc \in {"mark", "index"} /\ pc' \in {"index", "np"})
    PROVE  OnTime'
BY DEF OnTime, TrackEndsOnTime, BeforeStart, TypeInv, ControlOK, PCs

LEMMA OnTimeNext == TypeInv /\ OnTime /\ [Next]_vars => OnTime'
<1>. SUFFICES ASSUME TypeInv, OnTime, [Next]_vars PROVE OnTime'
    OBVIOUS
<1>. USE DEF OnTime, TrackEndsOnTime, BeforeStart
<1>. /\ now \in Nat /\ pc \in PCs /\ pb \in Club /\ (~up => ~loaded)
     /\ \A v \in Videos : Duration[v] \in Nat \ {0}
    BY ConductorAssumption DEF TypeInv, ControlOK, ClubOK, ConductorAssumption
<1>1. CASE Clients \/ Count
    <2>1. UNCHANGED <<now, up, loaded, pb, pc>>
        BY <1>1 DEF Clients, JoinStage, LeaveStage, ArmAutoDJ, PublishQueue, RequestSkip,
                    CheckReaction, ReportBroken, Count, CountReaction, CountAt
    <2>. QED
        BY <2>1, OnTimeQuiet
<1>2. CASE BeginTick \/ MarkTrackOff \/ IndexMark
    <2>1. /\ UNCHANGED <<now, up, loaded, pb>>
          /\ (pc = "idle" /\ pc' = "drive") \/ (pc \in {"mark", "index"} /\ pc' \in {"index", "np"})
        BY <1>2 DEF BeginTick, MarkTrackOff, IndexMark
    <2>. QED
        BY <2>1, OnTimeQuiet
<1>3. CASE Resume
    BY <1>3 DEF Resume
<1>4. CASE EndTrack
    BY <1>4 DEF EndTrack, StartAuto, Club
<1>5. CASE HoldTrack
    <2>1. ~Over
        BY <1>5 DEF HoldTrack, Reasons
    <2>2. now - pb.startedAt < Duration[pb.vid] /\ pb.vid \in Videos /\ pb.startedAt \in Nat
        BY <1>5, <2>1 DEF HoldTrack, Over, Club, TypeInv, ClubOK
    <2>3. pb'.startedAt = pb.startedAt /\ pb'.vid = pb.vid /\ now' = now + 1 /\ pc' = "idle"
        BY <1>5 DEF HoldTrack, EndTick, Beaten, Club
    <2>. QED
        BY <2>2, <2>3
<1>6. CASE Bootstrap
    BY <1>6 DEF Bootstrap, StartAuto, Retry, EndTick, Club
<1>7. CASE StopUndriven
    BY <1>7 DEF StopUndriven
<1>8. CASE Forget
    BY <1>8 DEF Forget, EndTick
<1>9. CASE Pick
    <2>1. (pc' = "stop" /\ pb' = pb) \/ (pc' = "mark" /\ pb'.startedAt = now)
        BY <1>9 DEF Pick, Club
    <2>2. UNCHANGED <<now, up, loaded>>
        BY <1>9 DEF Pick
    <2>. QED
        BY <2>1, <2>2
<1>10. CASE AnnounceTrack
    BY <1>10 DEF AnnounceTrack, Beaten, Club
<1>11. CASE LogPlay \/ SaveTrack
    <2>1. pb.startedAt = now /\ pb' = pb /\ pb.vid \in Videos
        BY <1>11 DEF LogPlay, SaveTrack, TypeInv, ClubOK
    <2>2. (pc' = "save" /\ now' = now) \/ (pc' = "idle" /\ now' = now + 1)
        BY <1>11 DEF LogPlay, SaveTrack, EndTick
    <2>. QED
        BY <2>1, <2>2
<1>12. CASE Stop
    BY <1>12 DEF Stop, Beaten, Club
<1>13. CASE SaveStopped
    BY <1>13 DEF SaveStopped, EndTick
<1>14. CASE Crash \/ Restarts
    <2>1. pc' = "idle" /\ ~loaded'
        <3>1. ASSUME Crash PROVE pc' = "idle" /\ loaded' = FALSE
            BY <3>1 DEF Crash
        <3>2. ASSUME NEW t \in Downtimes, Restart(t) PROVE pc' = "idle" /\ ~loaded'
            BY <3>2 DEF Restart, TypeInv, ControlOK
        <3>. QED
            BY <1>14, <3>1, <3>2 DEF Restarts
    <2>. QED
        BY <2>1
<1>15. CASE UNCHANGED vars
    BY <1>15, OnTimeQuiet DEF vars
<1>. QED
    BY <1>1, <1>2, <1>3, <1>4, <1>5, <1>6, <1>7, <1>8, <1>9, <1>10, <1>11, <1>12, <1>13, <1>14,
       <1>15 DEF Next, Tick

\* driveClub, driveAutoClub and tick's loop over the clubs nobody drives ask
\* the clock whatever a throttled skip, a vote or an empty stage makes of the
\* other reasons: no track outlives its duration by a tick.
THEOREM TracksEndOnTime == Spec => []TrackEndsOnTime
<1>1. Init => OnTime
    BY DEF Init, OnTime, TrackEndsOnTime, BeforeStart
<1>2. OnTime => TrackEndsOnTime
    BY DEF OnTime
<1>. QED
    BY <1>1, <1>2, TypesAlways, OnTimeNext, PTL DEF Spec

-----------------------------------------------------------------------------
\* What is announced is what is in memory, once it has been announced; what a
\* restart finds has not been.
Told ==
    /\ Performance(np) = Performance(pb)
    /\ np.vid = pb.vid /\ np.dj = pb.dj /\ np.playing = pb.playing
Unannounced == pc \in {"mark", "index", "np", "autonp"}
ToldInv ==
    /\ sqState.row.lastBeat = 0
    /\ loaded /\ pb.lastBeat > 0 /\ ~Unannounced => Told

LEMMA ToldNext == TypeInv /\ ToldInv /\ [Next]_vars => ToldInv'
<1>. SUFFICES ASSUME TypeInv, ToldInv, [Next]_vars PROVE ToldInv'
    OBVIOUS
<1>. USE DEF ToldInv, Told, Unannounced, Performance
<1>. pc \in PCs /\ pb \in Club /\ np \in NowPlaying /\ sqState \in [there : BOOLEAN, row : Club]
    BY DEF TypeInv, ControlOK, ClubOK, StoresOK
<1>0. ASSUME UNCHANGED <<loaded, pb, np, sqState>>, Unannounced' <=> Unannounced
      PROVE  ToldInv'
    BY <1>0
<1>a. Saved(pb).row.lastBeat = 0 \/ Saved(pb) = sqState
    BY DEF Saved, Club
<1>1. CASE Clients \/ Count
    <2>1. UNCHANGED <<loaded, pb, pc, np, sqState>>
        BY <1>1 DEF Clients, JoinStage, LeaveStage, ArmAutoDJ, PublishQueue, RequestSkip,
                    CheckReaction, ReportBroken, Count, CountReaction, CountAt, stores, dbQueue
    <2>. QED
        BY <2>1
<1>2. CASE BeginTick \/ MarkTrackOff \/ IndexMark
    <2>1. /\ UNCHANGED <<loaded, pb, np, sqState>>
          /\ (pc = "idle" /\ pc' = "drive") \/ (pc \in {"mark", "index"} /\ pc' \in {"index", "np"})
        BY <1>2 DEF BeginTick, MarkTrackOff, IndexMark, stores
    <2>. QED
        BY <2>1
<1>3. CASE Resume
    <2>1. pb'.lastBeat = 0
        <3>1. Kept(sqState.row).lastBeat = 0 /\ Kept(sqState.row) \in Club
            BY DEF Kept, Club, Vids
        <3>2. CASE ResumeFromSQLite
            BY <3>1, <3>2 DEF ResumeFromSQLite, Club
        <3>3. CASE ResumeFromEvents
            BY <3>3 DEF ResumeFromEvents, FromNowPlaying, Announced, NoClub
        <3>. QED
            BY <1>3, <3>2, <3>3 DEF Resume
    <2>2. sqState'.row.lastBeat = 0
        <3>1. pb' \in Club
            BY NextHasTypes DEF TypeInv, ClubOK
        <3>2. sqState' = sqState \/ sqState' = [there |-> TRUE, row |-> [pb' EXCEPT !.lastBeat = 0]]
            BY <1>3 DEF Resume, ResumeFromSQLite, ResumeFromEvents, Saved
        <3>. QED
            BY <3>1, <3>2 DEF Club
    <2>. QED
        BY <2>1, <2>2
<1>4. CASE EndTrack
    BY <1>4 DEF EndTrack, StartAuto
<1>5. CASE HoldTrack
    <2>1. UNCHANGED <<loaded, sqState>> /\ pc = "drive" /\ pc' = "idle" /\ pb.playing
        BY <1>5 DEF HoldTrack, EndTick
    <2>2. \/ UNCHANGED <<np, pb>>
          \/ np' = Announcement(pb, "playing", tk.auto # {}) /\ pb' = Beaten(pb)
        BY <1>5 DEF HoldTrack, Announce
    <2>3. CASE np' = Announcement(pb, "playing", tk.auto # {}) /\ pb' = Beaten(pb)
        BY <2>1, <2>3 DEF Announcement, Beaten, Club
    <2>. QED
        BY <2>1, <2>2, <2>3
<1>6. CASE Bootstrap
    BY <1>6 DEF Bootstrap, StartAuto, Retry, EndTick, stores
<1>7. CASE StopUndriven
    <2>1. UNCHANGED <<loaded, sqState>> /\ np' = Announcement(pb, "paused", FALSE)
        BY <1>7 DEF StopUndriven, Announce
    <2>2. pb' = [Beaten(pb) EXCEPT !.playing = FALSE, !.auto = FALSE]
        BY <1>7 DEF StopUndriven
    <2>. QED
        BY <2>1, <2>2 DEF Announcement, Beaten, Club
<1>8. CASE Forget
    BY <1>8, <1>a DEF Forget
<1>9. CASE Pick
    <2>1. (pc' = "stop" /\ pb' = pb) \/ pc' = "mark"
        BY <1>9 DEF Pick
    <2>2. UNCHANGED <<loaded, np, sqState>> /\ pc = "pick"
        BY <1>9 DEF Pick
    <2>. QED
        BY <2>1, <2>2
<1>10. CASE AnnounceTrack
    <2>1. np' = Announcement(pb, "playing", pb.auto) /\ pb' = Beaten(pb) /\ pb.playing
        BY <1>10 DEF AnnounceTrack, Announce, TypeInv, ClubOK, BeforeStart
    <2>2. UNCHANGED <<loaded, sqState>>
        BY <1>10 DEF AnnounceTrack
    <2>. QED
        BY <2>1, <2>2 DEF Announcement, Beaten, Club
<1>11. CASE LogPlay
    BY <1>11 DEF LogPlay, EndTick
<1>12. CASE SaveTrack \/ SaveStopped
    <2>1. UNCHANGED <<loaded, pb, np>> /\ sqState' = Saved(pb) /\ ~Unannounced
        BY <1>12 DEF SaveTrack, SaveStopped
    <2>. QED
        BY <2>1, <1>a
<1>13. CASE Stop
    <2>1. UNCHANGED <<loaded, sqState>> /\ pc = "stop"
        BY <1>13 DEF Stop
    <2>2. CASE pb.vid = NoVideo
        <3>1. UNCHANGED np /\ pb' = [pb EXCEPT !.playing = FALSE, !.auto = FALSE]
            BY <1>13, <2>2 DEF Stop
        <3>2. ~pb.playing
            BY <2>2, ConductorAssumption DEF TypeInv, ClubOK, NoVideo, ConductorAssumption
        <3>. QED
            BY <2>1, <3>1, <3>2 DEF Club
    <2>3. CASE pb.vid # NoVideo
        <3>1. np' = Announcement(pb, "paused", FALSE)
            BY <1>13, <2>3 DEF Stop, Announce
        <3>2. pb' = [Beaten(pb) EXCEPT !.playing = FALSE, !.auto = FALSE]
            BY <1>13, <2>3 DEF Stop
        <3>. QED
            BY <2>1, <3>1, <3>2 DEF Announcement, Beaten, Club
    <2>. QED
        BY <2>2, <2>3
<1>14. CASE Crash
    BY <1>14 DEF Crash, stores
<1>15. CASE Restarts
    BY <1>15 DEF Restarts, Restart, stores
<1>16. CASE UNCHANGED vars
    BY <1>16 DEF vars, stores
<1>. QED
    BY <1>1, <1>2, <1>3, <1>4, <1>5, <1>6, <1>7, <1>8, <1>9, <1>10, <1>11, <1>12, <1>13, <1>14,
       <1>15, <1>16 DEF Next, Tick

\* Every start, heartbeat, stop and pause writes memory and announcement alike:
\* between ticks the stored now_playing is the track the relay plays.
THEOREM AnnouncesWhatPlays == Spec => []NowPlayingAgrees
<1>1. Init => ToldInv
    BY DEF Init, ToldInv, NoClub
<1>2. ToldInv => NowPlayingAgrees
    BY DEF ToldInv, NowPlayingAgrees, Told, Unannounced
<1>. QED
    BY <1>1, <1>2, TypesAlways, ToldNext, PTL DEF Spec

-----------------------------------------------------------------------------
(* A skip request ends what its sender was told of.                        *)

\* The request, if it counts for a track of r's position and start, is about r.
Meets(r) == skip.pos = r.pos /\ skip.at > r.startedAt => skip.seen = Performance(r)

\* Two records of one position are of the same performance.
SameAt(r, q) == r.pos = q.pos => Performance(r) = Performance(q)

SeenInv ==
    /\ skip.at \in Int /\ skip.at <= now
    /\ Meets(np) /\ Meets(sqState.row) /\ SameAt(np, sqState.row)
    /\ np.at = 0 => np.pos = 0 /\ np.startedAt = 0
    /\ ~sqState.there => sqState.row.pos = 0 /\ sqState.row.startedAt = 0
    /\ ~UseSQLite => ~sqState.there
    /\ Unannounced => pb.startedAt = now
    /\ loaded => Meets(pb) /\ SameAt(pb, sqState.row) /\ sqState.row.pos <= pb.pos
    /\ loaded /\ ~Unannounced => SameAt(np, pb)

\* What SeenInv reads of the tracks.
Place(r) == <<r.pos, r.startedAt>>

LEMMA PickPlaces ==
    ASSUME TypeInv, Pick
    PROVE  \/ pc' = "stop" /\ pb' = pb
           \/ pc' = "mark" /\ pb'.pos = pb.pos + 1 /\ pb'.startedAt = now
BY DEF Pick, TypeInv, ClubOK, Club

LEMMA SeenNext ==
    ASSUME \A s \in Skews : s <= 0, TypeInv, TypeInv', SeenInv, [Next]_vars
    PROVE  SeenInv'
<1>. USE DEF SeenInv, Meets, SameAt, Unannounced, Performance
<1>. /\ pc \in PCs /\ pb \in Club /\ np \in NowPlaying /\ now \in Nat \ {0}
     /\ sqState \in [there : BOOLEAN, row : Club]
     /\ up' \in BOOLEAN /\ pb' \in Club /\ np' \in NowPlaying /\ now' \in Nat
     /\ sqState' \in [there : BOOLEAN, row : Club] /\ Positions \subseteq Nat
    BY PositionsRange DEF TypeInv, ControlOK, ClubOK, StoresOK
<1>. \A r \in Club : r.pos \in Nat /\ r.startedAt \in Nat
    BY PositionsRange DEF Club
<1>. np.pos \in Nat /\ np.startedAt \in Nat
    BY PositionsRange DEF NowPlaying
<1>0. ASSUME UNCHANGED <<loaded, pb, np, sqState, skip>>, now' = now \/ ~Unannounced,
             now' >= now, Unannounced' <=> Unannounced
      PROVE  SeenInv'
    BY <1>0
<1>s. UseSQLite => Saved(pb).there /\ Place(Saved(pb).row) = Place(pb)
    BY DEF Saved, Club, Place
<1>1. CASE Clients \/ Count
    <2>1. CASE \E w \in Skippers, s \in Skews : RequestSkip(w, s)
        <3>1. PICK w \in Skippers, s \in Skews : RequestSkip(w, s)
            BY <2>1
        <3>2. s \in Int /\ s <= 0
            BY ConductorAssumption DEF ConductorAssumption
        <3>3. /\ skip'.pos = np.pos /\ skip'.at = now + s /\ skip'.seen = <<np.pos, np.startedAt>>
              /\ UNCHANGED <<now, loaded, pb, pc, np, sqState>>
            BY <3>1 DEF RequestSkip, stores
        <3>. QED
            BY <3>2, <3>3
    <2>2. CASE UNCHANGED <<now, loaded, pb, pc, np, sqState, skip>>
        BY <2>2
    <2>. QED
        BY <1>1, <2>1, <2>2
        DEF Clients, JoinStage, LeaveStage, ArmAutoDJ, PublishQueue, CheckReaction, ReportBroken,
            Count, CountReaction, CountAt, stores, dbQueue, world
<1>2. CASE BeginTick \/ MarkTrackOff \/ IndexMark
    <2>1. /\ UNCHANGED <<now, loaded, pb, np, sqState, skip>>
          /\ \/ pc = "idle" /\ pc' = "drive"
             \/ pc \in {"mark", "index"} /\ pc' \in {"index", "np"}
        BY <1>2 DEF BeginTick, MarkTrackOff, IndexMark, stores, world
    <2>. QED
        BY <2>1
<1>3. CASE Resume
    <2>1. UNCHANGED <<now, np, skip, pc>> /\ pc = "drive"
        BY <1>3 DEF Resume, world
    <2>2. CASE ResumeFromSQLite
        <3>1. Place(Kept(sqState.row)) = Place(sqState.row) /\ Kept(sqState.row) \in Club
            BY DEF Kept, Place, Club, Vids
        <3>2. Place(pb') = Place(sqState.row)
            BY <2>2, <3>1 DEF ResumeFromSQLite, Place, Club
        <3>3. sqState' = [there |-> TRUE, row |-> [pb' EXCEPT !.lastBeat = 0]]
            BY <2>2 DEF ResumeFromSQLite, Saved
        <3>4. Place(sqState'.row) = Place(pb') /\ sqState'.there
            BY <3>3 DEF Place, Club
        <3>5. UseSQLite
            BY <2>2 DEF ResumeFromSQLite
        <3>. QED
            BY <2>1, <3>2, <3>4, <3>5 DEF Place
    <2>3. CASE ResumeFromEvents
        <3>1. pb' = Announced /\ ~(UseSQLite /\ sqState.there)
            BY <2>3 DEF ResumeFromEvents, FromNowPlaying
        <3>2. Place(pb') = Place(np)
            BY <3>1 DEF Announced, NoClub, Place
        <3>3. ~sqState.there
            BY <3>1
        <3>4. \/ sqState' = sqState
              \/ (UseSQLite /\ sqState' = [there |-> TRUE, row |-> [pb' EXCEPT !.lastBeat = 0]])
            BY <2>3 DEF ResumeFromEvents, FromNowPlaying, Saved
        <3>5. \/ sqState' = sqState
              \/ (UseSQLite /\ sqState'.there /\ Place(sqState'.row) = Place(pb'))
            BY <3>4 DEF Place, Club
        <3>. QED
            BY <2>1, <3>2, <3>3, <3>5 DEF Place
    <2>. QED
        BY <1>3, <2>2, <2>3 DEF Resume
\* A new track: a position nobody has, started now.
<1>4. ASSUME pb'.pos = pb.pos + 1, pb'.startedAt = now, pc' \in {"mark", "autonp"}, loaded,
             UNCHANGED <<now, np, sqState, skip, loaded>>
      PROVE  SeenInv'
    BY <1>4
<1>5. CASE EndTrack \/ Bootstrap
    <2>1. UNCHANGED <<np, sqState, skip, loaded>> /\ loaded /\ pc = "drive"
        BY <1>5 DEF EndTrack, Bootstrap, stores, world
    <2>2. CASE UNCHANGED pb
        <3>1. now' = now \/ now' = now + 1
            BY <1>5 DEF EndTrack, Bootstrap, StartAuto, Retry, EndTick
        <3>2. pc' \in {"pick", "idle"} \/ tk.djs = <<>>
            BY <1>5 DEF EndTrack, Bootstrap, StartAuto, Retry, EndTick
        <3>3. tk.djs = <<>> => pb'.pos = pb.pos + 1
            BY <1>5 DEF EndTrack, Bootstrap, StartAuto, Club
        <3>. QED
            BY <2>1, <2>2, <3>1, <3>2, <3>3
    <2>3. CASE StartAuto
        <3>1. now' = now
            BY <1>5, <2>3 DEF EndTrack, Bootstrap, StartAuto, Retry, EndTick
        <3>2. pb'.pos = pb.pos + 1 /\ pb'.startedAt = now /\ pc' = "autonp"
            BY <2>3 DEF StartAuto, Club
        <3>. QED
            BY <1>4, <2>1, <3>1, <3>2
    <2>. QED
        BY <1>5, <2>2, <2>3 DEF EndTrack, Bootstrap
<1>6. CASE Pick
    <2>1. UNCHANGED <<now, np, sqState, skip, loaded>> /\ pc = "pick" /\ loaded
        BY <1>6 DEF Pick, world, TypeInv, ControlOK
    <2>2. \/ pc' = "stop" /\ pb' = pb
          \/ pc' = "mark" /\ pb'.pos = pb.pos + 1 /\ pb'.startedAt = now
        BY <1>6, PickPlaces
    <2>. QED
        BY <1>4, <2>1, <2>2
\* An announcement of what is in memory, whose place stays.
<1>7. ASSUME NEW status, NEW auto, np' = Announcement(pb, status, auto), Place(pb') = Place(pb),
             UNCHANGED <<sqState, skip, loaded>>, loaded,
             pc' \notin {"mark", "index", "np", "autonp"},
             now' >= now
      PROVE  SeenInv'
    <2>1. Place(np') = Place(pb) /\ np'.at = now
        BY <1>7 DEF Announcement, Place
    <2>. QED
        BY <1>7, <2>1 DEF Place
<1>8. CASE HoldTrack
    <2>1. /\ UNCHANGED <<sqState, skip, loaded>> /\ loaded
          /\ pc = "drive" /\ pc' = "idle" /\ now' = now + 1
        BY <1>8 DEF HoldTrack, EndTick, world
    <2>2. CASE UNCHANGED <<np, pb>>
        BY <2>1, <2>2
    <2>3. CASE np' = Announcement(pb, "playing", tk.auto # {}) /\ pb' = Beaten(pb)
        <3>1. Place(pb') = Place(pb)
            BY <2>3 DEF Beaten, Place, Club
        <3>. QED
            BY <1>7, <2>1, <2>3, <3>1
    <2>. QED
        BY <1>8, <2>2, <2>3 DEF HoldTrack, Announce
<1>9. CASE StopUndriven \/ Stop
    <2>1. /\ UNCHANGED <<now, sqState, skip, loaded>> /\ loaded
          /\ pc \in {"drive", "stop"} /\ pc' \in {"forget", "stopped"}
        BY <1>9 DEF StopUndriven, Stop, world, TypeInv, ControlOK
    <2>2. Place(pb') = Place(pb)
        BY <1>9 DEF StopUndriven, Stop, Beaten, Place, Club
    <2>3. np' = np \/ np' = Announcement(pb, "paused", FALSE)
        BY <1>9 DEF StopUndriven, Stop, Announce
    <2>4. CASE np' = np
        BY <2>1, <2>2, <2>4 DEF Place
    <2>5. CASE np' = Announcement(pb, "paused", FALSE)
        <3>1. now' >= now /\ pc' \notin {"mark", "index", "np", "autonp"}
            BY <2>1
        <3>. QED
            BY <1>7, <2>1, <2>2, <2>5, <3>1
    <2>. QED
        BY <2>3, <2>4, <2>5
<1>10. CASE AnnounceTrack
    <2>1. /\ UNCHANGED <<now, sqState, skip, loaded>> /\ loaded /\ pc' \in {"play", "autoplay"}
          /\ np' = Announcement(pb, "playing", pb.auto) /\ pb' = Beaten(pb)
        BY <1>10 DEF AnnounceTrack, Announce, TypeInv, ControlOK
    <2>2. Place(pb') = Place(pb)
        BY <2>1 DEF Beaten, Place, Club
    <2>. QED
        BY <1>7, <2>1, <2>2
<1>11. CASE LogPlay
    BY <1>11, <1>0 DEF LogPlay, EndTick, world
<1>12. CASE SaveTrack \/ SaveStopped \/ Forget
    <2>1. UNCHANGED <<np, skip>> /\ now' = now + 1 /\ pc' = "idle"
        BY <1>12 DEF SaveTrack, SaveStopped, Forget, EndTick, world
    <2>2. ~Unannounced
        BY <1>12 DEF SaveTrack, SaveStopped, Forget
    <2>3. sqState' = sqState \/ (loaded /\ sqState' = Saved(pb))
        BY <1>12 DEF SaveTrack, SaveStopped, Forget, TypeInv, ControlOK
    <2>4. (loaded' = loaded /\ pb' = pb) \/ loaded' = FALSE
        BY <1>12 DEF SaveTrack, SaveStopped, Forget
    <2>5. \/ sqState' = sqState
          \/ (loaded /\ UseSQLite /\ sqState'.there /\ Place(sqState'.row) = Place(pb))
        BY <2>3, <1>s DEF Saved
    <2>. QED
        BY <2>1, <2>2, <2>4, <2>5 DEF Place
<1>13. CASE Crash
    BY <1>13 DEF Crash, stores
<1>14. CASE Restarts
    <2>1. PICK t \in Downtimes : Restart(t)
        BY <1>14 DEF Restarts
    <2>2. UNCHANGED <<np, sqState, skip, pc, loaded, pb>> /\ now' >= now /\ pc = "idle"
        BY <2>1, ConductorAssumption
        DEF Restart, stores, world, TypeInv, ControlOK, ConductorAssumption
    <2>. QED
        BY <2>2
<1>15. CASE UNCHANGED vars
    BY <1>15, <1>0 DEF vars, stores, world
<1>. QED
    BY <1>1, <1>2, <1>3, <1>5, <1>6, <1>8, <1>9, <1>10, <1>11, <1>12, <1>13, <1>14, <1>15
    DEF Next, Tick

\* As long as no client's clock is ahead of the relay's, skipRequested never
\* takes a request for another performance than the one its sender was told
\* of, though a crash before the save has a position used again.
THEOREM SkipsHitWhatWasSeen ==
    ASSUME \A s \in Skews : s <= 0
    PROVE  Spec => []SkipHitsWhatWasSeen
<1>1. Init => SeenInv
    <2>. SUFFICES ASSUME Init PROVE SeenInv
        OBVIOUS
    <2>1. skip.at = 0 /\ now \in Nat /\ ~loaded /\ pc = "idle"
        BY ConductorAssumption DEF Init, Start, ConductorAssumption
    <2>2. /\ np.pos = 0 /\ np.startedAt = 0 /\ sqState.row.pos = 0 /\ sqState.row.startedAt = 0
          /\ ~sqState.there
        BY DEF Init, NoNowPlaying, NoClub
    <2>. QED
        BY <2>1, <2>2 DEF SeenInv, Meets, SameAt, Performance, Unannounced
<1>2. SeenInv => SkipHitsWhatWasSeen
    BY DEF SeenInv, SkipHitsWhatWasSeen, Reasons, SkipRequested, Meets
<1>3. TypeInv /\ TypeInv' /\ SeenInv /\ [Next]_vars => SeenInv'
    BY SeenNext
<1>. QED
    BY <1>1, <1>2, <1>3, TypesAlways, PTL DEF Spec

-----------------------------------------------------------------------------
(* Reactions count for the performance they were cast for.                 *)

\* The performance in memory, or the one a restart resumes.
Current == IF loaded THEN Performance(pb) ELSE Performance(Durable)

Earned(n, perf) == n <= Cardinality(CastFor(perf))

\* The next banger cast is a new one.
CastOK ==
    /\ IsFiniteSet(cast)
    /\ \A c \in cast : c[2] \in Nat /\ c[2] <= Cardinality(CastFor(c[1]))

\* What is announced was earned, and it is what a restart restores it for.
AnnouncedEarned ==
    /\ Earned(np.bangers, Performance(np))
    /\ np.bangers > 0 => Performance(np) = Performance(Durable)
    /\ pc \in {"play", "save"} => np.bangers = 0

\* Positions that are still to come have no reactions, and none on the way.
CountsEarned ==
    /\ Earned(bangers[Current[1]], Current)
    /\ \A p \in Positions : p > Current[1] => bangers[p] = 0
    /\ \A m \in inflight :
          m.pos <= Current[1] /\ (m.pos = Current[1] => m.perf = Current)
    /\ Unannounced => bangers[pb.pos] = 0 /\ \A m \in inflight : m.pos # pb.pos

EarnInv == CastOK /\ BangersAreEarned /\ AnnouncedEarned /\ CountsEarned

\* A banger that is counted makes the performance it was cast for richer.
LEMMA CastGrows ==
    ASSUME CastOK, NEW perf,
           cast' = cast \cup {<<perf, Cardinality(CastFor(perf)) + 1>>}
    PROVE  /\ CastOK'
           /\ Cardinality(CastFor(perf))' = Cardinality(CastFor(perf)) + 1
           /\ \A other : /\ Cardinality(CastFor(other)) \in Nat
                         /\ Cardinality(CastFor(other))' \in Nat
                         /\ Cardinality(CastFor(other)) <= Cardinality(CastFor(other))'
<1> DEFINE n == Cardinality(CastFor(perf))
           new == <<perf, n + 1>>
<1>1. ASSUME NEW other
      PROVE  IsFiniteSet(CastFor(other)) /\ Cardinality(CastFor(other)) \in Nat
  <2>1. CastFor(other) \subseteq cast /\ IsFiniteSet(cast)
    BY DEF CastFor, CastOK
  <2>2. IsFiniteSet(CastFor(other))
    BY <2>1, FS_Subset
  <2> QED BY <2>2, FS_CardinalityType
<1>2. n \in Nat /\ IsFiniteSet(CastFor(perf))
  BY <1>1
<1>3. new[1] = perf /\ new[2] = n + 1
  OBVIOUS
<1>4. new \notin CastFor(perf)
  <2>1. ASSUME new \in CastFor(perf) PROVE FALSE
    <3>1. new[2] <= n
      BY <1>3, <2>1 DEF CastOK, CastFor
    <3> QED BY <1>2, <1>3, <3>1
  <2> QED BY <2>1
<1> HIDE DEF new
<1>5. cast' = cast \cup {new}
  BY DEF new
<1>6. CastFor(perf)' = CastFor(perf) \cup {new}
  BY <1>3, <1>5 DEF CastFor
<1>7. IsFiniteSet(CastFor(perf) \cup {new}) /\ Cardinality(CastFor(perf) \cup {new}) = n + 1
  <2> HIDE DEF n
  <2> QED BY <1>2, <1>4, FS_AddElement DEF n
<1>8. Cardinality(CastFor(perf))' = n + 1
  BY <1>6, <1>7
<1>9. ASSUME NEW other
      PROVE  /\ Cardinality(CastFor(other)) \in Nat
             /\ Cardinality(CastFor(other))' \in Nat
             /\ Cardinality(CastFor(other)) <= Cardinality(CastFor(other))'
  <2>1. CASE other = perf
    <3>1. CastFor(other) = CastFor(perf) /\ CastFor(other)' = CastFor(perf)'
      BY <2>1 DEF CastFor
    <3> QED BY <1>2, <1>8, <3>1
  <2>2. CASE other # perf
    <3>1. CastFor(other)' = CastFor(other)
      BY <1>3, <1>5, <2>2 DEF CastFor
    <3>2. Cardinality(CastFor(other)) \in Nat
      BY <1>1
    <3> QED BY <3>1, <3>2
  <2> QED BY <2>1, <2>2
<1>10. CastOK'
  <2>1. IsFiniteSet(cast')
    BY <1>5, FS_AddElement DEF CastOK
  <2>2. ASSUME NEW c \in cast' PROVE c[2] \in Nat /\ c[2] <= Cardinality(CastFor(c[1]))'
    <3>1. CASE c = new
      <4>1. CastFor(c[1])' = CastFor(perf)' /\ c[2] = n + 1
        BY <1>3, <3>1 DEF CastFor
      <4> QED BY <1>2, <1>8, <4>1
    <3>2. CASE c \in cast
      <4>1. c[2] \in Nat /\ c[2] <= Cardinality(CastFor(c[1]))
        BY <3>2 DEF CastOK
      <4> QED BY <1>9, <4>1
    <3> QED BY <1>5, <2>2, <3>1, <3>2
  <2> QED BY <2>1, <2>2 DEF CastOK
<1> QED BY <1>8, <1>9, <1>10

LEMMA CastCounts ==
    ASSUME CastOK, NEW perf
    PROVE  Cardinality(CastFor(perf)) \in Nat
<1>1. CastFor(perf) \subseteq cast /\ IsFiniteSet(cast)
  BY DEF CastFor, CastOK
<1> QED BY <1>1, FS_Subset, FS_CardinalityType

\* Where the current performance is, for the arithmetic below.
LEMMA CurrentTyped ==
    ASSUME TypeInv
    PROVE  /\ Current \in Nat \X Nat /\ Current[1] \in Positions /\ Current[1] \in Nat
           /\ loaded => Current = Performance(pb) /\ Current[1] = pb.pos
           /\ bangers \in [Positions -> 0..BangerMax] /\ Positions \subseteq Nat
           /\ BangerMax \in Nat
<1>1. pb \in Club /\ np \in NowPlaying /\ sqState \in [there : BOOLEAN, row : Club]
  BY DEF TypeInv, ClubOK, StoresOK
<1>2. /\ pb.pos \in Positions /\ pb.startedAt \in Nat
      /\ np.pos \in Positions /\ np.startedAt \in Nat
      /\ sqState.row.pos \in Positions /\ sqState.row.startedAt \in Nat
  BY <1>1 DEF Club, NowPlaying
<1>3. Durable.pos \in Positions /\ Durable.startedAt \in Nat
  BY <1>2 DEF Durable
<1>4. Positions \subseteq Nat /\ BangerMax \in Nat
  BY PositionsRange, ConductorAssumption DEF ConductorAssumption
<1> QED BY <1>2, <1>3, <1>4 DEF Current, Performance, TypeInv, VotesOK

LEMMA BangersAreNatural ==
    ASSUME TypeInv
    PROVE  \A p \in Positions : bangers[p] \in Nat /\ p \in Nat
BY CurrentTyped

\* Steps that count nothing and keep the performance.
LEMMA KeepsEarned ==
    ASSUME TypeInv, EarnInv, UNCHANGED <<cast, np>>, BangersAreEarned',
           Current' = Current, inflight' \subseteq inflight,
           \A p \in Positions : bangers'[p] <= bangers[p] /\ bangers'[p] \in Nat,
           np.bangers > 0 => Performance(Durable)' = Performance(Durable),
           Unannounced' => Unannounced /\ pb' = pb,
           pc' \in {"play", "save"} => pc \in {"play", "save"}
    PROVE  EarnInv'
<1>1. CastOK'
  BY DEF EarnInv, CastOK, CastFor
<1>2. AnnouncedEarned'
  BY DEF EarnInv, AnnouncedEarned, Earned, CastFor, Performance
<1>3. CountsEarned'
  <2>1. bangers[Current[1]] <= Cardinality(CastFor(Current))
    BY DEF EarnInv, CountsEarned, Earned
  <2>2. /\ bangers'[Current[1]] <= bangers[Current[1]] /\ bangers'[Current[1]] \in Nat
        /\ bangers[Current[1]] \in Nat /\ Cardinality(CastFor(Current)) \in Nat
    BY CurrentTyped, CastCounts DEF EarnInv
  <2>3. Earned(bangers[Current[1]], Current)'
    BY <2>1, <2>2 DEF Earned, CastFor
  <2>4. ASSUME NEW p \in Positions, bangers[p] = 0 PROVE bangers'[p] = 0
    BY <2>4
  <2>5. Unannounced' => pb.pos \in Positions
    BY DEF TypeInv, ClubOK, Club
  <2> QED BY <2>3, <2>4, <2>5 DEF EarnInv, CountsEarned
<1> QED BY <1>1, <1>2, <1>3 DEF EarnInv

LEMMA ResultsKept ==
    ASSUME BangersAreEarned, UNCHANGED <<results, cast>>
    PROVE  BangersAreEarned'
BY DEF BangersAreEarned, CastFor

\* A settlement credits the bangers of the performance in memory.
LEMMA SettleEarned ==
    ASSUME IInv, EarnInv, loaded, NEW how \in Endings, Settle(how), UNCHANGED cast
    PROVE  BangersAreEarned'
<1>1. CASE UNCHANGED results
  BY <1>1, ResultsKept DEF EarnInv
<1>2. CASE Record(how)
  <2> DEFINE n == Len(results)
             res == [perf |-> Performance(pb), vid |-> pb.vid, dj |-> pb.dj, auto |-> pb.auto,
                     how |-> how, bangers |-> bangers[pb.pos]]
  <2>1. results \in Seq(Result) /\ n \in Nat
    BY LenProperties DEF IInv, LedgerInv, BoardOK
  <2>2. res.bangers <= Cardinality(CastFor(res.perf))
    BY CurrentTyped DEF IInv, EarnInv, CountsEarned, Earned
  <2>3. results' = Append(results, res)
    BY <1>2 DEF Record
  <2> HIDE DEF res
  <2>4. Len(results') = n + 1 /\ results'[n + 1] = res /\ \A i \in 1..n : results'[i] = results[i]
    BY <2>1, <2>3
  <2>5. ASSUME NEW i \in 1..(n + 1)
        PROVE  results'[i].bangers <= Cardinality(CastFor(results'[i].perf))
    <3>1. CASE i = n + 1
      BY <2>2, <2>4, <3>1
    <3>2. CASE i \in 1..n
      BY <2>4, <3>2 DEF EarnInv, BangersAreEarned
    <3> QED BY <2>1, <3>1, <3>2
  <2> QED BY <2>4, <2>5 DEF BangersAreEarned, CastFor
<1> QED BY <1>1, <1>2 DEF Settle

\* A track that starts takes a position nobody has reacted to.
LEMMA StartEarned ==
    ASSUME TypeInv, TypeInv', EarnInv, BangersAreEarned', loaded, pb'.pos = pb.pos + 1,
           UNCHANGED <<bangers, inflight, cast, np, sqState, loaded>>,
           pc' \notin {"play", "save"}
    PROVE  EarnInv'
<1>1. /\ Current[1] = pb.pos /\ pb.pos \in Nat /\ Current'[1] = pb.pos + 1
      /\ pb'.pos \in Positions /\ pb'.pos = pb.pos + 1
  <2>1. pb'.pos \in Positions
    BY DEF TypeInv, ClubOK, Club
  <2> QED BY <2>1, CurrentTyped DEF Current, Performance
<1>2. /\ Positions \subseteq Nat
      /\ \A p \in Positions : p > pb.pos => bangers[p] = 0
      /\ \A m \in inflight : m.pos <= pb.pos /\ m.pos \in Nat
  BY <1>1, CurrentTyped DEF EarnInv, CountsEarned, TypeInv, VotesOK
<1>3. bangers[pb'.pos] = 0
  BY <1>1, <1>2
<1>4. Cardinality(CastFor(Current')) \in Nat
  BY CastCounts DEF EarnInv
<1>5. CountsEarned'
  <2>1. Earned(bangers[Current[1]], Current)'
    BY <1>1, <1>3, <1>4 DEF Earned, CastFor
  <2>2. \A p \in Positions : p > Current'[1] => bangers'[p] = 0
    BY <1>1, <1>2
  <2>3. \A m \in inflight' : m.pos < Current'[1] /\ m.pos # pb'.pos
    BY <1>1, <1>2
  <2>4. \A m \in inflight' : m.pos <= Current'[1] /\ m.pos # Current'[1]
    BY <1>1, <1>2, <2>3
  <2> QED BY <1>3, <2>1, <2>2, <2>3, <2>4 DEF CountsEarned
<1>6. CastOK' /\ AnnouncedEarned'
  BY DEF EarnInv, CastOK, AnnouncedEarned, CastFor, Earned, Durable, Performance
<1> QED BY <1>5, <1>6 DEF EarnInv

\* An announcement tells the reactions to what is in memory.
LEMMA AnnounceEarned ==
    ASSUME TypeInv, EarnInv, BangersAreEarned', loaded, NEW status, NEW auto,
           np' = Announcement(pb, status, auto), Performance(pb)' = Performance(pb),
           UNCHANGED <<bangers, inflight, cast, sqState, loaded>>, ~Unannounced',
           bangers[pb.pos] = 0 \/ Performance(Durable) = Performance(pb),
           pc' \in {"play", "save"} => bangers[pb.pos] = 0
    PROVE  EarnInv'
<1>1. /\ Performance(np)' = Performance(pb) /\ np'.bangers \in {0, bangers[pb.pos]}
  BY DEF Announcement, Performance
<1>2. Current = Performance(pb) /\ Current[1] = pb.pos /\ Current' = Current
  BY CurrentTyped DEF Current
<1>3. /\ Cardinality(CastFor(Current)) \in Nat /\ bangers[pb.pos] \in Nat
      /\ bangers[pb.pos] <= Cardinality(CastFor(Current))
  BY <1>2, CastCounts, CurrentTyped DEF EarnInv, CountsEarned, Earned
<1>4. CastOK' /\ CountsEarned'
  BY <1>2 DEF EarnInv, CastOK, CountsEarned, CastFor, Earned
<1>5. Earned(np.bangers, Performance(np))'
  BY <1>1, <1>2, <1>3 DEF Earned, CastFor
<1>6. np'.bangers > 0 => Performance(np)' = Performance(Durable)'
  <2>1. np'.bangers > 0 => Performance(Durable) = Performance(pb)
    BY <1>1, <1>3
  <2> QED BY <1>1, <2>1 DEF Durable, Performance
<1>7. AnnouncedEarned'
  BY <1>1, <1>5, <1>6 DEF AnnouncedEarned
<1> QED BY <1>4, <1>7 DEF EarnInv

\* What the rest of a tick and most clients leave alone.
LEMMA EarnedFrame ==
    ASSUME TypeInv, EarnInv,
           UNCHANGED <<cast, np, results, bangers, inflight, pb, loaded, sqState>>,
           Unannounced' => Unannounced,
           pc' \in {"play", "save"} => pc \in {"play", "save"}
    PROVE  EarnInv'
<1>1. Current' = Current /\ Performance(Durable)' = Performance(Durable)
  BY DEF Current, Durable, Performance
<1>2. \A p \in Positions : bangers'[p] <= bangers[p] /\ bangers'[p] \in Nat
  BY CurrentTyped
<1>3. BangersAreEarned'
  BY ResultsKept DEF EarnInv
<1> QED BY <1>1, <1>2, <1>3, KeepsEarned

LEMMA CheckEarned ==
    ASSUME IInv, EarnInv, NEW w, NEW k, CheckReaction(w, k)
    PROVE  EarnInv'
<1>1. /\ UNCHANGED <<cast, np, results, bangers, pb, loaded, sqState, pc>> /\ loaded
      /\ pc = "idle"
      /\ inflight' = inflight \cup
            {[by |-> w, kind |-> k, pos |-> pb.pos, perf |-> Performance(pb)]}
  BY DEF CheckReaction, stores
<1>2. Current = Performance(pb) /\ Current' = Current /\ Current[1] = pb.pos /\ pb.pos \in Nat
  BY <1>1, CurrentTyped DEF Current, IInv
<1>3. CastOK' /\ AnnouncedEarned' /\ BangersAreEarned'
  BY <1>1, ResultsKept
     DEF EarnInv, CastOK, AnnouncedEarned, CastFor, Earned, Durable, Performance
<1>4. CountsEarned'
  BY <1>1, <1>2 DEF EarnInv, CountsEarned, Earned, CastFor, Unannounced
<1> QED BY <1>3, <1>4 DEF EarnInv

LEMMA CountEarned ==
    ASSUME IInv, EarnInv, NEW m \in inflight, CountReaction(m)
    PROVE  EarnInv'
<1>1. /\ UNCHANGED <<np, results, pb, loaded, sqState, pc>> /\ inflight' = inflight \ {m}
      /\ \/ /\ bangers' = [bangers EXCEPT ![m.pos] = Least(@ + 1, BangerMax)]
            /\ cast' = cast \cup {<<m.perf, Cardinality(CastFor(m.perf)) + 1>>}
         \/ UNCHANGED <<bangers, cast>>
  BY DEF CountReaction, CountAt, stores
<1>2. CASE UNCHANGED <<bangers, cast>>
  <2>1. Current' = Current /\ Performance(Durable)' = Performance(Durable)
    BY <1>1 DEF Current, Durable, Performance
  <2>2. \A p \in Positions : bangers'[p] <= bangers[p] /\ bangers'[p] \in Nat
    BY <1>2, CurrentTyped DEF IInv
  <2> QED BY <1>1, <1>2, <2>1, <2>2, ResultsKept, KeepsEarned
          DEF IInv, EarnInv, Unannounced
<1>3. CASE /\ bangers' = [bangers EXCEPT ![m.pos] = Least(@ + 1, BangerMax)]
           /\ cast' = cast \cup {<<m.perf, Cardinality(CastFor(m.perf)) + 1>>}
  <2>1. /\ CastOK'
        /\ Cardinality(CastFor(m.perf))' = Cardinality(CastFor(m.perf)) + 1
        /\ \A other : /\ Cardinality(CastFor(other)) \in Nat
                      /\ Cardinality(CastFor(other))' \in Nat
                      /\ Cardinality(CastFor(other)) <= Cardinality(CastFor(other))'
    BY <1>3, CastGrows DEF EarnInv
  <2>2. /\ Current' = Current /\ Current[1] \in Positions /\ Positions \subseteq Nat
        /\ bangers \in [Positions -> 0..BangerMax] /\ BangerMax \in Nat
        /\ m.pos \in Positions /\ m.pos <= Current[1]
        /\ m.pos = Current[1] => m.perf = Current
    BY <1>1, CurrentTyped
       DEF Current, Durable, Performance, IInv, TypeInv, VotesOK, EarnInv, CountsEarned
  <2>3. bangers'[m.pos] <= bangers[m.pos] + 1 /\ bangers'[m.pos] \in Nat
    <3>1. bangers[m.pos] \in Nat
      BY <2>2, BangersAreNatural DEF IInv
    <3>2. bangers'[m.pos] = Least(bangers[m.pos] + 1, BangerMax)
      BY <1>3, <2>2
    <3> QED BY <2>2, <3>1, <3>2 DEF Least
  <2>4. \A p \in Positions : p # m.pos => bangers'[p] = bangers[p]
    BY <1>3, <2>2
  <2>5. BangersAreEarned'
    <3>1. ASSUME NEW i \in 1..Len(results), NEW perf, perf = results[i].perf
          PROVE  results[i].bangers <= Cardinality(CastFor(perf))'
      <4>1. results[i].bangers <= Cardinality(CastFor(perf))
        BY <3>1 DEF EarnInv, BangersAreEarned
      <4>2. results[i].bangers \in Nat
        <5>1. results \in Seq(Result)
          BY DEF IInv, LedgerInv, BoardOK
        <5>2. results[i] \in Result
          BY <5>1
        <5> QED BY <2>2, <5>2 DEF Result
      <4> QED BY <2>1, <4>1, <4>2
    <3> QED BY <1>1, <3>1 DEF BangersAreEarned, CastFor
  <2>6. AnnouncedEarned'
    <3>1. PICK perf : perf = Performance(np)
      OBVIOUS
    <3>2. np.bangers \in Nat
      BY <2>2 DEF IInv, TypeInv, StoresOK, NowPlaying
    <3>3. np.bangers <= Cardinality(CastFor(perf))
      BY <3>1 DEF EarnInv, AnnouncedEarned, Earned
    <3>4. np.bangers <= Cardinality(CastFor(perf))'
      BY <2>1, <3>2, <3>3
    <3>5. Earned(np.bangers, Performance(np))'
      BY <1>1, <3>1, <3>4 DEF Earned, CastFor, Performance
    <3> QED BY <1>1, <3>5 DEF EarnInv, AnnouncedEarned, Durable, Performance
  <2>7. PICK cur : cur = Current
    OBVIOUS
  <2>8. /\ cur[1] \in Positions /\ cur[1] \in Nat /\ m.pos \in Nat
        /\ m.pos <= cur[1] /\ (m.pos = cur[1] => m.perf = cur)
        /\ bangers[cur[1]] \in Nat /\ bangers[cur[1]] <= Cardinality(CastFor(cur))
        /\ \A p \in Positions : p > cur[1] => bangers[p] = 0
    <3>1. bangers[cur[1]] \in Nat /\ cur[1] \in Nat /\ m.pos \in Nat
      BY <2>2, <2>7, BangersAreNatural DEF IInv
    <3>2. /\ bangers[cur[1]] <= Cardinality(CastFor(cur))
          /\ \A p \in Positions : p > cur[1] => bangers[p] = 0
      BY <2>7 DEF EarnInv, CountsEarned, Earned
    <3> QED BY <2>2, <2>7, <3>1, <3>2
  <2>9. bangers'[cur[1]] <= Cardinality(CastFor(cur))'
    <3>1. CASE m.pos = cur[1]
      BY <2>1, <2>3, <2>8, <3>1
    <3>2. CASE m.pos # cur[1]
      BY <2>1, <2>4, <2>8, <3>2
    <3> QED BY <3>1, <3>2
  <2>10. /\ Earned(bangers[Current[1]], Current)'
         /\ \A p \in Positions : p > Current'[1] => bangers'[p] = 0
    <3>1. Current' = cur
      BY <2>2, <2>7
    <3>2. \A p \in Positions : p > cur[1] => p # m.pos
      BY <2>8
    <3>3. \A p \in Positions : p > cur[1] => bangers'[p] = 0
      BY <2>4, <2>8, <3>2
    <3> QED BY <2>9, <3>1, <3>3 DEF Earned, CastFor
  <2>11. Unannounced => bangers'[pb.pos] = 0
    <3>1. Unannounced => m.pos # pb.pos /\ bangers[pb.pos] = 0
      BY DEF EarnInv, CountsEarned
    <3>2. pb.pos \in Positions
      BY DEF IInv, TypeInv, ClubOK, Club
    <3> QED BY <2>4, <3>1, <3>2
  <2>12. CountsEarned'
    BY <1>1, <2>2, <2>10, <2>11 DEF EarnInv, CountsEarned, Unannounced
  <2> QED BY <2>1, <2>5, <2>6, <2>12 DEF EarnInv
<1> QED BY <1>1, <1>2, <1>3

\* A resume restores the announced reactions to the performance they are for.
LEMMA ResumeEarned ==
    ASSUME IInv, EarnInv, Resume
    PROVE  EarnInv'
<1>1. /\ UNCHANGED <<cast, np, results, inflight, pc>> /\ pc = "drive" /\ ~loaded /\ loaded'
  BY DEF Resume
<1>2. Current' = Current /\ Performance(Durable)' = Performance(Durable)
  BY <1>1, ResumesDurable DEF Current
<1>3. PICK pos : pos = pb'.pos
  OBVIOUS
<1>4. PICK perf : perf = Current
  OBVIOUS
<1>5. pos = perf[1] /\ pos \in Positions /\ pos \in Nat
  <2>1. pb'.pos = Current[1]
    BY <1>1, <1>2 DEF Current, Performance
  <2> QED BY <1>3, <1>4, <2>1, CurrentTyped DEF IInv
<1>6. UNCHANGED bangers \/ RestoreReactions(pos)
  BY <1>3, <1>5 DEF Resume, ResumeFromSQLite, ResumeFromEvents, IInv, TypeInv, ClubOK
<1>7. \A p \in Positions : p # pos => bangers'[p] = bangers[p]
  <2>1. bangers \in [Positions -> 0..BangerMax]
    BY CurrentTyped DEF IInv
  <2> QED BY <1>6, <2>1 DEF RestoreReactions
<1>8. bangers[pos] <= Cardinality(CastFor(perf)) /\ bangers[pos] \in Nat
  BY <1>4, <1>5, BangersAreNatural DEF EarnInv, CountsEarned, Earned, IInv
<1>9. bangers'[pos] <= Cardinality(CastFor(perf))
  <2>1. CASE np.bangers > 0 /\ RestoreReactions(pos)
    <3>1. Performance(np) = perf
      BY <1>1, <1>4, <2>1 DEF EarnInv, AnnouncedEarned, Current
    <3>2. np.bangers <= Cardinality(CastFor(perf))
      BY <3>1 DEF EarnInv, AnnouncedEarned, Earned
    <3>3. bangers'[pos] = Least(np.bangers, BangerMax)
      <4>1. bangers \in [Positions -> 0..BangerMax]
        BY CurrentTyped DEF IInv
      <4> QED BY <1>5, <2>1, <4>1 DEF RestoreReactions
    <3>4. np.bangers \in Nat /\ BangerMax \in Nat /\ Cardinality(CastFor(perf)) \in Nat
      BY CurrentTyped, CastCounts DEF EarnInv, IInv, TypeInv, StoresOK, NowPlaying
    <3> QED BY <3>2, <3>3, <3>4 DEF Least
  <2>2. CASE UNCHANGED bangers
    BY <1>8, <2>2
  <2>3. CASE ~(np.bangers > 0) /\ RestoreReactions(pos)
    <3>1. bangers' = bangers
      <4>1. bangers \in [Positions -> 0..BangerMax]
        BY CurrentTyped DEF IInv
      <4> QED BY <2>3, <4>1 DEF RestoreReactions
    <3> QED BY <1>8, <3>1
  <2> QED BY <1>6, <2>1, <2>2, <2>3
<1>10. CountsEarned'
  <2>1. Earned(bangers[Current[1]], Current)'
    BY <1>1, <1>2, <1>4, <1>5, <1>9 DEF Earned, CastFor
  <2>2. \A p \in Positions : p > perf[1] => bangers'[p] = 0
    <3>1. \A p \in Positions : p > perf[1] => bangers[p] = 0
      BY <1>4 DEF EarnInv, CountsEarned
    <3>2. \A p \in Positions : p > perf[1] => p # pos
      BY <1>5, BangersAreNatural DEF IInv
    <3> QED BY <1>7, <3>1, <3>2
  <2>3. ~Unannounced'
    BY <1>1 DEF Unannounced
  <2> QED BY <1>1, <1>2, <1>4, <2>1, <2>2, <2>3 DEF EarnInv, CountsEarned
<1>11. CastOK' /\ AnnouncedEarned' /\ BangersAreEarned'
  BY <1>1, <1>2, ResultsKept
     DEF EarnInv, CastOK, AnnouncedEarned, CastFor, Earned, Performance
<1> QED BY <1>10, <1>11 DEF EarnInv

\* The track ends; Auto DJ starts the next one at once.
LEMMA EndEarned ==
    ASSUME IInv, TypeInv', EarnInv, EndTrack \/ Bootstrap
    PROVE  EarnInv'
<1>1. /\ UNCHANGED <<cast, np, bangers, inflight, loaded, sqState>> /\ loaded /\ pc = "drive"
      /\ pc' \in {"pick", "idle", "autonp"}
      /\ StartAuto \/ (UNCHANGED pb /\ pc' # "autonp")
  <2>1. CASE EndTrack
    BY <2>1 DEF EndTrack, StartAuto, votes
  <2>2. CASE Bootstrap
    BY <2>2 DEF Bootstrap, Retry, EndTick, StartAuto, stores, votes
  <2> QED BY <2>1, <2>2
<1>2. BangersAreEarned'
  <2>1. CASE EndTrack
    <3>1. PICK how \in Endings : Settle(how)
      BY <2>1 DEF EndTrack, Settlement, Endings
    <3> QED BY <1>1, <3>1, SettleEarned
  <2>2. CASE Bootstrap
    BY <1>1, <2>2, ResultsKept DEF EarnInv, Bootstrap, stores
  <2> QED BY <2>1, <2>2
<1>3. CASE StartAuto
  <2>1. pb'.pos = pb.pos + 1
    BY <1>3 DEF StartAuto, IInv, TypeInv, ClubOK, Club
  <2> QED BY <1>1, <1>2, <2>1, StartEarned DEF IInv
<1>4. CASE UNCHANGED pb /\ pc' # "autonp"
  <2>1. Current' = Current /\ Performance(Durable)' = Performance(Durable)
    BY <1>1, <1>4 DEF Current, Durable, Performance
  <2>2. \A p \in Positions : bangers'[p] <= bangers[p] /\ bangers'[p] \in Nat
    BY <1>1, BangersAreNatural DEF IInv
  <2>3. ~Unannounced' /\ pc' \notin {"play", "save"}
    BY <1>1, <1>4 DEF Unannounced
  <2> QED BY <1>1, <1>2, <2>1, <2>2, <2>3, KeepsEarned DEF IInv
<1> QED BY <1>1, <1>3, <1>4

LEMMA PickEarned ==
    ASSUME IInv, TypeInv', EarnInv, Pick
    PROVE  EarnInv'
<1>1. /\ UNCHANGED <<cast, np, results, bangers, inflight, loaded, sqState>> /\ loaded
  BY DEF Pick, votes, IInv, TypeInv, ControlOK
<1>2. CASE pc' = "stop" /\ pb' = pb
  BY <1>1, <1>2, EarnedFrame DEF IInv, Unannounced
<1>3. CASE pc' = "mark" /\ pb'.pos = pb.pos + 1
  BY <1>1, <1>3, ResultsKept, StartEarned DEF EarnInv, IInv
<1> QED BY <1>2, <1>3, PickPlaces DEF IInv

LEMMA HoldEarned ==
    ASSUME IInv, EarnInv, HoldTrack
    PROVE  EarnInv'
<1>1. /\ UNCHANGED <<cast, results, bangers, inflight, loaded, sqState>> /\ loaded
      /\ pc = "drive" /\ pc' = "idle"
  BY DEF HoldTrack, EndTick, votes
<1>2. CASE UNCHANGED <<np, pb>>
  BY <1>1, <1>2, EarnedFrame DEF IInv, Unannounced
<1>3. CASE np' = Announcement(pb, "playing", tk.auto # {}) /\ pb' = Beaten(pb)
  <2>1. Performance(pb)' = Performance(pb)
    BY <1>3 DEF Beaten, Performance, IInv, TypeInv, ClubOK, Club
  <2>2. Performance(Durable) = Performance(pb)
    BY <1>1 DEF IInv, LedgerInv, BeforeStart
  <2>3. ~Unannounced' /\ pc' \notin {"play", "save"}
    BY <1>1 DEF Unannounced
  <2> QED BY <1>1, <1>3, <2>1, <2>2, <2>3, ResultsKept, AnnounceEarned DEF IInv, EarnInv
<1> QED BY <1>2, <1>3 DEF HoldTrack, Announce

LEMMA StopEarned ==
    ASSUME IInv, EarnInv, StopUndriven \/ Stop
    PROVE  EarnInv'
<1>1. /\ UNCHANGED <<cast, bangers, inflight, loaded, sqState>> /\ loaded
      /\ pc \in {"drive", "stop"} /\ pc' \in {"forget", "stopped"}
  BY DEF StopUndriven, Stop, votes, IInv, TypeInv, ControlOK
<1>2. BangersAreEarned'
  <2>1. Settle("played")
    BY DEF StopUndriven, Stop
  <2> QED BY <1>1, <2>1, SettleEarned DEF Endings
<1>3. Performance(pb)' = Performance(pb)
  BY DEF StopUndriven, Stop, Beaten, Performance, IInv, TypeInv, ClubOK, Club
<1>4. Performance(Durable) = Performance(pb)
  BY <1>1 DEF IInv, LedgerInv, BeforeStart
<1>5. ~Unannounced' /\ pc' \notin {"play", "save"}
  BY <1>1 DEF Unannounced
<1>6. CASE np' = np
  <2>1. Current' = Current /\ Performance(Durable)' = Performance(Durable)
    BY <1>1, <1>3, <1>6 DEF Current, Durable, Performance
  <2>2. \A p \in Positions : bangers'[p] <= bangers[p] /\ bangers'[p] \in Nat
    BY <1>1, BangersAreNatural DEF IInv
  <2> QED BY <1>1, <1>2, <1>5, <1>6, <2>1, <2>2, KeepsEarned DEF IInv
<1>7. CASE np' = Announcement(pb, "paused", FALSE)
  BY <1>1, <1>2, <1>3, <1>4, <1>5, <1>7, AnnounceEarned DEF IInv
<1> QED BY <1>6, <1>7 DEF StopUndriven, Stop, Announce

LEMMA AnnounceTrackEarned ==
    ASSUME IInv, EarnInv, AnnounceTrack
    PROVE  EarnInv'
<1>1. /\ UNCHANGED <<cast, results, bangers, inflight, loaded, sqState>> /\ loaded
      /\ pc \in {"np", "autonp"} /\ pc' \in {"play", "autoplay"}
      /\ np' = Announcement(pb, "playing", pb.auto) /\ pb' = Beaten(pb)
  BY DEF AnnounceTrack, Announce, votes, IInv, TypeInv, ControlOK
<1>2. Performance(pb)' = Performance(pb)
  BY <1>1 DEF Beaten, Performance, IInv, TypeInv, ClubOK, Club
<1>3. bangers[pb.pos] = 0 /\ ~Unannounced'
  BY <1>1 DEF EarnInv, CountsEarned, Unannounced
<1> QED BY <1>1, <1>2, <1>3, ResultsKept, AnnounceEarned DEF IInv, EarnInv

\* Where the state is saved, the durable performance is the one in memory.
LEMMA SaveEarned ==
    ASSUME IInv, EarnInv, Forget \/ SaveTrack \/ SaveStopped
    PROVE  EarnInv'
<1>1. /\ UNCHANGED <<cast, np, results, inflight>>
      /\ pc \in {"forget", "drive", "save", "stopped"} /\ pc' = "idle"
      /\ pc = "drive" => sqState' = sqState
      /\ pc # "drive" => sqState' = Saved(pb) /\ loaded
      /\ loaded' = FALSE \/ UNCHANGED <<loaded, pb>>
      /\ pc = "save" => loaded' = loaded
  BY DEF Forget, SaveTrack, SaveStopped, EndTick, votes, IInv, TypeInv, ControlOK
<1>2. \A p \in Positions : bangers'[p] <= bangers[p] /\ bangers'[p] \in Nat
  <2>1. CASE UNCHANGED bangers
    BY <2>1, BangersAreNatural DEF IInv
  <2>2. CASE SaveTrack
    <3>1. \A p \in Positions : bangers'[p] \in {0, bangers[p]}
      BY <2>2 DEF SaveTrack
    <3> QED BY <3>1, BangersAreNatural DEF IInv
  <2> QED BY <2>1, <2>2 DEF Forget, SaveStopped, votes
<1>3. UseSQLite => Saved(pb).there /\ Performance(Saved(pb).row) = Performance(pb)
  BY DEF Saved, Performance, IInv, TypeInv, ClubOK, Club
<1>4. ~UseSQLite => Saved(pb) = sqState
  BY DEF Saved
<1>5. pc # "save" /\ loaded => Performance(Durable) = Performance(pb)
  BY <1>1 DEF IInv, LedgerInv, BeforeStart
<1>6. pc # "save" => Performance(Durable)' = Performance(Durable)
  BY <1>1, <1>3, <1>4, <1>5 DEF Durable, Performance
<1>7. Current' = Current
  <2>1. CASE loaded' = loaded /\ pb' = pb /\ loaded
    BY <2>1 DEF Current, Performance
  <2>2. CASE loaded' = FALSE
    <3>1. pc # "save" \/ ~loaded
      BY <1>1, <2>2
    <3>2. pc # "save"
      BY <1>1, <3>1
    <3> QED BY <1>5, <1>6, <2>2, <3>2 DEF Current
  <2> QED BY <1>1, <2>1, <2>2 DEF IInv, TypeInv, ControlOK
<1>8. np.bangers > 0 => Performance(Durable)' = Performance(Durable)
  <2>1. CASE pc = "save"
    <3>1. np.bangers = 0
      BY <2>1 DEF EarnInv, AnnouncedEarned
    <3> QED BY <3>1
  <2> QED BY <1>6, <2>1
<1>9. ~Unannounced' /\ pc' \notin {"play", "save"}
  BY <1>1 DEF Unannounced
<1> QED BY <1>1, <1>2, <1>7, <1>8, <1>9, ResultsKept, KeepsEarned DEF IInv, EarnInv

LEMMA CrashEarned ==
    ASSUME IInv, EarnInv, Crash
    PROVE  EarnInv'
<1>1. /\ UNCHANGED <<cast, np, results, sqState>> /\ loaded' = FALSE /\ pc' = "idle"
      /\ inflight' = {} /\ bangers' = [p \in Positions |-> 0]
  BY DEF Crash, stores
<1>2. Current' = Performance(Durable) /\ Performance(Durable)' = Performance(Durable)
  BY <1>1 DEF Current, Durable, Performance
<1>3. Performance(Durable)[1] \in Positions
  BY DEF Performance, Durable, IInv, TypeInv, StoresOK, Club, NowPlaying
<1>4. Cardinality(CastFor(Performance(Durable))) \in Nat
  BY CastCounts DEF EarnInv
<1>5. Earned(bangers[Current[1]], Current)'
  BY <1>1, <1>2, <1>3, <1>4 DEF Earned, CastFor
<1>6. CountsEarned'
  BY <1>1, <1>5 DEF CountsEarned, Unannounced
<1>7. CastOK' /\ AnnouncedEarned' /\ BangersAreEarned'
  BY <1>1, <1>2, ResultsKept
     DEF EarnInv, CastOK, AnnouncedEarned, CastFor, Earned, Performance
<1> QED BY <1>6, <1>7 DEF EarnInv

LEMMA EarnNext ==
    ASSUME IInv, TypeInv', EarnInv, [Next]_vars
    PROVE  EarnInv'
<1>1. CASE Clients
  <2>1. CASE \E w \in Voters, k \in {"banger", "skip"} : CheckReaction(w, k)
    BY <2>1, CheckEarned
  <2>2. CASE UNCHANGED <<cast, np, results, bangers, inflight, pb, loaded, sqState, pc>>
    BY <2>2, EarnedFrame DEF IInv, Unannounced
  <2> QED BY <1>1, <2>1, <2>2
          DEF Clients, JoinStage, LeaveStage, ArmAutoDJ, PublishQueue, RequestSkip,
              ReportBroken, stores, votes
<1>2. CASE Count
  BY <1>2, CountEarned DEF Count
<1>3. CASE BeginTick \/ MarkTrackOff \/ IndexMark \/ LogPlay
  <2>1. /\ UNCHANGED <<cast, np, results, bangers, inflight, pb, loaded, sqState>>
        /\ \/ pc' = "drive" \/ (pc = "play" /\ pc' = "save") \/ pc' = "idle"
           \/ (pc \in {"mark", "index"} /\ pc' \in {"index", "np"})
    BY <1>3 DEF BeginTick, MarkTrackOff, IndexMark, LogPlay, EndTick, stores, votes
  <2> QED BY <2>1, EarnedFrame DEF IInv, Unannounced
<1>4. CASE Tick
  BY <1>3, <1>4, ResumeEarned, EndEarned, PickEarned, HoldEarned, StopEarned,
     AnnounceTrackEarned, SaveEarned DEF Tick
<1>5. CASE Restarts
  <2>1. UNCHANGED <<cast, np, results, bangers, inflight, pb, loaded, sqState, pc>>
    BY <1>5 DEF Restarts, Restart, stores, votes
  <2> QED BY <2>1, EarnedFrame DEF IInv, Unannounced
<1>6. CASE UNCHANGED vars
  BY <1>6, EarnedFrame DEF IInv, Unannounced, vars, stores, votes
<1> QED BY <1>1, <1>2, <1>4, <1>5, <1>6, CrashEarned DEF Next

\* rejectMood checks a reaction against the track that plays and observeMood
\* counts it later, at the position it was checked for; restoreMoodFromEvent
\* puts back what now_playing told.  No result is credited with a banger that
\* was cast for another performance or counted twice, if StoreFollowsPlayback.
THEOREM BangersAreCredited ==
    ASSUME StoreFollowsPlayback
    PROVE  Spec => []BangersAreEarned
<1>1. Init => LedgerInv
  BY InitIsLedgerInit
<1>2. Init => EarnInv
  <2> SUFFICES ASSUME Init PROVE EarnInv
    OBVIOUS
  <2>1. /\ cast = {} /\ results = <<>> /\ inflight = {} /\ np.bangers = 0 /\ pc = "idle"
        /\ bangers = [p \in Positions |-> 0]
    BY DEF Init, NoNowPlaying
  <2>2. CastOK
    BY <2>1, FS_EmptySet DEF CastOK
  <2>3. Current[1] \in Positions
    BY InitHasTypes, CurrentTyped
  <2>4. Cardinality(CastFor(Current)) \in Nat /\ Cardinality(CastFor(Performance(np))) \in Nat
    BY <2>2, CastCounts
  <2> QED BY <2>1, <2>2, <2>3, <2>4
          DEF EarnInv, BangersAreEarned, AnnouncedEarned, CountsEarned, Earned, Unannounced
<1>3. TypeInv /\ LedgerInv /\ [Next]_vars => LedgerInv'
  BY NextIsLedgerNext DEF IInv
<1>4. TypeInv /\ TypeInv' /\ LedgerInv /\ EarnInv /\ [Next]_vars => EarnInv'
  BY EarnNext DEF IInv
<1>5. EarnInv => BangersAreEarned
  BY DEF EarnInv
<1> QED BY <1>1, <1>2, <1>3, <1>4, <1>5, TypesAlways, PTL DEF Spec

=============================================================================
