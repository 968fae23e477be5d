--------------------------------- MODULE Bot ---------------------------------
(***************************************************************************)
(* The Telegram bridge (telegram-bot/main.go): members of a chat edit the  *)
(* queue of one DJ, the bot.  Each command runs in a goroutine of its own, *)
(* beside the session that keeps the bot connected, joined and on stage.   *)
(*                                                                         *)
(* The bot's queue is stored in two rows: the one it signs, and the copy   *)
(* the conductor signs when it marks a track off.  The newest counts.  A   *)
(* row's created_at counts seconds in which something was written.         *)
(*                                                                         *)
(* Of what a command answers in the chat two things are modelled: that the *)
(* relay took an edit or did not, and the message to the one who pressed a *)
(* button, which says "Added" before the queue is read or published.       *)
(***************************************************************************)
EXTENDS Integers, FiniteSets, Sequences, SequencesExt

CONSTANTS
    Videos,
    Handlers,          \* command goroutines
    Playlists,         \* what /addplaylist may name: Seq(Videos)
    Results,           \* what a search may return: Seq(Videos)
    Timeouts,          \* TRUE: a fetch of the queue may end early
    OneEditASecond,    \* TRUE: no two queue rows have one created_at
    PlaylistsOffStage, \* TRUE: /addplaylist is also sent while the bot is off stage
    MaxMoves,          \* bound: commands, presses and searches in a behaviour
    MaxStarts          \* bound: starts of the process

ASSUME BotAssumption ==
    /\ Handlers \subseteq Nat \ {0}
    /\ Playlists \subseteq Seq(Videos) /\ Results \subseteq Seq(Videos)
    /\ {Timeouts, OneEditASecond, PlaylistsOffStage} \subseteq BOOLEAN
    /\ MaxMoves \in Nat /\ MaxStarts \in Nat \ {0}

VARIABLES
    queue, onStage, since, pending,  \* fields of Bridge
    session,     \* how far the session is, and the rows it fetched
    command,     \* the command each handler runs, and how far
    own, copy,   \* the stored queue: signed by the bot, by the conductor
    idx,         \* the conductor's queueIdx entry of the bot
    stageRow,    \* the stored stage event; since = 0 when none
    clock,       \* the created_at of the newest queue row
    moves, starts,
    acknowledged, \* history: videos the relay acknowledged, not yet off or removed
    promised,    \* history: videos a press was told are added, not answered since
    overlapped   \* history: two commands have run at the same time

memory == <<queue, onStage, since, pending>>
rows == <<own, copy, idx, clock>>
vars == <<memory, session, command, rows, stageRow, moves, starts, acknowledged,
          promised, overlapped>>

Track == [vid : Videos, active : BOOLEAN]
NoRow == [at |-> 0, tracks |-> <<>>]
NoResults == <<>>
Idle == [cmd |-> "none", step |-> "idle", vids |-> <<>>, off |-> FALSE,
         current |-> <<>>, live |-> FALSE]
Down == [step |-> "down", fetched |-> NoRow]
Connected == {"up", "dead"}    \* getRelay() is not nil

\* The elements of s at the places of the set at, in the order of s.
Kept(s, at) ==
    LET upTo[i \in 0..Len(s)] ==
            IF i = 0 THEN <<>>
            ELSE IF i \in at THEN Append(upTo[i - 1], s[i]) ELSE upTo[i - 1]
    IN  upTo[Len(s)]

Active(row) ==
    LET tracks == Kept(row.tracks, {i \in DOMAIN row.tracks : row.tracks[i].active})
    IN  [i \in DOMAIN tracks |-> tracks[i].vid]
On(vids) == [i \in DOMAIN vids |-> [vid |-> vids[i], active |-> TRUE]]
Busy == {h \in Handlers : command[h] # Idle}

Init ==
    /\ queue = <<>> /\ onStage = TRUE /\ since = 1 /\ pending = NoResults
    /\ session = Down
    /\ command = [h \in Handlers |-> Idle]
    /\ own = NoRow /\ copy = NoRow /\ idx = NoRow
    /\ stageRow = [on |-> FALSE, since |-> 0]
    /\ clock = 0 /\ moves = 0 /\ starts = 1
    /\ acknowledged = {} /\ promised = {} /\ overlapped = FALSE

-----------------------------------------------------------------------------
(* Rows.                                                                   *)

\* Two rows of one second: the smaller id wins.
Replaced(row, new) == IF new.at > row.at THEN {new} ELSE {row, new}

Stamps == IF OneEditASecond \/ clock = 0 THEN {clock + 1} ELSE {clock, clock + 1}

\* idxQueue: strictly newer.
Indexed(new) == IF new.at > idx.at THEN new ELSE idx

\* The relay stores a row the bot signed.
Store(vids) ==
    \E s \in Stamps :
        LET new == [at |-> s, tracks |-> On(vids)]
        IN  /\ own' \in Replaced(own, new)
            /\ idx' = Indexed(new)
            /\ clock' = s

Stored == {r \in {own, copy} : r.at > 0}

\* fetchCurrentTracks: the first of the newest rows that arrive in time.
Fetched ==
    LET Newest(S) == {r \in S : \A q \in S : q.at <= r.at}
    IN  UNION {IF S = {} THEN {NoRow} ELSE Newest(S) :
               S \in IF Timeouts THEN SUBSET Stored ELSE {Stored}}

-----------------------------------------------------------------------------
(* The session.                                                            *)

SessionGoes(step) == session' = [Down EXCEPT !.step = step]

\* RelayConnect, AUTH, joinClub, loadClubName
Connect ==
    /\ session.step = "down"
    /\ SessionGoes("load")
    /\ UNCHANGED <<memory, command, rows, stageRow, moves, starts,
                   acknowledged, promised, overlapped>>

\* loadQueue: fetchCurrentTracks
Load ==
    /\ session.step = "load"
    /\ \E row \in Fetched : session' = [step |-> "apply", fetched |-> row]
    /\ UNCHANGED <<memory, command, rows, stageRow, moves, starts,
                   acknowledged, promised, overlapped>>

Exhausted(row) == row.at > 0 /\ Active(row) = <<>>

\* Mutant: the stage is left only by a bot that believes to be on it.
ApplyOnce ==
    LET q == session.fetched
    IN  /\ session.step = "apply"
        /\ onStage' = (onStage /\ ~Exhausted(q))
        /\ queue' = IF q.at > 0 /\ ~Exhausted(q) THEN Active(q) ELSE queue
        /\ SessionGoes(IF Exhausted(q) /\ onStage THEN "leave" ELSE "restore")
        /\ UNCHANGED <<since, pending, command, rows, stageRow, moves, starts,
                       acknowledged, promised, overlapped>>

\* loadQueue: what it fetched is taken over, or the stage is left.
Apply ==
    LET q == session.fetched
    IN  /\ session.step = "apply"
        /\ \/ /\ Exhausted(q)
              /\ onStage' = FALSE /\ UNCHANGED queue
              /\ SessionGoes("leave")
           \/ /\ ~Exhausted(q)
              /\ queue' = IF q.at > 0 THEN Active(q) ELSE queue
              /\ SessionGoes("restore") /\ UNCHANGED onStage
        /\ UNCHANGED <<since, pending, command, rows, stageRow, moves, starts,
                       acknowledged, promised, overlapped>>

\* leaveStage: the event is stored, or the relay refuses it.
LeaveStage ==
    /\ session.step = "leave"
    /\ SessionGoes("restore")
    /\ stageRow' = [on |-> FALSE, since |-> since]
    /\ UNCHANGED <<memory, command, rows, moves, starts, acknowledged,
                   promised, overlapped>>

LeaveFails ==
    /\ session.step = "leave"
    /\ SessionGoes("restore")
    /\ UNCHANGED <<memory, command, rows, stageRow, moves, starts,
                   acknowledged, promised, overlapped>>

\* Mutant: a missing row sets since, too.
RestoreAnything ==
    /\ session.step = "restore"
    /\ since' = stageRow.since
    /\ SessionGoes("up")
    /\ UNCHANGED <<queue, onStage, pending, command, rows, stageRow, moves,
                   starts, acknowledged, promised, overlapped>>

\* Mutant: since is not read back.
RestoreNothing ==
    /\ session.step = "restore"
    /\ SessionGoes("up")
    /\ UNCHANGED <<memory, command, rows, stageRow, moves, starts,
                   acknowledged, promised, overlapped>>

\* loadQueue restores since if it finds the row in time; setRelay shows the
\* relay to the commands.
Restore ==
    /\ session.step = "restore"
    /\ \/ stageRow.since > 0 /\ since' = stageRow.since
       \/ (stageRow.since = 0 \/ Timeouts) /\ UNCHANGED since
    /\ SessionGoes("up")
    /\ UNCHANGED <<queue, onStage, pending, command, rows, stageRow, moves,
                   starts, acknowledged, promised, overlapped>>

\* stageLoop, publishStage
Heartbeat ==
    /\ session.step = "up" /\ onStage
    /\ stageRow' = [on |-> TRUE, since |-> since]
    /\ UNCHANGED <<memory, session, command, rows, moves, starts, acknowledged,
                   promised, overlapped>>

\* The connection dies, before or after setRelay; running commands keep the
\* dead relay.
Drop ==
    /\ session.step \in {"load", "leave", "restore", "up"}
    /\ SessionGoes("dead")
    /\ command' = [h \in Handlers |-> [command[h] EXCEPT !.live = FALSE]]
    /\ UNCHANGED <<memory, rows, stageRow, moves, starts, acknowledged,
                   promised, overlapped>>

\* session returns: setRelay(nil)
Notice ==
    /\ session.step = "dead"
    /\ session' = Down
    /\ UNCHANGED <<memory, command, rows, stageRow, moves, starts,
                   acknowledged, promised, overlapped>>

\* Mutant: the process starts off stage.
CrashOffStage ==
    /\ starts < MaxStarts
    /\ starts' = starts + 1
    /\ queue' = <<>> /\ onStage' = FALSE /\ since' = starts' /\ pending' = NoResults
    /\ session' = Down
    /\ command' = [h \in Handlers |-> Idle]
    /\ UNCHANGED <<rows, stageRow, moves, acknowledged, promised, overlapped>>

\* The process dies and starts again: newBridge.
Crash ==
    /\ starts < MaxStarts
    /\ starts' = starts + 1
    /\ queue' = <<>> /\ onStage' = TRUE /\ since' = starts' /\ pending' = NoResults
    /\ session' = Down
    /\ command' = [h \in Handlers |-> Idle]
    /\ UNCHANGED <<rows, stageRow, moves, acknowledged, promised, overlapped>>

-----------------------------------------------------------------------------
(* Commands.  An edit reads the queue, changes it and publishes it whole.  *)

\* Goroutines are interchangeable: a command takes the first idle one.
Free == CHOOSE h \in Handlers \cup {0} :
            IF h = 0 THEN Busy = Handlers
            ELSE h \notin Busy /\ \A g \in Handlers \ Busy : h <= g

HandlerGoes(h, w) == command' = [command EXCEPT ![h] = w]
Starts(h) == overlapped' = (overlapped \/ Busy \ {h} # {})
Finished(h) == HandlerGoes(h, Idle)

\* handleTGMessage: a command is given the relay of the moment, or refused.
Begin(h, cmd, step, vids) ==
    /\ h = Free /\ moves < MaxMoves
    /\ session.step \in Connected
    /\ moves' = moves + 1
    /\ HandlerGoes(h, [Idle EXCEPT !.cmd = cmd, !.step = step, !.vids = vids,
                                   !.live = session.step = "up"])
    /\ Starts(h)
    /\ UNCHANGED <<memory, session, rows, stageRow, starts, acknowledged,
                   promised>>

CmdAdd(h, v) == Begin(h, "add", "begin", <<v>>)
CmdRemove(h, v) == Begin(h, "remove", "fetch", <<v>>)
CmdAddPlaylist(h, list) ==
    /\ PlaylistsOffStage \/ onStage
    /\ Begin(h, "playlist", "fetch", list)

\* cmdAdd with a query: its results wait for a press.
Search(list) ==
    /\ moves < MaxMoves /\ session.step \in Connected
    /\ moves' = moves + 1
    /\ pending' = list
    /\ UNCHANGED <<queue, onStage, since, session, command, rows, stageRow,
                   starts, acknowledged, promised, overlapped>>

\* handleCallback: the button of a keyboard, of this search or an older one.
Press(h, i) ==
    /\ h = Free /\ moves < MaxMoves
    /\ i \in DOMAIN pending
    /\ moves' = moves + 1
    /\ HandlerGoes(h, [Idle EXCEPT !.cmd = "add", !.step = "pressed",
                                   !.vids = <<pending[i]>>])
    /\ Starts(h)
    /\ UNCHANGED <<memory, session, rows, stageRow, starts, acknowledged,
                   promised>>

\* handleCallback, under the lock again, then getRelay.  The chat is told that
\* the track was added, and addTrack is called.
TakeSelection(h) ==
    LET w == command[h]
    IN  /\ w.step = "pressed"
        /\ pending' = NoResults
        /\ \/ /\ session.step \in Connected
              /\ promised' = promised \cup Range(w.vids)
              /\ HandlerGoes(h, [w EXCEPT !.step = "begin", !.live = session.step = "up"])
           \/ /\ session.step \notin Connected
              /\ UNCHANGED promised
              /\ Finished(h)
        /\ UNCHANGED <<queue, onStage, since, session, rows, stageRow, moves,
                       starts, acknowledged, overlapped>>

\* addTrack: is the bot off stage?
LookAtStage(h) ==
    /\ command[h].step = "begin"
    /\ HandlerGoes(h, [command[h] EXCEPT !.off = ~onStage,
                                         !.step = IF onStage THEN "fetch" ELSE "merge"])
    /\ UNCHANGED <<memory, session, rows, stageRow, moves, starts,
                   acknowledged, promised, overlapped>>

\* fetchCurrentTracks: on a dead relay it finds nothing.
Fetch(h) ==
    /\ command[h].step = "fetch"
    /\ \E row \in IF command[h].live THEN Fetched ELSE {NoRow} :
          HandlerGoes(h, [command[h] EXCEPT !.current = Active(row), !.step = "merge"])
    /\ UNCHANGED <<memory, session, rows, stageRow, moves, starts,
                   acknowledged, promised, overlapped>>

\* What addTrack and cmdAddPlaylist append to.  parseTracks returns nil when no
\* track is active, as if no row had been found.
Base(w) ==
    CASE w.off              -> <<>>
      [] w.current # <<>>   -> w.current
      [] OTHER              -> queue

\* Mutant: an add does not bring the bot back on stage.
MergeOnly(h) ==
    LET w == command[h]
        q == Base(w) \o w.vids
    IN  /\ w.step = "merge" /\ w.cmd # "remove"
        /\ queue' = q
        /\ HandlerGoes(h, [w EXCEPT !.current = q, !.step = "publish"])
        /\ UNCHANGED <<onStage, since, pending, session, rows, stageRow, moves,
                       starts, acknowledged, promised, overlapped>>

\* addTrack and cmdAddPlaylist, under the lock.
Merge(h) ==
    LET w == command[h]
        q == Base(w) \o w.vids
    IN  /\ w.step = "merge" /\ w.cmd # "remove"
        /\ queue' = q
        /\ onStage' = (onStage \/ w.cmd = "add")
        /\ HandlerGoes(h, [w EXCEPT !.current = q, !.step = "publish"])
        /\ UNCHANGED <<since, pending, session, rows, stageRow, moves, starts,
                       acknowledged, promised, overlapped>>

\* cmdRemove: nothing to remove, or the queue without every copy of the video.
TakeOut(h) ==
    LET w == command[h]
        next == Kept(w.current, {i \in DOMAIN w.current : w.current[i] \notin Range(w.vids)})
    IN  /\ w.step = "merge" /\ w.cmd = "remove"
        /\ \/ /\ next = w.current
              /\ Finished(h) /\ UNCHANGED queue
           \/ /\ next # w.current
              /\ queue' = next
              /\ HandlerGoes(h, [w EXCEPT !.current = next, !.step = "publish"])
        /\ UNCHANGED <<onStage, since, pending, session, rows, stageRow, moves,
                       starts, acknowledged, promised, overlapped>>

Added(w) == IF w.cmd = "remove" THEN {} ELSE Range(w.vids)
TakenOut(w) == IF w.cmd = "remove" THEN Range(w.vids) ELSE {}

\* publishQueue: stored and acknowledged.  A typed command tells the chat now.
Publish(h) ==
    LET w == command[h]
    IN  /\ w.step = "publish" /\ w.live
        /\ Store(w.current)
        /\ acknowledged' = (acknowledged \cup Added(w)) \ TakenOut(w)
        /\ promised' = promised \ Range(w.vids)
        /\ HandlerGoes(h, IF w.off THEN [w EXCEPT !.step = "stage"] ELSE Idle)
        /\ UNCHANGED <<memory, session, copy, stageRow, moves, starts, overlapped>>

\* publishQueue: stored, but the answer is lost.  The chat is told of an error.
PublishUnheard(h) ==
    LET w == command[h]
    IN  /\ w.step = "publish" /\ w.live
        /\ Store(w.current)
        /\ acknowledged' = acknowledged \ TakenOut(w)
        /\ promised' = promised \ Range(w.vids)
        /\ Finished(h)
        /\ UNCHANGED <<memory, session, copy, stageRow, moves, starts, overlapped>>

\* publishQueue: refused, or the relay is gone.  The chat is told of an error.
PublishFails(h) ==
    /\ command[h].step = "publish"
    /\ promised' = promised \ Added(command[h])
    /\ Finished(h)
    /\ UNCHANGED <<memory, session, rows, stageRow, moves, starts,
                   acknowledged, overlapped>>

\* addTrack: publishStage
Rejoin(h) ==
    /\ command[h].step = "stage"
    /\ \/ /\ command[h].live
          /\ stageRow' = [on |-> TRUE, since |-> since]
       \/ UNCHANGED stageRow
    /\ Finished(h)
    /\ UNCHANGED <<memory, session, rows, moves, starts, acknowledged,
                   promised, overlapped>>

-----------------------------------------------------------------------------
MarkedOff(tracks, v) ==
    [i \in DOMAIN tracks |-> [tracks[i] EXCEPT !.active = @ /\ tracks[i].vid # v]]

\* markTrackOff of the conductor, when a track of the bot starts.
Mark(v) ==
    /\ stageRow.on
    /\ v \in Range(Active(idx))
    /\ \E s \in Stamps :
        LET new == [at |-> s, tracks |-> MarkedOff(idx.tracks, v)]
        IN  /\ copy' \in Replaced(copy, new)
            /\ idx' = Indexed(new)
            /\ clock' = s
    /\ acknowledged' = acknowledged \ {v}
    /\ UNCHANGED <<memory, session, command, own, stageRow, moves, starts,
                   promised, overlapped>>

Session == Connect \/ Load \/ Apply \/ LeaveStage \/ LeaveFails \/ Restore \/ Heartbeat
Work(h) ==
    TakeSelection(h) \/ LookAtStage(h) \/ Fetch(h) \/ Merge(h) \/ TakeOut(h)
    \/ Publish(h) \/ PublishUnheard(h) \/ PublishFails(h) \/ Rejoin(h)
Chat ==
    \/ \E h \in Handlers :
        \/ \E v \in Videos : CmdAdd(h, v) \/ CmdRemove(h, v)
        \/ \E list \in Playlists : CmdAddPlaylist(h, list)
        \/ \E i \in 1..2 : Press(h, i)
    \/ \E list \in Results : Search(list)

Next ==
    \/ Session \/ Drop \/ Notice \/ Crash
    \/ Chat \/ \E h \in Handlers : Work(h)
    \/ \E v \in Videos : Mark(v)

Spec == Init /\ [][Next]_vars

\* The session is retried for ever, commands end, and what the relay refuses or
\* a lost connection prevents does not fail for ever.
FairSpec ==
    /\ Spec
    /\ WF_vars(Connect) /\ WF_vars(Apply) /\ WF_vars(Notice)
    /\ SF_vars(Load) /\ SF_vars(LeaveStage) /\ SF_vars(Restore) /\ SF_vars(Heartbeat)
    /\ \A h \in Handlers : WF_vars(Work(h))

-----------------------------------------------------------------------------
TypeOK ==
    /\ queue \in Seq(Videos) /\ onStage \in BOOLEAN /\ since \in 1..MaxStarts
    /\ pending \in Results \cup {NoResults}
    /\ session.step \in {"down", "load", "apply", "leave", "restore", "up", "dead"}
    /\ \A h \in Handlers :
          command[h].vids \in Seq(Videos) /\ command[h].current \in Seq(Videos)
    /\ \A row \in {own, copy, idx, session.fetched} :
          row.at \in 0..clock /\ row.tracks \in Seq(Track)
    /\ stageRow \in [on : BOOLEAN, since : 0..MaxStarts]
    /\ acknowledged \subseteq Videos /\ promised \subseteq Videos

\* As long as no two commands overlapped, a video whose publish the relay has
\* acknowledged stays in the conductor's queue until it is played or removed:
\* through mark-offs between a command's fetch and its publish, lost answers,
\* dead relays, reconnections and restarts (addTrack, cmdAddPlaylist,
\* cmdRemove, loadQueue).  Three more conditions the code does not ensure are
\* constants: no two rows of one second, fetches that end in time, and no
\* /addplaylist while the bot is off stage, whose tracks a following /add drops
\* (addTrack empties the queue of a bot off stage).
AcknowledgedStays == ~overlapped => acknowledged \subseteq Range(Active(idx))

\* The same of commands that overlap: they read, change and write the queue
\* without a lock.  Violated.
EveryAddStays == acknowledged \subseteq Range(Active(idx))

\* What a press was told is added is in the conductor's queue, or its command
\* is still at it, unless the chat has been told of an error since
\* (handleCallback, addTrack).  Violated: the process dies between the message
\* and the publish, and nothing remembers the track.
PromisedIsOnItsWay ==
    \A v \in promised :
        v \in Range(Active(idx)) \/ \E h \in Busy : v \in Range(command[h].vids)

\* A queue with tracks brings the bot on stage, whichever commands and
\* sessions interleave (addTrack's onStage, stageLoop, loadQueue): without a
\* stage event the conductor never plays it.
StageFollowsQueue == Active(idx) # <<>> ~> stageRow.on \/ Active(idx) = <<>>

QueueExhausted == idx.at > 0 /\ Active(idx) = <<>>

\* Reconnections take a bot with an exhausted queue off the stage, even when
\* the first attempt was refused and the bot no longer believes to be on it
\* (loadQueue).
LeavesExhausted ==
    []<>(session.step = "load")
        => (QueueExhausted ~> ~stageRow.on \/ ~QueueExhausted)

\* A bot that is on stage keeps its place in the order of the DJs, through
\* restarts and reconnections (loadQueue restores since).
SinceIsKept ==
    [][stageRow.on /\ stageRow'.on => stageRow'.since = stageRow.since]_vars

\* A track that was played comes back only at the request of the command that
\* publishes it.  Violated by a mark-off between a fetch and its publish.
PlayedStaysOff ==
    [][\A v \in Videos :
          /\ v \notin Range(Active(idx)) /\ v \in Range(Active(idx'))
          /\ \E t \in Range(idx.tracks) : t.vid = v
          => \E h \in Busy :
                command[h].step = "publish" /\ v \in Range(command[h].vids)]_vars

\* An add that found every track off publishes its own only.  Violated: an
\* exhausted queue is fetched as nil, as if there were none, and what is in
\* memory is published again.
ExhaustedStartsAfresh ==
    [][\A h \in Handlers :
          /\ command[h].step = "merge" /\ command'[h].step = "publish"
          /\ command[h].cmd = "add" /\ command[h].current = <<>>
          /\ command[h].live /\ QueueExhausted
          => queue' = command[h].vids]_vars
=============================================================================
