# A verification of the ZapClub relay

ZapClub is a jukebox on Nostr: members of a club go on stage, each with a queue
of videos, and the relay (a Go program on khatru and relay29) decides which
track runs, for how long, and what its listeners made of it. The clients follow
the relay's announcements and play the videos themselves. The relay is the only
scheduler, so what it keeps in memory, what it writes, and what it finds again
after a restart is the system's core, and it is what this project models.

`conductor.go` below means `relay/conductor.go`, and so on.

## 1. The system

| Part | State | Operations | Works with |
|---|---|---|---|
| Conductor (`conductor.go`) | `clubs` (the running track per club), indexes of queues, skips, stage leases, kicks and Auto DJ, played-set, reactions, broken reports, throttles | `tick` every 2.5 s: `activeClubs`, `resume`, `driveClub`, `driveAutoClub`, `advance`, `markTrackOff`, `stop`; observers of events between ticks | event store, SQLite, credibility board, gate |
| Round robin (`roundrobin.go`) | none | `fairNext`, `orderAndCapDJs` | conductor; mirrored by the client |
| Stage gate (`conductor.go`, `stageGate`) | `pending` reservations | `reject`, `observe`, revocations | the conductor's stage and Auto DJ index, through callbacks |
| Stage alias cleaner (`sessionevents.go`) | none of its own: rows of the event store | `observe` after a stage event is stored; `purgeClubPrincipal` on removal | event store |
| Session event policy (`sessionevents.go`) | accepted ids for 120 s | `reject`, then, as the last hook, `rejectReplay` | stage gate (rollback) |
| Social guard (`socialguard.go`, `rejoin.go`) | members and moderators per club, owners | `observe` of NIP-29 moderation events, `reject`, read protection | everyone asks it who is a member |
| Admin API, bans (`admin.go`) | bans (a JSON file), NIP-98 nonces | ban, unban, delete a club | all of the above |
| Auto DJ gate (`autodjgate.go`) | none | `reject`: only the owner arms | conductor's owner cache |
| Entry-fee gate (`entryfee.go`) | used receipts | `reject` | social guard |
| Club cap (`clubcap.go`) | create events counted per account | `reject`, `observeEvent`, `reload` after a deletion | event store, admin API |
| Rate limiters (`ratelimit.go`) | a token bucket per principal and per network | `reject`, `allow`, `sweep` | |
| Member counts (`main.go`) | the published count per club | publish on a change, and at the start | social guard |
| Listener statistics (`listeners.go`) | active tabs per club, a history and its file | `observe` a beat, `broadcastLive`, `save`, `deleteClub` | rate limiters, clients |
| Credibility board (`credibility.go`, `djleaderboard.go`) | last settled track, results, scores, in a JSON file | `recordSettlement` | conductor |
| SQLite (`store.go`) | rows `conductor_state`, `played`, `club_owners` | | conductor |
| Frontend (`frontend/src/lib/nostr`) | the user's intents, a preview of what is up next | publishes stage, queue, Auto DJ, skip, reaction and presence events | relay |
| Telegram bridge (`telegram-bot/main.go`) | the bot's queue, on stage or not, its place (`since`), the relay it is connected to | a session (connect, `loadQueue`, `stageLoop`) and a goroutine per chat command (`addTrack`, `cmdAddPlaylist`, `cmdRemove`, ...) | relay, as a DJ like any other |
| Deployment | | | systemd restarts the relay |

An event of a client passes the `RejectEvent` hooks in order (policies, rate
limits, and last the session replay check with the stage gate), is written by
the store, and is then handed to the `OnEventSaved` observers in the order
`main.go` registers them: social guard, ..., conductor index, stage gate, alias
cleaner, club cap. Each connection runs on a goroutine of its own, so all of
this overlaps, and the conductor's tick overlaps with it. Memory is shared under
several small locks (`c.mu`, `idxMu`, `moodMu`, the gate's `mu`), which the code
takes one after the other. A crash loses the memory; badger (events), SQLite and
the clients' signed events remain.

### What is hard

* **Crashes.** A track start is six writes to four stores; the conductor resumes
  from whichever exist. SQLite and the stored now_playing tell different stories
  when Auto DJ played.
* **Order.** Events of one second are ordered by id in the store and by arrival
  in an index. Clients' clocks are ahead or behind. The relay signs copies of the
  DJs' queues that compete with the DJs' own by timestamp.
* **Interleaving.** Checks and uses under different locks: a reaction is checked
  against the running track and counted later; the gate reads leases, Auto DJ and
  reservations one after the other; eligibility is asked before the index is
  locked.
* **Time.** Heartbeats, throttles, blocks, back-off, the 10 s reservation and the
  5 min lease are compared with `>=`, `<` and `<=` in different places.
* **Deletion.** A club lives in ten places in memory, in two databases and in JSON
  files. An administrator's deletion visits most of them one after the other (the
  credibility board keeps a deleted club), while everything else goes on.
* **Limited queries.** The event store returns a bounded number of events for one
  query (`admin.go:361`). Who asks once for everything may be told of the newest only.
* **Whole documents.** A queue is one event: whoever edits it, the DJ, the bot's
  commands or the conductor that marks a track off, reads it, changes it and
  writes it whole.
* **Fairness.** DJs come and go while turns are counted from a DJ who may have
  left: turns then start at the oldest DJ again (`roundrobin_test.go:88-89`), so the
  code promises turns only between departures.

### What makes each part correct

* Conductor: each performance is settled at most once, in order; a set plays
  through once; a track ends on time; a skip or a reaction belongs to the track
  its sender saw; a broken track stays out; what is announced is what runs; a club
  with something to play does not stay silent.
* Round robin: the first playable track of the next DJ who offers one; while nobody
  leaves, nobody starves.
* Preview: the relay plays what the client, or Auto DJ, announced.
* Stage gate and leases: never more participants than slots; kicks and removals
  hold; a restart brings back the same stage.
* Session policy, receipts, nonces: accepted once, and a refusal costs nothing.
* Membership: who was removed or banned is out everywhere, at once and for good.
* Deletion: nothing of the club stays behind or comes back after a restart.
* Club cap: it counts the clubs there are, each once.
* Rate limits: no principal gets more than its burst and what refills, whatever is
  swept.
* Listeners: the number shown becomes the number of open tabs and stays it.
* Telegram bridge: what the relay acknowledged stays queued, and what the chat was told
  is queued, is; the bot is on stage when it has something to play, off stage when it
  has not, and keeps its place among the DJs.

## 2. Modules

| Module | Models | Lines of code |
|---|---|---|
| `RoundRobin` | `fairNext`, `indexOf`, `orderAndCapDJs` as operators | `roundrobin.go`, `conductor.go:64-78` |
| `UpNext` | the client's `fairSequence` preview beside the relay's repeated `advance` | `roundrobin.ts`, `sync.svelte.ts` |
| `Conductor` | one club's tick, step by step, with clients and crashes in between | `conductor.go`, `credibility.go`, `store.go` |
| `Ledger` | abstract: what the credibility board promises; `Conductor` implements it | `credibility.go:94-` |
| `AutoOrder` | Auto DJ's shuffle, the order planned ahead, the preview | `conductor.go:2178-2415` |
| `StageGate` | the admission gate, the indexes it reads, the handlers, revocation, restart | `conductor.go`, `sessionevents.go`, `socialguard.go`, `main.go` |
| `SingleUse` | what is accepted once: session events, entry receipts, NIP-98 tokens | `sessionevents.go`, `entryfee.go`, `admin.go`, `main.go` |
| `Bot` | the Telegram bridge: session, commands and the stored queue they share with the conductor | `telegram-bot/main.go` |
| `RateLimit` | token buckets and their sweep | `ratelimit.go` |
| `Listeners` | tabs that send beats, the relay that counts them, the page that shows the number | `listeners.go`, `main.go`, `listeners.svelte.ts` |
| `Clubs` | creation and deletion of clubs across everything that remembers one | `clubcap.go`, `admin.go`, `socialguard.go`, `listeners.go`, `conductor.go`, `autodjgate.go`, `main.go` |
| `MCUpNext`, `MCConductor`, `MCAutoOrder`, `MCStageGate`, `MCSingleUse`, `MCBot`, `MCListeners`, `MCClubs` | small instances for TLC | |
| `RoundRobinProofs`, `PreviewProofs` (`UpNext`, `AutoOrder`), `ConductorProofs`, `StageGateProofs`, `SingleUseProofs`, `BotProofs`, `ListenersProofs` (`RateLimit`, `Listeners`), `ClubsProofs` | theorems | |

`Conductor` EXTENDS `RoundRobin` and picks with its `FairNext`; so does `UpNext`,
where the client's simulation and the relay's schedule run beside each other.
`Conductor` instantiates `Ledger` with the settled performances as the refinement
mapping. `Listeners` EXTENDS `RateLimit`: a beat is observed if `Allow` lets it
pass. `PROJECT.json` maps every definition to the lines it stands for.

### Conductor

One club. A pass of `tick` is a sequence of actions, one per write to a store or
to memory another goroutine reads; `pc` says where it is. `BeginTick` takes the
snapshot of stage and queues `driveClub` works on; `Resume` is `resume`;
`EndTrack`, `HoldTrack`, `Bootstrap`, `StopUndriven` and `Forget` are the branches
of `driveClub`, `driveAutoClub` and of tick's loop over undriven clubs; `Pick`,
`MarkTrackOff`, `IndexMark`, `AnnounceTrack`, `LogPlay` and `SaveTrack` are
`advance` from `matrix` to `sqSaveState`; `Stop` and `SaveStopped` are `stop` with
its back-off. Between any two a client's event is handled (`PublishQueue`,
`RequestSkip`, `CheckReaction` and `CountReaction`, `ReportBroken`, `JoinStage`,
`LeaveStage`, `ArmAutoDJ`) or the relay crashes; `Restart` is `warmIndexes`.

* Time counts ticks. A tick takes 2.5 s, so the second-resolution stamps of two
  ticks differ and those of one tick are equal; `Skews` shifts a client's clock.
  The comparisons of the code are kept (`>=`, `<`, `>`).
* `sqState`, `sqPlayed`, `np`, `log`, `dbOwn`, `dbRelay`, `lastTrack` and `results`
  survive a crash. A crash may fall between any two of them.
* A queue in the index is the newest by stamp; the store keeps the newest row per
  author, DJ and relay being two authors, with ids deciding a tie either way.
* Reactions are counts per position; who voted is not kept. `inflight` holds the
  reactions between `moodTrackState` and `observeMood`.
* `fresh`, `cast` and `bypass` are history variables: what the DJs asked for since
  it last ran, the bangers accepted per performance, the picks a DJ was passed over.
* Clients may act before the relay's first tick after a start, which is more than
  the code allows in some cases (it ticks at once).
* The play log that a resume without SQLite reads comes in the store's order, and the
  last row of a DJ's video counts (`LastRows`: any one of each).
* The queries of `warmIndexes` and of `resume` return all there is: with more events of
  a kind than the store gives for one query (see `Clubs`), a restart would miss the older.
* Not modelled: stores that fail, deleting a club (see `Clubs`), revoking a DJ (see
  `StageGate`), `repairAdmins`.

### AutoOrder

A tick is one step, for only the conductor's goroutine touches the orders.
`Fitted`, `Advanced` and `Planned` return the sets of plans a random shuffle may
lead to. Tracks end at any tick: why is `Conductor`'s concern. The specification is `OrderSpec`. `stands` and
`sameList` remember whether the last announcement may still be relied upon.

### StageGate

`reject` holds the gate's lock but reads the conductor's indexes under theirs:
`BeginAdmission` counts the leases, `EndAdmission` asks for Auto DJ and decides;
everything else may happen in between, except what needs the gate's lock. An
accepted event goes through `Save` (or `SaveFails`), `CheckEligible`, `Index`,
`Release` and `CleanAliases`, the order of `main.go`. A leave or removal runs
`Leave`, `PurgeRows`, `RevokeLease`, `RevokeReservation`, one step at a time.
`Lapse` moves the five-minute horizon. `Restart` loses the indexes and warms them
from the rows. `Posts` lists the events clients may send; a DJ signs with one of
several `Keys`, and the store keeps a row per key, the index one per DJ.

* The since tags are left out: when more hold a lease than slots, any may be cut.
* Bans, which act on eligibility as a removal does, are not modelled apart from it.
* `Kick` saves the row and indexes it in one step: a restart between the two reads the row,
  as one after both does, but what another handler does in between is not in the model.
* `SlowStore = FALSE` says that a write ends within its reservation's ten seconds.
* Events of one second are ordered by `Id`, arbitrary but fixed. `idxAutoDJ` keeps
  the first of one second where the store keeps the smaller id; the owner arming and
  disarming in one second is left out of `RestartKeepsStage`'s instance.
* `overtaken` remembers that a participant came back into a slot that was not held
  for it: by a heartbeat that needed no reservation, by rejoining, or because a
  restart forgot a kick. `NeverOvercommitted` speaks of the time before; the
  configurations `MCGateRejoin`, `MCGateHeartbeat`, `MCGateAuto` and `MCGateKick` show
  how each of those comes about.
* `publishAutoDJDisarm` is called nowhere and is not modelled.

### SingleUse

A request is handled on one of `Conns`, several of them possibly at work on the
same one. A session event goes from the policy (`Deliver`) through the limiters
(`Refuse`) and the second check (`CheckAgain`) to `Reserve`, which is
`rejectReplay` under its lock, and to the stage gate, which admits it or gives the
id back (`releaseReplay`). A join request shows its receipt (`ShowReceipt`), uses
it up (`SpendReceipt`) and is refused by a later hook or stored (`RefuseJoin`,
`Join`). A token is found fresh (`PresentToken`) and the id it names, if it names one,
looked up (`CheckNonce`) and stored again if its record had expired (`RenewNonce`).

* `verifyNIP98` checks a token's signature, not that the id its event names is the
  event's (`admin.go:146`), so which id a token names, or none, is a constant,
  `NonceId`. `AcceptedOnce` speaks of tokens with an id of their own
  (`Identified`); `TokensAreSingleUse`, what `admin.go:168` says of all, is violated.
* The clock is read when a request is found fresh, and once more before the lock;
  `conn.read` keeps the first reading, and `Reserve` and `CheckNonce` use any time
  since. `MaxPause` bounds the delay of the goroutine in between, in the guard of `Tick`.
* The replay cache is a list in the order of reservation, pruned from its front only.
* `Restart` loses the three memories, so `accepted` and `admitted` count what one
  process of the relay did. What is still fresh after a restart is accepted again,
  which the code knows (`entryfee.go:38`, `entryfee.go:116`).
* `SingleUseAssumption` states what the durations must satisfy: an id is kept for
  longer than its request can still be looked up. In the code this leaves a goroutine
  30 s for a session event (60 + 30 of 120) and 5 s for a token (60 + 60 of 125). It
  is tight: with a window one unit shorter TLC finds a request accepted twice.
* Not modelled: who may send a request (`StageGate` has membership), and the tags,
  amounts and signatures that are checked before any of this.

### Bot

The session goes from `Connect` through `Load`, `Apply`, `LeaveStage` or `LeaveFails`
and `Restore` (the steps of `session` and `loadQueue`) to "up", where `Heartbeat` is
`stageLoop`. `Drop` is a connection that dies at any step, `Notice` the session that
returns and is retried, `Crash` the process. A command is begun by `CmdAdd`,
`CmdAddPlaylist`, `CmdRemove` or, after `Search`, by `Press` and `TakeSelection`, and
goes on with `LookAtStage`, `Fetch`, `Merge` or `TakeOut`, one of `Publish`,
`PublishUnheard` and `PublishFails`, and `Rejoin`. `Mark` is the conductor's
`markTrackOff`, which may fall between any two of these.

* The bot's queue is two rows, its own and the conductor's copy, and the conductor's
  index entry. A row's time counts the seconds in which a row was written.
* A command keeps the relay it began with: `live` is lost with the connection.
* `acknowledged`, `promised` and `overlapped` are history: the videos whose publish the
  relay acknowledged; those of which a press of a button was told that they are added,
  which `TakeSelection` does before the queue is read or published
  (`main.go:479-484`); and whether two commands have run at once, of which nothing is
  promised. A typed command is answered after its publish, a failed one with an error.
* A handler of the first free number is taken, as goroutines are interchangeable.
* `handleNostrEvent`'s branch for an exhausted queue (`main.go:253-275`) is left out:
  it waits for a queue signed by the bot whose tracks are all off, and the bot signs
  tracks as active only.

### RateLimit and Listeners

Time and tokens have one unit, what refills in one unit of time. `Allow`, `Refuse`
and `Sweep` take the time a goroutine has read, which lags `now` by `MaxPause` at
most. `mark` and `taken` measure an arbitrary interval.

In `Listeners` a unit of time is 12.5 s: a beat is sent every 25 s, a tab is dropped
after 75 s, a number repeated after 25 s and not shown after 40 s. A beat is sent
(`Open`, `Reload`, `BeatOn`, `Visible`, `Close`) and perhaps lost, though never two in
a row; the relay refuses or records it (`Observe`), decides on a number under the
lock (`ObserveDecides`, `Tick`), and broadcasts it after (`Publish`) in any order.
The page keeps the latest (`Ingest`) and shows it while it is fresh (`Displayed`).

* `ListenersAssumption` is what the code's constants say of each other: a listener's
  limiter (a burst of 6, one beat in 10 s) pays for a beat between two, a number is
  repeated (15 s) before it is stale (45 s), and the window of 70 s holds two beats of
  25 s, one refused one (10 s) and the delays, for which it leaves 10 s. The window is
  exact: one unit shorter, and TLC finds an open tab that is not counted.
* `Advance` lets time pass only when due beats are sent, messages have arrived or are
  lost (`Transit`), the ticker has run and what was decided is broadcast: in the run
  the latencies are below a unit. That the page's subscription comes back after a restart of the
  relay is the client library's doing and assumed.
* The page compares the relay's `sent_at` with the browser's clock: `Displayed` takes
  what that clock is ahead, from `Skews`, and `CountHeals` is asked for each. The
  assumption bounds it by the margin between a repetition and staleness; a clock further
  ahead shows 0, which the code does not prevent.
* `changed` and `since` are history: since when the number should be stable, and
  since when a tab has been open.
* Left out: the refusal of beats stamped more than 60 s behind or 30 s ahead
  (`listeners.go:96`, `main.go:358`), which a browser with such a clock meets at every
  beat; the caps of 2000 clubs and 5000 tabs; the network limiter, which tabs share;
  the 24 h history's buckets and bounds. Its file is in `Clubs`.

### Clubs

An id is drawn at random and used once, so a club is its create event. `creator` is
known for ids that were used. A connection handles one event in its steps, as
`main.go` orders the hooks: `CreateBegins` (the cap), `CreateSaved`, `CreateApplied`
(members, group), `CreateCounted` (the cap again); `MemberBegins`, `MemberObserved`,
`CountPublishes`, `CountWritten`; `StageBegins`, `StageSaved`, `StageIndexed`;
`OwnerBegins`, `OwnerKept`, `OwnerCached` (what the Auto DJ gate looks up);
`BeatBegins`, `BeatRecorded`. The conductor's tick reads the clubs to drive before it
locks and asks again under the lock (`TickReads` to `TickKeeps`). The listener file is
marshalled and renamed under one lock by the timer and by a deletion
(`SaveBegins`, `SaveEnds`). `adminAPI.deleteClub` is `Evict`, `ForgetPeople`,
`ForgetSaveBegins`, `ForgetSaveEnds`, `ForgetPlayback`, `ForgetRows`, `Purge`,
`ReloadBegins`, `ReloadEnds`; the file, SQLite, the purge and the reload may each fail.
`Restart` builds the memory from what is stored.

* `QueryLimit` is what the store returns for one query, the newest by `CreatedAt` (the
  client's choice), any of one second (`Queried`). `reload` and `warmCount` count the
  clubs of one query (`clubcap.go:44`). The purge loops until nothing is left, so it is
  not limited (`admin.go:361-364`).
* Any id that was used may be deleted, `admin.go:316` does not ask: a club that is
  there, one deleted before, one whose creation is under way.
* History: `deleted`, the administrator was told it is done. `late`, an event about the
  club was under way when its group was taken out, or its purge or reload failed, and
  no quiet deletion has gone through since; handlers that have passed the group check go
  on and write what they write, and the code does not stop them. `early`, its group was
  still to be made then, and is made afterwards. `forgotten`, a query has left its
  create event out. `raced`, its last member change met another's count that was not
  written yet.
* Not modelled: the owner's own deletion of a club (kind 9008,
  `socialguard.go:234-240`), which drops the club's members and revokes each, without a
  purge; the credibility board's file, which keeps a deleted club as `LastTrack` and in
  `TrackPerformances` (`credibility.go:54-55`). relay29's own loading of the groups at a
  start is external and taken to find all of them; so are the other queries at a start.
* A `now_playing`, a stage event and the rest are one row per club: which matters
  only for whether something is left.
* The superadmin, who is exempt from the cap, is not among `Accounts`.

## 3. Runs

Bounds common to the runs of `Conductor`: the clock starts at `Heartbeat` = 2,
by which every timer at 0 has run out, and ends at `MaxTime` (7 to 11); a behaviour
has at most `MaxMoves` (3) client events and crashes together, at any point.
Videos last one or two ticks, so four to six tracks run, in which time a queue
is exhausted, the block of a broken track, the back-off and the throttles elapse,
and a crash with its restart falls on each of the write steps. `CHECK_DEADLOCK
FALSE` in these, in `MCUpNext*` and in `MCSingleUse` is for the end of the bounded
clock or preview;
`AutoOrder` and `StageGate` are checked for deadlock.

| Run | Instance | Shows |
|---|---|---|
| `upnext` | 3 DJs, 5 videos, queues of up to 3 entries, preview of 4 | `PreviewIsHonoured`: with no video queued twice, the relay plays what the client announced, in that order, and stops where the preview stops. `NoDJIsPassedOver`. |
| `conductor` | 2 DJs sharing a video, edits, votes, skips of a DJ and a moderator, presence changing at every pick, crashes, short and long downtimes | `LedgerSpec` (settled once, in order), `PlaysOnce`, `NowPlayingAgrees`, `TrackEndsOnTime`, `SkipHitsWhatWasSeen`, `BangersAreEarned`, `TypeOK` |
| `turns` | 3 DJs come and go, 3 slots, queue edits, crashes; fairness | `NoDJStarves`, `MusicStarts` |
| `events` | no SQLite, Auto DJ armed and disarmed, 2 reporters and a moderator | `LedgerSpec` when the relay resumes from its own events, `TrackEndsOnTime` under the throttle of reports |
| `auto_order` | playlists of 0 to 3 tracks, previews of 2 | `OrdersFit`, `AnnouncedIsPlayed` |
| `gate` | a DJ and Auto DJ, 1 slot, 2 events in flight, kicks, removal, rejoin, failing writes, restarts | `NeverOvercommitted`; with `Posts <- Everyone`, where the owner joins too, it is four times as large and holds as well |
| `leases` | 1 DJ with 2 keys, joins, heartbeats and offs of two seconds, kicks, removal, restarts | `KickHolds`, `RestartKeepsStage`, `TypeOK` |
| `single_use` | 3 connections; 3 session events with room for 2 ids, 2 joins with one receipt, or 4 tokens (with an id of its own, with none, two with the same) | `AcceptedOnce`, `ReceiptAdmitsOnce`, `RefusalsAreForgotten`, `TypeOK`, the windows being the shortest the assumption allows |
| `auto_settles_twice` | violation of `SettledOnce` | after Auto DJ, a restart resumes the row of a track settled before and settles it again: Auto DJ never calls `sqSaveState` |
| `bot` | 2 command handlers, 2 videos, 2 commands of any kind, lost connections and answers, a restart; fairness | `AcknowledgedStays`, `SinceIsKept`, `StageFollowsQueue`, `LeavesExhausted`, `TypeOK` |
| `listeners` | 2 tabs, each with a budget of one beat a period, a reload, a lost beat, a visit, a restart; the page's clock right, a unit behind or ahead | `CountHeals`, `OpenTabIsCounted`, `WithinBudget`, `TypeOK` |
| `clubs` | 3 ids, 2 accounts, a cap of 1, queries of 1 event, 2 connections, a restart; creations, members, stage, owners and beats beside deletions that may fail | `PlaybackEndsWithTheClub`, `DeletionLeavesNothing`, `CapKnowsTheClubs`, `OverdraftIsBounded`, `MemberCountIsCurrent`, `TypeOK` |

Why the bounds suffice: two DJs are enough for every relation between "who plays"
and "who is next", and three on a stage of three are the fewest of whom one may be
passed over twice in a row; one slot is
enough for two participants to race for the last one; two events in flight give
every pairwise race of handlers. `single_use` runs long enough for an id to be
reserved, to expire and to be delivered again; session events, joins and tokens have
memories of their own, so a process of the relay sees only one kind of them there
(`OneKind`), which leaves room for three connections at once. `conductor` runs with clients' clocks one tick
behind: with exact ones `PlaysOnce` is violated (`MCReplay.cfg`). `conductor` and
`turns` run without Auto DJ because with SQLite and Auto DJ together `LedgerSpec`
fails, which is what `auto_settles_twice` shows, and `BangersAreEarned` with it: the
track that is settled again is credited again. `bot` needs two handlers for a
command beside another one and two moves for one to edit what the other queued; a
connection may be lost at every step of both, as often as it likes. `listeners` ends
after six units, which is an `Online` window: a tab opens, loses a beat, is
dropped, and the number heals. `clubs` has a cap of one, so two connections are
enough to exceed it, and three ids let a club be created beside the deletion of
another, and a query of one leave another out; three events and deletions are enough for
every pair of handlers to race with a deletion, and for a deletion after one that failed.

**Fairness.** `FairSpec` of `Conductor` asks for weak fairness of `Tick` and of `Restarts`. The
tick loop is a goroutine on a ticker that ends only with the process, and its
steps wait for nobody; systemd restarts the process after a failure
(`Restart=on-failure` in `zapclub-relay.service`). Clients need not do anything,
and a crash is never forced. `MusicStarts` is asked while enough of the bounded
clock is left for the back-off to elapse. `FairSpec` of `Bot` asks for weak fairness
of what a loop does next by itself (`run` reconnects for ever, a command's goroutine
runs to its end) and for strong fairness of the steps that a lost connection may
interrupt and every new session attempts again: a connection that is always lost
before the queue is read would leave the bot without a queue, and no code could help.
Chat members and the conductor need not do anything.

### Further counterexamples

These configurations are kept beside the runs; each violates one property that a
comment of the code states. `tlc -config X.cfg M` shows the behaviour.

| Configuration | Module | Property | The code |
|---|---|---|---|
| `MCReplay` | `MCConductor` | `PlaysOnce` | clocks exact: `idxQueue` keeps the first queue of a second (`conductor.go:461`), so one published in the second of a mark-off keeps the mark-off out of the index, and the track plays again. `conductor.go:1610-1611`: "a set plays through once". |
| `MCGateRejoin` | `MCStageGate` | `RevokedStaysOff` | `idxStage` asks for membership (`conductor.go:397`) before it takes the lock; a lease inserted after the revocation counts again on rejoin. `relay/README.md:65`: "so neither a restart nor a later rejoin can resurrect an old session alias". |
| `MCPositions` | `MCConductor` | `PositionsAreUnique` | `advance` increments `pos` (`conductor.go:1636`) and saves it at 1662, after `publishPlay`: a crash in between gives the next track the same position. `conductor.go:1588`: "`pos` is an opaque monotonic token per started track". |
| `MCAutoCredit` | `MCConductor` | `AutoResultsAreTheOwners` | `resume` takes `auto` from a now_playing of Auto DJ (`conductor.go:2023`) for a real DJ's row, whose result then builds no credibility. `conductor.go:1816-1818`: "Auto-DJ results are kept only for the track chart". |
| `MCBrokenCycles` | `MCConductor` | `BrokenStaysOut` | the loop-reset (`conductor.go:1765`) rebuilds the row of an absent DJ without `isBrokenVid`, and a video skipped as broken is picked again within its block. `conductor.go:1119`: "keeps it out of the rotation for brokenVidBlockMS". With the DJs present Auto DJ violates it too (`AutoLists <- Playlists`, `OnlineSets <- AllPresent`): `driveAutoClub` never asks. |
| `MCAutoReactions` | `MCConductor` | `ReactionsArePruned` | `driveAutoClub` starts tracks without pruning. `conductor.go:1663`: "Prune mood votes older than 2 positions to keep the maps bounded". |
| `MCSkipAhead` | `MCConductor` | `SkipHitsWhatWasSeen` | a request stamped ahead of the relay's clock, after a crash that reuses the position, ends another track. `conductor.go:1776`: "a stale request from a previous track is ignored". |
| `MCAutoRestart` | `MCAutoOrder` | `PreviewSurvivesRestart` | the orders are in memory only. `conductor.go:2188-2190`: "the relay always plays what it announced to clients". |
| `MCUpNextRepeats` | `MCUpNext` | `PreviewIsHonoured` | with a video queued twice the relay marks both off, the preview one. `roundrobin.ts:20`: "exactly the order the relay's repeated `advance` produces". |
| `MCGateAuto` | `MCStageGate` | `ArmedOwnsASlot` | `hasActiveAutoDJ` counts only while the owner is a member. `conductor.go:2450`: "permanently owns one of the three slots while armed". |
| `MCGateKick` | `MCStageGate` | `KickHolds` | a kick's d tag is the DJ alone (`groups.ts:584`): a kick in another club replaces this club's row, and a restart forgets it. |
| `MCGateHeartbeat` | `MCStageGate` | `ParticipantsOwnSlots` | a heartbeat needs no reservation; a kick and somebody else's join may come before it is indexed. `conductor.go:2463-2464`: "Heartbeats and Auto-DJ config replacements are always allowed because their participant already owns a slot". |
| `MCToken` | `MCSingleUse` | `TokensAreSingleUse` | a token whose event names no id is not remembered (`admin.go:170`). `admin.go:168`: "each NIP-98 token (event id) is single-use within its freshness window". |
| `MCClubsCap` | `MCClubs` | `AtMostThreeClubs` | the cap is counted from one query (`clubcap.go:44`), so an account whose clubs it left out creates another. `clubcap.go:12`: "accounts may own at most 3 clubs"; `admin.go:361`: "The badger store caps a single query (~250 events)". With two connections creations that overlap exceed it without a restart (`clubcap.go:88`). |
| `MCBotPressed` | `MCBot` | `PromisedIsOnItsWay` | a press is answered "Added" (`telegram-bot/main.go:479`) before `addTrack` (484) has queued anything; a restart in between loses the track, and nobody is told. `telegram-bot/main.go:8`: "appends a track to the bot's DJ queue". |
| `MCClubsPurge` | `MCClubs` | `PurgeIsFinal` | a handler that passed its check before the club was taken out writes after the purge: a count, a stage event, an owner, a listener. `socialguard.go:54-56`: "the durable purge must be the final event transition for a deleted club". |
| `MCBotOffStage` | `MCBot` | `StageFollowsQueue` | `cmdAddPlaylist` never puts a bot that left the stage back on it, as `addTrack` does (`main.go:505`): the list is queued and not played. |
| `MCGateSlow` | `MCStageGate` | `ReservedUntilIndexed` | a write slower than ten seconds outlives its reservation. `conductor.go:2479`: "reserve accepted joins until OnEventSaved updates the conductor index". |

Changing a value or the property in a passing configuration shows more. In
`MCSingleUse.cfg`, `SpentReceiptsAdmit` fails: the entry gate (`main.go:299`) uses a
receipt up before a later hook (`main.go:358`) refuses a join stamped too far ahead.
`entryfee.go:171`: "a paid receipt admits exactly one join". In `MCBot.cfg`,
`EveryAddStays` fails: two commands at once read, change and write the queue without a
lock (`telegram-bot/main.go:494-511`), and one addition is lost though both were
acknowledged. `OneEditASecond = FALSE` or `Timeouts = TRUE` violate
`AcknowledgedStays`: two rows of one second are ordered by id, and a fetch takes the
first row that arrives in time for the newest. `PlayedStaysOff` there fails when the conductor marks a track
off between a command's fetch and its publish, which undoes it; `ExhaustedStartsAfresh`
fails since `parseTracks` returns nil for a queue whose tracks are all off, which
`addTrack` takes for no queue at all, although `fetchCurrentTracks` promises to tell
them apart (`main.go:881`). In `MCClubs.cfg`, `EveryCountIsCurrent` fails: of two member
changes at once the older count may be published last (`main.go:403`), for it is taken
under the guard's lock and published under another. `NewClubIsCounted` fails there: the count of a
new club is not published before its second member comes, for `socialGuard.observe` runs
before relay29 makes the group (`main.go:405`).

## 4. Theorems

All proofs are checked by tlapm without assumptions beyond the named ASSUMEs on
the constants, which the code justifies: there is a positive number of slots,
durations are positive, queues and playlists are sequences of tracks, no DJ stands on
the initial stage twice, an id is kept longer than its request is fresh, a bucket is
idle for longer than it takes to fill before it is swept, a listener's window holds two
beats and the delays (section 2), event ids are distinct, and DJs, tabs and the ids,
accounts and connections of `Clubs` are finitely many. Where a theorem has a hypothesis
of its own it is named below; each is needed: TLC finds the property violated without
it, and most of these counterexamples are in the table above. Every inductive invariant
was checked by TLC on the run of its property first.

With these, every safety property of the passing runs but `PlaysOnce` is a theorem for
all values of the constants.

**Round robin and preview.**

* **`RoundRobinProofs!FairNextIsFair`.** For every stage and every matrix: `FairNext`
  returns nothing only if nobody offers a track; otherwise the first playable track
  of a DJ such that no DJ between the last one and this one offers any. The proof
  goes through the least element of the non-empty set of offering turns.
* **`PreviewProofs!PreviewComesTrue`.** For every stage, every length of the preview and
  all queues without a repeated video (`DistinctSpec`; `MCUpNextRepeats` is why), the
  relay plays what the client announced and stops only where it ended. The invariant
  `HonourInv`: the preview is what has been heard, followed by the tracks of the rounds
  that are left, simulated from the queues as the relay has marked them by now. Its step
  needs that a round depends on nothing but the matrix and the last DJ, and that the
  client's set of consumed slots and the relay's marks give the same matrix.
* **`PreviewProofs!TurnsGoRound`, `PreviewTyped`.** Between two tracks of a DJ every
  other one was heard or has nothing left. `TurnInv` measures the way from a DJ round the
  stage (`Ahead`): a turn that has not come to somebody yet is still before him.
* **`PreviewProofs!OrdersAlwaysFit`, `AutoDJPlaysTheAnnounced`.** For every playlist and
  preview length. The invariant `OrderInv`: the armed playlist is a sequence of
  tracks; the plan is either none or a permutation with its index inside and a next
  order that is empty or a permutation; and while the announcement stands, its first
  entry is what `Advanced` will reach from the plan in memory, within the current
  order or at the head of the next.

**Conductor** (`ConductorProofs`).

* **`TypeCorrect`.** `TypeOK` is preserved by every step, for every set of DJs and
  videos, every queue and any bounds. It is not inductive: the strengthening `TypeInv`
  gives the shape of every store and of the program counter's data (who is being marked
  off, that positions stay below the clock), since `Restart` and `Resume` rebuild the
  memory from the stores. One lemma per action.
* **`LedgerKept`.** If SQLite is off or no playlist is ever armed
  (`StoreFollowsPlayback`), `Conductor` implements `Ledger`: every performance is settled
  at most once, in the order they started, whatever crashes. The invariant `LedgerInv`
  orders everything that remembers a performance: nothing is settled after the board's
  marker; the track in memory and `Durable`, the row or now_playing a restart resumes
  from, are each the marker's performance or later than it in position and in start; and
  the two agree whenever a settlement may happen, so that a crash cannot bring back a
  track older than the marker. `auto_settles_twice` is what happens without the premise.
* **`BangersAreCredited`.** Under the same premise. A result is credited with no more
  bangers than were cast for its performance. `EarnInv`: the count at the current
  position, and the one announced, are earned by the performance in memory or by the one
  a restart resumes; positions to come have no reactions, and a reaction that was checked
  and not counted yet is for this performance if it is for its position, so `observeMood`
  may count it after the track has ended.
* **`SkipsHitWhatWasSeen`.** If no client's clock is ahead (`MCSkipAhead`). A position may
  be used twice, by a track whose save was lost and the one after the restart; `SeenInv`
  says that memory, the row and now_playing agree on who has a position whenever a skip
  could be counted, and that a request stamped after the start of one of them is about it.
* **`TracksEndOnTime`, `AnnouncesWhatPlays`.** `OnTime`: whoever starts a track does so at
  this tick. `ToldInv`: memory and now_playing are of one track except between a pick and
  its announcement, and a row a restart reads carries no heartbeat, so that what it
  resumes is announced before it counts as announced.
* **`TurnsComeRound`.** As long as nobody leaves, fewer picks than there are slots pass
  over a DJ who offers a track. `FairInv`: no DJ stands on the stage twice, a DJ passed
  over is on it and does not play, and the number of picks that passed over him is such
  that they and the turns still before his fit on the stage as it is, which may have grown
  since the tick read it.

**Stage gate** (`StageGateProofs`).

* **`StageNeverOvercommitted`, `JoinsStayReserved`.** If a write ends within its
  reservation's ten seconds (`~SlowStore`, `MCGateSlow`). `GateInv`: no event is handled
  twice; an event that needed a slot keeps its reservation until it is indexed; and what
  the gate read of the leases before it asks for Auto DJ still covers who counts, but for
  those whose reservations it holds. Leases and reservations may only grow into slots that
  were held.
* **`KicksHold`.** Unless kicks of other clubs replace rows and the relay restarts
  (`MCGateKick`). `KicksAgree`: the index has the newest kick of every DJ, and so have
  the rows a restart fills it from, unless a kick elsewhere replaced one.
* **`RestartsKeepTheStage`.** If nobody rejoins and no other club kicks. `LeaseInv`: of a
  member, every lease in memory or being written is reached by a row (one as new), and
  every row by a lease in memory or being written; a removal takes both. If a removed member
  comes back while the removal is under way the rows are purged and the lease is not, or
  the other way round. `TypeSafety` is the type correctness.

**Used once** (`SingleUseProofs`).

* **`AcceptsOnce`, `AdmitsOnce`, `ForgetsRefusals`, `TypeCorrect`.**
  For any requests, connections and durations within `SingleUseAssumption`. None of
  them is inductive. `SessionInv` says that an event which was accepted, or is at
  the stage gate, either has its record in the cache or can no longer be looked up,
  its `LastUse` being past; that every record outlives its event's `LastUse`, so that
  pruning, by whichever clock reading, drops only what is harmless; and that no two
  connections have one event at the stage gate, for one of them would give back the
  other's id. `TokenInv` says the same of tokens with an id of their own, whatever
  tokens without one or with a shared one do to the records; of those nothing is
  claimed (`MCToken`). `ReceiptInv` says that a connection
  about to join has its receipt for itself.

**Telegram bridge** (`BotProofs`).

* **`AcknowledgedIsKept`.** If the seconds in which rows are written differ, fetches end in
  time and `/addplaylist` is not sent while the bot is off stage, none of which the code
  ensures (the first two as counterexamples in section 3; after the third, the next `/add`
  empties the queue of a bot off stage, `main.go:499-500`). As long as no two commands have
  overlapped, a video whose publish the relay acknowledged is in the conductor's queue
  until it is played or removed. What the chat is told before the relay has answered is not
  in this (`MCBotPressed`). `KeepInv`: the index holds the
  newest row, and nothing older can be fetched; a command that can still publish runs
  beside the connection it began with; it carries everything that is acknowledged through
  its merge to its publish, but what it takes out; while the bot is off stage nothing is
  acknowledged; and the session that leaves the stage decides on a row that is still the
  newest.
* **`PlaceIsKept`** (an action property). If fetches end in time: a session that is up
  knows the stored since, and only such a session puts the bot on stage (`PlaceInv`).
  `TypeCorrect` is the type correctness.

**Limiter and listeners** (`ListenersProofs`).

* **`BudgetIsKept`, `TabsWithinBudget`.** For every burst, cost and pause between reading
  the clock and taking the lock: in no interval is a key allowed more than a burst, what
  refills, and the pause, although buckets are swept and start full. `BudgetInv`
  follows what a bucket holds less the time it was touched, which only falls, but when a
  new bucket is made; a bucket may be swept only when what was taken has refilled, which
  is what the assumption `Burst + 2 * MaxPause <= IdleTime` gives (ten minutes against
  one). `LimiterTypes`, `ListenersTyped` are the type correctness.
* **`NumberHeals`.** `HealInv`: a number that is wrong, broadcast or not, was decided on
  before the last change; the relay knows its latest number, which is younger than
  `Refresh + MaxPause`, and which is still to be broadcast or is no newer than what the
  page shows. When time passes, nothing is left to be broadcast, so the page shows a
  number decided on since the change. A 0 is not repeated: the number before it goes
  stale, later by as much as the browser's clock is behind. For any `Skews` within the
  margin that `ListenersAssumption` asks for.
* **`OpenTabsAreCounted`.** `HeardInv`, per open tab: of the last two beats one is under way
  or was heard; of the two before, one was heard while the last may be under way; a bucket
  too low for a beat was drained by one that was heard less than `Cost` ago; and a farewell
  under way is older than the page. Whatever the relay heard of so lately it does not prune.

**Clubs** (`ClubsProofs`).

* **`PlaybackEnds`, `LeavesNothing`, `CapIsRight`, `OverdraftBounded`,
  `CountsAreCurrent`, `TypeCorrect`.** For any clubs, accounts, connections and cap.
  None is inductive, for each speaks of a deletion or a creation that is over; `Inv` says
  what is so in the middle of one. `Life`: an id is drawn once, nobody is about it before,
  and neither its group nor its create event comes back after they were taken out.
  `Silence`: every handler begins at a club that is there, so what is under way about one
  that is out is in `late`. `Playback` and `Nothing` go along the steps of the deletion:
  what each of them has taken out, and that neither the tick, which looks for the group
  again, nor a save, which one at a time marshals what is in memory, nor a restart, which
  rebuilds from the store, puts it back. `CapKnows`: a create event that the cap does not
  know has a handler that will count it, also while a reload reads, or a query has left
  it out. `Overdraft` counts the clubs that an account has or is saving and no query left
  out: an account that passes the cap has these counted but for those that the other
  connections are about, which are fewer than there are connections; with what the
  queries left out it may own any number (`MCClubsCap`). `Counts`: whoever changed the
  members last, and met no count of the club still to be published, publishes what it
  counted; of changes that do overlap it says nothing (`EveryCountIsCurrent`).

What TLC alone checks: `MusicStarts`, `StageFollowsQueue` and `LeavesExhausted`, which are
liveness and out of the prover's reach, and `PlaysOnce`, which is not proved yet. No
module declares a RECURSIVE operator. The library's induction theorems cannot be used
(they take an operator as a parameter); where a proof needs induction over the rounds of
a preview it goes through the set of the numbers for which a statement holds, which
contains 0 and with every number the next (`SetOfAllNaturals`, proved by its least
exception).

## 5. Plan

Done, in this order: `RoundRobin` and `UpNext` (what "fair" means); `Conductor` with
`Ledger` (the core); `AutoOrder`; `StageGate`; `SingleUse`; `Bot`; `RateLimit` and
`Listeners`; `Clubs`; the theorems above.

Next modules, most important first:

1. `Conductor` with a store that fails: `publish` giving up after three attempts while
   memory goes on (`conductor.go:1982`).
2. `Bans`: the ban store, ban and unban against sessions and the stage. Banning the
   owner of a club purges its create event without a reload of the cap, and leaves
   the group in memory until a restart.
3. `Credibility`: scores and the bounded track history behind `Ledger`.

Next theorems: `PlaysOnce`, from an invariant that ties `fresh` to the played-set and the
queue's marks in memory and in the stores; and what the modules above will state.

## 6. Not modelled

Signatures, receipts' cryptography, NIP-98 parsing, wording and layout of events;
the zap board (a sum of receipts), the spam filter, the search proxy and the log API
(stateless filters or I/O); the read protection of `socialguard.go`, which decides from
what the models have and keeps nothing; relay-wide bans; the buckets of the 24 h
listener history; what the credibility board's file keeps of deleted clubs; an owner's
deletion of a club (kind 9008); the presence of the conductor's listeners (`OnlineSets` chooses it);
the frontend's user interface, signers and players; the Telegram bridge's texts and
profile; deployment scripts. khatru, relay29 and badger are external: what
`src/` relies on, replacement of addressable events and the order of hooks, is
modelled and marked as such in the map.
