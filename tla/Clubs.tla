-------------------------------- MODULE Clubs --------------------------------
(***************************************************************************)
(* Clubs come and go (relay/clubcap.go, adminAPI.deleteClub and purge in   *)
(* relay/admin.go, the deleteClub of socialguard.go, listeners.go,         *)
(* conductor.go, the member counts of main.go and the file of              *)
(* listeners.go).                                                          *)
(*                                                                         *)
(* A club is in many places: relay29's groups, the index of members, the   *)
(* conductor's memory and its SQLite rows, the listener history and its    *)
(* file, the cap on clubs per account, and the stored events.  An          *)
(* administrator's deletion takes it out of all of them, one after the     *)
(* other, while the conductor ticks, connections handle events, the timer  *)
(* saves the listener history and the process may end.                     *)
(*                                                                         *)
(* A client draws a random id for a club (generateGroupId), so an id is    *)
(* used once, and its create event is known by it.                         *)
(***************************************************************************)
EXTENDS Integers, FiniteSets

CONSTANTS
    Ids,            \* the ids clubs may be given
    First,          \* a club that exists at the beginning, with a DJ on stage
    Accounts,
    Founder,        \* the creator of First
    Nobody,
    Conns,          \* goroutines that handle an event each
    MaxClubs,       \* maxClubs
    QueryLimit,     \* events the store returns for one query, the newest first
    CreatedAt,      \* created_at of a club's create event, its client's choice
    MaxEvents,      \* bound: events handled and deletions begun
    MaxRestarts     \* bound: restarts

ASSUME ClubsAssumption ==
    /\ First \in Ids /\ Founder \in Accounts /\ Nobody \notin Accounts
    /\ MaxClubs \in Nat \ {0} /\ MaxEvents \in Nat /\ MaxRestarts \in Nat
    /\ QueryLimit \in Nat \ {0} /\ CreatedAt \in [Ids -> Nat]
    /\ IsFiniteSet(Ids) /\ IsFiniteSet(Accounts)
    /\ IsFiniteSet(Conns) /\ Conns # {}

Savers == {"timer", "admin"}  \* the shutdown handler saves as the timer does
NoRow == -1

VARIABLES
    creator,    \* who sent the create event of a club
    groups,     \* state.Groups of relay29
    members,    \* the index of socialGuard
    stageIdx,   \* clubs with a DJ on stage, as the conductor indexed them
    playing,    \* clubs in the conductor's memory
    ownerMem,   \* ownerCache
    created,    \* createIDs of clubCap
    counted,    \* countIdx of clubCap
    retained,   \* Seen and Series of listenerStats
    creates,    \* stored: create events
    stageRows,  \* stored: stage events
    npRows,     \* stored: now_playing
    countRow,   \* stored: the published member count
    sqState,    \* SQLite: conductor_state
    sqOwner,    \* SQLite: club_owners
    file,       \* clubs in the listener file
    conn,       \* what each connection is doing
    tick,       \* where the conductor's tick is; it holds c.mu from "locked" on
    saver,      \* what each saver of the listener file has marshalled
    reload,     \* clubCap.reload: the snapshot it is reading, under its lock
    deletion,   \* how far the deletion of which club is
    deleted,    \* history: the administrator was told that it is deleted
    late,       \* history: an event about it was under way when it was taken out,
                \* or its purge or the reload after it failed, and no deletion of it
                \* with nothing under way has gone through since
    early,      \* history: its group was still to come when it was taken out last
    forgotten,  \* history: its create event was left out of what the cap was read from
    raced,      \* history: its last member change met another one's publication
    events,
    restarts

runtimeVars == <<members, stageIdx, playing, ownerMem>>
capVars == <<created, counted, reload>>
rowVars == <<creates, stageRows, npRows, countRow>>
sqVars == <<sqState, sqOwner>>
fileVars == <<retained, file, saver>>
markVars == <<early, forgotten, raced>>
historyVars == <<deleted, late, markVars, events, restarts>>
vars == <<creator, groups, runtimeVars, capVars, rowVars, sqVars, fileVars, conn, tick,
          deletion, historyVars>>

IdleConn == [op |-> "none", club |-> First, by |-> Nobody, step |-> "idle", count |-> 0]
NoTick == [club |-> First, step |-> "idle"]
NoDeletion == [club |-> First, step |-> "idle", failed |-> FALSE, alone |-> TRUE]
NoReload == [busy |-> FALSE, rows |-> {}]
NoSave == [busy |-> FALSE, clubs |-> {}]

Init ==
    /\ creator = [c \in Ids |-> IF c = First THEN Founder ELSE Nobody]
    /\ groups = {First}
    /\ members = [c \in Ids |-> IF c = First THEN {Founder} ELSE {}]
    /\ stageIdx = {First} /\ playing = {} /\ ownerMem = {}
    /\ created = {First}
    /\ counted = [a \in Accounts |-> IF a = Founder THEN 1 ELSE 0]
    /\ reload = NoReload
    /\ creates = {First} /\ stageRows = {First} /\ npRows = {}
    /\ countRow = [c \in Ids |-> IF c = First THEN 1 ELSE NoRow]
    /\ sqState = {} /\ sqOwner = {}
    /\ retained = {} /\ file = {}
    /\ saver = [s \in Savers |-> NoSave]
    /\ conn = [n \in Conns |-> IdleConn]
    /\ tick = NoTick
    /\ deletion = NoDeletion
    /\ deleted = {} /\ late = {} /\ early = {} /\ forgotten = {} /\ raced = {}
    /\ events = 0 /\ restarts = 0

-----------------------------------------------------------------------------
(* Events.                                                                 *)

Begin(n, op, c, a, step) ==
    /\ conn[n].op = "none" /\ events < MaxEvents
    /\ conn' = [conn EXCEPT ![n] =
                  [op |-> op, club |-> c, by |-> a, step |-> step, count |-> 0]]
    /\ events' = events + 1

At(n, op, step) == conn[n].op = op /\ conn[n].step = step
To(n, step) == conn' = [conn EXCEPT ![n].step = step]
Ends(n) == conn' = [conn EXCEPT ![n] = IdleConn]

\* Mutant: one club too many.
CapOffByOne(a) == counted[a] <= MaxClubs
\* clubCap.reject
UnderCap(a) == counted[a] < MaxClubs

\* A create event passes the cap.
CreateBegins(n) ==
    \E c \in Ids, a \in Accounts :
        /\ creator[c] = Nobody
        /\ ~reload.busy /\ UnderCap(a)
        /\ Begin(n, "create", c, a, "save")
        /\ creator' = [creator EXCEPT ![c] = a]
        /\ UNCHANGED <<groups, runtimeVars, capVars, rowVars, sqVars, fileVars, tick,
                       deletion, deleted, late, markVars, restarts>>

CreateSaved(n) ==
    /\ At(n, "create", "save")
    /\ creates' = creates \cup {conn[n].club}
    /\ To(n, "apply")
    /\ UNCHANGED <<creator, groups, runtimeVars, capVars, stageRows, npRows, countRow,
                   sqVars, fileVars, tick, deletion, historyVars>>

\* OnEventSaved: socialGuard.observe, whose member count is not published since
\* the group is not there yet, then relay29 makes the group.
CreateApplied(n) ==
    /\ At(n, "create", "apply")
    /\ members' = [members EXCEPT ![conn[n].club] = {conn[n].by}]
    /\ groups' = groups \cup {conn[n].club}
    /\ To(n, "cap")
    /\ UNCHANGED <<creator, stageIdx, playing, ownerMem, capVars, rowVars, sqVars, fileVars,
                   tick, deletion, historyVars>>

\* Mutant: an event is counted whenever it is seen.
CountAgain(c, a) ==
    /\ created' = created \cup {c}
    /\ counted' = [counted EXCEPT ![a] = @ + 1]
\* clubCap.observeEvent: an event is counted once.
CountOnce(c, a) ==
    /\ created' = created \cup {c}
    /\ counted' = IF c \in created THEN counted ELSE [counted EXCEPT ![a] = @ + 1]

CreateCounted(n) ==
    /\ At(n, "create", "cap")
    /\ ~reload.busy
    /\ CountOnce(conn[n].club, conn[n].by)
    /\ Ends(n)
    /\ UNCHANGED <<creator, groups, runtimeVars, reload, rowVars, sqVars, fileVars, tick,
                   deletion, historyVars>>

\* relay29 requires the group; a join is answered by the relay's put-user event,
\* a leave by its remove-user event.
MemberBegins(n) ==
    \E c \in groups, a \in Accounts :
        /\ a # creator[c]
        /\ Begin(n, IF a \in members[c] THEN "remove" ELSE "put", c, a, "observe")
        /\ UNCHANGED <<creator, groups, runtimeVars, capVars, rowVars, sqVars, fileVars,
                       tick, deletion, deleted, late, markVars, restarts>>

\* Mutant: only who comes is counted.
CountsChange(n) == conn[n].op = "put"
\* socialGuard.observe: a change is published, with the number counted now.
Changes(n) ==
    LET was == conn[n].by \in members[conn[n].club]
    IN  IF conn[n].op = "put" THEN ~was ELSE was

\* A count of the club is to be published or written.
Counted(m, c) == conn[m].step \in {"publish", "write"} /\ conn[m].club = c

MemberObserved(n) ==
    LET c == conn[n].club
        now == IF conn[n].op = "put" THEN members[c] \cup {conn[n].by}
               ELSE members[c] \ {conn[n].by}
    IN  /\ conn[n].op \in {"put", "remove"} /\ conn[n].step = "observe"
        /\ members' = [members EXCEPT ![c] = now]
        /\ conn' = [conn EXCEPT ![n] =
                      IF Changes(n)
                      THEN [@ EXCEPT !.step = "publish", !.count = Cardinality(now)]
                      ELSE IdleConn]
        /\ raced' = IF ~Changes(n) THEN raced
                    ELSE IF \E m \in Conns : Counted(m, c) THEN raced \cup {c} ELSE raced \ {c}
        /\ UNCHANGED <<creator, groups, stageIdx, playing, ownerMem, capVars, rowVars, sqVars,
                       fileVars, tick, deletion, deleted, late, early, forgotten, events,
                       restarts>>

\* publishMemberCount, one at a time: a club that is gone gets none ...
CountPublishes(n) ==
    /\ conn[n].step = "publish"
    /\ \A m \in Conns : conn[m].step # "write"
    /\ IF conn[n].club \in groups THEN To(n, "write") ELSE Ends(n)
    /\ UNCHANGED <<creator, groups, runtimeVars, capVars, rowVars, sqVars, fileVars, tick,
                   deletion, historyVars>>

\* ... and is not looked for again before the row is written.
CountWritten(n) ==
    /\ conn[n].step = "write"
    /\ countRow' = [countRow EXCEPT ![conn[n].club] = conn[n].count]
    /\ Ends(n)
    /\ UNCHANGED <<creator, groups, runtimeVars, capVars, creates, stageRows, npRows, sqVars,
                   fileVars, tick, deletion, historyVars>>

\* A member's stage event: stored, then indexed if the club is there.
StageBegins(n) ==
    \E c \in groups :
        /\ c \notin stageIdx
        /\ Begin(n, "stage", c, creator[c], "save")
        /\ UNCHANGED <<creator, groups, runtimeVars, capVars, rowVars, sqVars, fileVars,
                       tick, deletion, deleted, late, markVars, restarts>>

StageSaved(n) ==
    /\ At(n, "stage", "save")
    /\ stageRows' = stageRows \cup {conn[n].club}
    /\ IF conn[n].club \in groups THEN To(n, "index") ELSE Ends(n)
    /\ UNCHANGED <<creator, groups, runtimeVars, capVars, creates, npRows, countRow, sqVars,
                   fileVars, tick, deletion, historyVars>>

StageIndexed(n) ==
    /\ At(n, "stage", "index")
    /\ stageIdx' = IF conn[n].by \in members[conn[n].club]
                   THEN stageIdx \cup {conn[n].club} ELSE stageIdx
    /\ Ends(n)
    /\ UNCHANGED <<creator, groups, members, playing, ownerMem, capVars, rowVars, sqVars,
                   fileVars, tick, deletion, historyVars>>

\* autoDJGate.reject asks clubOwner: the cache, then SQLite, then the store; a
\* lookup that finds nobody keeps nothing.
OwnerBegins(n) ==
    \E c \in (groups \cap (sqOwner \cup creates)) \ ownerMem :
        /\ Begin(n, "owner", c, creator[c], IF c \in sqOwner THEN "cache" ELSE "keep")
        /\ UNCHANGED <<creator, groups, runtimeVars, capVars, rowVars, sqVars, fileVars,
                       tick, deletion, deleted, late, markVars, restarts>>

OwnerKept(n) ==
    /\ At(n, "owner", "keep")
    /\ sqOwner' = sqOwner \cup {conn[n].club}
    /\ To(n, "cache")
    /\ UNCHANGED <<creator, groups, runtimeVars, capVars, rowVars, sqState, fileVars, tick,
                   deletion, historyVars>>

OwnerCached(n) ==
    /\ At(n, "owner", "cache")
    /\ ownerMem' = ownerMem \cup {conn[n].club}
    /\ Ends(n)
    /\ UNCHANGED <<creator, groups, members, stageIdx, playing, capVars, rowVars, sqVars,
                   fileVars, tick, deletion, historyVars>>

\* A listener's beat: accepted, then recorded.
BeatBegins(n) ==
    \E c \in groups :
        /\ Begin(n, "beat", c, Nobody, "record")
        /\ UNCHANGED <<creator, groups, runtimeVars, capVars, rowVars, sqVars, fileVars,
                       tick, deletion, deleted, late, markVars, restarts>>

BeatRecorded(n) ==
    /\ At(n, "beat", "record")
    /\ retained' = retained \cup {conn[n].club}
    /\ Ends(n)
    /\ UNCHANGED <<creator, groups, runtimeVars, capVars, rowVars, sqVars, file, saver, tick,
                   deletion, historyVars>>

-----------------------------------------------------------------------------
(* The conductor's tick, for one club with a DJ on stage.                  *)

TickUnchanged ==
    UNCHANGED <<creator, groups, members, stageIdx, ownerMem, capVars, creates, stageRows,
                countRow, sqOwner, fileVars, conn, deletion, historyVars>>

\* activeClubs, before c.mu is taken.
TickReads ==
    /\ tick.step = "idle"
    /\ \E c \in stageIdx : tick' = [club |-> c, step |-> "ready"]
    /\ UNCHANGED <<playing, npRows, sqState>>
    /\ TickUnchanged

\* c.mu is taken; clubs that are gone are dropped; the club is driven if it is there.
TickLocks ==
    /\ tick.step = "ready"
    /\ IF tick.club \in groups
       THEN /\ playing' = (playing \cap groups) \cup {tick.club}
            /\ tick' = [tick EXCEPT !.step = "locked"]
       ELSE playing' = playing \cap groups /\ tick' = NoTick
    /\ UNCHANGED <<npRows, sqState>>
    /\ TickUnchanged

\* publish: the club is looked for ...
TickPublishes ==
    /\ tick.step = "locked"
    /\ tick' = [tick EXCEPT !.step = IF tick.club \in groups THEN "write" ELSE "keep"]
    /\ UNCHANGED <<playing, npRows, sqState>>
    /\ TickUnchanged

\* ... and the row written.
TickWrites ==
    /\ tick.step = "write"
    /\ npRows' = npRows \cup {tick.club}
    /\ tick' = [tick EXCEPT !.step = "keep"]
    /\ UNCHANGED <<playing, sqState>>
    /\ TickUnchanged

\* sqSaveState when a track was started; c.mu is released.
TickKeeps ==
    /\ tick.step = "keep"
    /\ sqState' \in {sqState, sqState \cup {tick.club}}
    /\ tick' = NoTick
    /\ UNCHANGED <<playing, npRows>>
    /\ TickUnchanged

-----------------------------------------------------------------------------
(* The listener file.                                                      *)

\* Mutant: whoever wants to marshals.
MarshalFreely(s) ==
    ~saver[s].busy /\ saver' = [saver EXCEPT ![s] = [busy |-> TRUE, clubs |-> retained]]
\* save: persistMu is held from the snapshot to the rename.
Marshal(s) ==
    /\ \A r \in Savers : ~saver[r].busy
    /\ saver' = [saver EXCEPT ![s] = [busy |-> TRUE, clubs |-> retained]]

FileWritten(s) == file' = saver[s].clubs
\* Mutant: the lock is not released.
SavedHeld(s) == saver[s].busy /\ UNCHANGED saver
Saved(s) == saver[s].busy /\ saver' = [saver EXCEPT ![s] = NoSave]

SaveUnchanged ==
    UNCHANGED <<creator, groups, runtimeVars, capVars, rowVars, sqVars, retained, conn, tick,
                historyVars>>

\* tick(now, true) of the timer, and the shutdown handler.
SaveBegins ==
    /\ Marshal("timer")
    /\ UNCHANGED <<file, deletion>>
    /\ SaveUnchanged

SaveEnds ==
    /\ Saved("timer")
    /\ FileWritten("timer") \/ file' = file  \* the write may fail
    /\ UNCHANGED deletion
    /\ SaveUnchanged

-----------------------------------------------------------------------------
(* adminAPI.deleteClub                                                     *)

Deleting(step) == deletion.step = step
Proceed(step) == deletion' = [deletion EXCEPT !.step = step]
Fails(step) == deletion' = [deletion EXCEPT !.step = step, !.failed = TRUE]

AtWork(n, c) == conn[n].op # "none" /\ conn[n].club = c
Creating(n, c) == conn[n].op = "create" /\ conn[n].club = c

\* The group is taken out of relay29; what is under way about it comes late, its
\* own creation too.  Any id is accepted: a club's that is there, what is left of
\* one, or one that is being created.
Evict ==
    /\ Deleting("idle") /\ events < MaxEvents /\ events' = events + 1
    /\ \E c \in Ids :
        /\ creator[c] # Nobody
        /\ groups' = groups \ {c}
        /\ deletion' = [club |-> c, step |-> "social", failed |-> FALSE,
                        alone |-> \A n \in Conns : ~AtWork(n, c)]
        /\ deleted' = deleted \ {c}
        /\ late' = IF \E n \in Conns : AtWork(n, c) THEN late \cup {c} ELSE late
        /\ early' = IF \E n \in Conns : Creating(n, c) /\ conn[n].step # "cap"
                    THEN early \cup {c} ELSE early \ {c}
    /\ UNCHANGED <<creator, runtimeVars, capVars, rowVars, sqVars, fileVars, conn, tick,
                   forgotten, raced, restarts>>

\* onDeleteClub: socialGuard.deleteClub and the locked part of
\* listenerStats.deleteClub.
ForgetPeople ==
    /\ Deleting("social")
    /\ members' = [members EXCEPT ![deletion.club] = {}]
    /\ retained' = retained \ {deletion.club}
    /\ Proceed("save")
    /\ UNCHANGED <<creator, groups, stageIdx, playing, ownerMem, capVars, rowVars, sqVars,
                   file, saver, conn, tick, historyVars>>

\* The history without the club is saved; a failure is reported in the end.
ForgetSaveBegins ==
    /\ Deleting("save")
    /\ Marshal("admin")
    /\ Proceed("saving")
    /\ UNCHANGED file
    /\ SaveUnchanged

ForgetSaveEnds ==
    /\ Deleting("saving")
    /\ Saved("admin")
    /\ \/ FileWritten("admin") /\ Proceed("conductor")
       \/ file' = file /\ Fails("conductor")
    /\ SaveUnchanged

\* Mutant: the tick is not waited for.
StopAnyTime == TRUE
\* c.mu is free.
ConductorFree == tick.step \in {"idle", "ready"}

\* conductor.deleteClub: the memory, with c.mu held ...
ForgetPlayback ==
    /\ Deleting("conductor")
    /\ ConductorFree
    /\ playing' = playing \ {deletion.club}
    /\ stageIdx' = stageIdx \ {deletion.club}
    /\ ownerMem' = ownerMem \ {deletion.club}
    /\ Proceed("sqlite")
    /\ UNCHANGED <<creator, groups, members, capVars, rowVars, sqVars, fileVars, conn, tick,
                   historyVars>>

\* ... and, after it, sqDeleteClub: one transaction.
ForgetRows ==
    /\ Deleting("sqlite")
    /\ \/ /\ sqState' = sqState \ {deletion.club}
          /\ sqOwner' = sqOwner \ {deletion.club}
          /\ Proceed("purge")
       \/ UNCHANGED sqVars /\ Fails("purge")
    /\ UNCHANGED <<creator, groups, runtimeVars, capVars, rowVars, fileVars, conn, tick,
                   historyVars>>

\* purgeFilter, until a pass finds nothing.
Purge ==
    /\ Deleting("purge")
    /\ creates' = creates \ {deletion.club}
    /\ stageRows' = stageRows \ {deletion.club}
    /\ npRows' = npRows \ {deletion.club}
    /\ countRow' = [countRow EXCEPT ![deletion.club] = NoRow]
    /\ Proceed("cap")
    /\ UNCHANGED <<creator, groups, runtimeVars, capVars, sqVars, fileVars, conn, tick,
                   historyVars>>

\* It fails half way: the create event may be gone or not.
PurgeFails ==
    /\ Deleting("purge")
    /\ creates' \in {creates, creates \ {deletion.club}}
    /\ npRows' \in {npRows, npRows \ {deletion.club}}
    /\ deletion' = NoDeletion
    /\ late' = late \cup {deletion.club}
    /\ UNCHANGED <<creator, groups, runtimeVars, capVars, stageRows, countRow, sqVars,
                   fileVars, conn, tick, deleted, markVars, events, restarts>>

\* What one query returns of the stored create events: the newest, up to the
\* limit; of one second, any.
Queried(S) ==
    IF Cardinality(S) <= QueryLimit THEN {S}
    ELSE { R \in SUBSET S : /\ Cardinality(R) = QueryLimit
                            /\ \A c \in R, d \in S \ R : CreatedAt[c] >= CreatedAt[d] }

\* clubCap.reload: from its one query to the swap under its lock.
ReloadBegins ==
    /\ Deleting("cap")
    /\ ~reload.busy
    /\ \E rows \in Queried(creates) : reload' = [busy |-> TRUE, rows |-> rows]
    /\ Proceed("capped")
    /\ UNCHANGED <<creator, groups, runtimeVars, created, counted, rowVars, sqVars, fileVars,
                   conn, tick, historyVars>>

OwnedOf(clubs) == [a \in Accounts |-> Cardinality({ c \in clubs : creator[c] = a })]

\* The administrator is told.
ReloadEnds ==
    /\ Deleting("capped")
    /\ created' = reload.rows
    /\ counted' = OwnedOf(reload.rows)
    /\ reload' = NoReload
    /\ deletion' = NoDeletion
    /\ deleted' = IF deletion.failed THEN deleted ELSE deleted \cup {deletion.club}
    /\ late' = IF deletion.alone THEN late \ {deletion.club} ELSE late
    /\ forgotten' = forgotten \cup
         { c \in creates \ reload.rows : \A n \in Conns : ~Creating(n, c) }
    /\ UNCHANGED <<creator, groups, runtimeVars, rowVars, sqVars, fileVars, conn, tick,
                   early, raced, events, restarts>>

\* The query fails: the cap stays as it was.
ReloadFails ==
    /\ Deleting("capped")
    /\ reload' = NoReload
    /\ deletion' = NoDeletion
    /\ late' = late \cup {deletion.club}
    /\ UNCHANGED <<creator, groups, runtimeVars, created, counted, rowVars, sqVars, fileVars,
                   conn, tick, deleted, markVars, events, restarts>>

-----------------------------------------------------------------------------
\* The process ends and starts again: relay29 makes the groups of the stored
\* create events (and their members of the stored moderation events), the
\* indexes are warmed, the cap is counted from one query (warmCount), the member
\* counts are published.
Restart ==
    /\ restarts < MaxRestarts /\ restarts' = restarts + 1
    /\ groups' = creates
    /\ members' = [c \in Ids |-> IF c \in creates THEN members[c] \cup {creator[c]} ELSE {}]
    /\ countRow' = [c \in Ids |-> IF c \in creates THEN Cardinality(members'[c])
                                  ELSE countRow[c]]
    /\ stageIdx' = stageRows \cap creates
    /\ playing' = {} /\ ownerMem' = {}
    /\ created' \in Queried(creates) /\ counted' = OwnedOf(created') /\ reload' = NoReload
    /\ forgotten' = forgotten \cup (creates \ created')
    /\ raced' = {}
    /\ retained' = file
    /\ saver' = [s \in Savers |-> NoSave]
    /\ conn' = [n \in Conns |-> IdleConn]
    /\ tick' = NoTick /\ deletion' = NoDeletion
    /\ UNCHANGED <<creator, creates, stageRows, npRows, sqVars, file, deleted, late, early,
                   events>>

Handle(n) ==
    \/ CreateBegins(n) \/ CreateSaved(n) \/ CreateApplied(n) \/ CreateCounted(n)
    \/ MemberBegins(n) \/ MemberObserved(n) \/ CountPublishes(n) \/ CountWritten(n)
    \/ StageBegins(n) \/ StageSaved(n) \/ StageIndexed(n)
    \/ OwnerBegins(n) \/ OwnerKept(n) \/ OwnerCached(n)
    \/ BeatBegins(n) \/ BeatRecorded(n)
Drive == TickReads \/ TickLocks \/ TickPublishes \/ TickWrites \/ TickKeeps
SaveFile == SaveBegins \/ SaveEnds
Delete ==
    \/ Evict \/ ForgetPeople \/ ForgetSaveBegins \/ ForgetSaveEnds
    \/ ForgetPlayback \/ ForgetRows \/ Purge \/ PurgeFails
    \/ ReloadBegins \/ ReloadEnds \/ ReloadFails

Next == (\E n \in Conns : Handle(n)) \/ Drive \/ SaveFile \/ Delete \/ Restart

Spec == Init /\ [][Next]_vars

-----------------------------------------------------------------------------
TypeOK ==
    /\ creator \in [Ids -> Accounts \cup {Nobody}]
    /\ members \in [Ids -> SUBSET Accounts]
    /\ {groups, stageIdx, playing, ownerMem, created, creates, stageRows, npRows, sqState,
        sqOwner, retained, file, deleted, late, early, forgotten, raced} \subseteq SUBSET Ids
    /\ counted \in [Accounts -> 0 .. Cardinality(Ids) + Cardinality(Conns)]
    /\ countRow \in [Ids -> {NoRow} \cup 0 .. Cardinality(Accounts)]
    /\ saver \in [Savers -> [busy : BOOLEAN, clubs : SUBSET Ids]]
    /\ conn \in [Conns ->
         [op : {"none", "create", "put", "remove", "stage", "owner", "beat"}, club : Ids,
          by : Accounts \cup {Nobody},
          step : {"idle", "save", "apply", "cap", "observe", "publish", "write", "index",
                  "keep", "cache", "record"},
          count : 0 .. Cardinality(Accounts)]]
    /\ tick \in [club : Ids, step : {"idle", "ready", "locked", "write", "keep"}]
    /\ reload \in [busy : BOOLEAN, rows : SUBSET Ids]
    /\ deletion \in [club : Ids, failed : BOOLEAN, alone : BOOLEAN,
                     step : {"idle", "social", "save", "saving", "conductor", "sqlite",
                             "purge", "cap", "capped"}]
    /\ events \in 0 .. MaxEvents /\ restarts \in 0 .. MaxRestarts
    /\ saver["admin"].busy <=> deletion.step = "saving"
    /\ reload.busy <=> deletion.step = "capped"

\* Once the administrator is told that a club is deleted, the conductor has it
\* neither in memory nor in SQLite, and no now_playing of it is stored, now and
\* after a restart, although a tick was driving it when it was taken out.  A club
\* whose create event is saved but not applied when it is taken out gets its
\* group afterwards, and is one to drive.
PlaybackEndsWithTheClub ==
    (deleted \ early) \cap (playing \cup sqState \cup npRows) = {}

\* Nothing else that is modelled of the club is left either: in memory, in the
\* store, in the rows of SQLite and in the listener file, if no event about it
\* was under way when it was taken out.  A save that was under way does not bring
\* its history back, and a deletion that failed half way is made good by the next
\* one.  The credibility board, a JSON file of its own, is not among these: its
\* LastTrack and TrackPerformances keep a deleted club (credibility.go:54-55).
DeletionLeavesNothing ==
    \A c \in deleted \ late :
        /\ c \notin groups \cup stageIdx \cup ownerMem \cup created \cup retained
        /\ c \notin creates \cup stageRows \cup sqOwner \cup file
        /\ members[c] = {} /\ countRow[c] = NoRow

Quiet == \A n \in Conns : conn[n].op = "none"

\* With nothing under way, the cap has every stored create event but those that
\* the query of a reload or a restart left out: none is lost between the query
\* and the swap.  It counts none twice, once read and once observed, and none
\* that is gone.  While one query returns all there are, it is exact.
CapKnowsTheClubs ==
    Quiet /\ deletion.step = "idle" =>
        \A a \in Accounts :
            /\ counted[a] >= OwnedOf(creates \ forgotten)[a]
            /\ late = {} => counted[a] <= OwnedOf(creates)[a]
            /\ late = {} /\ Cardinality(creates) <= QueryLimit =>
                counted[a] = OwnedOf(creates)[a]

\* The cap lags the store by the creations under way and by what the queries left
\* out: without the latter, an account exceeds it by no more than one less than
\* there are connections.
OverdraftIsBounded ==
    \A a \in Accounts :
        OwnedOf(creates \ forgotten)[a] <= MaxClubs + Cardinality(Conns) - 1

\* A member change during which no count of the club is waiting to be published
\* leaves the right one in the end, whatever overlapped before it; of two that
\* overlap the older count may be the one that stays.
MemberCountIsCurrent ==
    Quiet /\ deletion.step = "idle" =>
        \A c \in groups \ (late \cup raced) : countRow[c] \in {NoRow, Cardinality(members[c])}

\* What the code does not keep (counterexamples): the cap itself, which a reload
\* or a restart reads from one query, ...
AtMostThreeClubs == \A a \in Accounts : OwnedOf(creates)[a] <= MaxClubs
\* ... that every member count is right in the end, ...
EveryCountIsCurrent ==
    Quiet /\ deletion.step = "idle" =>
        \A c \in groups \ late : countRow[c] \in {NoRow, Cardinality(members[c])}
\* ... that the purge is the last thing that happens to a club, ...
PurgeIsFinal ==
    \A c \in deleted : c \notin retained \cup sqOwner \cup stageRows /\ countRow[c] = NoRow
\* ... and that every club has its count published.
NewClubIsCounted ==
    Quiet /\ deletion.step = "idle" => \A c \in groups : countRow[c] # NoRow
=============================================================================
