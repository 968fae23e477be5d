------------------------------ MODULE ClubsProofs ------------------------------
(***************************************************************************)
(* The properties of Clubs for any clubs, accounts, connections and cap.   *)
(*                                                                         *)
(* None of them is inductive: each speaks of what a deletion has done when *)
(* it is over, and the invariants say what each step of it has done so far *)
(* and that nobody undoes it.                                              *)
(***************************************************************************)
EXTENDS Clubs, FiniteSetTheorems, TLAPS

\* The values of the variables, with names to keep the provers' work small.
ClubSets ==
    /\ groups \subseteq Ids /\ stageIdx \subseteq Ids /\ playing \subseteq Ids
    /\ ownerMem \subseteq Ids /\ created \subseteq Ids /\ creates \subseteq Ids
    /\ stageRows \subseteq Ids /\ npRows \subseteq Ids /\ sqState \subseteq Ids
    /\ sqOwner \subseteq Ids /\ retained \subseteq Ids /\ file \subseteq Ids
    /\ deleted \subseteq Ids /\ late \subseteq Ids /\ early \subseteq Ids
    /\ forgotten \subseteq Ids /\ raced \subseteq Ids

Handlings ==
    [op : {"none", "create", "put", "remove", "stage", "owner", "beat"}, club : Ids,
     by : Accounts \cup {Nobody},
     step : {"idle", "save", "apply", "cap", "observe", "publish", "write", "index",
             "keep", "cache", "record"},
     count : 0 .. Cardinality(Accounts)]

Saves == [busy : BOOLEAN, clubs : SUBSET Ids]

Deletions ==
    [club : Ids, failed : BOOLEAN, alone : BOOLEAN,
     step : {"idle", "social", "save", "saving", "conductor", "sqlite", "purge", "cap",
             "capped"}]

Types ==
    /\ ClubSets
    /\ creator \in [Ids -> Accounts \cup {Nobody}]
    /\ members \in [Ids -> SUBSET Accounts]
    /\ countRow \in [Ids -> {NoRow} \cup 0 .. Cardinality(Accounts)]
    /\ conn \in [Conns -> Handlings]
    /\ tick \in [club : Ids, step : {"idle", "ready", "locked", "write", "keep"}]
    /\ saver \in [Savers -> Saves]
    /\ reload \in [busy : BOOLEAN, rows : SUBSET Ids]
    /\ deletion \in Deletions
    /\ events \in 0 .. MaxEvents /\ restarts \in 0 .. MaxRestarts

\* The locks: the deletion holds what it needs, and no two save the file at once.
Locks ==
    /\ saver["admin"].busy <=> deletion.step = "saving"
    /\ reload.busy <=> deletion.step = "capped"
    /\ saver["timer"].busy => ~saver["admin"].busy

\* The steps of a deletion that come after its first ones.
FromSave == {"save", "saving", "conductor", "sqlite", "purge", "cap", "capped"}
FromSaving == FromSave \ {"save"}
FromConductor == FromSaving \ {"saving"}
FromSQLite == {"sqlite", "purge", "cap", "capped"}
FromPurge == {"purge", "cap", "capped"}
FromCap == {"cap", "capped"}

\* Clubs that were taken out by a deletion that goes on or is done.
Out(c) == c \in deleted \/ (deletion.step # "idle" /\ c = deletion.club)

\* An id is drawn once and has nothing to do with anybody before its creation is
\* observed; a club has its create event while it has its group; and what was
\* taken out does not come back, unless it was still to come.
Life ==
    /\ groups \subseteq creates \cup early
    /\ \A c \in creates \cup created \cup reload.rows \cup groups : creator[c] # Nobody
    /\ reload.busy => reload.rows \subseteq creates
    /\ \A n \in Conns :
        /\ conn[n].step \in {"observe", "publish", "write"} <=> conn[n].op \in {"put", "remove"}
        /\ conn[n].op # "none" => creator[conn[n].club] # Nobody
        /\ conn[n].op \in {"create", "put", "remove"} => conn[n].by \in Accounts
        /\ conn[n].op = "create" =>
            /\ conn[n].step \in {"save", "apply", "cap"}
            /\ creator[conn[n].club] = conn[n].by
            /\ conn[n].step = "save" => conn[n].club \notin creates
            /\ conn[n].step = "apply" => conn[n].club \in creates \cup early
            /\ conn[n].step \in {"save", "apply"} =>
                /\ conn[n].club \notin groups
                /\ \A m \in Conns : AtWork(m, conn[n].club) => m = n
    /\ early \subseteq late
    /\ deletion.step # "idle" => deletion.club \notin deleted
    /\ deletion.step # "idle" /\ deletion.alone => deletion.club \notin early
    /\ \A c \in Ids : Out(c) => creator[c] # Nobody
    /\ \A c \in Ids : Out(c) /\ c \notin early =>
        /\ c \notin groups
        /\ \A n \in Conns : Creating(n, c) => conn[n].step = "cap"
        /\ c \in deleted \/ deletion.step \in FromCap => c \notin creates

\* What is under way about a club that was taken out came late.
Silence ==
    /\ \A c \in deleted \ late : \A n \in Conns : ~AtWork(n, c)
    /\ deletion.step # "idle" =>
        IF deletion.alone THEN \A n \in Conns : ~AtWork(n, deletion.club)
        ELSE deletion.club \in late
    /\ \A n \in Conns :
        conn[n].op = "create" /\ conn[n].step = "cap" => conn[n].club \in creates \cup late

\* The conductor no longer drives it.
Undriven(c) == tick.club = c => tick.step \in {"idle", "ready"}

Playback ==
    /\ \A c \in deleted \ early : c \notin playing \cup sqState \cup npRows /\ Undriven(c)
    /\ deletion.club \notin early =>
        /\ deletion.step \in FromSQLite =>
            deletion.club \notin playing /\ Undriven(deletion.club)
        /\ deletion.step \in FromPurge => deletion.failed \/ deletion.club \notin sqState
        /\ deletion.step \in FromCap => deletion.club \notin npRows

\* No save that is under way has the club, nor does the file.
Unsaved(c) == \A s \in Savers : saver[s].busy => c \notin saver[s].clubs

Nothing ==
    /\ \A c \in deleted \ late :
        /\ c \notin stageIdx \cup ownerMem \cup created \cup retained \cup stageRows
        /\ c \notin sqOwner \cup file
        /\ members[c] = {} /\ countRow[c] = NoRow
        /\ Unsaved(c)
    /\ deletion.alone =>
        /\ deletion.step \in FromSave =>
            members[deletion.club] = {} /\ deletion.club \notin retained
        /\ deletion.step \in FromSaving => Unsaved(deletion.club)
        /\ deletion.step \in FromConductor => deletion.failed \/ deletion.club \notin file
        /\ deletion.step \in FromSQLite => deletion.club \notin stageIdx \cup ownerMem
        /\ deletion.step \in FromPurge => deletion.failed \/ deletion.club \notin sqOwner
        /\ deletion.step \in FromCap =>
            deletion.club \notin stageRows /\ countRow[deletion.club] = NoRow

\* The cap counts the create events it knows; it knows those that are stored, but
\* for creations that will still be counted and what a query left out; and when
\* one query returns them all, the reload after the purge leaves none out.
Counting(c) == \E n \in Conns : Creating(n, c) /\ conn[n].step \in {"apply", "cap"}

CapCounts == counted = OwnedOf(created)

OneQuery == late = {} /\ Cardinality(creates) <= QueryLimit

CapKnows ==
    /\ \A c \in creates \ forgotten : c \in created \/ Counting(c)
    /\ OneQuery /\ deletion.step \notin FromCap =>
        \A c \in creates : c \in created \/ Counting(c)
    /\ Cardinality(creates) <= QueryLimit /\ deletion.step = "capped" =>
        \A c \in creates : c \in reload.rows \/ Counting(c)
    /\ \A c \in created \ creates :
        c \in late \/ (c = deletion.club /\ deletion.step # "idle")

\* The clubs of an account that no query left out, those being saved included.
Claimed(a) ==
    { c \in Ids :
        /\ creator[c] = a
        /\ c \in creates \ forgotten \/ \E n \in Conns : Creating(n, c) /\ conn[n].step = "save" }

Overdraft == \A a \in Accounts : Cardinality(Claimed(a)) <= MaxClubs + Cardinality(Conns) - 1

\* A change of the members that met no other is counted already, or will be by who
\* observed it, and by nobody else.
Counts ==
    /\ \A c \in Ids : creator[c] = Nobody => countRow[c] = NoRow
    /\ \A n \in Conns : conn[n].op = "create" /\ conn[n].step \in {"save", "apply"} =>
        countRow[conn[n].club] = NoRow
    /\ \A c \in groups \ (late \cup raced) :
        /\ \A m, n \in Conns : Counted(m, c) /\ Counted(n, c) => m = n
        /\ \A n \in Conns : Counted(n, c) => conn[n].count = Cardinality(members[c])
        /\ (\A n \in Conns : ~Counted(n, c)) => countRow[c] \in {NoRow, Cardinality(members[c])}

-----------------------------------------------------------------------------
\* What is assumed of the constants, and that the sets are finite.
LEMMA ConstantTypes ==
    /\ First \in Ids /\ Founder \in Accounts /\ Nobody \notin Accounts
    /\ MaxClubs \in Nat /\ MaxClubs > 0 /\ MaxEvents \in Nat /\ MaxRestarts \in Nat
    /\ IsFiniteSet(Ids) /\ IsFiniteSet(Accounts) /\ IsFiniteSet(Conns)
    /\ Cardinality(Ids) \in Nat /\ Cardinality(Accounts) \in Nat
    /\ Cardinality(Conns) \in Nat
BY ClubsAssumption, FS_CardinalityType DEF ClubsAssumption

\* A member count is one of those that are published.
LEMMA MembersCount ==
    ASSUME NEW S \in SUBSET Accounts
    PROVE  Cardinality(S) \in 0 .. Cardinality(Accounts)
<1>1. IsFiniteSet(S) /\ Cardinality(S) <= Cardinality(Accounts)
    BY ConstantTypes, FS_Subset
<1>2. Cardinality(S) \in Nat
    BY <1>1, FS_CardinalityType
<1>. QED
    BY <1>1, <1>2, ConstantTypes

\* One query returns stored create events, and all of them if they are few.
LEMMA QueriedRows ==
    ASSUME NEW S, NEW R \in Queried(S)
    PROVE  R \subseteq S /\ (Cardinality(S) <= QueryLimit => R = S)
BY DEF Queried

LEMMA TypesInit == Init => Types /\ Locks
<1>1. 1 \in 0 .. Cardinality(Accounts)
    <2>1. Cardinality({Founder}) = 1
        BY FS_Singleton
    <2>. QED
        BY <2>1, MembersCount, ConstantTypes
<1>. QED
    BY <1>1, ConstantTypes DEF Init, Types, Locks, ClubSets, Handlings, Saves, Deletions,
        IdleConn, NoTick, NoDeletion, NoReload, NoSave, NoRow, Savers

LEMMA TypesHandle ==
    ASSUME Types, Life, NEW n \in Conns, Handle(n)
    PROVE  Types'
<1>. USE ConstantTypes DEF Types, ClubSets, Handlings, runtimeVars, capVars, rowVars, sqVars,
        fileVars, historyVars, markVars, Begin, At, To, Ends, IdleConn
<1>1. CASE CreateBegins(n)
    BY <1>1 DEF CreateBegins
<1>2. CASE CreateSaved(n)
    BY <1>2 DEF CreateSaved
<1>3. CASE CreateApplied(n)
    <2>1. conn[n].by \in Accounts /\ conn[n].club \in Ids
        BY <1>3 DEF CreateApplied, Life
    <2>. QED
        BY <1>3, <2>1 DEF CreateApplied
<1>4. CASE CreateCounted(n)
    BY <1>4 DEF CreateCounted, CountOnce
<1>5. CASE MemberBegins(n)
    BY <1>5 DEF MemberBegins
<1>6. CASE CountPublishes(n)
    BY <1>6 DEF CountPublishes
<1>7. CASE CountWritten(n)
    BY <1>7 DEF CountWritten
<1>8. CASE StageBegins(n)
    BY <1>8 DEF StageBegins
<1>9. CASE StageSaved(n)
    BY <1>9 DEF StageSaved
<1>10. CASE StageIndexed(n)
    BY <1>10 DEF StageIndexed
<1>11. CASE OwnerBegins(n)
    BY <1>11 DEF OwnerBegins
<1>12. CASE OwnerKept(n)
    BY <1>12 DEF OwnerKept
<1>13. CASE OwnerCached(n)
    BY <1>13 DEF OwnerCached
<1>14. CASE BeatBegins(n)
    BY <1>14 DEF BeatBegins
<1>15. CASE BeatRecorded(n)
    BY <1>15 DEF BeatRecorded
<1>16. CASE MemberObserved(n)
    <2>. DEFINE c == conn[n].club
                now == IF conn[n].op = "put" THEN members[c] \cup {conn[n].by}
                       ELSE members[c] \ {conn[n].by}
    <2>1. now \in SUBSET Accounts /\ c \in Ids
        BY <1>16 DEF MemberObserved, Life
    <2>2. Cardinality(now) \in 0 .. Cardinality(Accounts)
        BY <2>1, MembersCount
    <2>3. members' = [members EXCEPT ![c] = now]
        BY <1>16 DEF MemberObserved
    <2>4. \/ conn' = [conn EXCEPT ![n] = [conn[n] EXCEPT !.step = "publish",
                                                       !.count = Cardinality(now)]]
          \/ conn' = [conn EXCEPT ![n] = IdleConn]
        BY <1>16 DEF MemberObserved
    <2>. HIDE DEF c, now
    <2>5. conn' \in [Conns -> Handlings]
        <3>1. ASSUME NEW w \in Handlings, conn' = [conn EXCEPT ![n] = w]
              PROVE  conn' \in [Conns -> Handlings]
            BY <3>1
        <3>2. IdleConn \in Handlings
            OBVIOUS
        <3>3. [conn[n] EXCEPT !.step = "publish", !.count = Cardinality(now)] \in Handlings
            <4>1. conn[n] \in Handlings
                OBVIOUS
            <4>. QED
                BY <2>2, <4>1
        <3>. QED
            BY <2>4, <3>1, <3>2, <3>3, Zenon
    <2>6. members' \in [Ids -> SUBSET Accounts]
        BY <2>1, <2>3
    <2>. QED
        BY <1>16, <2>5, <2>6 DEF MemberObserved
<1>. QED
    BY <1>1, <1>2, <1>3, <1>4, <1>5, <1>6, <1>7, <1>8, <1>9, <1>10, <1>11, <1>12, <1>13,
        <1>14, <1>15, <1>16 DEF Handle

LEMMA TypesOthers ==
    ASSUME Types, Life, Drive \/ SaveFile \/ Delete \/ Restart
    PROVE  Types'
<1>. USE ConstantTypes DEF Types, ClubSets, Saves, Deletions, runtimeVars, capVars, rowVars,
        sqVars, fileVars, historyVars, markVars
<1>1. CASE TickReads
    BY <1>1 DEF TickReads, TickUnchanged
<1>2. CASE TickLocks
    BY <1>2 DEF TickLocks, TickUnchanged, NoTick
<1>3. CASE TickPublishes
    BY <1>3 DEF TickPublishes, TickUnchanged
<1>4. CASE TickWrites
    BY <1>4 DEF TickWrites, TickUnchanged
<1>5. CASE TickKeeps
    BY <1>5 DEF TickKeeps, TickUnchanged, NoTick
<1>6. CASE SaveBegins
    BY <1>6 DEF SaveBegins, Marshal, SaveUnchanged, Savers
<1>7. CASE SaveEnds
    BY <1>7 DEF SaveEnds, Saved, NoSave, FileWritten, SaveUnchanged, Savers
<1>8. CASE Evict
    BY <1>8 DEF Evict, Deleting
<1>9. CASE ForgetPeople
    BY <1>9 DEF ForgetPeople, Deleting, Proceed
<1>10. CASE ForgetSaveBegins
    BY <1>10 DEF ForgetSaveBegins, Deleting, Proceed, Marshal, SaveUnchanged, Savers
<1>11. CASE ForgetSaveEnds
    BY <1>11 DEF ForgetSaveEnds, Deleting, Proceed, Fails, Saved, NoSave, FileWritten,
        SaveUnchanged, Savers
<1>12. CASE ForgetPlayback
    BY <1>12 DEF ForgetPlayback, Deleting, Proceed
<1>13. CASE ForgetRows
    BY <1>13 DEF ForgetRows, Deleting, Proceed, Fails
<1>14. CASE Purge
    BY <1>14 DEF Purge, Deleting, Proceed, NoRow
<1>15. CASE PurgeFails
    BY <1>15 DEF PurgeFails, Deleting, NoDeletion
<1>16. CASE ReloadBegins
    BY <1>16, QueriedRows DEF ReloadBegins, Deleting, Proceed
<1>17. CASE ReloadEnds
    BY <1>17 DEF ReloadEnds, Deleting, NoDeletion, NoReload
<1>18. CASE ReloadFails
    BY <1>18 DEF ReloadFails, Deleting, NoDeletion, NoReload
<1>19. CASE Restart
    <2>1. members' \in [Ids -> SUBSET Accounts]
        BY <1>19 DEF Restart, Life
    <2>2. \A c \in Ids : Cardinality(members'[c]) \in 0 .. Cardinality(Accounts)
        BY <2>1, MembersCount
    <2>3. countRow' \in [Ids -> {NoRow} \cup 0 .. Cardinality(Accounts)]
        BY <1>19, <2>2 DEF Restart
    <2>4. conn' \in [Conns -> Handlings] /\ saver' \in [Savers -> Saves]
        BY <1>19 DEF Restart, IdleConn, Handlings, NoSave
    <2>. QED
        BY <1>19, <2>1, <2>3, <2>4, QueriedRows DEF Restart, NoTick, NoDeletion, NoReload
<1>. QED
    BY <1>1, <1>2, <1>3, <1>4, <1>5, <1>6, <1>7, <1>8, <1>9, <1>10, <1>11, <1>12, <1>13,
        <1>14, <1>15, <1>16, <1>17, <1>18, <1>19 DEF Drive, SaveFile, Delete

\* persistMu and the cap's lock: a save and a reload are under way when their steps say so.
LEMMA LocksKept ==
    ASSUME Types, Locks, [Next]_vars
    PROVE  Locks'
<1>. USE DEF Locks, Savers, Saves
<1>1. CASE UNCHANGED vars
    BY <1>1 DEF vars, fileVars, capVars
<1>2. ASSUME NEW n \in Conns, Handle(n)
      PROVE  UNCHANGED <<saver, reload, deletion>>
    BY <1>2 DEF Handle, CreateBegins, CreateSaved, CreateApplied, CreateCounted,
        MemberBegins,
        MemberObserved, CountPublishes, CountWritten, StageBegins, StageSaved, StageIndexed,
        OwnerBegins, OwnerKept, OwnerCached, BeatBegins, BeatRecorded, capVars, fileVars
<1>3. CASE Drive
    BY <1>3 DEF Drive, TickReads, TickLocks, TickPublishes, TickWrites, TickKeeps,
        TickUnchanged, capVars, fileVars
<1>4. CASE SaveFile
    BY <1>4 DEF SaveFile, SaveBegins, SaveEnds, Marshal, Saved, SaveUnchanged, Types,
        NoSave,
        capVars
<1>5. CASE ForgetSaveBegins
    BY <1>5 DEF ForgetSaveBegins, Marshal, SaveUnchanged, Types, Deleting, Proceed,
        Deletions,
        capVars
<1>6. CASE ForgetSaveEnds
    <2>1. deletion'.step = "conductor" /\ deletion.step = "saving" /\ reload' = reload
        BY <1>6 DEF ForgetSaveEnds, Deleting, Proceed, Fails, Types, Deletions,
            SaveUnchanged,
            capVars
    <2>2. ~saver'["admin"].busy
        BY <1>6 DEF ForgetSaveEnds, Saved, NoSave, Types
    <2>. QED
        BY <2>1, <2>2
<1>7. CASE Evict \/ ForgetPeople \/ ForgetPlayback \/ ForgetRows \/ Purge \/ PurgeFails
    <2>1. UNCHANGED <<saver, reload>>
        BY <1>7 DEF Evict, ForgetPeople, ForgetPlayback, ForgetRows, Purge, PurgeFails,
            capVars,
            fileVars
    <2>2. {deletion.step, deletion'.step} \cap {"saving", "capped"} = {}
        BY <1>7 DEF Evict, ForgetPeople, ForgetPlayback, ForgetRows, Purge, PurgeFails,
            Deleting, Proceed, Fails, Types, Deletions, NoDeletion
    <2>. QED
        BY <2>1, <2>2
<1>8. CASE ReloadBegins \/ ReloadEnds \/ ReloadFails
    BY <1>8 DEF ReloadBegins, ReloadEnds, ReloadFails, Deleting, Proceed, Types, Deletions,
        NoDeletion, NoReload, fileVars
<1>9. CASE Restart
    BY <1>9 DEF Restart, NoSave, NoReload, NoDeletion
<1>. QED
    BY <1>1, <1>2, <1>3, <1>4, <1>5, <1>6, <1>7, <1>8, <1>9 DEF Next, Delete
-----------------------------------------------------------------------------
(* What the groups of actions leave alone.                                 *)

\* What the handlers of events, the tick and the saver leave alone.
LEMMA HandleLeaves ==
    ASSUME NEW n \in Conns, Handle(n)
    PROVE  UNCHANGED <<saver, file, reload, deletion, tick, playing, npRows, sqState, deleted,
                       late, early, forgotten, restarts>>
BY DEF Handle, CreateBegins, CreateSaved, CreateApplied, CreateCounted, MemberBegins,
    MemberObserved, CountPublishes, CountWritten, StageBegins, StageSaved, StageIndexed,
    OwnerBegins, OwnerKept, OwnerCached, BeatBegins, BeatRecorded, runtimeVars, capVars,
    rowVars,
    sqVars, fileVars, historyVars, markVars

LEMMA DriveLeaves ==
    ASSUME Drive
    PROVE  UNCHANGED <<creator, groups, members, stageIdx, ownerMem, created, counted, reload,
                       creates, stageRows, countRow, sqOwner, retained, file, saver, conn,
                       deletion, deleted, late, early, forgotten, raced, events, restarts>>
BY DEF Drive, TickReads, TickLocks, TickPublishes, TickWrites, TickKeeps, TickUnchanged,
    capVars, fileVars, historyVars, markVars

LEMMA SaveLeaves ==
    ASSUME SaveFile
    PROVE  UNCHANGED <<creator, groups, members, stageIdx, playing, ownerMem, created, counted,
                       reload, creates, stageRows, npRows, countRow, sqState, sqOwner, retained,
                       conn, tick, deletion, deleted, late, early, forgotten, raced, events,
                       restarts>>
BY DEF SaveFile, SaveBegins, SaveEnds, SaveUnchanged, runtimeVars, capVars, rowVars, sqVars,
    historyVars, markVars

\* The deletion goes on with the same club, and remembers a failure.
LEMMA DeletionGoes ==
    ASSUME Types, NEW step \in {"conductor", "purge"}, Proceed(step) \/ Fails(step)
    PROVE  /\ deletion'.club = deletion.club /\ deletion'.step = step
           /\ deletion'.alone = deletion.alone
BY DEF Proceed, Fails, Types, Deletions

LEMMA DeletionFails ==
    ASSUME Types, NEW step \in {"conductor", "purge"}, Fails(step)
    PROVE  deletion'.failed
BY DEF Fails, Types, Deletions

-----------------------------------------------------------------------------
(* Life.                                                                   *)

LEMMA LifeInit == Init => Life
BY ConstantTypes DEF Init, Life, Out, Creating, AtWork, NoReload, IdleConn, NoDeletion

LEMMA LifeHandle ==
    ASSUME Types, Locks, Life, NEW n \in Conns, Handle(n)
    PROVE  Life'
<1>. USE ConstantTypes DEF Types, Handlings, ClubSets, Life, Out, Creating, AtWork, Begin,
        At, To, Ends, IdleConn, runtimeVars, capVars, rowVars, historyVars, markVars
<1>0. UNCHANGED <<reload, deletion, deleted, late, early, forgotten>>
    BY HandleLeaves
<1>1. CASE CreateBegins(n)
    BY <1>0, <1>1 DEF CreateBegins
<1>2. CASE CreateSaved(n)
    BY <1>0, <1>2 DEF CreateSaved
<1>3. CASE CreateApplied(n)
    BY <1>0, <1>3 DEF CreateApplied
<1>4. CASE CreateCounted(n)
    BY <1>0, <1>4 DEF CreateCounted, CountOnce
<1>5. CASE MemberBegins(n)
    BY <1>0, <1>5 DEF MemberBegins
<1>6. CASE MemberObserved(n)
    BY <1>0, <1>6 DEF MemberObserved
<1>7. CASE CountPublishes(n)
    <2>1. /\ conn[n].op \in {"put", "remove"} /\ UNCHANGED <<creator, groups, creates, created>>
        BY <1>7 DEF CountPublishes
    <2>2. CASE conn' = [conn EXCEPT ![n].step = "write"]
        BY <1>0, <2>1, <2>2
    <2>3. CASE conn' = [conn EXCEPT ![n] = IdleConn]
        BY <1>0, <2>1, <2>3
    <2>. QED
        BY <1>7, <2>2, <2>3 DEF CountPublishes
<1>8. CASE CountWritten(n)
    BY <1>0, <1>8 DEF CountWritten
<1>9. CASE StageBegins(n)
    BY <1>0, <1>9 DEF StageBegins
<1>10. CASE StageSaved(n)
    <2>1. /\ conn[n].op = "stage" /\ conn[n].step = "save"
          /\ UNCHANGED <<creator, groups, creates, created>>
        BY <1>10 DEF StageSaved
    <2>2. CASE conn' = [conn EXCEPT ![n].step = "index"]
        BY <1>0, <2>1, <2>2
    <2>3. CASE conn' = [conn EXCEPT ![n] = IdleConn]
        BY <1>0, <2>1, <2>3
    <2>. QED
        BY <1>10, <2>2, <2>3 DEF StageSaved
<1>11. CASE StageIndexed(n)
    BY <1>0, <1>11 DEF StageIndexed
<1>12. CASE OwnerBegins(n)
    BY <1>0, <1>12 DEF OwnerBegins
<1>13. CASE OwnerKept(n)
    BY <1>0, <1>13 DEF OwnerKept
<1>14. CASE OwnerCached(n)
    BY <1>0, <1>14 DEF OwnerCached
<1>15. CASE BeatBegins(n)
    BY <1>0, <1>15 DEF BeatBegins
<1>16. CASE BeatRecorded(n)
    BY <1>0, <1>16 DEF BeatRecorded
<1>. QED
    BY <1>1, <1>2, <1>3, <1>4, <1>5, <1>6, <1>7, <1>8, <1>9, <1>10, <1>11, <1>12, <1>13,
        <1>14, <1>15, <1>16 DEF Handle

LEMMA LifeDelete ==
    ASSUME Types, Locks, Life, Delete
    PROVE  Life'
<1>. USE ConstantTypes DEF Types, Locks, Deletions, ClubSets, Life, Out, Creating, AtWork,
        FromCap, runtimeVars, capVars, rowVars, sqVars, fileVars, historyVars, markVars
<1>1. CASE Evict
    BY <1>1 DEF Evict, Deleting
<1>2. CASE ForgetPeople
    BY <1>2 DEF ForgetPeople, Deleting, Proceed
<1>3. CASE ForgetSaveBegins
    BY <1>3 DEF ForgetSaveBegins, Deleting, Proceed, Marshal, SaveUnchanged
<1>4. CASE ForgetSaveEnds
    BY <1>4, DeletionGoes DEF ForgetSaveEnds, Deleting, SaveUnchanged
<1>5. CASE ForgetPlayback
    BY <1>5 DEF ForgetPlayback, Deleting, Proceed, ConductorFree
<1>6. CASE ForgetRows
    BY <1>6, DeletionGoes DEF ForgetRows, Deleting
<1>7. CASE Purge
    BY <1>7 DEF Purge, Deleting, Proceed
<1>8. CASE PurgeFails
    BY <1>8 DEF PurgeFails, Deleting, NoDeletion
<1>9. CASE ReloadBegins
    BY <1>9, QueriedRows DEF ReloadBegins, Deleting, Proceed
<1>10. CASE ReloadEnds
    BY <1>10 DEF ReloadEnds, Deleting, NoDeletion, NoReload
<1>11. CASE ReloadFails
    BY <1>11 DEF ReloadFails, Deleting, NoDeletion, NoReload
<1>. QED
    BY <1>1, <1>2, <1>3, <1>4, <1>5, <1>6, <1>7, <1>8, <1>9, <1>10, <1>11 DEF Delete

\* An id is drawn once: nothing brings back a group or a create event that was taken out.
LEMMA LifeKept ==
    ASSUME Types, Locks, Life, [Next]_vars
    PROVE  Life'
<1>1. CASE Restart
    BY <1>1, ConstantTypes, QueriedRows DEF Restart, Types, ClubSets, Life, Out, Creating,
        AtWork, NoReload, NoDeletion, IdleConn
<1>2. CASE Drive \/ SaveFile \/ UNCHANGED vars
    <2>1. UNCHANGED <<creator, groups, creates, created, reload, conn, deletion, deleted,
                      late, early>>
        BY <1>2, DriveLeaves, SaveLeaves DEF vars, runtimeVars, capVars, rowVars, sqVars,
            fileVars, historyVars, markVars
    <2>. QED
        BY <2>1 DEF Life, Out, Creating, AtWork
<1>. QED
    BY <1>1, <1>2, LifeHandle, LifeDelete DEF Next

-----------------------------------------------------------------------------
(* Silence.                                                                *)

LEMMA SilenceInit == Init => Silence
BY DEF Init, Silence, Out, AtWork, IdleConn, NoDeletion

LEMMA SilenceHandle ==
    ASSUME Types, Locks, Life, Silence, NEW n \in Conns, Handle(n)
    PROVE  Silence'
<1>. USE ConstantTypes DEF Types, Handlings, ClubSets, Life, Silence, Out, Creating, AtWork,
        Begin, At, To, Ends, IdleConn, runtimeVars, capVars, rowVars, historyVars, markVars
<1>0. UNCHANGED <<reload, deletion, deleted, late, early, forgotten>>
    BY HandleLeaves
<1>1. CASE CreateBegins(n)
    BY <1>0, <1>1 DEF CreateBegins
<1>2. CASE CreateSaved(n)
    BY <1>0, <1>2 DEF CreateSaved
<1>3. CASE CreateApplied(n)
    BY <1>0, <1>3 DEF CreateApplied
<1>4. CASE CreateCounted(n)
    BY <1>0, <1>4 DEF CreateCounted
<1>5. CASE MemberBegins(n)
    BY <1>0, <1>5 DEF MemberBegins
<1>6. CASE MemberObserved(n)
    BY <1>0, <1>6 DEF MemberObserved
<1>7. CASE CountPublishes(n)
    BY <1>0, <1>7 DEF CountPublishes
<1>8. CASE CountWritten(n)
    BY <1>0, <1>8 DEF CountWritten
<1>9. CASE StageBegins(n)
    BY <1>0, <1>9 DEF StageBegins
<1>10. CASE StageSaved(n)
    <2>1. /\ conn[n].op = "stage" /\ conn[n].step = "save"
          /\ UNCHANGED <<creator, groups, creates, created>>
        BY <1>10 DEF StageSaved
    <2>2. CASE conn' = [conn EXCEPT ![n].step = "index"]
        BY <1>0, <2>1, <2>2
    <2>3. CASE conn' = [conn EXCEPT ![n] = IdleConn]
        BY <1>0, <2>1, <2>3
    <2>. QED
        BY <1>10, <2>2, <2>3 DEF StageSaved
<1>11. CASE StageIndexed(n)
    BY <1>0, <1>11 DEF StageIndexed
<1>12. CASE OwnerBegins(n)
    BY <1>0, <1>12 DEF OwnerBegins
<1>13. CASE OwnerKept(n)
    BY <1>0, <1>13 DEF OwnerKept
<1>14. CASE OwnerCached(n)
    BY <1>0, <1>14 DEF OwnerCached
<1>15. CASE BeatBegins(n)
    BY <1>0, <1>15 DEF BeatBegins
<1>16. CASE BeatRecorded(n)
    BY <1>0, <1>16 DEF BeatRecorded
<1>. QED
    BY <1>1, <1>2, <1>3, <1>4, <1>5, <1>6, <1>7, <1>8, <1>9, <1>10, <1>11, <1>12, <1>13,
        <1>14, <1>15, <1>16 DEF Handle

LEMMA SilenceDelete ==
    ASSUME Types, Locks, Life, Silence, Delete
    PROVE  Silence'
<1>. USE ConstantTypes DEF Types, Deletions, ClubSets, Life, Silence, Out, Creating, AtWork,
        FromCap, runtimeVars, capVars, rowVars, sqVars, fileVars, historyVars, markVars
<1>1. CASE Evict
    BY <1>1 DEF Evict, Deleting
<1>2. CASE ForgetPeople
    BY <1>2 DEF ForgetPeople, Deleting, Proceed
<1>3. CASE ForgetSaveBegins
    BY <1>3 DEF ForgetSaveBegins, Deleting, Proceed, Marshal, SaveUnchanged
<1>4. CASE ForgetSaveEnds
    BY <1>4, DeletionGoes DEF ForgetSaveEnds, Deleting, SaveUnchanged
<1>5. CASE ForgetPlayback
    BY <1>5 DEF ForgetPlayback, Deleting, Proceed, ConductorFree
<1>6. CASE ForgetRows
    BY <1>6, DeletionGoes DEF ForgetRows, Deleting
<1>7. CASE Purge
    BY <1>7 DEF Purge, Deleting, Proceed
<1>8. CASE PurgeFails
    BY <1>8 DEF PurgeFails, Deleting, NoDeletion
<1>9. CASE ReloadBegins
    BY <1>9, QueriedRows DEF ReloadBegins, Deleting, Proceed
<1>10. CASE ReloadEnds
    BY <1>10 DEF ReloadEnds, Deleting, NoDeletion, NoReload
<1>11. CASE ReloadFails
    BY <1>11 DEF ReloadFails, Deleting, NoDeletion, NoReload
<1>. QED
    BY <1>1, <1>2, <1>3, <1>4, <1>5, <1>6, <1>7, <1>8, <1>9, <1>10, <1>11 DEF Delete

\* Every handler begins with a group: what is under way about a club that is out came late.
LEMMA SilenceKept ==
    ASSUME Types, Locks, Life, Silence, [Next]_vars
    PROVE  Silence'
<1>1. CASE Restart
    BY <1>1 DEF Restart, Silence, Out, AtWork, IdleConn, NoDeletion
<1>2. CASE Drive \/ SaveFile \/ UNCHANGED vars
    <2>1. UNCHANGED <<creates, conn, deletion, deleted, late>>
        BY <1>2, DriveLeaves, SaveLeaves DEF vars, runtimeVars, capVars, rowVars, sqVars,
            fileVars, historyVars, markVars
    <2>. QED
        BY <2>1 DEF Silence, Out, AtWork
<1>. QED
    BY <1>1, <1>2, SilenceHandle, SilenceDelete DEF Next

-----------------------------------------------------------------------------
(* Playback.                                                               *)

LEMMA PlaybackInit == Init => Playback
BY DEF Init, Playback, Undriven, NoTick, NoDeletion, FromSQLite, FromPurge, FromCap

LEMMA PlaybackDrive ==
    ASSUME Types, Locks, Life, Playback, Drive
    PROVE  Playback'
<1>. USE DEF Types, ClubSets, Deletions, Life, Out, Playback, Undriven, FromSQLite,
        FromPurge, FromCap
<1>0. UNCHANGED <<groups, deletion, deleted, late, early>>
    BY DriveLeaves
<1>1. CASE TickReads
    BY <1>0, <1>1 DEF TickReads
<1>2. CASE TickLocks
    BY <1>0, <1>2 DEF TickLocks, NoTick
<1>3. CASE TickPublishes
    BY <1>0, <1>3 DEF TickPublishes
<1>4. CASE TickWrites
    BY <1>0, <1>4 DEF TickWrites
<1>5. CASE TickKeeps
    BY <1>0, <1>5 DEF TickKeeps, NoTick
<1>. QED
    BY <1>1, <1>2, <1>3, <1>4, <1>5 DEF Drive

LEMMA PlaybackDelete ==
    ASSUME Types, Locks, Life, Playback, Delete
    PROVE  Playback'
<1>. USE ConstantTypes DEF Types, Deletions, ClubSets, Life, Out, Playback, Undriven,
        FromSQLite, FromPurge, FromCap, runtimeVars, capVars, rowVars, sqVars, fileVars,
        historyVars, markVars
<1>1. CASE Evict
    BY <1>1 DEF Evict, Deleting
<1>2. CASE ForgetPeople
    BY <1>2 DEF ForgetPeople, Deleting, Proceed
<1>3. CASE ForgetSaveBegins
    BY <1>3 DEF ForgetSaveBegins, Deleting, Proceed, Marshal, SaveUnchanged
<1>4. CASE ForgetSaveEnds
    BY <1>4, DeletionGoes DEF ForgetSaveEnds, Deleting, SaveUnchanged
<1>5. CASE ForgetPlayback
    BY <1>5 DEF ForgetPlayback, Deleting, Proceed, ConductorFree
<1>6. CASE ForgetRows
    <2>1. /\ deletion'.club = deletion.club /\ deletion'.step = "purge"
          /\ deletion.step = "sqlite" /\ UNCHANGED <<playing, npRows, tick, deleted, early>>
          /\ sqState' \subseteq sqState
        BY <1>6, DeletionGoes DEF ForgetRows, Deleting
    <2>2. deletion'.failed \/ deletion.club \notin sqState'
        BY <1>6, DeletionFails DEF ForgetRows
    <2>. QED
        BY <2>1, <2>2
<1>7. CASE Purge
    BY <1>7 DEF Purge, Deleting, Proceed
<1>8. CASE PurgeFails
    BY <1>8 DEF PurgeFails, Deleting, NoDeletion
<1>9. CASE ReloadBegins
    BY <1>9, QueriedRows DEF ReloadBegins, Deleting, Proceed
<1>10. CASE ReloadEnds
    BY <1>10 DEF ReloadEnds, Deleting, NoDeletion, NoReload
<1>11. CASE ReloadFails
    BY <1>11 DEF ReloadFails, Deleting, NoDeletion, NoReload
<1>. QED
    BY <1>1, <1>2, <1>3, <1>4, <1>5, <1>6, <1>7, <1>8, <1>9, <1>10, <1>11 DEF Delete

\* conductor.deleteClub waits for the tick, and TickLocks looks for the group again.
LEMMA PlaybackKept ==
    ASSUME Types, Locks, Life, Playback, [Next]_vars
    PROVE  Playback'
<1>1. CASE Restart
    BY <1>1 DEF Restart, Playback, Undriven, NoTick, NoDeletion, FromSQLite, FromPurge,
        FromCap,
        sqVars
<1>2. CASE (\E n \in Conns : Handle(n)) \/ SaveFile \/ UNCHANGED vars
    <2>1. UNCHANGED <<playing, npRows, sqState, tick, deletion, deleted, early>>
        BY <1>2, HandleLeaves, SaveLeaves DEF vars, runtimeVars, capVars, rowVars,
            sqVars, fileVars, historyVars, markVars
    <2>. QED
        BY <2>1 DEF Playback, Undriven
<1>. QED
    BY <1>1, <1>2, PlaybackDrive, PlaybackDelete DEF Next

-----------------------------------------------------------------------------
(* Nothing.                                                                *)

LEMMA NothingInit == Init => Nothing
BY DEF Init, Nothing, NoDeletion, FromSave, FromSaving, FromConductor, FromSQLite,
    FromPurge, FromCap

LEMMA NothingHandle ==
    ASSUME Types, Locks, Life, Silence, Nothing, NEW n \in Conns, Handle(n)
    PROVE  Nothing'
<1>. USE DEF Types, Handlings, ClubSets, Life, Silence, Nothing, Unsaved, Out, AtWork,
        Begin, At, To,
        Ends, IdleConn, runtimeVars, capVars, rowVars, sqVars, fileVars, historyVars, markVars,
        FromSave, FromSaving, FromConductor, FromSQLite, FromPurge, FromCap
<1>0. UNCHANGED <<file, saver, deletion, deleted, late, early, forgotten>>
    BY HandleLeaves
<1>1. CASE CreateBegins(n)
    BY <1>0, <1>1 DEF CreateBegins
<1>2. CASE CreateSaved(n)
    BY <1>0, <1>2 DEF CreateSaved
<1>3. CASE CreateApplied(n)
    BY <1>0, <1>3 DEF CreateApplied
<1>4. CASE CreateCounted(n)
    BY <1>0, <1>4 DEF CreateCounted, CountOnce
<1>5. CASE MemberBegins(n)
    BY <1>0, <1>5 DEF MemberBegins
<1>6. CASE MemberObserved(n)
    BY <1>0, <1>6 DEF MemberObserved
<1>7. CASE CountPublishes(n)
    BY <1>0, <1>7 DEF CountPublishes
<1>8. CASE CountWritten(n)
    BY <1>0, <1>8 DEF CountWritten
<1>9. CASE StageBegins(n)
    BY <1>0, <1>9 DEF StageBegins
<1>10. CASE StageSaved(n)
    BY <1>0, <1>10 DEF StageSaved
<1>11. CASE StageIndexed(n)
    BY <1>0, <1>11 DEF StageIndexed
<1>12. CASE OwnerBegins(n)
    BY <1>0, <1>12 DEF OwnerBegins
<1>13. CASE OwnerKept(n)
    BY <1>0, <1>13 DEF OwnerKept
<1>14. CASE OwnerCached(n)
    BY <1>0, <1>14 DEF OwnerCached
<1>15. CASE BeatBegins(n)
    BY <1>0, <1>15 DEF BeatBegins
<1>16. CASE BeatRecorded(n)
    BY <1>0, <1>16 DEF BeatRecorded
<1>. QED
    BY <1>1, <1>2, <1>3, <1>4, <1>5, <1>6, <1>7, <1>8, <1>9, <1>10, <1>11, <1>12, <1>13,
        <1>14, <1>15, <1>16 DEF Handle

LEMMA NothingSave ==
    ASSUME Types, Locks, Life, Silence, Nothing, SaveFile
    PROVE  Nothing'
<1>. USE DEF Types, Saves, Savers, Locks, ClubSets, Nothing, Unsaved, NoSave, FromSave,
        FromSaving, FromConductor, FromSQLite, FromPurge, FromCap
<1>0. UNCHANGED <<members, stageIdx, ownerMem, created, stageRows, countRow, sqOwner, retained,
                  deletion, deleted, late>>
    BY SaveLeaves
<1>1. CASE SaveBegins
    BY <1>0, <1>1 DEF SaveBegins, Marshal
<1>2. CASE SaveEnds
    BY <1>0, <1>2 DEF SaveEnds, Saved, FileWritten
<1>. QED
    BY <1>1, <1>2 DEF SaveFile

LEMMA NothingDelete ==
    ASSUME Types, Locks, Life, Silence, Nothing, Delete
    PROVE  Nothing'
<1>. USE ConstantTypes DEF Types, Deletions, Saves, Savers, Locks, ClubSets, Life, Out,
        Nothing, Unsaved, FromSave, FromSaving, FromConductor, FromSQLite, FromPurge,
        FromCap, runtimeVars, capVars, rowVars, sqVars, fileVars, historyVars, markVars
<1>1. CASE Evict
    BY <1>1 DEF Evict, Deleting
<1>2. CASE ForgetPeople
    BY <1>2 DEF ForgetPeople, Deleting, Proceed
<1>3. CASE ForgetSaveBegins
    BY <1>3 DEF ForgetSaveBegins, Deleting, Proceed, Marshal, SaveUnchanged
<1>4. CASE ForgetSaveEnds
    <2>1. /\ deletion'.club = deletion.club /\ deletion'.step = "conductor"
          /\ deletion'.alone = deletion.alone
          /\ deletion.step = "saving"
        BY <1>4, DeletionGoes DEF ForgetSaveEnds, Deleting
    <2>2. UNCHANGED <<members, stageIdx, ownerMem, created, stageRows, countRow, sqOwner,
                      retained, deleted, late>>
        BY <1>4 DEF ForgetSaveEnds, SaveUnchanged
    <2>3. \A c \in Ids : Unsaved(c) => Unsaved(c)' /\ (c \notin file => c \notin file')
        BY <1>4 DEF ForgetSaveEnds, Saved, NoSave, FileWritten
    <2>4. deletion'.failed \/ (deletion.alone => deletion.club \notin file')
        BY <1>4, DeletionFails DEF ForgetSaveEnds, Deleting, Saved, FileWritten
    <2>. HIDE DEF Unsaved
    <2>. QED
        BY <2>1, <2>2, <2>3, <2>4
<1>5. CASE ForgetPlayback
    BY <1>5 DEF ForgetPlayback, Deleting, Proceed, ConductorFree
<1>6. CASE ForgetRows
    <2>1. /\ deletion'.club = deletion.club /\ deletion'.step = "purge"
          /\ deletion'.alone = deletion.alone
          /\ deletion.step = "sqlite" /\ sqOwner' \subseteq sqOwner
        BY <1>6, DeletionGoes DEF ForgetRows, Deleting
    <2>2. UNCHANGED <<members, stageIdx, ownerMem, created, stageRows, countRow, file, saver,
                      retained, deleted, late>>
        BY <1>6 DEF ForgetRows
    <2>3. deletion'.failed \/ deletion.club \notin sqOwner'
        BY <1>6, DeletionFails DEF ForgetRows
    <2>4. deletion'.failed \/ deletion'.failed = deletion.failed
        BY <1>6, DeletionFails DEF ForgetRows, Proceed
    <2>. QED
        BY <2>1, <2>2, <2>3, <2>4
<1>7. CASE Purge
    BY <1>7 DEF Purge, Deleting, Proceed
<1>8. CASE PurgeFails
    BY <1>8 DEF PurgeFails, Deleting, NoDeletion
<1>9. CASE ReloadBegins
    BY <1>9, QueriedRows DEF ReloadBegins, Deleting, Proceed
<1>10. CASE ReloadEnds
    <2>1. /\ UNCHANGED <<members, stageIdx, ownerMem, retained, stageRows, countRow, sqOwner,
                         file, saver>>
          /\ deletion.step = "capped" /\ deletion'.step = "idle"
          /\ created' = reload.rows /\ reload.rows \subseteq creates
          /\ deleted' \subseteq Ids
        BY <1>10 DEF ReloadEnds, Deleting, NoDeletion
    <2>2. ASSUME NEW c \in Ids, c \in deleted' \ late', c # deletion.club
          PROVE  c \in deleted \ late
        BY <1>10, <2>2 DEF ReloadEnds
    <2>3. ASSUME NEW c \in Ids, c \in deleted' \ late', c = deletion.club
          PROVE  deletion.alone /\ ~deletion.failed
        <3>1. ~deletion.failed
            BY <1>10, <2>3 DEF ReloadEnds, Deleting
        <3>2. deletion.alone
            BY <1>10, <2>3 DEF ReloadEnds, Deleting, Silence
        <3>. QED
            BY <3>1, <3>2
    <2>4. ASSUME NEW c \in Ids, c \in deleted' \ late', c = deletion.club
          PROVE  c \notin creates
        BY <2>1, <2>3, <2>4
    <2>5. ASSUME NEW c \in Ids, c \in deleted' \ late'
          PROVE  /\ c \notin stageIdx \cup ownerMem \cup reload.rows \cup retained \cup stageRows
                 /\ c \notin sqOwner \cup file
                 /\ members[c] = {} /\ countRow[c] = NoRow
                 /\ Unsaved(c)
        <3>1. CASE c = deletion.club
            BY <2>1, <2>3, <2>4, <2>5, <3>1
        <3>2. CASE c # deletion.club
            BY <2>1, <2>2, <2>5, <3>2
        <3>. QED
            BY <3>1, <3>2
    <2>. QED
        BY <2>1, <2>5
<1>11. CASE ReloadFails
    BY <1>11 DEF ReloadFails, Deleting, NoDeletion, NoReload
<1>. QED
    BY <1>1, <1>2, <1>3, <1>4, <1>5, <1>6, <1>7, <1>8, <1>9, <1>10, <1>11 DEF Delete

\* Each step of the deletion takes its part out, and nobody puts it back.
LEMMA NothingKept ==
    ASSUME Types, Locks, Life, Silence, Nothing, [Next]_vars
    PROVE  Nothing'
<1>1. CASE Restart
    BY <1>1, QueriedRows DEF Restart, Types, ClubSets, Life, Out, Nothing, Unsaved, NoSave,
        NoDeletion, sqVars, FromSave, FromSaving, FromConductor, FromSQLite, FromPurge,
        FromCap
<1>2. CASE Drive \/ UNCHANGED vars
    <2>1. UNCHANGED <<members, stageIdx, ownerMem, created, stageRows, countRow, sqOwner,
                      retained, file, saver, deletion, deleted, late>>
        BY <1>2, DriveLeaves DEF vars, runtimeVars, capVars, rowVars, sqVars, fileVars,
            historyVars, markVars
    <2>. QED
        BY <2>1 DEF Nothing, Unsaved
<1>. QED
    BY <1>1, <1>2, NothingHandle, NothingSave, NothingDelete DEF Next

-----------------------------------------------------------------------------
(* The cap.                                                                *)

\* Finitely many clubs of an account are counted.
LEMMA OwnedCounts ==
    ASSUME NEW S \in SUBSET Ids, NEW a \in Accounts
    PROVE  /\ IsFiniteSet({ c \in S : creator[c] = a })
           /\ Cardinality({ c \in S : creator[c] = a }) \in Nat
           /\ OwnedOf(S)[a] = Cardinality({ c \in S : creator[c] = a })
<1>1. { c \in S : creator[c] = a } \in SUBSET Ids
    OBVIOUS
<1>2. IsFiniteSet({ c \in S : creator[c] = a })
    BY <1>1, ConstantTypes, FS_Subset
<1>. QED
    BY <1>2, FS_CardinalityType DEF OwnedOf

LEMMA CapCountsInit == Init => CapCounts
<1>. SUFFICES ASSUME Init PROVE counted = OwnedOf(created)
    BY DEF CapCounts
<1>1. \A a \in Accounts : Cardinality({ c \in {First} : creator[c] = a }) =
                             IF a = Founder THEN 1 ELSE 0
    <2>1. ASSUME NEW a \in Accounts, a = Founder
          PROVE  { c \in {First} : creator[c] = a } = {First}
        BY <2>1, ConstantTypes DEF Init
    <2>2. ASSUME NEW a \in Accounts, a # Founder
          PROVE  { c \in {First} : creator[c] = a } = {}
        BY <2>2, ConstantTypes DEF Init
    <2>. QED
        BY <2>1, <2>2, FS_Singleton, FS_EmptySet
<1>. QED
    BY <1>1 DEF Init, OwnedOf

LEMMA CapCountsCreate ==
    ASSUME Types, Life, CapCounts, NEW n \in Conns, CreateBegins(n)
    PROVE  CapCounts'
<1>1. \A c \in created : creator'[c] = creator[c]
    BY DEF CreateBegins, Types, ClubSets, Life
<1>2. UNCHANGED <<created, counted>>
    BY DEF CreateBegins, capVars
<1>3. \A a \in Accounts :
        { c \in created : creator[c] = a } = { c \in created' : creator'[c] = a }
    BY <1>1, <1>2
<1>. QED
    BY <1>2, <1>3 DEF CapCounts, OwnedOf

LEMMA CapCountsCounted ==
    ASSUME Types, Life, CapCounts, NEW n \in Conns, CreateCounted(n)
    PROVE  CapCounts'
<1>. DEFINE c == conn[n].club
            by == conn[n].by
            Owned(a) == { d \in created : creator[d] = a }
            Owned2(a) == { d \in created' : creator'[d] = a }
<1>1. /\ c \in Ids /\ by \in Accounts /\ creator[c] = by /\ creator' = creator
      /\ created' = created \cup {c}
      /\ counted' = IF c \in created THEN counted ELSE [counted EXCEPT ![by] = counted[by] + 1]
    BY DEF CreateCounted, At, CountOnce, Types, ClubSets, Handlings, Life
<1>2. counted = [a \in Accounts |-> Cardinality(Owned(a))]
    BY DEF CapCounts, OwnedOf
<1>3. \A a \in Accounts : a # by \/ c \in created => Owned2(a) = Owned(a)
    BY <1>1
<1>4. Owned2(by) = Owned(by) \cup {c}
    BY <1>1
<1>5. c \notin created => Cardinality(Owned2(by)) = Cardinality(Owned(by)) + 1
    <2>1. IsFiniteSet(Owned(by))
        <3>1. created \in SUBSET Ids
            BY DEF Types, ClubSets
        <3>. QED
            BY <1>1, <3>1, OwnedCounts
    <2>2. c \notin created => c \notin Owned(by)
        OBVIOUS
    <2>. HIDE DEF Owned, c, by
    <2>. QED
        BY <1>4, <2>1, <2>2, FS_AddElement
<1>6. counted' = [a \in Accounts |-> Cardinality(Owned2(a))]
    <2>. HIDE DEF Owned, Owned2, c, by
    <2>. QED
        BY <1>1, <1>2, <1>3, <1>5
<1>. QED
    BY <1>6 DEF CapCounts, OwnedOf

\* observeEvent and reload keep the count of the clubs that are known.
LEMMA CapCountsKept ==
    ASSUME Types, Life, CapCounts, [Next]_vars
    PROVE  CapCounts'
<1>1. ASSUME UNCHANGED <<creator, created, counted>>
      PROVE  CapCounts'
    BY <1>1 DEF CapCounts, OwnedOf
<1>2. ASSUME NEW n \in Conns, Handle(n)
      PROVE  CapCounts'
    BY <1>1, <1>2, CapCountsCreate, CapCountsCounted DEF Handle, CreateSaved, CreateApplied,
        MemberBegins, MemberObserved, CountPublishes, CountWritten, StageBegins, StageSaved,
        StageIndexed, OwnerBegins, OwnerKept, OwnerCached, BeatBegins, BeatRecorded, capVars
<1>3. CASE Drive \/ SaveFile \/ UNCHANGED vars
    BY <1>1, <1>3, DriveLeaves, SaveLeaves DEF vars, capVars
<1>4. CASE Delete
    BY <1>1, <1>4 DEF Delete, Evict, ForgetPeople, ForgetSaveBegins, ForgetSaveEnds,
        SaveUnchanged, ForgetPlayback, ForgetRows, Purge, PurgeFails, ReloadBegins,
        ReloadEnds,
        ReloadFails, capVars, CapCounts, OwnedOf
<1>5. CASE Restart
    BY <1>5 DEF Restart, CapCounts, OwnedOf
<1>. QED
    BY <1>2, <1>3, <1>4, <1>5 DEF Next

LEMMA CapKnowsInit == Init => CapKnows
BY DEF Init, CapKnows, NoReload, NoDeletion, FromCap

\* A query that returns all of some events returns all of fewer.
LEMMA FewerAreQueried ==
    ASSUME Types, Types', creates \subseteq creates', Cardinality(creates') <= QueryLimit
    PROVE  Cardinality(creates) <= QueryLimit
<1>1. IsFiniteSet(creates') /\ IsFiniteSet(creates)
    BY ConstantTypes, FS_Subset DEF Types, ClubSets
<1>2. Cardinality(creates) <= Cardinality(creates')
    BY <1>1, FS_Subset
<1>3. Cardinality(creates) \in Nat /\ Cardinality(creates') \in Nat
    BY <1>1, FS_CardinalityType
<1>4. QueryLimit \in Nat
    BY ClubsAssumption DEF ClubsAssumption
<1>. QED
    BY <1>2, <1>3, <1>4

\* What the cap knows changes with what is stored, read or counted alone.
LEMMA CapKnowsStays ==
    ASSUME CapKnows, UNCHANGED <<creates, created, reload, late, forgotten, deletion>>,
           \A c \in Ids : Counting(c) => Counting(c)', creates \subseteq Ids
    PROVE  CapKnows'
<1>1. OneQuery' = OneQuery
    BY DEF OneQuery
<1>. QED
    BY <1>1 DEF CapKnows

LEMMA CapKnowsHandle ==
    ASSUME Types, Types', Locks, Life, Silence, CapKnows, NEW n \in Conns, Handle(n)
    PROVE  CapKnows'
<1>0. UNCHANGED <<reload, deletion, deleted, late, early, forgotten>>
    BY HandleLeaves
<1>1. CASE CreateSaved(n)
    <2>1. /\ Creating(n, conn[n].club) /\ conn[n].step = "save" /\ conn[n].club \in Ids
          /\ creates' = creates \cup {conn[n].club} /\ created' = created
          /\ conn' = [conn EXCEPT ![n].step = "apply"]
        BY <1>1 DEF CreateSaved, At, To, Creating, capVars, Types, Handlings
    <2>2. \A c \in Ids : Counting(c) => Counting(c)'
        BY <2>1 DEF Counting, Creating, Types, Handlings
    <2>3. Counting(conn[n].club)'
        BY <2>1 DEF Counting, Creating, Types, Handlings
    <2>4. /\ Cardinality(creates') <= QueryLimit => Cardinality(creates) <= QueryLimit
          /\ OneQuery' => OneQuery
        BY <1>0, <2>1, FewerAreQueried DEF OneQuery
    <2>5. creates' \subseteq Ids
        BY DEF Types, ClubSets
    <2>. HIDE DEF Counting
    <2>. QED
        BY <1>0, <2>1, <2>2, <2>3, <2>4, <2>5 DEF CapKnows
<1>2. CASE CreateCounted(n)
    <2>. DEFINE d == conn[n].club
    <2>1. /\ Creating(n, d) /\ conn[n].step = "cap" /\ d \in Ids
          /\ UNCHANGED creates /\ created' = created \cup {d} /\ ~reload.busy
          /\ conn' = [conn EXCEPT ![n] = IdleConn]
        BY <1>2 DEF CreateCounted, CountOnce, At, Ends, Creating, rowVars, Types, Handlings
    <2>2. \A c \in Ids : Counting(c) => Counting(c)' \/ c = d
        BY <2>1 DEF Counting, Creating, Types, Handlings
    <2>3. d \in creates \cup late
        BY <2>1 DEF Silence, Creating
    <2>4. OneQuery' = OneQuery
        BY <1>0, <2>1 DEF OneQuery
    <2>5. deletion.step # "capped"
        BY <2>1 DEF Locks
    <2>6. creates \subseteq Ids
        BY DEF Types, ClubSets
    <2>. HIDE DEF Counting, d
    <2>. QED
        BY <1>0, <2>1, <2>2, <2>3, <2>4, <2>5, <2>6 DEF CapKnows
<1>3. ASSUME ~CreateSaved(n), ~CreateCounted(n)
      PROVE  CapKnows'
    <2>1. UNCHANGED <<creates, created>>
        BY <1>3 DEF Handle, CreateBegins, CreateApplied, MemberBegins, MemberObserved,
            CountPublishes, CountWritten, StageBegins, StageSaved, StageIndexed, OwnerBegins,
            OwnerKept, OwnerCached, BeatBegins, BeatRecorded, capVars, rowVars
    <2>2. ASSUME NEW m \in Conns, conn[m].op = "create", conn[m].step \in {"apply", "cap"}
          PROVE  /\ conn'[m].op = "create" /\ conn'[m].club = conn[m].club
                 /\ conn'[m].step \in {"apply", "cap"}
        <3>. USE <2>2 DEF Begin, At, To, Ends, Types, Handlings, Life
        <3>1. CASE CreateApplied(n)
            BY <3>1 DEF CreateApplied
        <3>2. CASE CreateBegins(n) \/ MemberBegins(n) \/ StageBegins(n) \/ OwnerBegins(n)
                   \/ BeatBegins(n)
            BY <3>2 DEF CreateBegins, MemberBegins, StageBegins, OwnerBegins, BeatBegins
        <3>3. CASE MemberObserved(n) \/ CountPublishes(n) \/ CountWritten(n)
            <4>1. conn[n].op # "create"
                BY <3>3 DEF MemberObserved, CountPublishes, CountWritten
            <4>2. \A k \in Conns \ {n} : conn'[k] = conn[k]
                BY <3>3 DEF MemberObserved, CountPublishes, CountWritten
            <4>. QED
                BY <4>1, <4>2
        <3>4. CASE StageSaved(n) \/ StageIndexed(n) \/ OwnerKept(n) \/ OwnerCached(n)
                   \/ BeatRecorded(n)
            <4>1. conn[n].op # "create"
                BY <3>4 DEF StageSaved, StageIndexed, OwnerKept, OwnerCached, BeatRecorded
            <4>2. \A k \in Conns \ {n} : conn'[k] = conn[k]
                BY <3>4 DEF StageSaved, StageIndexed, OwnerKept, OwnerCached, BeatRecorded
            <4>. QED
                BY <4>1, <4>2
        <3>. QED
            BY <1>3, <3>1, <3>2, <3>3, <3>4 DEF Handle
    <2>3. \A c \in Ids : Counting(c) => Counting(c)'
        BY <2>2 DEF Counting, Creating
    <2>4. creates \subseteq Ids
        BY DEF Types, ClubSets
    <2>. QED
        BY <1>0, <2>1, <2>3, <2>4, CapKnowsStays
<1>. QED
    BY <1>1, <1>2, <1>3

LEMMA CapKnowsDelete ==
    ASSUME Types, Types', Locks, Life, Silence, CapKnows, Delete
    PROVE  CapKnows'
<1>. USE DEF Deletions, FromCap
<1>0. /\ UNCHANGED conn /\ creates \subseteq Ids /\ creates' \subseteq Ids
      /\ deletion \in Deletions
    BY DEF Types, ClubSets, Delete, Evict, ForgetPeople, ForgetSaveBegins, ForgetSaveEnds,
        SaveUnchanged, ForgetPlayback, ForgetRows, Purge, PurgeFails, ReloadBegins,
        ReloadEnds, ReloadFails
<1>1. \A c \in Ids : Counting(c)' = Counting(c)
    BY <1>0 DEF Counting, Creating
<1>. HIDE DEF Counting
<1>2. CASE Evict
    <2>1. PICK c \in Ids :
            /\ deletion' = [club |-> c, step |-> "social", failed |-> FALSE,
                            alone |-> \A n \in Conns : ~AtWork(n, c)]
            /\ late \subseteq late' /\ (late # {} => late' # {})
            /\ deletion.step = "idle"
            /\ UNCHANGED <<creates, created, reload, forgotten>>
        BY <1>2 DEF Evict, Deleting, capVars, rowVars
    <2>2. OneQuery' => OneQuery
        BY <2>1 DEF OneQuery
    <2>. QED
        BY <1>0, <1>1, <2>1, <2>2 DEF CapKnows
<1>3. CASE ForgetPeople \/ ForgetSaveBegins \/ ForgetSaveEnds \/ ForgetPlayback \/ ForgetRows
    <2>1. /\ UNCHANGED <<creates, created, reload, late, forgotten>>
          /\ deletion'.club = deletion.club
          /\ {deletion.step, deletion'.step} \cap {"idle", "cap", "capped"} = {}
        BY <1>0, <1>3 DEF ForgetPeople, ForgetSaveBegins, ForgetSaveEnds, ForgetPlayback,
            ForgetRows, SaveUnchanged, Deleting, Proceed, Fails, capVars, rowVars,
            historyVars, markVars
    <2>2. OneQuery' = OneQuery
        BY <2>1 DEF OneQuery
    <2>. QED
        BY <1>0, <1>1, <2>1, <2>2 DEF CapKnows
<1>4. CASE Purge
    <2>1. /\ UNCHANGED <<created, reload, late, forgotten>>
          /\ creates' = creates \ {deletion.club}
          /\ deletion'.club = deletion.club /\ deletion'.step = "cap"
          /\ deletion.step = "purge"
        BY <1>0, <1>4 DEF Purge, Deleting, Proceed, capVars, historyVars, markVars
    <2>. QED
        BY <1>0, <1>1, <2>1 DEF CapKnows
<1>5. CASE PurgeFails
    <2>1. /\ UNCHANGED <<created, reload, forgotten>>
          /\ late' = late \cup {deletion.club}
          /\ creates' \in {creates, creates \ {deletion.club}}
          /\ deletion'.step = "idle"
        BY <1>0, <1>5 DEF PurgeFails, Deleting, NoDeletion, capVars, markVars
    <2>2. ~OneQuery'
        BY <2>1 DEF OneQuery
    <2>. QED
        BY <1>0, <1>1, <2>1, <2>2 DEF CapKnows
<1>6. CASE ReloadBegins
    <2>1. /\ UNCHANGED <<creates, created, late, forgotten>>
          /\ reload'.rows \in Queried(creates)
          /\ deletion'.club = deletion.club /\ deletion'.step = "capped"
          /\ deletion.step = "cap"
        BY <1>0, <1>6 DEF ReloadBegins, Deleting, Proceed, rowVars, historyVars, markVars
    <2>2. OneQuery' = OneQuery
        BY <2>1 DEF OneQuery
    <2>3. Cardinality(creates) <= QueryLimit => reload'.rows = creates
        BY <2>1, QueriedRows
    <2>. QED
        BY <1>0, <1>1, <2>1, <2>2, <2>3 DEF CapKnows
<1>7. CASE ReloadEnds
    <2>1. /\ UNCHANGED creates /\ created' = reload.rows
          /\ forgotten' = forgotten \cup
               { c \in creates \ reload.rows : \A n \in Conns : ~Creating(n, c) }
          /\ late' \in {late, late \ {deletion.club}}
          /\ deletion.step = "capped" /\ deletion'.step = "idle"
        BY <1>0, <1>7 DEF ReloadEnds, Deleting, NoDeletion, rowVars
    <2>2. reload.rows \subseteq creates
        BY <2>1 DEF Life, Locks
    <2>3. \A c \in creates \ reload.rows : c \in forgotten' \/ Counting(c)
        BY <2>1 DEF Life, Counting, Creating
    <2>4. Cardinality(creates) <= QueryLimit => \A c \in creates : c \in reload.rows \/ Counting(c)
        BY <2>1 DEF CapKnows
    <2>. QED
        BY <1>0, <1>1, <2>1, <2>2, <2>3, <2>4 DEF CapKnows, OneQuery
<1>8. CASE ReloadFails
    <2>1. /\ UNCHANGED <<creates, created, forgotten>>
          /\ late' = late \cup {deletion.club}
          /\ deletion'.step = "idle"
        BY <1>0, <1>8 DEF ReloadFails, Deleting, NoDeletion, rowVars, markVars
    <2>2. ~OneQuery'
        BY <2>1 DEF OneQuery
    <2>. QED
        BY <1>0, <1>1, <2>1, <2>2 DEF CapKnows
<1>. QED
    BY <1>2, <1>3, <1>4, <1>5, <1>6, <1>7, <1>8 DEF Delete

\* A create event that the cap does not know has a handler that will count it, or
\* was left out by a query.
LEMMA CapKnowsKept ==
    ASSUME Types, Types', Locks, Life, Silence, CapKnows, [Next]_vars
    PROVE  CapKnows'
<1>1. CASE Restart
    <2>1. /\ UNCHANGED creates /\ created' \in Queried(creates)
          /\ forgotten' = forgotten \cup (creates \ created') /\ deletion' = NoDeletion
        BY <1>1 DEF Restart
    <2>2. created' \subseteq creates /\ (Cardinality(creates) <= QueryLimit => created' = creates)
        BY <2>1, QueriedRows
    <2>. QED
        BY <2>1, <2>2 DEF CapKnows, OneQuery, NoDeletion, FromCap
<1>2. CASE Drive \/ SaveFile \/ UNCHANGED vars
    <2>1. UNCHANGED <<creates, created, reload, conn, deletion, late, forgotten>>
        BY <1>2, DriveLeaves, SaveLeaves DEF vars, capVars, rowVars, historyVars, markVars
    <2>2. \A c \in Ids : Counting(c) => Counting(c)'
        BY <2>1 DEF Counting, Creating
    <2>. QED
        BY <2>1, <2>2, CapKnowsStays DEF Types, ClubSets
<1>. QED
    BY <1>1, <1>2, CapKnowsHandle, CapKnowsDelete DEF Next

-----------------------------------------------------------------------------
(* The overdraft.                                                          *)

LEMMA ClaimedCounts ==
    ASSUME NEW a \in Accounts
    PROVE  IsFiniteSet(Claimed(a)) /\ Cardinality(Claimed(a)) \in Nat
<1>1. Claimed(a) \in SUBSET Ids
    BY DEF Claimed
<1>. QED
    BY <1>1, ConstantTypes, FS_Subset, FS_CardinalityType

LEMMA OverdraftInit == Init => Overdraft
<1>. SUFFICES ASSUME Init, NEW a \in Accounts
              PROVE  Cardinality(Claimed(a)) <= MaxClubs + Cardinality(Conns) - 1
    BY DEF Overdraft
<1>1. Claimed(a) \in SUBSET {First}
    <2>1. creates = {First} /\ \A n \in Conns : conn[n].op = "none"
        BY DEF Init, IdleConn
    <2>. QED
        BY <2>1 DEF Claimed, Creating
<1>2. Cardinality(Claimed(a)) <= 1
    <2>1. IsFiniteSet({First}) /\ Cardinality({First}) = 1
        BY FS_Singleton
    <2>2. Cardinality(Claimed(a)) <= Cardinality({First})
        BY <1>1, <2>1, FS_Subset
    <2>. QED
        BY <2>1, <2>2
<1>3. Cardinality(Conns) >= 1
    BY ConstantTypes, ClubsAssumption, FS_EmptySet DEF ClubsAssumption
<1>. QED
    BY <1>2, <1>3, ClaimedCounts, ConstantTypes

\* What the other connections are about are fewer clubs than connections.
LEMMA OthersAreFewer ==
    ASSUME Types, NEW n \in Conns
    PROVE  LET others == { conn[m].club : m \in Conns \ {n} }
           IN  /\ IsFiniteSet(others) /\ Cardinality(others) \in Nat
               /\ Cardinality(others) <= Cardinality(Conns) - 1
<1>. DEFINE S == Conns \ {n}
            others == { conn[m].club : m \in S }
            f == [m \in S |-> conn[m].club]
<1>1. IsFiniteSet(S) /\ Cardinality(S) = Cardinality(Conns) - 1
    BY ConstantTypes, FS_RemoveElement
<1>2. f \in Surjection(S, others)
    BY DEF Surjection
<1>. HIDE DEF S, f
<1>3. IsFiniteSet(others) /\ Cardinality(others) <= Cardinality(S)
    BY <1>1, <1>2, FS_Surjection
<1>4. Cardinality(others) \in Nat
    BY <1>3, FS_CardinalityType
<1>. QED
    BY <1>1, <1>3, <1>4 DEF S

\* An account that passes the cap has its clubs counted, but for those that the
\* other connections are about.
LEMMA OverdraftCreate ==
    ASSUME Types, Life, CapCounts, CapKnows, Overdraft, NEW n \in Conns, CreateBegins(n)
    PROVE  Overdraft'
<1>1. PICK c \in Ids, x \in Accounts :
        /\ creator[c] = Nobody /\ counted[x] < MaxClubs
        /\ conn[n].op = "none"
        /\ conn' = [conn EXCEPT ![n] =
                      [op |-> "create", club |-> c, by |-> x, step |-> "save", count |-> 0]]
        /\ creator' = [creator EXCEPT ![c] = x]
        /\ creates' = creates /\ forgotten' = forgotten
    BY DEF CreateBegins, Begin, UnderCap, rowVars, markVars
<1>2. ASSUME NEW a \in Accounts, a # x
      PROVE  Claimed(a)' = Claimed(a)
    BY <1>1, <1>2, ConstantTypes DEF Claimed, Creating, Types, Handlings
<1>3. Claimed(x)' \subseteq Claimed(x) \cup {c}
    BY <1>1, ConstantTypes DEF Claimed, Creating, Types, Handlings
<1>. DEFINE others == { conn[m].club : m \in Conns \ {n} }
            owned == { d \in created : creator[d] = x }
<1>4. Claimed(x) \subseteq owned \cup others
    <2>1. ASSUME NEW d \in Claimed(x), NEW m \in Conns, Creating(m, d)
          PROVE  d \in others
        BY <2>1, <1>1 DEF Creating
    <2>2. ASSUME NEW d \in Claimed(x), d \in created
          PROVE  d \in owned
        BY <2>2 DEF Claimed
    <2>3. ASSUME NEW d \in Claimed(x), ~ \E m \in Conns : Creating(m, d)
          PROVE  d \in created
        BY <2>3 DEF Claimed, CapKnows, Counting
    <2>. QED
        BY <2>1, <2>2, <2>3
<1>5. IsFiniteSet(owned) /\ Cardinality(owned) \in Nat /\ Cardinality(owned) = counted[x]
    <2>1. created \in SUBSET Ids
        BY DEF Types, ClubSets
    <2>. QED
        BY <2>1, OwnedCounts DEF CapCounts
<1>6. /\ IsFiniteSet(others) /\ Cardinality(others) \in Nat
      /\ Cardinality(others) <= Cardinality(Conns) - 1
    BY OthersAreFewer
<1>7. /\ IsFiniteSet(owned \cup others) /\ Cardinality(owned \cup others) \in Nat
      /\ Cardinality(owned \cup others) <= Cardinality(owned) + Cardinality(others)
    <2>. HIDE DEF owned, others
    <2>1. IsFiniteSet(owned \cap others)
        BY <1>5, FS_Intersection
    <2>2. Cardinality(owned \cap others) \in Nat
        BY <2>1, FS_CardinalityType
    <2>3. /\ IsFiniteSet(owned \cup others)
          /\ Cardinality(owned \cup others) =
               Cardinality(owned) + Cardinality(others) - Cardinality(owned \cap others)
        BY <1>5, <1>6, FS_Union
    <2>4. Cardinality(owned \cup others) \in Nat
        BY <2>3, FS_CardinalityType
    <2>. QED
        BY <1>5, <1>6, <2>2, <2>3, <2>4
<1>. HIDE DEF owned, others
<1>8. /\ Cardinality(Claimed(x)) <= MaxClubs - 1 + (Cardinality(Conns) - 1)
      /\ Cardinality(Claimed(x)) \in Nat /\ IsFiniteSet(Claimed(x))
    <2>1. Cardinality(Claimed(x)) <= Cardinality(owned \cup others)
        BY <1>4, <1>7, FS_Subset
    <2>. QED
        BY <2>1, <1>1, <1>5, <1>6, <1>7, ClaimedCounts, ConstantTypes
<1>9. /\ IsFiniteSet(Claimed(x) \cup {c})
      /\ Cardinality(Claimed(x) \cup {c}) <= MaxClubs + Cardinality(Conns) - 1
    <2>1. CASE c \in Claimed(x)
        <3>1. Claimed(x) \cup {c} = Claimed(x)
            BY <2>1
        <3>2. Cardinality(Claimed(x)) <= MaxClubs + Cardinality(Conns) - 1
            BY <1>8, ConstantTypes
        <3>. QED
            BY <1>8, <3>1, <3>2
    <2>2. CASE c \notin Claimed(x)
        <3>1. /\ IsFiniteSet(Claimed(x) \cup {c})
              /\ Cardinality(Claimed(x) \cup {c}) = Cardinality(Claimed(x)) + 1
            BY <1>8, <2>2, FS_AddElement
        <3>. QED
            BY <1>8, <3>1, ConstantTypes
    <2>. QED
        BY <2>1, <2>2
<1>10. IsFiniteSet(Claimed(x)') /\ Cardinality(Claimed(x)') <= Cardinality(Claimed(x) \cup {c})
    BY <1>3, <1>9, FS_Subset
<1>11. Cardinality(Claimed(x)') <= MaxClubs + Cardinality(Conns) - 1
    BY <1>8, <1>9, <1>10, FS_CardinalityType, ConstantTypes
<1>. QED
    BY <1>2, <1>11 DEF Overdraft

\* Only a creation that passes the cap, with the others under way, claims a club.
LEMMA OverdraftKept ==
    ASSUME Types, Life, CapCounts, CapKnows, Overdraft, [Next]_vars
    PROVE  Overdraft'
<1>1. ASSUME \A a \in Accounts : Claimed(a)' \subseteq Claimed(a)
      PROVE  Overdraft'
    <2>1. ASSUME NEW a \in Accounts
          PROVE  /\ Cardinality(Claimed(a)') <= Cardinality(Claimed(a))
                 /\ Cardinality(Claimed(a)') \in Nat
        BY <1>1, ClaimedCounts, FS_Subset, FS_CardinalityType
    <2>. QED
        BY <2>1, ClaimedCounts, ConstantTypes DEF Overdraft
<1>2. ASSUME UNCHANGED creator, creates' \subseteq creates, forgotten \subseteq forgotten',
             \A n \in Conns :
                conn'[n].op = "create" => conn'[n] = conn[n] \/ conn'[n].step # "save"
      PROVE  Overdraft'
    BY <1>1, <1>2 DEF Claimed, Creating
<1>3. ASSUME NEW n \in Conns, CreateSaved(n)
      PROVE  Overdraft'
    BY <1>1, <1>3 DEF CreateSaved, At, To, Claimed, Creating, Types, Handlings, historyVars,
        markVars
<1>4. ASSUME NEW n \in Conns, Handle(n), ~CreateBegins(n), ~CreateSaved(n)
      PROVE  Overdraft'
    <2>. DEFINE Kept ==
            /\ UNCHANGED <<creator, forgotten>> /\ creates' \subseteq creates
            /\ \A m \in Conns :
                conn'[m].op = "create" => conn'[m] = conn[m] \/ conn'[m].step # "save"
    <2>. USE DEF Types, Handlings, Begin, At, To, Ends, IdleConn, rowVars, historyVars, markVars
    <2>1. CASE CreateApplied(n)
        <3>. Kept
            BY <2>1 DEF CreateApplied
        <3>. QED
            BY <1>2
    <2>2. CASE CreateCounted(n)
        <3>. Kept
            BY <2>2 DEF CreateCounted
        <3>. QED
            BY <1>2
    <2>3. CASE MemberBegins(n)
        <3>. Kept
            BY <2>3 DEF MemberBegins
        <3>. QED
            BY <1>2
    <2>4. CASE MemberObserved(n)
        <3>. Kept
            BY <2>4 DEF MemberObserved
        <3>. QED
            BY <1>2
    <2>5. CASE CountPublishes(n)
        <3>. Kept
            BY <2>5 DEF CountPublishes
        <3>. QED
            BY <1>2
    <2>6. CASE CountWritten(n)
        <3>. Kept
            BY <2>6 DEF CountWritten
        <3>. QED
            BY <1>2
    <2>7. CASE StageBegins(n)
        <3>. Kept
            BY <2>7 DEF StageBegins
        <3>. QED
            BY <1>2
    <2>8. CASE StageSaved(n)
        <3>. Kept
            BY <2>8 DEF StageSaved
        <3>. QED
            BY <1>2
    <2>9. CASE StageIndexed(n)
        <3>. Kept
            BY <2>9 DEF StageIndexed
        <3>. QED
            BY <1>2
    <2>10. CASE OwnerBegins(n)
        <3>. Kept
            BY <2>10 DEF OwnerBegins
        <3>. QED
            BY <1>2
    <2>11. CASE OwnerKept(n)
        <3>. Kept
            BY <2>11 DEF OwnerKept
        <3>. QED
            BY <1>2
    <2>12. CASE OwnerCached(n)
        <3>. Kept
            BY <2>12 DEF OwnerCached
        <3>. QED
            BY <1>2
    <2>13. CASE BeatBegins(n)
        <3>. Kept
            BY <2>13 DEF BeatBegins
        <3>. QED
            BY <1>2
    <2>14. CASE BeatRecorded(n)
        <3>. Kept
            BY <2>14 DEF BeatRecorded
        <3>. QED
            BY <1>2
    <2>. QED
        BY <1>4, <2>1, <2>2, <2>3, <2>4, <2>5, <2>6, <2>7,
            <2>8, <2>9, <2>10, <2>11, <2>12, <2>13, <2>14 DEF Handle
<1>5. CASE Drive \/ SaveFile \/ UNCHANGED vars
    BY <1>2, <1>5, DriveLeaves, SaveLeaves DEF vars, rowVars, historyVars, markVars
<1>6. CASE Delete
    BY <1>2, <1>6 DEF Delete, Evict, ForgetPeople, ForgetSaveBegins, ForgetSaveEnds,
        SaveUnchanged, ForgetPlayback, ForgetRows, Purge, PurgeFails, ReloadBegins,
        ReloadEnds,
        ReloadFails, rowVars, historyVars, markVars
<1>7. CASE Restart
    BY <1>2, <1>7 DEF Restart, IdleConn
<1>. QED
    BY <1>3, <1>4, <1>5, <1>6, <1>7, OverdraftCreate DEF Next

-----------------------------------------------------------------------------
(* The member counts.                                                      *)

LEMMA CountsInit == Init => Counts
<1>1. Cardinality({Founder}) = 1
    BY FS_Singleton
<1>. QED
    BY <1>1, ConstantTypes DEF Init, Counts, Counted, IdleConn

LEMMA CountsHandle ==
    ASSUME Types, Life, Counts, NEW n \in Conns, Handle(n)
    PROVE  Counts'
<1>. USE ConstantTypes DEF Types, Handlings, ClubSets, Begin, At, To, Ends, IdleConn,
        runtimeVars, rowVars, historyVars, markVars
<1>0. ASSUME UNCHANGED <<creator, groups, members, countRow, late, raced>>,
             \A m \in Conns :
                \/ conn'[m] = conn[m]
                \/ /\ conn[m].op \notin {"create", "put", "remove"}
                   /\ conn'[m].op \notin {"create", "put", "remove"}
                   /\ conn'[m].step \notin {"publish", "write"}
      PROVE  Counts'
    <2>1. \A m \in Conns, c \in Ids :
            /\ Counted(m, c)' = Counted(m, c)
            /\ Counted(m, c) => conn'[m].count = conn[m].count
        BY <1>0 DEF Counted, Life
    <2>2. \A m \in Conns : conn'[m].op = "create" => conn'[m] = conn[m]
        BY <1>0
    <2>. QED
        BY <1>0, <2>1, <2>2 DEF Counts
<1>1. CASE CreateBegins(n)
    BY <1>1 DEF CreateBegins, Life, Counts, Counted, AtWork
<1>2. CASE CreateSaved(n)
    BY <1>2 DEF CreateSaved, Life, Counts, Counted, AtWork
<1>3. CASE CreateApplied(n)
    BY <1>3 DEF CreateApplied, Life, Counts, Counted, AtWork
<1>4. CASE CreateCounted(n)
    BY <1>4 DEF CreateCounted, Life, Counts, Counted, AtWork
<1>5. CASE MemberBegins(n)
    BY <1>5 DEF MemberBegins, Life, Counts, Counted, AtWork
<1>6. CASE MemberObserved(n)
    <2>. DEFINE c == conn[n].club
                now == IF conn[n].op = "put" THEN members[c] \cup {conn[n].by}
                       ELSE members[c] \ {conn[n].by}
    <2>1. /\ c \in Ids /\ conn[n].op \in {"put", "remove"} /\ conn[n].step = "observe"
          /\ now \in SUBSET Accounts
          /\ UNCHANGED <<creator, groups, countRow, late>>
          /\ \A m \in Conns \ {n} : conn'[m] = conn[m]
          /\ members' = [members EXCEPT ![c] = now]
        BY <1>6 DEF MemberObserved, Life
    <2>2. \A m \in Conns \ {n}, d \in Ids : Counted(m, d)' = Counted(m, d)
        BY <2>1 DEF Counted
    <2>3. \A d \in Ids : ~Counted(n, d)
        BY <2>1 DEF Counted
    <2>4. CASE Changes(n)
        <3>1. /\ conn'[n].op = conn[n].op /\ conn'[n].club = c
              /\ conn'[n].step = "publish" /\ conn'[n].count = Cardinality(now)
            BY <1>6, <2>4 DEF MemberObserved
        <3>2. \A d \in Ids : Counted(n, d)' <=> d = c
            BY <3>1 DEF Counted
        <3>3. /\ \A d \in Ids : d \notin raced' /\ d # c => d \notin raced
              /\ c \notin raced' => \A m \in Conns : ~Counted(m, c)
            BY <1>6, <2>4 DEF MemberObserved
        <3>4. \A d \in Ids : d # c => members'[d] = members[d]
            BY <2>1
        <3>5. members'[c] = now
            BY <2>1
        <3>. HIDE DEF now
        <3>6. ASSUME NEW d \in groups' \ (late' \cup raced')
              PROVE  /\ \A k, m \in Conns : Counted(k, d)' /\ Counted(m, d)' => k = m
                     /\ \A m \in Conns :
                          Counted(m, d)' => conn'[m].count = Cardinality(members'[d])
                     /\ (\A m \in Conns : ~Counted(m, d)') =>
                          countRow'[d] \in {NoRow, Cardinality(members'[d])}
            <4>1. d \in Ids
                BY <2>1
            <4>2. CASE d = c
                BY <2>1, <2>2, <3>1, <3>2, <3>3, <3>5, <4>1, <4>2
            <4>3. CASE d # c
                BY <2>1, <2>2, <2>3, <3>2, <3>3, <3>4, <4>1, <4>3 DEF Counts
            <4>. QED
                BY <4>2, <4>3
        <3>7. /\ \A d \in Ids : creator'[d] = Nobody => countRow'[d] = NoRow
              /\ \A m \in Conns :
                    conn'[m].op = "create" /\ conn'[m].step \in {"save", "apply"} =>
                        countRow'[conn'[m].club] = NoRow
            BY <2>1, <3>1 DEF Counts
        <3>. QED
            BY <3>6, <3>7 DEF Counts, Counted
    <2>5. CASE ~Changes(n)
        <3>1. ASSUME conn[n].op = "put" PROVE now = members[c]
            BY <2>5, <3>1 DEF Changes
        <3>2. ASSUME conn[n].op = "remove" PROVE now = members[c]
            BY <2>5, <3>2 DEF Changes
        <3>3. now = members[c]
            BY <2>1, <3>1, <3>2
        <3>4. members' = members /\ raced' = raced /\ conn' = [conn EXCEPT ![n] = IdleConn]
            BY <1>6, <2>1, <2>5, <3>3 DEF MemberObserved
        <3>5. UNCHANGED <<creator, groups, members, countRow, late, raced>>
            BY <2>1, <3>4
        <3>6. \A m \in Conns, d \in Ids :
                /\ Counted(m, d)' = Counted(m, d)
                /\ Counted(m, d) => conn'[m].count = conn[m].count
            BY <2>1, <2>2, <2>3, <3>4 DEF Counted
        <3>7. \A m \in Conns : conn'[m].op = "create" => conn'[m] = conn[m]
            BY <3>4
        <3>. QED
            BY <3>5, <3>6, <3>7 DEF Counts
    <2>. QED
        BY <2>4, <2>5
<1>7. CASE CountPublishes(n)
    <2>1. UNCHANGED <<creator, groups, members, countRow, late, raced>>
        BY <1>7 DEF CountPublishes
    <2>2. \A m \in Conns \ {n} : conn'[m] = conn[m]
        BY <1>7 DEF CountPublishes
    <2>3. conn[n].op \in {"put", "remove"} /\ conn[n].step = "publish"
        BY <1>7 DEF CountPublishes, Life
    <2>4. \/ conn'[n] = [conn[n] EXCEPT !.step = "write"]
          \/ conn[n].club \notin groups /\ conn'[n] = IdleConn
        BY <1>7 DEF CountPublishes
    <2>5. \A m \in Conns, d \in groups :
            /\ Counted(m, d)' = Counted(m, d)
            /\ Counted(m, d) => conn'[m].count = conn[m].count
        BY <2>2, <2>3, <2>4 DEF Counted
    <2>6. \A m \in Conns : conn'[m].op = "create" => conn'[m] = conn[m]
        BY <2>2, <2>3, <2>4
    <2>. QED
        BY <2>1, <2>5, <2>6 DEF Counts
<1>8. CASE CountWritten(n)
    <2>. DEFINE c == conn[n].club
    <2>1. /\ UNCHANGED <<creator, groups, members, late, raced>>
          /\ countRow' = [countRow EXCEPT ![c] = conn[n].count]
          /\ c \in Ids /\ conn[n].op \in {"put", "remove"} /\ Counted(n, c)
          /\ conn' = [conn EXCEPT ![n] = IdleConn]
        BY <1>8 DEF CountWritten, Life, Counted
    <2>2. \A m \in Conns \ {n}, d \in Ids : Counted(m, d)' = Counted(m, d)
        BY <2>1 DEF Counted
    <2>3. \A d \in Ids : ~Counted(n, d)'
        BY <2>1 DEF Counted
    <2>4. \A d \in Ids : Counted(n, d) => d = c
        BY DEF Counted
    <2>5. /\ \A d \in Ids : creator'[d] = Nobody => countRow'[d] = NoRow
          /\ \A m \in Conns :
                conn'[m].op = "create" /\ conn'[m].step \in {"save", "apply"} =>
                    countRow'[conn'[m].club] = NoRow
        <3>1. creator[c] # Nobody
            BY <2>1 DEF Life
        <3>2. \A m \in Conns : conn[m].op = "create" /\ conn[m].step \in {"save", "apply"} =>
                conn[m].club # c
            BY <2>1 DEF Life, AtWork
        <3>. QED
            BY <2>1, <3>1, <3>2 DEF Counts
    <2>6. ASSUME NEW d \in groups' \ (late' \cup raced')
          PROVE  /\ \A k, m \in Conns : Counted(k, d)' /\ Counted(m, d)' => k = m
                 /\ \A m \in Conns :
                      Counted(m, d)' => conn'[m].count = Cardinality(members'[d])
                 /\ (\A m \in Conns : ~Counted(m, d)') =>
                      countRow'[d] \in {NoRow, Cardinality(members'[d])}
        <3>1. d \in Ids /\ d \in groups \ (late \cup raced)
            BY <2>1
        <3>2. CASE d = c
            BY <2>1, <2>2, <2>3, <3>1, <3>2 DEF Counts
        <3>3. CASE d # c
            <4>1. countRow'[d] = countRow[d] /\ \A m \in Conns : Counted(m, d)' <=> Counted(m, d)
                <5>1. countRow'[d] = countRow[d]
                    BY <2>1, <3>1, <3>3
                <5>2. ~Counted(n, d)' /\ ~Counted(n, d)
                    BY <2>3, <2>4, <3>1, <3>3
                <5>3. \A m \in Conns \ {n} : Counted(m, d)' <=> Counted(m, d)
                    BY <2>2, <3>1
                <5>. QED
                    BY <5>1, <5>2, <5>3, Zenon
            <4>2. \A m \in Conns : Counted(m, d)' => conn'[m].count = conn[m].count
                <5>1. \A m \in Conns \ {n} : conn'[m] = conn[m]
                    BY <2>1
                <5>2. \A m \in Conns : Counted(m, d)' => m # n
                    BY <2>3, <3>1
                <5>. QED
                    BY <5>1, <5>2, Zenon
            <4>. QED
                BY <2>1, <3>1, <4>1, <4>2 DEF Counts
        <3>. QED
            BY <3>2, <3>3
    <2>. QED
        BY <2>5, <2>6 DEF Counts, Counted
<1>9. CASE StageBegins(n)
    BY <1>0, <1>9 DEF StageBegins
<1>10. CASE StageSaved(n)
    BY <1>0, <1>10 DEF StageSaved
<1>11. CASE StageIndexed(n)
    BY <1>0, <1>11 DEF StageIndexed
<1>12. CASE OwnerBegins(n)
    BY <1>0, <1>12 DEF OwnerBegins
<1>13. CASE OwnerKept(n)
    BY <1>0, <1>13 DEF OwnerKept
<1>14. CASE OwnerCached(n)
    BY <1>0, <1>14 DEF OwnerCached
<1>15. CASE BeatBegins(n)
    BY <1>0, <1>15 DEF BeatBegins
<1>16. CASE BeatRecorded(n)
    BY <1>0, <1>16 DEF BeatRecorded
<1>. QED
    BY <1>1, <1>2, <1>3, <1>4, <1>5, <1>6, <1>7, <1>8, <1>9, <1>10, <1>11, <1>12, <1>13,
        <1>14, <1>15, <1>16 DEF Handle

\* Whoever changed the members last publishes the number it counted.
LEMMA CountsKept ==
    ASSUME Types, Life, Counts, [Next]_vars
    PROVE  Counts'
<1>1. CASE Restart
    BY <1>1 DEF Restart, Counts, Counted, Types, ClubSets, Life, IdleConn, NoRow
<1>2. CASE Drive \/ SaveFile \/ UNCHANGED vars
    <2>1. UNCHANGED <<creator, groups, members, countRow, conn, late, raced>>
        BY <1>2, DriveLeaves, SaveLeaves DEF vars, runtimeVars, rowVars, historyVars, markVars
    <2>. QED
        BY <2>1 DEF Counts, Counted
<1>3. CASE Delete
    <2>. USE DEF Types, Deletions, ClubSets, Life, Out, Counts, Counted, runtimeVars,
            rowVars, historyVars, markVars
    <2>1. CASE Evict
        BY <2>1 DEF Evict, Deleting
    <2>2. CASE ForgetPeople
        BY <2>2 DEF ForgetPeople, Deleting, Proceed
    <2>3. CASE ForgetSaveBegins
        BY <2>3 DEF ForgetSaveBegins, Deleting, Proceed, Marshal, SaveUnchanged
    <2>4. CASE ForgetSaveEnds
        BY <2>4 DEF ForgetSaveEnds, Deleting, Proceed, Fails, Saved, FileWritten, NoSave,
            SaveUnchanged
    <2>5. CASE ForgetPlayback
        BY <2>5 DEF ForgetPlayback, Deleting, Proceed, ConductorFree
    <2>6. CASE ForgetRows
        BY <2>6 DEF ForgetRows, Deleting, Proceed, Fails
    <2>7. CASE Purge
        BY <2>7 DEF Purge, Deleting, Proceed
    <2>8. CASE PurgeFails
        BY <2>8 DEF PurgeFails, Deleting, NoDeletion
    <2>9. CASE ReloadBegins
        BY <2>9 DEF ReloadBegins, Deleting, Proceed
    <2>10. CASE ReloadEnds
        BY <2>10 DEF ReloadEnds, Deleting, NoDeletion, NoReload
    <2>11. CASE ReloadFails
        BY <2>11 DEF ReloadFails, Deleting, NoDeletion, NoReload
    <2>. QED
        BY <1>3, <2>1, <2>2, <2>3, <2>4, <2>5, <2>6, <2>7, <2>8, <2>9, <2>10, <2>11
            DEF Delete
<1>. QED
    BY <1>1, <1>2, <1>3, CountsHandle DEF Next

-----------------------------------------------------------------------------
(* The theorems.                                                           *)

\* The inductive invariant.
Inv == Types /\ Locks /\ Life /\ Silence /\ Playback /\ Nothing
       /\ CapCounts /\ CapKnows /\ Overdraft

LEMMA InvInit == Init => Inv
BY TypesInit, LifeInit, SilenceInit, PlaybackInit, NothingInit, CapCountsInit, CapKnowsInit,
   OverdraftInit DEF Inv

LEMMA InvStep == Inv /\ [Next]_vars => Inv'
<1>. SUFFICES ASSUME Inv, [Next]_vars PROVE Inv'
    OBVIOUS
<1>1. Types'
    <2>1. CASE \E n \in Conns : Handle(n)
        BY <2>1, TypesHandle DEF Inv
    <2>2. CASE Drive \/ SaveFile \/ Delete \/ Restart
        BY <2>2, TypesOthers DEF Inv
    <2>3. CASE UNCHANGED vars
        BY <2>3 DEF Inv, Types, ClubSets, vars, runtimeVars, capVars, rowVars, sqVars,
            fileVars, historyVars, markVars
    <2>. QED
        BY <2>1, <2>2, <2>3 DEF Next
<1>. QED
    BY <1>1, LocksKept, LifeKept, SilenceKept, PlaybackKept, NothingKept, CapCountsKept,
       CapKnowsKept, OverdraftKept DEF Inv

\* The inductive invariant holds.
LEMMA InvAlways == Spec => []Inv
BY InvInit, InvStep, PTL DEF Spec

LEMMA InvTypeOK == Inv => TypeOK
<1>. SUFFICES ASSUME Inv PROVE TypeOK
    OBVIOUS
<1>1. counted \in [Accounts -> 0 .. Cardinality(Ids) + Cardinality(Conns)]
    <2>1. created \in SUBSET Ids
        BY DEF Inv, Types, ClubSets
    <2>2. ASSUME NEW a \in Accounts
          PROVE  Cardinality({ c \in created : creator[c] = a })
                   \in 0 .. Cardinality(Ids) + Cardinality(Conns)
        <3>1. { c \in created : creator[c] = a } \in SUBSET Ids
            BY <2>1
        <3>2. Cardinality({ c \in created : creator[c] = a }) <= Cardinality(Ids)
            BY <3>1, ConstantTypes, FS_Subset
        <3>3. Cardinality({ c \in created : creator[c] = a }) \in Nat
            BY <2>1, OwnedCounts
        <3>. QED
            BY <3>2, <3>3, ConstantTypes
    <2>. QED
        BY <2>2 DEF Inv, CapCounts, OwnedOf
<1>2. {groups, stageIdx, playing, ownerMem, created, creates, stageRows, npRows, sqState,
       sqOwner, retained, file, deleted, late, early, forgotten, raced} \subseteq SUBSET Ids
    BY DEF Inv, Types, ClubSets
<1>. QED
    BY <1>1, <1>2 DEF Inv, Types, Locks, TypeOK, Handlings, Saves, Deletions

LEMMA InvPlayback == Inv => PlaybackEndsWithTheClub
BY DEF Inv, Playback, PlaybackEndsWithTheClub

LEMMA InvNothing == Inv => DeletionLeavesNothing
BY DEF Inv, Types, ClubSets, Life, Out, Nothing, DeletionLeavesNothing

LEMMA InvCap == Inv => CapKnowsTheClubs
<1>. SUFFICES ASSUME Inv, Quiet, deletion.step = "idle", NEW a \in Accounts
              PROVE  /\ counted[a] >= OwnedOf(creates \ forgotten)[a]
                     /\ late = {} => counted[a] <= OwnedOf(creates)[a]
                     /\ late = {} /\ Cardinality(creates) <= QueryLimit =>
                          counted[a] = OwnedOf(creates)[a]
    BY DEF CapKnowsTheClubs
<1>. DEFINE Known == { c \in created : creator[c] = a }
            Found == { c \in creates \ forgotten : creator[c] = a }
            Stored == { c \in creates : creator[c] = a }
<1>1. created \in SUBSET Ids /\ creates \in SUBSET Ids /\ creates \ forgotten \in SUBSET Ids
    BY DEF Inv, Types, ClubSets
<1>2. creates \ forgotten \subseteq created
    BY DEF Inv, CapKnows, Counting, Creating, Quiet
<1>3. late = {} => created \subseteq creates
    BY DEF Inv, CapKnows
<1>4. late = {} /\ Cardinality(creates) <= QueryLimit => creates \subseteq created
    BY DEF Inv, CapKnows, OneQuery, FromCap, Counting, Creating, Quiet
<1>5. /\ IsFiniteSet(Known) /\ Cardinality(Known) \in Nat
      /\ Cardinality(Found) \in Nat
      /\ IsFiniteSet(Stored) /\ Cardinality(Stored) \in Nat
      /\ counted[a] = Cardinality(Known) /\ OwnedOf(creates)[a] = Cardinality(Stored)
      /\ OwnedOf(creates \ forgotten)[a] = Cardinality(Found)
    BY <1>1, OwnedCounts DEF Inv, CapCounts
<1>6. /\ Found \subseteq Known
      /\ late = {} => Known \subseteq Stored
      /\ late = {} /\ Cardinality(creates) <= QueryLimit => Known = Stored
    BY <1>2, <1>3, <1>4
<1>. HIDE DEF Known, Found, Stored
<1>7. Cardinality(Found) <= Cardinality(Known)
    BY <1>5, <1>6, FS_Subset
<1>8. late = {} => Cardinality(Known) <= Cardinality(Stored)
    BY <1>5, <1>6, FS_Subset
<1>. QED
    BY <1>5, <1>6, <1>7, <1>8

LEMMA InvOverdraft == Inv => OverdraftIsBounded
<1>. SUFFICES ASSUME Inv, NEW a \in Accounts
              PROVE  OwnedOf(creates \ forgotten)[a] <= MaxClubs + Cardinality(Conns) - 1
    BY DEF OverdraftIsBounded
<1>. DEFINE Stored == { c \in creates \ forgotten : creator[c] = a }
<1>1. creates \ forgotten \in SUBSET Ids
    BY DEF Inv, Types, ClubSets
<1>2. OwnedOf(creates \ forgotten)[a] = Cardinality(Stored) /\ Cardinality(Stored) \in Nat
    BY <1>1, OwnedCounts
<1>3. Stored \subseteq Claimed(a)
    BY <1>1 DEF Claimed
<1>. HIDE DEF Stored
<1>4. Cardinality(Stored) <= Cardinality(Claimed(a))
    BY <1>3, ClaimedCounts, FS_Subset
<1>. QED
    BY <1>2, <1>4, ClaimedCounts, ConstantTypes DEF Inv, Overdraft

\* The variables have their types: clubs, accounts, counts and steps, whatever the
\* handlers, the tick, the savers and the deletion do in between.
THEOREM TypeCorrect == Spec => []TypeOK
BY InvAlways, InvTypeOK, PTL

\* A club that the administrator was told is deleted is not played: the conductor
\* has it neither in memory nor in SQLite and no now_playing of it is stored
\* (conductor.deleteClub waits for the tick, and the purge comes after it), unless
\* its group was still to be made when it was taken out.
THEOREM PlaybackEnds == Spec => []PlaybackEndsWithTheClub
BY InvAlways, InvPlayback, PTL

\* Nothing is left of a deleted club that nobody handled an event about when it
\* was taken out (adminAPI.deleteClub and everything that it calls).
THEOREM LeavesNothing == Spec => []DeletionLeavesNothing
BY InvAlways, InvNothing, PTL

\* With nothing under way the cap counts every stored create event but those that
\* a query left out, and none more unless something came late; it is exact while
\* one query returns them all (clubCap.observeEvent and clubCap.reload).
THEOREM CapIsRight == Spec => []CapKnowsTheClubs
BY InvAlways, InvCap, PTL

\* However many creations pass the cap at once, an account exceeds it with the
\* clubs that no query left out by no more than one less than there are
\* connections (clubCap.reject).
THEOREM OverdraftBounded == Spec => []OverdraftIsBounded
BY InvAlways, InvOverdraft, PTL

\* A member change during which no count of the club was waiting to be published
\* leaves the right one, once nothing is under way (socialGuard.observe,
\* publishMemberCount).
THEOREM CountsAreCurrent == Spec => []MemberCountIsCurrent
<1>1. Init => Counts
    BY CountsInit
<1>2. Inv /\ Counts /\ [Next]_vars => Counts'
    BY CountsKept DEF Inv
<1>3. Inv /\ Counts => MemberCountIsCurrent
    <2>1. Inv /\ Quiet => \A n \in Conns, c \in Ids : ~Counted(n, c)
        BY DEF Inv, Life, Counted, Quiet
    <2>. QED
        BY <2>1 DEF Inv, Types, ClubSets, Counts, MemberCountIsCurrent
<1>. QED
    BY <1>1, <1>2, <1>3, InvAlways, PTL DEF Spec
=============================================================================
