------------------------------ MODULE BotProofs -------------------------------
(***************************************************************************)
(* What the chat was told stays in the queue, and the bot keeps its place  *)
(* on the stage, for every set of videos and commands, any number of       *)
(* reconnections and restarts.                                             *)
(***************************************************************************)
EXTENDS Bot, RoundRobinProofs, SequenceTheorems

-----------------------------------------------------------------------------
(* What is kept of a sequence.                                             *)

\* The function Kept defines by recursion exists: otherwise it would not for a
\* shortest prefix, and the one before can be extended.
LEMMA KeptIsDefined ==
    ASSUME NEW S, NEW s \in Seq(S), NEW at
    PROVE  \E f : f = [i \in 0..Len(s) |->
                          IF i = 0 THEN <<>>
                          ELSE IF i \in at THEN Append(f[i - 1], s[i]) ELSE f[i - 1]]
<1> DEFINE Step(f, i) == IF i = 0 THEN <<>>
                         ELSE IF i \in at THEN Append(f[i - 1], s[i]) ELSE f[i - 1]
           Defined(m) == \E f : f = [i \in 0..m |-> Step(f, i)]
           Bad == {m \in 0..Len(s) : ~Defined(m)}
<1>1. Len(s) \in Nat
  OBVIOUS
<1>2. Defined(0)
  <2>1. [i \in 0..0 |-> <<>>] = [i \in 0..0 |-> Step([j \in 0..0 |-> <<>>], i)]
    OBVIOUS
  <2> QED BY <2>1
<1>3. ASSUME NEW m \in 1..Len(s), Defined(m - 1) PROVE Defined(m)
  <2>1. PICK f : f = [i \in 0..(m - 1) |-> Step(f, i)]
    BY <1>3
  <2> DEFINE g == [i \in 0..m |-> IF i = m THEN Step(f, m) ELSE f[i]]
  <2>2. ASSUME NEW i \in 0..m PROVE g[i] = Step(g, i)
    <3>1. CASE i = m
      BY <3>1, <1>1
    <3>2. CASE i # m
      <4>1. i \in 0..(m - 1) /\ g[i] = f[i]
        BY <3>2, <1>1
      <4>2. f[i] = Step(f, i)
        BY <2>1, <4>1
      <4>3. i # 0 => g[i - 1] = f[i - 1]
        BY <4>1, <1>1
      <4> QED BY <4>1, <4>2, <4>3
    <3> QED BY <3>1, <3>2
  <2>3. g = [i \in 0..m |-> Step(g, i)]
    <3> DEFINE h == [i \in 0..m |-> Step(g, i)]
    <3>1. \A i \in 0..m : g[i] = h[i]
      BY <2>2
    <3>2. g = h
      BY <3>1
    <3> QED BY <3>2
  <2> HIDE DEF g, Step
  <2> QED BY <2>3
<1> HIDE DEF Defined
<1>4. \A m \in 0..Len(s) : Defined(m)
  <2>1. SUFFICES ASSUME Bad # {} PROVE FALSE
    OBVIOUS
  <2>2. Bad \in SUBSET Nat
    BY <1>1
  <2> HIDE DEF Bad
  <2>3. PICK m \in Bad : \A k \in Bad : m <= k
    BY <2>1, <2>2, LeastExists
  <2>4. m \in 1..Len(s) /\ ~Defined(m)
    BY <1>1, <1>2 DEF Bad
  <2>5. m - 1 \in 0..Len(s) /\ m - 1 \notin Bad
    BY <2>3, <2>4, <1>1
  <2> QED BY <2>4, <2>5, <1>3 DEF Bad
<1>5. Defined(Len(s))
  BY <1>1, <1>4
<1> QED BY <1>5 DEF Defined

\* Appending adds one element to the range.
LEMMA AppendRange ==
    ASSUME NEW S, NEW u \in Seq(S), NEW e \in S
    PROVE  Append(u, e) \in Seq(S) /\ Range(Append(u, e)) = Range(u) \cup {e}
<1>1. /\ Append(u, e) \in Seq(S) /\ Len(u) \in Nat
      /\ DOMAIN u = 1..Len(u)
      /\ DOMAIN Append(u, e) = 1..(Len(u) + 1)
      /\ Append(u, e)[Len(u) + 1] = e
      /\ \A i \in 1..Len(u) : Append(u, e)[i] = u[i]
  OBVIOUS
<1>2. ASSUME NEW x \in Range(Append(u, e)) PROVE x \in Range(u) \cup {e}
  <2>1. PICK i \in 1..(Len(u) + 1) : x = Append(u, e)[i]
    BY <1>1 DEF Range
  <2>2. CASE i = Len(u) + 1
    BY <1>1, <2>1, <2>2
  <2>3. CASE i # Len(u) + 1
    <3>1. i \in 1..Len(u)
      BY <1>1, <2>3
    <3> QED BY <1>1, <2>1, <3>1 DEF Range
  <2> QED BY <2>2, <2>3
<1>3. ASSUME NEW x \in Range(u) \cup {e} PROVE x \in Range(Append(u, e))
  <2>1. CASE x = e
    <3>1. Len(u) + 1 \in 1..(Len(u) + 1)
      BY <1>1
    <3> QED BY <1>1, <2>1, <3>1 DEF Range
  <2>2. CASE x \in Range(u)
    <3>1. PICK i \in 1..Len(u) : x = u[i]
      BY <1>1, <2>2 DEF Range
    <3>2. i \in 1..(Len(u) + 1)
      BY <1>1
    <3> QED BY <1>1, <3>1, <3>2 DEF Range
  <2> QED BY <2>1, <2>2, <1>3
<1> QED BY <1>1, <1>2, <1>3

\* Kept returns the elements at the places asked for.
LEMMA KeptRange ==
    ASSUME NEW S, NEW s \in Seq(S), NEW at
    PROVE  /\ Kept(s, at) \in Seq(S)
           /\ Range(Kept(s, at)) = {s[i] : i \in {j \in 1..Len(s) : j \in at}}
<1> DEFINE Step(f, i) == IF i = 0 THEN <<>>
                         ELSE IF i \in at THEN Append(f[i - 1], s[i]) ELSE f[i - 1]
           upTo == CHOOSE f : f = [i \in 0..Len(s) |-> Step(f, i)]
           Good(m) == /\ upTo[m] \in Seq(S)
                      /\ Range(upTo[m]) = {s[i] : i \in {j \in 1..m : j \in at}}
           Bad == {m \in 0..Len(s) : ~Good(m)}
<1>1. Kept(s, at) = upTo[Len(s)] /\ Len(s) \in Nat
  <2>1. Kept(s, at) = upTo[Len(s)]
    BY Zenon DEF Kept
  <2> QED BY <2>1
<1>2. upTo = [i \in 0..Len(s) |-> Step(upTo, i)]
  <2>1. \E f : f = [i \in 0..Len(s) |-> Step(f, i)]
    BY KeptIsDefined
  <2> QED BY Zenon, <2>1
<1> HIDE DEF upTo
<1>3. upTo[0] = <<>>
  BY <1>1, <1>2
<1>4. ASSUME NEW m \in 1..Len(s)
      PROVE  upTo[m] = IF m \in at THEN Append(upTo[m - 1], s[m]) ELSE upTo[m - 1]
  <2>1. m \in 0..Len(s) /\ m # 0
    BY <1>1
  <2>2. upTo[m] = Step(upTo, m)
    <3> HIDE DEF Step
    <3> QED BY <1>2, <2>1
  <2> QED BY <2>1, <2>2
<1>5. Good(0)
  <2>1. {s[i] : i \in {j \in 1..0 : j \in at}} = {}
    OBVIOUS
  <2> QED BY <1>3, <2>1 DEF Range
<1>6. ASSUME NEW m \in 1..Len(s), Good(m - 1) PROVE Good(m)
  <2> DEFINE u == upTo[m - 1]
  <2>1. u \in Seq(S) /\ Range(u) = {s[i] : i \in {j \in 1..(m - 1) : j \in at}} /\ s[m] \in S
    BY <1>6
  <2>2. upTo[m] = IF m \in at THEN Append(u, s[m]) ELSE u
    BY <1>4
  <2> HIDE DEF u
  <2>3. CASE m \in at
    <3>1. upTo[m] \in Seq(S) /\ Range(upTo[m]) = Range(u) \cup {s[m]}
      BY <2>1, <2>2, <2>3, AppendRange
    <3>2. {s[i] : i \in {j \in 1..m : j \in at}}
            = {s[i] : i \in {j \in 1..(m - 1) : j \in at}} \cup {s[m]}
      BY <1>1, <2>3
    <3> QED BY <2>1, <3>1, <3>2
  <2>4. CASE m \notin at
    <3>1. {j \in 1..m : j \in at} = {j \in 1..(m - 1) : j \in at}
      BY <1>1, <2>4
    <3> QED BY <2>1, <2>2, <2>4, <3>1
  <2> QED BY <2>3, <2>4
<1> HIDE DEF Good
<1>7. Good(Len(s))
  <2>1. SUFFICES ASSUME Bad # {} PROVE FALSE
    BY <1>1
  <2>2. Bad \in SUBSET Nat
    BY <1>1
  <2> HIDE DEF Bad
  <2>3. PICK m \in Bad : \A k \in Bad : m <= k
    BY <2>1, <2>2, LeastExists
  <2>4. m \in 1..Len(s) /\ ~Good(m)
    BY <1>1, <1>5 DEF Bad
  <2>5. m - 1 \in 0..Len(s) /\ m - 1 \notin Bad
    BY <2>3, <2>4, <1>1
  <2> QED BY <2>4, <2>5, <1>6 DEF Bad
<1> QED BY <1>1, <1>7 DEF Good

\* What is active in a row.
LEMMA ActiveRange ==
    ASSUME NEW row, row.tracks \in Seq(Track)
    PROVE  /\ Active(row) \in Seq(Videos)
           /\ Range(Active(row)) =
                {row.tracks[i].vid : i \in {j \in 1..Len(row.tracks) : row.tracks[j].active}}
<1> DEFINE at == {i \in DOMAIN row.tracks : row.tracks[i].active}
           tracks == Kept(row.tracks, at)
<1>1. /\ tracks \in Seq(Track)
      /\ Range(tracks) = {row.tracks[i] : i \in {j \in 1..Len(row.tracks) : j \in at}}
  BY KeptRange
<1>2. DOMAIN row.tracks = 1..Len(row.tracks)
  OBVIOUS
<1>3. Active(row) = [i \in DOMAIN tracks |-> tracks[i].vid]
  BY DEF Active
<1> HIDE DEF tracks
<1>4. /\ DOMAIN tracks = 1..Len(tracks) /\ Len(tracks) \in Nat
      /\ \A i \in 1..Len(tracks) : tracks[i].vid \in Videos
  <2>1. DOMAIN tracks = 1..Len(tracks) /\ Len(tracks) \in Nat
    BY <1>1
  <2>2. ASSUME NEW i \in 1..Len(tracks) PROVE tracks[i].vid \in Videos
    <3>1. tracks[i] \in Track
      BY <1>1
    <3> QED BY <3>1 DEF Track
  <2> QED BY <2>1, <2>2
<1>5. Active(row) \in Seq(Videos)
  BY <1>3, <1>4
<1>6. ASSUME NEW v
      PROVE  v \in Range(Active(row)) <=>
                \E j \in 1..Len(row.tracks) : row.tracks[j].active /\ row.tracks[j].vid = v
  <2>1. v \in Range(Active(row)) <=> \E t \in Range(tracks) : t.vid = v
    BY <1>3 DEF Range
  <2> QED BY <2>1, <1>1, <1>2
<1> QED BY <1>5, <1>6

-----------------------------------------------------------------------------
(* Types.                                                                  *)

SessionSteps == {"down", "load", "apply", "leave", "restore", "up", "dead"}
CommandSteps == {"idle", "pressed", "begin", "fetch", "merge", "publish", "stage"}
Row == [at : 0..clock, tracks : Seq(Track)]
Command == [cmd : {"none", "add", "remove", "playlist"}, step : CommandSteps,
            vids : Seq(Videos), off : BOOLEAN, current : Seq(Videos), live : BOOLEAN]

MemoryOK ==
    /\ queue \in Seq(Videos) /\ onStage \in BOOLEAN /\ since \in 1..MaxStarts
    /\ pending \in Results \cup {NoResults}

RowsOK ==
    /\ clock \in Nat
    /\ own \in Row /\ copy \in Row /\ idx \in Row

WorldOK ==
    /\ stageRow \in [on : BOOLEAN, since : 0..MaxStarts]
    /\ starts \in 1..MaxStarts
    /\ acknowledged \subseteq Videos /\ promised \subseteq Videos
    /\ overlapped \in BOOLEAN

SessionOK == session \in [step : SessionSteps, fetched : Row]

TypeInv == MemoryOK /\ RowsOK /\ WorldOK /\ SessionOK /\ command \in [Handlers -> Command]

LEMMA TypeInvImpliesTypeOK == TypeInv => TypeOK
<1> SUFFICES ASSUME TypeInv PROVE TypeOK
  OBVIOUS
<1>1. /\ queue \in Seq(Videos) /\ onStage \in BOOLEAN /\ since \in 1..MaxStarts
      /\ pending \in Results \cup {NoResults}
      /\ stageRow \in [on : BOOLEAN, since : 0..MaxStarts]
      /\ acknowledged \subseteq Videos /\ promised \subseteq Videos
  BY DEF TypeInv, MemoryOK, WorldOK
<1>2. session.step \in SessionSteps /\ session.fetched \in Row
  BY DEF TypeInv, SessionOK
<1>3. ASSUME NEW h \in Handlers
      PROVE  command[h].vids \in Seq(Videos) /\ command[h].current \in Seq(Videos)
  <2>1. command[h] \in Command
    BY DEF TypeInv
  <2> QED BY <2>1 DEF Command
<1>4. \A row \in {own, copy, idx, session.fetched} :
          row.at \in 0..clock /\ row.tracks \in Seq(Track)
  <2>1. \A row \in {own, copy, idx, session.fetched} : row \in Row
    BY <1>2 DEF TypeInv, RowsOK
  <2> QED BY <2>1 DEF Row
<1> QED BY <1>1, <1>2, <1>3, <1>4 DEF TypeOK, SessionSteps

\* The rows and commands the others are built from.
LEMMA ParametersTyped ==
    /\ NoRow.at = 0 /\ NoRow.tracks = <<>> /\ Down.step = "down" /\ Down.fetched = NoRow
    /\ TypeInv => NoRow \in Row
    /\ Idle \in Command
    /\ \A list \in Playlists \cup Results : list \in Seq(Videos)
    /\ MaxStarts \in Nat \ {0}
<1>1. TypeInv => 0 \in 0..clock
  BY DEF TypeInv, RowsOK
<1>2. <<>> \in Seq(Track) /\ <<>> \in Seq(Videos)
  OBVIOUS
<1> QED BY <1>1, <1>2, BotAssumption
    DEF BotAssumption, NoRow, Row, Idle, Command, CommandSteps, Down

\* Videos that are put in a row are active.
LEMMA OnRange ==
    ASSUME NEW vids \in Seq(Videos)
    PROVE  /\ On(vids) \in Seq(Track)
           /\ \A row : row.tracks = On(vids) => Range(Active(row)) = Range(vids)
<1>1. /\ DOMAIN vids = 1..Len(vids) /\ Len(vids) \in Nat
      /\ \A i \in 1..Len(vids) : vids[i] \in Videos
  OBVIOUS
<1>2. On(vids) \in [1..Len(vids) -> Track]
  BY <1>1 DEF On, Track
<1>3. On(vids) \in Seq(Track) /\ Len(On(vids)) = Len(vids)
  BY <1>1, <1>2
<1>4. \A i \in 1..Len(vids) : On(vids)[i].active /\ On(vids)[i].vid = vids[i]
  BY <1>1 DEF On
<1>5. ASSUME NEW row, row.tracks = On(vids) PROVE Range(Active(row)) = Range(vids)
  <2>1. Range(Active(row)) =
            {row.tracks[i].vid : i \in {j \in 1..Len(row.tracks) : row.tracks[j].active}}
    BY <1>3, <1>5, ActiveRange
  <2>2. Range(vids) = {vids[i] : i \in 1..Len(vids)}
    BY <1>1 DEF Range
  <2> QED BY <2>1, <2>2, <1>3, <1>4, <1>5
<1> QED BY <1>3, <1>5

\* A mark-off turns every entry of the video off, and no other.
LEMMA MarkRange ==
    ASSUME NEW row, row.tracks \in Seq(Track), NEW v,
           NEW new, new.tracks = MarkedOff(row.tracks, v)
    PROVE  /\ new.tracks \in Seq(Track)
           /\ Range(Active(new)) = Range(Active(row)) \ {v}
<1> DEFINE t == row.tracks
           u == new.tracks
<1>1. DOMAIN t = 1..Len(t) /\ Len(t) \in Nat
  OBVIOUS
<1>2. ASSUME NEW i \in 1..Len(t)
      PROVE  /\ u[i] \in Track /\ u[i].vid = t[i].vid
             /\ u[i].active <=> t[i].active /\ t[i].vid # v
  <2>1. t[i] \in Track
    BY <1>1
  <2>2. u[i] = [t[i] EXCEPT !.active = @ /\ t[i].vid # v]
    BY <1>1 DEF MarkedOff
  <2> QED BY <2>1, <2>2 DEF Track
<1>3. u \in Seq(Track) /\ Len(u) = Len(t)
  <2>1. u \in [1..Len(t) -> Track]
    BY <1>1, <1>2 DEF MarkedOff
  <2> QED BY <2>1, <1>1
<1>4. /\ Range(Active(new)) = {u[i].vid : i \in {j \in 1..Len(u) : u[j].active}}
      /\ Range(Active(row)) = {t[i].vid : i \in {j \in 1..Len(t) : t[j].active}}
  BY <1>3, ActiveRange
<1> HIDE DEF t, u
<1>5. ASSUME NEW x PROVE x \in Range(Active(new)) <=> x \in Range(Active(row)) \ {v}
  <2>1. x \in Range(Active(new)) <=> \E j \in 1..Len(t) : u[j].active /\ u[j].vid = x
    BY <1>3, <1>4
  <2>2. x \in Range(Active(row)) <=> \E j \in 1..Len(t) : t[j].active /\ t[j].vid = x
    BY <1>4
  <2>3. \A j \in 1..Len(t) :
           /\ u[j].vid = t[j].vid
           /\ u[j].active <=> t[j].active /\ t[j].vid # v
    BY <1>2
  <2> QED BY <2>1, <2>2, <2>3
<1> QED BY <1>3, <1>5 DEF u

LEMMA InitHasTypes == Init => TypeInv
<1> SUFFICES ASSUME Init PROVE TypeInv
  OBVIOUS
<1>1. clock = 0 /\ own = NoRow /\ copy = NoRow /\ idx = NoRow
  BY DEF Init
<1>2. NoRow \in Row
  BY <1>1 DEF NoRow, Row
<1>3. MemoryOK /\ WorldOK
  <2>1. 1 \in 1..MaxStarts /\ 0 \in 0..MaxStarts
    BY ParametersTyped
  <2>2. MemoryOK
    BY <2>1 DEF Init, MemoryOK
  <2>3. WorldOK
    BY <2>1 DEF Init, WorldOK
  <2> QED BY <2>2, <2>3
<1>4. RowsOK
  BY <1>1, <1>2 DEF RowsOK
<1>5. SessionOK
  BY <1>2 DEF Init, SessionOK, Down, SessionSteps
<1>6. command \in [Handlers -> Command]
  BY ParametersTyped DEF Init
<1> QED BY <1>3, <1>4, <1>5, <1>6 DEF TypeInv

\* The clock only goes on, and the rows with it.
LEMMA RowsStay ==
    ASSUME TypeInv, clock' \in Nat, clock <= clock'
    PROVE  \A row \in Row : row \in Row'
BY DEF Row, TypeInv, RowsOK

\* What a fetch may find, and what is stored and indexed, are rows.
LEMMA FetchedIsARow ==
    ASSUME TypeInv, NEW row \in Fetched
    PROVE  row \in Row /\ Active(row) \in Seq(Videos)
<1>1. row \in {own, copy, NoRow}
  BY DEF Fetched, Stored
<1>2. row \in Row
  BY <1>1, ParametersTyped DEF TypeInv, RowsOK
<1> QED BY <1>2, ActiveRange DEF Row

LEMMA StampsGrow ==
    ASSUME TypeInv, NEW s \in Stamps
    PROVE  s \in Nat /\ clock <= s /\ (OneEditASecond => s = clock + 1)
BY DEF Stamps, TypeInv, RowsOK

LEMMA StoreKeepsRows ==
    ASSUME TypeInv, NEW vids \in Seq(Videos), Store(vids), UNCHANGED copy
    PROVE  RowsOK' /\ \A row \in Row : row \in Row'
<1>1. PICK s \in Stamps : /\ own' \in Replaced(own, [at |-> s, tracks |-> On(vids)])
                          /\ idx' = Indexed([at |-> s, tracks |-> On(vids)])
                          /\ clock' = s
  BY DEF Store
<1>2. clock' \in Nat /\ clock <= clock'
  BY <1>1, StampsGrow
<1>3. [at |-> s, tracks |-> On(vids)] \in Row'
  BY <1>1, <1>2, OnRange DEF Row
<1>4. \A row \in Row : row \in Row'
  BY <1>2, RowsStay
<1> QED BY <1>1, <1>2, <1>3, <1>4 DEF TypeInv, RowsOK, Replaced, Indexed

LEMMA MarkKeepsRows ==
    ASSUME TypeInv, NEW v, Mark(v)
    PROVE  RowsOK' /\ \A row \in Row : row \in Row'
<1>1. PICK s \in Stamps :
          /\ copy' \in Replaced(copy, [at |-> s, tracks |-> MarkedOff(idx.tracks, v)])
          /\ idx' = Indexed([at |-> s, tracks |-> MarkedOff(idx.tracks, v)])
          /\ clock' = s
  BY DEF Mark
<1> DEFINE new == [at |-> s, tracks |-> MarkedOff(idx.tracks, v)]
<1>2. clock' \in Nat /\ clock <= clock'
  BY <1>1, StampsGrow
<1>3. MarkedOff(idx.tracks, v) \in Seq(Track)
  <2>1. idx.tracks \in Seq(Track)
    BY DEF TypeInv, RowsOK, Row
  <2>2. new.tracks = MarkedOff(idx.tracks, v)
    OBVIOUS
  <2> HIDE DEF new
  <2>3. new.tracks \in Seq(Track)
    BY <2>1, <2>2, MarkRange
  <2> QED BY <2>2, <2>3
<1>4. new \in Row'
  BY <1>1, <1>2, <1>3 DEF Row
<1>5. \A row \in Row : row \in Row'
  BY <1>2, RowsStay
<1>6. UNCHANGED own
  BY DEF Mark
<1> QED BY <1>1, <1>2, <1>4, <1>5, <1>6 DEF TypeInv, RowsOK, Replaced, Indexed

\* A step that leaves the rows alone leaves them rows.
LEMMA RowsUnchanged ==
    ASSUME TypeInv, UNCHANGED rows
    PROVE  RowsOK' /\ Row' = Row
BY DEF TypeInv, RowsOK, Row, rows

LEMMA SessionHasTypes ==
    ASSUME TypeInv, Session \/ Drop \/ Notice
    PROVE  TypeInv'
<1>1. UNCHANGED rows
  BY DEF Session, Drop, Notice, Connect, Load, Apply, LeaveStage, LeaveFails, Restore,
         Heartbeat
<1>2. RowsOK' /\ Row' = Row
  BY <1>1, RowsUnchanged
<1>3. /\ session.step \in SessionSteps /\ session.fetched \in Row /\ NoRow \in Row
      /\ Active(session.fetched) \in Seq(Videos)
  BY ParametersTyped, ActiveRange DEF TypeInv, SessionOK, Row
<1>4. SessionOK'
  <2>1. \A step \in SessionSteps :
           SessionGoes(step) => session' \in [step : SessionSteps, fetched : Row]
    BY <1>3 DEF SessionGoes, Down
  <2>2. CASE Load
    <3>1. PICK row \in Fetched : session' = [step |-> "apply", fetched |-> row]
      BY <2>2 DEF Load
    <3> QED BY <1>2, <3>1, FetchedIsARow DEF SessionOK, SessionSteps
  <2>3. CASE ~Load
    BY <1>2, <1>3, <2>1, <2>3
       DEF Session, Drop, Notice, Connect, Apply, LeaveStage, LeaveFails, Restore,
           Heartbeat, SessionOK, SessionSteps, Down, TypeInv
  <2> QED BY <2>2, <2>3
<1>5. MemoryOK'
  <2>1. CASE Apply
    BY <1>3, <2>1 DEF Apply, TypeInv, MemoryOK
  <2>2. CASE Restore
    <3>1. stageRow.since \in 0..MaxStarts
      BY DEF TypeInv, WorldOK
    <3>2. since' \in 1..MaxStarts
      BY <2>2, <3>1, ParametersTyped DEF Restore, TypeInv, MemoryOK
    <3> QED BY <2>2, <3>2 DEF Restore, TypeInv, MemoryOK
  <2>3. CASE ~Apply /\ ~Restore
    <3>1. UNCHANGED memory
      BY <2>3 DEF Session, Drop, Notice, Connect, Load, LeaveStage, LeaveFails, Heartbeat,
             memory
    <3> QED BY <3>1 DEF memory, TypeInv, MemoryOK
  <2> QED BY <2>1, <2>2, <2>3
<1>6. WorldOK'
  <2>1. UNCHANGED <<starts, acknowledged, promised, overlapped>>
    BY DEF Session, Drop, Notice, Connect, Load, Apply, LeaveStage, LeaveFails, Restore,
           Heartbeat
  <2>2. stageRow' \in [on : BOOLEAN, since : 0..MaxStarts]
    <3>1. \A on \in BOOLEAN : [on |-> on, since |-> since] \in [on : BOOLEAN, since : 0..MaxStarts]
      BY ParametersTyped DEF TypeInv, MemoryOK
    <3>2. \/ UNCHANGED stageRow
          \/ stageRow' = [on |-> FALSE, since |-> since]
          \/ stageRow' = [on |-> TRUE, since |-> since]
      BY DEF Session, Drop, Notice, Connect, Load, Apply, LeaveStage, LeaveFails, Restore,
             Heartbeat
    <3> QED BY <3>1, <3>2 DEF TypeInv, WorldOK
  <2> QED BY <2>1, <2>2 DEF TypeInv, WorldOK
<1>7. command' \in [Handlers -> Command]
  <2>1. CASE Drop
    <3>1. ASSUME NEW h \in Handlers PROVE [command[h] EXCEPT !.live = FALSE] \in Command
      BY DEF TypeInv, Command
    <3> QED BY <2>1, <3>1 DEF Drop
  <2>2. CASE ~Drop
    BY <2>2 DEF Session, Notice, Connect, Load, Apply, LeaveStage, LeaveFails, Restore,
         Heartbeat, TypeInv
  <2> QED BY <2>1, <2>2
<1> QED BY <1>2, <1>4, <1>5, <1>6, <1>7 DEF TypeInv

LEMMA CrashHasTypes == ASSUME TypeInv, Crash PROVE TypeInv'
<1>1. RowsOK' /\ Row' = Row
  BY RowsUnchanged DEF Crash
<1>2. starts' \in 1..MaxStarts
  BY ParametersTyped DEF Crash, TypeInv, WorldOK
<1>3. MemoryOK' /\ WorldOK'
  BY <1>2 DEF Crash, TypeInv, MemoryOK, WorldOK
<1>4. SessionOK' /\ command' \in [Handlers -> Command]
  BY <1>1, ParametersTyped DEF Crash, SessionOK, SessionSteps, Down
<1> QED BY <1>1, <1>3, <1>4 DEF TypeInv

\* A command that goes on in memory alone.
LEMMA CommandHasTypes ==
    ASSUME TypeInv, NEW h \in Handlers, NEW w \in Command, HandlerGoes(h, w),
           UNCHANGED <<rows, session>>, MemoryOK', WorldOK'
    PROVE  TypeInv'
<1>1. RowsOK' /\ Row' = Row
  BY RowsUnchanged
<1>2. command' \in [Handlers -> Command]
  BY DEF HandlerGoes, TypeInv
<1> QED BY <1>1, <1>2 DEF TypeInv, SessionOK

LEMMA ChatHasTypes == ASSUME TypeInv, Chat PROVE TypeInv'
<1>1. ASSUME NEW h \in Handlers, NEW cmd \in {"add", "remove", "playlist"},
             NEW step \in CommandSteps, NEW vids \in Seq(Videos), Begin(h, cmd, step, vids)
      PROVE  TypeInv'
  <2> DEFINE w == [Idle EXCEPT !.cmd = cmd, !.step = step, !.vids = vids,
                               !.live = session.step = "up"]
  <2>1. w \in Command
    BY ParametersTyped DEF Command
  <2>2. MemoryOK' /\ WorldOK'
    BY <1>1 DEF Begin, Starts, TypeInv, MemoryOK, WorldOK, memory
  <2>3. HandlerGoes(h, w) /\ UNCHANGED <<rows, session>>
    BY <1>1 DEF Begin
  <2> QED BY <2>1, <2>2, <2>3, CommandHasTypes
<1>2. ASSUME NEW h \in Handlers, NEW i \in 1..2, Press(h, i) PROVE TypeInv'
  <2> DEFINE w == [Idle EXCEPT !.cmd = "add", !.step = "pressed", !.vids = <<pending[i]>>]
  <2>1. pending[i] \in Videos
    <3>1. pending \in Seq(Videos)
      <4>1. <<>> \in Seq(Videos)
        OBVIOUS
      <4> QED BY <4>1, ParametersTyped DEF TypeInv, MemoryOK, NoResults
    <3> QED BY <1>2, <3>1 DEF Press
  <2>2. w \in Command
    <3>1. <<pending[i]>> \in Seq(Videos)
      BY <2>1
    <3> QED BY <3>1, ParametersTyped DEF Command, CommandSteps
  <2>3. MemoryOK' /\ WorldOK'
    BY <1>2 DEF Press, Starts, TypeInv, MemoryOK, WorldOK, memory
  <2>4. HandlerGoes(h, w) /\ UNCHANGED <<rows, session>>
    BY <1>2 DEF Press
  <2> QED BY <2>2, <2>3, <2>4, CommandHasTypes
<1>3. ASSUME NEW list \in Results, Search(list) PROVE TypeInv'
  <2>1. RowsOK' /\ Row' = Row
    BY <1>3, RowsUnchanged DEF Search
  <2>2. MemoryOK' /\ WorldOK'
    BY <1>3 DEF Search, TypeInv, MemoryOK, WorldOK
  <2> QED BY <1>3, <2>1, <2>2 DEF Search, TypeInv, SessionOK
<1>4. ASSUME NEW h \in Handlers, NEW v \in Videos, CmdAdd(h, v) \/ CmdRemove(h, v)
      PROVE  TypeInv'
  <2>1. <<v>> \in Seq(Videos)
    OBVIOUS
  <2> QED BY <1>1, <1>4, <2>1 DEF CmdAdd, CmdRemove, CommandSteps
<1>5. ASSUME NEW h \in Handlers, NEW list \in Playlists, CmdAddPlaylist(h, list)
      PROVE  TypeInv'
  BY <1>1, <1>5, ParametersTyped DEF CmdAddPlaylist, CommandSteps
<1> QED BY <1>2, <1>3, <1>4, <1>5 DEF Chat

LEMMA WorkHasTypes == ASSUME TypeInv, NEW h \in Handlers, Work(h) PROVE TypeInv'
<1> DEFINE w == command[h]
<1>1. w \in Command /\ queue \in Seq(Videos)
  BY DEF TypeInv, MemoryOK
<1>2. CASE TakeSelection(h)
  <2> DEFINE next == IF session.step \in Connected
                       THEN [w EXCEPT !.step = "begin", !.live = session.step = "up"]
                       ELSE Idle
  <2>1. next \in Command
    BY <1>1, ParametersTyped DEF Command, CommandSteps
  <2>2. MemoryOK' /\ WorldOK'
    <3>1. Range(w.vids) \subseteq Videos
      BY <1>1 DEF Command, Range
    <3> QED BY <1>2, <3>1 DEF TakeSelection, TypeInv, MemoryOK, WorldOK
  <2>3. HandlerGoes(h, next) /\ UNCHANGED <<rows, session>>
    BY <1>2 DEF TakeSelection, Finished
  <2> QED BY <2>1, <2>2, <2>3, CommandHasTypes
<1>3. CASE LookAtStage(h)
  <2> DEFINE next == [w EXCEPT !.off = ~onStage,
                               !.step = IF onStage THEN "fetch" ELSE "merge"]
  <2>1. next \in Command
    BY <1>1 DEF Command, CommandSteps, TypeInv, MemoryOK
  <2>2. MemoryOK' /\ WorldOK'
    BY <1>3 DEF LookAtStage, TypeInv, MemoryOK, WorldOK, memory
  <2>3. HandlerGoes(h, next) /\ UNCHANGED <<rows, session>>
    BY <1>3 DEF LookAtStage
  <2> QED BY <2>1, <2>2, <2>3, CommandHasTypes
<1>4. CASE Fetch(h)
  <2>1. PICK row \in Fetched \cup {NoRow} :
            HandlerGoes(h, [w EXCEPT !.current = Active(row), !.step = "merge"])
    BY <1>4 DEF Fetch
  <2>2. Active(row) \in Seq(Videos)
    <3>1. CASE row \in Fetched
      BY <3>1, FetchedIsARow
    <3>2. CASE row = NoRow
      BY <3>2, ParametersTyped, ActiveRange DEF Row
    <3> QED BY <3>1, <3>2
  <2>3. [w EXCEPT !.current = Active(row), !.step = "merge"] \in Command
    BY <1>1, <2>2 DEF Command, CommandSteps
  <2>4. MemoryOK' /\ WorldOK' /\ UNCHANGED <<rows, session>>
    BY <1>4 DEF Fetch, TypeInv, MemoryOK, WorldOK, memory
  <2> QED BY <2>1, <2>3, <2>4, CommandHasTypes
<1>5. CASE Merge(h)
  <2> DEFINE q == Base(w) \o w.vids
  <2>1. Base(w) \in Seq(Videos) /\ w.vids \in Seq(Videos)
    BY <1>1 DEF Base, Command
  <2>2. q \in Seq(Videos)
    BY <2>1
  <2>3. queue' = q /\ HandlerGoes(h, [w EXCEPT !.current = q, !.step = "publish"])
    BY <1>5 DEF Merge
  <2> HIDE DEF q
  <2>4. [w EXCEPT !.current = q, !.step = "publish"] \in Command
    BY <1>1, <2>2 DEF Command, CommandSteps
  <2>5. MemoryOK' /\ WorldOK' /\ UNCHANGED <<rows, session>>
    BY <1>5, <2>2, <2>3 DEF Merge, TypeInv, MemoryOK, WorldOK
  <2> QED BY <2>3, <2>4, <2>5, CommandHasTypes
<1>6. CASE TakeOut(h)
  <2> DEFINE next == Kept(w.current, {i \in DOMAIN w.current : w.current[i] \notin Range(w.vids)})
  <2>1. next \in Seq(Videos)
    BY <1>1, KeptRange DEF Command
  <2>2. \/ HandlerGoes(h, Idle) /\ UNCHANGED queue
        \/ queue' = next /\ HandlerGoes(h, [w EXCEPT !.current = next, !.step = "publish"])
    BY <1>6 DEF TakeOut, Finished
  <2> HIDE DEF next
  <2>3. [w EXCEPT !.current = next, !.step = "publish"] \in Command
    BY <1>1, <2>1 DEF Command, CommandSteps
  <2>4. MemoryOK' /\ WorldOK' /\ UNCHANGED <<rows, session>>
    BY <1>1, <1>6, <2>1, <2>2 DEF TakeOut, TypeInv, MemoryOK, WorldOK
  <2> QED BY <2>2, <2>3, <2>4, ParametersTyped, CommandHasTypes
<1>7. CASE Publish(h) \/ PublishUnheard(h)
  <2>1. Store(w.current) /\ UNCHANGED <<copy, session, memory, stageRow, starts, overlapped>>
    BY <1>7 DEF Publish, PublishUnheard
  <2>2. w.current \in Seq(Videos) /\ w.vids \in Seq(Videos)
    BY <1>1 DEF Command
  <2>3. RowsOK' /\ \A row \in Row : row \in Row'
    BY <2>1, <2>2, StoreKeepsRows
  <2>4. Range(w.vids) \subseteq Videos
    BY <2>2 DEF Range
  <2>5. acknowledged' \subseteq Videos /\ promised' \subseteq Videos
    BY <1>7, <2>4 DEF Publish, PublishUnheard, Added, TypeInv, WorldOK
  <2>6. MemoryOK' /\ WorldOK'
    BY <2>1, <2>5 DEF TypeInv, MemoryOK, WorldOK, memory
  <2>7. command' \in [Handlers -> Command]
    <3>1. [w EXCEPT !.step = "stage"] \in Command
      BY <1>1 DEF Command, CommandSteps
    <3> QED BY <1>7, <3>1, ParametersTyped
               DEF Publish, PublishUnheard, Finished, HandlerGoes, TypeInv
  <2>8. SessionOK'
    BY <2>1, <2>3 DEF TypeInv, SessionOK
  <2> QED BY <2>3, <2>6, <2>7, <2>8 DEF TypeInv
<1>8. CASE PublishFails(h) \/ Rejoin(h)
  <2>1. HandlerGoes(h, Idle) /\ UNCHANGED <<rows, session>>
    BY <1>8 DEF PublishFails, Rejoin, Finished
  <2>2. MemoryOK' /\ WorldOK'
    <3>1. [on |-> TRUE, since |-> since] \in [on : BOOLEAN, since : 0..MaxStarts]
      BY ParametersTyped DEF TypeInv, MemoryOK
    <3> QED BY <1>8, <3>1 DEF PublishFails, Rejoin, TypeInv, MemoryOK, WorldOK, memory
  <2> QED BY <2>1, <2>2, ParametersTyped, CommandHasTypes
<1> QED BY <1>2, <1>3, <1>4, <1>5, <1>6, <1>7, <1>8 DEF Work

LEMMA NextHasTypes == TypeInv /\ [Next]_vars => TypeInv'
<1> SUFFICES ASSUME TypeInv, [Next]_vars PROVE TypeInv'
  OBVIOUS
<1>1. CASE Session \/ Drop \/ Notice
  BY <1>1, SessionHasTypes
<1>2. CASE Crash
  BY <1>2, CrashHasTypes
<1>3. CASE Chat
  BY <1>3, ChatHasTypes
<1>4. CASE \E h \in Handlers : Work(h)
  BY <1>4, WorkHasTypes
<1>5. ASSUME NEW v \in Videos, Mark(v) PROVE TypeInv'
  <2>1. RowsOK' /\ \A row \in Row : row \in Row'
    BY <1>5, MarkKeepsRows
  <2>2. MemoryOK' /\ WorldOK'
    BY <1>5 DEF Mark, TypeInv, MemoryOK, WorldOK, memory
  <2>3. SessionOK' /\ command' \in [Handlers -> Command]
    BY <1>5, <2>1 DEF Mark, TypeInv, SessionOK
  <2> QED BY <2>1, <2>2, <2>3 DEF TypeInv
<1>6. CASE UNCHANGED vars
  <2>1. RowsOK' /\ Row' = Row
    BY <1>6, RowsUnchanged DEF vars
  <2> QED BY <1>6, <2>1 DEF vars, memory, TypeInv, MemoryOK, WorldOK, SessionOK
<1> QED BY <1>1, <1>2, <1>3, <1>4, <1>5, <1>6 DEF Next

LEMMA TypesAlways == Spec => []TypeInv
BY InitHasTypes, NextHasTypes, PTL DEF Spec

\* The bot's state keeps its shape in every reachable state: queues hold videos
\* only, no row is newer than the clock, and a since is the time of some start
\* of the process (newBridge, loadQueue, addTrack).
THEOREM TypeCorrect == Spec => []TypeOK
BY TypesAlways, TypeInvImpliesTypeOK, PTL

-----------------------------------------------------------------------------
(* The queue keeps what was acknowledged.                                  *)

\* The conductor's row of the bot is the newest there is.
NewestIndexed ==
    /\ clock = 0 => own = NoRow /\ copy = NoRow /\ idx = NoRow
    /\ idx.at = clock
    /\ idx \in {own, copy}
    /\ \A row \in {own, copy} : row.at = clock => row = idx

\* A command that can still publish runs beside the connection it began with.
LiveIsUp == \A h \in Handlers : command[h].live => session.step = "up"

\* A press adds one track.
PressesAdd ==
    \A h \in Handlers : command[h].step = "pressed" => command[h].cmd = "add"

Alone == ~overlapped => \A g, h \in Busy : g = h

\* The session decides on a row that is still the newest, if it leaves the stage.
FetchedStands ==
    session.step = "apply" /\ Exhausted(session.fetched) => idx = session.fetched

\* What a live command is about to publish holds what was acknowledged.
Carried(w) ==
    /\ w.step = "fetch" => ~w.off
    /\ w.step = "merge" => acknowledged \subseteq (IF w.off THEN {} ELSE Range(w.current))
    /\ w.step = "publish" =>
          /\ acknowledged \ TakenOut(w) \subseteq Range(w.current)
          /\ w.cmd # "remove" => onStage /\ Range(w.vids) \subseteq Range(w.current)
    /\ w.cmd \notin {"add", "remove"} => onStage

Told ==
    /\ acknowledged \subseteq Range(Active(idx))
    /\ ~onStage => acknowledged = {}
    /\ \A h \in Handlers : command[h].live => Carried(command[h])

KeepInv ==
    /\ NewestIndexed /\ LiveIsUp /\ PressesAdd /\ Alone /\ FetchedStands
    /\ ~overlapped => Told

\* Nothing is fetched but the newest row.
LEMMA FetchedIsNewest ==
    ASSUME TypeInv, NewestIndexed, ~Timeouts, NEW row \in Fetched
    PROVE  row = idx
<1> DEFINE Newest(S) == {r \in S : \A q \in S : q.at <= r.at}
<1>1. row \in (IF Stored = {} THEN {NoRow} ELSE Newest(Stored))
  BY DEF Fetched
<1>2. own.at \in Nat /\ copy.at \in Nat /\ idx.at \in Nat /\ clock \in Nat
      /\ own.at <= clock /\ copy.at <= clock
  BY DEF TypeInv, RowsOK, Row
<1>3. CASE clock = 0
  <2>1. Stored = {}
    BY <1>2, <1>3 DEF Stored
  <2> QED BY <1>1, <1>3, <2>1 DEF NewestIndexed
<1>4. CASE clock > 0
  <2>1. idx \in Stored
    BY <1>2, <1>4 DEF Stored, NewestIndexed
  <2>2. row \in Stored /\ idx.at <= row.at
    BY <1>1, <2>1
  <2>3. row \in {own, copy} /\ row.at = clock
    BY <2>2, <1>2 DEF Stored, NewestIndexed
  <2> QED BY <2>3 DEF NewestIndexed
<1> QED BY <1>2, <1>3, <1>4

\* A row that is written is the newest.
LEMMA WrittenIsNewest ==
    ASSUME TypeInv, NewestIndexed, OneEditASecond, NEW s \in Stamps, NEW tracks,
           LET new == [at |-> s, tracks |-> tracks]
           IN  /\ idx' = Indexed(new)
               /\ clock' = s
               /\ \/ own' \in Replaced(own, new) /\ UNCHANGED copy
                  \/ copy' \in Replaced(copy, new) /\ UNCHANGED own
    PROVE  NewestIndexed' /\ idx'.tracks = tracks
<1> DEFINE new == [at |-> s, tracks |-> tracks]
<1>1. s = clock + 1 /\ clock \in Nat
  BY StampsGrow DEF TypeInv, RowsOK
<1>2. own.at <= clock /\ copy.at <= clock /\ idx.at = clock /\ own.at \in Nat /\ copy.at \in Nat
  BY DEF TypeInv, RowsOK, Row, NewestIndexed
<1>3. new.at = s /\ new.tracks = tracks
  OBVIOUS
<1>4. /\ idx' = Indexed(new) /\ clock' = s
      /\ \/ own' \in Replaced(own, new) /\ UNCHANGED copy
         \/ copy' \in Replaced(copy, new) /\ UNCHANGED own
  OBVIOUS
<1> HIDE DEF new
<1>5. idx' = new
  BY <1>1, <1>2, <1>3, <1>4 DEF Indexed
<1>6. (own' = new /\ copy' = copy) \/ (copy' = new /\ own' = own)
  BY <1>1, <1>2, <1>3, <1>4 DEF Replaced
<1> QED BY <1>1, <1>2, <1>3, <1>4, <1>5, <1>6 DEF NewestIndexed

\* A command that goes on in memory alone.
LEMMA CommandKeeps ==
    ASSUME TypeInv, KeepInv, NEW h \in Handlers, h \in Busy, NEW w, HandlerGoes(h, w),
           UNCHANGED <<rows, session, acknowledged, overlapped>>, onStage => onStage',
           w.live => session.step = "up", w.step # "pressed",
           ~overlapped /\ w.live => Carried(w)'
    PROVE  KeepInv'
<1>1. /\ command'[h] = w
      /\ \A g \in Handlers \ {h} : command'[g] = command[g]
  BY DEF HandlerGoes, TypeInv
<1>2. Busy' \subseteq Busy
  BY <1>1 DEF Busy
<1>3. NewestIndexed' /\ FetchedStands'
  BY DEF KeepInv, NewestIndexed, FetchedStands, rows, Exhausted, Active
<1>4. LiveIsUp' /\ PressesAdd' /\ Alone'
  BY <1>1, <1>2 DEF KeepInv, LiveIsUp, PressesAdd, Alone
<1>5. ASSUME ~overlapped' PROVE Told'
  <2>1. \A g \in Handlers \ {h} : command[g] = Idle
    BY <1>5 DEF KeepInv, Alone, Busy
  <2>2. \A g \in Handlers : command'[g].live => g = h
    BY <1>1, <2>1 DEF Idle
  <2>3. acknowledged' \subseteq Range(Active(idx))'
    BY <1>5 DEF KeepInv, Told, rows
  <2>4. ~onStage' => acknowledged' = {}
    BY <1>5 DEF KeepInv, Told
  <2>5. \A g \in Handlers : command'[g].live => Carried(command[g])'
    <3>1. w.live => Carried(w)'
      BY <1>5
    <3>2. ASSUME NEW g \in Handlers, command'[g].live PROVE Carried(command[g])'
      <4>1. g = h
        BY <2>2, <3>2
      <4>2. command'[g] = w
        BY <1>1, <4>1
      <4> QED BY <3>1, <3>2, <4>2 DEF Carried, TakenOut
    <3> QED BY <3>2
  <2> QED BY <2>3, <2>4, <2>5 DEF Told
<1> QED BY <1>3, <1>4, <1>5 DEF KeepInv

LEMMA SessionKeeps ==
    ASSUME TypeInv, KeepInv, ~Timeouts, Session \/ Drop \/ Notice
    PROVE  KeepInv'
<1>1. UNCHANGED <<rows, acknowledged, overlapped>>
  BY DEF Session, Drop, Notice, Connect, Load, Apply, LeaveStage, LeaveFails, Restore,
         Heartbeat
<1>2. NewestIndexed' /\ acknowledged \subseteq Videos
  BY <1>1 DEF KeepInv, NewestIndexed, rows, TypeInv, WorldOK
<1>3. ASSUME NEW h \in Handlers
      PROVE  /\ command'[h].live => command[h].live
             /\ command[h].live /\ ~Drop => command'[h] = command[h]
             /\ command[h] = Idle => command'[h] = Idle
             /\ command'[h].step = command[h].step /\ command'[h].cmd = command[h].cmd
             /\ Drop => ~command'[h].live
  <2>1. CASE Drop
    <3>1. command[h] \in Command
      BY DEF TypeInv
    <3>2. command'[h] = [command[h] EXCEPT !.live = FALSE]
      BY <2>1 DEF Drop
    <3>3. command[h] = Idle => [command[h] EXCEPT !.live = FALSE] = Idle
      <4>1. Idle \in Command /\ Idle.live = FALSE
        BY ParametersTyped DEF Idle
      <4>2. \A w \in Command : w.live = FALSE => [w EXCEPT !.live = FALSE] = w
        BY DEF Command
      <4> QED BY <4>1, <4>2
    <3> QED BY <2>1, <3>1, <3>2, <3>3 DEF Command
  <2>2. CASE ~Drop
    BY <2>2 DEF Session, Notice, Connect, Load, Apply, LeaveStage, LeaveFails, Restore,
           Heartbeat
  <2> QED BY <2>1, <2>2
<1>4. Alone' /\ PressesAdd'
  BY <1>1, <1>3 DEF KeepInv, Alone, PressesAdd, Busy
<1>5. LiveIsUp'
  <2>1. CASE Drop
    BY <1>3, <2>1 DEF LiveIsUp
  <2>2. CASE Heartbeat
    BY <1>3, <2>2 DEF KeepInv, LiveIsUp, Heartbeat
  <2>3. CASE session.step # "up"
    BY <1>3, <2>3 DEF KeepInv, LiveIsUp
  <2> QED BY <2>1, <2>2, <2>3 DEF Session, Notice, Connect, Load, Apply, LeaveStage,
             LeaveFails, Restore, Heartbeat
<1>6. FetchedStands'
  <2>1. CASE Load
    <3>1. PICK row \in Fetched : session' = [step |-> "apply", fetched |-> row]
      BY <2>1 DEF Load
    <3>2. row = idx
      BY FetchedIsNewest DEF KeepInv
    <3> QED BY <1>1, <3>1, <3>2 DEF FetchedStands, rows
  <2>2. CASE ~Load
    <3>1. session'.step # "apply" \/ session' = session
      BY <2>2 DEF Session, Drop, Notice, Connect, Apply, LeaveStage, LeaveFails, Restore,
             Heartbeat, SessionGoes, Down
    <3> QED BY <1>1, <3>1 DEF KeepInv, FetchedStands, rows, Exhausted, Active
  <2> QED BY <2>1, <2>2
<1>7. ASSUME ~overlapped' PROVE Told'
  <2>1. Told
    BY <1>1, <1>7 DEF KeepInv
  <2>2. acknowledged' \subseteq Range(Active(idx))'
    BY <1>1, <2>1 DEF Told, rows
  <2>3. CASE onStage => onStage'
    <3>1. ~onStage' => acknowledged' = {}
      BY <1>1, <2>1, <2>3 DEF Told
    <3>2. ASSUME NEW h \in Handlers, command'[h].live PROVE Carried(command[h])'
      <4>1. command'[h] = command[h] /\ Carried(command[h])
        BY <1>3, <2>1, <3>2 DEF Told
      <4> QED BY <1>1, <2>3, <4>1 DEF Carried, TakenOut
    <3> QED BY <2>2, <3>1, <3>2 DEF Told
  <2>4. CASE onStage /\ ~onStage'
    <3>1. session.step = "apply" /\ Exhausted(session.fetched)
      BY <2>4 DEF Session, Drop, Notice, Connect, Load, Apply, LeaveStage, LeaveFails, Restore,
             Heartbeat, memory
    <3>2. idx = session.fetched
      BY <3>1 DEF KeepInv, FetchedStands
    <3>3. acknowledged = {}
      BY <2>1, <3>1, <3>2 DEF Told, Exhausted, Range
    <3>4. \A h \in Handlers : ~command'[h].live
      BY <1>3, <3>1 DEF KeepInv, LiveIsUp
    <3> QED BY <1>1, <2>2, <3>3, <3>4 DEF Told
  <2> QED BY <2>3, <2>4
<1> QED BY <1>2, <1>4, <1>5, <1>6, <1>7 DEF KeepInv

LEMMA CrashKeeps == ASSUME TypeInv, KeepInv, Crash PROVE KeepInv'
<1>1. NewestIndexed'
  BY DEF Crash, KeepInv, NewestIndexed, rows
<1>2. /\ \A h \in Handlers : command'[h] = Idle /\ ~command'[h].live /\ command'[h].step = "idle"
      /\ Busy' = {} /\ session'.step = "down" /\ onStage'
  BY DEF Crash, Busy, Idle, Down
<1>3. LiveIsUp' /\ PressesAdd' /\ Alone' /\ FetchedStands'
  BY <1>2 DEF LiveIsUp, PressesAdd, Alone, FetchedStands
<1>4. ~overlapped' => Told'
  BY <1>2 DEF Crash, KeepInv, Told, rows
<1> QED BY <1>1, <1>3, <1>4 DEF KeepInv

\* A command that begins, with nothing read yet.
LEMMA BeginsKeep ==
    ASSUME TypeInv, KeepInv, NEW h \in Handlers, NEW w, HandlerGoes(h, w), Starts(h),
           UNCHANGED <<memory, session, rows, acknowledged>>,
           w.live => session.step = "up" /\ ~w.off,
           w.step \in {"begin", "fetch", "pressed"}, w.step = "pressed" => w.cmd = "add",
           w.cmd \notin {"add", "remove"} => onStage
    PROVE  KeepInv'
<1>1. /\ command'[h] = w
      /\ \A g \in Handlers \ {h} : command'[g] = command[g]
  BY DEF HandlerGoes, TypeInv
<1>2. NewestIndexed' /\ FetchedStands'
  BY DEF KeepInv, NewestIndexed, FetchedStands, rows, Exhausted, Active
<1>3. LiveIsUp' /\ PressesAdd'
  BY <1>1 DEF KeepInv, LiveIsUp, PressesAdd
<1>4. overlapped' \in BOOLEAN /\ (~overlapped' => ~overlapped /\ Busy \subseteq {h})
  BY DEF Starts, TypeInv, WorldOK
<1>5. ~overlapped' => \A g \in Handlers \ {h} : command'[g] = Idle
  BY <1>1, <1>4 DEF Busy
<1>6. Alone'
  BY <1>5 DEF Alone, Busy
<1>7. ASSUME ~overlapped' PROVE Told'
  <2>1. Told
    BY <1>4, <1>7 DEF KeepInv
  <2>2. acknowledged' \subseteq Range(Active(idx))' /\ (~onStage' => acknowledged' = {})
    BY <2>1 DEF Told, rows, memory
  <2>3. ASSUME NEW g \in Handlers, command'[g].live PROVE Carried(command[g])'
    <3>1. g = h
      BY <1>5, <1>7, <2>3 DEF Idle
    <3>2. command'[g] = w
      BY <1>1, <3>1
    <3>3. w.live
      BY <2>3, <3>2
    <3> QED BY <3>2, <3>3 DEF Carried, memory
  <2> QED BY <2>2, <2>3 DEF Told
<1> QED BY <1>2, <1>3, <1>6, <1>7 DEF KeepInv

LEMMA ChatKeeps ==
    ASSUME TypeInv, KeepInv, ~PlaylistsOffStage, Chat
    PROVE  KeepInv'
<1>1. ASSUME NEW h \in Handlers, NEW cmd, NEW step \in {"begin", "fetch"}, NEW vids,
             cmd \notin {"add", "remove"} => onStage, Begin(h, cmd, step, vids)
      PROVE  KeepInv'
  <2> DEFINE w == [Idle EXCEPT !.cmd = cmd, !.step = step, !.vids = vids,
                               !.live = session.step = "up"]
  <2>1. /\ HandlerGoes(h, w) /\ Starts(h)
        /\ UNCHANGED <<memory, session, rows, acknowledged>>
    BY <1>1 DEF Begin
  <2>2. /\ w.live <=> session.step = "up"
        /\ ~w.off /\ w.step = step /\ w.cmd = cmd
    BY DEF Idle
  <2> HIDE DEF w
  <2> QED BY <1>1, <2>1, <2>2, BeginsKeep
<1>2. ASSUME NEW h \in Handlers, NEW i \in 1..2, Press(h, i) PROVE KeepInv'
  <2> DEFINE w == [Idle EXCEPT !.cmd = "add", !.step = "pressed", !.vids = <<pending[i]>>]
  <2>1. /\ HandlerGoes(h, w) /\ Starts(h)
        /\ UNCHANGED <<memory, session, rows, acknowledged>>
    BY <1>2 DEF Press
  <2>2. ~w.live /\ w.step = "pressed" /\ w.cmd = "add"
    BY DEF Idle
  <2> HIDE DEF w
  <2> QED BY <2>1, <2>2, BeginsKeep
<1>3. ASSUME NEW list \in Results, Search(list) PROVE KeepInv'
  <2>1. UNCHANGED <<onStage, session, command, rows, acknowledged, overlapped>>
    BY <1>3 DEF Search
  <2>2. NewestIndexed' /\ LiveIsUp' /\ PressesAdd' /\ Alone' /\ FetchedStands'
    BY <2>1 DEF KeepInv, NewestIndexed, LiveIsUp, PressesAdd, Alone, FetchedStands, rows,
           Busy, Exhausted, Active
  <2>3. ~overlapped' => Told'
    BY <2>1 DEF KeepInv, Told, rows, Carried, TakenOut
  <2> QED BY <2>2, <2>3 DEF KeepInv
<1>4. ASSUME NEW h \in Handlers, NEW v \in Videos, CmdAdd(h, v) PROVE KeepInv'
  <2>1. Begin(h, "add", "begin", <<v>>)
    BY <1>4 DEF CmdAdd
  <2> QED BY <2>1, <1>1
<1>5. ASSUME NEW h \in Handlers, NEW v \in Videos, CmdRemove(h, v) PROVE KeepInv'
  <2>1. Begin(h, "remove", "fetch", <<v>>)
    BY <1>5 DEF CmdRemove
  <2> QED BY <2>1, <1>1
<1>6. ASSUME NEW h \in Handlers, NEW list \in Playlists, CmdAddPlaylist(h, list)
      PROVE  KeepInv'
  <2>1. onStage /\ Begin(h, "playlist", "fetch", list)
    BY <1>6 DEF CmdAddPlaylist
  <2> QED BY <2>1, <1>1
<1> QED BY <1>2, <1>3, <1>4, <1>5, <1>6 DEF Chat

LEMMA WorkInMemoryKeeps ==
    ASSUME TypeInv, KeepInv, ~Timeouts, NEW h \in Handlers,
           TakeSelection(h) \/ LookAtStage(h) \/ Fetch(h) \/ PublishFails(h) \/ Rejoin(h)
    PROVE  KeepInv'
<1> DEFINE w == command[h]
<1>1. w \in Command /\ (w.live => session.step = "up")
  BY DEF TypeInv, KeepInv, LiveIsUp
<1>2. h \in Busy
  <2>1. w.step # "idle"
    BY DEF TakeSelection, LookAtStage, Fetch, PublishFails, Rejoin
  <2> QED BY <2>1 DEF Busy, Idle
<1>3. /\ UNCHANGED <<rows, session, acknowledged, overlapped, onStage>>
  BY DEF TakeSelection, LookAtStage, Fetch, PublishFails, Rejoin, memory
<1>4. ASSUME ~overlapped, w.live PROVE Told /\ Carried(w)
  BY <1>4 DEF KeepInv, Told
<1>5. CASE TakeSelection(h)
  <2>1. PICK next : next = IF session.step \in Connected
                             THEN [w EXCEPT !.step = "begin", !.live = session.step = "up"]
                             ELSE Idle
    OBVIOUS
  <2>2. HandlerGoes(h, next) /\ w.step = "pressed"
    BY <1>5, <2>1 DEF TakeSelection, Finished
  <2>3. /\ next.live => next.step = "begin" /\ next.cmd = w.cmd /\ session.step = "up"
        /\ next.step # "pressed"
    BY <1>1, <2>1 DEF Command, Idle
  <2>4. next.live => Carried(next)'
    BY <2>2, <2>3 DEF Carried, KeepInv, PressesAdd
  <2> QED BY <1>2, <1>3, <2>2, <2>3, <2>4, CommandKeeps
<1>6. CASE LookAtStage(h)
  <2>1. PICK next : next = [w EXCEPT !.off = ~onStage,
                                     !.step = IF onStage THEN "fetch" ELSE "merge"]
    OBVIOUS
  <2>2. HandlerGoes(h, next)
    BY <1>6, <2>1 DEF LookAtStage
  <2>3. /\ next.live <=> w.live
        /\ next.off <=> ~onStage
        /\ next.step = IF onStage THEN "fetch" ELSE "merge"
        /\ next.cmd = w.cmd
    BY <1>1, <2>1 DEF Command
  <2>4. ASSUME ~overlapped, next.live PROVE Carried(next)'
    <3>1. Told /\ Carried(w)
      BY <1>4, <2>3, <2>4
    <3> QED BY <1>3, <2>3, <3>1 DEF Carried, Told
  <2> QED BY <1>1, <1>2, <1>3, <2>2, <2>3, <2>4, CommandKeeps
<1>7. CASE Fetch(h)
  <2>1. PICK row \in IF w.live THEN Fetched ELSE {NoRow} :
            HandlerGoes(h, [w EXCEPT !.current = Active(row), !.step = "merge"])
    BY <1>7 DEF Fetch
  <2>2. PICK next : next = [w EXCEPT !.current = Active(row), !.step = "merge"]
    OBVIOUS
  <2>3. /\ next.live <=> w.live
        /\ next.off <=> w.off
        /\ next.step = "merge" /\ next.cmd = w.cmd /\ next.current = Active(row)
    BY <1>1, <2>2 DEF Command
  <2>4. ASSUME ~overlapped, next.live PROVE Carried(next)'
    <3>1. Told /\ Carried(w) /\ w.live
      BY <1>4, <2>3, <2>4
    <3>2. row = idx
      BY <2>1, <3>1, FetchedIsNewest DEF KeepInv
    <3>3. ~next.off /\ acknowledged \subseteq Range(next.current)
      BY <1>7, <2>3, <3>1, <3>2 DEF Fetch, Carried, Told
    <3> QED BY <1>3, <2>3, <3>1, <3>3 DEF Carried
  <2>5. HandlerGoes(h, next)
    BY <2>1, <2>2
  <2> QED BY <1>1, <1>2, <1>3, <2>3, <2>4, <2>5, CommandKeeps
<1>8. CASE PublishFails(h) \/ Rejoin(h)
  <2>1. HandlerGoes(h, Idle) /\ ~Idle.live /\ Idle.step # "pressed"
    BY <1>8 DEF PublishFails, Rejoin, Finished, Idle
  <2> QED BY <1>2, <1>3, <2>1, CommandKeeps
<1> QED BY <1>5, <1>6, <1>7, <1>8

LEMMA MergeKeeps ==
    ASSUME TypeInv, KeepInv, NEW h \in Handlers, Merge(h)
    PROVE  KeepInv'
<1> DEFINE w == command[h]
           q == Base(w) \o w.vids
<1>1. w \in Command /\ (w.live => session.step = "up") /\ queue \in Seq(Videos)
  BY DEF TypeInv, KeepInv, LiveIsUp, MemoryOK
<1>2. PICK next : next = [w EXCEPT !.current = q, !.step = "publish"]
  OBVIOUS
<1>3. /\ h \in Busy /\ HandlerGoes(h, next)
      /\ w.step = "merge" /\ w.cmd # "remove"
      /\ UNCHANGED <<rows, session, acknowledged, overlapped>>
      /\ onStage' = (onStage \/ w.cmd = "add")
  BY <1>2 DEF Merge, Busy, Idle
<1>4. Base(w) \in Seq(Videos) /\ w.vids \in Seq(Videos)
  BY <1>1 DEF Base, Command
<1>5. Range(Base(w)) \subseteq Range(q) /\ Range(w.vids) \subseteq Range(q)
  BY <1>4, RangeConcatenation
<1>6. /\ next.live <=> w.live
      /\ next.step = "publish" /\ next.cmd = w.cmd /\ next.vids = w.vids /\ next.current = q
  BY <1>1, <1>2 DEF Command
<1> HIDE DEF q
<1>7. ASSUME ~overlapped, next.live PROVE Carried(next)'
  <2>1. Told /\ Carried(w)
    BY <1>6, <1>7 DEF KeepInv, Told
  <2>2. acknowledged \subseteq Range(Base(w))
    <3>1. CASE w.off
      BY <1>3, <2>1, <3>1 DEF Carried
    <3>2. CASE ~w.off /\ w.current # <<>>
      BY <1>3, <2>1, <3>2 DEF Carried, Base
    <3>3. CASE ~w.off /\ w.current = <<>>
      <4>1. acknowledged \subseteq {}
        BY <1>3, <2>1, <3>3 DEF Carried, Range
      <4> QED BY <4>1
    <3> QED BY <3>1, <3>2, <3>3
  <2>3. onStage'
    BY <1>3, <2>1 DEF Carried
  <2>4. acknowledged \subseteq Range(next.current) /\ Range(next.vids) \subseteq Range(next.current)
    BY <1>5, <1>6, <2>2
  <2> QED BY <1>3, <1>6, <2>3, <2>4 DEF Carried
<1> QED BY <1>1, <1>3, <1>6, <1>7, CommandKeeps

LEMMA TakeOutKeeps ==
    ASSUME TypeInv, KeepInv, NEW h \in Handlers, TakeOut(h)
    PROVE  KeepInv'
<1> DEFINE w == command[h]
           at == {i \in DOMAIN w.current : w.current[i] \notin Range(w.vids)}
           rest == Kept(w.current, at)
<1>1. w \in Command /\ (w.live => session.step = "up")
  BY DEF TypeInv, KeepInv, LiveIsUp
<1>2. PICK next : next = [w EXCEPT !.current = rest, !.step = "publish"]
  OBVIOUS
<1>3. /\ h \in Busy /\ w.step = "merge" /\ w.cmd = "remove"
      /\ HandlerGoes(h, Idle) \/ HandlerGoes(h, next)
      /\ UNCHANGED <<rows, session, acknowledged, overlapped, onStage>>
  BY <1>2 DEF TakeOut, Busy, Idle, Finished
<1>4. ~Idle.live /\ Idle.step # "pressed"
  BY DEF Idle
<1>5. /\ next.live <=> w.live
      /\ next.step = "publish" /\ next.cmd = w.cmd /\ next.vids = w.vids
      /\ next.current = rest
  BY <1>1, <1>2 DEF Command
<1>6. Range(w.current) \ Range(w.vids) \subseteq Range(rest)
  <2>1. w.current \in Seq(Videos) /\ DOMAIN w.current = 1..Len(w.current)
    BY <1>1 DEF Command
  <2>2. Range(rest) = {w.current[i] : i \in {j \in 1..Len(w.current) : j \in at}}
    BY <2>1, KeptRange
  <2> HIDE DEF rest
  <2> QED BY <2>1, <2>2 DEF Range
<1> HIDE DEF rest
<1>7. ASSUME ~overlapped, next.live PROVE Carried(next)'
  <2>1. Told /\ Carried(w)
    BY <1>5, <1>7 DEF KeepInv, Told
  <2>2. acknowledged \subseteq Range(w.current)
    <3>1. CASE w.off
      BY <1>3, <2>1, <3>1 DEF Carried
    <3>2. CASE ~w.off
      BY <1>3, <2>1, <3>2 DEF Carried
    <3> QED BY <3>1, <3>2
  <2>3. acknowledged' \ Range(next.vids) \subseteq Range(next.current)
    BY <1>3, <1>5, <1>6, <2>2
  <2> QED BY <1>3, <1>5, <2>3 DEF Carried, TakenOut
<1>8. CASE HandlerGoes(h, Idle)
  BY <1>3, <1>4, <1>8, CommandKeeps
<1>9. CASE HandlerGoes(h, next)
  BY <1>1, <1>3, <1>5, <1>7, <1>9, CommandKeeps
<1> QED BY <1>3, <1>8, <1>9

\* What a command publishes becomes the conductor's queue.
LEMMA PublishKeeps ==
    ASSUME TypeInv, KeepInv, OneEditASecond, NEW h \in Handlers,
           Publish(h) \/ PublishUnheard(h)
    PROVE  KeepInv'
<1> DEFINE w == command[h]
<1>1. w \in Command /\ w.live /\ w.step = "publish" /\ session.step = "up"
  BY DEF TypeInv, KeepInv, LiveIsUp, Publish, PublishUnheard
<1>2. w.current \in Seq(Videos)
  BY <1>1 DEF Command
<1>3. NewestIndexed' /\ idx'.tracks = On(w.current)
  <2>1. PICK s \in Stamps :
            /\ own' \in Replaced(own, [at |-> s, tracks |-> On(w.current)])
            /\ idx' = Indexed([at |-> s, tracks |-> On(w.current)])
            /\ clock' = s
    BY DEF Publish, PublishUnheard, Store
  <2>2. UNCHANGED copy
    BY DEF Publish, PublishUnheard
  <2> QED BY <2>1, <2>2, WrittenIsNewest DEF KeepInv
<1>4. Range(Active(idx')) = Range(w.current)
  BY <1>2, <1>3, OnRange
<1>5. PICK next : /\ next \in {Idle, [w EXCEPT !.step = "stage"]}
                  /\ HandlerGoes(h, next)
  BY DEF Publish, PublishUnheard, Finished
<1>6. /\ next.live => next.step = "stage" /\ next.cmd = w.cmd
      /\ next.step # "pressed"
  BY <1>1, <1>5 DEF Idle, Command
<1>7. /\ command'[h] = next
      /\ \A g \in Handlers \ {h} : command'[g] = command[g]
  BY <1>5 DEF HandlerGoes, TypeInv
<1>8. /\ UNCHANGED <<session, onStage, overlapped>>
      /\ acknowledged' \subseteq (acknowledged \cup Added(w)) \ TakenOut(w)
  BY DEF Publish, PublishUnheard, memory
<1>9. h \in Busy /\ Busy' \subseteq Busy
  BY <1>1, <1>7 DEF Busy, Idle
<1>10. LiveIsUp' /\ PressesAdd' /\ Alone'
  BY <1>1, <1>6, <1>7, <1>8, <1>9 DEF KeepInv, LiveIsUp, PressesAdd, Alone
<1>11. FetchedStands'
  BY <1>1, <1>8 DEF FetchedStands
<1>12. ASSUME ~overlapped' PROVE Told'
  <2>1. Told /\ Carried(w)
    BY <1>1, <1>8, <1>12 DEF KeepInv, Told
  <2>2. /\ acknowledged \ TakenOut(w) \subseteq Range(w.current)
        /\ w.cmd # "remove" => onStage /\ Range(w.vids) \subseteq Range(w.current)
    BY <1>1, <2>1 DEF Carried
  <2>3. acknowledged' \subseteq Range(w.current)
    BY <1>8, <2>2 DEF Added
  <2>4. ASSUME ~onStage' PROVE acknowledged' = {}
    <3>1. ~onStage /\ w.cmd = "remove" /\ acknowledged = {}
      BY <1>8, <2>1, <2>2, <2>4 DEF Told
    <3> QED BY <1>8, <3>1 DEF Added
  <2>5. \A g \in Handlers \ {h} : command[g] = Idle
    BY <1>8, <1>9, <1>12 DEF KeepInv, Alone, Busy
  <2>6. ASSUME NEW g \in Handlers, command'[g].live PROVE Carried(command[g])'
    <3>1. g = h
      BY <1>7, <2>5, <2>6 DEF Idle
    <3>2. command'[g] = next /\ next.live
      BY <1>7, <2>6, <3>1
    <3>3. next.cmd \notin {"add", "remove"} => onStage'
      BY <1>6, <1>8, <2>1, <3>2 DEF Carried
    <3> QED BY <1>6, <3>2, <3>3 DEF Carried
  <2>7. acknowledged' \subseteq Range(Active(idx))'
    BY <1>4, <2>3 DEF Active
  <2> QED BY <2>4, <2>6, <2>7 DEF Told
<1> QED BY <1>3, <1>10, <1>11, <1>12 DEF KeepInv

\* A mark-off takes the video out of the queue and out of the acknowledged ones.
LEMMA MarkKeeps ==
    ASSUME TypeInv, KeepInv, OneEditASecond, NEW v \in Videos, Mark(v)
    PROVE  KeepInv'
<1>1. /\ UNCHANGED <<session, command, onStage, overlapped>>
      /\ acknowledged' = acknowledged \ {v}
      /\ v \in Range(Active(idx))
  BY DEF Mark, memory
<1>2. idx.tracks \in Seq(Track)
  BY DEF TypeInv, RowsOK, Row
<1>3. NewestIndexed' /\ idx'.tracks = MarkedOff(idx.tracks, v)
  <2>1. PICK s \in Stamps :
            /\ copy' \in Replaced(copy, [at |-> s, tracks |-> MarkedOff(idx.tracks, v)])
            /\ idx' = Indexed([at |-> s, tracks |-> MarkedOff(idx.tracks, v)])
            /\ clock' = s
    BY DEF Mark
  <2>2. UNCHANGED own
    BY DEF Mark
  <2> QED BY <2>1, <2>2, WrittenIsNewest DEF KeepInv
<1>4. Range(Active(idx')) = Range(Active(idx)) \ {v}
  BY <1>2, <1>3, MarkRange
<1>5. LiveIsUp' /\ PressesAdd' /\ Alone'
  BY <1>1 DEF KeepInv, LiveIsUp, PressesAdd, Alone, Busy
<1>6. FetchedStands'
  <2>1. SUFFICES ASSUME session.step = "apply", Exhausted(session.fetched) PROVE FALSE
    BY <1>1 DEF FetchedStands, Exhausted, Active
  <2>2. Active(idx) = <<>>
    BY <2>1 DEF KeepInv, FetchedStands, Exhausted
  <2> QED BY <1>1, <2>2 DEF Range
<1>7. ASSUME ~overlapped' PROVE Told'
  <2>1. Told
    BY <1>1, <1>7 DEF KeepInv
  <2>2. acknowledged' \subseteq Range(Active(idx))'
    <3>1. acknowledged' \subseteq Range(Active(idx'))
      BY <1>1, <1>4, <2>1 DEF Told
    <3> QED BY <3>1 DEF Active
  <2>3. ~onStage' => acknowledged' = {}
    BY <1>1, <2>1 DEF Told
  <2>4. ASSUME NEW g \in Handlers, command'[g].live PROVE Carried(command[g])'
    <3>1. Carried(command[g])
      BY <1>1, <2>1, <2>4 DEF Told
    <3> QED BY <1>1, <3>1 DEF Carried, TakenOut
  <2> QED BY <2>2, <2>3, <2>4 DEF Told
<1> QED BY <1>3, <1>5, <1>6, <1>7 DEF KeepInv

LEMMA InitKeeps == Init => KeepInv
BY DEF Init, KeepInv, NewestIndexed, LiveIsUp, PressesAdd, Alone, FetchedStands, Told, Busy,
       Idle, NoRow, Down

\* Unless a fetch ends early, two rows have one created_at, or /addplaylist is
\* sent while the bot is off stage: as long as no two commands have overlapped,
\* a video whose publish the relay has acknowledged is in the conductor's queue
\* until it is played or removed, however often the connection drops, answers are
\* lost and the process restarts (addTrack, cmdAddPlaylist, cmdRemove,
\* loadQueue).  Of what a press was told before its publish it says nothing.
THEOREM AcknowledgedIsKept ==
    ASSUME OneEditASecond, ~Timeouts, ~PlaylistsOffStage
    PROVE  Spec => []AcknowledgedStays
<1>1. TypeInv /\ KeepInv /\ [Next]_vars => KeepInv'
  <2> SUFFICES ASSUME TypeInv, KeepInv, [Next]_vars PROVE KeepInv'
    OBVIOUS
  <2>1. CASE Session \/ Drop \/ Notice
    BY <2>1, SessionKeeps
  <2>2. CASE Crash
    BY <2>2, CrashKeeps
  <2>3. CASE Chat
    BY <2>3, ChatKeeps
  <2>4. ASSUME NEW h \in Handlers, Work(h) PROVE KeepInv'
    BY <2>4, WorkInMemoryKeeps, MergeKeeps, TakeOutKeeps, PublishKeeps DEF Work
  <2>5. ASSUME NEW v \in Videos, Mark(v) PROVE KeepInv'
    BY <2>5, MarkKeeps
  <2>6. CASE UNCHANGED vars
    <3>1. UNCHANGED <<session, command, rows, onStage, acknowledged, overlapped>>
      BY <2>6 DEF vars, memory
    <3>2. NewestIndexed' /\ LiveIsUp' /\ PressesAdd' /\ Alone' /\ FetchedStands'
      BY <3>1 DEF KeepInv, NewestIndexed, LiveIsUp, PressesAdd, Alone, FetchedStands, rows,
             Busy, Exhausted, Active
    <3>3. ~overlapped' => Told'
      BY <3>1 DEF KeepInv, Told, rows, Carried, TakenOut
    <3> QED BY <3>2, <3>3 DEF KeepInv
  <2> QED BY <2>1, <2>2, <2>3, <2>4, <2>5, <2>6 DEF Next
<1>2. KeepInv => AcknowledgedStays
  BY DEF KeepInv, Told, AcknowledgedStays
<1> QED BY <1>1, <1>2, InitKeeps, TypesAlways, PTL DEF Spec

-----------------------------------------------------------------------------
(* The bot keeps its place.                                                *)

\* A connected session knows the since of the stored stage event, and only
\* connected ones put the bot on stage.
PlaceInv ==
    /\ LiveIsUp
    /\ stageRow.on => stageRow.since > 0
    /\ session.step = "up" /\ stageRow.since > 0 => since = stageRow.since

LEMMA PlaceNext ==
    ASSUME ~Timeouts, TypeInv, PlaceInv, [Next]_vars
    PROVE  PlaceInv' /\ (stageRow.on /\ stageRow'.on => stageRow'.since = stageRow.since)
<1>1. /\ since \in 1..MaxStarts /\ stageRow.since \in Nat /\ MaxStarts \in Nat
      /\ command \in [Handlers -> Command]
  BY ParametersTyped DEF TypeInv, MemoryOK, WorldOK
<1>2. CASE Session
  <2>1. UNCHANGED command
    BY <1>2 DEF Session, Connect, Load, Apply, LeaveStage, LeaveFails, Restore, Heartbeat
  <2>2. LiveIsUp'
    BY <1>2, <2>1 DEF PlaceInv, LiveIsUp, Session, Connect, Load, Apply, LeaveStage, LeaveFails,
           Restore, Heartbeat
  <2>3. CASE LeaveStage
    BY <2>2, <2>3, <1>1 DEF LeaveStage, SessionGoes, Down, PlaceInv
  <2>4. CASE Restore
    BY <2>2, <2>4, <1>1 DEF Restore, SessionGoes, Down, PlaceInv
  <2>5. CASE Heartbeat
    BY <2>2, <2>5, <1>1 DEF Heartbeat, PlaceInv, memory
  <2>6. CASE Connect \/ Load \/ Apply \/ LeaveFails
    <3>1. UNCHANGED <<since, stageRow>> /\ session'.step # "up"
      BY <2>6 DEF Connect, Load, Apply, LeaveFails, SessionGoes, Down, memory
    <3> QED BY <2>2, <3>1 DEF PlaceInv
  <2> QED BY <1>2, <2>3, <2>4, <2>5, <2>6 DEF Session
<1>3. CASE Drop \/ Notice \/ Crash
  <2>1. UNCHANGED stageRow /\ session'.step # "up"
    BY <1>3 DEF Drop, Notice, Crash, SessionGoes, Down
  <2>2. \A h \in Handlers : ~command'[h].live
    <3>1. CASE Drop
      BY <1>1, <3>1 DEF Drop, Command
    <3>2. CASE Notice
      BY <3>2 DEF Notice, PlaceInv, LiveIsUp
    <3>3. CASE Crash
      BY <3>3 DEF Crash, Idle
    <3> QED BY <1>3, <3>1, <3>2, <3>3
  <2> QED BY <2>1, <2>2 DEF PlaceInv, LiveIsUp
<1>4. ASSUME NEW h \in Handlers, NEW w, HandlerGoes(h, w), w.live => session.step = "up",
             UNCHANGED <<since, session>>,
             \/ UNCHANGED stageRow
             \/ session.step = "up" /\ stageRow' = [on |-> TRUE, since |-> since]
      PROVE  PlaceInv' /\ (stageRow.on /\ stageRow'.on => stageRow'.since = stageRow.since)
  <2>1. LiveIsUp'
    BY <1>1, <1>4 DEF HandlerGoes, PlaceInv, LiveIsUp
  <2> QED BY <1>1, <1>4, <2>1 DEF PlaceInv
<1>5. CASE Chat
  <2>1. CASE \E list \in Results : Search(list)
    BY <2>1 DEF Search, PlaceInv, LiveIsUp
  <2>2. ASSUME NEW h \in Handlers, NEW cmd, NEW step, NEW vids, Begin(h, cmd, step, vids)
        PROVE  PlaceInv' /\ (stageRow.on /\ stageRow'.on => stageRow'.since = stageRow.since)
    <3>1. PICK w : w = [Idle EXCEPT !.cmd = cmd, !.step = step, !.vids = vids,
                                    !.live = session.step = "up"]
      OBVIOUS
    <3>2. w.live => session.step = "up"
      BY <3>1 DEF Idle
    <3>3. HandlerGoes(h, w) /\ UNCHANGED <<since, session, stageRow>>
      BY <2>2, <3>1 DEF Begin, memory
    <3> QED BY <3>2, <3>3, <1>4
  <2>3. ASSUME NEW h \in Handlers, NEW i \in 1..2, Press(h, i)
        PROVE  PlaceInv' /\ (stageRow.on /\ stageRow'.on => stageRow'.since = stageRow.since)
    <3>1. PICK w : w = [Idle EXCEPT !.cmd = "add", !.step = "pressed",
                                    !.vids = <<pending[i]>>]
      OBVIOUS
    <3>2. ~w.live
      BY <3>1 DEF Idle
    <3>3. HandlerGoes(h, w) /\ UNCHANGED <<since, session, stageRow>>
      BY <2>3, <3>1 DEF Press, memory
    <3> QED BY <3>2, <3>3, <1>4
  <2> QED BY <1>5, <2>1, <2>2, <2>3 DEF Chat, CmdAdd, CmdRemove, CmdAddPlaylist
<1>6. ASSUME NEW h \in Handlers, Work(h)
      PROVE  PlaceInv' /\ (stageRow.on /\ stageRow'.on => stageRow'.since = stageRow.since)
  <2>1. command[h] \in Command /\ (command[h].live => session.step = "up")
    BY <1>1 DEF PlaceInv, LiveIsUp
  <2>2. UNCHANGED <<since, session>>
    BY <1>6 DEF Work, TakeSelection, LookAtStage, Fetch, Merge, TakeOut, Publish,
           PublishUnheard, PublishFails, Rejoin, memory
  <2>3. UNCHANGED stageRow \/ (session.step = "up" /\ stageRow' = [on |-> TRUE, since |-> since])
    BY <1>6, <2>1 DEF Work, TakeSelection, LookAtStage, Fetch, Merge, TakeOut, Publish,
           PublishUnheard, PublishFails, Rejoin
  <2>4. \E w : HandlerGoes(h, w) /\ (w.live => session.step = "up")
    <3>1. CASE TakeSelection(h)
      <4>1. PICK w : w = IF session.step \in Connected
                           THEN [command[h] EXCEPT !.step = "begin", !.live = session.step = "up"]
                           ELSE Idle
        OBVIOUS
      <4>2. w.live => session.step = "up"
        BY <2>1, <4>1 DEF Command, Idle
      <4>3. HandlerGoes(h, w)
        BY <3>1, <4>1 DEF TakeSelection, Finished
      <4> QED BY <4>2, <4>3
    <3>2. CASE LookAtStage(h)
      <4>1. PICK w : w = [command[h] EXCEPT !.off = ~onStage,
                                            !.step = IF onStage THEN "fetch" ELSE "merge"]
        OBVIOUS
      <4>2. (w.live <=> command[h].live) /\ HandlerGoes(h, w)
        BY <2>1, <3>2, <4>1 DEF LookAtStage, Command
      <4> QED BY <2>1, <4>2
    <3>3. CASE Fetch(h) \/ Merge(h) \/ TakeOut(h)
      <4>1. PICK current, step :
                \/ HandlerGoes(h, [command[h] EXCEPT !.current = current, !.step = step])
                \/ HandlerGoes(h, Idle)
        BY <3>3 DEF Fetch, Merge, TakeOut, Finished
      <4>2. PICK w : w = [command[h] EXCEPT !.current = current, !.step = step]
        OBVIOUS
      <4>3. (w.live <=> command[h].live) /\ ~Idle.live
        BY <2>1, <4>2 DEF Command, Idle
      <4> QED BY <2>1, <4>1, <4>2, <4>3
    <3>4. CASE Publish(h) \/ PublishUnheard(h) \/ PublishFails(h) \/ Rejoin(h)
      BY <2>1, <3>4 DEF Publish, PublishUnheard, PublishFails, Rejoin, Finished, Command, Idle
    <3> QED BY <1>6, <3>1, <3>2, <3>3, <3>4 DEF Work
  <2> QED BY <1>4, <2>2, <2>3, <2>4
<1>7. ASSUME NEW v \in Videos, Mark(v)
      PROVE  PlaceInv' /\ (stageRow.on /\ stageRow'.on => stageRow'.since = stageRow.since)
  BY <1>7 DEF Mark, memory, PlaceInv, LiveIsUp
<1>8. CASE UNCHANGED vars
  BY <1>8 DEF vars, memory, PlaceInv, LiveIsUp
<1> QED BY <1>2, <1>3, <1>5, <1>6, <1>7, <1>8 DEF Next

\* Unless a fetch ends early, the bot never moves in the order of the DJs while
\* its stage event says it is on stage: a restarted process is behind the old
\* since until loadQueue has read it back, and publishes nothing before.
THEOREM PlaceIsKept ==
    ASSUME ~Timeouts
    PROVE  Spec => SinceIsKept
<1>1. Init => PlaceInv
  BY DEF Init, PlaceInv, LiveIsUp, Idle, Down
<1>2. TypeInv /\ PlaceInv /\ [Next]_vars
         => PlaceInv' /\ [stageRow.on /\ stageRow'.on => stageRow'.since = stageRow.since]_vars
  BY PlaceNext
<1> QED BY <1>1, <1>2, TypesAlways, PTL DEF Spec, SinceIsKept
=============================================================================
