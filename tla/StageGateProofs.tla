--------------------------- MODULE StageGateProofs ---------------------------
(***************************************************************************)
(* The stage gate for any DJs, signing keys, events, slots and events in   *)
(* flight.                                                                 *)
(***************************************************************************)
EXTENDS StageGate, RoundRobinProofs, FiniteSetTheorems

Handlers ==
    [ev : Posts, free : BOOLEAN,
     pc : {"accepted", "saved", "checked", "indexed", "released"}]

Kicks == [DJs -> 0..MaxAt]

OnePerKey(set) ==
    set \subseteq Events /\ \A e, f \in set : <<e.who, e.key>> = <<f.who, f.key>> => e = f

Types ==
    /\ member \in SUBSET DJs /\ asked \in SUBSET DJs /\ overtaken \in BOOLEAN
    /\ OnePerKey(rows) /\ PerWho(leases) /\ PerWho(pending) /\ IsFiniteSet(pending)
    /\ kickRows \in Kicks /\ kicked \in Kicks /\ kickSeen \in Kicks
    /\ gate = Idle \/ \E g \in [ev : Posts, capped : SUBSET DJs] : gate = {g}
    /\ flight \in SUBSET Handlers
    /\ revoking \in [DJs -> {"no", "rows", "lease", "reservation"}]
    /\ horizon \in 1..MaxAt + 1

-----------------------------------------------------------------------------
LEMMA ConstantTypes ==
    /\ Owner \in DJs /\ AutoDJ \notin DJs /\ Main \in Keys
    /\ MaxDJs \in Nat /\ MaxDJs > 0 /\ MaxAt \in Nat /\ MaxAt > 0
    /\ Posts \subseteq Events /\ KickStamps \subseteq 1..MaxAt /\ Removable \subseteq DJs
BY StageGateAssumption DEF StageGateAssumption

LEMMA EventTypes ==
    ASSUME NEW e \in Events
    PROVE  /\ e.who \in Principals /\ e.key \in Keys /\ e.at \in 1..MaxAt /\ e.on \in BOOLEAN
           /\ e = [who |-> e.who, key |-> e.key, at |-> e.at, on |-> e.on]
           /\ Id[<<e.key, e.on>>] \in Nat
BY StageGateAssumption DEF StageGateAssumption, Events, Principals

\* EventNewer orders the events of a principal.
LEMMA NewerOrders ==
    ASSUME NEW e \in Events, NEW f \in Events, NEW g \in Events
    PROVE  /\ ~EventNewer(e, e)
           /\ EventNewer(e, f) => ~EventNewer(f, e)
           /\ EventNewer(e, f) /\ EventNewer(f, g) => EventNewer(e, g)
           /\ e.who = f.who => e = f \/ EventNewer(e, f) \/ EventNewer(f, e)
<1>. DEFINE i(x) == Id[<<x.key, x.on>>]
<1>1. ASSUME NEW x \in Events
      PROVE  x.at \in Nat /\ i(x) \in Nat
    <2>1. x.at \in 1..MaxAt /\ i(x) \in Nat
        BY EventTypes
    <2>. QED
        BY <2>1, ConstantTypes
<1>2. e.at = f.at /\ e.who = f.who /\ i(e) = i(f) => e = f
    <2>1. <<e.key, e.on>> \in Keys \X BOOLEAN /\ <<f.key, f.on>> \in Keys \X BOOLEAN
        BY EventTypes
    <2>2. i(e) = i(f) => e.key = f.key /\ e.on = f.on
        BY <2>1, StageGateAssumption DEF StageGateAssumption
    <2>. QED
        BY <2>2, EventTypes
<1>. QED
    BY <1>1, <1>2 DEF EventNewer

\* A principal has one latest row at most, ...
LEMMA LatestUnique ==
    ASSUME NEW set \in SUBSET Events, NEW who,
           NEW e \in Latest(set, who), NEW f \in Latest(set, who)
    PROVE  e = f /\ e \in set /\ e.who = who
BY NewerOrders DEF Latest

\* ... and if it has a row, it has a latest one, no older than this row.
LEMMA LatestExists ==
    ASSUME NEW set \in SUBSET Events, NEW r \in set
    PROVE  \E m \in Latest(set, r.who) : m = r \/ EventNewer(m, r)
<1>. DEFINE S == {e \in set : e.who = r.who /\ (e = r \/ EventNewer(e, r))}
            ages == {MaxAt - e.at : e \in S}
<1>0. ASSUME NEW e \in Events
      PROVE  e.at \in Nat /\ MaxAt - e.at \in Nat /\ Id[<<e.key, e.on>>] \in Nat
    <2>1. e.at \in 1..MaxAt /\ Id[<<e.key, e.on>>] \in Nat
        BY EventTypes
    <2>. QED
        BY <2>1, ConstantTypes
<1>. r \in S /\ S \subseteq Events
    OBVIOUS
<1>1. ages \in SUBSET Nat /\ ages # {}
    BY <1>0
<1>2. PICK s \in S : \A e \in S : e.at <= s.at
    <2>1. PICK a \in ages : \A b \in ages : a <= b
        <3>. HIDE DEF ages
        <3>. QED
            BY <1>1, LeastExists
    <2>2. PICK s \in S : a = MaxAt - s.at
        OBVIOUS
    <2>3. ASSUME NEW e \in S
          PROVE  e.at <= s.at
        <3>1. MaxAt - s.at <= MaxAt - e.at
            BY <2>1, <2>2
        <3>2. e.at \in Nat /\ s.at \in Nat
            BY <1>0
        <3>. QED
            BY <3>1, <3>2, ConstantTypes
    <2>. QED
        BY <2>3
<1>. DEFINE T == {e \in S : e.at = s.at}
            ids == {Id[<<e.key, e.on>>] : e \in T}
<1>3. ids \in SUBSET Nat /\ ids # {}
    BY EventTypes
<1>4. PICK m \in T : \A e \in T : Id[<<m.key, m.on>>] <= Id[<<e.key, e.on>>]
    <2>1. PICK i \in ids : \A j \in ids : i <= j
        <3>. HIDE DEF ids
        <3>. QED
            BY <1>3, LeastExists
    <2>2. PICK m \in T : i = Id[<<m.key, m.on>>]
        OBVIOUS
    <2>. QED
        BY <2>1, <2>2
<1>5. m \in set /\ m.who = r.who /\ (m = r \/ EventNewer(m, r))
    OBVIOUS
<1>6. ASSUME NEW f \in set, f.who = r.who
      PROVE  f = m \/ EventNewer(m, f)
    <2>1. CASE f \in S
        <3>1. f.at \in Nat /\ m.at \in Nat /\ m.at = s.at /\ f.at <= m.at
            BY <1>0, <1>2, <2>1
        <3>2. ~EventNewer(f, m)
            <4>1. f.at = m.at => Id[<<m.key, m.on>>] <= Id[<<f.key, f.on>>]
                BY <1>4, <2>1, <3>1
            <4>. QED
                BY <3>1, <4>1, EventTypes DEF EventNewer
        <3>. QED
            BY <1>5, <1>6, <3>2, NewerOrders
    <2>2. CASE f \notin S
        <3>1. EventNewer(r, f)
            BY <1>6, <2>2, NewerOrders
        <3>. HIDE DEF S, T
        <3>. QED
            BY <1>5, <3>1, NewerOrders
    <2>. QED
        BY <2>1, <2>2
<1>. QED
    BY <1>5, <1>6 DEF Latest

-----------------------------------------------------------------------------
\* Two handlers, or a handler and the gate, never hold the same event.
Unique ==
    /\ \A h, k \in flight : h.ev = k.ev => h = k
    /\ \A g \in gate, h \in flight : g.ev # h.ev

\* Until it is indexed, an event that needed a slot keeps its reservation.
Reserved ==
    \A h \in flight : ~h.free /\ h.pc \in {"accepted", "saved", "checked"} => h.ev \in pending

\* What the gate has read still holds when it decides, but for reservations.
Snapshot ==
    ~overtaken => \A g \in gate : Counted \subseteq g.capped \cup {e.who : e \in pending}

-----------------------------------------------------------------------------
\* What the gate caps are DJs; when they fit the stage, it cuts none.
LEMMA CappedTypes ==
    ASSUME NEW capped \in Capped
    PROVE  /\ capped \subseteq Counted /\ Counted \subseteq member
           /\ IsFiniteSet(Counted) /\ Within(Counted) => capped = Counted
<1>1. capped \subseteq Counted
    BY DEF Capped, kSubset
<1>2. Counted \subseteq member
    BY DEF Counted, OnStage
<1>3. ASSUME IsFiniteSet(Counted), Within(Counted)
      PROVE  capped = Counted
    <2>1. Cardinality(Counted) \in Nat
        BY <1>3, FS_CardinalityType
    <2>2. Cardinality(capped) = Cardinality(Counted)
        BY <1>3, <2>1, ConstantTypes DEF Capped, kSubset, Within
    <2>. QED
        BY <1>1, <1>3, <2>2, FS_Subset
<1>. QED
    BY <1>1, <1>2, <1>3

LEMMA HandlerTypes ==
    ASSUME NEW free \in BOOLEAN
    PROVE  /\ \A ev \in Posts : [ev |-> ev, pc |-> "accepted", free |-> free] \in Handlers
           /\ \A h \in Handlers : [h EXCEPT !.free = free] \in Handlers
BY DEF Handlers

LEMMA TypesInit == Init => Types
<1>. SUFFICES ASSUME Init PROVE Types
    OBVIOUS
<1>1. IsFiniteSet(pending)
    BY FS_EmptySet DEF Init
<1>2. OnePerKey(rows) /\ PerWho(leases) /\ PerWho(pending)
    BY DEF Init, OnePerKey, PerWho
<1>3. kickRows \in Kicks /\ kicked \in Kicks /\ kickSeen \in Kicks
    BY ConstantTypes DEF Init, Kicks
<1>4. flight \in SUBSET Handlers /\ gate = Idle /\ overtaken \in BOOLEAN
    BY DEF Init
<1>5. revoking \in [DJs -> {"no", "rows", "lease", "reservation"}] /\ horizon \in 1..MaxAt + 1
    BY ConstantTypes DEF Init
<1>6. member \in SUBSET DJs /\ asked \in SUBSET DJs
    BY DEF Init
<1>. QED
    BY <1>1, <1>2, <1>3, <1>4, <1>5, <1>6 DEF Types

LEMMA TypesNext == Types /\ [Next]_vars => Types'
<1>. SUFFICES ASSUME Types, [Next]_vars PROVE Types'
    OBVIOUS
<1>. USE ConstantTypes DEF Types, OnePerKey, PerWho, Handlers, store, index, history
<1>1. ASSUME NEW ev \in Posts, BeginAdmission(ev) PROVE Types'
    <2>1. PICK expired \in SUBSET Expirable : pending' = pending \ expired
        BY <1>1 DEF BeginAdmission
    <2>2. IsFiniteSet(pending') /\ pending' \subseteq pending
        BY <2>1, FS_Subset
    <2>3. PICK capped \in Capped : gate' = {[ev |-> ev, capped |-> capped]}
        BY <1>1 DEF BeginAdmission
    <2>4. capped \in SUBSET DJs
        BY CappedTypes
    <2>5. [ev |-> ev, capped |-> capped] \in [ev : Posts, capped : SUBSET DJs]
        BY <2>4
    <2>6. \E g \in [ev : Posts, capped : SUBSET DJs] : gate' = {g}
        BY <2>3, <2>5
    <2>7. PerWho(pending')
        BY <2>2
    <2>. QED
        BY <1>1, <2>2, <2>6, <2>7 DEF BeginAdmission
<1>2. ASSUME NEW ev \in Posts, ComeDown(ev) PROVE Types'
    <2>1. [ev |-> ev, pc |-> "accepted", free |-> TRUE] \in Handlers
        BY HandlerTypes, Zenon
    <2>2. flight' \in SUBSET Handlers
        BY <1>2, <2>1, Zenon DEF ComeDown, Types
    <2>. QED
        BY <1>2, <2>2 DEF ComeDown
<1>3. ASSUME EndAdmission PROVE Types'
    <2>. PICK g \in gate : EndAdmission!(g)
        BY <1>3, Zenon DEF EndAdmission
    <2>. DEFINE slots == g.capped \cup (IF AutoActive THEN {AutoDJ} ELSE {})
                holder == g.ev.who \in slots \/ \E e \in pending : e.who = g.ev.who
                accepted == [ev |-> g.ev, pc |-> "accepted", free |-> holder]
    <2>1. flight' = flight \/ flight' = flight \cup {accepted}
        BY DEF EndAdmission
    <2>2. pending' = pending \/ (~holder /\ pending' = pending \cup {g.ev})
        OBVIOUS
    <2>3. accepted \in Handlers
        <3>1. holder \in BOOLEAN
            BY Zenon
        <3>2. g.ev \in Posts
            BY DEF Idle
        <3>. QED
            BY <3>1, <3>2, HandlerTypes, Zenon
    <2>4. flight' \in SUBSET Handlers
        BY <2>1, <2>3
    <2>5. PerWho(pending') /\ IsFiniteSet(pending')
        <3>1. IsFiniteSet(pending \cup {g.ev})
            BY FS_AddElement
        <3>2. ~holder => PerWho(pending \cup {g.ev})
            BY DEF Idle
        <3>3. PerWho(pending) /\ IsFiniteSet(pending)
            OBVIOUS
        <3>. HIDE DEF PerWho, holder
        <3>. QED
            BY <2>2, <3>1, <3>2, <3>3
    <2>6. asked' \in SUBSET DJs /\ gate' = Idle
        OBVIOUS
    <2>7. UNCHANGED <<store, index, revoking, horizon, overtaken, kickSeen>>
        OBVIOUS
    <2>. QED
        BY <2>4, <2>5, <2>6, <2>7
<1>4. ASSUME NEW h \in flight, Handle(h) PROVE Types'
    <2>. \A pc \in {"accepted", "saved", "checked", "indexed", "released"} :
            [h EXCEPT !.pc = pc] \in Handlers
        OBVIOUS
    <2>1. ASSUME Save(h) PROVE Types'
        <3>1. OnePerKey(Stored(h.ev))
            BY DEF Stored
        <3>. QED
            BY <2>1, <3>1 DEF Save, Advances
    <2>2. ASSUME SaveFails(h) PROVE Types'
        BY <2>2 DEF SaveFails
    <2>3. ASSUME CheckEligible(h) PROVE Types'
        BY <2>3 DEF CheckEligible, Advances
    <2>4. ASSUME Index(h) PROVE Types'
        <3>1. PerWho(Indexed(h.ev))
            BY DEF Indexed
        <3>2. overtaken' \in BOOLEAN
            BY <2>4, Zenon DEF Index, Overtakes
        <3>. QED
            BY <2>4, <3>1, <3>2 DEF Index, Advances
    <2>5. ASSUME Release(h) PROVE Types'
        <3>1. IsFiniteSet(pending') /\ pending' \subseteq pending
            BY <2>5, FS_Subset DEF Release, Released
        <3>. QED
            BY <2>5, <3>1 DEF Release, Advances
    <2>6. ASSUME CleanAliases(h) PROVE Types'
        <3>1. Cleaned(h.ev) \subseteq rows
            BY DEF Cleaned
        <3>. QED
            BY <2>6, <3>1 DEF CleanAliases
    <2>. QED
        BY <1>4, <2>1, <2>2, <2>3, <2>4, <2>5, <2>6 DEF Handle
<1>5. ASSUME NEW d \in Removable, NEW at \in KickStamps, Kick(d, at) PROVE Types'
    BY <1>5 DEF Kick, Kicks, KickMax
<1>6. ASSUME NEW d \in Removable, KickElsewhere(d) PROVE Types'
    BY <1>6 DEF KickElsewhere, Kicks
<1>7. ASSUME NEW d \in Removable, Revoke(d) PROVE Types'
    <2>1. ASSUME Leave(d) PROVE Types'
        BY <2>1 DEF Leave
    <2>2. ASSUME PurgeRows(d) PROVE Types'
        BY <2>2 DEF PurgeRows
    <2>3. ASSUME RevokeLease(d) PROVE Types'
        BY <2>3 DEF RevokeLease
    <2>4. ASSUME RevokeReservation(d) PROVE Types'
        <3>1. IsFiniteSet(pending') /\ pending' \subseteq pending
            BY <2>4, FS_Subset DEF RevokeReservation
        <3>2. ASSUME NEW h \in flight
              PROVE  [h EXCEPT !.free = @ \/ h.ev.who = d] \in Handlers
            <4>1. (h.free \/ h.ev.who = d) \in BOOLEAN
                BY Zenon
            <4>. QED
                BY <4>1, HandlerTypes, Zenon DEF Types
        <3>. QED
            BY <2>4, <3>1, <3>2 DEF RevokeReservation
    <2>. QED
        BY <1>7, <2>1, <2>2, <2>3, <2>4 DEF Revoke
<1>8. ASSUME NEW d \in Removable, Rejoin(d) PROVE Types'
    <2>1. overtaken' \in BOOLEAN
        BY <1>8, Zenon DEF Rejoin, Overtakes
    <2>. QED
        BY <1>8, <2>1 DEF Rejoin
<1>9. ASSUME Lapse PROVE Types'
    BY <1>9 DEF Lapse
<1>10. ASSUME Restart PROVE Types'
    <2>1. overtaken' \in BOOLEAN
        BY <1>10, Zenon DEF Restart, Overtakes
    <2>2. PerWho(Warm)
        <3>1. ASSUME NEW e \in Warm
              PROVE  e \in Latest(rows, e.who) /\ e \in Events
            BY DEF Warm, Latest
        <3>. QED
            BY <3>1, LatestUnique
    <2>3. IsFiniteSet(pending')
        BY <1>10, FS_EmptySet DEF Restart
    <2>. QED
        BY <1>10, <2>1, <2>2, <2>3 DEF Restart, Idle
<1>11. ASSUME UNCHANGED vars PROVE Types'
    BY <1>11 DEF vars
<1>. QED
    BY <1>1, <1>2, <1>3, <1>4, <1>5, <1>6, <1>7, <1>8, <1>9, <1>10, <1>11 DEF Next

\* The shape of the state.
THEOREM TypeSafety == Spec => []TypeOK
<1>1. Types => TypeOK
    <2>. SUFFICES ASSUME Types PROVE TypeOK
        OBVIOUS
    <2>1. CASE gate = {}
        BY <2>1, FS_EmptySet DEF Types, TypeOK, OnePerKey, PerWho, Handlers, Kicks
    <2>2. CASE gate # {}
        <3>1. PICK g \in [ev : Posts, capped : SUBSET DJs] : gate = {g}
            BY <2>2 DEF Types, Idle
        <3>2. Cardinality(gate) = 1
            BY <3>1, FS_Singleton
        <3>. QED
            BY <3>1, <3>2 DEF Types, TypeOK, OnePerKey, PerWho, Handlers, Kicks
    <2>. QED
        BY <2>1, <2>2
<1>. QED
    BY <1>1, TypesInit, TypesNext, PTL DEF Spec

-----------------------------------------------------------------------------
\* An event arrives when no handler and not the gate holds it.
LEMMA UniqueNext == Types /\ Unique /\ [Next]_vars => Unique'
<1>. SUFFICES ASSUME Types, Unique, [Next]_vars PROVE Unique'
    OBVIOUS
<1>. USE DEF Unique, Idle
<1>0. ASSUME NEW ev, Arrives(ev),
             \/ /\ \E free : flight' = flight \cup {[ev |-> ev, pc |-> "accepted", free |-> free]}
                /\ gate' = gate
             \/ flight' = flight /\ \E capped : gate' = {[ev |-> ev, capped |-> capped]}
      PROVE  Unique'
    BY <1>0 DEF Arrives
<1>1. ASSUME NEW ev \in Posts, BeginAdmission(ev) PROVE Unique'
    <2>1. Arrives(ev) /\ flight' = flight /\ \E capped : gate' = {[ev |-> ev, capped |-> capped]}
        BY <1>1 DEF BeginAdmission
    <2>. QED
        BY <2>1, <1>0
<1>2. ASSUME NEW ev \in Posts, ComeDown(ev) PROVE Unique'
    <2>1. /\ Arrives(ev) /\ gate' = gate
          /\ flight' = flight \cup {[ev |-> ev, pc |-> "accepted", free |-> TRUE]}
        BY <1>2 DEF ComeDown
    <2>. QED
        BY <2>1, <1>0
<1>3. ASSUME EndAdmission PROVE Unique'
    <2>1. PICK g, free :
            /\ g \in gate
            /\ flight' \in {flight, flight \cup {[ev |-> g.ev, pc |-> "accepted", free |-> free]}}
        BY <1>3, Zenon DEF EndAdmission
    <2>2. gate' = {}
        BY <1>3 DEF EndAdmission
    <2>. QED
        BY <2>1, <2>2
<1>4. ASSUME NEW h \in flight, Handle(h) PROVE Unique'
    <2>1. flight' = flight \ {h} \/ \E pc : Advances(h, pc)
        BY <1>4 DEF Handle, Save, SaveFails, CheckEligible, Index, Release, CleanAliases
    <2>2. gate' = gate
        BY <1>4 DEF Handle, Save, SaveFails, CheckEligible, Index, Release, CleanAliases
    <2>3. \A k \in flight' :
            \/ k \in flight /\ k # h
            \/ \E pc : k = [h EXCEPT !.pc = pc] /\ flight' = (flight \ {h}) \cup {k}
        BY <2>1 DEF Advances
    <2>4. \A pc : [h EXCEPT !.pc = pc].ev = h.ev
        BY DEF Types, Handlers
    <2>. QED
        BY <2>2, <2>3, <2>4
<1>5. ASSUME NEW d \in Removable, Revoke(d) PROVE Unique'
    <2>. DEFINE freed(h) == [h EXCEPT !.free = @ \/ h.ev.who = d]
    <2>1. flight' = flight \/ flight' = {freed(h) : h \in flight}
        BY <1>5 DEF Revoke, Leave, PurgeRows, RevokeLease, RevokeReservation
    <2>2. gate' = gate
        BY <1>5 DEF Revoke, Leave, PurgeRows, RevokeLease, RevokeReservation
    <2>3. \A h \in flight : freed(h).ev = h.ev
        BY DEF Types, Handlers
    <2>. HIDE DEF freed
    <2>. QED
        BY <2>1, <2>2, <2>3
<1>6. CASE Restart
    BY <1>6 DEF Restart
<1>7. CASE UNCHANGED <<flight, gate>>
    BY <1>7
<1>. QED
    BY <1>1, <1>2, <1>3, <1>4, <1>5, <1>6, <1>7
    DEF Next, vars, Kick, KickElsewhere, Rejoin, Lapse

\* Only the handler of an event, a revocation or a restart ends a reservation.
LEMMA ReservedNext ==
    ASSUME ~SlowStore, Types, Unique, Reserved, [Next]_vars
    PROVE  Reserved'
<1>. DEFINE Needs(h) == ~h.free /\ h.pc \in {"accepted", "saved", "checked"}
<1>. USE DEF Reserved
<1>1. ASSUME NEW ev \in Posts, BeginAdmission(ev) PROVE Reserved'
    BY <1>1 DEF BeginAdmission, Expirable
<1>2. ASSUME NEW ev \in Posts, ComeDown(ev) PROVE Reserved'
    BY <1>2 DEF ComeDown
<1>3. ASSUME EndAdmission PROVE Reserved'
    <2>1. PICK g, free :
            /\ g \in gate
            /\ \/ flight' = flight /\ pending' = pending
               \/ /\ flight' = flight \cup {[ev |-> g.ev, pc |-> "accepted", free |-> free]}
                  /\ pending' = IF free THEN pending ELSE pending \cup {g.ev}
        BY <1>3, Zenon DEF EndAdmission
    <2>. QED
        BY <2>1
<1>4. ASSUME NEW h \in flight, Handle(h) PROVE Reserved'
    <2>1. ASSUME NEW pc, Advances(h, pc), pending' = pending,
                 h.pc \in {"accepted", "saved", "checked"}
                 \/ pc \notin {"accepted", "saved", "checked"}
          PROVE  Reserved'
        BY <2>1 DEF Types, Handlers, Advances
    <2>2. CASE Release(h)
        <3>1. \A k \in flight' : Needs(k) => k \in flight /\ k.ev # h.ev
            BY <2>2 DEF Types, Handlers, Unique, Release, Advances
        <3>2. pending' = pending \ {h.ev}
            BY <2>2 DEF Release, Released
        <3>. QED
            BY <3>1, <3>2
    <2>3. CASE flight' = flight \ {h} /\ pending' = pending
        BY <2>3
    <2>. QED
        BY <1>4, <2>1, <2>2, <2>3 DEF Handle, Save, SaveFails, CheckEligible, Index, CleanAliases
<1>5. ASSUME NEW d \in Removable, RevokeReservation(d) PROVE Reserved'
    <2>. DEFINE freed(h) == [h EXCEPT !.free = @ \/ h.ev.who = d]
    <2>1. flight' = {freed(h) : h \in flight} /\ pending' = {e \in pending : e.who # d}
        BY <1>5 DEF RevokeReservation
    <2>2. ASSUME NEW h \in flight
          PROVE  /\ freed(h).ev = h.ev /\ freed(h).pc = h.pc
                 /\ freed(h).free = (h.free \/ h.ev.who = d)
        BY DEF Types, Handlers
    <2>3. ASSUME NEW h \in flight, Needs(freed(h))
          PROVE  freed(h).ev \in pending'
        <3>1. Needs(h) /\ h.ev.who # d
            BY <2>2, <2>3, Zenon
        <3>. QED
            BY <2>1, <2>2, <3>1
    <2>. HIDE DEF freed
    <2>. QED
        BY <2>1, <2>3
<1>6. CASE Restart
    BY <1>6 DEF Restart
<1>7. CASE UNCHANGED <<flight, pending>>
    BY <1>7
<1>. QED
    BY <1>1, <1>2, <1>3, <1>4, <1>5, <1>6, <1>7
    DEF Next, vars, Kick, KickElsewhere, Rejoin, Lapse, Revoke, Leave, PurgeRows, RevokeLease

LEMMA TakenIsFinite ==
    ASSUME Types
    PROVE  /\ IsFiniteSet(Taken) /\ IsFiniteSet(Counted) /\ AutoDJ \notin Counted
           /\ Counted \subseteq Holders /\ Holders \subseteq Taken
<1>1. Taken \subseteq DJs \cup {AutoDJ} /\ Counted \subseteq DJs
    BY DEF Types, PerWho, Events, Taken, Holders, Counted, OnStage
<1>2. IsFiniteSet(DJs) /\ IsFiniteSet(DJs \cup {AutoDJ})
    BY StageGateAssumption, FS_AddElement DEF StageGateAssumption
<1>3. IsFiniteSet(Taken) /\ IsFiniteSet(Counted)
    BY <1>1, <1>2, FS_Subset
<1>4. Counted \subseteq Holders /\ Holders \subseteq Taken
    BY DEF Taken, Holders
<1>. QED
    BY <1>1, <1>3, <1>4, ConstantTypes

LEMMA FewerFit ==
    ASSUME NEW S, NEW T, IsFiniteSet(S), T \subseteq S, Within(S)
    PROVE  Within(T)
<1>1. Cardinality(T) <= Cardinality(S) /\ IsFiniteSet(T)
    BY FS_Subset
<1>2. Cardinality(T) \in Nat /\ Cardinality(S) \in Nat
    BY <1>1, FS_CardinalityType
<1>. QED
    BY <1>1, <1>2, ConstantTypes DEF Within

\* A step that takes no slot that was not taken or reserved, and that the gate
\* does not see half of, keeps what the gate relies on.
LEMMA Settles ==
    ASSUME Types, Types', Snapshot, NeverOvercommitted,
           ~overtaken' => /\ ~overtaken /\ Taken' \subseteq Taken
                          /\ \/ gate' = Idle
                             \/ gate' = gate /\ pending' = pending /\ Holders' \subseteq Taken
    PROVE  Snapshot' /\ NeverOvercommitted'
<1>1. NeverOvercommitted'
    <2>1. ~overtaken' => Within(Taken')
        BY TakenIsFinite, FewerFit DEF NeverOvercommitted
    <2>. QED
        BY <2>1 DEF NeverOvercommitted, Within
<1>2. ASSUME ~overtaken', NEW g \in gate', NEW d \in Counted'
      PROVE  d \in g.capped \cup {e.who : e \in pending'}
    <2>1. g \in gate /\ pending' = pending /\ Holders' \subseteq Taken /\ ~overtaken
        BY <1>2 DEF Idle
    <2>2. d \in Taken
        BY <2>1 DEF Holders
    <2>3. d # AutoDJ
        BY <1>2, ConstantTypes DEF Types, Counted, OnStage
    <2>. QED
        BY <2>1, <2>2, <2>3 DEF Snapshot, Taken, Holders
<1>. QED
    BY <1>1, <1>2 DEF Snapshot

\* No more principals hold a reservation than there are reservations.
LEMMA OneEach ==
    ASSUME Types
    PROVE  /\ IsFiniteSet({e.who : e \in pending}) /\ Cardinality(pending) \in Nat
           /\ Cardinality({e.who : e \in pending}) <= Cardinality(pending)
<1>. DEFINE whos == {e.who : e \in pending}
            f == [e \in pending |-> e.who]
<1>1. f \in Surjection(pending, whos)
    BY DEF Surjection
<1>2. IsFiniteSet(pending)
    BY DEF Types
<1>3. Cardinality(pending) \in Nat
    BY <1>2, FS_CardinalityType
<1>. HIDE DEF whos, f
<1>4. IsFiniteSet(whos) /\ Cardinality(whos) <= Cardinality(pending)
    BY <1>1, <1>2, FS_Surjection
<1>. QED
    BY <1>3, <1>4 DEF whos

\* The gate admits when the slots it has read and the reservations leave room.
LEMMA RoomForOne ==
    ASSUME Types, NEW slots, NEW who, IsFiniteSet(slots),
           ~(Cardinality(slots) + Cardinality(pending) >= MaxDJs)
    PROVE  /\ IsFiniteSet(slots \cup {e.who : e \in pending} \cup {who})
           /\ Within(slots \cup {e.who : e \in pending} \cup {who})
<1>. DEFINE whos == {e.who : e \in pending}
            both == slots \cup whos
<1>1. IsFiniteSet(whos) /\ Cardinality(pending) \in Nat /\ Cardinality(whos) <= Cardinality(pending)
    BY OneEach
<1>. HIDE DEF whos
<1>2. IsFiniteSet(both) /\ IsFiniteSet(slots \cap whos)
    BY <1>1, FS_Union, FS_Subset
<1>3. Cardinality(both) = Cardinality(slots) + Cardinality(whos) - Cardinality(slots \cap whos)
    BY <1>1, FS_Union
<1>4. /\ Cardinality(slots) \in Nat /\ Cardinality(whos) \in Nat
      /\ Cardinality(slots \cap whos) \in Nat /\ Cardinality(both) \in Nat
    BY <1>1, <1>2, FS_CardinalityType
<1>5. Cardinality(both) + 1 <= MaxDJs
    BY <1>1, <1>3, <1>4, ConstantTypes
<1>6. /\ IsFiniteSet(both \cup {who})
      /\ Cardinality(both \cup {who}) =
            IF who \in both THEN Cardinality(both) ELSE Cardinality(both) + 1
    <2>. HIDE DEF both
    <2>. QED
        BY <1>2, FS_AddElement
<1>7. Cardinality(both \cup {who}) <= MaxDJs
    <2>. HIDE DEF both
    <2>. QED
        BY <1>4, <1>5, <1>6, ConstantTypes
<1>. QED
    BY <1>6, <1>7 DEF Within, whos

\* The gate caps nobody while the stage fits, so that what it has read is what
\* counts; until it decides, others only index what is reserved, or leave.
LEMMA StageNext ==
    ASSUME Types, Types', Reserved, Snapshot, NeverOvercommitted, [Next]_vars
    PROVE  ~SlowStore => Snapshot' /\ NeverOvercommitted'
<1>. SUFFICES ASSUME ~SlowStore
              PROVE  Snapshot' /\ NeverOvercommitted'
    OBVIOUS
<1>1. ASSUME NEW ev \in Posts, BeginAdmission(ev)
      PROVE  Snapshot' /\ NeverOvercommitted'
    <2>1. UNCHANGED <<member, leases, kicked, horizon, overtaken>> /\ pending' \subseteq pending
        BY <1>1 DEF BeginAdmission, store, index, history
    <2>2. Counted' = Counted /\ Holders' = Holders
        BY <2>1 DEF Counted, Holders, OnStage, AutoActive, Armed
    <2>3. Taken' \subseteq Taken
        BY <2>1, <2>2 DEF Taken
    <2>4. ~overtaken' => Within(Taken')
        BY <2>1, <2>3, TakenIsFinite, FewerFit DEF NeverOvercommitted
    <2>5. ASSUME ~overtaken', NEW g \in gate'
          PROVE  Counted' \subseteq g.capped
        <3>1. Within(Counted)
            BY <2>1, <2>5, TakenIsFinite, FewerFit DEF NeverOvercommitted
        <3>2. g.capped \in Capped
            BY <1>1 DEF BeginAdmission
        <3>3. g.capped = Counted
            BY <3>1, <3>2, TakenIsFinite, CappedTypes
        <3>. QED
            BY <2>2, <3>3
    <2>. QED
        BY <2>4, <2>5 DEF Snapshot, NeverOvercommitted, Within
<1>2. ASSUME EndAdmission
      PROVE  Snapshot' /\ NeverOvercommitted'
    <2>. PICK g \in gate : EndAdmission!(g)
        BY <1>2, Zenon DEF EndAdmission
    <2>. DEFINE who == g.ev.who
                slots == g.capped \cup (IF AutoActive THEN {AutoDJ} ELSE {})
    <2>1. UNCHANGED <<member, leases, kicked, horizon, overtaken>> /\ gate' = Idle
        BY DEF store, index, history
    <2>2. Holders' = Holders
        BY <2>1 DEF Counted, Holders, OnStage, AutoActive, Armed
    <2>3. \/ pending' = pending
          \/ /\ pending' = pending \cup {g.ev}
             /\ ~(Cardinality(slots) + Cardinality(pending) >= MaxDJs)
        OBVIOUS
    <2>4. CASE pending' = pending
        <3>1. Taken' = Taken
            BY <2>2, <2>4 DEF Taken
        <3>. QED
            BY <2>1, <3>1, Settles
    <2>5. ASSUME pending' = pending \cup {g.ev}, ~overtaken,
                 ~(Cardinality(slots) + Cardinality(pending) >= MaxDJs)
          PROVE  Within(Taken')
        <3>1. g.capped \subseteq DJs
            BY DEF Types, Idle
        <3>2. IsFiniteSet(slots)
            <4>1. IsFiniteSet(g.capped)
                BY <3>1, StageGateAssumption, FS_Subset DEF StageGateAssumption
            <4>2. IsFiniteSet(g.capped \cup {AutoDJ}) /\ slots \subseteq g.capped \cup {AutoDJ}
                BY <4>1, FS_AddElement
            <4>. QED
                BY <4>2, FS_Subset
        <3>. DEFINE most == slots \cup {e.who : e \in pending} \cup {who}
        <3>3. Taken' \subseteq most
            BY <2>2, <2>5 DEF Snapshot, Taken, Holders
        <3>4. IsFiniteSet(most) /\ Within(most)
            <4>. HIDE DEF slots, who
            <4>. QED
                BY <2>5, <3>2, RoomForOne
        <3>. HIDE DEF most
        <3>. QED
            BY <3>3, <3>4, FewerFit
    <2>. QED
        BY <2>1, <2>3, <2>4, <2>5 DEF Snapshot, NeverOvercommitted, Within, Idle

<1>. DEFINE Calm == UNCHANGED <<overtaken, pending, gate>> /\ Holders' \subseteq Holders
<1>3. ASSUME Calm
      PROVE  Snapshot' /\ NeverOvercommitted'
    <2>1. Taken' \subseteq Taken /\ Holders' \subseteq Taken
        BY <1>3 DEF Taken
    <2>. QED
        BY <1>3, <2>1, Settles
<1>4. ASSUME UNCHANGED <<overtaken, pending, gate, member>>, leases' \subseteq leases,
             horizon' >= horizon, \A d \in DJs : kicked'[d] >= kicked[d], horizon' \in Nat
      PROVE  Calm
    <2>1. ASSUME NEW d \in Counted'
          PROVE  d \in Counted
        <3>1. PICK e \in leases : e.who = d /\ e.on /\ e.at >= horizon' /\ e.at > kicked'[d]
            BY <1>4, <2>1 DEF Counted, OnStage
        <3>2. d \in member /\ d \in DJs
            BY <1>4, <2>1 DEF Counted, OnStage, Types
        <3>3. e.at \in Nat /\ horizon \in Nat /\ kicked[d] \in Nat /\ kicked'[d] \in Nat
            <4>1. e.at \in 1..MaxAt
                BY EventTypes DEF Types, PerWho
            <4>. QED
                BY <3>2, <4>1, ConstantTypes DEF Types, Kicks
        <3>. QED
            BY <1>4, <3>1, <3>2, <3>3 DEF Counted, OnStage
    <2>2. AutoActive' => AutoActive
        BY <1>4 DEF AutoActive, Armed
    <2>. QED
        BY <1>4, <2>1, <2>2 DEF Holders
<1>5. ASSUME NEW h \in flight, Handle(h)
      PROVE  Snapshot' /\ NeverOvercommitted'
    <2>1. CASE UNCHANGED <<member, index, pending, gate, horizon, history>>
        <3>1. Calm
            BY <2>1 DEF index, history, Holders, Counted, OnStage, AutoActive, Armed
        <3>. QED
            BY <3>1, <1>3
    <2>2. ASSUME Release(h)
          PROVE  Snapshot' /\ NeverOvercommitted'
        <3>1. /\ Holders' = Holders /\ pending' \subseteq pending
              /\ gate' = Idle /\ overtaken' = overtaken
            BY <2>2 DEF Release, Released, store, index, history, Holders, Counted, OnStage,
                        AutoActive, Armed
        <3>2. Taken' \subseteq Taken
            BY <3>1 DEF Taken
        <3>. QED
            BY <3>1, <3>2, Settles
    <2>3. ASSUME Index(h)
          PROVE  Snapshot' /\ NeverOvercommitted'
        <3>1. UNCHANGED <<member, kicked, horizon, pending, gate>> /\ leases' = Indexed(h.ev)
            BY <2>3 DEF Index, store
        <3>2. overtaken' = (overtaken \/ (h.free /\ ~(Holders' \subseteq Taken)))
            BY <2>3 DEF Index, Overtakes
        <3>3. ~h.free => h.ev \in pending
            BY <2>3 DEF Index, Reserved
        <3>4. leases' \subseteq leases \cup {h.ev}
            BY <3>1 DEF Indexed
        <3>5. Holders' \subseteq Holders \cup {h.ev.who}
            BY <3>1, <3>4 DEF Holders, Counted, OnStage, AutoActive, Armed
        <3>6. ~h.free => Holders' \subseteq Taken
            BY <3>3, <3>5 DEF Taken
        <3>7. ~overtaken' => ~overtaken /\ Holders' \subseteq Taken
            BY <3>2, <3>6, Zenon
        <3>8. Holders' \subseteq Taken => Taken' \subseteq Taken
            BY <3>1 DEF Taken
        <3>. QED
            BY <3>1, <3>7, <3>8, Settles
    <2>. QED
        BY <1>5, <2>1, <2>2, <2>3
        DEF Handle, Save, SaveFails, CheckEligible, CleanAliases, store
<1>6. ASSUME NEW d \in Removable, NEW at \in KickStamps, Kick(d, at)
      PROVE  Snapshot' /\ NeverOvercommitted'
    <2>1. \A x \in DJs : kicked'[x] >= kicked[x]
        BY <1>6, ConstantTypes DEF Kick, KickMax, Types, Kicks
    <2>2. horizon' = horizon /\ horizon \in Nat
        BY <1>6, ConstantTypes DEF Kick, Types
    <2>. QED
        BY <1>3, <1>4, <1>6, <2>1, <2>2 DEF Kick
<1>7. ASSUME NEW d \in Removable, Revoke(d)
      PROVE  Snapshot' /\ NeverOvercommitted'
    <2>. \A x \in DJs : kicked[x] \in Nat
        BY ConstantTypes DEF Types, Kicks
    <2>. horizon \in Nat
        BY ConstantTypes DEF Types
    <2>1. ASSUME Leave(d)
          PROVE  Calm
        <3>1. /\ UNCHANGED <<overtaken, pending, gate, leases, kicked, horizon>>
              /\ member' \subseteq member
            BY <2>1 DEF Leave, index
        <3>. QED
            BY <3>1 DEF Holders, Counted, OnStage, AutoActive, Armed
    <2>2. ASSUME PurgeRows(d)
          PROVE  Calm
        <3>1. leases' \subseteq leases /\ UNCHANGED <<kicked, horizon>>
            BY <2>2 DEF PurgeRows, index
        <3>. QED
            BY <1>4, <2>2, <3>1 DEF PurgeRows, history
    <2>3. ASSUME RevokeLease(d)
          PROVE  Calm
        <3>1. leases' \subseteq leases /\ UNCHANGED <<kicked, horizon>>
            BY <2>3 DEF RevokeLease
        <3>. QED
            BY <1>4, <2>3, <3>1 DEF RevokeLease, store, history
    <2>4. ASSUME RevokeReservation(d)
          PROVE  Snapshot' /\ NeverOvercommitted'
        <3>1. /\ Holders' = Holders /\ pending' \subseteq pending
              /\ gate' = Idle /\ overtaken' = overtaken
            BY <2>4 DEF RevokeReservation, store, index, history, Holders, Counted, OnStage,
                        AutoActive, Armed
        <3>2. Taken' \subseteq Taken
            BY <3>1 DEF Taken
        <3>. QED
            BY <3>1, <3>2, Settles
    <2>. QED
        BY <1>3, <1>7, <2>1, <2>2, <2>3, <2>4 DEF Revoke
<1>8. ASSUME \/ \E d \in Removable : Rejoin(d)
             \/ Restart
      PROVE  Snapshot' /\ NeverOvercommitted'
    <2>1. overtaken' = (overtaken \/ (TRUE /\ ~(Holders' \subseteq Taken)))
        BY <1>8 DEF Rejoin, Restart, Overtakes
    <2>2. ~overtaken' => ~overtaken /\ Holders' \subseteq Taken
        BY <2>1, Zenon
    <2>3. \/ pending' = pending /\ gate' = gate
          \/ pending' = {} /\ gate' = Idle
        BY <1>8 DEF Rejoin, Restart
    <2>4. Holders' \subseteq Taken => Taken' \subseteq Taken
        BY <2>3 DEF Taken
    <2>. QED
        BY <2>2, <2>3, <2>4, Settles
<1>9. CASE Lapse
    <2>1. /\ UNCHANGED <<overtaken, pending, gate, member, leases, kicked>>
          /\ horizon' >= horizon /\ horizon' \in Nat
        BY <1>9, ConstantTypes DEF Lapse, store, index, history, Types
    <2>2. \A d \in DJs : kicked[d] \in Nat
        BY ConstantTypes DEF Types, Kicks
    <2>. QED
        BY <1>3, <1>4, <2>1, <2>2
<1>10. CASE UNCHANGED <<member, leases, kicked, pending, gate, horizon, overtaken>>
    <2>1. Calm
        BY <1>10 DEF Holders, Counted, OnStage, AutoActive, Armed
    <2>. QED
        BY <2>1, <1>3
<1>. QED
    <2>1. ASSUME NEW ev \in Posts, ComeDown(ev)
          PROVE  Snapshot' /\ NeverOvercommitted'
        BY <2>1, <1>10 DEF ComeDown, store, index, history
    <2>2. ASSUME NEW d \in Removable, KickElsewhere(d)
          PROVE  Snapshot' /\ NeverOvercommitted'
        BY <2>2, <1>10 DEF KickElsewhere, index, history
    <2>3. ASSUME UNCHANGED vars
          PROVE  Snapshot' /\ NeverOvercommitted'
        BY <2>3, <1>10 DEF vars, store, index, history
    <2>. QED
        BY <1>1, <1>2, <1>5, <1>6, <1>7, <1>8, <1>9, <2>1, <2>2, <2>3 DEF Next

GateInv == Types /\ Unique /\ Reserved /\ Snapshot /\ NeverOvercommitted

LEMMA GateInductive ==
    ASSUME ~SlowStore
    PROVE  Spec => []GateInv
<1>1. Init => GateInv
    <2>. SUFFICES ASSUME Init PROVE GateInv
        OBVIOUS
    <2>1. Unique /\ Reserved /\ Snapshot
        BY DEF Init, Idle, Unique, Reserved, Snapshot
    <2>2. Taken = {}
        BY DEF Init, Taken, Holders, Counted, OnStage, AutoActive, Armed
    <2>3. Within(Taken)
        BY <2>2, FS_EmptySet, ConstantTypes DEF Within
    <2>. QED
        BY <2>1, <2>3, TypesInit DEF GateInv, NeverOvercommitted
<1>2. GateInv /\ [Next]_vars => GateInv'
    <2>. SUFFICES ASSUME GateInv, [Next]_vars PROVE GateInv'
        OBVIOUS
    <2>1. Types' /\ Unique' /\ Reserved'
        BY TypesNext, UniqueNext, ReservedNext DEF GateInv
    <2>. QED
        BY <2>1, StageNext DEF GateInv
<1>. QED
    BY <1>1, <1>2, PTL DEF Spec

\* stageGate.reject admits one join at a time and its reservation outlives its
\* handler: whatever other connections save, index, kick or revoke meanwhile,
\* leases that count, Auto DJ and reservations never exceed MaxStageDJs.
THEOREM StageNeverOvercommitted ==
    ASSUME ~SlowStore
    PROVE  Spec => []NeverOvercommitted
BY GateInductive, PTL DEF GateInv

\* stageGate.observe is the last to see an event, and only that event's
\* handler releases it: the comment "Reserve accepted joins until OnEventSaved
\* updates the conductor index" holds as long as writes take less than the ten
\* seconds of a reservation.
THEOREM JoinsStayReserved ==
    ASSUME ~SlowStore
    PROVE  Spec => []ReservedUntilIndexed
<1>1. GateInv => ReservedUntilIndexed
    BY DEF GateInv, Reserved, ReservedUntilIndexed
<1>. QED
    BY <1>1, GateInductive, PTL

-----------------------------------------------------------------------------
\* kickIdx is right, and so are the rows a restart fills it from.
KicksAgree ==
    /\ kicked = kickSeen
    /\ ~OtherClubs => kickRows = kickSeen

LEMMA KicksInductive ==
    ASSUME ~OtherClubs \/ ~Failures
    PROVE  Spec => []KicksAgree
<1>1. Init => KicksAgree
    BY DEF Init, KicksAgree
<1>2. Types /\ KicksAgree /\ [Next]_vars => KicksAgree'
    <2>. SUFFICES ASSUME Types, KicksAgree, [Next]_vars PROVE KicksAgree'
        OBVIOUS
    <2>1. ASSUME NEW d \in Removable, NEW at \in KickStamps, Kick(d, at)
          PROVE  KicksAgree'
        BY <2>1, ConstantTypes DEF Kick, KickMax, KicksAgree, Types, Kicks
    <2>2. ASSUME NEW d \in Removable, KickElsewhere(d)
          PROVE  KicksAgree'
        BY <2>2 DEF KickElsewhere, KicksAgree, index, history
    <2>3. CASE Restart
        BY <2>3 DEF Restart, KicksAgree, store
    <2>4. CASE UNCHANGED <<kicked, kickRows, kickSeen>>
        BY <2>4 DEF KicksAgree
    <2>. QED
        BY <2>1, <2>2, <2>3, <2>4
        DEF Next, vars, store, index, history, BeginAdmission, ComeDown, EndAdmission, Handle, Save,
            SaveFails, CheckEligible, Index, Release, CleanAliases, Revoke, Leave, PurgeRows,
            RevokeLease, RevokeReservation, Rejoin, Lapse
<1>. QED
    BY <1>1, <1>2, TypesInit, TypesNext, PTL DEF Spec

\* Unless a kick in another club replaces the row a restart reads, kickIdx
\* never falls behind the newest kick: a DJ on stage has a lease after it.
THEOREM KicksHold ==
    ASSUME ~OtherClubs \/ ~Failures
    PROVE  Spec => []KickHolds
<1>1. KicksAgree => KickHolds
    BY DEF KicksAgree, KickHolds, Counted, OnStage
<1>. QED
    BY <1>1, KicksInductive, PTL

-----------------------------------------------------------------------------
\* The events the store has taken and the index has not seen yet.
Writing == {h.ev : h \in {k \in flight : k.pc \in {"saved", "checked"}}}

\* set holds e or a newer event of the same principal.
Reaches(set, e) == \E f \in set : f.who = e.who /\ (f = e \/ EventNewer(f, e))

\* The store knows all the index knows of a member, and the index knows or is
\* about to learn what the store knows.
Gone == \A d \in member : revoking[d] = "no"
Durable == \A x \in leases \cup Writing : x.who \in member => Reaches(rows, x)
Served == \A r \in rows : r.who \in member => Reaches(leases \cup Writing, r)
LeaseInv == Types /\ KicksAgree /\ Gone /\ Durable /\ Served

LEMMA ReachesFurther ==
    ASSUME NEW S \in SUBSET Events, NEW T \in SUBSET Events, NEW e \in Events,
           Reaches(S, e), \A s \in S : s.who = e.who => Reaches(T, s)
    PROVE  Reaches(T, e)
BY NewerOrders DEF Reaches

LEMMA LeasesSubsets ==
    ASSUME Types
    PROVE  rows \in SUBSET Events /\ leases \in SUBSET Events /\ Writing \in SUBSET Events
BY ConstantTypes DEF Types, OnePerKey, PerWho, Writing, Handlers

\* Storing and indexing lose nothing that is not outdated.
LEMMA StoredReaches ==
    ASSUME Types, NEW ev \in Events
    PROVE  /\ Stored(ev) \subseteq rows \cup {ev} /\ Reaches(Stored(ev), ev)
           /\ \A r \in rows : Reaches(Stored(ev), r)
<1>1. \A e \in rows : e.who = ev.who /\ ~EventNewer(ev, e) => Reaches(rows, ev)
    BY NewerOrders, LeasesSubsets DEF Reaches
<1>. QED
    BY <1>1 DEF Stored, Reaches

LEMMA IndexedReaches ==
    ASSUME Types, NEW ev \in Events
    PROVE  /\ Indexed(ev) \subseteq leases \cup {ev}
           /\ \A l \in leases : l.who # ev.who => l \in Indexed(ev)
           /\ ev.who # AutoDJ => /\ Reaches(Indexed(ev), ev)
                                 /\ \A l \in leases : Reaches(Indexed(ev), l)
<1>1. \A e \in leases : e.who = ev.who /\ ~EventNewer(ev, e) => Reaches(leases, ev)
    BY NewerOrders, LeasesSubsets DEF Reaches
<1>. QED
    BY <1>1 DEF Indexed, Supersedes, Reaches

LEMMA CleanedReaches ==
    ASSUME Types, NEW ev \in Events
    PROVE  /\ Cleaned(ev) \subseteq rows
           /\ \A r \in rows : r.who \in member => Reaches(Cleaned(ev), r)
<1>1. \A r \in rows : \E m \in Latest(rows, r.who) : m = r \/ EventNewer(m, r)
    BY LatestExists, LeasesSubsets
<1>. QED
    BY <1>1 DEF Cleaned, Reaches, Latest

LEMMA LeaseNext ==
    ASSUME ~Rejoins, ~OtherClubs, LeaseInv, Types', KicksAgree', [Next]_vars
    PROVE  LeaseInv'
<1>. USE DEF LeaseInv
<1>. Types /\ KicksAgree /\ Gone /\ Durable /\ Served
    OBVIOUS
\* A step that loses of rows, leases and handlers only what non-members have.
<1>1. ASSUME member' \subseteq member, \A d \in member' : revoking'[d] = revoking[d],
             leases' \subseteq leases, Writing' \subseteq Writing, rows' \subseteq rows,
             \A e \in leases \cup Writing : e.who \in member' => e \in leases' \cup Writing',
             \A r \in rows : r.who \in member' => Reaches(rows', r)
      PROVE  Gone' /\ Durable' /\ Served'
    <2>1. Gone'
        BY <1>1 DEF Gone
    <2>2. ASSUME NEW x \in leases' \cup Writing', x.who \in member'
          PROVE  Reaches(rows', x)
        <3>1. Reaches(rows, x)
            BY <1>1, <2>2 DEF Durable
        <3>2. x \in Events /\ rows' \in SUBSET Events
            BY <1>1, <2>2, LeasesSubsets
        <3>. QED
            BY <1>1, <2>2, <3>1, <3>2, ReachesFurther, LeasesSubsets
    <2>3. ASSUME NEW r \in rows', r.who \in member'
          PROVE  Reaches(leases' \cup Writing', r)
        <3>1. Reaches(leases \cup Writing, r)
            BY <1>1, <2>3 DEF Served
        <3>. QED
            BY <1>1, <2>3, <3>1 DEF Reaches
    <2>. QED
        BY <2>1, <2>2, <2>3 DEF Durable, Served
<1>2. ASSUME UNCHANGED <<member, revoking, leases, rows>>, Writing' = Writing
      PROVE  Gone' /\ Durable' /\ Served'
    BY <1>2 DEF Gone, Durable, Served
<1>3. ASSUME NEW ev \in Posts, BeginAdmission(ev) \/ ComeDown(ev)
      PROVE  Gone' /\ Durable' /\ Served'
    <2>1. flight' \in {flight, flight \cup {[ev |-> ev, pc |-> "accepted", free |-> TRUE]}}
        BY <1>3 DEF BeginAdmission, ComeDown
    <2>2. Writing' = Writing
        BY <2>1 DEF Writing
    <2>. QED
        BY <1>2, <1>3, <2>2 DEF BeginAdmission, ComeDown, store, index
<1>4. ASSUME EndAdmission
      PROVE  Gone' /\ Durable' /\ Served'
    <2>1. PICK g, free :
            /\ g \in gate
            /\ flight' \in {flight, flight \cup {[ev |-> g.ev, pc |-> "accepted", free |-> free]}}
        BY <1>4, Zenon DEF EndAdmission
    <2>2. Writing' = Writing
        BY <2>1 DEF Writing
    <2>. QED
        BY <1>2, <1>4, <2>2 DEF EndAdmission, store, index
<1>5. ASSUME NEW h \in flight, Handle(h)
      PROVE  Gone' /\ Durable' /\ Served'
    <2>. h.ev \in Events /\ h \in Handlers
        BY ConstantTypes DEF Types, Handlers
    <2>. \A pc : [h EXCEPT !.pc = pc].ev = h.ev /\ [h EXCEPT !.pc = pc].pc = pc
        BY DEF Handlers
    <2>1. ASSUME Save(h)
          PROVE  Gone' /\ Durable' /\ Served'
        <3>1. Writing' = Writing \cup {h.ev}
            <4>. DEFINE k == [h EXCEPT !.pc = "saved"]
            <4>1. k.ev = h.ev /\ k.pc = "saved" /\ h.pc = "accepted"
                BY <2>1 DEF Save, Handlers
            <4>2. flight' = (flight \ {h}) \cup {k}
                BY <2>1 DEF Save, Advances
            <4>. HIDE DEF k
            <4>. QED
                BY <4>1, <4>2 DEF Writing
        <3>2. UNCHANGED <<member, revoking, leases>> /\ rows' = Stored(h.ev)
            BY <2>1 DEF Save, index
        <3>3. rows' \in SUBSET Events
            BY <3>2, StoredReaches, LeasesSubsets
        <3>4. ASSUME NEW x \in leases' \cup Writing', x.who \in member'
              PROVE  Reaches(rows', x)
            <4>1. CASE x = h.ev
                BY <3>2, <4>1, StoredReaches
            <4>2. CASE x # h.ev
                <5>1. Reaches(rows, x) /\ x \in Events
                    BY <3>1, <3>2, <3>4, <4>2, LeasesSubsets DEF Durable
                <5>. QED
                    BY <3>2, <3>3, <5>1, StoredReaches, ReachesFurther, LeasesSubsets
            <4>. QED
                BY <4>1, <4>2
        <3>5. ASSUME NEW r \in rows', r.who \in member'
              PROVE  Reaches(leases' \cup Writing', r)
            <4>1. r \in rows \/ r = h.ev
                BY <3>2, StoredReaches
            <4>. QED
                BY <3>1, <3>2, <3>5, <4>1 DEF Served, Reaches
        <3>. QED
            BY <3>2, <3>4, <3>5 DEF Gone, Durable, Served
    <2>2. CASE SaveFails(h)
        <3>1. Writing' = Writing
            BY <2>2 DEF SaveFails, Writing
        <3>. QED
            BY <1>2, <2>2, <3>1 DEF SaveFails, store, index
    <2>3. CASE CheckEligible(h)
        <3>1. Writing' \subseteq Writing /\ \A e \in Writing : e.who \in member => e \in Writing'
            <4>1. PICK pc \in {"checked", "indexed"} :
                    /\ flight' = (flight \ {h}) \cup {[h EXCEPT !.pc = pc]}
                    /\ h.pc = "saved" /\ (h.ev.who \in member => pc = "checked")
                BY <2>3 DEF CheckEligible, Advances
            <4>. DEFINE k == [h EXCEPT !.pc = pc]
            <4>2. k.ev = h.ev /\ k.pc = pc
                BY <4>1 DEF Handlers
            <4>3. flight' = (flight \ {h}) \cup {k}
                BY <4>1
            <4>. HIDE DEF k
            <4>. QED
                BY <4>1, <4>2, <4>3 DEF Writing
        <3>2. UNCHANGED <<member, revoking, leases, rows>>
            BY <2>3 DEF CheckEligible, store, index
        <3>. QED
            BY <1>1, <3>1, <3>2 DEF Reaches
    <2>4. CASE Index(h)
        <3>1. UNCHANGED <<member, revoking, rows>> /\ leases' = Indexed(h.ev)
            BY <2>4 DEF Index, store
        <3>2. h.ev \in Writing /\ Writing' \subseteq Writing
              /\ Writing \subseteq Writing' \cup {h.ev}
            BY <2>4 DEF Index, Advances, Writing
        <3>3. leases' \cup Writing' \in SUBSET Events
            BY <3>1, <3>2, IndexedReaches, LeasesSubsets
        <3>4. \A x \in leases' \cup Writing' : x \in leases \cup Writing
            BY <3>1, <3>2, IndexedReaches
        <3>5. ASSUME NEW x \in leases \cup Writing, x.who \in member
              PROVE  Reaches(leases' \cup Writing', x)
            <4>1. x.who # AutoDJ
                BY <3>5, ConstantTypes DEF Types
            <4>. QED
                BY <3>1, <3>2, <4>1, IndexedReaches DEF Reaches
        <3>6. ASSUME NEW r \in rows, r.who \in member
              PROVE  Reaches(leases' \cup Writing', r)
            <4>1. Reaches(leases \cup Writing, r) /\ r \in Events
                BY <3>6, LeasesSubsets DEF Served
            <4>2. leases \cup Writing \in SUBSET Events
                BY LeasesSubsets
            <4>3. \A x \in leases \cup Writing : x.who = r.who => Reaches(leases' \cup Writing', x)
                BY <3>5, <3>6
            <4>. QED
                BY <3>3, <4>1, <4>2, <4>3, ReachesFurther
        <3>. QED
            BY <3>1, <3>4, <3>6 DEF Gone, Durable, Served
    <2>5. CASE Release(h)
        <3>1. Writing' = Writing
            BY <2>5 DEF Release, Advances, Writing
        <3>. QED
            BY <1>2, <2>5, <3>1 DEF Release, store, index
    <2>6. CASE CleanAliases(h)
        <3>1. Writing' = Writing
            BY <2>6 DEF CleanAliases, Writing
        <3>2. UNCHANGED <<member, revoking, leases>> /\ rows' = Cleaned(h.ev)
            BY <2>6 DEF CleanAliases, index
        <3>. QED
            BY <1>1, <3>1, <3>2, CleanedReaches
    <2>. QED
        BY <1>5, <2>1, <2>2, <2>3, <2>4, <2>5, <2>6 DEF Handle
<1>6. ASSUME NEW d \in Removable, Revoke(d)
      PROVE  Gone' /\ Durable' /\ Served'
    <2>. d \in DJs
        BY ConstantTypes
    <2>1. ASSUME UNCHANGED <<leases, rows>>, Writing' = Writing, member' \subseteq member,
                 \A x \in member' : revoking'[x] = revoking[x]
          PROVE  Gone' /\ Durable' /\ Served'
        BY <1>1, <2>1 DEF Reaches
    <2>2. CASE Leave(d)
        <3>1. Writing' = Writing /\ UNCHANGED <<leases, rows>> /\ member' = member \ {d}
            BY <2>2 DEF Leave, Writing, index
        <3>2. \A x \in member' : revoking'[x] = revoking[x]
            BY <2>2 DEF Leave, Types
        <3>. QED
            BY <2>1, <3>1, <3>2
    <2>3. CASE PurgeRows(d) \/ RevokeLease(d)
        <3>1. d \notin member
            BY <2>3 DEF PurgeRows, RevokeLease, Gone
        <3>2. Writing' = Writing /\ member' = member
            BY <2>3 DEF PurgeRows, RevokeLease, Writing, store
        <3>3. \A x \in member' : revoking'[x] = revoking[x]
            BY <2>3, <3>1, <3>2 DEF PurgeRows, RevokeLease, Types
        <3>4. /\ leases' \subseteq leases /\ \A e \in leases : e.who \in member => e \in leases'
              /\ rows' \subseteq rows /\ \A e \in rows : e.who \in member => e \in rows'
            BY <2>3, <3>1 DEF PurgeRows, RevokeLease, store, index
        <3>. QED
            BY <1>1, <3>2, <3>3, <3>4 DEF Reaches
    <2>4. CASE RevokeReservation(d)
        <3>. DEFINE freed(h) == [h EXCEPT !.free = @ \/ h.ev.who = d]
        <3>1. d \notin member
            BY <2>4 DEF RevokeReservation, Gone
        <3>2. flight' = {freed(h) : h \in flight}
            BY <2>4 DEF RevokeReservation
        <3>3. \A h \in flight : freed(h).ev = h.ev /\ freed(h).pc = h.pc
            BY DEF Types, Handlers
        <3>4. Writing' = Writing
            <4>. HIDE DEF freed
            <4>. QED
                BY <3>2, <3>3 DEF Writing
        <3>5. UNCHANGED <<leases, rows, member>>
            BY <2>4 DEF RevokeReservation, store, index
        <3>6. \A x \in member' : revoking'[x] = revoking[x]
            BY <2>4, <3>1, <3>5 DEF RevokeReservation, Types
        <3>. QED
            BY <2>1, <3>4, <3>5, <3>6
    <2>. QED
        BY <1>6, <2>2, <2>3, <2>4 DEF Revoke
<1>7. CASE Restart
    <2>1. leases' = Warm /\ Writing' = {} /\ UNCHANGED <<member, rows>>
        BY <1>7 DEF Restart, Writing, store
    <2>2. Gone'
        BY <1>7, <2>1 DEF Restart, Gone, Types
    <2>3. Durable'
        BY <2>1 DEF Durable, Warm, Latest, Reaches
    <2>4. \A r \in rows : \E m \in Latest(rows, r.who)
            : m.who = r.who /\ (m = r \/ EventNewer(m, r))
        BY LatestExists, LeasesSubsets DEF Latest
    <2>5. Served'
        BY <2>1, <2>4 DEF Served, Warm, Reaches
    <2>. QED
        BY <2>2, <2>3, <2>5
<1>8. CASE UNCHANGED <<member, revoking, leases, rows, flight>>
    <2>1. Writing' = Writing
        BY <1>8 DEF Writing
    <2>. QED
        BY <1>2, <1>8, <2>1
<1>9. Gone' /\ Durable' /\ Served'
    BY <1>3, <1>4, <1>5, <1>6, <1>7, <1>8
    DEF Next, vars, store, index, history, Kick, KickElsewhere, Rejoin, Lapse
<1>. QED
    BY <1>9

LEMMA LeaseInductive ==
    ASSUME ~Rejoins, ~OtherClubs
    PROVE  Spec => []LeaseInv
<1>1. Init /\ Types /\ KicksAgree => LeaseInv
    BY DEF Init, LeaseInv, Gone, Durable, Served, Writing
<1>2. LeaseInv /\ Types' /\ KicksAgree' /\ [Next]_vars => LeaseInv'
    BY LeaseNext
<1>3. Spec => []Types
    BY TypesInit, TypesNext, PTL DEF Spec
<1>4. Spec => []KicksAgree
    BY KicksInductive
<1>. QED
    BY <1>1, <1>2, <1>3, <1>4, PTL DEF Spec

\* With every handler done, the leases in memory are the newest rows of the
\* store: unless members come back while their revocation is under way, or a
\* kick elsewhere replaces a row, warmIndexes brings back the same stage.
THEOREM RestartsKeepTheStage ==
    ASSUME ~Rejoins, ~OtherClubs
    PROVE  Spec => []RestartKeepsStage
<1>1. ASSUME LeaseInv, flight = {}
      PROVE  OnStage(Warm, kickRows) = Counted
    <2>. Types /\ kickRows = kicked /\ Writing = {}
        BY <1>1 DEF LeaseInv, KicksAgree, Writing
    <2>1. ASSUME NEW d \in member, NEW e \in leases, e.who = d
          PROVE  e \in Warm
        <3>1. PICK r \in rows : r.who = d /\ (r = e \/ EventNewer(r, e))
            BY <1>1, <2>1 DEF LeaseInv, Durable, Reaches
        <3>2. PICK m \in Latest(rows, d) : m = r \/ EventNewer(m, r)
            BY <3>1, LatestExists, LeasesSubsets
        <3>3. m \in rows /\ m.who = d
            BY <3>2 DEF Latest
        <3>4. PICK f \in leases : f.who = d /\ (f = m \/ EventNewer(f, m))
            BY <1>1, <2>1, <3>3 DEF LeaseInv, Served, Reaches
        <3>5. f = e
            BY <2>1, <3>4 DEF Types, PerWho
        <3>6. e = m
            BY <3>1, <3>2, <3>3, <3>4, <3>5, NewerOrders, LeasesSubsets
        <3>. QED
            BY <3>2, <3>6 DEF Warm
    <2>2. ASSUME NEW d \in member, NEW m \in Warm, m.who = d
          PROVE  m \in leases
        <3>1. m \in Latest(rows, d) /\ m \in rows
            BY <2>2 DEF Warm, Latest
        <3>2. PICK f \in leases : f.who = d /\ (f = m \/ EventNewer(f, m))
            BY <1>1, <2>2, <3>1 DEF LeaseInv, Served, Reaches
        <3>3. f \in Warm
            BY <2>1, <3>2
        <3>4. f \in Latest(rows, d)
            BY <3>2, <3>3 DEF Warm, Latest
        <3>5. f = m
            BY <3>1, <3>4, LatestUnique, LeasesSubsets
        <3>. QED
            BY <3>5
    <2>. QED
        BY <2>1, <2>2 DEF Counted, OnStage
<1>2. LeaseInv => RestartKeepsStage
    BY <1>1 DEF RestartKeepsStage
<1>. QED
    BY <1>2, LeaseInductive, PTL
=============================================================================
