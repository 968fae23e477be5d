------------------------------ MODULE SingleUse ------------------------------
(***************************************************************************)
(* What the relay accepts once: the session events of a club page, which   *)
(* reserve their id in the last write hook and give it back when the stage *)
(* gate refuses (relay/sessionevents.go); the receipts that pay for entry  *)
(* (relay/entryfee.go); the NIP-98 tokens of the admin API                 *)
(* (relay/admin.go).  Requests arrive on connections that are handled      *)
(* concurrently, the same one on several of them too.  The relay remembers *)
(* what it accepted for a while, in memory, and may restart.               *)
(*                                                                         *)
(* Who may send a request is not modelled here: membership is StageGate's  *)
(* concern.  A session event stands for a stage event; one of presence is  *)
(* never refused by the stage gate.                                        *)
(***************************************************************************)
EXTENDS Integers, Sequences, SequencesExt

CONSTANTS
    Conns,                 \* connections handled at the same time
    Sessions, Joins, Tokens,  \* signed requests, each with its created_at; a token
                           \* is what the header carries, the event's id included
    NoRequest,
    NonceIds, NoId,        \* ids a token's event may name; none named
    NonceId,               \* what it names: only its signature is verified
    Receipts, ReceiptOf,   \* zap receipts; the one a join request carries
    CreatedAt,             \* [Sessions \cup Joins \cup Tokens -> Int]
    MaxPast, MaxFuture,    \* sessionEventMaxPast, sessionEventMaxFuture
    ReplayWindow, ReplayMax,  \* sessionEventReplayWindow, sessionEventReplayMax
    ReceiptLife,           \* how long a receipt is fresh
    MaxSkew, NonceLife,    \* freshness of a token, how long its id is kept
    MaxPause,              \* time between finding a request fresh and its lookup
    MaxTime                \* bound of the clock

Requests == Sessions \cup Joins \cup Tokens

\* An id is kept longer than its event can still be fresh.
ASSUME SingleUseAssumption ==
    /\ {MaxPast, MaxFuture, ReplayWindow, ReceiptLife, MaxSkew, NonceLife,
        MaxPause, MaxTime} \subseteq Nat
    /\ ReplayMax \in Nat \ {0}
    /\ CreatedAt \in [Requests -> Int] /\ ReceiptOf \in [Joins -> Receipts]
    /\ NonceId \in [Tokens -> NonceIds \cup {NoId}] /\ NoId \notin NonceIds
    /\ NoRequest \notin Requests
    /\ Sessions \cap (Joins \cup Tokens) = {} /\ Joins \cap Tokens = {}
    /\ MaxPast + MaxFuture + MaxPause < ReplayWindow
    /\ 2 * MaxSkew + MaxPause < NonceLife

VARIABLES
    now,
    conn,     \* the request each connection is at, and how far
    replay,   \* sessionEventPolicy.replay: the ids, in the order reserved
    used,     \* entryGate.used
    nonces,   \* adminNonces
    paid,     \* when the wallet was paid for a receipt, or none
    accepted, \* history: how often a request was accepted by this relay process,
              \* 2 for more than once
    admitted  \* history: the joins a receipt was good for

memory == <<replay, used, nonces>>
vars == <<now, conn, memory, paid, accepted, admitted>>

Idle == [req |-> NoRequest, step |-> "idle", read |-> 0]
Unpaid == MaxTime + 1

\* A connection at a step, having read the clock.
At(r, s) == [req |-> r, step |-> s, read |-> now]
GoesTo(c, w) == conn' = [conn EXCEPT ![c] = w]
Steps == {"hooks", "reserve", "stage", "spend", "join", "nonce", "renew"}

Accept(r) == accepted' = [accepted EXCEPT ![r] = IF @ = 0 THEN 1 ELSE 2]

Records == [id : Sessions, expiry : Int]
NonceRecords == [id : NonceIds, expiry : Int]

Init ==
    /\ now = 0
    /\ conn = [c \in Conns |-> Idle]
    /\ replay = <<>> /\ used = {} /\ nonces = {}
    /\ paid = [r \in Receipts |-> Unpaid]
    /\ accepted = [r \in Requests |-> 0]
    /\ admitted = [r \in Receipts |-> 0]

-----------------------------------------------------------------------------
(* Session events.                                                         *)

\* The window of sessionEventPolicy.reject.
Fresh(s) == now - MaxPast <= CreatedAt[s] /\ CreatedAt[s] <= now + MaxFuture

\* restrictGroupWrites: a session event passes the policy.
Deliver(c, s) ==
    /\ conn[c] = Idle /\ Fresh(s)
    /\ GoesTo(c, At(s, "hooks"))
    /\ UNCHANGED <<now, memory, paid, accepted, admitted>>

\* One of the hooks between, a limiter, or the second check refuses it.
Refuse(c) ==
    /\ conn[c].step = "hooks"
    /\ GoesTo(c, Idle)
    /\ UNCHANGED <<now, memory, paid, accepted, admitted>>

\* finalSessionReplayAndStageGate: checked again before rejectReplay.
CheckAgain(c) ==
    /\ conn[c].step = "hooks" /\ Fresh(conn[c].req)
    /\ GoesTo(c, At(conn[c].req, "reserve"))
    /\ UNCHANGED <<now, memory, paid, accepted, admitted>>

\* Mutant: an id is kept as long as an event may be old, not longer.
ExpiryWhenOld(t) == t + MaxPast

Expiry(t) == t + ReplayWindow

Expired(rec, t) == rec.expiry <= t

\* pruneReplayLocked: drops from the front what has expired, up to the first
\* that has not, whatever stands behind it.
Pruned(t, kept) ==
    \E k \in 0..Len(replay) :
        /\ \A i \in 1..k : Expired(replay[i], t)
        /\ k < Len(replay) => ~Expired(replay[k + 1], t)
        /\ kept = SubSeq(replay, k + 1, Len(replay))

Holds(list, s) == \E i \in DOMAIN list : list[i].id = s
Position(list, s) == CHOOSE i \in DOMAIN list : list[i].id = s

\* Mutant: a refusal by the stage gate keeps the id.
WithAll(list, s) == list

\* removeReplayLocked
Without(list, s) ==
    IF Holds(list, s) THEN RemoveAt(list, Position(list, s)) ELSE list

\* Mutant: one id too many.
FullAfterOneMore(list) == Len(list) > ReplayMax

Full(list) == Len(list) >= ReplayMax

\* The id is known and has not expired, by the clock read before the lock.
Known(list, s, t) == \E i \in DOMAIN list : list[i].id = s /\ ~Expired(list[i], t)

\* rejectReplay, under its lock, having read the clock at t before it.
ReserveAt(c, t) ==
    LET s == conn[c].req
    IN  /\ conn[c].step = "reserve"
        /\ \E kept \in {SubSeq(replay, k, Len(replay)) : k \in 1..Len(replay) + 1} :
            /\ Pruned(t, kept)
            /\ \/ /\ Known(kept, s, t)
                  /\ replay' = kept /\ GoesTo(c, Idle)
               \/ /\ ~Known(kept, s, t) /\ Full(Without(kept, s))
                  /\ replay' = Without(kept, s) /\ GoesTo(c, Idle)
               \/ /\ ~Known(kept, s, t) /\ ~Full(Without(kept, s))
                  /\ replay' = Append(Without(kept, s), [id |-> s, expiry |-> Expiry(t)])
                  /\ GoesTo(c, At(s, "stage"))
        /\ UNCHANGED <<now, used, nonces, paid, accepted, admitted>>

Reserve(c) == \E t \in conn[c].read .. now : ReserveAt(c, t)

\* The stage gate admits the event: it is written and broadcast.
StageAdmits(c) ==
    /\ conn[c].step = "stage"
    /\ Accept(conn[c].req)
    /\ GoesTo(c, Idle)
    /\ UNCHANGED <<now, memory, paid, admitted>>

\* releaseReplay: the gate refuses and the id may be used again.
StageRefuses(c) ==
    /\ conn[c].step = "stage"
    /\ replay' = Without(replay, conn[c].req)
    /\ GoesTo(c, Idle)
    /\ UNCHANGED <<now, used, nonces, paid, accepted, admitted>>

-----------------------------------------------------------------------------
(* Paid entry.                                                             *)

\* The entry wallet signs a receipt.
Pay(r) ==
    /\ paid[r] = Unpaid
    /\ paid' = [paid EXCEPT ![r] = now]
    /\ UNCHANGED <<now, conn, memory, accepted, admitted>>

\* verifyReceipt: the receipt is the joiner's, for this club, and fresh.
ShowReceipt(c, j) ==
    /\ conn[c] = Idle
    /\ paid[ReceiptOf[j]] # Unpaid /\ now - paid[ReceiptOf[j]] <= ReceiptLife
    /\ GoesTo(c, At(j, "spend"))
    /\ UNCHANGED <<now, memory, paid, accepted, admitted>>

\* Mutant: the id of the join request instead of the receipt's.
UseKeyOfTheJoin(j) == j

\* What entryGate.used is keyed by.
UseKey(j) == ReceiptOf[j]

\* LoadOrStore: the first join request that shows a receipt uses it up.
SpendReceipt(c) ==
    LET j == conn[c].req
    IN  /\ conn[c].step = "spend"
        /\ IF UseKey(j) \in used
           THEN GoesTo(c, Idle) /\ UNCHANGED used
           ELSE GoesTo(c, At(j, "join")) /\ used' = used \cup {UseKey(j)}
        /\ UNCHANGED <<now, replay, nonces, paid, accepted, admitted>>

\* PreventTimestampsInTheFuture comes after the entry gate, and applies to joins.
TooEarly(j) == CreatedAt[j] > now + MaxFuture

RefuseJoin(c) ==
    /\ conn[c].step = "join" /\ TooEarly(conn[c].req)
    /\ GoesTo(c, Idle)
    /\ UNCHANGED <<now, memory, paid, accepted, admitted>>

\* The join request is written and relay29 adds the member.
Join(c) ==
    LET j == conn[c].req
    IN  /\ conn[c].step = "join" /\ ~TooEarly(j)
        /\ GoesTo(c, Idle)
        /\ Accept(j)
        /\ admitted' = [admitted EXCEPT ![ReceiptOf[j]] = @ + 1]
        /\ UNCHANGED <<now, memory, paid>>

-----------------------------------------------------------------------------
(* Tokens of the admin API.                                                *)

\* verifyNIP98: the token is fresh.
PresentToken(c, t) ==
    /\ conn[c] = Idle
    /\ now - MaxSkew <= CreatedAt[t] /\ CreatedAt[t] <= now + MaxSkew
    /\ GoesTo(c, At(t, "nonce"))
    /\ UNCHANGED <<now, memory, paid, accepted, admitted>>

\* The record of the id that the token names, expired or not.
Found(t) == {n \in nonces : n.id = NonceId[t]}
\* Mutant: an id is kept as long as a token may be old, not longer.
NonceWhenOld(t, read) == [id |-> NonceId[t], expiry |-> read + MaxSkew]
NonceOf(t, read) == [id |-> NonceId[t], expiry |-> read + NonceLife]

\* verifyNIP98 asks adminNonceSeen about the id the event names, if it names one:
\* LoadOrStore, with an expiry computed before, ...
CheckNonce(c) ==
    LET t == conn[c].req
    IN  /\ conn[c].step = "nonce"
        /\ \/ /\ NonceId[t] = NoId
              /\ Accept(t) /\ GoesTo(c, Idle) /\ UNCHANGED nonces
           \/ /\ NonceId[t] # NoId /\ Found(t) = {}
              /\ \E read \in conn[c].read .. now : nonces' = nonces \cup {NonceOf(t, read)}
              /\ Accept(t) /\ GoesTo(c, Idle)
           \/ /\ \E n \in Found(t) : n.expiry > now
              /\ GoesTo(c, Idle) /\ UNCHANGED <<nonces, accepted>>
           \/ /\ \E n \in Found(t) : n.expiry <= now
              /\ \E read \in conn[c].read .. now :
                    GoesTo(c, [req |-> t, step |-> "renew", read |-> read])
              /\ UNCHANGED <<nonces, accepted>>
        /\ UNCHANGED <<now, replay, used, paid, admitted>>

\* ... and a Store of its own when what it found had expired.
RenewNonce(c) ==
    LET t == conn[c].req
    IN  /\ conn[c].step = "renew"
        /\ nonces' = (nonces \ Found(t)) \cup {NonceOf(t, conn[c].read)}
        /\ Accept(t) /\ GoesTo(c, Idle)
        /\ UNCHANGED <<now, replay, used, paid, admitted>>

\* pruneAdminNonces, in the background sweep.
PruneNonces ==
    /\ \E n \in nonces : n.expiry < now
    /\ nonces' = {n \in nonces : n.expiry >= now}
    /\ UNCHANGED <<now, conn, replay, used, paid, accepted, admitted>>

-----------------------------------------------------------------------------
\* No goroutine that has found a request fresh is held up for longer than MaxPause.
Tick ==
    /\ now < MaxTime
    /\ \A c \in Conns :
        conn[c].step \in {"reserve", "nonce"} => now < conn[c].read + MaxPause
    /\ now' = now + 1
    /\ UNCHANGED <<conn, memory, paid, accepted, admitted>>

\* All three memories are lost, and so is every request being handled.
Restart ==
    /\ conn' = [c \in Conns |-> Idle]
    /\ replay' = <<>> /\ used' = {} /\ nonces' = {}
    /\ accepted' = [r \in Requests |-> 0]
    /\ admitted' = [r \in Receipts |-> 0]
    /\ UNCHANGED <<now, paid>>

Next ==
    \/ \E c \in Conns :
        \/ \E s \in Sessions : Deliver(c, s)
        \/ \E j \in Joins : ShowReceipt(c, j)
        \/ \E t \in Tokens : PresentToken(c, t)
        \/ Refuse(c) \/ CheckAgain(c) \/ Reserve(c)
        \/ StageAdmits(c) \/ StageRefuses(c)
        \/ SpendReceipt(c) \/ RefuseJoin(c) \/ Join(c)
        \/ CheckNonce(c) \/ RenewNonce(c)
    \/ \E r \in Receipts : Pay(r)
    \/ PruneNonces \/ Tick \/ Restart

Spec == Init /\ [][Next]_vars

-----------------------------------------------------------------------------
Work == [req : Requests, step : Steps, read : Int] \cup {Idle}

\* What each memory holds, and that the replay cache keeps its bound.
TypeOK ==
    /\ now \in 0..MaxTime
    /\ conn \in [Conns -> Work]
    /\ replay \in Seq(Records) /\ Len(replay) <= ReplayMax
    /\ used \subseteq Receipts /\ nonces \subseteq NonceRecords
    /\ paid \in [Receipts -> Int]
    /\ accepted \in [Requests -> Nat] /\ admitted \in [Receipts -> Nat]

\* A token whose event names an id that no other token's does.
Identified(t) ==
    /\ NonceId[t] # NoId
    /\ \A u \in Tokens : NonceId[u] = NonceId[t] => u = t

\* The relay process accepts a session event at most once, and so a token of the
\* admin API whose event names an id of its own: forgetting an id after a while,
\* giving one back when the gate refuses, and clocks read before a lock is taken
\* let no second delivery in (sessionevents.go:178, "single-winner").
AcceptedOnce ==
    /\ \A s \in Sessions : accepted[s] <= 1
    /\ \A t \in Tokens : Identified(t) => accepted[t] <= 1

\* admin.go:168: "each NIP-98 token (event id) is single-use within its freshness
\* window".  Not so: a token whose event names no id is remembered by none.
TokensAreSingleUse == \A t \in Tokens : accepted[t] <= 1

\* A receipt admits at most one join while the relay runs, however many join
\* requests carry it at once (entryfee.go:171).
ReceiptAdmitsOnce == \A r \in Receipts : admitted[r] <= 1

\* The replay cache holds the ids of accepted events and of those at the stage
\* gate, nothing else: what was refused may be sent again, and cannot fill it
\* (relay/README.md, "rejected traffic cannot grow the replay cache").
RefusalsAreForgotten ==
    \A i \in DOMAIN replay :
        \/ accepted[replay[i].id] = 1
        \/ \E c \in Conns : conn[c].req = replay[i].id /\ conn[c].step = "stage"

\* entryfee.go:171: "a paid receipt admits exactly one join".  Not so: one used
\* up by a join request that a later hook refuses admits nobody.
SpentReceiptsAdmit ==
    \A r \in used :
        \/ admitted[r] = 1
        \/ \E c \in Conns :
            conn[c].step = "join" /\ ReceiptOf[conn[c].req] = r
=============================================================================
