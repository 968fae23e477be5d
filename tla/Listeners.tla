------------------------------ MODULE Listeners ------------------------------
(***************************************************************************)
(* How many tabs listen to a club (relay/listeners.go, the publisher and   *)
(* the tickers of relay/main.go, frontend listeners.svelte.ts).            *)
(*                                                                         *)
(* Every open club page sends anonymous beats.  The relay lets them past   *)
(* its rate limiter, keeps the tabs it heard of lately, and broadcasts     *)
(* their number: on a change, and now and then for who comes late.  The    *)
(* number is decided under the lock and broadcast after it.  A page shows  *)
(* the latest number it knows, and none when that is too old.              *)
(*                                                                         *)
(* One club and one page that shows its number.  What the relay retains of *)
(* it for the dashboard, and its deletion, are in Clubs.  The limiter per  *)
(* network is the same algorithm as the one per tab and is left out.       *)
(***************************************************************************)
EXTENDS RateLimit, FiniteSets

CONSTANTS
    Beat,      \* BEAT_MS: between two beats of a tab
    Transit,   \* a message arrives in that time or never
    Online,    \* listenOnlineMs: a tab not heard of for as long is gone
    Refresh,   \* listenCountBroadcastMs: an unchanged number is sent again
    Stale,     \* LISTENER_COUNT_STALE_MS: an older number is not shown
    Skews,     \* how far the browser's clock may be ahead of the relay's
    MaxMoves,  \* bound: visits, reloads, closed tabs, more beats, restarts
    MaxTime    \* bound on now

\* listenOnlineMs (70 s) allows for one beat that is lost and one that is refused
\* (main.go: the listener limiter refills in 10 s), and for delays.  A number is
\* sent again (15 s) before it is too old to be shown (45 s) by the browser's
\* clock, which the code does not ensure: one that is too far ahead shows 0.
ASSUME ListenersAssumption ==
    /\ {Beat, Transit, Online, Refresh, Stale, MaxMoves, MaxTime} \subseteq Nat
    /\ IsFiniteSet(Keys)
    /\ Cost <= Burst /\ Transit + Cost <= Beat
    /\ 2 * Beat + Transit + MaxPause + Cost <= Online
    /\ 0 < Refresh
    /\ Skews \subseteq Int /\ \A s \in Skews : Refresh + MaxPause + s <= Stale

Tabs == Keys
Gone == -1 - MaxPause

VARIABLES
    tab,        \* the browser tabs: open, next beat due, was the last one lost
    flight,     \* beats under way, then recorded
    active,     \* when the relay last heard of a tab
    published,  \* the number last decided on, if it is not 0
    outbox,     \* numbers decided on and not broadcast yet
    ticked,     \* the 5 s ticker has run in this unit of time
    shown,      \* what the page knows
    changed,    \* history: when the set of active tabs or the page changed
    since,      \* history: since when a tab is open without a break
    moves

countVars == <<active, published, outbox>>
listenVars == <<tab, flight, countVars, ticked, shown, changed, since, moves>>
vars == <<limiterVars, listenVars>>

None == [sent |-> FALSE, count |-> 0, at |-> 0]

Init ==
    /\ LimiterInit
    /\ tab = [k \in Tabs |-> [open |-> FALSE, due |-> 0, lost |-> FALSE]]
    /\ flight = {}
    /\ active = [k \in Tabs |-> Gone]
    /\ published = None
    /\ outbox = {}
    /\ ticked = FALSE
    /\ shown = [count |-> 0, at |-> 0]
    /\ changed = 0
    /\ since = [k \in Tabs |-> 0]
    /\ moves = 0

Move == moves < MaxMoves /\ moves' = moves + 1

-----------------------------------------------------------------------------
(* The tabs.                                                               *)

\* publishState: sent, and perhaps lost.  No two messages in a row are lost.
Beats(k, states) ==
    { [tab |-> k, state |-> s, at |-> now, recorded |-> FALSE] : s \in states }

Send(k, states, open, due) ==
    \/ /\ flight' = flight \cup Beats(k, states)
       /\ tab' = [tab EXCEPT ![k] = [open |-> open, due |-> due, lost |-> FALSE]]
    \/ /\ ~tab[k].lost
       /\ flight' = flight
       /\ tab' = [tab EXCEPT ![k] = [open |-> open, due |-> due, lost |-> TRUE]]

RelayUnchanged == UNCHANGED <<limiterVars, countVars, ticked, shown, changed>>

\* startListening, and a page that is loaded again, its farewell still under way.
Open(k) ==
    /\ ~tab[k].open
    /\ Send(k, {"on"}, TRUE, now + Beat)
    /\ since' = [since EXCEPT ![k] = now]
    /\ UNCHANGED moves
    /\ RelayUnchanged

Reload(k) ==
    /\ tab[k].open
    /\ Send(k, {"off", "on"}, TRUE, now + Beat)
    /\ since' = [since EXCEPT ![k] = now]
    /\ Move
    /\ RelayUnchanged

\* The beat of the interval.
BeatOn(k) ==
    /\ tab[k].open /\ tab[k].due = now
    /\ Send(k, {"on"}, TRUE, now + Beat)
    /\ UNCHANGED <<since, moves>>
    /\ RelayUnchanged

\* onVisible: one more beat.
Visible(k) ==
    /\ tab[k].open /\ tab[k].due # now
    /\ Send(k, {"on"}, TRUE, tab[k].due)
    /\ Move
    /\ UNCHANGED since
    /\ RelayUnchanged

\* stopListening, onPageHide.
Close(k) ==
    /\ tab[k].open
    /\ Send(k, {"off"}, FALSE, 0)
    /\ Move
    /\ UNCHANGED since
    /\ RelayUnchanged

-----------------------------------------------------------------------------
(* The relay: a beat.                                                      *)

\* pruneActiveLocked, having read the clock at t.  Mutant: the window forgives
\* no lost beat.
PrunedEarly(t) == [k \in Tabs |-> IF t - active[k] >= Online - Beat THEN Gone ELSE active[k]]
Pruned(t) == [k \in Tabs |-> IF t - active[k] >= Online THEN Gone ELSE active[k]]

Listening(a) == { k \in Tabs : a[k] # Gone }

SetActive(a) ==
    /\ active' = a
    /\ changed' = IF Listening(a) # Listening(active) THEN now ELSE changed

\* The limiter lets a beat pass or not.  An accepted one is observed: record or
\* remove, each under the lock.  record first prunes (rollLocked).  The limiter
\* reads the clock at once: ListenersProofs has the readings in any order.
\* Two more ways to refuse a beat are left out: a browser whose clock is 60 s
\* behind or 30 s ahead (validListenerBeat, main.go), and the caps of 2000 clubs
\* and 5000 tabs of a club (record).
Observe(m) ==
    /\ m \in flight /\ ~m.recorded
    /\ \/ /\ Refuse(m.tab, now)
          /\ flight' = flight \ {m}
          /\ UNCHANGED <<active, changed>>
       \/ /\ Allow(m.tab, now)
          /\ \E t \in Readings :
              /\ flight' = (flight \ {m}) \cup {[m EXCEPT !.recorded = TRUE, !.at = t]}
              /\ SetActive(IF m.state = "on" THEN [Pruned(t) EXCEPT ![m.tab] = t]
                           ELSE [active EXCEPT ![m.tab] = Gone])
    /\ UNCHANGED <<now, tab, published, outbox, ticked, shown, since, moves>>

\* When to send a number.  Mutant: when it changes only.
OnChange(t, count) == ~published.sent \/ published.count # count
IsDue(t, count) ==
    ~published.sent \/ published.count # count \/ t - published.at >= Refresh

\* Mutant: a 0 is remembered, and repeated for ever.
RememberedZero(t, count) ==
    IF IsDue(t, count) THEN [sent |-> TRUE, count |-> count, at |-> t] ELSE published
\* What is remembered of a number: a 0 is sent once.
Remembered(t, count) ==
    IF count = 0 THEN None
    ELSE IF IsDue(t, count) THEN [sent |-> TRUE, count |-> count, at |-> t]
    ELSE published

\* broadcastLive, under the lock: what to broadcast.
Decide(t) ==
    LET a == Pruned(t)
        count == Cardinality(Listening(a))
    IN  /\ SetActive(a)
        /\ IF count = 0 /\ ~published.sent
           THEN UNCHANGED <<published, outbox>>
           ELSE /\ outbox' = IF IsDue(t, count)
                             THEN outbox \cup {[count |-> count, at |-> t]} ELSE outbox
                /\ published' = Remembered(t, count)

\* observe goes on, with the time it read.
ObserveDecides(m) ==
    /\ m \in flight /\ m.recorded
    /\ flight' = flight \ {m}
    /\ Decide(m.at)
    /\ UNCHANGED <<limiterVars, tab, ticked, shown, since, moves>>

\* The 5 s ticker.
Tick ==
    /\ \E t \in Readings : Decide(t)
    /\ ticked' = TRUE
    /\ UNCHANGED <<limiterVars, tab, flight, shown, since, moves>>

-----------------------------------------------------------------------------
(* A number reaches the page.                                              *)

\* ingestListenerCount: not one that was decided on before the one it knows.
Ingest(u) == IF u.at < shown.at THEN UNCHANGED shown ELSE shown' = u

\* The publisher of main.go.
Publish(u) ==
    /\ u \in outbox
    /\ outbox' = outbox \ {u}
    /\ Ingest(u)
    /\ UNCHANGED <<limiterVars, tab, flight, active, published, ticked, changed, since, moves>>

\* startListening: a page that opens knows nothing.
Visit ==
    /\ shown' = [count |-> 0, at |-> 0]
    /\ changed' = now
    /\ Move
    /\ UNCHANGED <<limiterVars, tab, flight, countVars, ticked, since>>

\* listeners.count, by a browser's clock that is ahead by skew.
Displayed(skew) == IF now + skew - shown.at > Stale THEN 0 ELSE shown.count

\* The relay ends and starts again.
Restart ==
    /\ Move
    /\ flight' = {} /\ outbox' = {}
    /\ bucket' = [k \in Tabs |-> NoBucket]
    /\ mark' = now /\ taken' = [k \in Tabs |-> 0]
    /\ active' = [k \in Tabs |-> Gone] /\ published' = None
    /\ changed' = now
    /\ since' = [k \in Tabs |-> now]
    /\ UNCHANGED <<now, tab, ticked, shown>>

-----------------------------------------------------------------------------
\* Time passes: beats are sent when due and arrive in time or not at all, the
\* ticker runs, and what was decided on is broadcast at once.
Advance ==
    /\ now < MaxTime
    /\ Pass
    /\ ticked /\ ticked' = FALSE
    /\ outbox = {}
    /\ \A m \in flight : ~m.recorded /\ m.at + Transit > now
    /\ \A k \in Tabs : tab[k].open => tab[k].due > now
    /\ UNCHANGED <<tab, flight, countVars, shown, changed, since, moves>>

\* The sweep of the limiters.
SweepTick ==
    /\ Sweep(now)
    /\ UNCHANGED <<now, listenVars>>

Next ==
    \/ \E k \in Tabs : Open(k) \/ Reload(k) \/ BeatOn(k) \/ Visible(k) \/ Close(k)
    \/ \E m \in flight : Observe(m) \/ ObserveDecides(m)
    \/ Tick
    \/ \E u \in outbox : Publish(u)
    \/ Visit
    \/ Restart
    \/ Advance
    \/ SweepTick

Spec == Init /\ [][Next]_vars

-----------------------------------------------------------------------------
Times == -MaxPause .. MaxTime
Counts == 0 .. Cardinality(Tabs)

TypeOK ==
    /\ LimiterTypeOK
    /\ tab \in [Tabs -> [open : BOOLEAN, due : 0 .. MaxTime + Beat, lost : BOOLEAN]]
    /\ flight \subseteq [tab : Tabs, state : {"on", "off"}, at : Times, recorded : BOOLEAN]
    /\ active \in [Tabs -> Times \cup {Gone}]
    /\ published \in [sent : BOOLEAN, count : Counts, at : Times]
    /\ outbox \subseteq [count : Counts, at : Times]
    /\ ticked \in BOOLEAN
    /\ shown \in [count : Counts, at : Times]
    /\ changed \in 0 .. MaxTime
    /\ since \in [Tabs -> 0 .. MaxTime]
    /\ moves \in 0 .. MaxMoves
    /\ published.sent => published.count > 0

\* When the set of active tabs has not changed for a while, and no page has been
\* opened, the page shows their number: whatever order the numbers were decided
\* on and broadcast in, and although a number may be overtaken and dropped.  The
\* repeated broadcast mends a positive number; a 0 is not repeated, the number
\* before it goes stale, the later the more the browser's clock is behind.
CountHeals ==
    \A skew \in Skews :
        LET n == Cardinality(Listening(active))
        IN  now - changed > (IF n = 0 THEN Stale - skew ELSE Refresh + MaxPause)
            => Displayed(skew) = n

\* A tab that has been open for a while is counted, although a beat may be lost,
\* overtaken by the farewell of the page before it, or refused by the limiter.
OpenTabIsCounted ==
    \A k \in Tabs :
        tab[k].open /\ now - since[k] > 2 * Beat + Transit => active[k] # Gone
=============================================================================
