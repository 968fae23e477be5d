--------------------------- MODULE ListenersProofs ---------------------------
(***************************************************************************)
(* The token buckets keep their budget for every set of keys and all burst *)
(* sizes and costs; and with them the number of listeners a page shows     *)
(* becomes the number of active tabs and stays it, and a tab that is open  *)
(* is among them, for any number of tabs and for all delays that fit into  *)
(* the relay's windows.                                                    *)
(***************************************************************************)
EXTENDS Listeners, FiniteSetTheorems, TLAPS

-----------------------------------------------------------------------------
(* The limiter.  What a bucket holds less the time it was last touched     *)
(* never grows, but by making a new bucket: it is what is left of the      *)
(* budget.                                                                 *)

\* What is left of a key's budget, on the scale of the clock.
Left(k) == bucket[k].tokens - bucket[k].last

\* A bucket that is there has been touched by now, it owes no more than the
\* readings of the clock may differ by, and it has accounted for what was taken.
KeptBucket(k) ==
    bucket[k].there =>
        /\ bucket[k].last <= now
        /\ 0 <= Left(k) + now
        /\ 0 <= bucket[k].tokens + MaxPause
        /\ taken[k] > 0 => Left(k) <= Burst - mark + MaxPause - taken[k]

\* A bucket is swept when what was taken has refilled since the mark.
SweptBucket(k) == ~bucket[k].there => taken[k] <= now - mark

BudgetInv == LimiterTypeOK /\ \A k \in Keys : KeptBucket(k) /\ SweptBucket(k)

LEMMA ConstantTypes ==
    /\ Burst \in Nat /\ Cost \in Nat /\ Cost > 0 /\ IdleTime \in Nat /\ MaxPause \in Nat
    /\ Burst + 2 * MaxPause <= IdleTime
BY RateLimitAssumption DEF RateLimitAssumption

\* A reading lags the clock by a pause at most.
LEMMA ReadingLags ==
    ASSUME now \in Nat, NEW t \in Readings
    PROVE  t \in Int /\ now - MaxPause <= t /\ t <= now
BY ConstantTypes DEF Readings

\* The tokens at a reading are a number, at most Burst, and no more than what
\* was left carried to the reading.
LEMMA TokensBound ==
    ASSUME LimiterTypeOK, NEW k \in Keys, NEW t \in Int
    PROVE  /\ Tokens(k, t) \in Int
           /\ Tokens(k, t) <= Burst
           /\ bucket[k].there => Tokens(k, t) <= Left(k) + t
           /\ bucket[k].there => Tokens(k, t) = Burst \/ Tokens(k, t) = Left(k) + t
           /\ ~bucket[k].there => Tokens(k, t) = Burst
<1>1. bucket[k] \in Bucket
    BY DEF LimiterTypeOK
<1>2. bucket[k].tokens \in Int /\ bucket[k].last \in Int /\ bucket[k].there \in BOOLEAN
    BY <1>1 DEF Bucket
<1>. QED
    BY <1>2, ConstantTypes DEF Tokens, Capped, Left

LEMMA LimiterInitHolds == LimiterInit => BudgetInv
BY ConstantTypes DEF LimiterInit, BudgetInv, LimiterTypeOK, Bucket, NoBucket, KeptBucket,
    SweptBucket, Left

-----------------------------------------------------------------------------
\* A bucket that a request touches keeps the invariant: it is left with what it
\* held at the reading less what it pays, and only a request that pays counts.
LEMMA TouchKeeps ==
    ASSUME BudgetInv, NEW k \in Keys, NEW t \in Readings, NEW paid \in {0, Cost},
           paid = Cost => Tokens(k, t) >= Cost,
           bucket' = [bucket EXCEPT ![k] =
                        [there |-> TRUE, tokens |-> Tokens(k, t) - paid, last |-> t]],
           taken' = [taken EXCEPT ![k] = @ + paid],
           UNCHANGED <<now, mark>>
    PROVE  BudgetInv'
<1>. DEFINE b == bucket'[k]
<1>1. /\ now \in Nat /\ mark \in Nat /\ mark <= now
      /\ bucket \in [Keys -> Bucket] /\ taken \in [Keys -> Nat]
    BY DEF BudgetInv, LimiterTypeOK
<1>2. t \in Int /\ now - MaxPause <= t /\ t <= now
    BY <1>1, ReadingLags
<1>3. paid \in Nat /\ Cost \in Nat /\ Cost > 0 /\ Burst \in Nat /\ MaxPause \in Nat
    BY ConstantTypes
<1>4. /\ Tokens(k, t) \in Int /\ Tokens(k, t) <= Burst
      /\ bucket[k].there => Tokens(k, t) <= Left(k) + t
      /\ bucket[k].there => Tokens(k, t) = Burst \/ Tokens(k, t) = Left(k) + t
      /\ ~bucket[k].there => Tokens(k, t) = Burst
    BY <1>2, TokensBound DEF BudgetInv
<1>5. b = [there |-> TRUE, tokens |-> Tokens(k, t) - paid, last |-> t]
    BY <1>1
<1>6. b \in Bucket /\ b.there /\ b.tokens = Tokens(k, t) - paid /\ b.last = t
    <2>1. Tokens(k, t) - paid \in Int
        BY <1>3, <1>4
    <2>. HIDE DEF b
    <2>. QED
        BY <1>2, <2>1, <1>5 DEF Bucket
<1>7. taken'[k] = taken[k] + paid /\ taken[k] \in Nat
    BY <1>1
<1>8. /\ now' = now /\ mark' = mark
      /\ \A j \in Keys \ {k} : bucket'[j] = bucket[j] /\ taken'[j] = taken[j]
    BY <1>1
<1>9. LimiterTypeOK'
    BY <1>1, <1>3, <1>6, <1>7 DEF LimiterTypeOK
<1>10. KeptBucket(k) /\ SweptBucket(k)
    BY DEF BudgetInv
<1>11. bucket[k].tokens \in Int /\ bucket[k].last \in Int /\ bucket[k].there \in BOOLEAN
    BY <1>1 DEF Bucket
<1>12. Left(k) \in Int
    BY <1>11 DEF Left
<1>13. 0 <= b.tokens + MaxPause
    <2>1. CASE paid = Cost
        BY <2>1, <1>3, <1>4, <1>6
    <2>2. CASE paid = 0
        BY <2>2, <1>1, <1>2, <1>3, <1>4, <1>6, <1>10, <1>12 DEF KeptBucket
    <2>. QED
        BY <2>1, <2>2
<1>14. 0 <= b.tokens - b.last + now
    <2>1. CASE paid = Cost
        BY <2>1, <1>1, <1>2, <1>3, <1>4, <1>6
    <2>2. CASE paid = 0
        BY <2>2, <1>1, <1>2, <1>3, <1>4, <1>6, <1>10, <1>12 DEF KeptBucket
    <2>. QED
        BY <2>1, <2>2
<1>15. b.tokens - b.last <= Burst - mark + MaxPause - (taken[k] + paid)
    <2>1. Tokens(k, t) - t <= Burst - mark + MaxPause - taken[k]
        <3>1. CASE ~bucket[k].there
            BY <3>1, <1>1, <1>2, <1>3, <1>4, <1>7, <1>10 DEF SweptBucket
        <3>2. CASE bucket[k].there /\ taken[k] > 0
            BY <3>2, <1>1, <1>2, <1>3, <1>4, <1>7, <1>10, <1>12 DEF KeptBucket
        <3>3. CASE taken[k] = 0
            BY <3>3, <1>1, <1>2, <1>3, <1>4, <1>7
        <3>. QED
            BY <3>1, <3>2, <3>3, <1>7, <1>11
    <2>. QED
        BY <2>1, <1>1, <1>2, <1>3, <1>4, <1>6, <1>7
<1>16. KeptBucket(k)' /\ SweptBucket(k)'
    BY <1>2, <1>6, <1>7, <1>8, <1>13, <1>14, <1>15 DEF KeptBucket, SweptBucket, Left
<1>17. \A j \in Keys \ {k} : KeptBucket(j)' /\ SweptBucket(j)'
    BY <1>8 DEF BudgetInv, KeptBucket, SweptBucket, Left
<1>. QED
    BY <1>9, <1>16, <1>17 DEF BudgetInv

LEMMA AllowKeeps ==
    ASSUME BudgetInv, NEW k \in Keys, NEW t \in Readings, Allow(k, t), UNCHANGED now
    PROVE  BudgetInv'
<1>1. Cost \in {0, Cost}
    OBVIOUS
<1>. QED
    BY <1>1, TouchKeeps DEF Allow

LEMMA RefuseKeeps ==
    ASSUME BudgetInv, NEW k \in Keys, NEW t \in Readings, Refuse(k, t), UNCHANGED now
    PROVE  BudgetInv'
<1>1. now \in Nat /\ taken \in [Keys -> Nat]
    BY DEF BudgetInv, LimiterTypeOK
<1>2. Tokens(k, t) \in Int
    BY <1>1, ReadingLags, TokensBound DEF BudgetInv
<1>3. taken' = [taken EXCEPT ![k] = @ + 0]
    BY <1>1 DEF Refuse
<1>4. bucket' = [bucket EXCEPT ![k] =
                   [there |-> TRUE, tokens |-> Tokens(k, t) - 0, last |-> t]]
    <2>1. Tokens(k, t) - 0 = Tokens(k, t)
        BY <1>2
    <2>. QED
        BY <2>1, Zenon DEF Refuse
<1>5. 0 = Cost => Tokens(k, t) >= Cost
    BY ConstantTypes
<1>. QED
    BY <1>3, <1>4, <1>5, TouchKeeps DEF Refuse

\* A bucket idle for IdleTime has refilled: a full one in its place gives
\* nothing away.
LEMMA SweepKeeps ==
    ASSUME BudgetInv, NEW t \in Readings, Sweep(t), UNCHANGED now
    PROVE  BudgetInv'
<1>1. /\ now \in Nat /\ mark \in Nat /\ mark <= now
      /\ bucket \in [Keys -> Bucket] /\ taken \in [Keys -> Nat]
    BY DEF BudgetInv, LimiterTypeOK
<1>2. t \in Int /\ t <= now
    BY <1>1, ReadingLags
<1>3. now' = now /\ mark' = mark /\ taken' = taken
    BY DEF Sweep
<1>4. LimiterTypeOK'
    <2>1. NoBucket \in Bucket
        BY DEF NoBucket, Bucket
    <2>. QED
        BY <2>1, <1>1, <1>3 DEF LimiterTypeOK, Sweep
<1>5. ASSUME NEW k \in Keys
      PROVE  KeptBucket(k)' /\ SweptBucket(k)'
    <2>1. KeptBucket(k) /\ SweptBucket(k)
        BY DEF BudgetInv
    <2>2. /\ bucket[k].tokens \in Int /\ bucket[k].last \in Int
          /\ bucket[k].there \in BOOLEAN /\ taken[k] \in Nat
        BY <1>1 DEF Bucket
    <2>3. CASE bucket[k].there /\ t - bucket[k].last > IdleTime
        <3>1. bucket'[k] = NoBucket
            BY <2>3, <1>1 DEF Sweep
        <3>2. taken[k] <= now - mark
            BY <2>1, <2>2, <2>3, <1>1, <1>2, ConstantTypes DEF KeptBucket, Left
        <3>. QED
            BY <3>1, <3>2, <1>3 DEF KeptBucket, SweptBucket, NoBucket
    <2>4. CASE ~(bucket[k].there /\ t - bucket[k].last > IdleTime)
        <3>1. bucket'[k] = bucket[k]
            BY <2>4, <1>1 DEF Sweep
        <3>. QED
            BY <3>1, <2>1, <1>3 DEF KeptBucket, SweptBucket, Left
    <2>. QED
        BY <2>3, <2>4
<1>. QED
    BY <1>4, <1>5 DEF BudgetInv

LEMMA PassKeeps == BudgetInv /\ Pass => BudgetInv'
<1>. SUFFICES ASSUME BudgetInv, Pass PROVE BudgetInv'
    OBVIOUS
<1>1. /\ now \in Nat /\ mark \in Nat /\ mark <= now
      /\ bucket \in [Keys -> Bucket] /\ taken \in [Keys -> Nat]
    BY DEF BudgetInv, LimiterTypeOK
<1>2. now' = now + 1 /\ bucket' = bucket /\ mark' = mark /\ taken' = taken
    BY DEF Pass
<1>3. LimiterTypeOK'
    BY <1>1, <1>2 DEF LimiterTypeOK
<1>4. ASSUME NEW k \in Keys
      PROVE  KeptBucket(k)' /\ SweptBucket(k)'
    <2>1. /\ bucket[k].tokens \in Int /\ bucket[k].last \in Int /\ taken[k] \in Nat
        BY <1>1 DEF Bucket
    <2>2. KeptBucket(k) /\ SweptBucket(k)
        BY DEF BudgetInv
    <2>. QED
        BY <2>1, <2>2, <1>1, <1>2 DEF KeptBucket, SweptBucket, Left
<1>. QED
    BY <1>3, <1>4 DEF BudgetInv

LEMMA MarkKeeps == BudgetInv /\ Mark => BudgetInv'
<1>. SUFFICES ASSUME BudgetInv, Mark PROVE BudgetInv'
    OBVIOUS
<1>1. now \in Nat /\ bucket \in [Keys -> Bucket]
    BY DEF BudgetInv, LimiterTypeOK
<1>2. now' = now /\ bucket' = bucket /\ mark' = now /\ taken' = [k \in Keys |-> 0]
    BY DEF Mark
<1>3. LimiterTypeOK'
    BY <1>1, <1>2 DEF LimiterTypeOK
<1>4. \A k \in Keys : KeptBucket(k)' /\ SweptBucket(k)'
    BY <1>1, <1>2 DEF BudgetInv, KeptBucket, SweptBucket, Left
<1>. QED
    BY <1>3, <1>4 DEF BudgetInv

LEMMA LimiterStepKeeps == BudgetInv /\ [LimiterNext]_limiterVars => BudgetInv'
<1>. SUFFICES ASSUME BudgetInv, [LimiterNext]_limiterVars PROVE BudgetInv'
    OBVIOUS
<1>1. CASE UNCHANGED limiterVars
    BY <1>1 DEF limiterVars, BudgetInv, LimiterTypeOK, KeptBucket, SweptBucket, Left
<1>2. ASSUME NEW t \in Readings, NEW k \in Keys, Allow(k, t), UNCHANGED now
      PROVE  BudgetInv'
    BY <1>2, AllowKeeps
<1>3. ASSUME NEW t \in Readings, NEW k \in Keys, Refuse(k, t), UNCHANGED now
      PROVE  BudgetInv'
    BY <1>3, RefuseKeeps
<1>4. ASSUME NEW t \in Readings, Sweep(t), UNCHANGED now
      PROVE  BudgetInv'
    BY <1>4, SweepKeeps
<1>. QED
    BY <1>1, <1>2, <1>3, <1>4, PassKeeps, MarkKeeps DEF LimiterNext

LEMMA InvImplies == BudgetInv => WithinBudget
<1>. SUFFICES ASSUME BudgetInv, NEW k \in Keys
              PROVE  taken[k] <= Burst + (now - mark) + MaxPause
    BY DEF WithinBudget
<1>1. /\ now \in Nat /\ mark \in Nat /\ mark <= now
      /\ taken[k] \in Nat /\ bucket[k] \in Bucket
    BY DEF BudgetInv, LimiterTypeOK
<1>2. bucket[k].tokens \in Int /\ bucket[k].last \in Int /\ bucket[k].there \in BOOLEAN
    BY <1>1 DEF Bucket
<1>3. KeptBucket(k) /\ SweptBucket(k)
    BY DEF BudgetInv
<1>. QED
    BY <1>1, <1>2, <1>3, ConstantTypes DEF KeptBucket, SweptBucket, Left

-----------------------------------------------------------------------------
\* The buckets have their type, and a touched one was touched by now.
THEOREM LimiterTypes == LimiterSpec => []LimiterTypeOK
<1>1. BudgetInv => LimiterTypeOK
    BY DEF BudgetInv
<1>. QED
    BY LimiterInitHolds, LimiterStepKeeps, <1>1, PTL DEF LimiterSpec

\* kindLimiter.reject and ipLimiter.allow let no key have more than a burst and
\* what refills, in any interval, for every order in which requests get the
\* lock, and although idle buckets are swept.
THEOREM BudgetIsKept == LimiterSpec => []WithinBudget
BY LimiterInitHolds, LimiterStepKeeps, InvImplies, PTL DEF LimiterSpec

-----------------------------------------------------------------------------
(* Types.                                                                  *)

LEMMA ListenerConstants ==
    /\ Burst \in Nat /\ Cost \in Nat /\ Cost > 0 /\ Cost <= Burst
    /\ IdleTime \in Nat /\ MaxPause \in Nat /\ Burst + 2 * MaxPause <= IdleTime
    /\ Beat \in Nat /\ Transit \in Nat /\ Online \in Nat /\ Transit + Cost <= Beat
    /\ 2 * Beat + Transit + MaxPause + Cost <= Online
    /\ Refresh \in Nat /\ Refresh > 0 /\ Stale \in Nat
    /\ \A s \in Skews : s \in Int /\ Refresh + MaxPause + s <= Stale
    /\ MaxMoves \in Nat /\ MaxTime \in Nat
    /\ IsFiniteSet(Tabs) /\ Tabs = Keys
BY ConstantTypes, ListenersAssumption DEF ListenersAssumption, Tabs

TabStates == [open : BOOLEAN, due : 0 .. MaxTime + Beat, lost : BOOLEAN]
Messages == [tab : Tabs, state : {"on", "off"}, at : Times, recorded : BOOLEAN]
Actives == [Tabs -> Times \cup {Gone}]
Numbers == [count : Counts, at : Times]

PageInv ==
    /\ tab \in [Tabs -> TabStates]
    /\ flight \subseteq Messages
    /\ since \in [Tabs -> 0 .. MaxTime]
    /\ moves \in 0 .. MaxMoves

CountInv ==
    /\ active \in Actives
    /\ published \in [sent : BOOLEAN, count : Counts, at : Times]
    /\ outbox \subseteq Numbers
    /\ shown \in Numbers
    /\ changed \in 0 .. MaxTime
    /\ published.sent => published.count > 0

TypeInv ==
    /\ BudgetInv /\ now <= MaxTime
    /\ PageInv /\ CountInv
    /\ ticked \in BOOLEAN

\* The clock, and what a message may carry.
LEMMA ClockFacts ==
    ASSUME TypeInv
    PROVE  /\ now \in Nat /\ now <= MaxTime /\ now \in 0 .. MaxTime /\ now \in Times
           /\ now \in Readings
           /\ \A t \in Readings : t \in Times /\ t \in Int /\ now - MaxPause <= t /\ t <= now
           /\ 0 \in Times /\ Gone \in Int /\ Gone < -MaxPause
<1>1. now \in Nat
  BY DEF TypeInv, BudgetInv, LimiterTypeOK
<1> QED BY <1>1, ListenerConstants DEF TypeInv, Times, Readings, Gone

LEMMA NumbersOfTabs ==
    ASSUME NEW a
    PROVE  Cardinality(Listening(a)) \in Counts /\ Cardinality(Listening(a)) \in Nat /\ 0 \in Counts
<1>1. Listening(a) \subseteq Tabs /\ IsFiniteSet(Tabs)
  BY ListenerConstants DEF Listening
<1>2. /\ IsFiniteSet(Listening(a)) /\ Cardinality(Listening(a)) <= Cardinality(Tabs)
  BY <1>1, FS_Subset
<1>3. Cardinality(Listening(a)) \in Nat /\ Cardinality(Tabs) \in Nat
  BY <1>1, <1>2, FS_CardinalityType
<1> QED BY <1>2, <1>3 DEF Counts

LEMMA PrunedIsActives ==
    ASSUME TypeInv, NEW t
    PROVE  Pruned(t) \in Actives
BY DEF TypeInv, CountInv, Actives, Pruned

\* What Decide leaves.
LEMMA DecideTyped ==
    ASSUME TypeInv, NEW t \in Readings, Decide(t), UNCHANGED shown
    PROVE  CountInv'
<1> DEFINE a == Pruned(t)
           count == Cardinality(Listening(a))
<1>1. a \in Actives /\ count \in Counts /\ count \in Nat /\ 0 \in Counts
  BY PrunedIsActives, NumbersOfTabs
<1>2. /\ now \in 0 .. MaxTime /\ t \in Times /\ 0 \in Times
  BY ClockFacts
<1>3. active' = a /\ changed' = IF Listening(a) # Listening(active) THEN now ELSE changed
  BY DEF Decide, SetActive
<1>4. /\ active' \in Actives /\ changed' \in 0 .. MaxTime
  <2> HIDE DEF a
  <2> QED BY <1>1, <1>2, <1>3 DEF TypeInv, CountInv
<1>5. \/ published' = published /\ outbox' = outbox
      \/ /\ outbox' = IF IsDue(t, count) THEN outbox \cup {[count |-> count, at |-> t]} ELSE outbox
         /\ published' = Remembered(t, count)
  BY DEF Decide
<1> HIDE DEF a, count
<1>6. [count |-> count, at |-> t] \in Numbers
  BY <1>1, <1>2 DEF Numbers
<1>7. outbox' \subseteq Numbers
  BY <1>5, <1>6 DEF TypeInv, CountInv
<1>8. \/ published' = published \/ published' = None
      \/ published' = [sent |-> TRUE, count |-> count, at |-> t] /\ count # 0
  BY <1>5 DEF Remembered
<1>9. /\ published' \in [sent : BOOLEAN, count : Counts, at : Times]
      /\ published'.sent => published'.count > 0
  <2>1. CASE published' = published
    BY <2>1 DEF TypeInv, CountInv
  <2>2. CASE published' = None
    BY <1>1, <1>2, <2>2 DEF None
  <2>3. CASE published' = [sent |-> TRUE, count |-> count, at |-> t] /\ count # 0
    BY <1>1, <1>2, <2>3
  <2> QED BY <1>8, <2>1, <2>2, <2>3
<1>10. shown' \in Numbers
  BY DEF TypeInv, CountInv
<1> QED BY <1>4, <1>7, <1>9, <1>10 DEF CountInv

\* The limiter's part of a step.
LEMMA BudgetStep ==
    ASSUME TypeInv, [Next]_vars
    PROVE  BudgetInv' /\ now' \in Nat /\ now' <= MaxTime
<1>1. BudgetInv /\ now \in Nat /\ now <= MaxTime /\ now \in Readings
  BY ClockFacts DEF TypeInv
<1>2. CASE UNCHANGED limiterVars
  <2>1. BudgetInv'
    BY <1>1, <1>2, LimiterStepKeeps
  <2> QED BY <1>1, <1>2, <2>1 DEF limiterVars
<1>3. ASSUME NEW m \in flight, Observe(m) PROVE BudgetInv' /\ now' = now
  <2>1. now' = now /\ m.tab \in Keys
    BY <1>3, ListenerConstants DEF Observe, TypeInv, PageInv, Messages
  <2>2. Refuse(m.tab, now) \/ Allow(m.tab, now)
    BY <1>3 DEF Observe
  <2> QED BY <1>1, <2>1, <2>2, AllowKeeps, RefuseKeeps
<1>4. CASE SweepTick
  BY <1>1, <1>4, SweepKeeps DEF SweepTick
<1>5. CASE Advance
  <2>1. BudgetInv' /\ now' = now + 1 /\ now < MaxTime
    BY <1>1, <1>5, PassKeeps DEF Advance, Pass
  <2> QED BY <1>1, <2>1, ListenerConstants
<1>6. CASE Restart
  <2>1. now' = now /\ mark' = now /\ bucket' = [k \in Keys |-> NoBucket]
        /\ taken' = [k \in Keys |-> 0]
    BY <1>6 DEF Restart, Tabs
  <2>2. BudgetInv'
    BY <1>1, <2>1 DEF BudgetInv, LimiterTypeOK, Bucket, NoBucket, KeptBucket, SweptBucket,
      Left
  <2> QED BY <1>1, <2>1, <2>2
<1>7. ASSUME NEW k \in Tabs, Open(k) \/ Reload(k) \/ BeatOn(k) \/ Visible(k) \/ Close(k)
      PROVE  UNCHANGED limiterVars
  BY <1>7 DEF Open, Reload, BeatOn, Visible, Close, RelayUnchanged
<1>8. ASSUME NEW m \in flight, ObserveDecides(m) PROVE UNCHANGED limiterVars
  BY <1>8 DEF ObserveDecides
<1>9. CASE Tick
  BY <1>2, <1>9 DEF Tick
<1>10. ASSUME NEW u \in outbox, Publish(u) PROVE UNCHANGED limiterVars
  BY <1>10 DEF Publish
<1>11. CASE Visit
  BY <1>2, <1>11 DEF Visit
<1>12. CASE UNCHANGED vars
  BY <1>2, <1>12 DEF vars
<1> QED BY <1>1, <1>2, <1>3, <1>4, <1>5, <1>6, <1>7, <1>8, <1>9, <1>10, <1>11, <1>12 DEF Next

\* A message the page sends.
LEMMA SendTyped ==
    ASSUME TypeInv, NEW k \in Tabs, NEW states \in SUBSET {"on", "off"},
           NEW open \in BOOLEAN, NEW due \in 0 .. MaxTime + Beat,
           Send(k, states, open, due)
    PROVE  flight' \subseteq Messages /\ tab' \in [Tabs -> TabStates]
<1>1. now \in Times /\ tab \in [Tabs -> TabStates] /\ flight \subseteq Messages
  BY ClockFacts DEF TypeInv, PageInv
<1>2. Beats(k, states) \subseteq Messages
  <2>1. ASSUME NEW s \in states
        PROVE  [tab |-> k, state |-> s, at |-> now, recorded |-> FALSE] \in Messages
    BY <1>1 DEF Messages
  <2> QED BY <2>1 DEF Beats
<1>3. [open |-> open, due |-> due, lost |-> FALSE] \in TabStates
      /\ [open |-> open, due |-> due, lost |-> TRUE] \in TabStates
  BY DEF TabStates
<1> QED BY <1>1, <1>2, <1>3 DEF Send

LEMMA PageStep ==
    ASSUME TypeInv, [Next]_vars
    PROVE  PageInv'
<1>1. /\ now \in 0 .. MaxTime /\ now + Beat \in 0 .. MaxTime + Beat
      /\ 0 \in 0 .. MaxTime + Beat /\ Beat \in Nat /\ MaxTime \in Nat /\ MaxMoves \in Nat
  BY ClockFacts, ListenerConstants
<1>2. PageInv
  BY DEF TypeInv
<1>3. ASSUME UNCHANGED <<tab, flight, since>>, moves' = moves \/ Move PROVE PageInv'
  BY <1>1, <1>2, <1>3 DEF PageInv, Move
<1>4. ASSUME NEW k \in Tabs, Open(k) PROVE PageInv'
  <2>1. flight' \subseteq Messages /\ tab' \in [Tabs -> TabStates]
    BY <1>1, <1>4, SendTyped DEF Open
  <2> QED BY <1>1, <1>2, <1>4, <2>1 DEF Open, PageInv
<1>5. ASSUME NEW k \in Tabs, Reload(k) PROVE PageInv'
  <2>1. flight' \subseteq Messages /\ tab' \in [Tabs -> TabStates]
    BY <1>1, <1>5, SendTyped DEF Reload
  <2>2. moves' \in 0 .. MaxMoves
    BY <1>1, <1>2, <1>5 DEF Reload, PageInv, Move
  <2>3. since' \in [Tabs -> 0 .. MaxTime]
    BY <1>1, <1>2, <1>5 DEF Reload, PageInv
  <2> QED BY <2>1, <2>2, <2>3 DEF PageInv
<1>6. ASSUME NEW k \in Tabs, BeatOn(k) PROVE PageInv'
  <2>1. flight' \subseteq Messages /\ tab' \in [Tabs -> TabStates]
    BY <1>1, <1>6, SendTyped DEF BeatOn
  <2> QED BY <1>1, <1>2, <1>6, <2>1 DEF BeatOn, PageInv
<1>7. ASSUME NEW k \in Tabs, Visible(k) PROVE PageInv'
  <2>1. tab[k].due \in 0 .. MaxTime + Beat
    BY <1>2 DEF PageInv, TabStates
  <2>2. flight' \subseteq Messages /\ tab' \in [Tabs -> TabStates]
    BY <1>7, <2>1, SendTyped DEF Visible
  <2> QED BY <1>1, <1>2, <1>7, <2>2 DEF Visible, PageInv, Move
<1>8. ASSUME NEW k \in Tabs, Close(k) PROVE PageInv'
  <2>1. flight' \subseteq Messages /\ tab' \in [Tabs -> TabStates]
    BY <1>1, <1>8, SendTyped DEF Close
  <2> QED BY <1>1, <1>2, <1>8, <2>1 DEF Close, PageInv, Move
<1>9. ASSUME NEW m \in flight, Observe(m) PROVE PageInv'
  <2>1. m \in Messages
    BY <1>2 DEF PageInv
  <2>2. ASSUME NEW t \in Times PROVE [m EXCEPT !.recorded = TRUE, !.at = t] \in Messages
    BY <2>1 DEF Messages
  <2>3. flight' \subseteq Messages
    BY <1>2, <1>9, <2>2, ClockFacts DEF Observe, PageInv
  <2> QED BY <1>2, <1>9, <2>3 DEF Observe, PageInv
<1>10. ASSUME NEW m \in flight, ObserveDecides(m) PROVE PageInv'
  BY <1>2, <1>10 DEF ObserveDecides, PageInv
<1>11. CASE Tick
  BY <1>3, <1>11 DEF Tick
<1>12. ASSUME NEW u \in outbox, Publish(u) PROVE PageInv'
  BY <1>3, <1>12 DEF Publish
<1>13. CASE Visit
  BY <1>3, <1>13 DEF Visit
<1>14. CASE Restart
  BY <1>1, <1>2, <1>14 DEF Restart, PageInv, Move
<1>15. CASE Advance
  BY <1>3, <1>15 DEF Advance
<1>16. CASE SweepTick
  BY <1>3, <1>16 DEF SweepTick, listenVars
<1>17. CASE UNCHANGED vars
  BY <1>3, <1>17 DEF vars, listenVars
<1> QED BY <1>4, <1>5, <1>6, <1>7, <1>8, <1>9, <1>10, <1>11, <1>12, <1>13, <1>14, <1>15, <1>16,
      <1>17 DEF Next

\* A beat that is recorded.
LEMMA RecordTyped ==
    ASSUME TypeInv, NEW m \in Messages, NEW t \in Readings,
           SetActive(IF m.state = "on" THEN [Pruned(t) EXCEPT ![m.tab] = t]
                     ELSE [active EXCEPT ![m.tab] = Gone])
    PROVE  active' \in Actives /\ changed' \in 0 .. MaxTime
<1>1. now \in 0 .. MaxTime /\ t \in Times
  BY ClockFacts
<1>2. Pruned(t) \in Actives /\ active \in Actives
  BY PrunedIsActives DEF TypeInv, CountInv
<1>3. [Pruned(t) EXCEPT ![m.tab] = t] \in Actives /\ [active EXCEPT ![m.tab] = Gone] \in Actives
  BY <1>1, <1>2 DEF Actives
<1> QED BY <1>1, <1>3 DEF SetActive, TypeInv, CountInv

\* A beat under way is not late, one that is being observed is observed now.
FlightInv ==
    \A m \in flight :
        /\ m.at <= now
        /\ m.recorded => now - MaxPause <= m.at
        /\ ~m.recorded => now <= m.at + Transit

LEMMA CountStep ==
    ASSUME TypeInv, FlightInv, [Next]_vars
    PROVE  CountInv' /\ ticked' \in BOOLEAN
<1>1. /\ now \in 0 .. MaxTime /\ 0 \in Times /\ 0 \in Counts
  BY ClockFacts, NumbersOfTabs
<1>2. CountInv /\ ticked \in BOOLEAN
  BY DEF TypeInv
<1>3. ASSUME UNCHANGED <<active, published, outbox, shown, changed>> PROVE CountInv'
  BY <1>2, <1>3 DEF CountInv
<1>4. ASSUME NEW k \in Tabs, Open(k) \/ Reload(k) \/ BeatOn(k) \/ Visible(k) \/ Close(k)
      PROVE  CountInv' /\ ticked' = ticked
  BY <1>3, <1>4 DEF Open, Reload, BeatOn, Visible, Close, RelayUnchanged, countVars
<1>5. ASSUME NEW m \in flight, Observe(m) PROVE CountInv' /\ ticked' = ticked
  <2>1. m \in Messages
    BY DEF TypeInv, PageInv
  <2>2. CASE UNCHANGED <<active, changed>>
    BY <1>3, <1>5, <2>2 DEF Observe
  <2>3. CASE \E t \in Readings :
                SetActive(IF m.state = "on" THEN [Pruned(t) EXCEPT ![m.tab] = t]
                          ELSE [active EXCEPT ![m.tab] = Gone])
    <3>1. active' \in Actives /\ changed' \in 0 .. MaxTime
      BY <2>1, <2>3, RecordTyped
    <3> QED BY <1>2, <1>5, <3>1 DEF Observe, CountInv
  <2> QED BY <1>5, <2>2, <2>3 DEF Observe
<1>6. ASSUME NEW m \in flight, ObserveDecides(m) PROVE CountInv' /\ ticked' = ticked
  <2>1. m.at \in Int /\ now \in Nat /\ MaxPause \in Nat
    BY ClockFacts, ListenerConstants DEF TypeInv, PageInv, Messages, Times
  <2>2. m.at \in Readings
    BY <1>6, <2>1 DEF ObserveDecides, FlightInv, Readings
  <2> QED BY <1>6, <2>2, DecideTyped DEF ObserveDecides
<1>7. CASE Tick
  BY <1>7, DecideTyped DEF Tick
<1>8. ASSUME NEW u \in outbox, Publish(u) PROVE CountInv' /\ ticked' = ticked
  <2>1. u \in Numbers
    BY <1>2 DEF CountInv
  <2> QED BY <1>2, <1>8, <2>1 DEF Publish, Ingest, CountInv
<1>9. CASE Visit
  <2>1. shown' \in Numbers
    BY <1>1, <1>9 DEF Visit, Numbers
  <2> QED BY <1>1, <1>2, <1>9, <2>1 DEF Visit, CountInv, countVars
<1>10. CASE Restart
  <2>1. active' \in Actives
    BY <1>10 DEF Restart, Actives
  <2>2. published' \in [sent : BOOLEAN, count : Counts, at : Times] /\ ~published'.sent
    BY <1>1, <1>10 DEF Restart, None
  <2> QED BY <1>1, <1>2, <1>10, <2>1, <2>2 DEF Restart, CountInv
<1>11. CASE Advance
  BY <1>3, <1>11 DEF Advance, countVars
<1>12. CASE SweepTick
  BY <1>2, <1>3, <1>12 DEF SweepTick, listenVars, countVars
<1>13. CASE UNCHANGED vars
  BY <1>2, <1>3, <1>13 DEF vars, listenVars, countVars
<1> QED BY <1>2, <1>4, <1>5, <1>6, <1>7, <1>8, <1>9, <1>10, <1>11, <1>12, <1>13 DEF Next

LEMMA FlightStep ==
    ASSUME TypeInv, FlightInv, [Next]_vars
    PROVE  FlightInv'
<1>1. now \in Nat /\ MaxPause \in Nat /\ Transit \in Nat
  BY ClockFacts, ListenerConstants
<1>2. \A m \in flight : m.at \in Int /\ m.recorded \in BOOLEAN
  BY ListenerConstants DEF TypeInv, PageInv, Messages, Times
<1>3. ASSUME now' = now, flight' \subseteq flight PROVE FlightInv'
  BY <1>3 DEF FlightInv
<1>4. ASSUME NEW k \in Tabs, NEW states, NEW open, NEW due, Send(k, states, open, due),
             now' = now
      PROVE  FlightInv'
  <2>1. \A m \in Beats(k, states) : m.at = now /\ ~m.recorded
    BY DEF Beats
  <2> QED BY <1>1, <1>4, <2>1 DEF Send, FlightInv
<1>5. ASSUME NEW k \in Tabs, Open(k) \/ Reload(k) \/ BeatOn(k) \/ Visible(k) \/ Close(k)
      PROVE  FlightInv'
  BY <1>4, <1>5 DEF Open, Reload, BeatOn, Visible, Close, RelayUnchanged, limiterVars
<1>6. ASSUME NEW m \in flight, Observe(m) PROVE FlightInv'
  <2>1. now' = now
    BY <1>6 DEF Observe
  <2>2. CASE flight' = flight \ {m}
    BY <1>3, <2>1, <2>2
  <2>3. ASSUME NEW t \in Readings,
               flight' = (flight \ {m}) \cup {[m EXCEPT !.recorded = TRUE, !.at = t]}
        PROVE  FlightInv'
    <3>1. t \in Int /\ now - MaxPause <= t /\ t <= now
      BY ClockFacts
    <3>2. PICK r : r = [m EXCEPT !.recorded = TRUE, !.at = t]
      OBVIOUS
    <3>3. r.at = t /\ r.recorded
      BY <3>2 DEF TypeInv, PageInv, Messages
    <3> QED BY <2>1, <2>3, <3>1, <3>2, <3>3 DEF FlightInv
  <2> QED BY <1>6, <2>2, <2>3 DEF Observe
<1>7. ASSUME NEW m \in flight, ObserveDecides(m) PROVE FlightInv'
  BY <1>3, <1>7 DEF ObserveDecides, limiterVars
<1>8. CASE Advance
  <2>1. now' = now + 1 /\ flight' = flight
        /\ \A m \in flight : ~m.recorded /\ m.at + Transit > now
    BY <1>8 DEF Advance, Pass
  <2> QED BY <1>1, <1>2, <2>1 DEF FlightInv
<1>9. CASE Restart
  BY <1>3, <1>9 DEF Restart
<1>10. CASE Tick
  BY <1>3, <1>10 DEF Tick, limiterVars
<1>11. ASSUME NEW u \in outbox, Publish(u) PROVE FlightInv'
  BY <1>3, <1>11 DEF Publish, limiterVars
<1>12. CASE Visit
  BY <1>3, <1>12 DEF Visit, limiterVars
<1>13. CASE SweepTick
  BY <1>3, <1>13 DEF SweepTick, listenVars
<1>14. CASE UNCHANGED vars
  BY <1>3, <1>14 DEF vars, limiterVars, listenVars
<1> QED BY <1>5, <1>6, <1>7, <1>8, <1>9, <1>10, <1>11, <1>12, <1>13, <1>14 DEF Next

LEMMA TypeStep ==
    ASSUME TypeInv, FlightInv, [Next]_vars
    PROVE  TypeInv' /\ FlightInv'
BY BudgetStep, PageStep, CountStep, FlightStep DEF TypeInv

LEMMA TypeInit == Init => TypeInv /\ FlightInv
<1> SUFFICES ASSUME Init PROVE TypeInv /\ FlightInv
  OBVIOUS
<1>1. BudgetInv /\ now = 0
  BY LimiterInitHolds DEF Init, LimiterInit
<1>2. 0 \in Times /\ 0 \in Counts /\ 0 \in 0 .. MaxTime /\ 0 \in 0 .. MaxTime + Beat
      /\ 0 \in 0 .. MaxMoves /\ 0 <= MaxTime
  BY ListenerConstants, NumbersOfTabs DEF Times
<1>3. PageInv
  BY <1>2 DEF Init, PageInv, TabStates
<1>4. active \in Actives /\ shown \in Numbers /\ outbox \subseteq Numbers
  BY <1>2 DEF Init, Actives, Numbers
<1>5. published \in [sent : BOOLEAN, count : Counts, at : Times] /\ ~published.sent
  BY <1>2 DEF Init, None
<1>6. CountInv
  BY <1>2, <1>4, <1>5 DEF CountInv, Init
<1>7. flight = {} /\ ticked = FALSE
  BY DEF Init
<1> QED BY <1>1, <1>2, <1>3, <1>6, <1>7 DEF TypeInv, FlightInv

\* What a page and a tab, the relay and its limiter know is of their type.
THEOREM ListenersTyped == Spec => []TypeOK
<1>1. TypeInv /\ FlightInv => TypeOK
  BY DEF TypeInv, BudgetInv, PageInv, CountInv, TypeOK, TabStates, Messages, Actives, Numbers
<1>2. TypeInv /\ FlightInv /\ [Next]_vars => TypeInv' /\ FlightInv'
  BY TypeStep
<1> QED BY TypeInit, <1>1, <1>2, PTL DEF Spec

\* The limiter that lets the beats pass gives no tab more than its budget.
THEOREM TabsWithinBudget == Spec => []WithinBudget
<1>1. TypeInv /\ FlightInv => WithinBudget
  BY InvImplies DEF TypeInv
<1>2. TypeInv /\ FlightInv /\ [Next]_vars => TypeInv' /\ FlightInv'
  BY TypeStep
<1> QED BY TypeInit, <1>1, <1>2, PTL DEF Spec

-----------------------------------------------------------------------------
(* The number.  A number that is wrong was decided on before the last      *)
(* change.  The relay repeats a positive one in every Refresh + MaxPause,  *)
(* and what it decided on last is still to be broadcast or no newer than   *)
(* what the page shows: whatever order the numbers arrive in, the page     *)
(* then shows one that was decided on since the last change.               *)

Audience == Cardinality(Listening(active))

\* What the numbers that are decided on and the one shown are worth.
NumbersInv ==
    /\ changed <= now
    /\ \A u \in outbox \cup {shown} : u.at <= now /\ (u.count # Audience => u.at <= changed)

\* The relay knows its last number, and it is not old.
LatestInv ==
    /\ Audience > 0 =>
         (published.sent /\ published.count = Audience) \/ \E m \in flight : m.recorded
    /\ published.sent =>
         /\ published.at <= now /\ now - published.at <= Refresh + MaxPause
         /\ ticked => now - published.at < Refresh + MaxPause
    /\ published.sent /\ published.at > changed =>
         \/ [count |-> published.count, at |-> published.at] \in outbox
         \/ shown.at >= published.at

ShownInv ==
    Audience > 0 /\ now > changed + Refresh + MaxPause =>
        shown.count = Audience /\ now - shown.at <= Refresh + MaxPause

HealInv == NumbersInv /\ LatestInv /\ ShownInv

LEMMA NumberTypes ==
    ASSUME TypeInv
    PROVE  /\ now \in Nat /\ changed \in Nat /\ Refresh \in Nat /\ Refresh > 0 /\ MaxPause \in Nat
           /\ Stale \in Nat /\ \A s \in Skews : s \in Int /\ Refresh + MaxPause + s <= Stale
           /\ Audience \in Nat
           /\ \A u \in outbox : u \in Numbers /\ u.at \in Int /\ u.count \in Nat
           /\ shown \in Numbers /\ shown.at \in Int /\ shown.count \in Nat
           /\ published.at \in Int /\ published.count \in Nat /\ published.sent \in BOOLEAN
           /\ ticked \in BOOLEAN
<1>1. Counts \subseteq Nat /\ Times \subseteq Int
  BY ListenerConstants, FS_CardinalityType DEF Counts, Times
<1>2. Audience \in Nat
  BY NumbersOfTabs DEF Audience
<1>3. CountInv /\ ticked \in BOOLEAN
  BY DEF TypeInv
<1>4. /\ \A u \in outbox : u \in Numbers
      /\ shown \in Numbers
      /\ published.at \in Times /\ published.count \in Counts /\ published.sent \in BOOLEAN
      /\ changed \in Nat
  BY <1>3, ListenerConstants DEF CountInv
<1>5. \A u \in Numbers : u.at \in Int /\ u.count \in Nat
  BY <1>1 DEF Numbers
<1> QED BY <1>1, <1>2, <1>3, <1>4, <1>5, ClockFacts, ListenerConstants

\* When the set of active tabs changes, nothing that is known counts any more.
LEMMA ActiveChanges ==
    ASSUME TypeInv, HealInv, NEW a, SetActive(a), UNCHANGED <<now>>
    PROVE  \/ changed' = now
           \/ changed' = changed /\ Audience' = Audience
BY DEF SetActive, Audience, Listening

LEMMA DecideHeals ==
    ASSUME TypeInv, HealInv, NEW t \in Readings, Decide(t), UNCHANGED <<now, shown>>,
           ticked' \in BOOLEAN
    PROVE  HealInv'
<1> DEFINE a == Pruned(t)
           count == Cardinality(Listening(a))
<1>1. count = Audience' /\ count \in Nat
  <2>1. active' = a
    BY DEF Decide, SetActive
  <2> QED BY <2>1, NumbersOfTabs DEF Audience, Listening
<1>2. changed' = now \/ (changed' = changed /\ Audience' = Audience)
  BY ActiveChanges DEF Decide
<1>3. \/ count = 0 /\ ~published.sent /\ published' = published /\ outbox' = outbox
      \/ /\ outbox' = IF IsDue(t, count) THEN outbox \cup {[count |-> count, at |-> t]} ELSE outbox
         /\ published' = Remembered(t, count)
  BY DEF Decide
<1> HIDE DEF a, count
<1>4. t \in Int /\ now - MaxPause <= t /\ t <= now
  BY ClockFacts
<1>5. PICK r : r = [count |-> count, at |-> t]
  OBVIOUS
<1>6. r.count = count /\ r.at = t
  BY <1>5
<1>7. outbox \subseteq outbox' /\ outbox' \subseteq outbox \cup {r}
  BY <1>3, <1>5
<1>8. \/ ~published'.sent /\ count = 0
      \/ published'.sent /\ published'.count = count /\ published'.at = t /\ r \in outbox'
         /\ r = [count |-> published'.count, at |-> published'.at]
      \/ published.sent /\ published.count = count /\ t - published.at < Refresh
         /\ published' = published
  BY <1>3, <1>4, <1>5, NumberTypes DEF Remembered, IsDue, None
<1>9. NumbersInv'
  BY <1>1, <1>2, <1>4, <1>6, <1>7, NumberTypes DEF HealInv, NumbersInv
<1>10. LatestInv'
  <2>1. (Audience > 0 =>
           (published.sent /\ published.count = Audience) \/ \E m \in flight : m.recorded)'
    BY <1>1, <1>8
  <2>2. (published.sent =>
         /\ published.at <= now /\ now - published.at <= Refresh + MaxPause
         /\ now - published.at < Refresh + MaxPause)'
    BY <1>4, <1>8, NumberTypes DEF HealInv, LatestInv
  <2>3. (published.sent /\ published.at > changed =>
         \/ [count |-> published.count, at |-> published.at] \in outbox
         \/ shown.at >= published.at)'
    BY <1>2, <1>4, <1>7, <1>8, NumberTypes DEF HealInv, LatestInv
  <2> QED BY <2>1, <2>2, <2>3 DEF LatestInv
<1>11. ShownInv'
  BY <1>2, NumberTypes DEF HealInv, ShownInv
<1> QED BY <1>9, <1>10, <1>11 DEF HealInv

LEMMA HealStep ==
    ASSUME TypeInv, FlightInv, HealInv, [Next]_vars
    PROVE  HealInv'
<1>1. ASSUME UNCHANGED <<now, active, published, outbox, ticked, shown, changed>>,
             \A m \in flight : m.recorded => m \in flight'
      PROVE  HealInv'
  <2>1. Audience' = Audience
    BY <1>1 DEF Audience, Listening
  <2> QED BY <1>1, <2>1 DEF HealInv, NumbersInv, LatestInv, ShownInv
<1>2. ASSUME NEW k \in Tabs, Open(k) \/ Reload(k) \/ BeatOn(k) \/ Visible(k) \/ Close(k)
      PROVE  HealInv'
  BY <1>1, <1>2 DEF Open, Reload, BeatOn, Visible, Close, Send, RelayUnchanged, countVars,
    limiterVars
<1>3. ASSUME NEW m \in flight, Observe(m) PROVE HealInv'
  <2>1. UNCHANGED <<now, published, outbox, ticked, shown>> /\ ~m.recorded
    BY <1>3 DEF Observe
  <2>2. CASE flight' = flight \ {m} /\ UNCHANGED <<active, changed>>
    BY <1>1, <2>1, <2>2
  <2>3. ASSUME NEW t \in Readings, NEW a, SetActive(a),
               flight' = (flight \ {m}) \cup {[m EXCEPT !.recorded = TRUE, !.at = t]}
        PROVE  HealInv'
    <3>1. changed' = now \/ (changed' = changed /\ Audience' = Audience)
      BY <2>1, <2>3, ActiveChanges
    <3>2. PICK r : r = [m EXCEPT !.recorded = TRUE, !.at = t]
      OBVIOUS
    <3>3. r.recorded /\ r \in flight'
      BY <2>3, <3>2 DEF TypeInv, PageInv, Messages
    <3>4. Audience' \in Nat
      BY NumbersOfTabs DEF Audience
    <3>5. NumbersInv' /\ ShownInv'
      BY <2>1, <3>1, NumberTypes DEF HealInv, NumbersInv, ShownInv
    <3>6. LatestInv'
      BY <2>1, <3>1, <3>3, NumberTypes DEF HealInv, LatestInv
    <3> QED BY <3>5, <3>6 DEF HealInv
  <2> QED BY <1>3, <2>2, <2>3 DEF Observe
<1>4. ASSUME NEW m \in flight, ObserveDecides(m) PROVE HealInv'
  <2>1. m.at \in Int /\ now \in Nat /\ MaxPause \in Nat
    BY ClockFacts, ListenerConstants DEF TypeInv, PageInv, Messages, Times
  <2>2. m.at \in Readings
    BY <1>4, <2>1 DEF ObserveDecides, FlightInv, Readings
  <2>3. ticked' \in BOOLEAN
    BY <1>4, NumberTypes DEF ObserveDecides
  <2> QED BY <1>4, <2>2, <2>3, DecideHeals DEF ObserveDecides, limiterVars
<1>5. CASE Tick
  BY <1>5, DecideHeals DEF Tick, limiterVars
<1>6. ASSUME NEW u \in outbox, Publish(u) PROVE HealInv'
  <2>1. UNCHANGED <<now, flight, active, published, ticked, changed>> /\ Audience' = Audience
    BY <1>6 DEF Publish, limiterVars, Audience, Listening
  <2>2. outbox' = outbox \ {u} /\ u.at \in Int /\ shown.at \in Int
    BY <1>6, NumberTypes DEF Publish
  <2>6. (u.at < shown.at /\ shown' = shown) \/ (u.at >= shown.at /\ shown' = u)
    <3>1. (u.at < shown.at /\ shown' = shown) \/ (~(u.at < shown.at) /\ shown' = u)
      BY <1>6 DEF Publish, Ingest
    <3> QED BY <2>2, <3>1
  <2>3. NumbersInv'
    BY <1>6, <2>1, <2>2, <2>6 DEF HealInv, NumbersInv
  <2>4. LatestInv'
    BY <1>6, <2>1, <2>2, <2>6, NumberTypes DEF HealInv, LatestInv
  <2>5. ShownInv'
    BY <1>6, <2>1, <2>2, <2>6, NumberTypes DEF HealInv, NumbersInv, ShownInv
  <2> QED BY <2>3, <2>4, <2>5 DEF HealInv
<1>7. CASE Visit
  <2>1. /\ UNCHANGED <<now, flight, active, published, outbox, ticked>> /\ Audience' = Audience
        /\ changed' = now /\ shown'.at = 0
    BY <1>7 DEF Visit, limiterVars, countVars, Audience, Listening
  <2> QED BY <2>1, NumberTypes DEF HealInv, NumbersInv, LatestInv, ShownInv
<1>8. CASE Restart
  <2>1. /\ changed' = now /\ now' = now /\ outbox' = {} /\ ~published'.sent /\ shown' = shown
        /\ active' = [k \in Tabs |-> Gone]
    BY <1>8 DEF Restart, None
  <2>2. Audience' = 0
    BY <2>1, FS_EmptySet DEF Audience, Listening
  <2> QED BY <2>1, <2>2, NumberTypes DEF HealInv, NumbersInv, LatestInv, ShownInv
<1>9. CASE Advance
  <2>1. /\ now' = now + 1 /\ ticked /\ outbox = {} /\ \A m \in flight : ~m.recorded
        /\ UNCHANGED <<flight, active, published, outbox, shown, changed>> /\ ~ticked'
    BY <1>9 DEF Advance, Pass, countVars
  <2>2. Audience' = Audience
    BY <2>1 DEF Audience, Listening
  <2>3. NumbersInv' /\ LatestInv'
    BY <2>1, <2>2, NumberTypes DEF HealInv, NumbersInv, LatestInv
  <2>4. ShownInv'
    BY <2>1, <2>2, NumberTypes DEF HealInv, NumbersInv, LatestInv, ShownInv
  <2> QED BY <2>3, <2>4 DEF HealInv
<1>10. CASE SweepTick
  BY <1>1, <1>10 DEF SweepTick, listenVars, countVars
<1>11. CASE UNCHANGED vars
  BY <1>1, <1>11 DEF vars, listenVars, countVars, limiterVars
<1> QED BY <1>2, <1>3, <1>4, <1>5, <1>6, <1>7, <1>8, <1>9, <1>10, <1>11 DEF Next

LEMMA HealInit == Init => HealInv
<1> SUFFICES ASSUME Init PROVE HealInv
  OBVIOUS
<1>1. now = 0 /\ outbox = {} /\ changed = 0 /\ shown.at = 0 /\ ~published.sent
  BY DEF Init, LimiterInit, None
<1>2. Audience = 0
  BY FS_EmptySet DEF Init, Audience, Listening
<1> QED BY <1>1, <1>2 DEF HealInv, NumbersInv, LatestInv, ShownInv

\* The page comes to show the number of active tabs, although numbers are
\* decided on under the lock and broadcast after it, overtake each other and are
\* dropped, a 0 is sent but once, and the browser's clock is behind the relay's
\* or ahead by less than the slack of the stale limit (listeners.go observe and
\* broadcastLive, listeners.svelte.ts ingestListenerCount and listeners.count).
THEOREM NumberHeals == Spec => []CountHeals
<1>1. TypeInv /\ FlightInv /\ HealInv => CountHeals
  <2> SUFFICES ASSUME TypeInv, HealInv, NEW skew \in Skews,
                      now - changed > IF Audience = 0 THEN Stale - skew
                                      ELSE Refresh + MaxPause
               PROVE  Displayed(skew) = Audience
    BY DEF CountHeals, Audience
  <2>1. skew \in Int /\ Refresh + MaxPause + skew <= Stale
    BY NumberTypes
  <2>2. CASE Audience = 0
    BY <2>1, <2>2, NumberTypes DEF HealInv, NumbersInv, Displayed
  <2>3. CASE Audience # 0
    BY <2>1, <2>3, NumberTypes DEF HealInv, ShownInv, Displayed
  <2> QED BY <2>2, <2>3
<1>2. /\ Init => TypeInv /\ FlightInv /\ HealInv
      /\ TypeInv /\ FlightInv /\ HealInv /\ [Next]_vars => TypeInv' /\ FlightInv' /\ HealInv'
  BY TypeInit, TypeStep, HealInit, HealStep
<1> QED BY <1>1, <1>2, PTL DEF Spec

-----------------------------------------------------------------------------
(* The tabs.  Of a tab that is open long enough the relay has heard, or a  *)
(* beat is under way that it will not refuse: of two beats in a row one    *)
(* arrives, and one that is refused follows on one that was allowed less   *)
(* than Cost ago.                                                          *)

\* The relay has heard of the tab at x or later, give or take a pause.
Recent(k, x) == active[k] # Gone /\ x - MaxPause <= active[k]

\* A beat of the tab, sent in lo .. hi, is under way.
Pending(k, lo, hi) ==
    \E m \in flight : m.tab = k /\ m.state = "on" /\ ~m.recorded /\ lo <= m.at /\ m.at <= hi

Tok(k) == Tokens(k, now)

Clocked(k) == now <= tab[k].due /\ tab[k].due <= now + Beat /\ since[k] <= now

\* The bucket holds too little for a beat: it was drained by one.  The exception
\* is the farewell of the page before, in the time it may take to arrive.
Drained(k) ==
    Tok(k) < Cost /\ (now - Tok(k) > since[k] + Transit \/ tab[k].due - Beat # since[k]) =>
        Recent(k, now - Tok(k))

\* The last beat, if it was not lost; one of the last two; and one of the two
\* before the last, as long as the last one may be under way.
LastBeat(k) ==
    ~tab[k].lost /\ tab[k].due - Beat > since[k] =>
        \/ Pending(k, tab[k].due - Beat, now)
        \/ Recent(k, tab[k].due - Beat - Cost + 1)
LastTwo(k) ==
    tab[k].due - 2 * Beat > since[k] =>
        \/ Pending(k, tab[k].due - 2 * Beat, tab[k].due - Beat)
        \/ Recent(k, tab[k].due - 2 * Beat - Cost + 1)
TwoBefore(k) ==
    tab[k].due - 3 * Beat > since[k] /\ now <= tab[k].due - Beat + Transit =>
        Recent(k, tab[k].due - 3 * Beat - Cost + 1)

\* A farewell under way is older than the page.
Farewell(k) ==
    \A m \in flight : m.tab = k /\ m.state = "off" /\ ~m.recorded =>
        m.at <= since[k] /\ tab[k].due = since[k] + Beat

TabInv(k) ==
    tab[k].open =>
        /\ Clocked(k) /\ Drained(k)
        /\ LastBeat(k) /\ LastTwo(k) /\ TwoBefore(k)
        /\ Farewell(k)

HeardInv == \A k \in Tabs : TabInv(k)

LEMMA TabTypes ==
    ASSUME TypeInv, NEW k \in Tabs
    PROVE  /\ now \in Nat /\ since[k] \in Nat /\ tab[k].due \in Nat
           /\ tab[k].open \in BOOLEAN /\ tab[k].lost \in BOOLEAN
           /\ active[k] \in Int /\ (active[k] = Gone \/ -MaxPause <= active[k])
           /\ Tok(k) \in Nat /\ Tok(k) <= Burst
           /\ \A m \in flight : m.at \in Int /\ m.recorded \in BOOLEAN /\ m.state \in {"on", "off"}
<1>1. now \in Nat /\ Gone \in Int /\ MaxPause \in Nat /\ MaxTime \in Nat /\ Beat \in Nat
  BY ClockFacts, ListenerConstants
<1>2. tab[k] \in TabStates /\ since[k] \in 0 .. MaxTime /\ flight \subseteq Messages
  BY DEF TypeInv, PageInv
<1>3. active[k] \in Times \cup {Gone}
  BY DEF TypeInv, CountInv, Actives
<1>4. Tok(k) \in Nat /\ Tok(k) <= Burst
  <2>1. k \in Keys /\ Burst \in Nat
    BY ListenerConstants
  <2>2. KeptBucket(k) /\ LimiterTypeOK
    BY <2>1 DEF TypeInv, BudgetInv
  <2>3. bucket[k] \in Bucket
    BY <2>1, <2>2 DEF LimiterTypeOK
  <2> QED BY <1>1, <2>1, <2>2, <2>3, TokensBound DEF KeptBucket, Tok, Bucket
<1>5. tab[k].due \in Nat /\ tab[k].open \in BOOLEAN /\ tab[k].lost \in BOOLEAN /\ since[k] \in Nat
  BY <1>1, <1>2 DEF TabStates
<1>6. \A m \in flight : m.at \in Int /\ m.recorded \in BOOLEAN /\ m.state \in {"on", "off"}
  BY <1>1, <1>2 DEF Messages, Times
<1>7. active[k] \in Int /\ (active[k] = Gone \/ -MaxPause <= active[k])
  BY <1>1, <1>3 DEF Times
<1> QED BY <1>1, <1>4, <1>5, <1>6, <1>7

\* What the limiter makes of the tokens: a beat costs, a refused one costs
\* nothing, a swept bucket was full, and time fills one.
LEMMA TokensMove ==
    ASSUME TypeInv, NEW k \in Tabs
    PROVE  /\ Allow(k, now) /\ now' = now => Tok(k) >= Cost /\ Tok(k)' = Tok(k) - Cost
           /\ Refuse(k, now) /\ now' = now => Tok(k) < Cost /\ Tok(k)' = Tok(k)
           /\ Sweep(now) /\ now' = now => Tok(k)' = Tok(k)
           /\ Pass => Tok(k)' = Capped(Tok(k) + 1)
           /\ bucket' = [i \in Tabs |-> NoBucket] => Tok(k)' = Burst
<1>1. /\ k \in Keys /\ now \in Nat /\ Tok(k) \in Nat /\ Tok(k) <= Burst /\ Burst \in Nat
      /\ Cost \in Nat /\ IdleTime \in Nat /\ MaxPause \in Nat /\ Burst + 2 * MaxPause <= IdleTime
  BY TabTypes, ListenerConstants
<1>2. KeptBucket(k) /\ bucket \in [Keys -> Bucket]
  BY <1>1 DEF TypeInv, BudgetInv, LimiterTypeOK
<1>3. bucket[k].tokens \in Int /\ bucket[k].last \in Int /\ bucket[k].there \in BOOLEAN
  BY <1>1, <1>2 DEF Bucket
<1>4. Tok(k) = Tokens(k, now)
  BY DEF Tok
<1>5. ASSUME NEW n \in Nat, n <= Burst, now' = now,
             bucket' = [bucket EXCEPT ![k] = [there |-> TRUE, tokens |-> n, last |-> now]]
      PROVE  Tok(k)' = n
  <2>1. bucket'[k].there /\ bucket'[k].tokens = n /\ bucket'[k].last = now
    BY <1>1, <1>2, <1>5
  <2> QED BY <1>1, <1>5, <2>1 DEF Tok, Tokens, Capped
<1>6. ASSUME Allow(k, now), now' = now PROVE Tok(k) >= Cost /\ Tok(k)' = Tok(k) - Cost
  <2>1. /\ Tok(k) >= Cost
        /\ bucket' = [bucket EXCEPT ![k] =
                        [there |-> TRUE, tokens |-> Tok(k) - Cost, last |-> now]]
    BY <1>4, <1>6 DEF Allow
  <2>2. Tok(k) - Cost \in Nat /\ Tok(k) - Cost <= Burst
    BY <1>1, <2>1
  <2> QED BY <1>5, <1>6, <2>1, <2>2
<1>7. ASSUME Refuse(k, now), now' = now PROVE Tok(k) < Cost /\ Tok(k)' = Tok(k)
  <2>1. /\ Tok(k) < Cost
        /\ bucket' = [bucket EXCEPT ![k] = [there |-> TRUE, tokens |-> Tok(k), last |-> now]]
    BY <1>4, <1>7 DEF Refuse
  <2> QED BY <1>1, <1>5, <1>7, <2>1
<1>8. ASSUME Sweep(now), now' = now PROVE Tok(k)' = Tok(k)
  <2>1. CASE bucket[k].there /\ now - bucket[k].last > IdleTime
    <3>1. bucket'[k] = NoBucket
      BY <1>1, <1>8, <2>1 DEF Sweep
    <3>2. Tok(k)' = Burst
      BY <3>1 DEF Tok, Tokens, NoBucket
    <3>3. Tok(k) = Burst
      BY <1>1, <1>2, <1>3, <2>1 DEF Tok, Tokens, Capped, KeptBucket
    <3> QED BY <3>2, <3>3
  <2>2. CASE ~(bucket[k].there /\ now - bucket[k].last > IdleTime)
    <3>1. bucket'[k] = bucket[k]
      BY <1>1, <1>8, <2>2 DEF Sweep
    <3> QED BY <1>8, <3>1 DEF Tok, Tokens
  <2> QED BY <2>1, <2>2
<1>9. ASSUME Pass PROVE Tok(k)' = Capped(Tok(k) + 1)
  BY <1>1, <1>2, <1>3, <1>9 DEF Pass, Tok, Tokens, Capped
<1>10. ASSUME bucket' = [i \in Tabs |-> NoBucket] PROVE Tok(k)' = Burst
  BY <1>10 DEF Tok, Tokens, NoBucket
<1> QED BY <1>6, <1>7, <1>8, <1>9, <1>10

\* What the relay heard of lately it does not prune.
LEMMA RecentIsKept ==
    ASSUME TypeInv, NEW k \in Tabs, NEW x \in Int, Recent(k, x),
           now - 2 * Beat - Transit - Cost < x,
           active'[k] = active[k] \/ \E t \in Readings : active'[k] = Pruned(t)[k]
    PROVE  Recent(k, x)'
<1>1. \A t \in Readings : t \in Int /\ t <= now
  BY ClockFacts
<1>2. \A t \in Readings : t - active[k] < Online
  BY <1>1, TabTypes, ListenerConstants DEF Recent
<1>3. \A t \in Readings : Pruned(t)[k] = active[k]
  BY <1>1, <1>2, TabTypes, ListenerConstants DEF Pruned
<1> QED BY <1>3 DEF Recent

\* What is left of a tab's part when nothing of it changes but that it is pruned
\* if it is silent, and beats of others come and go.
LEMMA TabIsKept ==
    ASSUME TypeInv, NEW k \in Tabs, TabInv(k),
           UNCHANGED now, tab'[k] = tab[k], since'[k] = since[k], Tok(k)' = Tok(k),
           \A m \in flight : m.tab = k /\ m.state = "on" /\ ~m.recorded => m \in flight',
           \A m \in flight' : m.tab = k /\ m.state = "off" /\ ~m.recorded => m \in flight,
           active'[k] = active[k] \/ \E t \in Readings : active'[k] = Pruned(t)[k]
    PROVE  TabInv(k)'
<1>1. SUFFICES ASSUME tab[k].open
               PROVE  /\ Clocked(k)' /\ Drained(k)' /\ LastBeat(k)' /\ LastTwo(k)'
                      /\ TwoBefore(k)' /\ Farewell(k)'
  BY DEF TabInv
<1>2. /\ Clocked(k) /\ Drained(k) /\ LastBeat(k) /\ LastTwo(k) /\ TwoBefore(k) /\ Farewell(k)
  BY <1>1 DEF TabInv
<1>3. \A lo, hi \in Int : Pending(k, lo, hi) => Pending(k, lo, hi)'
  BY DEF Pending
<1>4. \A x \in Int : now - 2 * Beat - Transit - Cost < x /\ Recent(k, x) => Recent(k, x)'
  BY RecentIsKept
<1>5. Clocked(k)'
  BY <1>2 DEF Clocked
<1>6. Drained(k)'
  <2>1. PICK x \in Int : x = now - Tok(k)
    BY TabTypes
  <2>2. Tok(k) < Cost => now - 2 * Beat - Transit - Cost < x
    BY <2>1, TabTypes, ListenerConstants
  <2>3. Recent(k, now - Tok(k))' = Recent(k, x)'
    BY <2>1
  <2> QED BY <1>2, <1>4, <2>1, <2>2, <2>3 DEF Drained
<1>7. LastBeat(k)'
  <2>1. PICK x \in Int, lo \in Int, hi \in Int :
          x = tab[k].due - Beat - Cost + 1 /\ lo = tab[k].due - Beat /\ hi = now
    <3>1. tab[k].due - Beat - Cost + 1 \in Int /\ tab[k].due - Beat \in Int /\ now \in Int
      BY TabTypes, ListenerConstants
    <3> QED BY <3>1
  <2>2. now - 2 * Beat - Transit - Cost < x
    BY <1>2, <2>1, TabTypes, ListenerConstants DEF Clocked
  <2>3. /\ Recent(k, tab[k].due - Beat - Cost + 1)' = Recent(k, x)'
        /\ Pending(k, tab[k].due - Beat, now)' = Pending(k, lo, hi)'
    BY <2>1
  <2> QED BY <1>2, <1>3, <1>4, <2>1, <2>2, <2>3 DEF LastBeat
<1>8. LastTwo(k)'
  <2>1. PICK x \in Int, lo \in Int, hi \in Int :
          /\ x = tab[k].due - 2 * Beat - Cost + 1
          /\ lo = tab[k].due - 2 * Beat /\ hi = tab[k].due - Beat
    BY TabTypes, ListenerConstants
  <2>2. now - 2 * Beat - Transit - Cost < x
    BY <1>2, <2>1, TabTypes, ListenerConstants DEF Clocked
  <2>3. /\ Recent(k, tab[k].due - 2 * Beat - Cost + 1)' = Recent(k, x)'
        /\ Pending(k, tab[k].due - 2 * Beat, tab[k].due - Beat)' = Pending(k, lo, hi)'
    BY <2>1
  <2> QED BY <1>2, <1>3, <1>4, <2>1, <2>2, <2>3 DEF LastTwo
<1>9. TwoBefore(k)'
  <2>1. PICK x \in Int : x = tab[k].due - 3 * Beat - Cost + 1
    BY TabTypes, ListenerConstants
  <2>2. now <= tab[k].due - Beat + Transit => now - 2 * Beat - Transit - Cost < x
    BY <2>1, TabTypes, ListenerConstants
  <2>3. Recent(k, tab[k].due - 3 * Beat - Cost + 1)' = Recent(k, x)'
    BY <2>1
  <2> QED BY <1>2, <1>4, <2>1, <2>2, <2>3 DEF TwoBefore
<1>10. Farewell(k)'
  BY <1>2 DEF Farewell
<1> QED BY <1>5, <1>6, <1>7, <1>8, <1>9, <1>10

\* A page that opens or is loaded again: nothing is expected of it yet.
LEMMA FreshTab ==
    ASSUME TypeInv, FlightInv, NEW k \in Tabs, NEW states, NEW open \in BOOLEAN,
           Send(k, states, open, now + Beat),
           since'[k] = now, UNCHANGED <<now, active>>, Tok(k)' = Tok(k)
    PROVE  TabInv(k)'
<1>1. /\ tab'[k].due = now + Beat
  BY DEF Send, TypeInv, PageInv
<1>2. /\ now \in Nat /\ Beat \in Nat /\ Transit \in Nat /\ Tok(k) \in Nat
      /\ now' = now /\ since'[k] = now
  BY TabTypes, ListenerConstants
<1>3. Clocked(k)'
  BY <1>1, <1>2 DEF Clocked
<1>4. Drained(k)' /\ LastBeat(k)' /\ LastTwo(k)' /\ TwoBefore(k)'
  BY <1>1, <1>2 DEF Drained, LastBeat, LastTwo, TwoBefore
<1>5. Farewell(k)'
  <2>1. \A m \in Beats(k, states) : m.at = now
    BY DEF Beats
  <2>2. \A m \in flight' : m.at <= now
    BY <1>2, <2>1, TabTypes DEF Send, FlightInv
  <2> QED BY <1>1, <1>2, <2>2 DEF Farewell
<1> QED BY <1>3, <1>4, <1>5 DEF TabInv

\* The beat of the interval.
LEMMA BeatKeeps ==
    ASSUME TypeInv, FlightInv, NEW k \in Tabs, TabInv(k), BeatOn(k), Tok(k)' = Tok(k)
    PROVE  TabInv(k)'
<1>1. /\ tab[k].open /\ tab[k].due = now /\ UNCHANGED <<now, active, since>>
      /\ Send(k, {"on"}, TRUE, now + Beat)
  BY DEF BeatOn, RelayUnchanged, limiterVars, countVars
<1>2. /\ Clocked(k) /\ Drained(k) /\ LastBeat(k) /\ LastTwo(k) /\ Farewell(k)
  BY <1>1 DEF TabInv
<1>3. /\ now \in Nat /\ Beat \in Nat /\ Transit \in Nat /\ Tok(k) \in Nat /\ since[k] \in Nat
      /\ Cost \in Nat /\ Transit + Cost <= Beat /\ Cost > 0
  BY TabTypes, ListenerConstants
<1>4. tab'[k].due = now + Beat /\ flight \subseteq flight'
  BY <1>1 DEF Send, TypeInv, PageInv
<1>5. PICK b : b = [tab |-> k, state |-> "on", at |-> now, recorded |-> FALSE]
  OBVIOUS
<1>6. b.tab = k /\ b.state = "on" /\ b.at = now /\ ~b.recorded
  BY <1>5
<1>7. /\ ~tab'[k].lost => b \in flight'
      /\ tab[k].lost => b \in flight'
      /\ \A m \in flight' : m \in flight \/ m = b
  BY <1>1, <1>5 DEF Send, Beats, TypeInv, PageInv
<1>8. \A m \in flight : ~m.recorded => m.at \in Int /\ m.at <= now /\ now <= m.at + Transit
  BY TabTypes DEF FlightInv
<1>9. \A x : Recent(k, x)' = Recent(k, x)
  BY <1>1 DEF Recent
<1>10. Clocked(k)'
  BY <1>1, <1>2, <1>3, <1>4 DEF Clocked
<1>11. Drained(k)'
  <2>1. Recent(k, now - Tok(k))' = Recent(k, now - Tok(k))
    BY <1>1 DEF Recent
  <2> QED BY <1>1, <1>2, <1>3, <1>4, <2>1 DEF Drained
<1>12. LastBeat(k)'
  BY <1>1, <1>3, <1>4, <1>6, <1>7 DEF LastBeat, Pending
<1>13. LastTwo(k)'
  <2>1. CASE tab[k].lost
    BY <2>1, <1>1, <1>3, <1>4, <1>6, <1>7 DEF LastTwo, Pending
  <2>2. CASE ~tab[k].lost
    <3>1. now - Beat > since[k] =>
            Pending(k, now - Beat, now) \/ Recent(k, now - Beat - Cost + 1)
      BY <2>2, <1>1, <1>2 DEF LastBeat
    <3>2. tab'[k].due - 2 * Beat = now - Beat /\ tab'[k].due - Beat = now
      BY <1>3, <1>4
    <3>3. Pending(k, now - Beat, now) => Pending(k, now - Beat, now)'
      BY <1>1, <1>4 DEF Pending
    <3>4. Recent(k, now - Beat - Cost + 1) => Recent(k, now - Beat - Cost + 1)'
      BY <1>1 DEF Recent
    <3> QED BY <1>1, <3>1, <3>2, <3>3, <3>4 DEF LastTwo
  <2> QED BY <2>1, <2>2
<1>14. TwoBefore(k)'
  <2>1. ~Pending(k, now - 2 * Beat, now - Beat)
    BY <1>3, <1>8 DEF Pending
  <2>2. now - 2 * Beat > since[k] => Recent(k, now - 2 * Beat - Cost + 1)
    BY <2>1, <1>1, <1>2 DEF LastTwo
  <2>3. tab'[k].due - 3 * Beat = now - 2 * Beat
    BY <1>3, <1>4
  <2> QED BY <1>1, <2>2, <2>3 DEF TwoBefore, Recent
<1>15. Farewell(k)'
  <2>1. \A m \in flight : m.tab = k /\ m.state = "off" => m.recorded
    BY <1>1, <1>2, <1>3, <1>8 DEF Farewell
  <2> QED BY <1>6, <1>7, <2>1 DEF Farewell
<1> QED BY <1>10, <1>11, <1>12, <1>13, <1>14, <1>15 DEF TabInv

\* One more beat: the last one, and it may be lost.
LEMMA VisibleKeeps ==
    ASSUME TypeInv, FlightInv, NEW k \in Tabs, TabInv(k), Visible(k), Tok(k)' = Tok(k)
    PROVE  TabInv(k)'
<1>1. /\ tab[k].open /\ UNCHANGED <<now, active, since>>
      /\ Send(k, {"on"}, TRUE, tab[k].due)
  BY DEF Visible, RelayUnchanged, limiterVars, countVars
<1>2. /\ Clocked(k) /\ Drained(k) /\ LastBeat(k) /\ LastTwo(k) /\ TwoBefore(k) /\ Farewell(k)
  BY <1>1 DEF TabInv
<1>3. now \in Nat /\ Beat \in Nat /\ tab[k].due \in Nat
  BY TabTypes, ListenerConstants
<1>4. tab'[k].due = tab[k].due /\ flight \subseteq flight'
  BY <1>1 DEF Send, TypeInv, PageInv
<1>5. PICK b : b = [tab |-> k, state |-> "on", at |-> now, recorded |-> FALSE]
  OBVIOUS
<1>6. b.tab = k /\ b.state = "on" /\ b.at = now /\ ~b.recorded
  BY <1>5
<1>7. /\ ~tab'[k].lost => b \in flight'
      /\ \A m \in flight' : m \in flight \/ m = b
  BY <1>1, <1>5 DEF Send, Beats, TypeInv, PageInv
<1>8. Clocked(k)' /\ Drained(k)' /\ TwoBefore(k)'
  BY <1>1, <1>2, <1>4 DEF Clocked, Drained, TwoBefore, Recent
<1>9. LastBeat(k)'
  BY <1>1, <1>2, <1>3, <1>4, <1>6, <1>7 DEF LastBeat, Pending, Clocked
<1>10. LastTwo(k)'
  BY <1>1, <1>2, <1>4 DEF LastTwo, Pending, Recent
<1>11. Farewell(k)'
  BY <1>1, <1>2, <1>4, <1>6, <1>7 DEF Farewell
<1> QED BY <1>8, <1>9, <1>10, <1>11 DEF TabInv

\* The relay observes a beat of the tab itself.
LEMMA ObserveOwn ==
    ASSUME TypeInv, FlightInv, NEW m \in flight, TabInv(m.tab), Observe(m), m.tab \in Tabs
    PROVE  TabInv(m.tab)'
<1> DEFINE k == m.tab
<1>1. SUFFICES ASSUME tab[k].open
               PROVE  /\ Clocked(k)' /\ Drained(k)' /\ LastBeat(k)' /\ LastTwo(k)'
                      /\ TwoBefore(k)' /\ Farewell(k)'
  BY DEF TabInv, Observe
<1>2. /\ Clocked(k) /\ Drained(k) /\ LastBeat(k) /\ LastTwo(k) /\ TwoBefore(k) /\ Farewell(k)
  BY <1>1 DEF TabInv
<1>3. UNCHANGED <<now, tab, since>> /\ ~m.recorded
  BY DEF Observe
<1>4. /\ now \in Nat /\ Beat \in Nat /\ tab[k].due \in Nat /\ since[k] \in Nat /\ Tok(k) \in Nat
      /\ Cost \in Nat /\ Transit \in Nat /\ Transit + Cost <= Beat /\ MaxPause \in Nat
      /\ m.at \in Int /\ m.state \in {"on", "off"} /\ active[k] \in Int
  BY TabTypes, ListenerConstants
<1>5. Clocked(k)'
  BY <1>2, <1>3 DEF Clocked
<1>6. CASE Refuse(k, now) /\ flight' = flight \ {m} /\ active' = active
  <2>1. Tok(k) < Cost /\ Tok(k)' = Tok(k)
    BY <1>3, <1>6, TokensMove
  <2>2. \A x : Recent(k, x)' = Recent(k, x)
    BY <1>6 DEF Recent
  <2>3. tab[k].due - Beat > since[k] => Recent(k, now - Cost + 1)
    BY <1>2, <1>4, <2>1 DEF Drained, Recent
  <2>4. Drained(k)'
    BY <1>2, <1>3, <1>6, <2>1 DEF Drained, Recent
  <2>5. LastBeat(k)' /\ LastTwo(k)'
    BY <1>2, <1>3, <1>4, <1>6, <2>3 DEF LastBeat, LastTwo, Recent, Clocked
  <2>6. TwoBefore(k)' /\ Farewell(k)'
    BY <1>2, <1>3, <1>6 DEF TwoBefore, Recent, Farewell
  <2> QED BY <1>5, <2>4, <2>5, <2>6
<1>7. ASSUME NEW t \in Readings, Allow(k, now),
             flight' = (flight \ {m}) \cup {[m EXCEPT !.recorded = TRUE, !.at = t]},
             active' = IF m.state = "on" THEN [Pruned(t) EXCEPT ![k] = t]
                       ELSE [active EXCEPT ![k] = Gone]
      PROVE  /\ Drained(k)' /\ LastBeat(k)' /\ LastTwo(k)' /\ TwoBefore(k)' /\ Farewell(k)'
  <2>1. Tok(k) >= Cost /\ Tok(k)' = Tok(k) - Cost
    BY <1>3, <1>7, TokensMove
  <2>2. PICK r : r = [m EXCEPT !.recorded = TRUE, !.at = t]
    OBVIOUS
  <2>3. r.recorded /\ \A i \in flight' : ~i.recorded => i \in flight
    <3>1. r.recorded
      BY <2>2 DEF TypeInv, PageInv, Messages
    <3> QED BY <1>7, <2>2, <3>1
  <2>4. Farewell(k)'
    BY <1>2, <1>3, <2>3 DEF Farewell
  <2>5. CASE m.state = "on"
    <3>1. active'[k] = t
      BY <1>7, <2>5 DEF Pruned, TypeInv, PageInv, Messages
    <3>2. t \in Int /\ now - MaxPause <= t /\ Gone \in Int /\ Gone < -MaxPause
      BY ClockFacts
    <3>3. active'[k] # Gone /\ now - MaxPause <= active'[k]
      BY <1>4, <3>1, <3>2
    <3>4. active'[k] \in Int
      BY <3>1, <3>2
    <3>5. Drained(k)'
      BY <1>3, <1>4, <2>1, <3>3, <3>4 DEF Drained, Recent
    <3>6. LastBeat(k)' /\ LastTwo(k)' /\ TwoBefore(k)'
      <4>1. \A x \in Int : x <= now => Recent(k, x)'
        BY <1>4, <3>3, <3>4 DEF Recent
      <4>2. /\ tab'[k] = tab[k] /\ since'[k] = since[k]
            /\ tab[k].due <= now + Beat /\ Cost > 0
        BY <1>2, <1>3, ListenerConstants DEF Clocked
      <4>3. LastBeat(k)'
        BY <1>4, <4>1, <4>2 DEF LastBeat
      <4>4. LastTwo(k)'
        BY <1>4, <4>1, <4>2 DEF LastTwo
      <4>5. TwoBefore(k)'
        BY <1>4, <4>1, <4>2 DEF TwoBefore
      <4> QED BY <4>3, <4>4, <4>5
    <3> QED BY <2>4, <3>5, <3>6
  <2>6. CASE m.state = "off"
    <3>1. m.at <= since[k] /\ tab[k].due = since[k] + Beat /\ now <= m.at + Transit
      BY <1>2, <1>3, <2>6 DEF Farewell, FlightInv
    <3>2. Drained(k)' /\ LastBeat(k)' /\ LastTwo(k)' /\ TwoBefore(k)'
      BY <1>3, <1>4, <2>1, <3>1 DEF Drained, LastBeat, LastTwo, TwoBefore
    <3> QED BY <2>4, <3>2
  <2> QED BY <1>4, <2>5, <2>6
<1> QED BY <1>5, <1>6, <1>7 DEF Observe, SetActive

\* Time passes: a beat that is due has been sent, and a message that has not
\* arrived in time is none.
LEMMA AdvanceKeeps ==
    ASSUME TypeInv, NEW k \in Tabs, TabInv(k), Advance
    PROVE  TabInv(k)'
<1>1. SUFFICES ASSUME tab[k].open
               PROVE  /\ Clocked(k)' /\ Drained(k)' /\ LastBeat(k)' /\ LastTwo(k)'
                      /\ TwoBefore(k)' /\ Farewell(k)'
  BY DEF TabInv, Advance
<1>2. /\ Clocked(k) /\ Drained(k) /\ LastBeat(k) /\ LastTwo(k) /\ TwoBefore(k) /\ Farewell(k)
  BY <1>1 DEF TabInv
<1>3. /\ now' = now + 1 /\ UNCHANGED <<tab, flight, active, since>> /\ now < tab[k].due
  BY <1>1 DEF Advance, Pass, countVars
<1>4. /\ now \in Nat /\ Beat \in Nat /\ tab[k].due \in Nat /\ since[k] \in Nat /\ Tok(k) \in Nat
      /\ Tok(k) <= Burst /\ Burst \in Nat /\ Cost \in Nat /\ Cost <= Burst /\ Transit \in Nat
  BY TabTypes, ListenerConstants
<1>5. Tok(k)' = Capped(Tok(k) + 1)
  BY TokensMove DEF Advance
<1>6. Clocked(k)'
  BY <1>2, <1>3, <1>4 DEF Clocked
<1>7. Drained(k)'
  <2>1. Tok(k)' < Cost => Tok(k) < Cost /\ now' - Tok(k)' = now - Tok(k)
    BY <1>3, <1>4, <1>5 DEF Capped
  <2> QED BY <1>2, <1>3, <2>1 DEF Drained, Recent
<1>8. LastBeat(k)'
  <2>1. \A lo : Pending(k, lo, now) => Pending(k, lo, now)'
    BY <1>3, <1>4, TabTypes DEF Pending
  <2> QED BY <1>2, <1>3, <2>1 DEF LastBeat, Recent
<1>9. LastTwo(k)'
  BY <1>2, <1>3 DEF LastTwo, Pending, Recent
<1>10. TwoBefore(k)'
  BY <1>2, <1>3, <1>4 DEF TwoBefore, Recent
<1>11. Farewell(k)'
  BY <1>2, <1>3 DEF Farewell
<1> QED BY <1>6, <1>7, <1>8, <1>9, <1>10, <1>11

LEMMA HeardStep ==
    ASSUME TypeInv, FlightInv, HeardInv, [Next]_vars
    PROVE  HeardInv'
<1> SUFFICES ASSUME NEW k \in Tabs PROVE TabInv(k)'
  BY DEF HeardInv
<1>1. TabInv(k)
  BY DEF HeardInv
<1>2. ASSUME limiterVars' = limiterVars PROVE now' = now /\ \A i \in Tabs : Tok(i)' = Tok(i)
  BY <1>2 DEF limiterVars, Tok, Tokens
<1>3. ASSUME NEW j \in Tabs \ {k}, NEW states, NEW open, NEW due, Send(j, states, open, due),
             RelayUnchanged, since'[k] = since[k]
      PROVE  TabInv(k)'
  <2>1. tab'[k] = tab[k] /\ flight \subseteq flight'
        /\ \A m \in flight' : m.tab = k => m \in flight
    BY <1>3 DEF Send, Beats, TypeInv, PageInv
  <2>2. active' = active /\ now' = now /\ Tok(k)' = Tok(k)
    BY <1>2, <1>3 DEF RelayUnchanged, countVars, limiterVars
  <2> QED BY <1>1, <1>3, <2>1, <2>2, TabIsKept
<1>4. ASSUME NEW j \in Tabs, Open(j) \/ Reload(j) PROVE TabInv(k)'
  <2>1. RelayUnchanged /\ since' = [since EXCEPT ![j] = now]
        /\ \E states : Send(j, states, TRUE, now + Beat)
    BY <1>4 DEF Open, Reload
  <2>2. CASE j = k
    <3>1. since'[k] = now
      BY <2>1, <2>2 DEF TypeInv, PageInv
    <3>2. active' = active /\ now' = now /\ Tok(k)' = Tok(k)
      BY <1>2, <2>1 DEF RelayUnchanged, countVars, limiterVars
    <3> QED BY <2>1, <2>2, <3>1, <3>2, FreshTab
  <2>3. CASE j # k
    <3>1. since'[k] = since[k]
      BY <2>1, <2>3 DEF TypeInv, PageInv
    <3> QED BY <1>3, <2>1, <2>3, <3>1
  <2> QED BY <2>2, <2>3
<1>5. ASSUME NEW j \in Tabs, BeatOn(j) \/ Visible(j) PROVE TabInv(k)'
  <2>1. RelayUnchanged /\ since' = since
        /\ \E states, due : Send(j, states, TRUE, due)
    BY <1>5 DEF BeatOn, Visible
  <2>2. CASE j = k
    <3>1. Tok(k)' = Tok(k)
      BY <1>2, <2>1 DEF RelayUnchanged
    <3> QED BY <1>1, <1>5, <2>2, <3>1, BeatKeeps, VisibleKeeps
  <2>3. CASE j # k
    BY <1>3, <2>1, <2>3
  <2> QED BY <2>2, <2>3
<1>6. ASSUME NEW j \in Tabs, Close(j) PROVE TabInv(k)'
  <2>1. RelayUnchanged /\ since' = since /\ Send(j, {"off"}, FALSE, 0)
    BY <1>6 DEF Close
  <2>2. CASE j = k
    <3>1. ~tab'[k].open
      BY <2>1, <2>2 DEF Send, TypeInv, PageInv
    <3> QED BY <3>1 DEF TabInv
  <2>3. CASE j # k
    BY <1>3, <2>1, <2>3
  <2> QED BY <2>2, <2>3
<1>7. ASSUME NEW m \in flight, Observe(m) PROVE TabInv(k)'
  <2>1. m \in Messages /\ m.tab \in Tabs
    BY DEF TypeInv, PageInv, Messages
  <2>2. CASE m.tab = k
    BY <1>1, <1>7, <2>1, <2>2, ObserveOwn
  <2>3. CASE m.tab # k
    <3>1. UNCHANGED <<now, tab, since>>
      BY <1>7 DEF Observe
    <3>2. bucket'[k] = bucket[k]
      BY <1>7, <2>1, <2>3, ListenerConstants DEF Observe, Refuse, Allow, TypeInv, BudgetInv,
        LimiterTypeOK
    <3>3. Tok(k)' = Tok(k)
      BY <3>1, <3>2 DEF Tok, Tokens
    <3>4. active'[k] = active[k] \/ \E t \in Readings : active'[k] = Pruned(t)[k]
      <4>1. ASSUME NEW t \in Readings, active' = [Pruned(t) EXCEPT ![m.tab] = t]
            PROVE  active'[k] = Pruned(t)[k]
        BY <2>3, <4>1 DEF Pruned
      <4>2. ASSUME active' = [active EXCEPT ![m.tab] = Gone]
            PROVE  active'[k] = active[k]
        BY <2>3, <4>2 DEF TypeInv, CountInv, Actives
      <4> QED BY <1>7, <4>1, <4>2 DEF Observe, SetActive
    <3>5. /\ \A i \in flight : i.tab = k => i \in flight'
          /\ \A i \in flight' : i.tab = k /\ ~i.recorded => i \in flight
      <4>1. ASSUME NEW t \in Readings,
                   flight' = (flight \ {m}) \cup {[m EXCEPT !.recorded = TRUE, !.at = t]}
            PROVE  /\ \A i \in flight : i.tab = k => i \in flight'
                   /\ \A i \in flight' : i.tab = k /\ ~i.recorded => i \in flight
        <5>1. PICK r : r = [m EXCEPT !.recorded = TRUE, !.at = t]
          OBVIOUS
        <5>2. r.recorded
          BY <2>1, <5>1 DEF Messages
        <5> QED BY <2>3, <4>1, <5>1, <5>2
      <4> QED BY <1>7, <2>3, <4>1 DEF Observe
    <3> QED BY <1>1, <3>1, <3>3, <3>4, <3>5, TabIsKept
  <2> QED BY <2>2, <2>3
<1>8. ASSUME UNCHANGED <<limiterVars, tab, since>>, flight' \subseteq flight,
             \A m \in flight : ~m.recorded => m \in flight',
             NEW t \in Readings, Decide(t)
      PROVE  TabInv(k)'
  <2>1. active'[k] = Pruned(t)[k]
    BY <1>8 DEF Decide, SetActive
  <2> QED BY <1>1, <1>2, <1>8, <2>1, TabIsKept
<1>9. ASSUME NEW m \in flight, ObserveDecides(m) PROVE TabInv(k)'
  <2>1. m.at \in Int /\ now \in Nat /\ MaxPause \in Nat
    BY TabTypes, ListenerConstants
  <2>2. m.at \in Readings
    BY <1>9, <2>1 DEF ObserveDecides, FlightInv, Readings
  <2> QED BY <1>8, <1>9, <2>2 DEF ObserveDecides
<1>10. CASE Tick
  BY <1>8, <1>10 DEF Tick
<1>11. ASSUME UNCHANGED <<tab, flight, active, since, now>>, Tok(k)' = Tok(k) PROVE TabInv(k)'
  BY <1>1, <1>11, TabIsKept
<1>12. ASSUME NEW u \in outbox, Publish(u) PROVE TabInv(k)'
  BY <1>2, <1>11, <1>12 DEF Publish
<1>13. CASE Visit
  BY <1>2, <1>11, <1>13 DEF Visit, countVars
<1>14. CASE Restart
  <2>1. /\ tab' = tab /\ flight' = {} /\ now' = now /\ since'[k] = now /\ Tok(k)' = Burst
    BY <1>14, TokensMove DEF Restart
  <2>2. tab[k].open => Clocked(k)
    BY <1>1 DEF TabInv
  <2>3. /\ now \in Nat /\ Beat \in Nat /\ tab[k].due \in Nat /\ Cost \in Nat /\ Burst \in Nat
        /\ Cost <= Burst /\ Transit \in Nat
    BY TabTypes, ListenerConstants
  <2>4. tab[k].open => Clocked(k)' /\ Drained(k)' /\ LastBeat(k)' /\ LastTwo(k)' /\ TwoBefore(k)'
    BY <2>1, <2>2, <2>3 DEF Clocked, Drained, LastBeat, LastTwo, TwoBefore
  <2>5. Farewell(k)'
    BY <2>1 DEF Farewell
  <2> QED BY <2>1, <2>4, <2>5 DEF TabInv
<1>15. CASE Advance
  BY <1>1, <1>15, AdvanceKeeps
<1>16. CASE SweepTick
  BY <1>11, <1>16, TokensMove DEF SweepTick, listenVars, countVars
<1>17. CASE UNCHANGED vars
  BY <1>2, <1>11, <1>17 DEF vars, listenVars, countVars
<1> QED BY <1>4, <1>5, <1>6, <1>7, <1>9, <1>10, <1>12, <1>13, <1>14, <1>15, <1>16, <1>17 DEF Next

LEMMA HeardInit == Init => HeardInv
BY DEF Init, HeardInv, TabInv

\* A tab that stays open is among the active tabs once two beats are due, and
\* stays it: although one beat of two may be lost, one may be refused by the
\* limiter, and the farewell of the page before may arrive late (listeners.go
\* pruneActiveLocked, main.go's listener limiter, listeners.svelte.ts).
THEOREM OpenTabsAreCounted == Spec => []OpenTabIsCounted
<1>1. TypeInv /\ FlightInv /\ HeardInv => OpenTabIsCounted
  <2> SUFFICES ASSUME TypeInv, FlightInv, HeardInv, NEW k \in Tabs, tab[k].open,
                      now - since[k] > 2 * Beat + Transit
               PROVE  active[k] # Gone
    BY DEF OpenTabIsCounted
  <2>1. Clocked(k) /\ LastTwo(k) /\ TwoBefore(k)
    BY DEF HeardInv, TabInv
  <2>2. /\ now \in Nat /\ Beat \in Nat /\ tab[k].due \in Nat /\ since[k] \in Nat
        /\ Transit \in Nat
    BY TabTypes, ListenerConstants
  <2>3. CASE now > tab[k].due - Beat + Transit
    <3>1. ~Pending(k, tab[k].due - 2 * Beat, tab[k].due - Beat)
      BY <2>2, <2>3, TabTypes DEF Pending, FlightInv
    <3>2. tab[k].due - 2 * Beat > since[k]
      BY <2>1, <2>2 DEF Clocked
    <3> QED BY <2>1, <3>1, <3>2 DEF LastTwo, Recent
  <2>4. CASE now <= tab[k].due - Beat + Transit
    <3>1. tab[k].due - 3 * Beat > since[k]
      BY <2>2, <2>4
    <3> QED BY <2>1, <2>4, <3>1 DEF TwoBefore, Recent
  <2> QED BY <2>2, <2>3, <2>4
<1>2. /\ Init => TypeInv /\ FlightInv /\ HeardInv
      /\ TypeInv /\ FlightInv /\ HeardInv /\ [Next]_vars => TypeInv' /\ FlightInv' /\ HeardInv'
  BY TypeInit, TypeStep, HeardInit, HeardStep
<1> QED BY <1>1, <1>2, PTL DEF Spec
=============================================================================
