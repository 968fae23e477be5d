------------------------------ MODULE RateLimit ------------------------------
(***************************************************************************)
(* The relay's token buckets (relay/ratelimit.go): kindLimiter.reject for  *)
(* events, ipLimiter.allow for networks, with their sweep.  Both are the   *)
(* same algorithm, on another key.                                         *)
(*                                                                         *)
(* Time and tokens are counted in the unit a bucket refills in one unit of *)
(* time; a request costs Cost of them.  A request reads the clock before   *)
(* it takes the lock, so a bucket may see readings in any order.           *)
(***************************************************************************)
EXTENDS Integers

CONSTANTS
    Keys,      \* principals or network addresses
    Burst,     \* what a full bucket holds: the time it takes to fill
    Cost,      \* what a request costs
    IdleTime,  \* a bucket unused for longer is swept
    MaxPause   \* between reading the clock and taking the lock

\* main.go sweeps what was idle for ten minutes; no bucket takes more than one
\* to fill.
ASSUME RateLimitAssumption ==
    /\ Burst \in Nat /\ Cost \in Nat \ {0} /\ IdleTime \in Nat /\ MaxPause \in Nat
    /\ Burst + 2 * MaxPause <= IdleTime

VARIABLES
    now,
    bucket,  \* the bucket of each key, if it has one
    mark,    \* history: the start of some interval
    taken    \* history: the cost of what each key was allowed since then

limiterVars == <<now, bucket, mark, taken>>

Bucket == [there : BOOLEAN, tokens : Int, last : Int]
NoBucket == [there |-> FALSE, tokens |-> 0, last |-> 0]

LimiterInit ==
    /\ now = 0
    /\ bucket = [k \in Keys |-> NoBucket]
    /\ mark = 0
    /\ taken = [k \in Keys |-> 0]

\* What a request may have read from the clock.
Readings == now - MaxPause .. now

Capped(n) == IF n > Burst THEN Burst ELSE n

\* The tokens of a key at t.  A new bucket is full.
Tokens(k, t) ==
    IF bucket[k].there THEN Capped(bucket[k].tokens + (t - bucket[k].last))
    ELSE Burst

\* allow, reject: the request passes.
Allow(k, t) ==
    /\ Tokens(k, t) >= Cost
    /\ bucket' = [bucket EXCEPT ![k] =
                    [there |-> TRUE, tokens |-> Tokens(k, t) - Cost, last |-> t]]
    /\ taken' = [taken EXCEPT ![k] = @ + Cost]
    /\ UNCHANGED mark

\* allow, reject: the bucket is refilled, the request refused.
Refuse(k, t) ==
    /\ Tokens(k, t) < Cost
    /\ bucket' = [bucket EXCEPT ![k] =
                    [there |-> TRUE, tokens |-> Tokens(k, t), last |-> t]]
    /\ UNCHANGED <<taken, mark>>

\* Mutant: whatever is old enough to hold a token again is swept.
SweepEarly(t) ==
    /\ bucket' = [k \in Keys |->
                    IF bucket[k].there /\ t - bucket[k].last > 0
                    THEN NoBucket ELSE bucket[k]]
    /\ UNCHANGED <<taken, mark>>

\* sweep, having read the clock at t.
Sweep(t) ==
    /\ bucket' = [k \in Keys |->
                    IF bucket[k].there /\ t - bucket[k].last > IdleTime
                    THEN NoBucket ELSE bucket[k]]
    /\ UNCHANGED <<taken, mark>>

\* Time passes; an interval begins.
Pass == now' = now + 1 /\ UNCHANGED <<bucket, mark, taken>>
Mark ==
    /\ mark' = now /\ taken' = [k \in Keys |-> 0]
    /\ UNCHANGED <<now, bucket>>

LimiterNext ==
    \/ /\ \E t \in Readings :
            \/ \E k \in Keys : Allow(k, t) \/ Refuse(k, t)
            \/ Sweep(t)
       /\ UNCHANGED now
    \/ Pass \/ Mark

LimiterSpec == LimiterInit /\ [][LimiterNext]_limiterVars

-----------------------------------------------------------------------------
LimiterTypeOK ==
    /\ now \in Nat
    /\ bucket \in [Keys -> Bucket]
    /\ mark \in 0 .. now
    /\ taken \in [Keys -> Nat]

\* In no interval is a key allowed more than a burst and what refills in it,
\* give or take the time a request waits for the lock: whatever the order of
\* the readings, and although buckets are swept and start full again.
WithinBudget ==
    \A k \in Keys : taken[k] <= Burst + (now - mark) + MaxPause
=============================================================================
