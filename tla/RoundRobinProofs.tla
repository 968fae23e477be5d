-------------------------- MODULE RoundRobinProofs --------------------------
(***************************************************************************)
(* What the fair scheduler promises for every stage and every matrix.      *)
(***************************************************************************)
EXTENDS RoundRobin, WellFoundedInduction, TLAPS

\* A non-empty set of naturals has a least element.
LEMMA LeastExists ==
    ASSUME NEW S \in SUBSET Nat, S # {}
    PROVE  \E x \in S : \A y \in S : x <= y
<1> DEFINE R == OpToRel(<, Nat)
<1>1. \E x \in S : \A y \in S : ~ (<<y, x>> \in R)
  BY NatLessThanWellFounded, WFMin
<1>2. \A x, y \in Nat : <<y, x>> \in R <=> y < x
  BY DEF OpToRel
<1> HIDE DEF R
<1>3. PICK x \in S : \A y \in S : ~ (<<y, x>> \in R)
  BY <1>1
<1>4. ASSUME NEW y \in S PROVE x <= y
  <2>1. ~ (y < x)
    BY <1>2, <1>3
  <2> QED BY <2>1
<1> QED BY <1>4

\* Reducing modulo n what is less than twice n.
LEMMA ModTwice ==
    ASSUME NEW n \in Nat \ {0}, NEW a \in 0..(2 * n - 1)
    PROVE  a % n = IF a < n THEN a ELSE a - n
<1>1. CASE a < n
  BY <1>1
<1>2. CASE a >= n
  <2>1. a = n * 1 + (a - n) /\ a - n \in 0..(n - 1)
    BY <1>2
  <2> QED BY <2>1, <1>2
<1> QED BY <1>1, <1>2

\* IndexOf finds the first occurrence, and 0 when there is none.
LEMMA IndexOfCorrect ==
    ASSUME NEW T, NEW s \in Seq(T), NEW v
    PROVE  /\ IndexOf(s, v) \in 0..Len(s)
           /\ IndexOf(s, v) = 0 <=> \A i \in 1..Len(s) : s[i] # v
           /\ IndexOf(s, v) # 0 =>
                /\ s[IndexOf(s, v)] = v
                /\ \A i \in 1..(IndexOf(s, v) - 1) : s[i] # v
<1> DEFINE at == {i \in 1..Len(s) : s[i] = v}
<1>1. at \in SUBSET Nat /\ Len(s) \in Nat
  OBVIOUS
<1>2. CASE at = {}
  BY <1>1, <1>2 DEF IndexOf
<1>3. CASE at # {}
  <2>1. \E i \in at : \A j \in at : i <= j
    BY <1>1, <1>3, LeastExists
  <2>2. IndexOf(s, v) \in at /\ \A j \in at : IndexOf(s, v) <= j
    BY <2>1, <1>3 DEF IndexOf
  <2> QED BY <2>2, <1>1
<1> QED BY <1>2, <1>3

\* Where the turn comes to, counted from start.
LEMMA TurnWraps ==
    ASSUME NEW n \in Nat \ {0}, NEW start \in 0..n, NEW off \in 0..(n - 1)
    PROVE  Turn(start, off, n) =
              IF start + off < n THEN start + off + 1 ELSE start + off - n + 1
<1> DEFINE a == start + off
<1>1. a \in 0..(2 * n - 1)
  OBVIOUS
<1>2. a % n = IF a < n THEN a ELSE a - n
  <2> HIDE DEF a
  <2> QED BY <1>1, ModTwice
<1> QED BY <1>1, <1>2 DEF Turn

\* Every place on the stage gets a turn.
LEMMA TurnReachesAll ==
    ASSUME NEW n \in Nat \ {0}, NEW start \in 0..n
    PROVE  /\ \A off \in 0..(n - 1) : Turn(start, off, n) \in 1..n
           /\ \A di \in 1..n : \E off \in 0..(n - 1) : Turn(start, off, n) = di
<1>1. ASSUME NEW off \in 0..(n - 1)
      PROVE  Turn(start, off, n) =
                IF start + off < n THEN start + off + 1 ELSE start + off - n + 1
  BY TurnWraps
<1>2. ASSUME NEW di \in 1..n
      PROVE  \E off \in 0..(n - 1) : Turn(start, off, n) = di
  <2> DEFINE off == IF di - 1 >= start THEN di - 1 - start ELSE di - 1 - start + n
  <2>1. off \in 0..(n - 1)
    OBVIOUS
  <2>2. Turn(start, off, n) = di
    BY <2>1, <1>1
  <2> QED BY <2>1, <2>2
<1> QED BY <1>1, <1>2

\* A row with a playable track has a top one.
LEMMA TopTrackCorrect ==
    ASSUME NEW row \in Seq(BOOLEAN), \E t \in 1..Len(row) : row[t]
    PROVE  /\ TopTrack(row) \in 1..Len(row)
           /\ row[TopTrack(row)]
           /\ \A j \in 1..(TopTrack(row) - 1) : ~row[j]
<1> DEFINE at == {i \in 1..Len(row) : row[i]}
<1>1. at \in SUBSET Nat /\ at # {} /\ Len(row) \in Nat
  OBVIOUS
<1>2. PICK i \in at : \A j \in at : i <= j
  BY <1>1, LeastExists
<1>3. ASSUME NEW j \in 1..(i - 1) PROVE ~row[j]
  <2>1. j \in 1..Len(row) /\ ~(i <= j)
    BY <1>1, <1>2
  <2> QED BY <2>1, <1>2
<1> QED BY <1>2, <1>3 DEF TopTrack

\* fairNext returns a playable slot whenever any DJ of the stage offers one,
\* (-1, -1) otherwise; the slot is the top playable track of its DJ, and no
\* DJ whose turn came earlier, counting from the one after lastDJ, offered
\* anything.
THEOREM FairNextIsFair ==
    ASSUME NEW D, NEW djPks \in Seq(D), NEW lastDJ,
           NEW playable \in Seq(Seq(BOOLEAN))
    PROVE  LET n == Len(djPks)
               slot == FairNext(djPks, lastDJ, playable)
               start == IndexOf(djPks, lastDJ)
           IN  /\ slot = NoSlot <=> \A di \in 1..n : ~Offers(playable, di)
               /\ slot # NoSlot => \E off \in 0..(n - 1) :
                     /\ slot[1] = Turn(start, off, n)
                     /\ slot[1] \in 1..n
                     /\ slot[2] \in 1..Len(playable[slot[1]])
                     /\ playable[slot[1]][slot[2]]
                     /\ \A t \in 1..(slot[2] - 1) : ~playable[slot[1]][t]
                     /\ \A p \in 0..(off - 1) : ~Offers(playable, Turn(start, p, n))
<1> DEFINE n == Len(djPks)
           start == IndexOf(djPks, lastDJ)
           turns == OfferingTurns(djPks, lastDJ, playable)
           slot == FairNext(djPks, lastDJ, playable)
           IsTop(r, i) == /\ i \in 1..Len(r)
                          /\ r[i]
                          /\ \A t \in 1..(i - 1) : ~r[t]
           Found(o) ==
              /\ slot[1] = Turn(start, o, n)
              /\ slot[1] \in 1..n
              /\ IsTop(playable[slot[1]], slot[2])
              /\ \A p \in 0..(o - 1) : ~Offers(playable, Turn(start, p, n))
<1> SUFFICES /\ slot = NoSlot <=> \A di \in 1..n : ~Offers(playable, di)
             /\ slot # NoSlot => \E off \in 0..(n - 1) : Found(off)
  OBVIOUS
<1>1. n \in Nat /\ start \in 0..n
  BY IndexOfCorrect
<1>2. turns \in SUBSET Nat /\ turns \in SUBSET (0..(n - 1))
  BY <1>1 DEF OfferingTurns
<1>3. turns = {} <=> \A di \in 1..n : ~Offers(playable, di)
  <2>1. CASE n = 0
    BY <2>1, <1>1 DEF OfferingTurns
  <2>2. CASE n # 0
    <3>1. /\ \A off \in 0..(n - 1) : Turn(start, off, n) \in 1..n
          /\ \A di \in 1..n : \E off \in 0..(n - 1) : Turn(start, off, n) = di
      BY <1>1, <2>2, TurnReachesAll
    <3>2. turns = {off \in 0..(n - 1) : Offers(playable, Turn(start, off, n))}
      BY DEF OfferingTurns
    <3> HIDE DEF turns, start, n
    <3> QED BY <3>1, <3>2
  <2> QED BY <2>1, <2>2
<1>4. CASE turns = {}
  <2>1. slot = NoSlot
    BY <1>4 DEF FairNext
  <2> QED BY <1>3, <1>4, <2>1
<1>5. CASE turns # {}
  <2> DEFINE off == CHOOSE o \in turns : \A p \in turns : o <= p
             di == Turn(start, off, n)
             row == playable[di]
             ti == TopTrack(row)
  <2>1. off \in turns /\ \A p \in turns : off <= p
    BY <1>2, <1>5, LeastExists
  <2>2. slot = <<di, ti>>
    BY <1>5 DEF FairNext
  <2>3. off \in 0..(n - 1) /\ Offers(playable, di)
    BY <2>1 DEF OfferingTurns
  <2>4. \A p \in 0..(off - 1) : ~Offers(playable, Turn(start, p, n))
    <3> SUFFICES ASSUME NEW p \in 0..(off - 1), Offers(playable, Turn(start, p, n))
                 PROVE  FALSE
      OBVIOUS
    <3>1. p \in turns /\ p < off
      BY <2>3, <1>1 DEF OfferingTurns
    <3> HIDE DEF turns, off
    <3> QED BY <2>1, <2>3, <3>1
  <2>5. di \in 1..n
    BY <2>3, <1>1, TurnReachesAll
  <2>6. row \in Seq(BOOLEAN)
    BY <2>3, <2>5, <1>1 DEF Offers
  <2>7. IsTop(row, ti)
    BY <2>3, <2>6, TopTrackCorrect DEF Offers
  <2>8. slot # NoSlot
    <3> HIDE DEF di, ti, slot, n
    <3>1. di # 0
      BY <2>5, <1>1
    <3> QED BY <2>2, <3>1 DEF NoSlot
  <2>9. ~(\A d \in 1..n : ~Offers(playable, d))
    BY <1>3, <1>5
  <2>10. slot[1] = di /\ slot[2] = ti
    BY <2>2
  <2>11. Found(off)
    <3>1. IsTop(playable[slot[1]], slot[2])
      BY <2>7, <2>10
    <3>2. slot[1] = Turn(start, off, n)
      BY <2>10
    <3>3. slot[1] \in 1..n
      BY <2>5, <2>10
    <3> HIDE DEF slot, di, ti, off, n, start, turns, IsTop
    <3> QED BY <3>1, <3>2, <3>3, <2>4
  <2> HIDE DEF slot, di, ti, off, n, start, turns, Found
  <2> QED BY <2>3, <2>8, <2>9, <2>11
<1> QED BY <1>4, <1>5

=============================================================================
