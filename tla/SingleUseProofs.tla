--------------------------- MODULE SingleUseProofs ---------------------------
(***************************************************************************)
(* What the relay accepts once it accepts once, for every set of requests  *)
(* and connections, and all durations that keep an id for longer than its  *)
(* request can be fresh.                                                   *)
(***************************************************************************)
EXTENDS SingleUse, SequenceTheorems, TLAPS

\* A request at a step is of the kind the step handles.
Kind(w) ==
    /\ w.step \in {"hooks", "reserve", "stage"} => w.req \in Sessions
    /\ w.step \in {"spend", "join"} => w.req \in Joins
    /\ w.step \in {"nonce", "renew"} => w.req \in Tokens
    /\ w.step = "renew" => NonceId[w.req] # NoId

\* The request was found fresh at most MaxPause ago.
Prompt(w) ==
    w.step \in {"reserve", "nonce"} => w.read <= now /\ now <= w.read + MaxPause

\* The request was fresh when the clock was read.
ReadFresh(w) ==
    /\ w.step = "reserve" =>
        w.read - MaxPast <= CreatedAt[w.req] /\ CreatedAt[w.req] <= w.read + MaxFuture
    /\ w.step = "nonce" =>
        w.read - MaxSkew <= CreatedAt[w.req] /\ CreatedAt[w.req] <= w.read + MaxSkew

GoodWork(w) == w \in Work /\ Kind(w) /\ Prompt(w) /\ ReadFresh(w)

Base == TypeOK /\ \A c \in Conns : GoodWork(conn[c])

\* After this time no connection that found the request fresh is still about
\* to look it up.
LastUse(s) == CreatedAt[s] + MaxPast + MaxPause
LastShown(t) == CreatedAt[t] + MaxSkew + MaxPause

AtStage(s) == \E c \in Conns : conn[c].step = "stage" /\ conn[c].req = s

\* What keeps a second delivery of a session event out.
Reserved(s) == Holds(replay, s) \/ now > LastUse(s)

Distinct(list) == \A i, j \in DOMAIN list : list[i].id = list[j].id => i = j

\* The records of the cache, the events at the stage gate, and the accepted ones.
SessionInv ==
    /\ Distinct(replay)
    /\ \A rec \in Range(replay) :
        rec.expiry > LastUse(rec.id) /\ (accepted[rec.id] = 1 \/ AtStage(rec.id))
    /\ \A s \in Sessions : accepted[s] = 1 \/ AtStage(s) => Reserved(s)
    /\ \A s \in Sessions : accepted[s] \in {0, 1} /\ (AtStage(s) => accepted[s] = 0)
    /\ \A c, d \in Conns :
        conn[c].step = "stage" /\ conn[d].step = "stage" /\ conn[c].req = conn[d].req => c = d

\* The record of an id that one token names is kept for as long as that is shown.
TokenInv ==
    \A t \in Tokens : Identified(t) =>
        /\ \A n \in Found(t) : n.expiry > LastShown(t)
        /\ \A c \in Conns : conn[c].step = "renew" => conn[c].req # t
        /\ accepted[t] \in {0, 1}
        /\ accepted[t] = 1 => Found(t) # {} \/ now > LastShown(t)

\* A connection about to join with a receipt has it for itself.
ReceiptInv ==
    /\ \A r \in Receipts : admitted[r] \in {0, 1} /\ (admitted[r] = 1 => r \in used)
    /\ \A c \in Conns : conn[c].step = "join" =>
        ReceiptOf[conn[c].req] \in used /\ admitted[ReceiptOf[conn[c].req]] = 0
    /\ \A c, d \in Conns :
        /\ conn[c].step = "join" /\ conn[d].step = "join"
        /\ ReceiptOf[conn[c].req] = ReceiptOf[conn[d].req]
        => c = d

IInv == Base /\ SessionInv /\ TokenInv /\ ReceiptInv

LEMMA ConstantTypes ==
    /\ MaxPast \in Nat /\ MaxFuture \in Nat /\ ReplayWindow \in Nat /\ ReplayMax \in Nat
    /\ MaxSkew \in Nat /\ NonceLife \in Nat /\ MaxPause \in Nat /\ MaxTime \in Nat
    /\ \A r \in Requests : CreatedAt[r] \in Int
    /\ \A t \in Tokens : NonceId[t] # NoId => NonceId[t] \in NonceIds
BY SingleUseAssumption

-----------------------------------------------------------------------------
(* The replay cache as a list.                                             *)

\* Dropping from the front keeps what stands behind.
LEMMA SuffixOfList ==
    ASSUME NEW list \in Seq(Records), NEW k \in 0..Len(list), Distinct(list)
    PROVE  LET kept == SubSeq(list, k + 1, Len(list))
           IN  /\ kept \in Seq(Records) /\ Len(kept) = Len(list) - k /\ Distinct(kept)
               /\ \A i \in 1..Len(kept) : kept[i] = list[k + i]
<1> DEFINE kept == SubSeq(list, k + 1, Len(list))
<1>1. \A i \in k + 1 .. Len(list) : list[i] \in Records
  BY ElementOfSeq
<1>2. kept \in Seq(Records) /\ Len(kept) = Len(list) - k
  BY <1>1, SubSeqProperties
<1>3. \A i \in 1..Len(kept) : kept[i] = list[k + i]
  BY <1>1, <1>2, SubSeqProperties
<1> HIDE DEF kept
<1>4. Distinct(kept)
  <2> SUFFICES ASSUME NEW i \in 1..Len(kept), NEW j \in 1..Len(kept),
                      kept[i].id = kept[j].id
               PROVE  i = j
    BY <1>2, LenProperties DEF Distinct
  <2>1. k + i \in 1..Len(list) /\ k + j \in 1..Len(list)
    BY <1>2
  <2>2. list[k + i].id = list[k + j].id
    BY <1>3
  <2>3. k + i = k + j
    BY <2>1, <2>2, LenProperties DEF Distinct
  <2> QED BY <2>3
<1> QED BY <1>2, <1>3, <1>4 DEF kept

LEMMA RangeOfList ==
    ASSUME NEW list \in Seq(Records)
    PROVE  /\ Range(list) \subseteq Records
           /\ \A rec : rec \in Range(list) <=> \E i \in 1..Len(list) : list[i] = rec
           /\ \A s : Holds(list, s) <=> \E rec \in Range(list) : rec.id = s
<1>1. DOMAIN list = 1..Len(list) /\ \A i \in 1..Len(list) : list[i] \in Records
  BY ElementOfSeq, LenProperties
<1> QED BY <1>1 DEF Range, Holds

\* What pruning drops has expired.
LEMMA PrunedList ==
    ASSUME replay \in Seq(Records), Distinct(replay), NEW t, NEW kept, Pruned(t, kept)
    PROVE  /\ kept \in Seq(Records) /\ Len(kept) <= Len(replay) /\ Distinct(kept)
           /\ Range(kept) \subseteq Range(replay)
           /\ \A rec \in Range(replay) : Expired(rec, t) \/ rec \in Range(kept)
<1>1. PICK k \in 0..Len(replay) :
        /\ \A i \in 1..k : Expired(replay[i], t)
        /\ kept = SubSeq(replay, k + 1, Len(replay))
  BY DEF Pruned
<1>2. /\ kept \in Seq(Records) /\ Len(kept) = Len(replay) - k /\ Distinct(kept)
      /\ \A i \in 1..Len(kept) : kept[i] = replay[k + i]
  BY <1>1, SuffixOfList
<1>3. Len(kept) <= Len(replay)
  BY <1>2, <1>1
<1>4. Range(kept) \subseteq Range(replay)
  <2> SUFFICES ASSUME NEW i \in 1..Len(kept) PROVE kept[i] \in Range(replay)
    BY <1>2, RangeOfList
  <2>1. k + i \in 1..Len(replay)
    BY <1>2
  <2> QED BY <1>2, <2>1, RangeOfList
<1>5. ASSUME NEW rec \in Range(replay) PROVE Expired(rec, t) \/ rec \in Range(kept)
  <2>1. PICK i \in 1..Len(replay) : replay[i] = rec
    BY RangeOfList
  <2>2. CASE i <= k
    BY <1>1, <2>1, <2>2
  <2>3. CASE i > k
    <3>1. i - k \in 1..Len(kept) /\ k + (i - k) = i
      BY <1>2, <2>3
    <3>2. kept[i - k] = rec
      BY <1>2, <2>1, <3>1
    <3> QED BY <1>2, <3>1, <3>2, RangeOfList
  <2> QED BY <2>2, <2>3
<1> QED BY <1>2, <1>3, <1>4, <1>5

\* Removing an id removes the record that has it and no other.
LEMMA WithoutAnId ==
    ASSUME NEW list \in Seq(Records), Distinct(list), NEW s
    PROVE  LET rest == Without(list, s)
           IN  /\ rest \in Seq(Records) /\ Len(rest) <= Len(list) /\ Distinct(rest)
               /\ Range(rest) = {rec \in Range(list) : rec.id # s}
<1> DEFINE rest == Without(list, s)
<1>1. DOMAIN list = 1..Len(list) /\ \A i \in 1..Len(list) : list[i] \in Records
  BY ElementOfSeq, LenProperties
<1>2. CASE ~Holds(list, s)
  <2>1. rest = list
    BY <1>2 DEF Without
  <2>2. \A rec \in Range(list) : rec.id # s
    BY <1>2, RangeOfList
  <2> QED BY <2>1, <2>2
<1>3. CASE Holds(list, s)
  <2> DEFINE p == Position(list, s)
             n == Len(list)
             front == SubSeq(list, 1, p - 1)
             back == SubSeq(list, p + 1, n)
  <2>1. p \in 1..n /\ list[p].id = s
    BY <1>1, <1>3 DEF Holds, Position
  <2>2. rest = front \o back
    BY <1>3 DEF Without, RemoveAt
  <2>3. /\ front \in Seq(Records) /\ Len(front) = p - 1
        /\ \A i \in 1..p - 1 : front[i] = list[i]
    <3>1. \A i \in 1 .. p - 1 : list[i] \in Records
      BY <1>1, <2>1
    <3> QED BY <2>1, <3>1, SubSeqProperties
  <2>4. /\ back \in Seq(Records) /\ Len(back) = n - p
        /\ \A i \in 1..n - p : back[i] = list[p + i]
    <3>1. \A i \in p + 1 .. n : list[i] \in Records
      BY <1>1, <2>1
    <3> HIDE DEF p
    <3>2. p \in Int /\ n \in Nat /\ p <= n
      BY <2>1
    <3> QED BY <3>1, <3>2, SubSeqProperties
  <2> HIDE DEF p, front, back, rest
  <2>5. /\ rest \in Seq(Records) /\ Len(rest) = n - 1
        /\ \A i \in 1..n - 1 : rest[i] = IF i < p THEN list[i] ELSE list[i + 1]
    <3>1. /\ rest \in Seq(Records) /\ Len(rest) = (p - 1) + (n - p)
          /\ \A i \in 1..(p - 1) + (n - p) :
                rest[i] = IF i <= p - 1 THEN front[i] ELSE back[i - (p - 1)]
      <4>1. /\ front \o back \in Seq(Records)
            /\ Len(front \o back) = Len(front) + Len(back)
            /\ \A i \in 1..Len(front) + Len(back) : (front \o back)[i] =
                  IF i <= Len(front) THEN front[i] ELSE back[i - Len(front)]
        BY <2>3, <2>4, ConcatProperties
      <4> QED BY <2>2, <2>3, <2>4, <4>1
    <3>2. ASSUME NEW i \in 1..n - 1
          PROVE  rest[i] = IF i < p THEN list[i] ELSE list[i + 1]
      <4>1. CASE i < p
        BY <2>1, <2>3, <3>1, <4>1
      <4>2. CASE ~(i < p)
        <5>1. i - (p - 1) \in 1..n - p /\ p + (i - (p - 1)) = i + 1
          BY <2>1, <4>2
        <5>2. back[i - (p - 1)] = list[i + 1]
          BY <2>4, <5>1
        <5>3. i \in 1..(p - 1) + (n - p) /\ ~(i <= p - 1)
          BY <2>1, <4>2
        <5> QED BY <3>1, <4>2, <5>2, <5>3
      <4> QED BY <4>1, <4>2
    <3> QED BY <2>1, <3>1, <3>2
  <2>6. Distinct(rest)
    <3> SUFFICES ASSUME NEW i \in 1..n - 1, NEW j \in 1..n - 1, rest[i].id = rest[j].id
                 PROVE  i = j
      BY <2>5 DEF Distinct
    <3> DEFINE at(k) == IF k < p THEN k ELSE k + 1
    <3>1. at(i) \in 1..n /\ at(j) \in 1..n
      BY <2>1
    <3>2. list[at(i)].id = list[at(j)].id
      BY <2>5
    <3>3. at(i) = at(j)
      BY <1>1, <3>1, <3>2 DEF Distinct
    <3> QED BY <2>1, <3>3
  <2>7. ASSUME NEW rec \in Range(rest) PROVE rec \in Range(list) /\ rec.id # s
    <3>1. PICK i \in 1..n - 1 : rest[i] = rec
      BY <2>5, RangeOfList
    <3> DEFINE k == IF i < p THEN i ELSE i + 1
    <3>2. k \in 1..n /\ k # p /\ list[k] = rec
      BY <2>1, <2>5, <3>1
    <3> HIDE DEF k
    <3>3. rec.id # s
      BY <1>1, <2>1, <3>2 DEF Distinct
    <3> QED BY <3>2, <3>3, RangeOfList
  <2>8. ASSUME NEW rec \in Range(list), rec.id # s PROVE rec \in Range(rest)
    <3>1. PICK i \in 1..n : list[i] = rec
      BY RangeOfList
    <3>2. i # p
      BY <2>1, <2>8, <3>1
    <3> DEFINE k == IF i < p THEN i ELSE i - 1
    <3>3. k \in 1..n - 1 /\ rest[k] = rec
      BY <2>1, <2>5, <3>1, <3>2
    <3> QED BY <2>5, <3>3, RangeOfList
  <2> QED BY <2>5, <2>6, <2>7, <2>8 DEF rest
<1> QED BY <1>2, <1>3

\* Appending a record whose id is not in the list.
LEMMA AppendARecord ==
    ASSUME NEW list \in Seq(Records), Distinct(list), NEW rec \in Records,
           \A r \in Range(list) : r.id # rec.id
    PROVE  LET more == Append(list, rec)
           IN  /\ more \in Seq(Records) /\ Len(more) = Len(list) + 1 /\ Distinct(more)
               /\ Range(more) = Range(list) \cup {rec}
<1> DEFINE more == Append(list, rec)
           n == Len(list)
<1>1. /\ more \in Seq(Records) /\ Len(more) = n + 1 /\ more[n + 1] = rec
      /\ \A i \in 1..n : more[i] = list[i]
  BY AppendProperties
<1>2. n \in Nat /\ DOMAIN list = 1..n
  BY LenProperties
<1> HIDE DEF more, n
<1>3. \A i \in 1..n : list[i] \in Range(list)
  BY <1>2 DEF Range
<1>4. Distinct(more)
  <2> SUFFICES ASSUME NEW i \in 1..n + 1, NEW j \in 1..n + 1, more[i].id = more[j].id
               PROVE  i = j
    BY <1>1, <1>2 DEF Distinct
  <2>1. CASE i \in 1..n /\ j \in 1..n
    BY <1>1, <1>2, <2>1 DEF Distinct
  <2>2. CASE i = n + 1 /\ j = n + 1
    BY <2>2
  <2>3. CASE i \in 1..n /\ j = n + 1
    BY <1>1, <1>3, <2>3
  <2>4. CASE i = n + 1 /\ j \in 1..n
    BY <1>1, <1>3, <2>4
  <2> QED BY <1>2, <2>1, <2>2, <2>3, <2>4
<1>5. Range(more) = Range(list) \cup {rec}
  <2>1. \A x : x \in Range(more) <=> \E i \in 1..n + 1 : more[i] = x
    BY <1>1, RangeOfList
  <2>2. \A x : x \in Range(list) <=> \E i \in 1..n : list[i] = x
    BY RangeOfList DEF n
  <2>3. \A i \in 1..n + 1 : i \in 1..n \/ i = n + 1
    BY <1>2
  <2>4. n + 1 \in 1..n + 1 /\ 1..n \subseteq 1..n + 1
    BY <1>2
  <2> QED BY <1>1, <2>1, <2>2, <2>3, <2>4
<1> QED BY <1>1, <1>4, <1>5 DEF more, n

\* rejectReplay: what it drops has expired; it lets an event in only if its id
\* was not there, or had expired, and adds that id alone.
LEMMA ReserveList ==
    ASSUME TypeOK, Distinct(replay), NEW c \in Conns, GoodWork(conn[c]),
           NEW t \in Int, ReserveAt(c, t)
    PROVE  LET s == conn[c].req
               new == [id |-> s, expiry |-> Expiry(t)]
           IN  /\ replay' \in Seq(Records) /\ Len(replay') <= ReplayMax /\ Distinct(replay)'
               /\ \A rec \in Range(replay) : Expired(rec, t) \/ rec \in Range(replay')
               /\ \/ GoesTo(c, Idle) /\ Range(replay') \subseteq Range(replay)
                  \/ /\ GoesTo(c, At(s, "stage"))
                     /\ \A rec \in Range(replay) : rec.id = s => Expired(rec, t)
                     /\ new \in Range(replay')
                     /\ Range(replay') \subseteq Range(replay) \cup {new}
<1> DEFINE s == conn[c].req
           new == [id |-> s, expiry |-> Expiry(t)]
<1>1. PICK kept : /\ Pruned(t, kept)
                  /\ \/ /\ Known(kept, s, t)
                        /\ replay' = kept /\ GoesTo(c, Idle)
                     \/ /\ ~Known(kept, s, t) /\ Full(Without(kept, s))
                        /\ replay' = Without(kept, s) /\ GoesTo(c, Idle)
                     \/ /\ ~Known(kept, s, t) /\ ~Full(Without(kept, s))
                        /\ replay' = Append(Without(kept, s), new)
                        /\ GoesTo(c, At(s, "stage"))
  BY DEF ReserveAt
<1> DEFINE rest == Without(kept, s)
<1>2. new \in Records /\ conn[c].step = "reserve" /\ ReplayMax \in Nat
  <2>1. conn[c].step = "reserve"
    BY DEF ReserveAt
  <2>2. s \in Sessions
    BY <2>1 DEF GoodWork, Kind, Work, Idle
  <2>3. ReplayWindow \in Nat /\ ReplayMax \in Nat
    BY ConstantTypes
  <2> QED BY <2>1, <2>2, <2>3 DEF Records, Expiry
<1>3. replay \in Seq(Records) /\ Len(replay) <= ReplayMax
  BY DEF TypeOK
<1>4. /\ kept \in Seq(Records) /\ Len(kept) <= Len(replay) /\ Distinct(kept)
      /\ Range(kept) \subseteq Range(replay)
      /\ \A rec \in Range(replay) : Expired(rec, t) \/ rec \in Range(kept)
  BY <1>1, <1>3, PrunedList
<1>5. /\ rest \in Seq(Records) /\ Len(rest) <= Len(kept) /\ Distinct(rest)
      /\ Range(rest) = {rec \in Range(kept) : rec.id # s}
  BY <1>4, WithoutAnId
<1> HIDE DEF s, new, rest
<1>6. ~Known(kept, s, t) => \A rec \in Range(kept) : rec.id = s => Expired(rec, t)
  BY DEF Known, Range
<1>7. Len(kept) \in Nat /\ Len(rest) \in Nat /\ Len(replay) \in Nat
  BY <1>3, <1>4, <1>5, LenProperties
<1>8. CASE replay' = kept /\ GoesTo(c, Idle)
  <2>1. Len(replay') <= ReplayMax
    BY <1>2, <1>3, <1>4, <1>7, <1>8
  <2> QED BY <1>4, <1>8, <2>1 DEF Distinct, s, new
<1>9. CASE ~Known(kept, s, t) /\ replay' = rest /\ GoesTo(c, Idle)
  <2>1. Len(replay') <= ReplayMax
    BY <1>2, <1>3, <1>4, <1>5, <1>7, <1>9
  <2>2. \A rec \in Range(replay) : Expired(rec, t) \/ rec \in Range(replay')
    BY <1>4, <1>5, <1>6, <1>9
  <2>3. Distinct(replay)' /\ Range(replay') \subseteq Range(replay)
    BY <1>4, <1>5, <1>9 DEF Distinct
  <2> QED BY <1>5, <1>9, <2>1, <2>2, <2>3 DEF s, new
<1>10. CASE /\ ~Known(kept, s, t) /\ ~Full(rest)
            /\ replay' = Append(rest, new) /\ GoesTo(c, At(s, "stage"))
  <2>1. \A rec \in Range(rest) : rec.id # new.id
    BY <1>5 DEF new
  <2>2. /\ replay' \in Seq(Records) /\ Len(replay') = Len(rest) + 1
        /\ Distinct(replay)' /\ Range(replay') = Range(rest) \cup {new}
    <3>1. LET more == Append(rest, new)
          IN  /\ more \in Seq(Records) /\ Len(more) = Len(rest) + 1 /\ Distinct(more)
              /\ Range(more) = Range(rest) \cup {new}
      BY <1>2, <1>5, <2>1, AppendARecord
    <3> QED BY <1>10, <3>1 DEF Distinct
  <2>3. Len(replay') <= ReplayMax
    BY <1>2, <1>7, <1>10, <2>2 DEF Full
  <2>4. \A rec \in Range(replay) : Expired(rec, t) \/ rec \in Range(replay')
    BY <1>4, <1>5, <1>6, <1>10, <2>2
  <2>5. \A rec \in Range(replay) : rec.id = s => Expired(rec, t)
    BY <1>4, <1>6, <1>10
  <2>6. new \in Range(replay') /\ Range(replay') \subseteq Range(replay) \cup {new}
    BY <1>4, <1>5, <2>2
  <2> QED BY <1>10, <2>2, <2>3, <2>4, <2>5, <2>6 DEF s, new
<1> QED BY <1>1, <1>8, <1>9, <1>10 DEF rest, s, new

-----------------------------------------------------------------------------
(* Types, and the connections.                                             *)

LEMMA Moved ==
    ASSUME Base, NEW c \in Conns, NEW w, GoodWork(w), GoesTo(c, w), now' = now
    PROVE  /\ conn' \in [Conns -> Work]
           /\ conn'[c] = w
           /\ \A d \in Conns : d # c => conn'[d] = conn[d]
           /\ (\A d \in Conns : GoodWork(conn[d]))'
<1>1. conn \in [Conns -> Work] /\ w \in Work
  BY DEF Base, TypeOK, GoodWork
<1>2. conn' \in [Conns -> Work] /\ conn'[c] = w /\ \A d \in Conns : d # c => conn'[d] = conn[d]
  BY <1>1 DEF GoesTo
<1>3. ASSUME NEW d \in Conns PROVE GoodWork(conn'[d])
  BY <1>2 DEF Base
<1>4. ASSUME NEW d \in Conns PROVE GoodWork(conn[d])'
  BY <1>3 DEF GoodWork, Kind, Prompt, ReadFresh
<1> QED BY <1>2, <1>4

LEMMA IdleIsGood == GoodWork(Idle)
BY DEF GoodWork, Idle, Kind, Prompt, ReadFresh, Work

LEMMA AtNow ==
    ASSUME TypeOK, NEW r \in Requests, NEW s \in Steps
    PROVE  /\ At(r, s) \in Work /\ now \in Int
           /\ At(r, s).req = r /\ At(r, s).step = s /\ At(r, s).read = now
BY DEF At, Work, TypeOK

\* What each action moves a connection to.
LEMMA MovesAreGood ==
    ASSUME Base, NEW c \in Conns
    PROVE  /\ \A s \in Sessions : Deliver(c, s) => GoodWork(At(s, "hooks"))
           /\ \A j \in Joins : ShowReceipt(c, j) => GoodWork(At(j, "spend"))
           /\ \A t \in Tokens : PresentToken(c, t) => GoodWork(At(t, "nonce"))
           /\ CheckAgain(c) => GoodWork(At(conn[c].req, "reserve"))
           /\ Reserve(c) => GoodWork(At(conn[c].req, "stage"))
           /\ SpendReceipt(c) => GoodWork(At(conn[c].req, "join"))
<1> USE ConstantTypes DEF Base
<1>0. /\ {"hooks", "reserve", "stage", "spend", "join", "nonce", "renew"} = Steps
      /\ Sessions \subseteq Requests /\ Joins \subseteq Requests /\ Tokens \subseteq Requests
      /\ GoodWork(conn[c])
  BY DEF Steps, Requests
<1>1. ASSUME NEW s \in Sessions PROVE GoodWork(At(s, "hooks"))
  BY <1>0, AtNow DEF GoodWork, Kind, Prompt, ReadFresh
<1>2. ASSUME NEW j \in Joins PROVE GoodWork(At(j, "spend"))
  BY <1>0, AtNow DEF GoodWork, Kind, Prompt, ReadFresh
<1>3. ASSUME NEW t \in Tokens, PresentToken(c, t) PROVE GoodWork(At(t, "nonce"))
  BY <1>0, <1>3, AtNow DEF GoodWork, Kind, Prompt, ReadFresh, PresentToken
<1>4. ASSUME CheckAgain(c) PROVE GoodWork(At(conn[c].req, "reserve"))
  <2>1. conn[c].req \in Sessions
    BY <1>0, <1>4 DEF CheckAgain, GoodWork, Kind
  <2> QED BY <1>0, <1>4, <2>1, AtNow DEF GoodWork, Kind, Prompt, ReadFresh, CheckAgain, Fresh
<1>5. ASSUME Reserve(c) PROVE GoodWork(At(conn[c].req, "stage"))
  <2>1. conn[c].req \in Sessions
    <3>1. conn[c].step = "reserve"
      BY <1>5 DEF Reserve, ReserveAt
    <3> QED BY <1>0, <3>1 DEF GoodWork, Kind
  <2> QED BY <1>0, <2>1, AtNow DEF GoodWork, Kind, Prompt, ReadFresh
<1>6. ASSUME SpendReceipt(c) PROVE GoodWork(At(conn[c].req, "join"))
  <2>1. conn[c].req \in Joins
    BY <1>0, <1>6 DEF SpendReceipt, GoodWork, Kind
  <2> QED BY <1>0, <2>1, AtNow DEF GoodWork, Kind, Prompt, ReadFresh
<1> QED BY <1>1, <1>2, <1>3, <1>4, <1>5, <1>6

\* What the two steps of adminNonceSeen move a connection to.
LEMMA NonceMoves ==
    ASSUME Base, NEW c \in Conns, CheckNonce(c) \/ RenewNonce(c)
    PROVE  \E w : GoodWork(w) /\ w.step \in {"idle", "renew"} /\ GoesTo(c, w)
<1>1. Idle.step = "idle" /\ GoodWork(Idle)
  BY IdleIsGood DEF Idle
<1>2. ASSUME NEW read \in conn[c].read .. now,
             GoesTo(c, [req |-> conn[c].req, step |-> "renew", read |-> read]), CheckNonce(c)
      PROVE  GoodWork([req |-> conn[c].req, step |-> "renew", read |-> read])
  <2>1. conn[c].req \in Tokens /\ conn[c].req \in Requests
    BY <1>2 DEF CheckNonce, Base, GoodWork, Kind, Requests
  <2>2. read \in Int
    BY DEF Base, GoodWork, Work, Idle, TypeOK
  <2>3. NonceId[conn[c].req] # NoId
    BY <1>2, SingleUseAssumption DEF CheckNonce, Found, Base, TypeOK, NonceRecords, GoesTo,
       Idle
  <2> QED BY <2>1, <2>2, <2>3 DEF GoodWork, Kind, Prompt, ReadFresh, Work, Steps
<1> QED BY <1>1, <1>2 DEF CheckNonce, RenewNonce

LEMMA BaseStep ==
    ASSUME IInv, [Next]_vars
    PROVE  Base'
<1> USE ConstantTypes DEF IInv, Base
<1>1. /\ now \in 0..MaxTime /\ conn \in [Conns -> Work]
      /\ replay \in Seq(Records) /\ Len(replay) <= ReplayMax
      /\ used \subseteq Receipts /\ nonces \subseteq NonceRecords
      /\ paid \in [Receipts -> Int]
      /\ accepted \in [Requests -> Nat] /\ admitted \in [Receipts -> Nat]
      /\ \A c \in Conns : GoodWork(conn[c])
  BY DEF TypeOK
<1>2. ASSUME NEW c \in Conns, NEW w, GoodWork(w), GoesTo(c, w), now' = now,
             UNCHANGED <<memory, paid, accepted, admitted>>
      PROVE  Base'
  BY <1>1, <1>2, Moved DEF TypeOK, memory
<1>3. ASSUME NEW c \in Conns, NEW s \in Sessions, Deliver(c, s) PROVE Base'
  BY <1>2, <1>3, MovesAreGood DEF Deliver
<1>4. ASSUME NEW c \in Conns, NEW j \in Joins, ShowReceipt(c, j) PROVE Base'
  BY <1>2, <1>4, MovesAreGood DEF ShowReceipt
<1>5. ASSUME NEW c \in Conns, NEW t \in Tokens, PresentToken(c, t) PROVE Base'
  BY <1>2, <1>5, MovesAreGood DEF PresentToken
<1>6. ASSUME NEW c \in Conns, Refuse(c) \/ RefuseJoin(c) PROVE Base'
  BY <1>2, <1>6, IdleIsGood DEF Refuse, RefuseJoin
<1>7. ASSUME NEW c \in Conns, CheckAgain(c) PROVE Base'
  BY <1>2, <1>7, MovesAreGood DEF CheckAgain
<1>8. ASSUME NEW c \in Conns, Reserve(c) PROVE Base'
  <2>0. PICK t \in conn[c].read .. now : ReserveAt(c, t)
    BY <1>8 DEF Reserve
  <2>1. replay' \in Seq(Records) /\ Len(replay') <= ReplayMax
    <3>1. t \in Int
      BY <1>1 DEF GoodWork, Work, Idle
    <3> QED BY <1>1, <2>0, <3>1, ReserveList DEF SessionInv
  <2>2. PICK w : GoodWork(w) /\ GoesTo(c, w)
    BY <1>8, <2>0, IdleIsGood, MovesAreGood DEF ReserveAt
  <2>3. UNCHANGED <<now, used, nonces, paid, accepted, admitted>>
    BY <2>0 DEF ReserveAt
  <2> QED BY <1>1, <2>1, <2>2, <2>3, Moved DEF TypeOK
<1>9. ASSUME NEW c \in Conns, StageAdmits(c) PROVE Base'
  <2>1. accepted' \in [Requests -> Nat]
    <3>1. conn[c].req \in Requests
      BY <1>1, <1>9 DEF StageAdmits, GoodWork, Kind, Requests
    <3> QED BY <1>1, <1>9, <3>1 DEF StageAdmits, Accept
  <2>2. GoodWork(Idle) /\ GoesTo(c, Idle) /\ UNCHANGED <<now, memory, paid, admitted>>
    BY <1>9, IdleIsGood DEF StageAdmits
  <2> QED BY <1>1, <2>1, <2>2, Moved DEF TypeOK, memory
<1>10. ASSUME NEW c \in Conns, StageRefuses(c) PROVE Base'
  <2>1. /\ replay' = Without(replay, conn[c].req)
        /\ GoesTo(c, Idle) /\ UNCHANGED <<now, used, nonces, paid, accepted, admitted>>
    BY <1>10 DEF StageRefuses
  <2>2. replay' \in Seq(Records) /\ Len(replay') <= Len(replay)
    BY <1>1, <2>1, WithoutAnId DEF SessionInv
  <2>3. Len(replay') <= ReplayMax
    BY <1>1, <2>2, LenProperties
  <2> QED BY <1>1, <2>1, <2>2, <2>3, IdleIsGood, Moved DEF TypeOK
<1>11. ASSUME NEW c \in Conns, SpendReceipt(c) PROVE Base'
  <2>1. conn[c].req \in Joins
    BY <1>1, <1>11 DEF SpendReceipt, GoodWork, Kind
  <2>2. used' \subseteq Receipts
    BY <1>1, <1>11, <2>1, SingleUseAssumption DEF SpendReceipt, UseKey
  <2>3. PICK w : GoodWork(w) /\ GoesTo(c, w)
    BY <1>11, IdleIsGood, MovesAreGood DEF SpendReceipt
  <2>4. UNCHANGED <<now, replay, nonces, paid, accepted, admitted>>
    BY <1>11 DEF SpendReceipt
  <2> QED BY <1>1, <2>2, <2>3, <2>4, Moved DEF TypeOK
<1>12. ASSUME NEW c \in Conns, Join(c) PROVE Base'
  <2>1. accepted' \in [Requests -> Nat] /\ admitted' \in [Receipts -> Nat]
    <3>1. conn[c].req \in Joins /\ conn[c].req \in Requests
      BY <1>1, <1>12 DEF Join, GoodWork, Kind, Requests
    <3>2. ReceiptOf[conn[c].req] \in Receipts
      BY <3>1, SingleUseAssumption
    <3> QED BY <1>1, <1>12, <3>1, <3>2 DEF Join, Accept
  <2>2. GoesTo(c, Idle) /\ UNCHANGED <<now, memory, paid>>
    BY <1>12 DEF Join
  <2> QED BY <1>1, <2>1, <2>2, IdleIsGood, Moved DEF TypeOK, memory
<1>13. ASSUME NEW c \in Conns, CheckNonce(c) \/ RenewNonce(c) PROVE Base'
  <2>1. /\ conn[c].step \in {"nonce", "renew"}
        /\ UNCHANGED <<now, replay, used, paid, admitted>>
    BY <1>13 DEF CheckNonce, RenewNonce
  <2>2. conn[c].req \in Tokens /\ conn[c].req \in Requests
    BY <1>1, <2>1 DEF GoodWork, Kind, Requests
  <2>3. conn[c].read \in Int
    BY <1>1 DEF GoodWork, Work, Idle
  <2>4. nonces' \subseteq NonceRecords
    <3>1. \A read \in Int : NonceId[conn[c].req] # NoId =>
            NonceOf(conn[c].req, read) \in NonceRecords
      BY <2>2 DEF NonceOf, NonceRecords
    <3>2. CASE CheckNonce(c)
      <4>1. \A read \in conn[c].read .. now : read \in Int
        BY <1>1, <2>3
      <4> QED BY <1>1, <3>1, <3>2, <4>1 DEF CheckNonce
    <3>3. CASE RenewNonce(c)
      <4>1. NonceId[conn[c].req] # NoId
        BY <1>1, <3>3 DEF RenewNonce, GoodWork, Kind
      <4> QED BY <1>1, <2>3, <3>1, <3>3, <4>1 DEF RenewNonce
    <3> QED BY <1>13, <3>2, <3>3
  <2>5. accepted' \in [Requests -> Nat]
    <3>1. UNCHANGED accepted \/ Accept(conn[c].req)
      BY <1>13 DEF CheckNonce, RenewNonce
    <3>2. \A r \in Requests : [accepted EXCEPT ![r] = IF @ = 0 THEN 1 ELSE 2] \in [Requests -> Nat]
      BY <1>1
    <3> QED BY <1>1, <2>2, <3>1, <3>2 DEF Accept
  <2>6. PICK w : GoodWork(w) /\ GoesTo(c, w)
    BY <1>13, NonceMoves
  <2> QED BY <1>1, <2>1, <2>4, <2>5, <2>6, Moved DEF TypeOK
<1>14. ASSUME NEW r \in Receipts, Pay(r) PROVE Base'
  BY <1>1, <1>14 DEF Pay, TypeOK, GoodWork, Kind, Prompt, ReadFresh, memory
<1>15. ASSUME PruneNonces PROVE Base'
  BY <1>1, <1>15 DEF PruneNonces, TypeOK, GoodWork, Kind, Prompt, ReadFresh
<1>16. ASSUME Tick PROVE Base'
  <2>1. /\ now' = now + 1 /\ now < MaxTime
        /\ UNCHANGED <<conn, memory, paid, accepted, admitted>>
        /\ \A c \in Conns :
              conn[c].step \in {"reserve", "nonce"} => now < conn[c].read + MaxPause
    BY <1>16 DEF Tick
  <2>2. now' \in 0..MaxTime
    BY <1>1, <2>1
  <2>3. ASSUME NEW c \in Conns PROVE GoodWork(conn[c])'
    <3>1. conn[c].read \in Int
      BY <1>1 DEF Work, Idle
    <3>2. Prompt(conn[c])'
      BY <1>1, <2>1, <3>1 DEF GoodWork, Prompt
    <3> QED BY <1>1, <2>1, <3>2 DEF GoodWork, Kind, ReadFresh
  <2> QED BY <1>1, <2>1, <2>2, <2>3 DEF TypeOK, memory
<1>17. ASSUME Restart PROVE Base'
  <2>1. <<>> \in Seq(Records) /\ Len(<<>>) = 0
    OBVIOUS
  <2>2. \A c \in Conns : conn'[c] = Idle
    BY <1>17 DEF Restart
  <2>3. conn' \in [Conns -> Work]
    BY <1>17 DEF Restart, Work
  <2>4. \A c \in Conns : GoodWork(conn[c])'
    BY <2>2 DEF GoodWork, Kind, Prompt, ReadFresh, Work, Idle
  <2> QED BY <1>1, <1>17, <2>1, <2>3, <2>4 DEF TypeOK, Restart
<1>18. CASE UNCHANGED vars
  BY <1>1, <1>18 DEF TypeOK, GoodWork, Kind, Prompt, ReadFresh, vars, memory
<1> QED BY <1>3, <1>4, <1>5, <1>6, <1>7, <1>8, <1>9, <1>10, <1>11, <1>12, <1>13, <1>14,
           <1>15, <1>16, <1>17, <1>18 DEF Next

-----------------------------------------------------------------------------
(* Session events.                                                         *)

LEMMA SessionStep ==
    ASSUME IInv, [Next]_vars
    PROVE  SessionInv'
<1> USE ConstantTypes
<1>1. Base /\ Base' /\ TypeOK /\ TypeOK' /\ SessionInv
  BY BaseStep DEF IInv, Base
<1>2. /\ replay \in Seq(Records) /\ replay' \in Seq(Records)
      /\ now \in Int /\ now' \in Int
      /\ accepted \in [Requests -> Nat] /\ Sessions \subseteq Requests
      /\ \A s \in Sessions : LastUse(s) \in Int
      /\ Range(replay) \subseteq Records /\ Range(replay') \subseteq Records
      /\ \A rec \in Records : rec.id \in Sessions /\ rec.expiry \in Int
  <2>1. replay \in Seq(Records) /\ replay' \in Seq(Records)
    BY <1>1 DEF TypeOK
  <2>2. Range(replay) \subseteq Records /\ Range(replay') \subseteq Records
    BY <2>1, RangeOfList
  <2>3. \A s \in Sessions : s \in Requests /\ LastUse(s) \in Int
    BY DEF LastUse, Requests
  <2> QED BY <1>1, <2>1, <2>2, <2>3 DEF TypeOK, Records
<1>3. /\ \A s : Holds(replay, s) <=> \E rec \in Range(replay) : rec.id = s
      /\ \A s : Holds(replay', s) <=> \E rec \in Range(replay') : rec.id = s
  BY <1>2, RangeOfList
\* Actions that leave the cache and the stage gate alone.
<1>4. ASSUME replay' = replay, now' >= now,
             \A s \in Sessions : accepted'[s] = accepted[s],
             \A c \in Conns : conn[c].step = "stage" \/ conn'[c].step = "stage"
                              => conn'[c] = conn[c]
      PROVE  SessionInv'
  <2>1. \A s : AtStage(s)' <=> AtStage(s)
    BY <1>4 DEF AtStage
  <2>2. \A s \in Sessions : Reserved(s) => Reserved(s)'
    BY <1>2, <1>4 DEF Reserved, LastUse
  <2>3. \A s \in Sessions : LastUse(s)' = LastUse(s)
    BY DEF LastUse
  <2> QED BY <1>1, <1>2, <1>4, <2>1, <2>2, <2>3 DEF SessionInv, Distinct
<1>5. ASSUME NEW c \in Conns, NEW w, GoodWork(w), GoesTo(c, w), now' = now,
             replay' = replay, \A s \in Sessions : accepted'[s] = accepted[s],
             conn[c].step # "stage", w.step # "stage"
      PROVE  SessionInv'
  BY <1>1, <1>2, <1>4, <1>5, Moved
<1>6. ASSUME NEW c \in Conns, Reserve(c) PROVE SessionInv'
  <2>0. PICK t \in conn[c].read .. now : ReserveAt(c, t)
    BY <1>6 DEF Reserve
  <2> DEFINE s == conn[c].req
             new == [id |-> s, expiry |-> Expiry(t)]
  <2>1. conn[c].step = "reserve" /\ UNCHANGED <<now, accepted>>
    BY <2>0 DEF ReserveAt
  <2>2. /\ s \in Sessions /\ t \in Int /\ t <= now
        /\ now - MaxPause - MaxPast <= CreatedAt[s] /\ CreatedAt[s] <= t + MaxFuture
        /\ CreatedAt[s] \in Int
    <3>1. GoodWork(conn[c])
      BY <1>1 DEF Base
    <3>2. conn[c].req \in Sessions /\ conn[c].read \in Int
      BY <2>1, <3>1 DEF GoodWork, Kind, Work, Idle
    <3>3. /\ conn[c].read <= now /\ now <= conn[c].read + MaxPause
          /\ conn[c].read - MaxPast <= CreatedAt[s] /\ CreatedAt[s] <= conn[c].read + MaxFuture
          /\ CreatedAt[s] \in Int
      BY <2>1, <3>1, <3>2 DEF GoodWork, Prompt, ReadFresh, Requests
    <3>4. t \in Int /\ conn[c].read <= t /\ t <= now
      BY <1>2, <2>0, <3>2
    <3> HIDE DEF s
    <3>5. CreatedAt[s] <= t + MaxFuture /\ now - MaxPause - MaxPast <= CreatedAt[s]
      <4>1. now \in Int
        BY <1>2
      <4> QED BY <3>2, <3>3, <3>4, <4>1
    <3> QED BY <3>2, <3>3, <3>4, <3>5 DEF s
  <2>3. /\ Distinct(replay)'
        /\ \A rec \in Range(replay) : Expired(rec, t) \/ rec \in Range(replay')
        /\ \/ GoesTo(c, Idle) /\ Range(replay') \subseteq Range(replay)
           \/ /\ GoesTo(c, At(s, "stage"))
              /\ \A rec \in Range(replay) : rec.id = s => Expired(rec, t)
              /\ new \in Range(replay')
              /\ Range(replay') \subseteq Range(replay) \cup {new}
    <3>1. Distinct(replay) /\ GoodWork(conn[c])
      BY <1>1 DEF SessionInv, Base
    <3> QED BY <1>1, <2>0, <2>2, <3>1, ReserveList
  <2>4. PICK w : /\ GoodWork(w) /\ GoesTo(c, w)
                 /\ \/ w = Idle /\ Range(replay') \subseteq Range(replay)
                    \/ /\ w = At(s, "stage")
                       /\ \A rec \in Range(replay) : rec.id = s => Expired(rec, t)
                       /\ new \in Range(replay')
                       /\ Range(replay') \subseteq Range(replay) \cup {new}
    BY <1>1, <1>6, <2>3, IdleIsGood, MovesAreGood
  <2>5. /\ conn'[c] = w /\ \A d \in Conns : d # c => conn'[d] = conn[d]
    BY <1>1, <2>1, <2>4, Moved
  <2>6. \A r : AtStage(r)' <=> AtStage(r) \/ (w.step = "stage" /\ w.req = r)
    BY <2>1, <2>5 DEF AtStage
  <2>7. Idle.step # "stage" /\ At(s, "stage").step = "stage" /\ At(s, "stage").req = s
    BY DEF Idle, At
  <2>8. \A rec \in Range(replay) : Expired(rec, t) => now > LastUse(rec.id)
    <3> SUFFICES ASSUME NEW rec \in Range(replay), rec.expiry <= t
                 PROVE  now > LastUse(rec.id)
      BY DEF Expired
    <3>1. rec.expiry > LastUse(rec.id)
      BY <1>1 DEF SessionInv
    <3>2. rec.expiry \in Int /\ LastUse(rec.id) \in Int
      BY <1>2
    <3> QED BY <1>2, <2>2, <3>1, <3>2
  <2>9. new.id = s /\ new.expiry > LastUse(s)
    BY <2>2, SingleUseAssumption DEF Expiry, LastUse
  <2> HIDE DEF s, new
  <2>10. \A r \in Sessions : LastUse(r)' = LastUse(r)
    BY DEF LastUse
  <2>11. \A r \in Sessions : Reserved(r) => Reserved(r)'
    <3>1. ASSUME NEW r \in Sessions, NEW rec \in Range(replay), rec.id = r
          PROVE  Holds(replay', r) \/ now > LastUse(r)
      BY <1>3, <2>3, <2>8, <3>1
    <3> QED BY <1>3, <2>1, <2>10, <3>1 DEF Reserved
  \* The event at the stage gate is neither there already nor accepted.
  <2>12. CASE w.step = "stage"
    <3>1. now <= LastUse(s)
      BY <1>2, <2>2 DEF LastUse
    <3>2. ~Reserved(s)
      <4>1. ASSUME NEW rec \in Range(replay), rec.id = s PROVE FALSE
        BY <1>2, <2>2, <2>4, <2>7, <2>8, <2>12, <3>1, <4>1
      <4> QED BY <1>2, <1>3, <2>2, <3>1, <4>1 DEF Reserved
    <3>3. ~AtStage(s) /\ accepted[s] = 0
      BY <1>1, <2>2, <3>2 DEF SessionInv
    <3>4. Holds(replay', s)
      BY <1>3, <2>4, <2>7, <2>9, <2>12
    <3>5. \A rec \in Range(replay') :
            rec.expiry > LastUse(rec.id) /\ (accepted'[rec.id] = 1 \/ AtStage(rec.id)')
      BY <1>1, <1>2, <2>1, <2>4, <2>6, <2>7, <2>9, <2>12 DEF SessionInv
    <3>6. \A r \in Sessions : accepted'[r] = 1 \/ AtStage(r)' => Reserved(r)'
      <4>1. \A r \in Sessions : r = s => Reserved(r)'
        BY <3>4 DEF Reserved
      <4> QED BY <1>1, <2>1, <2>4, <2>6, <2>7, <2>11, <4>1 DEF SessionInv
    <3>7. \A r \in Sessions : accepted'[r] \in {0, 1} /\ (AtStage(r)' => accepted'[r] = 0)
      BY <1>1, <2>1, <2>4, <2>6, <2>7, <2>12, <3>3 DEF SessionInv
    <3>8. \A a, b \in Conns :
            /\ conn'[a].step = "stage" /\ conn'[b].step = "stage"
            /\ conn'[a].req = conn'[b].req
            => a = b
      BY <1>1, <2>4, <2>5, <2>7, <2>12, <3>3 DEF SessionInv, AtStage
    <3>9. \A rec \in Range(replay') : LastUse(rec.id)' = LastUse(rec.id)
      BY DEF LastUse
    <3> QED BY <2>3, <3>5, <3>6, <3>7, <3>8, <3>9 DEF SessionInv
  <2>13. CASE w.step # "stage"
    <3>1. \A r : AtStage(r)' <=> AtStage(r)
      BY <2>6, <2>13
    <3>2. \A rec \in Range(replay') : rec \in Range(replay)
      BY <2>4, <2>7, <2>13
    <3>3. \A a, b \in Conns :
            /\ conn'[a].step = "stage" /\ conn'[b].step = "stage"
            /\ conn'[a].req = conn'[b].req
            => a = b
      BY <1>1, <2>5, <2>13 DEF SessionInv
    <3> QED BY <1>1, <1>2, <2>1, <2>3, <2>10, <2>11, <3>1, <3>2, <3>3 DEF SessionInv
  <2> QED BY <2>12, <2>13
<1>7. ASSUME NEW c \in Conns, conn[c].step = "stage", GoesTo(c, Idle), now' = now
      PROVE  /\ conn[c].req \in Sessions
             /\ conn'[c] = Idle /\ \A d \in Conns : d # c => conn'[d] = conn[d]
             /\ \A r : AtStage(r)' <=> AtStage(r) /\ r # conn[c].req
  <2>1. conn[c].req \in Sessions
    BY <1>1, <1>7 DEF Base, GoodWork, Kind
  <2>2. conn'[c] = Idle /\ \A d \in Conns : d # c => conn'[d] = conn[d]
    BY <1>1, <1>7, IdleIsGood, Moved
  <2>3. Idle.step # "stage"
    BY DEF Idle
  <2>4. ASSUME NEW r PROVE AtStage(r)' <=> AtStage(r) /\ r # conn[c].req
    BY <1>1, <1>7, <2>2, <2>3 DEF AtStage, SessionInv
  <2> QED BY <2>1, <2>2, <2>4
<1>8. ASSUME NEW c \in Conns, StageAdmits(c) PROVE SessionInv'
  <2> DEFINE s == conn[c].req
  <2>1. /\ conn[c].step = "stage" /\ GoesTo(c, Idle) /\ UNCHANGED <<now, replay>>
        /\ accepted' = [accepted EXCEPT ![s] = IF @ = 0 THEN 1 ELSE 2]
    BY <1>8 DEF StageAdmits, Accept, memory
  <2>2. /\ s \in Sessions /\ conn'[c] = Idle /\ \A d \in Conns : d # c => conn'[d] = conn[d]
        /\ \A r : AtStage(r)' <=> AtStage(r) /\ r # s
    BY <1>7, <2>1
  <2>3. AtStage(s) /\ accepted[s] = 0
    BY <1>1, <2>1, <2>2 DEF SessionInv, AtStage
  <2>4. accepted'[s] = 1 /\ \A r \in Sessions : r # s => accepted'[r] = accepted[r]
    BY <1>2, <2>1, <2>2, <2>3
  <2> HIDE DEF s
  <2>5. \A r \in Sessions : Reserved(r)' <=> Reserved(r)
    BY <2>1 DEF Reserved, LastUse
  <2>6. Idle.step # "stage"
    BY DEF Idle
  <2>7. \A rec \in Range(replay) :
          rec.expiry > LastUse(rec.id)' /\ (accepted'[rec.id] = 1 \/ AtStage(rec.id)')
    BY <1>1, <1>2, <2>2, <2>4 DEF SessionInv, LastUse
  <2>8. \A r \in Sessions : accepted'[r] = 1 \/ AtStage(r)' => Reserved(r)'
    BY <1>1, <2>2, <2>3, <2>4, <2>5 DEF SessionInv
  <2>9. \A r \in Sessions : accepted'[r] \in {0, 1} /\ (AtStage(r)' => accepted'[r] = 0)
    BY <1>1, <2>2, <2>4 DEF SessionInv
  <2>10. \A a, b \in Conns :
          /\ conn'[a].step = "stage" /\ conn'[b].step = "stage"
          /\ conn'[a].req = conn'[b].req
          => a = b
    BY <1>1, <2>2, <2>6 DEF SessionInv
  <2> QED BY <1>1, <2>1, <2>7, <2>8, <2>9, <2>10 DEF SessionInv, Distinct
<1>9. ASSUME NEW c \in Conns, StageRefuses(c) PROVE SessionInv'
  <2> DEFINE s == conn[c].req
  <2>1. /\ conn[c].step = "stage" /\ GoesTo(c, Idle) /\ UNCHANGED <<now, accepted>>
        /\ replay' = Without(replay, s)
    BY <1>9 DEF StageRefuses
  <2>2. /\ s \in Sessions /\ conn'[c] = Idle /\ \A d \in Conns : d # c => conn'[d] = conn[d]
        /\ \A r : AtStage(r)' <=> AtStage(r) /\ r # s
    BY <1>7, <2>1
  <2>3. accepted[s] = 0
    BY <1>1, <2>1, <2>2 DEF SessionInv, AtStage
  <2> HIDE DEF s
  <2>4. Distinct(replay)' /\ Range(replay') = {rec \in Range(replay) : rec.id # s}
    BY <1>1, <1>2, <2>1, WithoutAnId DEF SessionInv, Distinct
  <2>5. \A r \in Sessions : r # s => (Reserved(r)' <=> Reserved(r))
    BY <1>3, <2>1, <2>4 DEF Reserved, LastUse
  <2>6. Idle.step # "stage"
    BY DEF Idle
  <2>7. \A rec \in Range(replay') :
          rec.expiry > LastUse(rec.id)' /\ (accepted'[rec.id] = 1 \/ AtStage(rec.id)')
    BY <1>1, <2>1, <2>2, <2>4 DEF SessionInv, LastUse
  <2>8. \A r \in Sessions : accepted'[r] = 1 \/ AtStage(r)' => Reserved(r)'
    BY <1>1, <2>1, <2>2, <2>3, <2>5 DEF SessionInv
  <2>9. \A r \in Sessions : accepted'[r] \in {0, 1} /\ (AtStage(r)' => accepted'[r] = 0)
    BY <1>1, <2>1, <2>2 DEF SessionInv
  <2>10. \A a, b \in Conns :
          /\ conn'[a].step = "stage" /\ conn'[b].step = "stage"
          /\ conn'[a].req = conn'[b].req
          => a = b
    BY <1>1, <2>2, <2>6 DEF SessionInv
  <2> QED BY <2>4, <2>7, <2>8, <2>9, <2>10 DEF SessionInv
\* The other actions.
<1>10. ASSUME NEW c \in Conns, NEW s \in Sessions, Deliver(c, s) PROVE SessionInv'
  <2>1. conn[c].step # "stage" /\ At(s, "hooks").step # "stage"
    BY <1>10 DEF Deliver, Idle, At
  <2> QED BY <1>1, <1>5, <1>10, <2>1, MovesAreGood DEF Deliver, memory
<1>11. ASSUME NEW c \in Conns, NEW j \in Joins, ShowReceipt(c, j) PROVE SessionInv'
  <2>1. conn[c].step # "stage" /\ At(j, "spend").step # "stage"
    BY <1>11 DEF ShowReceipt, Idle, At
  <2> QED BY <1>1, <1>5, <1>11, <2>1, MovesAreGood DEF ShowReceipt, memory
<1>12. ASSUME NEW c \in Conns, NEW t \in Tokens, PresentToken(c, t) PROVE SessionInv'
  <2>1. conn[c].step # "stage" /\ At(t, "nonce").step # "stage"
    BY <1>12 DEF PresentToken, Idle, At
  <2> QED BY <1>1, <1>5, <1>12, <2>1, MovesAreGood DEF PresentToken, memory
<1>13. ASSUME NEW c \in Conns, CheckAgain(c) PROVE SessionInv'
  <2>1. conn[c].step # "stage" /\ At(conn[c].req, "reserve").step # "stage"
    BY <1>13 DEF CheckAgain, At
  <2> QED BY <1>1, <1>5, <1>13, <2>1, MovesAreGood DEF CheckAgain, memory
<1>14. ASSUME NEW c \in Conns, Refuse(c) \/ RefuseJoin(c) PROVE SessionInv'
  <2>1. conn[c].step # "stage" /\ Idle.step # "stage"
    BY <1>14 DEF Refuse, RefuseJoin, Idle
  <2> QED BY <1>5, <1>14, <2>1, IdleIsGood DEF Refuse, RefuseJoin, memory
<1>15. ASSUME NEW c \in Conns, SpendReceipt(c) PROVE SessionInv'
  <2>1. /\ conn[c].step # "stage" /\ Idle.step # "stage"
        /\ At(conn[c].req, "join").step # "stage"
    BY <1>15 DEF SpendReceipt, Idle, At
  <2>2. UNCHANGED <<now, replay, accepted>>
    BY <1>15 DEF SpendReceipt
  <2>3. PICK w : GoodWork(w) /\ w.step # "stage" /\ GoesTo(c, w)
    BY <1>1, <1>15, <2>1, IdleIsGood, MovesAreGood DEF SpendReceipt
  <2> QED BY <1>5, <2>1, <2>2, <2>3
<1>16. ASSUME NEW c \in Conns, Join(c) PROVE SessionInv'
  <2>1. conn[c].step = "join" /\ Idle.step # "stage" /\ GoesTo(c, Idle) /\ UNCHANGED <<now, replay>>
    BY <1>16 DEF Join, Idle, memory
  <2>2. conn[c].req \in Joins
    BY <1>1, <2>1 DEF Base, GoodWork, Kind
  <2>3. \A s \in Sessions : accepted'[s] = accepted[s]
    BY <1>2, <1>16, <2>2, SingleUseAssumption DEF Join, Accept
  <2> QED BY <1>5, <2>1, <2>3, IdleIsGood
<1>17. ASSUME NEW c \in Conns, CheckNonce(c) \/ RenewNonce(c) PROVE SessionInv'
  <2>1. conn[c].step \in {"nonce", "renew"} /\ UNCHANGED <<now, replay>>
    BY <1>17 DEF CheckNonce, RenewNonce
  <2>2. conn[c].req \in Tokens
    BY <1>1, <2>1 DEF Base, GoodWork, Kind
  <2>3. \A s \in Sessions : accepted'[s] = accepted[s]
    <3>1. UNCHANGED accepted \/ Accept(conn[c].req)
      BY <1>17 DEF CheckNonce, RenewNonce
    <3> QED BY <1>2, <2>2, <3>1, SingleUseAssumption DEF Accept
  <2>4. PICK w : GoodWork(w) /\ w.step \in {"idle", "renew"} /\ GoesTo(c, w)
    BY <1>1, <1>17, NonceMoves DEF Base
  <2> QED BY <1>5, <2>1, <2>3, <2>4
<1>18. ASSUME (\E r \in Receipts : Pay(r)) \/ PruneNonces \/ Tick \/ UNCHANGED vars
       PROVE  SessionInv'
  <2>1. replay' = replay /\ conn' = conn /\ accepted' = accepted /\ now' >= now
    BY <1>2, <1>18 DEF Pay, PruneNonces, Tick, vars, memory
  <2> QED BY <1>4, <2>1
<1>19. ASSUME Restart PROVE SessionInv'
  <2>1. \A c \in Conns : conn'[c].step = "idle"
    BY <1>19 DEF Restart, Idle
  <2>2. \A r : ~AtStage(r)'
    BY <2>1 DEF AtStage
  <2>3. DOMAIN replay' = {}
    BY <1>19 DEF Restart
  <2>4. \A r \in Sessions : accepted'[r] = 0
    BY <1>2, <1>19 DEF Restart
  <2> QED BY <2>1, <2>2, <2>3, <2>4 DEF SessionInv, Distinct, Range
<1> QED BY <1>6, <1>8, <1>9, <1>10, <1>11, <1>12, <1>13, <1>14, <1>15, <1>16, <1>17, <1>18,
           <1>19 DEF Next

-----------------------------------------------------------------------------
(* Tokens.                                                                 *)

LEMMA TokenStep ==
    ASSUME IInv, [Next]_vars
    PROVE  TokenInv'
<1> USE ConstantTypes
<1>1. /\ TypeOK /\ TypeOK' /\ TokenInv /\ Base /\ \A c \in Conns : GoodWork(conn[c])
  BY BaseStep DEF IInv, Base
<1>2. /\ now \in Int /\ now' \in Int /\ accepted \in [Requests -> Nat]
      /\ Tokens \subseteq Requests /\ \A t \in Tokens : LastShown(t) \in Int
      /\ \A n \in nonces : n.id \in NonceIds /\ n.expiry \in Int
  <2>1. \A t \in Tokens : t \in Requests /\ LastShown(t) \in Int
    BY DEF LastShown, Requests
  <2> QED BY <1>1, <2>1 DEF TypeOK, NonceRecords
<1>3. \A t : LastShown(t)' = LastShown(t) /\ (Identified(t)' <=> Identified(t))
  BY DEF LastShown, Identified
\* Nobody comes to renew the record of a token that has its id for itself.
<1>4. ASSUME nonces' = nonces, now' >= now, \A t \in Tokens : accepted'[t] = accepted[t],
             \A c \in Conns : conn'[c].step = "renew" => conn'[c] = conn[c]
      PROVE  TokenInv'
  <2> SUFFICES ASSUME NEW t \in Tokens, Identified(t)
               PROVE  /\ \A n \in Found(t)' : n.expiry > LastShown(t)
                      /\ \A c \in Conns : conn'[c].step = "renew" => conn'[c].req # t
                      /\ accepted'[t] \in {0, 1}
                      /\ accepted'[t] = 1 => Found(t)' # {} \/ now' > LastShown(t)
    BY <1>3 DEF TokenInv
  <2>1. Found(t)' = Found(t)
    BY <1>4 DEF Found
  <2> QED BY <1>1, <1>2, <1>4, <2>1 DEF TokenInv
<1>5. ASSUME NEW c \in Conns, NEW w, GoodWork(w), GoesTo(c, w), w.step # "renew",
             nonces' = nonces, now' = now, \A t \in Tokens : accepted'[t] = accepted[t]
      PROVE  TokenInv'
  BY <1>1, <1>2, <1>4, <1>5, Moved
<1>6. ASSUME NEW c \in Conns, StageAdmits(c) \/ Join(c) PROVE TokenInv'
  <2>1. conn[c].req \in Sessions \cup Joins
    BY <1>1, <1>6 DEF StageAdmits, Join, GoodWork, Kind
  <2>2. \A t \in Tokens : accepted'[t] = accepted[t]
    BY <1>2, <1>6, <2>1, SingleUseAssumption DEF StageAdmits, Join, Accept
  <2>3. nonces' = nonces /\ now' = now /\ GoesTo(c, Idle) /\ Idle.step # "renew"
    BY <1>6 DEF StageAdmits, Join, memory, Idle
  <2> QED BY <1>5, <2>2, <2>3, IdleIsGood
<1>7. ASSUME NEW c \in Conns, conn[c].step = "nonce", now' = now
      PROVE  /\ conn[c].req \in Tokens /\ conn[c].read \in Int
             /\ now <= LastShown(conn[c].req)
             /\ \A read \in conn[c].read .. now :
                  read \in Int /\ NonceOf(conn[c].req, read).expiry > LastShown(conn[c].req)
  <2> DEFINE t == conn[c].req
  <2>1. t \in Tokens /\ t \in Requests /\ conn[c].read \in Int /\ CreatedAt[t] \in Int
    BY <1>1, <1>7 DEF GoodWork, Kind, Work, Idle, Requests
  <2>2. /\ conn[c].read <= now /\ now <= conn[c].read + MaxPause
        /\ conn[c].read - MaxSkew <= CreatedAt[t] /\ CreatedAt[t] <= conn[c].read + MaxSkew
    BY <1>1, <1>7 DEF GoodWork, Prompt, ReadFresh
  <2>3. 2 * MaxSkew + MaxPause < NonceLife
    BY SingleUseAssumption
  <2> HIDE DEF t
  <2>4. now <= LastShown(t)
    BY <1>2, <2>1, <2>2 DEF LastShown
  <2>5. ASSUME NEW read \in conn[c].read .. now
        PROVE  read \in Int /\ NonceOf(t, read).expiry > LastShown(t)
    BY <1>2, <2>1, <2>2, <2>3 DEF LastShown, NonceOf
  <2> QED BY <2>1, <2>4, <2>5 DEF t
<1>8. ASSUME NEW c \in Conns, CheckNonce(c) PROVE TokenInv'
  <2>0. PICK t : t = conn[c].req
    OBVIOUS
  <2>1. conn[c].step = "nonce" /\ now' = now
    BY <1>8 DEF CheckNonce
  <2>2. /\ t \in Tokens /\ conn[c].read \in Int /\ now <= LastShown(t)
        /\ \A read \in conn[c].read .. now :
             read \in Int /\ NonceOf(t, read).expiry > LastShown(t)
    BY <1>7, <2>0, <2>1
  <2>3. Idle.step # "renew"
    BY DEF Idle
  \* It names no id: no token that has one is concerned.
  <2>4. CASE NonceId[t] = NoId /\ Accept(t) /\ GoesTo(c, Idle) /\ UNCHANGED nonces
    <3>1. ~Identified(t)
      BY <2>4 DEF Identified
    <3> SUFFICES ASSUME NEW u \in Tokens, Identified(u)
                 PROVE  /\ \A n \in Found(u)' : n.expiry > LastShown(u)
                        /\ \A d \in Conns : conn'[d].step = "renew" => conn'[d].req # u
                        /\ accepted'[u] \in {0, 1}
                        /\ accepted'[u] = 1 => Found(u)' # {} \/ now' > LastShown(u)
      BY <1>3 DEF TokenInv
    <3>2. accepted'[u] = accepted[u]
      BY <1>2, <2>2, <2>4, <3>1 DEF Accept
    <3>3. Found(u)' = Found(u)
      BY <2>4 DEF Found
    <3>4. \A d \in Conns : conn'[d].step = "renew" => conn'[d] = conn[d]
      BY <1>1, <2>1, <2>3, <2>4, IdleIsGood, Moved
    <3> QED BY <1>1, <2>1, <3>2, <3>3, <3>4 DEF TokenInv
  \* Its id is stored.
  <2>5. ASSUME NEW read \in conn[c].read .. now, Found(t) = {}, NonceId[t] # NoId,
               nonces' = nonces \cup {NonceOf(t, read)}, Accept(t), GoesTo(c, Idle)
        PROVE  TokenInv'
    <3> SUFFICES ASSUME NEW u \in Tokens, Identified(u)
                 PROVE  /\ \A n \in Found(u)' : n.expiry > LastShown(u)
                        /\ \A d \in Conns : conn'[d].step = "renew" => conn'[d].req # u
                        /\ accepted'[u] \in {0, 1}
                        /\ accepted'[u] = 1 => Found(u)' # {} \/ now' > LastShown(u)
      BY <1>3 DEF TokenInv
    <3>1. \A d \in Conns : conn'[d].step = "renew" => conn'[d] = conn[d]
      BY <1>1, <2>1, <2>3, <2>5, IdleIsGood, Moved
    <3>2. NonceOf(t, read).id = NonceId[t] /\ NonceOf(t, read).expiry > LastShown(t)
      BY <2>2 DEF NonceOf
    <3>3. CASE u = t
      <4>1. Found(t)' = {NonceOf(t, read)}
        BY <2>5, <3>2 DEF Found
      <4>2. accepted[t] = 0
        BY <1>1, <1>2, <2>2, <2>5, <3>3 DEF TokenInv
      <4>3. accepted'[t] = 1
        BY <1>2, <2>2, <2>5, <4>2 DEF Accept
      <4> QED BY <1>1, <3>1, <3>2, <3>3, <4>1, <4>3 DEF TokenInv
    <3>4. CASE u # t
      <4>1. NonceId[t] # NonceId[u]
        BY <2>2, <3>4 DEF Identified
      <4>2. Found(u)' = Found(u)
        BY <2>5, <3>2, <4>1 DEF Found
      <4>3. accepted'[u] = accepted[u]
        BY <1>2, <2>2, <2>5, <3>4 DEF Accept
      <4> QED BY <1>1, <2>1, <3>1, <4>2, <4>3 DEF TokenInv
    <3> QED BY <3>3, <3>4
  <2>6. CASE GoesTo(c, Idle) /\ UNCHANGED <<nonces, accepted>>
    BY <1>5, <2>1, <2>3, <2>6, IdleIsGood
  \* What it finds expired is not of a token that has its id for itself.
  <2>7. ASSUME NEW read \in conn[c].read .. now, \E n \in Found(t) : n.expiry <= now,
               GoesTo(c, [req |-> t, step |-> "renew", read |-> read]),
               UNCHANGED <<nonces, accepted>>
        PROVE  TokenInv'
    <3>1. ~Identified(t)
      <4> SUFFICES ASSUME Identified(t), NEW n \in Found(t), n.expiry <= now PROVE FALSE
        BY <2>7
      <4>1. n.expiry > LastShown(t) /\ n.expiry \in Int
        BY <1>1, <1>2, <2>2 DEF TokenInv, Found
      <4> QED BY <1>2, <2>2, <4>1
    <3>2. \A d \in Conns : d # c => conn'[d] = conn[d]
      BY <1>1, <2>7 DEF GoesTo, TypeOK
    <3>3. conn'[c].req = t
      BY <1>1, <2>7 DEF GoesTo, TypeOK
    <3> SUFFICES ASSUME NEW u \in Tokens, Identified(u)
                 PROVE  /\ \A n \in Found(u)' : n.expiry > LastShown(u)
                        /\ \A d \in Conns : conn'[d].step = "renew" => conn'[d].req # u
                        /\ accepted'[u] \in {0, 1}
                        /\ accepted'[u] = 1 => Found(u)' # {} \/ now' > LastShown(u)
      BY <1>3 DEF TokenInv
    <3>4. Found(u)' = Found(u) /\ u # t
      BY <2>7, <3>1 DEF Found
    <3> QED BY <1>1, <2>1, <2>7, <3>2, <3>3, <3>4 DEF TokenInv
  <2> QED BY <1>8, <2>0, <2>4, <2>5, <2>6, <2>7 DEF CheckNonce
<1>9. ASSUME NEW c \in Conns, RenewNonce(c) PROVE TokenInv'
  <2>0. PICK t : t = conn[c].req
    OBVIOUS
  <2>1. /\ conn[c].step = "renew" /\ now' = now /\ GoesTo(c, Idle) /\ Accept(t)
        /\ nonces' = (nonces \ Found(t)) \cup {NonceOf(t, conn[c].read)}
    BY <1>9, <2>0 DEF RenewNonce
  <2>2. t \in Tokens /\ ~Identified(t) /\ NonceId[t] # NoId
    BY <1>1, <2>0, <2>1 DEF GoodWork, Kind, TokenInv
  <2>3. Idle.step # "renew"
    BY DEF Idle
  <2>4. \A d \in Conns : conn'[d].step = "renew" => conn'[d] = conn[d]
    BY <1>1, <2>1, <2>3, IdleIsGood, Moved
  <2> SUFFICES ASSUME NEW u \in Tokens, Identified(u)
               PROVE  /\ \A n \in Found(u)' : n.expiry > LastShown(u)
                      /\ \A d \in Conns : conn'[d].step = "renew" => conn'[d].req # u
                      /\ accepted'[u] \in {0, 1}
                      /\ accepted'[u] = 1 => Found(u)' # {} \/ now' > LastShown(u)
    BY <1>3 DEF TokenInv
  <2>5. u # t /\ NonceId[u] # NonceId[t]
    BY <2>2 DEF Identified
  <2>6. Found(u)' = Found(u)
    BY <2>1, <2>5 DEF Found, NonceOf
  <2>7. accepted'[u] = accepted[u]
    BY <1>2, <2>1, <2>2, <2>5 DEF Accept
  <2> QED BY <1>1, <2>1, <2>4, <2>6, <2>7 DEF TokenInv
<1>10. ASSUME PruneNonces PROVE TokenInv'
  <2>1. /\ nonces' = {n \in nonces : n.expiry >= now}
        /\ UNCHANGED <<now, accepted, conn>>
    BY <1>10 DEF PruneNonces
  <2> SUFFICES ASSUME NEW t \in Tokens, Identified(t)
               PROVE  /\ \A n \in Found(t)' : n.expiry > LastShown(t)
                      /\ \A c \in Conns : conn'[c].step = "renew" => conn'[c].req # t
                      /\ accepted'[t] \in {0, 1}
                      /\ accepted'[t] = 1 => Found(t)' # {} \/ now' > LastShown(t)
    BY <1>3 DEF TokenInv
  <2>2. Found(t)' \subseteq Found(t)
    BY <2>1 DEF Found
  <2>3. \A n \in Found(t) : n \in Found(t)' \/ now > LastShown(t)
    <3> SUFFICES ASSUME NEW n \in Found(t), n.expiry < now PROVE now > LastShown(t)
      BY <1>2, <2>1 DEF Found
    <3>1. n.expiry > LastShown(t) /\ n.expiry \in Int
      BY <1>1, <1>2 DEF TokenInv, Found
    <3> QED BY <1>2, <3>1
  <2> QED BY <1>1, <2>1, <2>2, <2>3 DEF TokenInv
<1>11. ASSUME Restart PROVE TokenInv'
  <2>1. \A c \in Conns : conn'[c].step = "idle"
    BY <1>11 DEF Restart, Idle
  <2>2. \A t \in Tokens : accepted'[t] = 0 /\ Found(t)' = {}
    BY <1>2, <1>11 DEF Restart, Found
  <2> QED BY <2>1, <2>2 DEF TokenInv
<1>12. ASSUME NEW c \in Conns,
              \/ \E s \in Sessions : Deliver(c, s)
              \/ \E j \in Joins : ShowReceipt(c, j)
              \/ \E t \in Tokens : PresentToken(c, t)
              \/ Refuse(c) \/ CheckAgain(c) \/ Reserve(c) \/ StageRefuses(c)
              \/ SpendReceipt(c) \/ RefuseJoin(c)
       PROVE  TokenInv'
  <2>1. nonces' = nonces /\ accepted' = accepted /\ now' = now
    BY <1>12 DEF Deliver, ShowReceipt, PresentToken, Refuse, CheckAgain, Reserve, ReserveAt,
                 StageRefuses, SpendReceipt, RefuseJoin, memory
  <2>2. Idle.step # "renew"
        /\ \A r, s : s # "renew" => At(r, s).step # "renew"
    BY DEF Idle, At
  <2>3. \E w : GoodWork(w) /\ GoesTo(c, w) /\ w.step # "renew"
    BY <1>1, <1>12, <2>2, IdleIsGood, MovesAreGood
       DEF Deliver, ShowReceipt, PresentToken, Refuse, CheckAgain, Reserve, ReserveAt,
           StageRefuses, SpendReceipt, RefuseJoin
  <2> QED BY <1>5, <2>1, <2>3
<1>13. ASSUME (\E r \in Receipts : Pay(r)) \/ Tick \/ UNCHANGED vars PROVE TokenInv'
  <2>1. nonces' = nonces /\ accepted' = accepted /\ conn' = conn /\ now' >= now
    BY <1>2, <1>13 DEF Pay, Tick, vars, memory
  <2> QED BY <1>4, <2>1
<1> QED BY <1>6, <1>8, <1>9, <1>10, <1>11, <1>12, <1>13 DEF Next

-----------------------------------------------------------------------------
(* Receipts.                                                               *)

LEMMA ReceiptStep ==
    ASSUME IInv, [Next]_vars
    PROVE  ReceiptInv'
<1>1. Base /\ TypeOK /\ ReceiptInv /\ \A c \in Conns : GoodWork(conn[c])
  BY DEF IInv, Base
<1>2. admitted \in [Receipts -> Nat] /\ \A j \in Joins : ReceiptOf[j] \in Receipts
  BY <1>1, SingleUseAssumption DEF TypeOK
<1>3. \A r \in Requests : At(r, "join").step = "join" /\ At(r, "join").req = r
  BY DEF At
\* Actions that neither spend a receipt nor join.
<1>4. ASSUME used' = used, admitted' = admitted,
             \A c \in Conns : conn'[c].step = "join" => conn'[c] = conn[c]
      PROVE  ReceiptInv'
  BY <1>1, <1>4 DEF ReceiptInv
<1>5. ASSUME NEW c \in Conns, NEW w, GoodWork(w), w.step # "join", GoesTo(c, w),
             now' = now, used' = used, admitted' = admitted
      PROVE  ReceiptInv'
  BY <1>1, <1>4, <1>5, Moved
<1>6. ASSUME NEW c \in Conns, SpendReceipt(c) PROVE ReceiptInv'
  <2>1. conn[c].step = "spend" /\ UNCHANGED <<now, admitted>>
    BY <1>6 DEF SpendReceipt
  <2>2. PICK j \in Joins : j = conn[c].req
    BY <1>1, <2>1 DEF GoodWork, Kind
  <2>3. CASE ReceiptOf[j] \in used
    <3>1. GoesTo(c, Idle) /\ used' = used /\ Idle.step # "join"
      BY <1>6, <2>2, <2>3 DEF SpendReceipt, UseKey, Idle
    <3> QED BY <1>5, <2>1, <3>1, IdleIsGood
  <2>4. CASE ReceiptOf[j] \notin used
    <3>1. GoesTo(c, At(j, "join")) /\ used' = used \cup {ReceiptOf[j]}
      BY <1>6, <2>2, <2>4 DEF SpendReceipt, UseKey
    <3>2. GoodWork(At(j, "join"))
      BY <1>1, <1>6, <2>2, MovesAreGood
    <3>3. conn'[c] = At(j, "join") /\ \A d \in Conns : d # c => conn'[d] = conn[d]
      BY <1>1, <2>1, <3>1, <3>2, Moved
    <3>4. conn'[c].req = j
      BY <3>3 DEF At
    <3>5. admitted[ReceiptOf[j]] = 0
      BY <1>1, <1>2, <2>4 DEF ReceiptInv
    <3>6. \A d \in Conns : d # c /\ conn'[d].step = "join" =>
            /\ ReceiptOf[conn'[d].req] \in used /\ ReceiptOf[conn'[d].req] # ReceiptOf[j]
            /\ admitted[ReceiptOf[conn'[d].req]] = 0
      BY <1>1, <2>4, <3>3 DEF ReceiptInv
    <3> QED BY <1>1, <2>1, <3>1, <3>3, <3>4, <3>5, <3>6 DEF ReceiptInv
  <2> QED BY <2>3, <2>4
<1>7. ASSUME NEW c \in Conns, Join(c) PROVE ReceiptInv'
  <2>1. conn[c].step = "join" /\ GoesTo(c, Idle) /\ now' = now /\ used' = used
    BY <1>7 DEF Join, memory
  <2>2. PICK j \in Joins : j = conn[c].req
    BY <1>1, <2>1 DEF GoodWork, Kind
  <2>3. /\ conn'[c] = Idle /\ Idle.step # "join"
        /\ \A d \in Conns : d # c => conn'[d] = conn[d]
    <3>1. Idle.step # "join"
      BY DEF Idle
    <3> QED BY <1>1, <2>1, <3>1, IdleIsGood, Moved
  <2>4. ReceiptOf[j] \in used /\ admitted[ReceiptOf[j]] = 0
    BY <1>1, <2>1, <2>2 DEF ReceiptInv
  <2>5. /\ admitted'[ReceiptOf[j]] = 1
        /\ \A r \in Receipts : r # ReceiptOf[j] => admitted'[r] = admitted[r]
    BY <1>2, <1>7, <2>2, <2>4 DEF Join
  <2>6. ASSUME NEW d \in Conns, conn'[d].step = "join"
        PROVE  /\ conn'[d] = conn[d] /\ conn[d].req \in Joins
               /\ ReceiptOf[conn[d].req] # ReceiptOf[j]
    <3>1. d # c /\ conn'[d] = conn[d]
      BY <2>3, <2>6
    <3> QED BY <1>1, <2>1, <2>2, <2>6, <3>1 DEF ReceiptInv, GoodWork, Kind
  <2>7. \A r \in Receipts : admitted'[r] \in {0, 1} /\ (admitted'[r] = 1 => r \in used')
    BY <1>1, <2>1, <2>4, <2>5 DEF ReceiptInv
  <2>8. \A d \in Conns : conn'[d].step = "join" =>
          ReceiptOf[conn'[d].req] \in used' /\ admitted'[ReceiptOf[conn'[d].req]] = 0
    BY <1>1, <1>2, <2>1, <2>5, <2>6 DEF ReceiptInv
  <2>9. \A d, e \in Conns :
          /\ conn'[d].step = "join" /\ conn'[e].step = "join"
          /\ ReceiptOf[conn'[d].req] = ReceiptOf[conn'[e].req]
          => d = e
    BY <1>1, <2>6 DEF ReceiptInv
  <2> QED BY <2>7, <2>8, <2>9 DEF ReceiptInv
<1>8. ASSUME NEW c \in Conns,
             \/ Refuse(c) \/ RefuseJoin(c) \/ StageAdmits(c) \/ StageRefuses(c)
             \/ CheckNonce(c) \/ RenewNonce(c)
      PROVE  ReceiptInv'
  <2>1. now' = now /\ used' = used /\ admitted' = admitted
    BY <1>8 DEF Refuse, RefuseJoin, StageAdmits, StageRefuses, CheckNonce, RenewNonce, memory
  <2>2. PICK w : GoodWork(w) /\ w.step \in {"idle", "renew"} /\ GoesTo(c, w)
    <3>1. Idle.step = "idle"
      BY DEF Idle
    <3> QED BY <1>1, <1>8, <3>1, IdleIsGood, NonceMoves
         DEF Refuse, RefuseJoin, StageAdmits, StageRefuses
  <2> QED BY <1>5, <2>1, <2>2
<1>9. ASSUME NEW c \in Conns, NEW s \in Sessions, Deliver(c, s) PROVE ReceiptInv'
  <2>1. At(s, "hooks").step # "join"
    BY DEF At
  <2> QED BY <1>1, <1>5, <1>9, <2>1, MovesAreGood DEF Deliver, memory
<1>10. ASSUME NEW c \in Conns, NEW j \in Joins, ShowReceipt(c, j) PROVE ReceiptInv'
  <2>1. At(j, "spend").step # "join"
    BY DEF At
  <2> QED BY <1>1, <1>5, <1>10, <2>1, MovesAreGood DEF ShowReceipt, memory
<1>11. ASSUME NEW c \in Conns, NEW t \in Tokens, PresentToken(c, t) PROVE ReceiptInv'
  <2>1. At(t, "nonce").step # "join"
    BY DEF At
  <2> QED BY <1>1, <1>5, <1>11, <2>1, MovesAreGood DEF PresentToken, memory
<1>12. ASSUME NEW c \in Conns, CheckAgain(c) PROVE ReceiptInv'
  <2>1. At(conn[c].req, "reserve").step # "join"
    BY DEF At
  <2> QED BY <1>1, <1>5, <1>12, <2>1, MovesAreGood DEF CheckAgain, memory
<1>13. ASSUME NEW c \in Conns, Reserve(c) PROVE ReceiptInv'
  <2>1. Idle.step # "join" /\ At(conn[c].req, "stage").step # "join"
    BY DEF At, Idle
  <2>2. UNCHANGED <<now, used, admitted>>
    BY <1>13 DEF Reserve, ReserveAt
  <2>3. PICK w : GoodWork(w) /\ w.step # "join" /\ GoesTo(c, w)
    BY <1>1, <1>13, <2>1, IdleIsGood, MovesAreGood DEF Reserve, ReserveAt
  <2> QED BY <1>5, <2>2, <2>3
<1>14. ASSUME (\E r \in Receipts : Pay(r)) \/ PruneNonces \/ Tick \/ UNCHANGED vars
       PROVE  ReceiptInv'
  BY <1>4, <1>14 DEF Pay, PruneNonces, Tick, vars, memory
<1>15. ASSUME Restart PROVE ReceiptInv'
  <2>1. \A c \in Conns : conn'[c].step = "idle"
    BY <1>15 DEF Restart, Idle
  <2>2. \A r \in Receipts : admitted'[r] = 0
    BY <1>15 DEF Restart
  <2> QED BY <2>1, <2>2 DEF ReceiptInv
<1> QED BY <1>6, <1>7, <1>8, <1>9, <1>10, <1>11, <1>12, <1>13, <1>14, <1>15 DEF Next

-----------------------------------------------------------------------------
LEMMA InitHolds == Init => IInv
<1> SUFFICES ASSUME Init PROVE IInv
  OBVIOUS
<1> USE ConstantTypes DEF Init
<1>1. \A c \in Conns : conn[c] = Idle /\ Idle.step = "idle"
  BY DEF Idle
<1>2. Base
  <2>1. GoodWork(Idle) /\ Idle \in Work
    BY IdleIsGood DEF GoodWork
  <2>2. TypeOK
    BY <1>1, <2>1 DEF TypeOK, Unpaid
  <2> QED BY <1>1, <2>1, <2>2 DEF Base
<1>3. SessionInv
  <2>1. DOMAIN replay = {}
    OBVIOUS
  <2>2. \A s : ~AtStage(s)
    BY <1>1 DEF AtStage
  <2> QED BY <1>1, <2>1, <2>2 DEF SessionInv, Distinct, Range, Requests
<1>4. TokenInv
  BY <1>1 DEF TokenInv, Found, Requests
<1>5. ReceiptInv
  BY <1>1 DEF ReceiptInv
<1> QED BY <1>2, <1>3, <1>4, <1>5 DEF IInv

LEMMA Invariance == Spec => []IInv
<1>1. IInv /\ [Next]_vars => IInv'
  BY BaseStep, SessionStep, TokenStep, ReceiptStep DEF IInv
<1> QED BY <1>1, InitHolds, PTL DEF Spec

\* Each memory holds what it should, and the replay cache stays within its bound.
THEOREM TypeCorrect == Spec => []TypeOK
<1>1. IInv => TypeOK
  BY DEF IInv, Base
<1> QED BY <1>1, Invariance, PTL

\* A session event, and a token of the admin API whose event names an id of its
\* own, is accepted at most once by a relay process, whatever the number of
\* connections, and of requests (rejectReplay, adminNonceSeen).
THEOREM AcceptsOnce == Spec => []AcceptedOnce
<1>1. IInv => AcceptedOnce
  BY DEF IInv, SessionInv, TokenInv, AcceptedOnce
<1> QED BY <1>1, Invariance, PTL

\* No two joins are let in by one receipt.
THEOREM AdmitsOnce == Spec => []ReceiptAdmitsOnce
<1>1. IInv => ReceiptAdmitsOnce
  BY DEF IInv, ReceiptInv, ReceiptAdmitsOnce
<1> QED BY <1>1, Invariance, PTL

\* The replay cache holds no id of an event that was refused.
THEOREM ForgetsRefusals == Spec => []RefusalsAreForgotten
<1>1. IInv => RefusalsAreForgotten
  <2> SUFFICES ASSUME IInv, NEW i \in DOMAIN replay
               PROVE  accepted[replay[i].id] = 1 \/ AtStage(replay[i].id)
    BY DEF RefusalsAreForgotten, AtStage
  <2>1. replay[i] \in Range(replay)
    BY DEF Range
  <2> QED BY <2>1 DEF IInv, SessionInv
<1> QED BY <1>1, Invariance, PTL
=============================================================================
