---------------------------- MODULE PreviewProofs ----------------------------
(***************************************************************************)
(* Both previews come true: the client's "Up next" of what the DJs queued, *)
(* on every stage and for queues of every length, and Auto DJ's announced  *)
(* tracks, for every set of playlists and every length of the preview.     *)
(***************************************************************************)
EXTENDS UpNext, AutoOrder, RoundRobinProofs, SequenceTheorems

-----------------------------------------------------------------------------
(* Matrices.                                                               *)

Entry == [vid : Videos, active : BOOLEAN]
Queues == [DJs -> Seq(Entry)]

\* A matrix has a row of Booleans for every DJ of the stage.
IsMatrix(m) == m \in Seq(Seq(BOOLEAN)) /\ Len(m) = NumDJs

\* The places of a matrix.
Places(m) == {p \in DJs \X Nat : p[2] \in 1..Len(m[p[1]])}

LEMMA StageIsASequence ==
    /\ NumDJs \in Nat \ {0} /\ Count \in Nat
    /\ Stage \in Seq(DJs) /\ Len(Stage) = NumDJs
    /\ \A d \in DJs : IndexOf(Stage, d) = d
    /\ IndexOf(Stage, NoDJ) = 0
<1>1. NumDJs \in Nat \ {0} /\ Count \in Nat
  BY UpNextAssumption DEF UpNextAssumption
<1>2. Stage \in Seq(DJs) /\ Len(Stage) = NumDJs /\ \A i \in DJs : Stage[i] = i
  BY <1>1 DEF Stage, DJs
<1> HIDE DEF Stage
<1>3. ASSUME NEW d \in DJs PROVE IndexOf(Stage, d) = d
  <2>1. /\ IndexOf(Stage, d) \in 0..NumDJs
        /\ IndexOf(Stage, d) # 0 => Stage[IndexOf(Stage, d)] = d
        /\ IndexOf(Stage, d) = 0 => \A i \in 1..NumDJs : Stage[i] # d
    BY <1>2, IndexOfCorrect
  <2> QED BY <1>1, <1>2, <2>1 DEF DJs
<1>4. IndexOf(Stage, NoDJ) = 0
  <2>1. \A i \in 1..NumDJs : Stage[i] # NoDJ
    BY <1>1, <1>2 DEF DJs, NoDJ
  <2> QED BY <1>2, <2>1, IndexOfCorrect
<1> QED BY <1>1, <1>2, <1>3, <1>4

LEMMA PlayableIsAMatrix ==
    ASSUME NEW q \in Queues, NEW cur
    PROVE  /\ IsMatrix(PlayableMatrix(q, cur))
           /\ \A i \in DJs : /\ q[i] \in Seq(Entry)
                             /\ Len(PlayableMatrix(q, cur)[i]) = Len(q[i])
           /\ \A i \in DJs : \A j \in 1..Len(q[i]) :
                 PlayableMatrix(q, cur)[i][j] = (q[i][j].active /\ q[i][j].vid # cur)
<1> DEFINE m == PlayableMatrix(q, cur)
<1>1. NumDJs \in Nat /\ DJs = 1..NumDJs
  BY StageIsASequence DEF DJs
<1>2. ASSUME NEW i \in DJs
      PROVE  /\ m[i] = [j \in 1..Len(q[i]) |-> q[i][j].active /\ q[i][j].vid # cur]
             /\ q[i] \in Seq(Entry) /\ m[i] \in Seq(BOOLEAN) /\ Len(m[i]) = Len(q[i])
  <2>1. q[i] \in Seq(Entry)
    BY DEF Queues
  <2>2. m[i] = [j \in 1..Len(q[i]) |-> q[i][j].active /\ q[i][j].vid # cur]
    BY DEF PlayableMatrix
  <2>3. m[i] \in [1..Len(q[i]) -> BOOLEAN] /\ Len(q[i]) \in Nat
    BY <2>1, <2>2
  <2> HIDE DEF m
  <2>4. m[i] \in Seq(BOOLEAN) /\ Len(m[i]) = Len(q[i])
    BY <2>3
  <2> QED BY <2>1, <2>2, <2>4
<1>3. m \in [1..NumDJs -> Seq(BOOLEAN)]
  <2>1. m = [i \in 1..NumDJs |-> m[i]]
    BY <1>1 DEF PlayableMatrix
  <2> HIDE DEF m
  <2> QED BY <1>1, <1>2, <2>1
<1>4. IsMatrix(m)
  <2> HIDE DEF m
  <2> QED BY <1>1, <1>3 DEF IsMatrix
<1> QED BY <1>2, <1>4

\* What is left of an entry when slots are consumed.
Left(m, slots, i, j) == m[i][j] /\ \A k \in 1..Len(slots) : slots[k] # <<i, j>>

LEMMA ConsumedIsAMatrix ==
    ASSUME NEW m, IsMatrix(m), NEW slots
    PROVE  /\ IsMatrix(Consumed(m, slots))
           /\ Places(Consumed(m, slots)) = Places(m)
           /\ \A i \in DJs : Len(Consumed(m, slots)[i]) = Len(m[i])
           /\ \A i \in DJs : \A j \in 1..Len(m[i]) :
                 Consumed(m, slots)[i][j] = Left(m, slots, i, j)
<1> DEFINE c == Consumed(m, slots)
<1>1. NumDJs \in Nat /\ DJs = 1..NumDJs
  BY StageIsASequence DEF DJs
<1>2. ASSUME NEW i \in DJs
      PROVE  /\ c[i] = [j \in 1..Len(m[i]) |-> Left(m, slots, i, j)]
             /\ c[i] \in Seq(BOOLEAN) /\ Len(c[i]) = Len(m[i])
  <2>1. m[i] \in Seq(BOOLEAN)
    BY <1>1 DEF IsMatrix
  <2>2. c[i] = [j \in 1..Len(m[i]) |-> Left(m, slots, i, j)]
    BY DEF Consumed, Left
  <2>3. c[i] \in [1..Len(m[i]) -> BOOLEAN] /\ Len(m[i]) \in Nat
    BY <2>1, <2>2 DEF Left
  <2> HIDE DEF c
  <2>4. c[i] \in Seq(BOOLEAN) /\ Len(c[i]) = Len(m[i])
    BY <2>3
  <2> QED BY <2>2, <2>4
<1>3. c \in [1..NumDJs -> Seq(BOOLEAN)]
  <2>1. c = [i \in 1..NumDJs |-> c[i]]
    BY <1>1 DEF Consumed
  <2> HIDE DEF c
  <2> QED BY <1>1, <1>2, <2>1
<1>4. IsMatrix(c)
  <2> HIDE DEF c
  <2> QED BY <1>1, <1>3 DEF IsMatrix
<1> HIDE DEF c
<1>5. Places(c) = Places(m)
  BY <1>2 DEF Places
<1> QED BY <1>2, <1>4, <1>5 DEF c

\* Two matrices with the same entries are one.
LEMMA SameMatrix ==
    ASSUME NEW m, IsMatrix(m), NEW n, IsMatrix(n),
           \A i \in DJs : Len(m[i]) = Len(n[i]),
           \A i \in DJs : \A j \in 1..Len(m[i]) : m[i][j] = n[i][j]
    PROVE  m = n
<1>1. NumDJs \in Nat /\ DJs = 1..NumDJs
  BY StageIsASequence DEF DJs
<1>2. ASSUME NEW i \in 1..NumDJs PROVE m[i] = n[i]
  <2>1. m[i] \in Seq(BOOLEAN) /\ n[i] \in Seq(BOOLEAN) /\ Len(m[i]) = Len(n[i])
    BY <1>1 DEF IsMatrix
  <2>2. \A j \in 1..Len(m[i]) : m[i][j] = n[i][j]
    BY <1>1
  <2> QED BY <2>1, <2>2, SeqEqual
<1> QED BY <1>1, <1>2, SeqEqual DEF IsMatrix

\* What fairNext returns on the stage.
LEMMA PickIsAPlace ==
    ASSUME NEW m, IsMatrix(m), NEW last, FairNext(Stage, last, m) # NoSlot
    PROVE  LET slot == FairNext(Stage, last, m)
           IN  /\ slot \in Places(m) /\ slot = <<slot[1], slot[2]>>
               /\ m[slot[1]][slot[2]]
<1> DEFINE slot == FairNext(Stage, last, m)
<1>1. /\ slot[1] \in 1..NumDJs
      /\ slot[2] \in 1..Len(m[slot[1]])
      /\ m[slot[1]][slot[2]]
  BY StageIsASequence, FairNextIsFair DEF IsMatrix
<1>2. slot = <<slot[1], slot[2]>>
  BY DEF FairNext
<1> HIDE DEF slot
<1>3. slot \in Places(m)
  <2>1. m[slot[1]] \in Seq(BOOLEAN)
    BY <1>1 DEF IsMatrix
  <2>2. slot \in DJs \X Nat
    BY <1>1, <1>2, <2>1 DEF DJs
  <2> QED BY <1>1, <2>2 DEF Places
<1> QED BY <1>1, <1>2, <1>3 DEF slot

-----------------------------------------------------------------------------
(* Induction, as a fact about a set of naturals.                           *)

LEMMA SetOfAllNaturals ==
    ASSUME NEW S \in SUBSET Nat, 0 \in S, \A k \in S : k + 1 \in S
    PROVE  S = Nat
<1> DEFINE Out == Nat \ S
<1>1. SUFFICES ASSUME Out # {} PROVE FALSE
  OBVIOUS
<1>2. Out \in SUBSET Nat
  OBVIOUS
<1> HIDE DEF Out
<1>3. PICK m \in Out : \A k \in Out : m <= k
  BY <1>1, <1>2, LeastExists
<1>4. m \in Nat \ S /\ m # 0
  BY <1>3 DEF Out
<1>5. m - 1 \in Nat /\ m - 1 \notin Out
  BY <1>3, <1>4, <1>2
<1>6. m - 1 \in S
  BY <1>5 DEF Out
<1> QED BY <1>4, <1>6

-----------------------------------------------------------------------------
(* The rounds of fairSequence.                                             *)

\* The function Rounds defines by recursion.
Unfolds(m, last, count, f) ==
    f = [k \in 0..count |-> IF k = 0 THEN <<>> ELSE Round(m, last, f[k - 1])]

\* It exists for every count.
LEMMA RoundsAreDefined ==
    ASSUME NEW m, NEW last, NEW count \in Nat
    PROVE  \E f : Unfolds(m, last, count, f)
<1> DEFINE Step(f, k) == IF k = 0 THEN <<>> ELSE Round(m, last, f[k - 1])
           Defined(c) == \E f : f = [k \in 0..c |-> Step(f, k)]
           S == {c \in Nat : Defined(c)}
<1>1. 0 \in S
  <2>1. [k \in 0..0 |-> <<>>] = [k \in 0..0 |-> Step([j \in 0..0 |-> <<>>], k)]
    OBVIOUS
  <2> QED BY <2>1
<1>2. ASSUME NEW c \in S PROVE c + 1 \in S
  <2>1. PICK f : f = [k \in 0..c |-> Step(f, k)]
    BY <1>2
  <2> DEFINE g == [k \in 0..(c + 1) |-> IF k = c + 1 THEN Step(f, c + 1) ELSE f[k]]
  <2>2. ASSUME NEW k \in 0..(c + 1) PROVE g[k] = Step(g, k)
    <3>1. CASE k = c + 1
      BY <3>1
    <3>2. CASE k # c + 1
      <4>1. k \in 0..c /\ g[k] = f[k]
        BY <3>2
      <4>2. f[k] = Step(f, k)
        BY <2>1, <4>1
      <4>3. k # 0 => g[k - 1] = f[k - 1]
        BY <4>1
      <4> QED BY <4>1, <4>2, <4>3
    <3> QED BY <3>1, <3>2
  <2>3. g = [k \in 0..(c + 1) |-> Step(g, k)]
    <3> DEFINE h == [k \in 0..(c + 1) |-> Step(g, k)]
    <3>1. \A k \in 0..(c + 1) : g[k] = h[k]
      BY <2>2
    <3>2. g = h
      BY <3>1
    <3> QED BY <3>2
  <2> HIDE DEF g, Step
  <2> QED BY <2>3
<1>3. S \in SUBSET Nat
  OBVIOUS
<1> HIDE DEF S
<1>4. S = Nat
  BY <1>1, <1>2, <1>3, SetOfAllNaturals
<1> QED BY <1>4 DEF S, Unfolds

\* How Rounds unfolds: no round, and one round more.
LEMMA RoundsUnfold ==
    ASSUME NEW m, NEW last
    PROVE  /\ Rounds(m, last, 0) = <<>>
           /\ \A c \in Nat : Rounds(m, last, c + 1) = Round(m, last, Rounds(m, last, c))
<1> DEFINE Step(f, k) == IF k = 0 THEN <<>> ELSE Round(m, last, f[k - 1])
           F(c) == CHOOSE f : f = [k \in 0..c |-> Step(f, k)]
<1>1. ASSUME NEW c \in Nat
      PROVE  /\ Rounds(m, last, c) = F(c)[c]
             /\ F(c) = [k \in 0..c |-> Step(F(c), k)]
  <2> DEFINE G == CHOOSE f : f = [k \in 0..c |-> Step(f, k)]
  <2>1. Rounds(m, last, c) = G[c]
    BY Zenon DEF Rounds
  <2>2. \E f : f = [k \in 0..c |-> Step(f, k)]
    <3>1. \E f : Unfolds(m, last, c, f)
      BY RoundsAreDefined
    <3> QED BY Zenon, <3>1 DEF Unfolds
  <2>3. G = [k \in 0..c |-> Step(G, k)]
    BY Zenon, <2>2
  <2>4. F(c) = G
    OBVIOUS
  <2> HIDE DEF G, F, Step
  <2> QED BY <2>1, <2>3, <2>4
<1> HIDE DEF F
<1>2. ASSUME NEW c \in Nat
      PROVE  /\ F(c)[0] = <<>>
             /\ \A k \in 1..c : F(c)[k] = Round(m, last, F(c)[k - 1])
  <2>1. ASSUME NEW k \in 0..c PROVE F(c)[k] = Step(F(c), k)
    <3> HIDE DEF Step
    <3> QED BY <1>1
  <2> QED BY <2>1
<1>3. ASSUME NEW c \in Nat PROVE F(c + 1)[c] = F(c)[c]
  <2> DEFINE S == {k \in Nat : k <= c => F(c + 1)[k] = F(c)[k]}
  <2>1. 0 \in S
    BY <1>2
  <2>2. ASSUME NEW k \in S PROVE k + 1 \in S
    <3>1. CASE k + 1 <= c
      <4>1. F(c + 1)[k] = F(c)[k] /\ k \in Nat
        BY <3>1
      <4>2. /\ F(c)[k + 1] = Round(m, last, F(c)[k])
            /\ F(c + 1)[k + 1] = Round(m, last, F(c + 1)[k])
        <5>1. k + 1 \in 1..c /\ k + 1 \in 1..(c + 1) /\ (k + 1) - 1 = k /\ c + 1 \in Nat
          BY <3>1, <4>1
        <5> QED BY <1>2, <5>1
      <4> QED BY <4>1, <4>2
    <3>2. CASE ~(k + 1 <= c)
      BY <3>2
    <3> QED BY <3>1, <3>2
  <2>3. S \in SUBSET Nat
    OBVIOUS
  <2> HIDE DEF S
  <2>4. S = Nat
    BY <2>1, <2>2, <2>3, SetOfAllNaturals
  <2> QED BY <2>4 DEF S
<1>4. ASSUME NEW c \in Nat
      PROVE  Rounds(m, last, c + 1) = Round(m, last, Rounds(m, last, c))
  <2>1. /\ Rounds(m, last, c + 1) = F(c + 1)[c + 1]
        /\ Rounds(m, last, c) = F(c)[c]
    BY <1>1
  <2>2. F(c + 1)[c + 1] = Round(m, last, F(c + 1)[c])
    <3>1. c + 1 \in 1..(c + 1) /\ (c + 1) - 1 = c /\ c + 1 \in Nat
      OBVIOUS
    <3> QED BY <1>2, <3>1
  <2> QED BY <1>3, <2>1, <2>2
<1>5. Rounds(m, last, 0) = <<>>
  BY <1>1, <1>2
<1> QED BY <1>4, <1>5

\* The DJ a round starts after.
LastDJ(last, slots) == IF slots = <<>> THEN last ELSE slots[Len(slots)][1]

\* A round adds at most one slot, a place of the matrix.
LEMMA RoundAddsAPlace ==
    ASSUME NEW m, IsMatrix(m), NEW last, NEW slots \in Seq(Places(m))
    PROVE  LET p == FairNext(Stage, LastDJ(last, slots), Consumed(m, slots))
           IN  /\ p = NoSlot => Round(m, last, slots) = slots
               /\ p # NoSlot => /\ Round(m, last, slots) = Append(slots, p)
                                /\ p \in Places(m)
<1> DEFINE p == FairNext(Stage, LastDJ(last, slots), Consumed(m, slots))
<1>1. Round(m, last, slots) = IF p = NoSlot THEN slots ELSE Append(slots, p)
  BY DEF Round, LastDJ
<1>2. p # NoSlot => p \in Places(m)
  <2>1. IsMatrix(Consumed(m, slots)) /\ Places(Consumed(m, slots)) = Places(m)
    BY ConsumedIsAMatrix
  <2> QED BY <2>1, PickIsAPlace
<1> HIDE DEF p
<1> QED BY <1>1, <1>2 DEF p

\* The slots of some rounds are places, and not more than the rounds.
LEMMA RoundsArePlaces ==
    ASSUME NEW m, IsMatrix(m), NEW last, NEW count \in Nat
    PROVE  /\ Rounds(m, last, count) \in Seq(Places(m))
           /\ Len(Rounds(m, last, count)) <= count
<1> DEFINE Good(c) == /\ Rounds(m, last, c) \in Seq(Places(m))
                      /\ Len(Rounds(m, last, c)) <= c
           S == {c \in Nat : Good(c)}
<1>1. 0 \in S
  <2>1. Rounds(m, last, 0) = <<>>
    BY RoundsUnfold
  <2>2. PICK none : none = Rounds(m, last, 0)
    OBVIOUS
  <2>3. none \in Seq(Places(m)) /\ Len(none) <= 0
    <3>1. <<>> \in Seq(Places(m)) /\ Len(<<>>) <= 0
      OBVIOUS
    <3>2. none = <<>>
      BY <2>1, <2>2
    <3> QED BY <3>1, <3>2
  <2>4. Good(0)
    BY <2>2, <2>3
  <2> QED BY <2>4
<1>2. ASSUME NEW c \in S PROVE c + 1 \in S
  <2> DEFINE slots == Rounds(m, last, c)
             p == FairNext(Stage, LastDJ(last, slots), Consumed(m, slots))
  <2>1. c \in Nat /\ slots \in Seq(Places(m)) /\ Len(slots) <= c
    OBVIOUS
  <2>2. Rounds(m, last, c + 1) = Round(m, last, slots)
    BY <2>1, RoundsUnfold
  <2>3. /\ p = NoSlot => Round(m, last, slots) = slots
        /\ p # NoSlot => Round(m, last, slots) = Append(slots, p) /\ p \in Places(m)
    BY <2>1, RoundAddsAPlace
  <2> HIDE DEF slots, p
  <2>4. Good(c + 1)
    BY <2>1, <2>2, <2>3
  <2> QED BY <2>1, <2>4
<1>3. S \in SUBSET Nat
  OBVIOUS
<1> HIDE DEF S
<1>4. S = Nat
  BY <1>1, <1>2, <1>3, SetOfAllNaturals
<1> QED BY <1>4 DEF S

\* Nothing is consumed by no slots.
LEMMA ConsumedByNone ==
    ASSUME NEW m, IsMatrix(m)
    PROVE  Consumed(m, <<>>) = m
<1> DEFINE c == Consumed(m, <<>>)
<1>1. /\ IsMatrix(c) /\ \A i \in DJs : Len(c[i]) = Len(m[i])
      /\ \A i \in DJs : \A j \in 1..Len(m[i]) :
            c[i][j] = Left(m, <<>>, i, j)
  BY ConsumedIsAMatrix
<1>2. ASSUME NEW i \in DJs, NEW j \in 1..Len(m[i]) PROVE c[i][j] = m[i][j]
  <2>1. m[i] \in Seq(BOOLEAN)
    BY StageIsASequence DEF IsMatrix, DJs
  <2>2. m[i][j] \in BOOLEAN /\ \A k \in 1..Len(<<>>) : (<<>>)[k] # <<i, j>>
    BY <2>1
  <2>3. Left(m, <<>>, i, j) = m[i][j]
    BY <2>2 DEF Left
  <2> QED BY <1>1, <2>3
<1> HIDE DEF c
<1>3. c = m
  BY <1>1, <1>2, SameMatrix
<1> QED BY <1>3 DEF c

\* Consuming a first slot and then others is consuming them together.
LEMMA ConsumedAgain ==
    ASSUME NEW m, IsMatrix(m), NEW slot \in Places(m), NEW slots \in Seq(Places(m))
    PROVE  Consumed(Consumed(m, <<slot>>), slots) = Consumed(m, <<slot>> \o slots)
<1> DEFINE one == <<slot>>
           all == one \o slots
           n == Consumed(m, one)
           c == Consumed(n, slots)
           d == Consumed(m, all)
<1>1. /\ IsMatrix(n) /\ \A i \in DJs : Len(n[i]) = Len(m[i])
      /\ \A i \in DJs : \A j \in 1..Len(m[i]) :
            n[i][j] = Left(m, one, i, j)
  BY ConsumedIsAMatrix
<1>2. /\ IsMatrix(d) /\ \A i \in DJs : Len(d[i]) = Len(m[i])
      /\ \A i \in DJs : \A j \in 1..Len(m[i]) :
            d[i][j] = Left(m, all, i, j)
  BY ConsumedIsAMatrix
<1>3. /\ Len(one) = 1 /\ one[1] = slot
      /\ Len(slots) \in Nat /\ Len(all) = Len(slots) + 1
      /\ all[1] = slot
      /\ \A k \in 1..Len(slots) : all[k + 1] = slots[k]
  OBVIOUS
<1> HIDE DEF n, one
<1>4. /\ IsMatrix(c) /\ \A i \in DJs : Len(c[i]) = Len(n[i])
      /\ \A i \in DJs : \A j \in 1..Len(n[i]) :
            c[i][j] = Left(n, slots, i, j)
  BY <1>1, ConsumedIsAMatrix
<1> HIDE DEF c, d, all
<1>5. ASSUME NEW i \in DJs, NEW j \in 1..Len(m[i]) PROVE c[i][j] = d[i][j]
  <2>1. (\A k \in 1..Len(all) : all[k] # <<i, j>>)
          <=> (slot # <<i, j>> /\ \A k \in 1..Len(slots) : slots[k] # <<i, j>>)
    <3>1. ASSUME \A k \in 1..Len(all) : all[k] # <<i, j>>
          PROVE  slot # <<i, j>> /\ \A k \in 1..Len(slots) : slots[k] # <<i, j>>
      <4>1. 1 \in 1..Len(all) /\ \A k \in 1..Len(slots) : k + 1 \in 1..Len(all)
        BY <1>3
      <4> QED BY <1>3, <3>1, <4>1
    <3>2. ASSUME slot # <<i, j>>, \A k \in 1..Len(slots) : slots[k] # <<i, j>>,
                 NEW k \in 1..Len(all)
          PROVE  all[k] # <<i, j>>
      <4>1. CASE k = 1
        BY <1>3, <3>2, <4>1
      <4>2. CASE k # 1
        <5>1. k - 1 \in 1..Len(slots) /\ (k - 1) + 1 = k
          BY <1>3, <4>2
        <5> QED BY <1>3, <3>2, <5>1
      <4> QED BY <4>1, <4>2
    <3> QED BY <3>1, <3>2
  <2>2. (\A k \in 1..Len(one) : one[k] # <<i, j>>) <=> slot # <<i, j>>
    <3>1. \A k \in 1..Len(one) : k = 1
      BY <1>3
    <3>2. 1 \in 1..Len(one)
      BY <1>3
    <3> QED BY <1>3, <3>1, <3>2, Zenon
  <2>3. j \in 1..Len(n[i])
    BY <1>1
  <2>4. c[i][j] = Left(n, slots, i, j)
    BY <1>4, <2>3, Zenon
  <2>5. n[i][j] = Left(m, one, i, j)
    BY <1>1, Zenon
  <2>6. d[i][j] = Left(m, all, i, j)
    BY <1>2, Zenon
  <2>7. c[i][j] = Left(m, all, i, j)
    <3>1. Left(n, slots, i, j) = Left(m, all, i, j)
      BY <2>1, <2>2, <2>5, Zenon DEF Left
    <3> QED BY <2>4, <3>1
  <2> QED BY <2>6, <2>7
<1>6. \A i \in DJs : Len(c[i]) = Len(d[i]) /\ Len(c[i]) = Len(m[i])
  BY <1>1, <1>2, <1>4
<1>7. c = d
  <2>1. \A i \in DJs : \A j \in 1..Len(c[i]) : c[i][j] = d[i][j]
    BY <1>5, <1>6
  <2> QED BY <1>2, <1>4, <1>6, <2>1, SameMatrix
<1> QED BY <1>7 DEF c, d, n, one, all

\* The first slot, and then the rounds on what it leaves.
LEMMA RoundsStart ==
    ASSUME NEW m, IsMatrix(m), NEW last,
           FairNext(Stage, last, m) # NoSlot, NEW count \in Nat
    PROVE  LET slot == FairNext(Stage, last, m)
           IN  Rounds(m, last, count + 1)
                 = <<slot>> \o Rounds(Consumed(m, <<slot>>), slot[1], count)
<1> DEFINE slot == FairNext(Stage, last, m)
           n == Consumed(m, <<slot>>)
           Good(c) == Rounds(m, last, c + 1) = <<slot>> \o Rounds(n, slot[1], c)
           S == {c \in Nat : Good(c)}
<1>1. slot \in Places(m) /\ IsMatrix(n) /\ Places(n) = Places(m)
  BY PickIsAPlace, ConsumedIsAMatrix
<1>2. 0 \in S
  <2>1. Rounds(m, last, 0) = <<>> /\ Rounds(n, slot[1], 0) = <<>>
    BY RoundsUnfold
  <2>2. Rounds(m, last, 0 + 1) = Round(m, last, <<>>)
    <3>1. 0 \in Nat
      OBVIOUS
    <3> QED BY <2>1, <3>1, RoundsUnfold, Zenon
  <2>3. LastDJ(last, <<>>) = last /\ Consumed(m, <<>>) = m /\ <<>> \in Seq(Places(m))
    BY ConsumedByNone DEF LastDJ
  <2>4. Round(m, last, <<>>) = Append(<<>>, slot)
    <3>1. slot = FairNext(Stage, LastDJ(last, <<>>), Consumed(m, <<>>)) /\ slot # NoSlot
      BY <2>3
    <3> HIDE DEF slot
    <3> QED BY <2>3, <3>1, RoundAddsAPlace
  <2> HIDE DEF slot, n
  <2>5. Append(<<>>, slot) = <<slot>> \o <<>>
    BY <1>1
  <2> QED BY <2>1, <2>2, <2>4, <2>5
<1>3. ASSUME NEW c \in S PROVE c + 1 \in S
  <2> DEFINE some == Rounds(n, slot[1], c)
             all == <<slot>> \o some
             p == FairNext(Stage, LastDJ(slot[1], some), Consumed(n, some))
             q == FairNext(Stage, LastDJ(last, all), Consumed(m, all))
  <2>1. c \in Nat /\ c + 1 \in Nat /\ Rounds(m, last, c + 1) = all
    OBVIOUS
  <2>2. some \in Seq(Places(m))
    BY <1>1, <2>1, RoundsArePlaces
  <2> HIDE DEF slot, n
  <2>3. Rounds(n, slot[1], c + 1) = Round(n, slot[1], some)
    BY <2>1, RoundsUnfold
  <2> HIDE DEF some
  <2>4. Rounds(m, last, (c + 1) + 1) = Round(m, last, all)
    BY <2>1, RoundsUnfold
  <2>5. Consumed(n, some) = Consumed(m, all)
    BY <1>1, <2>2, ConsumedAgain DEF n
  <2>6. LastDJ(last, all) = LastDJ(slot[1], some) /\ all \in Seq(Places(m))
    BY <1>1, <2>2 DEF LastDJ
  <2>7. /\ p = NoSlot => Round(m, last, all) = all
        /\ p # NoSlot => Round(m, last, all) = Append(all, p) /\ p \in Places(m)
    <3>1. p = q
      BY <2>5, <2>6
    <3>2. /\ q = NoSlot => Round(m, last, all) = all
          /\ q # NoSlot => Round(m, last, all) = Append(all, q) /\ q \in Places(m)
      BY <2>6, RoundAddsAPlace
    <3> HIDE DEF p, q
    <3> QED BY <3>1, <3>2
  <2>8. /\ p = NoSlot => Round(n, slot[1], some) = some
        /\ p # NoSlot => Round(n, slot[1], some) = Append(some, p)
    BY <1>1, <2>2, RoundAddsAPlace
  <2> HIDE DEF p
  <2>9. p # NoSlot => Append(all, p) = <<slot>> \o Append(some, p)
    BY <1>1, <2>2, <2>7
  <2> HIDE DEF all
  <2>10. Round(m, last, all) = <<slot>> \o Round(n, slot[1], some)
    BY <2>7, <2>8, <2>9 DEF all
  <2>11. Good(c + 1)
    BY <2>3, <2>4, <2>10
  <2> QED BY <2>1, <2>11
<1>4. S \in SUBSET Nat
  OBVIOUS
<1> HIDE DEF S
<1>5. S = Nat
  BY <1>2, <1>3, <1>4, SetOfAllNaturals
<1> QED BY <1>5 DEF S

\* Without an offer there is no round.
LEMMA NoRounds ==
    ASSUME NEW m, IsMatrix(m), NEW last,
           FairNext(Stage, last, m) = NoSlot, NEW count \in Nat
    PROVE  Rounds(m, last, count) = <<>>
<1> DEFINE S == {c \in Nat : Rounds(m, last, c) = <<>>}
<1>1. 0 \in S
  BY RoundsUnfold
<1>2. ASSUME NEW c \in S PROVE c + 1 \in S
  <2>1. Rounds(m, last, c + 1) = Round(m, last, <<>>)
    BY RoundsUnfold
  <2>2. LastDJ(last, <<>>) = last /\ Consumed(m, <<>>) = m /\ <<>> \in Seq(Places(m))
    BY ConsumedByNone DEF LastDJ
  <2>3. Round(m, last, <<>>) = <<>>
    BY <2>2, RoundAddsAPlace
  <2> QED BY <2>1, <2>3
<1>3. S \in SUBSET Nat
  OBVIOUS
<1> HIDE DEF S
<1>4. S = Nat
  BY <1>1, <1>2, <1>3, SetOfAllNaturals
<1> QED BY <1>4 DEF S

-----------------------------------------------------------------------------
(* One advance.                                                            *)

Track == [dj : DJs, vid : Videos]

TypeInv ==
    /\ queue \in Queues
    /\ np \in [dj : DJs \cup {NoDJ}, vid : Videos]
    /\ heard \in Seq(Track) /\ Len(heard) <= Count
    /\ Len(upNext) <= Count

\* Whether a track of DJ i is the one a pick marks off.
IsPicked(q, slot, i, j) == i = slot[1] /\ q[i][j].vid = q[slot[1]][slot[2]].vid

LEMMA MarkedRow ==
    ASSUME NEW row \in Seq(Entry), NEW v
    PROVE  LET r == MarkTrackOff(row, v)
           IN  /\ r \in Seq(Entry) /\ Len(r) = Len(row)
               /\ \A j \in 1..Len(row) :
                     /\ r[j].vid = row[j].vid
                     /\ r[j].active <=> row[j].active /\ row[j].vid # v
<1> DEFINE r == MarkTrackOff(row, v)
<1>1. /\ Len(row) \in Nat
      /\ r = [j \in 1..Len(row) |->
                 IF row[j].vid = v THEN [row[j] EXCEPT !.active = FALSE] ELSE row[j]]
  BY DEF MarkTrackOff
<1>2. ASSUME NEW j \in 1..Len(row)
      PROVE  r[j] \in Entry /\ r[j].vid = row[j].vid
             /\ (r[j].active <=> row[j].active /\ row[j].vid # v)
  <2>1. row[j] \in Entry
    OBVIOUS
  <2>2. CASE row[j].vid = v
    <3>1. r[j] = [row[j] EXCEPT !.active = FALSE]
      BY <1>1, <2>2
    <3> QED BY <2>1, <2>2, <3>1 DEF Entry
  <2>3. CASE row[j].vid # v
    <3>1. r[j] = row[j]
      BY <1>1, <2>3
    <3> QED BY <2>1, <2>3, <3>1
  <2> QED BY <2>2, <2>3
<1>3. r \in [1..Len(row) -> Entry]
  <2>1. r = [j \in 1..Len(row) |-> r[j]]
    BY <1>1
  <2> HIDE DEF r
  <2> QED BY <1>2, <2>1
<1> HIDE DEF r
<1>4. r \in Seq(Entry) /\ Len(r) = Len(row)
  BY <1>1, <1>3
<1> QED BY <1>2, <1>4 DEF r

\* What Advance changes.
LEMMA AdvanceMarks ==
    ASSUME TypeInv, Advance
    PROVE  /\ Picked \in Places(PlayableMatrix(queue, np.vid))
           /\ Picked # NoSlot
           /\ Picked[1] \in DJs /\ Picked[2] \in 1..Len(queue[Picked[1]])
           /\ Picked = <<Picked[1], Picked[2]>>
           /\ queue[Picked[1]][Picked[2]].active
           /\ queue' \in Queues
           /\ np' = [dj |-> Picked[1], vid |-> queue[Picked[1]][Picked[2]].vid]
           /\ np' \in Track
           /\ heard' = Append(heard, np') /\ Len(heard) < Count
           /\ upNext' = upNext
           /\ \A i \in DJs : Len(queue'[i]) = Len(queue[i])
           /\ \A i \in DJs : \A j \in 1..Len(queue[i]) :
                 /\ queue'[i][j].vid = queue[i][j].vid
                 /\ queue'[i][j].active
                       <=> queue[i][j].active /\ ~IsPicked(queue, Picked, i, j)
<1> DEFINE m == PlayableMatrix(queue, np.vid)
<1>1. IsMatrix(m) /\ queue \in Queues
  BY PlayableIsAMatrix DEF TypeInv
<1>2. Picked = FairNext(Stage, np.dj, m) /\ Picked # NoSlot
  BY DEF Advance, Picked
<1>3. PICK slot : slot = Picked
  OBVIOUS
<1>4. slot \in Places(m) /\ slot = <<slot[1], slot[2]>> /\ m[slot[1]][slot[2]]
  <2> HIDE DEF m
  <2> QED BY <1>1, <1>2, <1>3, PickIsAPlace
<1>5. slot[1] \in DJs /\ slot[2] \in 1..Len(m[slot[1]])
  <2> HIDE DEF m
  <2> QED BY <1>4 DEF Places
<1>6. /\ \A i \in DJs : queue[i] \in Seq(Entry) /\ Len(m[i]) = Len(queue[i])
      /\ \A i \in DJs : \A j \in 1..Len(queue[i]) :
            m[i][j] = (queue[i][j].active /\ queue[i][j].vid # np.vid)
  BY <1>1, PlayableIsAMatrix
<1>7. slot[2] \in 1..Len(queue[slot[1]]) /\ queue[slot[1]][slot[2]].active
  <2> HIDE DEF m
  <2>1. slot[2] \in 1..Len(queue[slot[1]])
    BY <1>5, <1>6
  <2>2. m[slot[1]][slot[2]]
          = (queue[slot[1]][slot[2]].active /\ queue[slot[1]][slot[2]].vid # np.vid)
    BY <1>5, <1>6, <2>1, Zenon
  <2> QED BY <1>4, <2>1, <2>2
<1>8. PICK v : v = queue[slot[1]][slot[2]].vid
  OBVIOUS
<1>9. v \in Videos
  <2>1. queue[slot[1]][slot[2]] \in Entry
    BY <1>5, <1>6, <1>7
  <2> QED BY <1>8, <2>1 DEF Entry
<1>10. /\ queue' = [queue EXCEPT ![slot[1]] = MarkTrackOff(queue[slot[1]], v)]
       /\ np' = [dj |-> slot[1], vid |-> v]
       /\ heard' = Append(heard, np') /\ Len(heard) < Count
       /\ upNext' = upNext
  BY <1>3, <1>8 DEF Advance
<1>11. PICK row : row = MarkTrackOff(queue[slot[1]], v)
  OBVIOUS
<1>12. /\ row \in Seq(Entry) /\ Len(row) = Len(queue[slot[1]])
       /\ \A j \in 1..Len(row) :
             /\ row[j].vid = queue[slot[1]][j].vid
             /\ row[j].active <=> queue[slot[1]][j].active /\ queue[slot[1]][j].vid # v
  BY <1>5, <1>6, <1>11, MarkedRow
<1>13. /\ \A i \in DJs : queue'[i] = IF i = slot[1] THEN row ELSE queue[i]
       /\ queue' \in [DJs -> Seq(Entry)]
  BY <1>1, <1>5, <1>10, <1>11, <1>12 DEF Queues
<1>14. np' \in Track
  BY <1>5, <1>9, <1>10 DEF Track
<1>15. \A i \in DJs : Len(queue'[i]) = Len(queue[i])
  BY <1>12, <1>13
<1>16. ASSUME NEW i \in DJs, NEW j \in 1..Len(queue[i])
       PROVE  /\ queue'[i][j].vid = queue[i][j].vid
              /\ queue'[i][j].active
                    <=> queue[i][j].active /\ ~IsPicked(queue, Picked, i, j)
  <2>1. CASE i = slot[1]
    <3>1. queue'[i] = row /\ j \in 1..Len(row)
      BY <1>12, <1>13, <2>1
    <3>2. /\ row[j].vid = queue[i][j].vid
          /\ row[j].active <=> queue[i][j].active /\ queue[i][j].vid # v
      BY <1>12, <2>1, <3>1
    <3> QED BY <1>3, <1>8, <2>1, <3>1, <3>2 DEF IsPicked
  <2>2. CASE i # slot[1]
    BY <1>3, <1>13, <2>2 DEF IsPicked
  <2> QED BY <2>1, <2>2
<1> QED BY <1>2, <1>3, <1>4, <1>5, <1>7, <1>8, <1>10, <1>13, <1>14, <1>15, <1>16 DEF Queues

\* What the client would announce for these slots.
TracksAt(q, slots) ==
    [k \in 1..Len(slots) |-> [dj |-> slots[k][1], vid |-> q[slots[k][1]][slots[k][2]].vid]]

Rest == Rounds(PlayableMatrix(queue, np.vid), np.dj, Count - Len(heard))

LEMMA InitTyped == Init => TypeInv /\ upNext = TracksAt(queue, Rest) /\ heard = <<>>
<1> SUFFICES ASSUME Init PROVE TypeInv /\ upNext = TracksAt(queue, Rest) /\ heard = <<>>
  OBVIOUS
<1>1. queue \in Queues /\ np \in [dj : DJs \cup {NoDJ}, vid : Videos] /\ heard = <<>>
  BY UpNextAssumption DEF UpNextAssumption, Init, Queues, Entry
<1>2. heard \in Seq(Track) /\ Len(heard) = 0
  BY <1>1
<1>3. Count \in Nat /\ Count - Len(heard) = Count
  BY <1>2, StageIsASequence
<1>4. PICK slots : slots = Rest
  OBVIOUS
<1>5. slots \in Seq(Places(PlayableMatrix(queue, np.vid))) /\ Len(slots) <= Count
  <2>1. IsMatrix(PlayableMatrix(queue, np.vid))
    BY <1>1, PlayableIsAMatrix
  <2>2. slots = Rounds(PlayableMatrix(queue, np.vid), np.dj, Count)
    BY <1>3, <1>4 DEF Rest
  <2> QED BY <1>3, <2>1, <2>2, RoundsArePlaces
<1>6. upNext = TracksAt(queue, slots)
  BY <1>3, <1>4 DEF Init, UpcomingTracks, FairSequence, TracksAt, Rest
<1>7. Len(upNext) = Len(slots)
  BY <1>5, <1>6 DEF TracksAt
<1> QED BY <1>1, <1>2, <1>3, <1>4, <1>5, <1>6, <1>7 DEF TypeInv

LEMMA StepTyped == TypeInv /\ [Next]_vars => TypeInv'
<1> SUFFICES ASSUME TypeInv, [Next]_vars PROVE TypeInv'
  OBVIOUS
<1>1. CASE Advance
  <2>1. /\ queue' \in Queues /\ np' \in Track
        /\ heard' = Append(heard, np') /\ Len(heard) < Count
        /\ upNext' = upNext
    BY <1>1, AdvanceMarks
  <2>2. heard \in Seq(Track) /\ Count \in Nat
    BY StageIsASequence DEF TypeInv
  <2>3. heard' \in Seq(Track) /\ Len(heard') <= Count
    BY <2>1, <2>2
  <2>4. np' \in [dj : DJs \cup {NoDJ}, vid : Videos]
    BY <2>1 DEF Track
  <2> QED BY <2>1, <2>3, <2>4 DEF TypeInv
<1>2. CASE UNCHANGED vars
  BY <1>2 DEF TypeInv, vars
<1> QED BY <1>1, <1>2 DEF Next

-----------------------------------------------------------------------------
(* The preview is honoured.                                                *)

\* With no video twice, the picked one is queued at the picked slot only.
LEMMA PickedOnce ==
    ASSUME DistinctVideos, NEW i \in DJs, NEW j \in 1..Len(queue[i]),
           Picked[1] \in DJs, Picked[2] \in 1..Len(queue[Picked[1]]),
           Picked = <<Picked[1], Picked[2]>>
    PROVE  /\ queue[i][j].vid = queue[Picked[1]][Picked[2]].vid => Picked = <<i, j>>
           /\ IsPicked(queue, Picked, i, j) <=> Picked = <<i, j>>
<1>1. PICK p : p = Picked
  OBVIOUS
<1>2. queue[i][j].vid = queue[p[1]][p[2]].vid => i = p[1] /\ j = p[2]
  BY <1>1 DEF DistinctVideos
<1>3. p = <<i, j>> <=> p[1] = i /\ p[2] = j
  BY <1>1
<1> QED BY <1>1, <1>2, <1>3 DEF IsPicked

LEMMA DistinctStep ==
    ASSUME TypeInv, DistinctVideos, Advance
    PROVE  /\ DistinctVideos'
           /\ PlayableMatrix(queue', np'.vid)
                 = Consumed(PlayableMatrix(queue, np.vid), <<Picked>>)
<1> DEFINE m == PlayableMatrix(queue, np.vid)
           n == PlayableMatrix(queue', np'.vid)
           c == Consumed(m, <<Picked>>)
<1>1. /\ Picked \in Places(m)
      /\ Picked[1] \in DJs /\ Picked[2] \in 1..Len(queue[Picked[1]])
      /\ Picked = <<Picked[1], Picked[2]>>
      /\ queue' \in Queues
      /\ np'.vid = queue[Picked[1]][Picked[2]].vid
      /\ \A i \in DJs : Len(queue'[i]) = Len(queue[i])
      /\ \A i \in DJs : \A j \in 1..Len(queue[i]) :
            /\ queue'[i][j].vid = queue[i][j].vid
            /\ queue'[i][j].active
                  <=> queue[i][j].active /\ ~IsPicked(queue, Picked, i, j)
  BY AdvanceMarks
<1>2. PICK v : v = np'.vid
  OBVIOUS
<1>3. ASSUME NEW i \in DJs, NEW j \in 1..Len(queue[i])
      PROVE  /\ queue'[i][j].vid = queue[i][j].vid
             /\ queue'[i][j].active <=> queue[i][j].active /\ Picked # <<i, j>>
             /\ queue'[i][j].active => queue'[i][j].vid # v
  <2>1. /\ queue[i][j].vid = v => Picked = <<i, j>>
        /\ IsPicked(queue, Picked, i, j) <=> Picked = <<i, j>>
    BY <1>1, <1>2, PickedOnce
  <2>2. /\ queue'[i][j].vid = queue[i][j].vid
        /\ queue'[i][j].active
              <=> queue[i][j].active /\ ~IsPicked(queue, Picked, i, j)
    BY <1>1
  <2> QED BY <2>1, <2>2
<1>4. DistinctVideos'
  <2>1. ASSUME NEW d \in DJs, NEW e \in DJs,
               NEW i \in 1..Len(queue'[d]), NEW j \in 1..Len(queue'[e])
        PROVE  /\ queue'[d][i].vid = queue'[e][j].vid => d = e /\ i = j
               /\ queue'[d][i].active => queue'[d][i].vid # v
    <3>1. i \in 1..Len(queue[d]) /\ j \in 1..Len(queue[e])
      BY <1>1
    <3>2. queue[d][i].vid = queue[e][j].vid => d = e /\ i = j
      BY <3>1 DEF DistinctVideos
    <3> QED BY <1>3, <3>1, <3>2
  <2>2. DJs' = DJs
    BY DEF DJs
  <2> QED BY <1>2, <2>1, <2>2 DEF DistinctVideos
<1>5. /\ IsMatrix(m) /\ queue \in Queues
      /\ \A i \in DJs : Len(m[i]) = Len(queue[i])
      /\ \A i \in DJs : \A j \in 1..Len(queue[i]) :
            m[i][j] = (queue[i][j].active /\ queue[i][j].vid # np.vid)
  BY PlayableIsAMatrix DEF TypeInv
<1>6. PICK q : q = queue'
  OBVIOUS
<1>7. /\ n = PlayableMatrix(q, v) /\ IsMatrix(n)
      /\ \A i \in DJs : q[i] \in Seq(Entry) /\ Len(n[i]) = Len(q[i])
      /\ \A i \in DJs : \A j \in 1..Len(q[i]) :
            n[i][j] = (q[i][j].active /\ q[i][j].vid # v)
  <2>1. q \in Queues /\ n = PlayableMatrix(q, v)
    BY <1>1, <1>2, <1>6
  <2> HIDE DEF n
  <2> QED BY <2>1, PlayableIsAMatrix
<1>8. /\ IsMatrix(c)
      /\ \A i \in DJs : Len(c[i]) = Len(m[i])
      /\ \A i \in DJs : \A j \in 1..Len(m[i]) : c[i][j] = Left(m, <<Picked>>, i, j)
  <2> HIDE DEF m
  <2> QED BY <1>5, ConsumedIsAMatrix
<1>9. ASSUME NEW i \in DJs, NEW j \in 1..Len(queue[i]) PROVE n[i][j] = c[i][j]
  <2> DEFINE on == queue[i][j].active /\ Picked # <<i, j>>
  <2>1. n[i][j] = (q[i][j].active /\ q[i][j].vid # v)
    <3>1. j \in 1..Len(q[i])
      BY <1>1, <1>6
    <3> HIDE DEF n
    <3> QED BY <1>7, <3>1, Zenon
  <2>2. (q[i][j].active /\ q[i][j].vid # v) <=> on
    BY <1>3, <1>6
  <2>3. c[i][j] = Left(m, <<Picked>>, i, j)
    <3> HIDE DEF c, m
    <3> QED BY <1>5, <1>8
  <2>4. Left(m, <<Picked>>, i, j) = (m[i][j] /\ Picked # <<i, j>>)
    <3> HIDE DEF m
    <3>1. \A k : k \in 1..Len(<<Picked>>) <=> k = 1
      OBVIOUS
    <3>2. (<<Picked>>)[1] = Picked
      OBVIOUS
    <3> QED BY <3>1, <3>2, Zenon DEF Left
  <2>5. m[i][j] <=> queue[i][j].active
    <3>1. m[i][j] = (queue[i][j].active /\ queue[i][j].vid # np.vid)
      BY <1>5, Zenon
    <3>2. queue[i][j].active => queue[i][j].vid # np.vid
      BY DEF DistinctVideos
    <3> HIDE DEF m
    <3> QED BY <3>1, <3>2
  <2> HIDE DEF n, c, m
  <2> QED BY <2>1, <2>2, <2>3, <2>4, <2>5, Zenon
<1>10. \A i \in DJs : Len(n[i]) = Len(c[i]) /\ Len(n[i]) = Len(queue[i])
  <2> HIDE DEF n, c, m
  <2> QED BY <1>1, <1>5, <1>6, <1>7, <1>8
<1>11. n = c
  <2> HIDE DEF n, c, m
  <2> QED BY <1>7, <1>8, <1>9, <1>10, SameMatrix
<1> QED BY <1>4, <1>11

\* What has been heard, and what is left of the preview.
HonourInv ==
    /\ TypeInv
    /\ DistinctVideos
    /\ upNext = heard \o TracksAt(queue, Rest)

LEMMA InitHonours == DistinctInit => HonourInv
<1> SUFFICES ASSUME DistinctInit PROVE HonourInv
  OBVIOUS
<1>1. TypeInv /\ upNext = TracksAt(queue, Rest) /\ heard = <<>> /\ DistinctVideos
  BY InitTyped DEF DistinctInit
<1>2. <<>> \o TracksAt(queue, Rest) = TracksAt(queue, Rest)
  BY DEF TracksAt
<1> QED BY <1>1, <1>2 DEF HonourInv

\* The first of the announced tracks, and the others.
LEMMA TracksSplit ==
    ASSUME NEW q, NEW P, NEW slot \in P, NEW slots \in Seq(P)
    PROVE  TracksAt(q, <<slot>> \o slots)
             = <<[dj |-> slot[1], vid |-> q[slot[1]][slot[2]].vid]>> \o TracksAt(q, slots)
<1> DEFINE t(s) == [dj |-> s[1], vid |-> q[s[1]][s[2]].vid]
           all == <<slot>> \o slots
           T == {t(s) : s \in P}
<1>1. /\ all \in Seq(P) /\ Len(slots) \in Nat /\ Len(all) = Len(slots) + 1
      /\ all[1] = slot /\ \A k \in 2..Len(all) : all[k] = slots[k - 1]
  OBVIOUS
<1>2. /\ TracksAt(q, slots) = [k \in 1..Len(slots) |-> t(slots[k])]
      /\ TracksAt(q, all) = [k \in 1..Len(all) |-> t(all[k])]
  BY DEF TracksAt
<1> HIDE DEF t, all
<1>3. TracksAt(q, slots) \in Seq(T) /\ Len(TracksAt(q, slots)) = Len(slots)
  <2>1. TracksAt(q, slots) \in [1..Len(slots) -> T]
    BY <1>2
  <2> QED BY <1>1, <2>1
<1>4. TracksAt(q, all) \in Seq(T) /\ Len(TracksAt(q, all)) = Len(all)
  <2>1. TracksAt(q, all) \in [1..Len(all) -> T]
    BY <1>1, <1>2
  <2> QED BY <1>1, <2>1
<1>5. PICK u \in Seq(T) : u = TracksAt(q, slots)
  BY <1>3
<1>6. t(slot) \in T
  OBVIOUS
<1> HIDE DEF T
<1>7. /\ <<t(slot)>> \o u \in Seq(T) /\ Len(<<t(slot)>> \o u) = Len(u) + 1
      /\ (<<t(slot)>> \o u)[1] = t(slot)
      /\ \A k \in 2..(Len(u) + 1) : (<<t(slot)>> \o u)[k] = u[k - 1]
  BY <1>5, <1>6
<1>8. ASSUME NEW k \in 1..Len(all) PROVE TracksAt(q, all)[k] = (<<t(slot)>> \o u)[k]
  <2>1. CASE k = 1
    BY <1>1, <1>2, <1>7, <2>1
  <2>2. CASE k # 1
    <3>1. k \in 2..Len(all) /\ k - 1 \in 1..Len(slots)
      BY <1>1, <2>2
    <3>2. TracksAt(q, all)[k] = t(slots[k - 1]) /\ u[k - 1] = t(slots[k - 1])
      BY <1>1, <1>2, <1>5, <3>1
    <3>3. k \in 2..(Len(u) + 1)
      BY <1>1, <1>3, <1>5, <3>1
    <3> QED BY <1>7, <3>2, <3>3
  <2> QED BY <2>1, <2>2
<1>9. PICK w : w = <<t(slot)>> \o u
  OBVIOUS
<1>10. TracksAt(q, all) = w
  <2>1. w \in Seq(T) /\ Len(w) = Len(all)
    BY <1>1, <1>3, <1>5, <1>7, <1>9
  <2> QED BY <1>4, <1>8, <1>9, <2>1, SeqEqual
<1> QED BY <1>5, <1>9, <1>10 DEF t, all

LEMMA StepHonours == HonourInv /\ [Next]_vars => HonourInv'
<1> SUFFICES ASSUME HonourInv, [Next]_vars PROVE HonourInv'
  OBVIOUS
<1>1. TypeInv'
  BY StepTyped DEF HonourInv
<1>2. CASE UNCHANGED vars
  <2>1. /\ queue' = queue /\ np' = np /\ upNext' = upNext /\ heard' = heard
    BY <1>2 DEF vars
  <2>2. Rest' = Rest /\ DistinctVideos'
    BY <2>1 DEF HonourInv, Rest, DistinctVideos, DJs
  <2> QED BY <1>1, <2>1, <2>2 DEF HonourInv
<1>3. CASE Advance
  <2> DEFINE m == PlayableMatrix(queue, np.vid)
             k == Count - Len(heard)
  <2>1. /\ TypeInv /\ DistinctVideos /\ upNext = heard \o TracksAt(queue, Rest)
    BY DEF HonourInv
  <2>2. /\ Picked \in Places(m) /\ Picked # NoSlot
        /\ Picked[1] \in DJs
        /\ queue \in Queues /\ queue' \in Queues
        /\ np' = [dj |-> Picked[1], vid |-> queue[Picked[1]][Picked[2]].vid]
        /\ np' \in Track
        /\ heard' = Append(heard, np') /\ Len(heard) < Count
        /\ upNext' = upNext
        /\ \A i \in DJs : Len(queue'[i]) = Len(queue[i])
        /\ \A i \in DJs : \A j \in 1..Len(queue[i]) : queue'[i][j].vid = queue[i][j].vid
    BY <1>3, <2>1, AdvanceMarks DEF TypeInv
  <2>3. DistinctVideos' /\ PlayableMatrix(queue', np'.vid) = Consumed(m, <<Picked>>)
    BY <1>3, <2>1, DistinctStep
  <2>4. IsMatrix(m) /\ \A i \in DJs : Len(m[i]) = Len(queue[i])
    BY <2>2, PlayableIsAMatrix
  <2>5. heard \in Seq(Track) /\ Count \in Nat /\ k - 1 \in Nat /\ k = (k - 1) + 1
    BY <2>1, <2>2, StageIsASequence DEF TypeInv
  <2>6. Picked = FairNext(Stage, np.dj, m)
    BY DEF Picked
  <2>7. PICK slot : slot = Picked
    OBVIOUS
  <2>8. PICK rest : rest = Rounds(Consumed(m, <<slot>>), slot[1], k - 1)
    OBVIOUS
  <2>9. rest \in Seq(Places(m))
    <3>1. IsMatrix(Consumed(m, <<slot>>)) /\ Places(Consumed(m, <<slot>>)) = Places(m)
      <4> HIDE DEF m
      <4> QED BY <2>4, ConsumedIsAMatrix
    <3> HIDE DEF m, k
    <3> QED BY <2>5, <2>8, <3>1, RoundsArePlaces
  <2>10. Rest = <<slot>> \o rest
    <3>1. Rest = Rounds(m, np.dj, (k - 1) + 1)
      BY <2>5 DEF Rest
    <3> HIDE DEF m, k
    <3>2. Rounds(m, np.dj, (k - 1) + 1) = <<slot>> \o rest
      BY <2>2, <2>4, <2>5, <2>6, <2>7, <2>8, RoundsStart
    <3> QED BY <3>1, <3>2
  <2>11. Rest' = rest
    <3>1. Rest' = Rounds(PlayableMatrix(queue', np'.vid), np'.dj, Count - Len(heard'))
      BY DEF Rest
    <3>2. Len(heard') = Len(heard) + 1
      BY <2>2, <2>5
    <3>3. Count - Len(heard') = k - 1
      BY <2>5, <3>2
    <3>4. np'.dj = slot[1]
      BY <2>2, <2>7
    <3> HIDE DEF m, k
    <3> QED BY <2>3, <2>7, <2>8, <3>1, <3>3, <3>4
  <2>12. PICK next : next = np'
    OBVIOUS
  <2>13. TracksAt(queue, Rest) = <<next>> \o TracksAt(queue, rest)
    <3>1. next = [dj |-> slot[1], vid |-> queue[slot[1]][slot[2]].vid]
      BY <2>2, <2>7, <2>12
    <3>2. slot \in Places(m)
      BY <2>2, <2>7
    <3> HIDE DEF m
    <3> QED BY <2>9, <2>10, <3>1, <3>2, TracksSplit
  <2>14. PICK q : q = queue'
    OBVIOUS
  <2>15. TracksAt(q, rest) = TracksAt(queue, rest)
    <3>1. ASSUME NEW i \in 1..Len(rest)
          PROVE  [dj |-> rest[i][1], vid |-> q[rest[i][1]][rest[i][2]].vid]
                   = [dj |-> rest[i][1], vid |-> queue[rest[i][1]][rest[i][2]].vid]
      <4>1. rest[i] \in Places(m)
        <5> HIDE DEF m
        <5> QED BY <2>9
      <4>2. rest[i][1] \in DJs /\ rest[i][2] \in 1..Len(queue[rest[i][1]])
        <5> HIDE DEF m
        <5> QED BY <2>4, <4>1 DEF Places
      <4>3. q[rest[i][1]][rest[i][2]].vid = queue[rest[i][1]][rest[i][2]].vid
        BY <2>2, <2>14, <4>2
      <4> QED BY <4>3
    <3> QED BY <3>1 DEF TracksAt
  <2>16. PICK others : others = TracksAt(queue, rest)
    OBVIOUS
  <2>17. others \in Seq(Track)
    <3>1. ASSUME NEW i \in 1..Len(rest)
          PROVE  [dj |-> rest[i][1], vid |-> queue[rest[i][1]][rest[i][2]].vid] \in Track
      <4>1. rest[i] \in Places(m)
        <5> HIDE DEF m
        <5> QED BY <2>9
      <4>2. rest[i][1] \in DJs /\ rest[i][2] \in 1..Len(queue[rest[i][1]])
        <5> HIDE DEF m
        <5> QED BY <2>4, <4>1 DEF Places
      <4>3. queue[rest[i][1]] \in Seq(Entry)
        BY <2>2, <4>2 DEF Queues
      <4>4. queue[rest[i][1]][rest[i][2]] \in Entry
        BY <4>2, <4>3
      <4> QED BY <4>2, <4>4 DEF Track, Entry
    <3>2. others = [i \in 1..Len(rest) |->
                       [dj |-> rest[i][1], vid |-> queue[rest[i][1]][rest[i][2]].vid]]
      BY <2>16 DEF TracksAt
    <3>3. Len(rest) \in Nat
      BY <2>9
    <3>4. others \in [1..Len(rest) -> Track]
      BY <3>1, <3>2
    <3> QED BY <3>3, <3>4
  <2>18. upNext' = heard' \o TracksAt(queue', Rest')
    <3>1. heard' = Append(heard, next) /\ next \in Track /\ upNext' = upNext
      BY <2>2, <2>12
    <3>2. TracksAt(queue', Rest') = others
      BY <2>11, <2>14, <2>15, <2>16
    <3>3. upNext = heard \o (<<next>> \o others)
      BY <2>1, <2>13, <2>16
    <3>4. heard \o (<<next>> \o others) = Append(heard, next) \o others
      <4>1. PICK one : one = <<next>>
        OBVIOUS
      <4>2. heard \in Seq(Track) /\ one \in Seq(Track) /\ others \in Seq(Track)
        BY <2>5, <2>17, <3>1, <4>1
      <4>3. (heard \o one) \o others = heard \o (one \o others)
        BY <4>2, ConcatAssociative
      <4>4. Append(heard, next) = heard \o one
        BY <2>5, <3>1, <4>1
      <4> QED BY <4>1, <4>3, <4>4
    <3> QED BY <3>1, <3>2, <3>3, <3>4
  <2> QED BY <1>1, <2>3, <2>18 DEF HonourInv
<1> QED BY <1>2, <1>3 DEF Next

LEMMA HonourGivesThePreview == HonourInv => PreviewIsHonoured
<1> SUFFICES ASSUME HonourInv PROVE PreviewIsHonoured
  OBVIOUS
<1> DEFINE m == PlayableMatrix(queue, np.vid)
<1>1. /\ upNext = heard \o TracksAt(queue, Rest)
      /\ heard \in Seq(Track) /\ Len(heard) <= Count /\ queue \in Queues
  BY DEF HonourInv, TypeInv
<1>2. IsMatrix(m) /\ Count \in Nat /\ Count - Len(heard) \in Nat
  BY <1>1, PlayableIsAMatrix, StageIsASequence
<1>3. PICK slots : slots = Rest
  OBVIOUS
<1>4. slots \in Seq(Places(m))
  <2> HIDE DEF m
  <2> QED BY <1>2, <1>3, RoundsArePlaces DEF Rest, m
<1>5. PICK rest : rest = TracksAt(queue, slots)
  OBVIOUS
<1>6. /\ Len(rest) = Len(slots) /\ Len(slots) \in Nat
      /\ \E S : rest \in Seq(S)
  <2> DEFINE t(k) == [dj |-> slots[k][1], vid |-> queue[slots[k][1]][slots[k][2]].vid]
             T == {t(k) : k \in 1..Len(slots)}
  <2>1. rest = [k \in 1..Len(slots) |-> t(k)]
    BY <1>5 DEF TracksAt
  <2> HIDE DEF t
  <2>2. Len(slots) \in Nat /\ rest \in [1..Len(slots) -> T]
    BY <1>4, <2>1
  <2> HIDE DEF T
  <2>3. rest \in Seq(T) /\ Len(rest) = Len(slots)
    BY <2>2
  <2> QED BY <2>2, <2>3
<1>7. PICK S : rest \in Seq(S)
  BY <1>6
<1>8. PICK U : U = S \cup Track
  OBVIOUS
<1>9. heard \in Seq(U) /\ rest \in Seq(U)
  BY <1>1, <1>7, <1>8
<1>10. upNext = heard \o rest
  BY <1>1, <1>3, <1>5
<1>11. IsPrefix(heard, upNext)
  <2>1. Len(heard) \in Nat /\ Len(upNext) = Len(heard) + Len(rest) /\ upNext \in Seq(U)
    BY <1>9, <1>10
  <2>2. \A k \in 1..Len(heard) : upNext[k] = heard[k]
    BY <1>9, <1>10
  <2>3. SubSeq(heard, 1, Len(heard)) = SubSeq(upNext, 1, Len(heard))
    BY <1>9, <2>1, <2>2
  <2>4. Len(heard) <= Len(upNext)
    BY <1>6, <2>1
  <2> QED BY <2>3, <2>4 DEF IsPrefix
<1>12. ASSUME Len(heard) = Count \/ Picked = NoSlot
       PROVE  Len(heard) = Len(upNext)
  <2>1. slots = <<>>
    <3>1. CASE Len(heard) = Count
      <4>1. Count - Len(heard) = 0
        BY <1>2, <3>1
      <4> QED BY <1>3, <4>1, RoundsUnfold DEF Rest
    <3>2. CASE Picked = NoSlot
      <4> HIDE DEF m
      <4>1. FairNext(Stage, np.dj, m) = NoSlot
        BY <3>2 DEF Picked, m
      <4>2. Rounds(m, np.dj, Count - Len(heard)) = <<>>
        BY <1>2, <4>1, NoRounds
      <4> QED BY <1>3, <4>2 DEF Rest, m
    <3> QED BY <1>12, <3>1, <3>2
  <2>2. Len(slots) = 0 /\ Len(upNext) = Len(heard) + Len(rest)
    BY <1>9, <1>10, <2>1
  <2> QED BY <1>1, <1>6, <2>2
<1> QED BY <1>11, <1>12 DEF PreviewIsHonoured

-----------------------------------------------------------------------------
(* No DJ is passed over.                                                   *)

\* How many turns after DJ a the turn of DJ x comes.
Ahead(a, x) == IF x >= a THEN x - a ELSE x - a + NumDJs

\* DJ e has nothing left to play.
Exhausted(e) == \A s \in 1..Len(queue[e]) : ~queue[e][s].active

HeardIn(e, i, j) == \E k \in i..j : heard[k].dj = e

\* A turn that began with a track of DJ a has not come to e yet, or e was heard,
\* or has nothing.
TurnInv ==
    /\ heard # <<>> => np = heard[Len(heard)]
    /\ \A i \in 1..Len(heard) : \A e \in DJs \ {heard[i].dj} :
          \/ HeardIn(e, i, Len(heard))
          \/ Exhausted(e)
          \/ Ahead(heard[i].dj, np.dj) < Ahead(heard[i].dj, e)
    /\ \A i, j \in 1..Len(heard) : i < j /\ heard[i].dj = heard[j].dj =>
          \A e \in DJs \ {heard[i].dj} : HeardIn(e, i, j) \/ Exhausted(e)

\* Between the DJ who played last and the one picked, nobody had anything.
LEMMA PickIsNext ==
    ASSUME TypeInv, DistinctVideos, Advance, np.dj \in DJs,
           NEW a \in DJs, NEW e \in DJs, ~Exhausted(e), e # Picked[1],
           Ahead(a, np.dj) < Ahead(a, e)
    PROVE  /\ Ahead(a, Picked[1]) < Ahead(a, e)
           /\ Picked[1] # a
<1> DEFINE m == PlayableMatrix(queue, np.vid)
           x == np.dj
<1>1. /\ IsMatrix(m) /\ \A i \in DJs : Len(m[i]) = Len(queue[i])
      /\ \A i \in DJs : \A j \in 1..Len(queue[i]) :
            m[i][j] = (queue[i][j].active /\ queue[i][j].vid # np.vid)
  BY PlayableIsAMatrix DEF TypeInv
<1>2. Picked = FairNext(Stage, x, m) /\ Picked # NoSlot
  BY DEF Picked, Advance
<1>3. /\ NumDJs \in Nat \ {0} /\ DJs = 1..NumDJs
      /\ Stage \in Seq(DJs) /\ Len(Stage) = NumDJs /\ IndexOf(Stage, x) = x
  BY StageIsASequence DEF DJs
<1>4. Offers(m, e)
  <2>1. PICK s \in 1..Len(queue[e]) : queue[e][s].active
    BY DEF Exhausted
  <2>2. queue[e][s].vid # np.vid
    BY <2>1 DEF DistinctVideos
  <2>3. m[e][s]
    <3>1. m[e][s] = (queue[e][s].active /\ queue[e][s].vid # np.vid)
      BY <1>1, Zenon
    <3> HIDE DEF m
    <3> QED BY <2>1, <2>2, <3>1
  <2>4. e <= Len(m) /\ s \in 1..Len(m[e])
    <3> HIDE DEF m
    <3> QED BY <1>1, <1>3 DEF IsMatrix
  <2> HIDE DEF m
  <2> QED BY <2>3, <2>4 DEF Offers
<1>5. PICK p : p = Picked
  OBVIOUS
<1>6. PICK off \in 0..(NumDJs - 1) :
          /\ p[1] = Turn(x, off, NumDJs)
          /\ p[1] \in 1..NumDJs
          /\ \A o \in 0..(off - 1) : ~Offers(m, Turn(x, o, NumDJs))
  <2> HIDE DEF m, x
  <2>1. m \in Seq(Seq(BOOLEAN))
    BY <1>1 DEF IsMatrix
  <2> QED BY <1>2, <1>3, <1>5, <2>1, FairNextIsFair
<1>7. PICK y \in DJs : y = x
  OBVIOUS
<1>8. \A o \in 0..(NumDJs - 1) : Turn(y, o, NumDJs) =
         IF y + o < NumDJs THEN y + o + 1 ELSE y + o - NumDJs + 1
  <2>1. y \in 0..NumDJs
    BY <1>3
  <2> QED BY <1>3, <2>1, TurnWraps
<1>9. \A o \in 0..(off - 1) : Turn(y, o, NumDJs) # e
  <2> HIDE DEF m, x
  <2> QED BY <1>4, <1>6, <1>7
<1>10. /\ p[1] = IF y + off < NumDJs THEN y + off + 1 ELSE y + off - NumDJs + 1
       /\ \A o \in 0..(off - 1) :
             e # IF y + o < NumDJs THEN y + o + 1 ELSE y + o - NumDJs + 1
  <2> HIDE DEF m, x
  <2>1. p[1] = Turn(y, off, NumDJs)
    BY <1>6, <1>7
  <2>2. \A o \in 0..(off - 1) : o \in 0..(NumDJs - 1)
    BY <1>3, <1>6
  <2> QED BY <1>6, <1>8, <1>9, <2>1, <2>2
<1>11. PICK d : d = p[1]
  OBVIOUS
<1>12. Ahead(a, y) < Ahead(a, e) /\ e # d
  <2> HIDE DEF m
  <2> QED BY <1>5, <1>7, <1>11
<1>13. Ahead(a, d) < Ahead(a, e) /\ d # a
  <2> DEFINE o == Ahead(a, e) - Ahead(a, y) - 1
  <2>1. /\ NumDJs \in Nat \ {0} /\ a \in 1..NumDJs /\ e \in 1..NumDJs
        /\ y \in 1..NumDJs /\ off \in 0..(NumDJs - 1)
    BY <1>3
  <2>2. o \in Nat /\ o < NumDJs
    BY <1>12, <2>1 DEF Ahead
  <2>3. e = IF y + o < NumDJs THEN y + o + 1 ELSE y + o - NumDJs + 1
    BY <1>12, <2>1 DEF Ahead
  <2>4. ~(o \in 0..(off - 1))
    <3> HIDE DEF o
    <3> QED BY <1>10, <2>3
  <2>5. off <= o
    <3> HIDE DEF o
    <3> QED BY <2>1, <2>2, <2>4
  <2>6. d = IF y + off < NumDJs THEN y + off + 1 ELSE y + off - NumDJs + 1
    BY <1>10, <1>11
  <2>7. off # o
    <3> HIDE DEF o
    <3> QED BY <1>12, <2>3, <2>6
  <2> HIDE DEF m
  <2> QED BY <1>12, <2>1, <2>2, <2>5, <2>6, <2>7 DEF Ahead
<1> QED BY <1>5, <1>11, <1>13

LEMMA StepTakesTurns == HonourInv /\ TurnInv /\ [Next]_vars => TurnInv'
<1> SUFFICES ASSUME HonourInv, TurnInv, [Next]_vars PROVE TurnInv'
  OBVIOUS
<1>1. TypeInv /\ DistinctVideos
  BY DEF HonourInv
<1>2. CASE UNCHANGED vars
  BY <1>2 DEF TurnInv, vars, HeardIn, Exhausted, DJs, Ahead
<1>3. CASE Advance
  <2>0. PICK n : n = Len(heard)
    OBVIOUS
  <2>1. /\ Picked[1] \in DJs
        /\ np' = [dj |-> Picked[1], vid |-> queue[Picked[1]][Picked[2]].vid]
        /\ np' \in Track
        /\ heard' = Append(heard, np')
        /\ \A i \in DJs : Len(queue'[i]) = Len(queue[i])
        /\ \A i \in DJs : \A j \in 1..Len(queue[i]) :
              queue'[i][j].active
                 <=> queue[i][j].active /\ ~IsPicked(queue, Picked, i, j)
    BY <1>1, <1>3, AdvanceMarks
  <2>2. /\ heard \in Seq(Track) /\ n \in Nat
        /\ NumDJs \in Nat \ {0} /\ DJs = 1..NumDJs /\ DJs' = DJs
    BY <1>1, <2>0, StageIsASequence DEF TypeInv, DJs
  <2>3. PICK d : d = Picked[1]
    OBVIOUS
  <2>4. /\ Len(heard') = n + 1 /\ heard'[n + 1] = np' /\ np'.dj = d /\ d \in DJs
        /\ \A i \in 1..n : heard'[i] = heard[i]
    BY <2>0, <2>1, <2>2, <2>3
  <2>5. \A i \in 1..n : heard[i].dj \in DJs
    <3>1. ASSUME NEW i \in 1..n PROVE heard[i].dj \in DJs
      <4>1. heard[i] \in Track
        BY <2>0, <2>2
      <4> QED BY <4>1 DEF Track
    <3> QED BY <3>1
  <2>6. ASSUME NEW e \in DJs, Exhausted(e) PROVE Exhausted(e)'
    <3>1. ASSUME NEW s \in 1..Len(queue'[e]) PROVE ~queue'[e][s].active
      <4>1. s \in 1..Len(queue[e])
        BY <2>1
      <4> QED BY <2>1, <2>6, <4>1 DEF Exhausted
    <3> QED BY <3>1 DEF Exhausted
  <2>7. ASSUME NEW e, NEW i \in 1..n, NEW j \in 1..n, HeardIn(e, i, j)
        PROVE  HeardIn(e, i, j)' /\ HeardIn(e, i, n + 1)'
    <3>1. PICK k \in i..j : heard[k].dj = e
      BY <2>7 DEF HeardIn
    <3>2. k \in 1..n /\ k \in i..(n + 1)
      BY <2>2
    <3>3. heard'[k].dj = e
      BY <2>4, <3>1, <3>2
    <3> QED BY <3>1, <3>2, <3>3 DEF HeardIn
  <2>8. ASSUME NEW i \in 1..n PROVE HeardIn(d, i, n + 1)'
    <3>1. n + 1 \in i..(n + 1)
      BY <2>2
    <3> QED BY <2>4, <3>1 DEF HeardIn
  <2>9. ASSUME NEW i \in 1..n
        PROVE  np.dj = heard[n].dj /\ np.dj \in DJs /\ n \in 1..n
    <3>1. n \in 1..n /\ heard # <<>>
      BY <2>0, <2>2
    <3> QED BY <2>0, <2>5, <3>1 DEF TurnInv
  <2>10. ASSUME NEW i \in 1..n, NEW e \in DJs \ {heard[i].dj},
                ~HeardIn(e, i, n), ~Exhausted(e), e # d
         PROVE  Ahead(heard[i].dj, d) < Ahead(heard[i].dj, e) /\ d # heard[i].dj
    <3>1. Ahead(heard[i].dj, np.dj) < Ahead(heard[i].dj, e)
      BY <2>0, <2>10 DEF TurnInv
    <3>2. np.dj \in DJs /\ heard[i].dj \in DJs
      BY <2>5, <2>9
    <3> QED BY <1>1, <1>3, <2>3, <2>10, <3>1, <3>2, PickIsNext
  <2>11. heard' # <<>> => np' = heard'[Len(heard')]
    BY <2>4
  <2>12. ASSUME NEW i \in 1..(n + 1), NEW e \in DJs \ {heard'[i].dj}
         PROVE  \/ HeardIn(e, i, n + 1)'
                \/ Exhausted(e)'
                \/ Ahead(heard'[i].dj, d) < Ahead(heard'[i].dj, e)
    <3>1. CASE i = n + 1
      <4>1. heard'[i].dj = d /\ e # d
        BY <2>4, <3>1
      <4>2. Ahead(d, d) < Ahead(d, e)
        BY <2>2, <2>4, <4>1 DEF Ahead
      <4> QED BY <4>1, <4>2
    <3>2. CASE i # n + 1
      <4>1. i \in 1..n /\ heard'[i] = heard[i]
        BY <2>2, <2>4, <3>2
      <4>2. CASE HeardIn(e, i, n)
        BY <2>7, <2>9, <4>1, <4>2
      <4>3. CASE Exhausted(e)
        BY <2>6, <4>3
      <4>4. CASE e = d
        BY <2>8, <4>1, <4>4
      <4>5. CASE ~HeardIn(e, i, n) /\ ~Exhausted(e) /\ e # d
        <5>1. e \in DJs \ {heard[i].dj}
          BY <4>1
        <5> QED BY <2>10, <4>1, <4>5, <5>1
      <4> QED BY <4>2, <4>3, <4>4, <4>5
    <3> QED BY <3>1, <3>2
  <2>13. ASSUME NEW i \in 1..(n + 1), NEW j \in 1..(n + 1), i < j,
                heard'[i].dj = heard'[j].dj, NEW e \in DJs \ {heard'[i].dj}
         PROVE  HeardIn(e, i, j)' \/ Exhausted(e)'
    <3>1. i \in 1..n /\ heard'[i] = heard[i]
      BY <2>2, <2>4, <2>13
    <3>2. e \in DJs \ {heard[i].dj}
      BY <3>1
    <3>3. CASE j # n + 1
      <4>1. j \in 1..n /\ heard'[j] = heard[j]
        BY <2>2, <2>4, <3>3
      <4>2. HeardIn(e, i, j) \/ Exhausted(e)
        BY <2>0, <2>13, <3>1, <3>2, <4>1 DEF TurnInv
      <4> QED BY <2>6, <2>7, <3>1, <4>1, <4>2
    <3>4. CASE j = n + 1
      <4>1. heard[i].dj = d
        BY <2>4, <2>13, <3>1, <3>4
      <4>2. HeardIn(e, i, n) \/ Exhausted(e)
        BY <2>10, <3>1, <3>2, <4>1
      <4> QED BY <2>6, <2>7, <2>9, <3>1, <3>4, <4>2
    <3> QED BY <3>3, <3>4
  <2>14. \A i \in 1..Len(heard') : \A e \in DJs' \ {heard'[i].dj} :
            \/ HeardIn(e, i, Len(heard))'
            \/ Exhausted(e)'
            \/ (Ahead(heard[i].dj, np.dj) < Ahead(heard[i].dj, e))'
    <3>1. ASSUME NEW i \in 1..(n + 1), NEW e \in DJs \ {heard'[i].dj}
          PROVE  \/ HeardIn(e, i, Len(heard))'
                 \/ Exhausted(e)'
                 \/ (Ahead(heard[i].dj, np.dj) < Ahead(heard[i].dj, e))'
      <4>1. HeardIn(e, i, n + 1)' => HeardIn(e, i, Len(heard))'
        BY <2>4 DEF HeardIn
      <4>2. Ahead(heard'[i].dj, d) < Ahead(heard'[i].dj, e)
              => (Ahead(heard[i].dj, np.dj) < Ahead(heard[i].dj, e))'
        BY <2>4 DEF Ahead
      <4> QED BY <2>12, <4>1, <4>2
    <3> QED BY <2>2, <2>4, <3>1
  <2>15. \A i, j \in 1..Len(heard') : i < j /\ heard'[i].dj = heard'[j].dj =>
            \A e \in DJs' \ {heard'[i].dj} : HeardIn(e, i, j)' \/ Exhausted(e)'
    BY <2>2, <2>4, <2>13
  <2> QED BY <2>11, <2>14, <2>15 DEF TurnInv
<1> QED BY <1>2, <1>3 DEF Next

LEMMA TurnsGiveFairness == HonourInv /\ TurnInv => NoDJIsPassedOver
<1> SUFFICES ASSUME TurnInv, NEW i \in 1..Len(heard), NEW j \in 1..Len(heard),
                    i < j, heard[i].dj = heard[j].dj, NEW e \in DJs \ {heard[i].dj}
             PROVE  \/ \E k \in i..j : heard[k].dj = e
                    \/ \A s \in 1..Len(queue[e]) :
                          ~queue[e][s].active \/ queue[e][s].vid = heard[j - 1].vid
  BY DEF NoDJIsPassedOver
<1>1. HeardIn(e, i, j) \/ Exhausted(e)
  BY DEF TurnInv
<1> QED BY <1>1 DEF HeardIn, Exhausted

-----------------------------------------------------------------------------
(* The theorems.                                                           *)

LEMMA UpNextInvariance == DistinctSpec => [](HonourInv /\ TurnInv)
<1>1. DistinctInit => HonourInv /\ TurnInv
  <2>1. ASSUME DistinctInit PROVE HonourInv /\ TurnInv
    <3>1. HonourInv /\ heard = <<>>
      BY <2>1, InitHonours DEF DistinctInit, Init
    <3>2. Len(heard) = 0
      BY <3>1
    <3> QED BY <3>1, <3>2 DEF TurnInv
  <2> QED BY <2>1
<1>2. HonourInv /\ TurnInv /\ [Next]_vars => (HonourInv /\ TurnInv)'
  BY StepHonours, StepTakesTurns
<1> QED BY <1>1, <1>2, PTL DEF DistinctSpec

\* For every queue, whatever is queued twice: the preview and what is heard stay
\* within the rounds asked for (sync.svelte.ts upcomingTracks, conductor.go
\* advance).
THEOREM PreviewTyped == Spec => []TypeOK
<1>1. Init => TypeInv
  BY InitTyped
<1>2. TypeInv /\ [Next]_vars => TypeInv'
  BY StepTyped
<1>3. TypeInv => TypeOK
  BY DEF TypeInv, TypeOK, Queues
<1> QED BY <1>1, <1>2, <1>3, PTL DEF Spec

\* On every stage, with queues of any length in which no video stands twice,
\* the relay plays what the client's preview announced, in that order, and stops
\* only where the preview ended.
THEOREM PreviewComesTrue == DistinctSpec => []PreviewIsHonoured
BY UpNextInvariance, HonourGivesThePreview, PTL

\* On every stage, between two tracks of one DJ every other DJ was heard or has
\* nothing to play.
THEOREM TurnsGoRound == DistinctSpec => []NoDJIsPassedOver
BY UpNextInvariance, TurnsGiveFairness, PTL

-----------------------------------------------------------------------------
(* Auto DJ's orders.                                                       *)

Plan == [order : Seq(Nat), next : Seq(Nat), idx : Nat]

GoodPlan(p) == p \in Plan /\ Fits(p)

\* What a standing announcement says of the orders in memory: it is their
\* preview, and the order it crosses into is there.
Honest ==
    stands /\ announced # <<>> =>
        /\ armed # <<>>
        /\ Len(plan.order) = Len(armed)
        /\ plan.idx = Len(armed) => Len(plan.next) = Len(armed)
        /\ announced = Upcoming(plan, armed)

OrderInv == armed \in Seq(Tracks) /\ GoodPlan(plan) /\ Honest

-----------------------------------------------------------------------------
(* The operators.                                                          *)

LEMMA ShuffleIsASequence ==
    ASSUME NEW n \in Nat, NEW o \in ShuffledOrders(n)
    PROVE  o \in Seq(Nat) /\ Len(o) = n /\ \A i \in 1..n : o[i] \in 1..n
<1>1. o \in [1..n -> 1..n]
  BY DEF ShuffledOrders, Bijection, Injection
<1> QED BY <1>1

LEMMA FromIsGood ==
    ASSUME NEW n \in Nat \ {0}, NEW o \in ShuffledOrders(n)
    PROVE  GoodPlan(From(o)) /\ Len(From(o).order) = n /\ From(o).idx = 1
<1>1. o \in Seq(Nat) /\ Len(o) = n
  BY ShuffleIsASequence
<1>2. From(o) \in Plan /\ From(o).order = o /\ From(o).next = <<>> /\ From(o).idx = 1
  BY <1>1 DEF From, Plan
<1> QED BY <1>1, <1>2 DEF GoodPlan, Fits

LEMMA FittedIsGood ==
    ASSUME NEW p, GoodPlan(p), NEW n \in Nat \ {0}, NEW q \in Fitted(p, n)
    PROVE  GoodPlan(q) /\ Len(q.order) = n
BY FromIsGood DEF Fitted

\* A plan whose order is as long as a playlist is not the empty one.
LEMMA FittingPlan ==
    ASSUME NEW p, GoodPlan(p), NEW n \in Nat \ {0}, Len(p.order) = n
    PROVE  p.order \in ShuffledOrders(n) /\ p.idx \in 1..n
<1>1. NoPlan.order = <<>>
  BY DEF NoPlan
<1>2. p # NoPlan
  BY <1>1
<1> QED BY <1>2 DEF GoodPlan, Fits

LEMMA AdvancedIsGood ==
    ASSUME NEW p, GoodPlan(p), NEW n \in Nat \ {0}, Len(p.order) = n,
           NEW q \in Advanced(p, n)
    PROVE  GoodPlan(q) /\ Len(q.order) = n
<1>1. p \in Plan /\ p.order \in ShuffledOrders(n) /\ p.idx \in 1..n
  BY FittingPlan DEF GoodPlan
<1>2. CASE p.idx < n
  <2>1. q = [p EXCEPT !.idx = p.idx + 1]
    BY <1>2 DEF Advanced
  <2>2. p.idx + 1 \in Nat
    BY <1>1
  <2>3. q \in Plan /\ q.order = p.order /\ q.next = p.next /\ q.idx = p.idx + 1
    BY <1>1, <2>1, <2>2 DEF Plan
  <2> QED BY <1>1, <1>2, <2>3 DEF GoodPlan, Fits
<1>3. CASE ~(p.idx < n) /\ Len(p.next) = n
  <2>1. q = From(p.next)
    BY <1>3 DEF Advanced
  <2>2. p.next \in ShuffledOrders(n)
    BY <1>3 DEF GoodPlan, Fits
  <2> QED BY <2>1, <2>2, FromIsGood
<1>4. CASE ~(p.idx < n) /\ Len(p.next) # n
  BY <1>4, FromIsGood DEF Advanced
<1> QED BY <1>2, <1>3, <1>4

\* Planning ahead leaves the current order alone, and there is an order to
\* cross into when the current one ends.
LEMMA PlannedIsGood ==
    ASSUME NEW p, GoodPlan(p), NEW n \in Nat \ {0}, Len(p.order) = n,
           NEW q \in Planned(p, n)
    PROVE  /\ GoodPlan(q) /\ q.order = p.order /\ q.idx = p.idx
           /\ q.idx = n => Len(q.next) = n
<1>1. p \in Plan /\ p.order \in ShuffledOrders(n) /\ p.idx \in 1..n
  BY FittingPlan DEF GoodPlan
<1>2. CASE q = p /\ (n - p.idx >= Preview \/ Len(p.next) = n)
  BY <1>1, <1>2, AutoOrderAssumption DEF GoodPlan
<1>3. CASE ~(n - p.idx >= Preview \/ Len(p.next) = n)
  <2>1. PICK o \in ShuffledOrders(n) : q = [p EXCEPT !.next = o]
    BY <1>3 DEF Planned
  <2>2. o \in Seq(Nat) /\ Len(o) = n
    BY <2>1, ShuffleIsASequence
  <2>3. q \in Plan /\ q.order = p.order /\ q.next = o /\ q.idx = p.idx
    BY <1>1, <2>1, <2>2 DEF Plan
  <2> QED BY <1>1, <2>1, <2>2, <2>3 DEF GoodPlan, Fits
<1> QED BY <1>2, <1>3 DEF Planned

LEMMA HeadOfConcat ==
    ASSUME NEW s \in Seq(Nat), NEW t \in Seq(Nat), Len(s) >= 1
    PROVE  s \o t \in Seq(Nat) /\ Len(s \o t) >= 1 /\ (s \o t)[1] = s[1]
<1>1. Len(s) \in Nat /\ Len(t) \in Nat
  BY LenProperties
<1>2. /\ s \o t \in Seq(Nat) /\ Len(s \o t) = Len(s) + Len(t)
      /\ \A i \in 1..Len(s) + Len(t) :
            (s \o t)[i] = IF i <= Len(s) THEN s[i] ELSE t[i - Len(s)]
  BY ConcatProperties
<1> QED BY <1>1, <1>2

\* The preview starts with what advanceAutoOrder moves to.
LEMMA PreviewStartsWithTheNext ==
    ASSUME NEW tracks \in Seq(Tracks), tracks # <<>>,
           NEW p, GoodPlan(p), Len(p.order) = Len(tracks),
           p.idx = Len(tracks) => Len(p.next) = Len(tracks),
           NEW q \in Advanced(p, Len(tracks))
    PROVE  Upcoming(p, tracks)[1] = tracks[q.order[q.idx]]
<1> DEFINE n == Len(tracks)
           rest == SubSeq(p.order, p.idx + 1, n)
           ahead == rest \o p.next
<1>1. n \in Nat \ {0}
  BY LenProperties, EmptySeq
<1>2. p \in Plan /\ p.order \in ShuffledOrders(n) /\ p.idx \in 1..n
  BY <1>1, FittingPlan DEF GoodPlan
<1>3. p.order \in Seq(Nat) /\ p.next \in Seq(Nat) /\ Len(p.order) = n
  BY <1>2 DEF Plan
<1>4. ahead \in Seq(Nat) /\ Len(ahead) >= 1 /\ ahead[1] = q.order[q.idx]
  <2>1. CASE p.idx < n
    <3>1. p.idx + 1 \in Int /\ \A i \in (p.idx + 1)..n : p.order[i] \in Nat
      BY <1>1, <1>2, <1>3, ElementOfSeq
    <3>2. rest \in Seq(Nat) /\ Len(rest) = n - p.idx /\ rest[1] = p.order[p.idx + 1]
      BY <1>1, <1>2, <2>1, <3>1, SubSeqProperties
    <3>3. q.order = p.order /\ q.idx = p.idx + 1
      BY <1>2, <2>1 DEF Advanced, Plan
    <3> HIDE DEF rest
    <3>4. Len(p.next) \in Nat /\ Len(rest) \in Nat /\ Len(rest) >= 1
      BY <1>1, <1>2, <1>3, <2>1, <3>2, LenProperties
    <3>5. rest \o p.next \in Seq(Nat) /\ Len(rest \o p.next) >= 1
          /\ (rest \o p.next)[1] = rest[1]
      BY <1>3, <3>2, <3>4, HeadOfConcat
    <3> QED BY <3>2, <3>3, <3>5
  <2>2. CASE ~(p.idx < n)
    <3>1. p.idx = n /\ Len(p.next) = n
      BY <1>1, <1>2, <2>2
    <3>2. q = From(p.next)
      BY <2>2, <3>1 DEF Advanced
    <3>3. q.order = p.next /\ q.idx = 1
      BY <3>2 DEF From
    <3>4. rest = <<>>
      BY <1>1, <3>1, SubSeqEmpty
    <3>5. ahead = p.next
      BY <1>3, <3>4, ConcatEmptySeq
    <3> QED BY <1>1, <1>3, <3>1, <3>3, <3>5
  <2> QED BY <2>1, <2>2
<1> DEFINE shown == IF Len(ahead) < Preview THEN Len(ahead) ELSE Preview
<1>5. 1 \in 1..shown
  <2> HIDE DEF ahead
  <2> QED BY <1>4, AutoOrderAssumption
<1>6. Upcoming(p, tracks) = [i \in 1..shown |-> tracks[ahead[i]]]
  BY DEF Upcoming
<1> HIDE DEF shown, ahead
<1> QED BY <1>4, <1>5, <1>6

-----------------------------------------------------------------------------
(* The steps.                                                              *)

\* Where driveAutoClub has a playlist to index.
LEMMA ArmedLength ==
    ASSUME armed \in Seq(Tracks), armed # <<>>
    PROVE  Len(armed) \in Nat \ {0}
BY LenProperties, EmptySeq

LEMMA NoPlanIsGood == GoodPlan(NoPlan)
BY DEF GoodPlan, Fits, NoPlan, Plan

\* A fresh announcement is honest.
LEMMA PublishIsHonest ==
    ASSUME armed \in Seq(Tracks), armed # <<>>, UNCHANGED armed,
           NEW p, GoodPlan(p), Len(p.order) = Len(armed),
           NEW q \in Planned(p, Len(armed)), plan' = q, Publish(Upcoming(q, armed))
    PROVE  GoodPlan(plan)' /\ Honest'
<1>1. GoodPlan(q) /\ q.order = p.order /\ (q.idx = Len(armed) => Len(q.next) = Len(armed))
  BY ArmedLength, PlannedIsGood
<1>2. GoodPlan(plan)'
  BY <1>1 DEF GoodPlan
<1>3. announced' = Upcoming(plan', armed')
  BY DEF Publish
<1> QED BY <1>1, <1>2, <1>3 DEF Honest

LEMMA StartKeepsInvariant ==
    ASSUME OrderInv, StartTrack
    PROVE  OrderInv'
<1>1. armed # <<>> /\ UNCHANGED armed /\ armed \in Seq(Tracks) /\ GoodPlan(plan)
  BY DEF StartTrack, AutoDrives, OrderInv
<1>2. PICK fit \in Fitted(plan, Len(armed)) :
         \E p \in IF running THEN Advanced(fit, Len(armed)) ELSE {fit} :
         \E q \in Planned(p, Len(armed)) : plan' = q /\ Publish(Upcoming(q, armed))
  BY DEF StartTrack
<1>3. GoodPlan(fit) /\ Len(fit.order) = Len(armed)
  BY <1>1, ArmedLength, FittedIsGood
<1>4. PICK p \in IF running THEN Advanced(fit, Len(armed)) ELSE {fit} :
         \E q \in Planned(p, Len(armed)) : plan' = q /\ Publish(Upcoming(q, armed))
  BY <1>2
<1>5. GoodPlan(p) /\ Len(p.order) = Len(armed)
  BY <1>1, <1>3, ArmedLength, AdvancedIsGood
<1> QED BY <1>1, <1>4, <1>5, PublishIsHonest DEF OrderInv

LEMMA HoldKeepsInvariant ==
    ASSUME OrderInv, HoldTrack
    PROVE  OrderInv'
<1>1. armed # <<>> /\ UNCHANGED armed /\ armed \in Seq(Tracks) /\ GoodPlan(plan)
  BY DEF HoldTrack, AutoDrives, OrderInv
<1>2. PICK fit \in Fitted(plan, Len(armed)) :
         \/ plan' = fit /\ Quiet
         \/ \E q \in Planned(fit, Len(armed)) :
               plan' = q /\ Publish(Upcoming(q, armed))
  BY DEF HoldTrack
<1>3. GoodPlan(fit) /\ Len(fit.order) = Len(armed)
  BY <1>1, ArmedLength, FittedIsGood
<1>4. CASE plan' = fit /\ Quiet
  <2>1. Len(plan.order) = Len(armed) => fit = plan
    BY DEF Fitted
  <2>2. Honest'
    BY <1>1, <1>4, <2>1 DEF OrderInv, Honest, Quiet, Upcoming
  <2>3. GoodPlan(plan)'
    BY <1>3, <1>4 DEF GoodPlan
  <2> QED BY <1>1, <2>2, <2>3 DEF OrderInv
<1>5. CASE \E q \in Planned(fit, Len(armed)) : plan' = q /\ Publish(Upcoming(q, armed))
  BY <1>1, <1>3, <1>5, PublishIsHonest DEF OrderInv
<1> QED BY <1>2, <1>4, <1>5

LEMMA StepKeepsInvariant ==
    ASSUME OrderInv, [OrderNext]_orderVars
    PROVE  OrderInv'
<1>plan. UNCHANGED plan => GoodPlan(plan)'
  BY DEF OrderInv, GoodPlan, Fits
<1>same. UNCHANGED <<plan, armed, announced, stands>> => OrderInv'
  <2> SUFFICES ASSUME plan' = plan, armed' = armed, announced' = announced, stands' = stands
               PROVE  OrderInv'
    OBVIOUS
  <2>1. Honest' = Honest
    BY DEF Honest
  <2> QED BY <1>plan, <2>1 DEF OrderInv
<1>1. CASE \E list \in Playlists : ArmAutoDJ(list)
  BY <1>plan, <1>1, AutoOrderAssumption DEF ArmAutoDJ, OrderInv, Honest
<1>2. CASE StageChanges \/ Resume \/ UNCHANGED orderVars
  BY <1>same, <1>2 DEF StageChanges, Resume, orderVars
<1>3. CASE StartTrack
  BY <1>3, StartKeepsInvariant
<1>4. CASE HoldTrack
  BY <1>4, HoldKeepsInvariant
<1>5. CASE RealDJsDrive
  <2>1. CASE Publish(<<>>)
    BY <1>plan, <1>5, <2>1 DEF RealDJsDrive, OrderInv, Honest, Publish
  <2>2. CASE Quiet
    BY <1>same, <1>5, <2>2 DEF RealDJsDrive, Quiet
  <2> QED BY <1>5, <2>1, <2>2 DEF RealDJsDrive
<1>6. CASE Undriven
  BY <1>6, NoPlanIsGood DEF Undriven, OrderInv, Honest, GoodPlan, Publish, Quiet
<1>7. CASE Restart
  BY <1>7, NoPlanIsGood DEF Restart, OrderInv, Honest, GoodPlan
<1> QED BY <1>1, <1>2, <1>3, <1>4, <1>5, <1>6, <1>7 DEF OrderNext

LEMMA InvariantHolds == OrderSpec => []OrderInv
<1>1. OrderInit => OrderInv
  BY NoPlanIsGood, EmptySeq DEF OrderInit, OrderInv, Honest
<1>2. OrderInv /\ [OrderNext]_orderVars => OrderInv'
  BY StepKeepsInvariant
<1> QED BY <1>1, <1>2, PTL DEF OrderSpec

\* The orders driveAutoClub indexes without a test always fit.
THEOREM OrdersAlwaysFit == OrderSpec => []OrdersFit
<1>1. OrderInv => OrdersFit
  BY DEF OrderInv, GoodPlan, OrdersFit
<1> QED BY <1>1, InvariantHolds, PTL

\* The relay plays what it announced, whatever real DJs do in between and
\* wherever the preview crosses into the next order.
LEMMA StartPlaysTheAnnounced ==
    ASSUME OrderInv, StartTrack, running, stands, announced # <<>>
    PROVE  armed[plan'.order[plan'.idx]] = announced[1]
<1>1. /\ armed # <<>> /\ armed \in Seq(Tracks) /\ GoodPlan(plan)
      /\ Len(plan.order) = Len(armed)
      /\ plan.idx = Len(armed) => Len(plan.next) = Len(armed)
      /\ announced = Upcoming(plan, armed)
  BY DEF OrderInv, Honest
<1>2. \A fit \in Fitted(plan, Len(armed)) : fit = plan
  BY <1>1 DEF Fitted
<1>3. PICK p \in Advanced(plan, Len(armed)) : plan' \in Planned(p, Len(armed))
  BY <1>2 DEF StartTrack
<1>4. GoodPlan(p) /\ Len(p.order) = Len(armed)
  BY <1>1, <1>3, ArmedLength, AdvancedIsGood
<1>5. plan'.order = p.order /\ plan'.idx = p.idx
  BY <1>1, <1>3, <1>4, ArmedLength, PlannedIsGood
<1>6. announced[1] = armed[p.order[p.idx]]
  BY <1>1, <1>3, PreviewStartsWithTheNext
<1> QED BY <1>5, <1>6

THEOREM AutoDJPlaysTheAnnounced == OrderSpec => AnnouncedIsPlayed
<1>1. OrderInv /\ [OrderNext]_orderVars =>
        [(StartTrack /\ running /\ stands /\ announced # <<>>
            => armed[plan'.order[plan'.idx]] = announced[1])]_orderVars
  BY StartPlaysTheAnnounced
<1> QED BY <1>1, InvariantHolds, PTL DEF OrderSpec, AnnouncedIsPlayed
=============================================================================
