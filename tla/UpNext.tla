------------------------------- MODULE UpNext -------------------------------
(***************************************************************************)
(* The client's read-only "Up next" preview beside the relay's repeated    *)
(* advance.  The relay picks with FairNext, marks every queue entry of the *)
(* picked video of that DJ off and never offers the video it is playing;   *)
(* the client computes the whole preview at once with fairSequence.        *)
(*   frontend/src/lib/nostr/roundrobin.ts   fairSequence                   *)
(*   frontend/src/lib/nostr/sync.svelte.ts  playableMatrix, upcomingTracks *)
(*   relay/conductor.go                     matrix, advance, markTrackOff  *)
(* The stage does not change and no DJ edits a queue while the previewed   *)
(* tracks play, and no track is blocked by the played-set or as broken:    *)
(* those are the Conductor module's.                                       *)
(***************************************************************************)
EXTENDS RoundRobin

CONSTANTS
    NumDJs,     \* the DJs on the stage are 1..NumDJs, in stage order
    Rows,       \* the queues a DJ may start with
    Videos,     \* what may be queued, and playing when the preview is computed
    Count       \* length of the preview

VARIABLES
    queue,      \* queue[d]: the relay's view of DJ d's queue
    np,         \* the running track: [dj, vid]
    upNext,     \* what the client announced: sequence of [dj, vid]
    heard       \* the tracks the relay started since: sequence of [dj, vid]

vars == <<queue, np, upNext, heard>>

DJs == 1..NumDJs
Stage == [i \in DJs |-> i]

ASSUME UpNextAssumption ==
    /\ NumDJs \in Nat \ {0}
    /\ Count \in Nat
    /\ Rows \subseteq Seq([vid : Videos, active : BOOLEAN])

\* A slot is playable when its track is active and is not the running one.
PlayableMatrix(q, cur) ==
    [i \in DJs |-> [j \in 1..Len(q[i]) |-> q[i][j].active /\ q[i][j].vid # cur]]

(***************************************************************************)
(* fairSequence: count rounds of picking, each excluding the slots picked  *)
(* before it; it stops at the first round without an offer.                *)
(***************************************************************************)
\* Mutant: only the latest pick is excluded.
ConsumedLast(playable, slots) ==
    [i \in DJs |-> [j \in 1..Len(playable[i]) |->
        playable[i][j] /\ (slots # <<>> => slots[Len(slots)] # <<i, j>>)]]

Consumed(playable, slots) ==
    [i \in DJs |-> [j \in 1..Len(playable[i]) |->
        playable[i][j] /\ \A k \in 1..Len(slots) : slots[k] # <<i, j>>]]

Round(playable, lastDj, slots) ==
    LET last == IF slots = <<>> THEN lastDj ELSE slots[Len(slots)][1]
        slot == FairNext(Stage, last, Consumed(playable, slots))
    IN  IF slot = NoSlot THEN slots ELSE Append(slots, slot)

Rounds(playable, lastDj, count) ==
    LET after[k \in 0..count] ==
            IF k = 0 THEN <<>> ELSE Round(playable, lastDj, after[k - 1])
    IN  after[count]

\* Mutant: one round too many.
FairSequenceLong(playable, lastDj, count) == Rounds(playable, lastDj, count + 1)

FairSequence(playable, lastDj, count) == Rounds(playable, lastDj, count)

UpcomingTracks(q, cur, lastDj) ==
    LET slots == FairSequence(PlayableMatrix(q, cur), lastDj, Count)
    IN  [k \in 1..Len(slots) |->
            [dj |-> slots[k][1], vid |-> q[slots[k][1]][slots[k][2]].vid]]

-----------------------------------------------------------------------------
Init ==
    /\ queue \in [DJs -> Rows]
    /\ np \in [dj : DJs \cup {NoDJ}, vid : Videos]
    /\ upNext = UpcomingTracks(queue, np.vid, np.dj)
    /\ heard = <<>>

MarkTrackOff(row, vid) ==
    [j \in 1..Len(row) |->
        IF row[j].vid = vid THEN [row[j] EXCEPT !.active = FALSE] ELSE row[j]]

\* What the relay would play next, if anything.
Picked == FairNext(Stage, np.dj, PlayableMatrix(queue, np.vid))

\* One advance of the relay: pick, mark the video off, start it.
Advance ==
    LET d == Picked[1]
        vid == queue[d][Picked[2]].vid
    IN  /\ Len(heard) < Count
        /\ Picked # NoSlot
        /\ queue' = [queue EXCEPT ![d] = MarkTrackOff(@, vid)]
        /\ np' = [dj |-> d, vid |-> vid]
        /\ heard' = Append(heard, np')
        /\ UNCHANGED upNext

Next == Advance

Spec == Init /\ [][Next]_vars

\* No video is queued twice, by one DJ or by two, and the running one is not
\* queued again.
DistinctVideos ==
    \A d, e \in DJs : \A i \in 1..Len(queue[d]), j \in 1..Len(queue[e]) :
        /\ queue[d][i].vid = queue[e][j].vid => d = e /\ i = j
        /\ queue[d][i].active => queue[d][i].vid # np.vid

DistinctInit == Init /\ DistinctVideos

DistinctSpec == DistinctInit /\ [][Next]_vars

-----------------------------------------------------------------------------
\* The relay plays exactly what the client announced, in that order: every
\* track heard is the announced one, and the music stops only where the
\* preview ended.  This is the promise of fairSequence's comment.
PreviewIsHonoured ==
    /\ IsPrefix(heard, upNext)
    /\ Len(heard) = Count \/ Picked = NoSlot => Len(heard) = Len(upNext)

\* Turn taking: between two tracks of one DJ, every other DJ that could have
\* offered a track at the second of them was heard.
NoDJIsPassedOver ==
    \A i, j \in 1..Len(heard) : i < j /\ heard[i].dj = heard[j].dj =>
        \A e \in DJs \ {heard[i].dj} :
            \/ \E k \in i..j : heard[k].dj = e
            \/ \A s \in 1..Len(queue[e]) :
                  ~queue[e][s].active \/ queue[e][s].vid = heard[j - 1].vid

\* The shape of the state.
TypeOK ==
    /\ DOMAIN queue = DJs
    /\ np.dj \in DJs \cup {NoDJ}
    /\ Len(heard) <= Count /\ Len(upNext) <= Count
=============================================================================
