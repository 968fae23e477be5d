----------------------------- MODULE RoundRobin -----------------------------
(***************************************************************************)
(* The fair scheduler of the relay (relay/roundrobin.go) and the ordering  *)
(* of the stage it works on (orderAndCapDJs in relay/conductor.go), as     *)
(* pure operators.  A DJ's pubkey is its rank in the lexicographic order   *)
(* of pubkeys, a natural number; 0 is the empty pubkey, which no DJ has.   *)
(* Indexes are one-based here and zero-based in the code: <<0, 0>> is the  *)
(* code's (-1, -1).                                                        *)
(***************************************************************************)
EXTENDS Integers, Sequences, SequencesExt

NoDJ == 0
NoSlot == <<0, 0>>

(***************************************************************************)
(* The stage: oldest since first, the smaller pubkey first among equals,   *)
(* and never more than cap of them.                                        *)
(***************************************************************************)
StageBefore(a, b) ==
    \/ a.since < b.since
    \/ a.since = b.since /\ a.pubkey < b.pubkey

OrderAndCapDJs(list, cap) ==
    LET sorted == SetToSortSeq(list, StageBefore)
    IN  SubSeq(sorted, 1, IF Len(sorted) > cap THEN cap ELSE Len(sorted))

(***************************************************************************)
(* The first index of v in s, 0 when v does not occur.                     *)
(***************************************************************************)
IndexOf(s, v) ==
    LET at == {i \in 1..Len(s) : s[i] = v}
    IN  IF at = {} THEN 0 ELSE CHOOSE i \in at : \A j \in at : i <= j

(***************************************************************************)
(* fairNext: the DJs take turns starting after lastDJ; each offers its     *)
(* first playable track.  playable[i] is DJ i's row of Booleans.           *)
(***************************************************************************)
\* Mutant: the turn starts with the DJ who just played.
TurnFromLast(start, off, n) == ((start + off + n - 1) % n) + 1

Turn(start, off, n) == ((start + off) % n) + 1

Offers(playable, di) ==
    di <= Len(playable) /\ \E ti \in 1..Len(playable[di]) : playable[di][ti]

TopTrack(row) ==
    CHOOSE i \in 1..Len(row) : row[i] /\ \A j \in 1..(i - 1) : ~row[j]

OfferingTurns(djPks, lastDJ, playable) ==
    {off \in 0..(Len(djPks) - 1) :
        Offers(playable, Turn(IndexOf(djPks, lastDJ), off, Len(djPks)))}

FairNext(djPks, lastDJ, playable) ==
    LET turns == OfferingTurns(djPks, lastDJ, playable)
        off == CHOOSE o \in turns : \A p \in turns : o <= p
        di == Turn(IndexOf(djPks, lastDJ), off, Len(djPks))
    IN  IF turns = {} THEN NoSlot ELSE <<di, TopTrack(playable[di])>>

=============================================================================
