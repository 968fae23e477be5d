------------------------------ MODULE MCUpNext ------------------------------
(***************************************************************************)
(* UpNext on two or three DJs, five videos and queues of at most three     *)
(* entries, some of them already off.                                      *)
(***************************************************************************)
EXTENDS UpNext

\* 0: nothing is playing.
MCVideos == 0..5

Entry(v) == [vid |-> v, active |-> TRUE]
OffEntry(v) == [vid |-> v, active |-> FALSE]

MCRows ==
    {<<>>, <<Entry(1)>>, <<Entry(1), Entry(2)>>, <<OffEntry(1), Entry(3)>>,
     <<Entry(2), OffEntry(1), Entry(4)>>, <<Entry(4), Entry(4)>>, <<Entry(3)>>,
     <<Entry(3), Entry(4)>>, <<Entry(5)>>}
=============================================================================
