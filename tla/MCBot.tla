-------------------------------- MODULE MCBot --------------------------------
(***************************************************************************)
(* A small instance of Bot: two commands at a time, two videos.            *)
(***************************************************************************)
EXTENDS Bot

OneList == {<<1, 2>>}
=============================================================================
