----------------------------- MODULE MCAutoOrder -----------------------------
(***************************************************************************)
(* AutoOrder with playlists of one to three tracks and previews that stay  *)
(* within the current order or reach into the next one.                    *)
(***************************************************************************)
EXTENDS AutoOrder

MCTracks == 1..6
MCPlaylists == {<<>>, <<1>>, <<1, 2>>, <<1, 2, 3>>, <<4, 5, 6>>}
=============================================================================
