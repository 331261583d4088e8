--------------------------- MODULE MCReplayedLoop ---------------------------
(***************************************************************************)
(* TLC instance of the shadow loop with the replay of its rows beside it.  *)
(***************************************************************************)
EXTENDS ReplayedLoop
=============================================================================
