---------------------------- MODULE MCShadowLoop ----------------------------
(***************************************************************************)
(* TLC instances of the shadow loop.                                       *)
(***************************************************************************)
EXTENDS ShadowLoop
=============================================================================
