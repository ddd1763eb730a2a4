---------------------------- MODULE MCJobEvents ----------------------------
(* Small instances of JobEvents. *)
EXTENDS JobEvents, TLC

CONSTANTS j1, j2
=============================================================================
