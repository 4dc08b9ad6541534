---------------------------- MODULE MCGhostSweep ----------------------------
(***************************************************************************)
(* Small instances of GhostSweep.                                          *)
(***************************************************************************)
EXTENDS GhostSweep

CONSTANTS m1, m2
=============================================================================
