------------------------------ MODULE MCRecovery ------------------------------
(* Small instances of Recovery for TLC.  Messages and cursors are ordered,  *)
(* so there is no symmetry.                                                 *)
EXTENDS Recovery
=============================================================================
