------------------------- MODULE MCMovementManager -------------------------
(* Small instances of MovementManager: two moves or none, two or four calls. *)
EXTENDS MovementManager, TLC
=============================================================================
