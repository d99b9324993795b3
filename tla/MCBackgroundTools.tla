------------------------- MODULE MCBackgroundTools -------------------------
(* Small instances of BackgroundTools: two calls, one or two sessions.     *)
EXTENDS BackgroundTools, TLC

Symmetry == Permutations(Tools)
=============================================================================
