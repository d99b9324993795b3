------------------------------ MODULE MCTimers ------------------------------
(* Small instances of Timers: two timers, two lost connections.              *)
EXTENDS Timers, TLC

Symmetry == Permutations(AllTimers)
=============================================================================
