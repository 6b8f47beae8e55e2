--------------------------- MODULE MCRoundEngine ---------------------------
(* Instances of RoundEngine for TLC. *)
EXTENDS RoundEngine, TLC

Symmetry == Permutations(Players) \cup Permutations(Timers)
=============================================================================
