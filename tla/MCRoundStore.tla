---------------------------- MODULE MCRoundStore ----------------------------
(* Instances of RoundStore for TLC. *)
EXTENDS RoundStore, TLC

Symmetry == Permutations(Players) \cup Permutations(Timers)
=============================================================================
