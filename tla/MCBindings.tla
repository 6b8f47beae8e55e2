----------------------------- MODULE MCBindings -----------------------------
(* Instances of Bindings for TLC. *)
EXTENDS Bindings, TLC

Symmetry == Permutations(Players) \cup Permutations(Gids)
=============================================================================
