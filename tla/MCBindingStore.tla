--------------------------- MODULE MCBindingStore ---------------------------
(* Instances of BindingStore for TLC. *)
EXTENDS BindingStore, TLC

Symmetry == Permutations(Players) \cup Permutations(Gids)
=============================================================================
