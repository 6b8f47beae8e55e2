---------------------------- MODULE MCPageFeeds ----------------------------
(* Instances of PageFeeds for TLC. *)
EXTENDS PageFeeds, TLC

\* The migration makes every collection that is not there, whichever are, and
\* in an order in which the relations find theirs.
ASSUME MigrationCompletes ==
  LET Names == DOMAIN DB!Baseline  Older == [n \in Names |-> "as it was"] IN
  /\ \A c \in Names : DB!Resolved(c)
  /\ \A found \in SUBSET Names :
       DB!migrate([n \in found |-> Older[n]])
         = [n \in Names |-> IF n \in found THEN Older[n] ELSE DB!Baseline[n]]

Symmetry == Permutations(Questions)
=============================================================================
