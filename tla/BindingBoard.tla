---------------------------- MODULE BindingBoard ----------------------------
(***************************************************************************)
(* What BindingManager promises, as the module comment of bindings.py puts *)
(* the state machine: unclaimed -> bound -> lost -> (bound | orphaned) ->  *)
(* bound, where a GID has one holder and a holder has one GID.  No tasks,  *)
(* no queue, no waiting: every operation is one step of the board.         *)
(***************************************************************************)
CONSTANTS Players, Gids, NoPlayer

VARIABLES holder, phase

boardVars == <<holder, phase>>

Init ==
  /\ holder = [g \in Gids |-> NoPlayer]
  /\ phase = [p \in Players |-> "unclaimed"]

\* p takes a free GID, or moves to one; what p held before is free again.
Take(p, g) ==
  /\ holder[g] \in {NoPlayer, p}
  /\ phase' = [phase EXCEPT ![p] = "bound"]
  /\ holder' = [h \in Gids |-> IF h = g THEN p
                               ELSE IF holder[h] = p THEN NoPlayer ELSE holder[h]]

Lose(p) ==
  /\ phase[p] = "bound"
  /\ phase' = [phase EXCEPT ![p] = "lost"]
  /\ holder' = [h \in Gids |-> IF holder[h] = p THEN NoPlayer ELSE holder[h]]

Orphan(p) ==
  /\ phase[p] = "lost"
  /\ phase' = [phase EXCEPT ![p] = "orphaned"]
  /\ UNCHANGED holder

Next == \E p \in Players : Lose(p) \/ Orphan(p) \/ \E g \in Gids : Take(p, g)

Spec == Init /\ [][Next]_boardVars
=============================================================================
