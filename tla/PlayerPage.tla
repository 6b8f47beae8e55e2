----------------------------- MODULE PlayerPage -----------------------------
(***************************************************************************)
(* What the player's page depends on: Player.svelte and the RoundPanel and *)
(* ClaimForm it shows (apps/frontend/src/lib), as reactions of the runtime *)
(* in Signals.  A `{#if}' is a block, a `$derived' a derived, a `$effect'  *)
(* an effect; each reads its signals in the order the code does.  Of a     *)
(* round the page is modelled by its state; the form drawn, the options,   *)
(* the seconds and the banners are left out, and of two blocks on one      *)
(* condition one is kept.                                                  *)
(***************************************************************************)
EXTENDS Signals

\* The $state of the page and of the audio it shows.
PageState ==
  [player |-> <<"none", "bound">>,
   round |-> <<"none", "active", "revealed">>,
   unlocked |-> <<FALSE, TRUE>>, overlayVisible |-> <<FALSE, TRUE>>]

\* Player.svelte: bound, and the reveal, which applyRound sets with the round;
\* the effect that asks for a tap; the overlay and the panel of a bound player.
PageReads ==
  [bound |-> << <<"player", "bound">> >>,
   reveal |-> << <<"round", "revealed">> >>,
   askUpFront |-> << <<"bound", TRUE>>, <<"unlocked", FALSE>> >>,
   overlay |-> << <<"overlayVisible", TRUE>> >>,
   panel |-> << <<"bound", TRUE>> >>]

\* RoundPanel.svelte: the countdown's timer runs while the round is active;
\* the result is shown under a revealed round, and the time bar under one
\* that is not.  revealResult reads the reveal and the winners made of it.
PanelReads ==
  [tick |-> << <<"round", "active">> >>,
   winners |-> << <<"reveal", TRUE>> >>,
   revealResult |-> << <<"reveal", TRUE>>, <<"winners", TRUE>> >>,
   question |-> << <<"reveal", FALSE>> >>,
   countdown |-> << <<"round", "active">> >>,
   result |-> << <<"revealResult", TRUE>> >>]

PageDeriveds == {"bound", "reveal", "winners", "revealResult"}

\* applyRound asks whether the player is bound; no other handler reads a derived.
ReadByHandlers == {"bound"}

PageEffects == {"askUpFront", "tick"}
PageBlocks == {"overlay", "panel", "question", "countdown", "result"}

\* The tree: what stands in the panel stands or falls with the binding.
PageOrder == <<"askUpFront", "overlay", "panel", "tick", "question", "countdown", "result">>

PageTree ==
  [r \in PageEffects \cup PageBlocks |->
     CASE r \in {"tick", "question", "result"} -> "panel"
       [] r = "countdown" -> "question"
       [] OTHER -> "root"]

\* The one effect that sets a state of the page.
PageWrites == [askUpFront |-> <<"overlayVisible", TRUE>>, tick |-> << >>]
=============================================================================
