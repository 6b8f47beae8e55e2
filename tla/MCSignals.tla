----------------------------- MODULE MCSignals ------------------------------
(* The signals of the player's page, for TLC. *)
EXTENDS PlayerPage

PlayerSources == DOMAIN PageState
PlayerReads == PageReads @@ PanelReads
=============================================================================
