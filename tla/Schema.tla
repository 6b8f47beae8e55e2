------------------------------- MODULE Schema -------------------------------
(***************************************************************************)
(* The collections the two servers and the pages share, as the migration   *)
(* services/pocketbase/pb_migrations/1788973200_create_blackbox_schema.js  *)
(* makes them: who may do what with their records, what the records hold,  *)
(* and which of them there may be one of only.  It names no system fields: *)
(* `created', by which the pages sort and compare rounds, is not declared. *)
(***************************************************************************)
EXTENDS Sequences, SequencesExt

\* A rule that is null admits superusers only, the empty rule admits anyone.
Superusers == "null"
Anyone == ""

Closed == [list |-> Superusers, view |-> Superusers,
           create |-> Superusers, update |-> Superusers, delete |-> Superusers]
Shown == [Closed EXCEPT !.list = Anyone, !.view = Anyone]

relation(name, to) == [type |-> "relation", name |-> name, to |-> to]
field(type, name) == [type |-> type, name |-> name]
fields(type, names) == {field(type, name) : name \in names}

sessions ==
  [rules |-> Closed, unique |-> {},
   fields |-> fields("text", {"content_version", "status"}) \cup fields("number", {"started_at"})]

rounds ==
  [rules |-> Shown, unique |-> {},
   fields |-> {relation("session", "sessions")} \cup fields("text", {"question_id", "state"})
                \cup fields("json", {"opened_at", "closed_at", "payload"}) \cup fields("number", {"idx"})]

players ==
  [rules |-> Shown, unique |-> {{"session", "player_key"}},
   fields |-> {relation("session", "sessions")} \cup fields("text", {"player_key", "display_name", "state"})
                \cup fields("json", {"gid", "last_seen_x", "last_seen_y", "last_seen_at"})]

binding_events ==
  [rules |-> Closed, unique |-> {},
   fields |-> {relation("session", "sessions")} \cup fields("text", {"player_key", "reason", "actor"})
                \cup fields("json", {"old_gid", "new_gid"}) \cup fields("number", {"at"})]

answers ==
  [rules |-> Closed, unique |-> {{"round", "player_key"}},
   fields |-> {relation("round", "rounds"), relation("session", "sessions")}
                \cup fields("text", {"player_key", "zone_id", "resolved"})
                \cup fields("json", {"position_x", "position_y"}) \cup fields("number", {"at"})]

score_events ==
  [rules |-> Shown, unique |-> {},
   fields |-> {relation("session", "sessions"), relation("round", "rounds")}
                \cup fields("text", {"player_key", "reason"}) \cup fields("number", {"points", "at"})]

content_meta ==
  [rules |-> Closed, unique |-> {}, fields |-> fields("text", {"version"})]

content_rounds ==
  [rules |-> Closed, unique |-> {{"round_id"}},
   fields |-> {field("file", "audio_file")} \cup fields("json", {"form_labels", "options"})
                \cup fields("text", {"round_id", "question", "type", "text", "audio", "form", "zone_layout"})
                \cup fields("number", {"ord", "duration_s", "grace_s", "points"})]

game_state ==
  [rules |-> Shown, unique |-> {},
   fields |-> fields("text", {"session_id"}) \cup fields("json", {"available_gids"})
                \cup fields("number", {"updated_at"})]

claim_requests ==
  [rules |-> [Shown EXCEPT !.create = Anyone], unique |-> {},
   fields |-> fields("text", {"player_key", "display_name", "status", "detail"})
                \cup fields("json", {"gid"}) \cup fields("number", {"at"})]

player_reveals ==
  [rules |-> Shown, unique |-> {{"round", "player_key"}},
   fields |-> {relation("session", "sessions"), relation("round", "rounds")}
                \cup fields("text", {"player_key", "zone", "resolved"}) \cup fields("number", {"at"})]

live_stats ==
  [rules |-> Shown, unique |-> {},
   fields |-> fields("text", {"session_id", "round_id"}) \cup fields("json", {"zone_counts"})
                \cup fields("number", {"updated_at"})]

Baseline ==
  [sessions |-> sessions, rounds |-> rounds, players |-> players,
   binding_events |-> binding_events, answers |-> answers, score_events |-> score_events,
   content_meta |-> content_meta, content_rounds |-> content_rounds,
   game_state |-> game_state, claim_requests |-> claim_requests,
   player_reveals |-> player_reveals, live_stats |-> live_stats]

Order ==
  <<"sessions", "rounds", "players", "binding_events", "answers", "score_events", "content_meta",
    "content_rounds", "game_state", "claim_requests", "player_reveals", "live_stats">>

\* A collection that exists is adopted as it is, whatever its shape.
ensure(db, name) ==
  IF name \in DOMAIN db THEN db
  ELSE [n \in DOMAIN db \cup {name} |-> IF n = name THEN Baseline[name] ELSE db[n]]

migrate(db) == FoldLeft(ensure, db, Order)

\* What a page may do with the collection: read and follow it, watch one
\* record of it, add to it.
Listed(c) == Baseline[c].rules.list = Anyone
Viewed(c) == Baseline[c].rules.view = Anyone
Created(c) == Baseline[c].rules.create = Anyone

\* The relations of a collection lead to collections made before it.
Resolved(c) ==
  \A f \in Baseline[c].fields :
    f.type = "relation" => \E i, j \in DOMAIN Order : i < j /\ Order[i] = f.to /\ Order[j] = c
=============================================================================
