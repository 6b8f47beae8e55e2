----------------------------- MODULE RoundBoard -----------------------------
(***************************************************************************)
(* What GameEngine promises, as the module comment of engine.py puts it:   *)
(* pending -> active -> closing -> revealed -> done, the places taken once *)
(* at closing, the absent upgraded until the reveal, and the points of the *)
(* answers as they were locked given out once.  One round at a time, no    *)
(* tasks, no timers, no waiting: every operation is one step of the board. *)
(***************************************************************************)
EXTENDS Naturals

CONSTANTS Players, Zones, Correct, NoZone, NumRounds, Narration, MaxRows, Jumps

VARIABLES at, content, stage, answers, points

boardVars == <<at, content, stage, answers, points>>

Rows == 1 .. MaxRows

Blank == [how |-> "none", zone |-> NoZone]
Missing == [how |-> "absent", zone |-> NoZone]
Placed(how) == {[how |-> how, zone |-> z] : z \in Zones}

Due(r) == [p \in Players |-> IF /\ answers[r][p].how \in {"answered", "late"}
                                /\ answers[r][p].zone \in Correct THEN 1 ELSE 0]

Init ==
  /\ at = 0
  /\ content = [r \in Rows |-> 0]
  /\ stage = [r \in Rows |-> "none"]
  /\ answers = [r \in Rows |-> [p \in Players |-> Blank]]
  /\ points = [r \in Rows |-> [p \in Players |-> 0]]

Passes(r, from, to) ==
  /\ stage[r] = from
  /\ stage' = [stage EXCEPT ![r] = to]

Answer(r, new) == answers' = [answers EXCEPT ![r] = new]

\* The next round of the show, or one the operator jumps to: every round before
\* it is over or was never opened.
Ask(r, i) ==
  /\ i = at + 1 \/ Jumps
  /\ \A s \in Rows : IF s < r THEN stage[s] \in {"pending", "done"} ELSE stage[s] = "none"
  /\ Passes(r, "none", "pending")
  /\ at' = i
  /\ content' = [content EXCEPT ![r] = i]
  /\ UNCHANGED <<answers, points>>

\* Only the round asked for last is opened, while no other is open.
Open(r) ==
  /\ \A s \in Rows : IF s < r THEN stage[s] \in {"pending", "done"}
                     ELSE s > r => stage[s] = "none"
  /\ Passes(r, "pending", "active")
  /\ UNCHANGED <<at, content, answers, points>>

Close(r) == Passes(r, "active", "closing") /\ UNCHANGED <<at, content, answers, points>>

\* The places of everybody known are taken, once; narration has none to take.
Capture(r) ==
  /\ stage[r] = "closing" /\ content[r] \notin Narration
  /\ \A p \in Players : answers[r][p] = Blank
  /\ \E new \in [Players -> {Blank, Missing} \cup Placed("answered")] : Answer(r, new)
  /\ UNCHANGED <<at, content, stage, points>>

\* Whoever was not placed when the round closed may be so until it is revealed.
Upgrade(r) ==
  /\ stage[r] = "closing" /\ content[r] \notin Narration
  /\ \E new \in [Players -> {answers[r][p] : p \in Players} \cup Placed("late")] :
       /\ \A p \in Players :
            \/ new[p] = answers[r][p]
            \/ answers[r][p].how \in {"none", "absent"} /\ new[p] \in Placed("late")
       /\ Answer(r, new)
  /\ UNCHANGED <<at, content, stage, points>>

Reveal(r) == Passes(r, "closing", "revealed") /\ UNCHANGED <<at, content, answers, points>>

\* Everybody with a right answer gets his points, together and once.
Pay(r) ==
  /\ stage[r] = "revealed"
  /\ \A p \in Players : points[r][p] = 0
  /\ points' = [points EXCEPT ![r] = Due(r)]
  /\ UNCHANGED <<at, content, stage, answers>>

\* A round is over when exactly what was due has been paid.
Finish(r) ==
  /\ Passes(r, "revealed", "done")
  /\ points[r] = Due(r)
  /\ UNCHANGED <<at, content, answers, points>>

Next ==
  \E r \in Rows :
    \/ \E i \in 1 .. NumRounds : Ask(r, i)
    \/ Open(r) \/ Close(r) \/ Capture(r) \/ Upgrade(r) \/ Reveal(r) \/ Pay(r) \/ Finish(r)

Spec == Init /\ [][Next]_boardVars
=============================================================================
