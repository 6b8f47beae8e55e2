----------------------------- MODULE RoundStore -----------------------------
(***************************************************************************)
(* RoundEngine with its PocketBase tables: rounds, answers, score_events   *)
(* (pocketbase_client.py), and GameEngine.load after a crash.              *)
(*                                                                         *)
(* A call puts its requests on the network; the database serves them in    *)
(* any order, and the caller resumes when all of them have been served.    *)
(* The requests of a cancelled or failed task are abandoned: they are      *)
(* served later or never.  When a reply is lost or late the request is     *)
(* sent again (_request), which stores a score event twice, and the first  *)
(* attempt may still be served after the second; row creation is taken to  *)
(* be served once.                                                         *)
(***************************************************************************)
EXTENDS RoundEngine

CONSTANTS
  NoTask, NoOne,   \* the sender of an abandoned request; no player
  LostReplies,     \* are replies lost, and requests sent again?
  MaxCrashes,      \* bound on the number of crashes
  MaxLate          \* bound on the abandoned requests under way when one times out

ASSUME StoreAssumption ==
  /\ NoTask \notin Ops \cup Timers /\ NoOne \notin Players
  /\ LostReplies \in BOOLEAN /\ {MaxCrashes, MaxLate} \subseteq Nat

VARIABLES
  net,      \* requests on their way
  row,      \* table rounds: [idx, state]
  answer,   \* table answers
  paid,     \* number of score events per row and player, up to 2
  up,       \* is the runner running?
  crashes,
  torn,     \* history: rows with an abandoned request, not loaded since
  again     \* history: rows whose score events may be inserted again

dbVars == <<net, row, answer, paid, up, crashes, torn, again>>
storeVars == <<vars, dbVars>>

Msg(t, r, what, p, s, a) ==
  [src |-> t, row |-> r, what |-> what, who |-> p, state |-> s, ans |-> a]

StoreInit ==
  /\ Init
  /\ net = {}
  /\ row = [r \in Rows |-> [idx |-> 0, state |-> "none"]]
  /\ answer = [r \in Rows |-> [p \in Players |-> NoAnswer]]
  /\ paid = [r \in Rows |-> [p \in Players |-> 0]]
  /\ up = TRUE
  /\ crashes = 0
  /\ torn = {}
  /\ again = {}

(***************************************************************************)
(* The requests issued by the step of task t: create_round,                *)
(* update_round_state, record_answer and record_score_event.               *)
(***************************************************************************)
StateOf(pc) ==
  CASE pc = "open" -> "active" [] pc = "close" -> "closing"
    [] pc = "revealed" -> "revealed" [] pc = "done" -> "done"

Issued(t) ==
  LET pc == task'[t].pc
      r == task'[t].row
      Answers(S) == {Msg(t, r, "answer", p, "none", rt'[r].ans[p]) : p \in S}
  IN  CASE pc \in {"open", "close", "revealed", "done"} ->
             {Msg(t, r, "state", NoOne, StateOf(pc), NoAnswer)}
        [] pc = "create" -> {Msg(t, r, "row", NoOne, "pending", NoAnswer)}
        [] pc = "answers" -> Answers(known)
        [] pc = "upgrade" -> Answers({p \in known : rt'[r].ans[p] # rt[r].ans[p]})
        [] pc = "scores" -> {Msg(t, r, "score", p, "none", NoAnswer) : p \in Winners(r)}
        [] OTHER -> {}

Abandoned(S) == {[m EXCEPT !.src = NoTask] : m \in S}

\* Task t moves; the timer task it may have cancelled leaves its requests behind.
Send(t) ==
  LET dead == {m \in net : m.src \in Timers \ {t} /\ task'[m.src] # task[m.src]}
  IN  /\ net' = (net \ dead) \cup Abandoned(dead) \cup Issued(t)
      /\ torn' = torn \cup {m.row : m \in dead}
      /\ UNCHANGED <<row, answer, paid, up, crashes, again>>

Apply(m) ==
  /\ row' = CASE m.what = "row" -> [row EXCEPT ![m.row] =
                                      [idx |-> rt[m.row].content, state |-> "pending"]]
              [] m.what = "state" -> [row EXCEPT ![m.row].state = m.state]
              [] OTHER -> row
  /\ answer' = IF m.what = "answer" THEN [answer EXCEPT ![m.row][m.who] = m.ans] ELSE answer
  /\ paid' = IF m.what = "score" /\ paid[m.row][m.who] < 2
               THEN [paid EXCEPT ![m.row][m.who] = @ + 1] ELSE paid

Serve(m) ==
  /\ Apply(m)
  /\ \/ net' = net \ {m} /\ UNCHANGED again
     \/ /\ LostReplies /\ m.what # "row"
        /\ UNCHANGED net
        /\ again' = IF m.what = "score" THEN again \cup {m.row} ELSE again
  /\ UNCHANGED <<vars, up, crashes, torn>>

\* A request times out and is sent again while the first attempt is under way.
TimesOut(m) ==
  /\ LostReplies /\ m.src # NoTask /\ m.what # "row"
  /\ Cardinality({n \in net : n.src = NoTask}) < MaxLate
  /\ net' = net \cup Abandoned({m})
  /\ torn' = torn \cup {m.row}
  /\ again' = IF m.what = "score" THEN again \cup {m.row} ELSE again
  /\ UNCHANGED <<vars, row, answer, paid, up, crashes>>

\* An abandoned request never arrives.
Drop(m) ==
  /\ m.src = NoTask
  /\ net' = net \ {m}
  /\ UNCHANGED <<vars, row, answer, paid, up, crashes, torn, again>>

\* Faulty variant: writes are not awaited.
NotAwaited(t) == TRUE

Answered(t) == \A m \in net : m.src # t

StoreTask(t) ==
  /\ up
  /\ \/ t \in Ops /\ Requests(t)
     \/ t \in Timers /\ TimerFires(t)
     \/ Answered(t) /\ Proceeds(t)
  /\ Send(t)

StoreFails(t) ==
  /\ up
  /\ CallFails(t)
  /\ LET dead == {m \in net : m.src = t}
     IN  /\ net' = (net \ dead) \cup Abandoned(dead)
         /\ torn' = torn \cup {task[t].row}
  /\ UNCHANGED <<row, answer, paid, up, crashes, again>>

(***************************************************************************)
(* The runner dies, its requests are on their own, and GameEngine.load     *)
(* rebuilds the engine from the row with the highest idx.                  *)
(***************************************************************************)
Crash ==
  /\ up
  /\ crashes < MaxCrashes
  /\ crashes' = crashes + 1
  /\ up' = FALSE
  /\ net' = Abandoned(net)
  /\ UNCHANGED <<vars, row, answer, paid, torn, again>>

Created == {r \in Rows : row[r].state # "none"}

\* Faulty variant: the answers are not read back.
LoadedBare(r) ==
  [content |-> row[r].idx, idx |-> row[r].idx, state |-> "closing",
   ans |-> [p \in Players |-> NoAnswer]]

\* The runtime of an open round as it is rebuilt: its timers are gone, so it is closed.
Loaded(r) ==
  [content |-> row[r].idx, idx |-> row[r].idx, state |-> "closing", ans |-> answer[r]]

Restart ==
  /\ ~ up
  /\ net = {}
  /\ up' = TRUE
  /\ IF Created = {}
       THEN /\ index' = 0 /\ cur' = 0
            /\ UNCHANGED <<rt, row, torn, again>>
       ELSE \E last \in Created :
              /\ \A r \in Created : row[r].idx <= row[last].idx
              /\ index' = row[last].idx
              /\ IF row[last].state = "done"
                   THEN cur' = 0 /\ UNCHANGED <<rt, row, torn, again>>
                   ELSE /\ cur' = last
                        /\ again' = IF \E p \in Players : scored[last][p] > 0
                                      THEN again \cup {last} ELSE again
                        /\ torn' = torn \ {last}
                        /\ rt' = [rt EXCEPT ![last] = Loaded(last)]
                        /\ row' = [row EXCEPT ![last].state = "closing"]
  /\ task' = [t \in Tasks |-> Idle]
  /\ handle' = 0
  /\ UNCHANGED <<made, known, jumped, scored, failed, net, answer, paid, crashes>>

StoreNext ==
  \/ \E t \in Tasks : StoreTask(t) \/ StoreFails(t)
  \/ \E p \in Players : up /\ Join(p) /\ UNCHANGED dbVars
  \/ \E m \in net : Serve(m) \/ TimesOut(m) \/ Drop(m)
  \/ Crash
  \/ Restart

StoreSpec == StoreInit /\ [][StoreNext]_storeVars

-----------------------------------------------------------------------------

(***************************************************************************)
(* A round that the table shows as revealed has all its answers in the     *)
(* table, as they were counted -- unless a request of that round was       *)
(* abandoned (torn): its task cut short, or an attempt timed out.  The     *)
(* audit and the phones read the tables, not the memory.                   *)
(***************************************************************************)
RevealedIsStored ==
  \A r \in Rows \ torn : row[r].state \in {"revealed", "done"} =>
    answer[r] = rt[r].ans

(***************************************************************************)
(* The score events of a round are those its answers deserve, once each,   *)
(* in whatever order requests are served and wherever calls fail or tasks  *)
(* die; and if the table shows the round as done, none of them is missing  *)
(* of those due by the answers in the table, unless a request of the round *)
(* was abandoned (torn).  Two ways of paying twice are left out: resending *)
(* an insert whose reply was lost or late, and revealing a round again     *)
(* that a restart found half paid (the gap the runbook acknowledges).      *)
(***************************************************************************)
Deserves(a) == a.how \in {"answered", "late"} /\ a.zone \in Correct

PointsAreDue ==
  \A r \in Rows \ again, p \in Players :
    /\ paid[r][p] <= Dues(r)[p]
    /\ row[r].state = "done" /\ r \notin torn =>
         paid[r][p] = IF Deserves(answer[r][p]) THEN 1 ELSE 0

(***************************************************************************)
(* A restart (GameEngine.load) resumes where the show died.  An open round *)
(* comes back as the current one, closing, with every answer it had but    *)
(* those that were being stored; a finished one is followed by the next,   *)
(* unless its end was being stored; one that was being created is there,   *)
(* or the show is where it was before.  Not claimed if a task of the round *)
(* was cut short or one of its requests timed out.                         *)
(***************************************************************************)
Waits(pcs, r) == \E t \in Tasks : task[t].row = r /\ task[t].pc \in pcs

AnswersBack(r) == \A p \in Players :
  \/ rt'[r].ans[p] = rt[r].ans[p]
  \/ Waits({"answers", "upgrade"}, r) /\ rt'[r].ans[p].how \in {"none", "absent"}

RoundBack(r) ==
  /\ cur' = r /\ index' = rt[r].content
  /\ rt'[r].content = rt[r].content /\ rt'[r].state = "closing"
  /\ AnswersBack(r)

ResumesAt(i) ==
  /\ index' = i
  /\ \/ cur # 0 /\ RoundBack(cur) /\ (rt[cur].state = "done" => Waits({"done"}, cur))
     \/ cur' = 0 /\ (cur # 0 => rt[cur].state = "done")

Resumes ==
  IF Waits({"create"}, made) THEN RoundBack(made) \/ ResumesAt(index - 1)
                             ELSE ResumesAt(index)

RestartResumes ==
  [][/\ up' /\ ~ up
     /\ IF Waits({"create"}, made) THEN torn = {} ELSE {cur, made} \cap torn = {}
     => Resumes]_storeVars

\* While the runner is up the row of a round moves strictly forward, as recovery
\* relies on, unless a request of the round was abandoned.
RowsAdvance ==
  [][\A r \in Rows \ torn : up => Rank(row'[r].state) >= Rank(row[r].state)]_storeVars
=============================================================================
