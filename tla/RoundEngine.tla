---------------------------- MODULE RoundEngine ----------------------------
(***************************************************************************)
(* The runner's round state machine: class GameEngine of                   *)
(* apps/runner/server/engine.py, driven by the operator's start, close and *)
(* reveal requests and by its own active and grace timers.                 *)
(*                                                                         *)
(* A handler is atomic between two awaits.  task[t].pc names what a task   *)
(* waits for; successive awaits between which nothing in memory changes    *)
(* are one wait.  The answers gathered at the close are in memory as soon  *)
(* as their writes are issued.  Where the players stand is free each time  *)
(* the code looks; the right answer is a fixed set of zones (the           *)
(* correct_zone rounds).  Rounds are numbered from 1, rows of the table    *)
(* rounds in the order of their creation.                                  *)
(***************************************************************************)
EXTENDS Naturals, FiniteSets

CONSTANTS
  Players,
  Zones, Correct,      \* the options of a round and the correct ones
  NoZone,
  NumRounds,           \* length of the show
  Narration, Timed,    \* rounds without answers; rounds with duration_s > 0
  Ops,                 \* concurrent operator requests
  Timers,              \* bound on timer tasks alive at the same time
  MaxRows,             \* bound on the rounds ever started
  Jumps,               \* does the operator use start_round_at?
  Failures             \* do database calls fail after their retries?

ASSUME EngineAssumption ==
  /\ NumRounds \in Nat /\ MaxRows \in Nat
  /\ Narration \cup Timed \subseteq 1 .. NumRounds
  /\ Correct \subseteq Zones /\ NoZone \notin Zones
  /\ Ops \cap Timers = {} /\ 0 \notin Ops \cup Timers
  /\ {Jumps, Failures} \subseteq BOOLEAN

VARIABLES
  index,    \* self._index + 1
  cur,      \* the row of self._current, 0 for None
  made,     \* number of rows asked for so far
  rt,       \* RoundRuntime of each row
  task,     \* operator requests and timer tasks
  handle,   \* self._timer_task, 0 for None
  known,    \* the players BindingManager knows
  jumped,   \* history: rows the operator jumped to
  scored,   \* history: score events issued per row and player, up to 2
  failed    \* history: rows of which a task died of a failed call

vars == <<index, cur, made, rt, task, handle, known, jumped, scored, failed>>

Rows == 1 .. MaxRows
Tasks == Ops \cup Timers
Kinds == {"start", "close", "reveal", "active", "grace"}
Pcs == {"idle", "sleep", "create", "open", "close", "answers",
        "upgrade", "revealed", "scores", "done"}

Answer == [how : {"none", "absent", "answered", "late"}, zone : Zones \cup {NoZone}]
NoAnswer == [how |-> "none", zone |-> NoZone]
Absent == [how |-> "absent", zone |-> NoZone]

At(pc, r, kind) == [pc |-> pc, row |-> r, kind |-> kind]
Idle == At("idle", 0, "start")

Init ==
  /\ index = 0 /\ cur = 0 /\ made = 0 /\ handle = 0
  /\ rt = [r \in Rows |-> [content |-> 0, idx |-> 0, state |-> "none",
                           ans |-> [p \in Players |-> NoAnswer]]]
  /\ task = [t \in Tasks |-> Idle]
  /\ known = {}
  /\ jumped = {}
  /\ scored = [r \in Rows |-> [p \in Players |-> 0]]
  /\ failed = {}

\* Faulty variant: _cancel_timer only forgets the task.
NotCancelled == task

(***************************************************************************)
(* Timer tasks.  _cancel_timer kills the task of the handle, wherever it   *)
(* is; NewTimer starts one in tasks f and makes it the handle.             *)
(***************************************************************************)
Cancelled == [t \in Tasks |-> IF t = handle THEN Idle ELSE task[t]]

Put(f, t, x) == [u \in Tasks |-> IF u = t THEN x ELSE f[u]]

NewTimer(f, r, kind) ==
  \E t \in Timers :
    /\ f[t] = Idle
    /\ task' = Put(f, t, At("sleep", r, kind))
    /\ handle' = t

SetState(r, s) == rt' = [rt EXCEPT ![r].state = s]

\* Faulty variant: a round counts as over when it is revealed.
UntilRevealed == cur # 0 /\ rt[cur].state \notin {"revealed", "done"}

\* Faulty variant: only an active round is in progress.
WhileActive == cur # 0 /\ rt[cur].state = "active"

(***************************************************************************)
(* start_next_round, start_round_at and _start_round.                      *)
(***************************************************************************)
InProgress == cur # 0 /\ rt[cur].state # "done"

StartRound(o, i) ==
  /\ task[o] = Idle
  /\ ~ InProgress
  /\ made < MaxRows
  /\ index' = i
  /\ made' = made + 1
  /\ rt' = [rt EXCEPT ![made + 1].content = i, ![made + 1].state = "pending"]
  /\ task' = [task EXCEPT ![o] = At("create", made + 1, "start")]
  /\ UNCHANGED <<cur, handle, known, scored, failed>>

StartNext(o) ==
  /\ index < NumRounds
  /\ StartRound(o, index + 1)
  /\ UNCHANGED jumped

StartAt(o, i) ==
  /\ Jumps
  /\ StartRound(o, i)
  /\ jumped' = jumped \cup {made + 1}

RowCreated(o) ==
  /\ task[o].pc = "create"
  /\ LET r == task[o].row
     IN  /\ rt' = [rt EXCEPT ![r].idx = index, ![r].state = "active"]
         /\ cur' = r
         /\ task' = [task EXCEPT ![o].pc = "open"]
  /\ UNCHANGED <<index, made, handle, known, jumped, scored, failed>>

RoundOpened(o) ==
  /\ task[o].pc = "open"
  /\ LET r == task[o].row
         f == Put(Cancelled, o, Idle)
     IN  IF rt[r].content \in Timed
           THEN NewTimer(f, r, "active")
           ELSE task' = f /\ handle' = 0
  /\ UNCHANGED <<index, cur, made, rt, known, jumped, scored, failed>>

(***************************************************************************)
(* _do_close up to its first await, by task t of tasks f.                  *)
(***************************************************************************)
DoClose(f, t, r, kind) ==
  /\ SetState(r, "closing")
  /\ task' = Put(f, t, At("close", r, kind))
  /\ UNCHANGED scored

\* Faulty variant: who was placed at the close is placed again.
UpgradesAll(r) == {p \in known : rt[r].content \notin Narration}

(***************************************************************************)
(* _do_reveal: upgrade whoever was not captured at the close and stands in *)
(* a valid zone now, then lock, tally and publish.  Narration has no       *)
(* options, so nobody stands in one.                                       *)
(***************************************************************************)
Upgradable(r) ==
  {p \in known : rt[r].content \notin Narration /\ rt[r].ans[p].how \in {"none", "absent"}}

DoReveal(f, t, r, kind) ==
  /\ \/ SetState(r, "revealed") /\ task' = Put(f, t, At("revealed", r, kind))
     \/ \E up \in (SUBSET Upgradable(r)) \ {{}} : \E z \in [up -> Zones] :
          /\ rt' = [rt EXCEPT ![r].ans = [p \in Players |->
                      IF p \in up THEN [how |-> "late", zone |-> z[p]] ELSE @[p]]]
          /\ task' = Put(f, t, At("upgrade", r, kind))
  /\ UNCHANGED scored

\* Faulty variant: a round can be closed in any phase.
CloseAnytime(o) ==
  /\ task[o] = Idle
  /\ cur # 0
  /\ handle' = 0
  /\ DoClose(Cancelled, o, cur, "close")
  /\ UNCHANGED <<index, cur, made, known, jumped, failed>>

Close(o) ==
  /\ task[o] = Idle
  /\ cur # 0 /\ rt[cur].state = "active"
  /\ handle' = 0
  /\ DoClose(Cancelled, o, cur, "close")
  /\ UNCHANGED <<index, cur, made, known, jumped, failed>>

\* Faulty variant: a revealed round can be revealed again.
RevealAgain(o) ==
  /\ task[o] = Idle
  /\ cur # 0
  /\ handle' = 0
  /\ rt[cur].state \in {"closing", "revealed"}
  /\ DoReveal(Cancelled, o, cur, "reveal")
  /\ UNCHANGED <<index, cur, made, known, jumped, failed>>

Reveal(o) ==
  /\ task[o] = Idle
  /\ cur # 0
  /\ handle' = 0
  /\ \/ rt[cur].state = "active" /\ DoClose(Cancelled, o, cur, "reveal")
     \/ rt[cur].state = "closing" /\ DoReveal(Cancelled, o, cur, "reveal")
  /\ UNCHANGED <<index, cur, made, known, jumped, failed>>

TimerFires(t) ==
  /\ task[t].pc = "sleep"
  /\ LET r == task[t].row
         s == IF cur = r THEN rt[r].state ELSE "none"
     IN  CASE task[t].kind = "active" /\ s = "active" -> DoClose(task, t, r, "active")
           [] task[t].kind = "grace" /\ s = "closing" -> DoReveal(task, t, r, "grace")
           [] OTHER -> /\ task' = [task EXCEPT ![t] = Idle]
                       /\ UNCHANGED <<rt, scored>>
  /\ UNCHANGED <<index, cur, made, handle, known, jumped, failed>>

\* Faulty variant: no grace timer follows the close.
AfterCloseStops(t, r) ==
  /\ task' = Put(task, t, Idle)
  /\ UNCHANGED <<rt, handle, scored>>

(***************************************************************************)
(* What follows _do_close: the grace timer, or the reveal that asked for   *)
(* the close.  ans is the runtime's answers by then.                       *)
(***************************************************************************)
AfterClose(t, r) ==
  IF task[t].kind = "reveal"
    THEN DoReveal(task, t, r, "reveal") /\ UNCHANGED handle
    ELSE /\ NewTimer(Put(task, t, Idle), r, "grace")
         /\ UNCHANGED <<rt, scored>>

\* Closing is stored: capture where everybody stands (not for narration).
CloseStored(t) ==
  /\ task[t].pc = "close"
  /\ LET r == task[t].row
     IN  IF rt[r].content \in Narration \/ known = {}
           THEN AfterClose(t, r)
           ELSE /\ \E in \in SUBSET known : \E z \in [in -> Zones] :
                     rt' = [rt EXCEPT ![r].ans = [p \in Players |->
                       IF p \in in THEN [how |-> "answered", zone |-> z[p]]
                       ELSE IF p \in known THEN Absent ELSE @[p]]]
                /\ task' = [task EXCEPT ![t].pc = "answers"]
                /\ UNCHANGED <<handle, scored>>
  /\ UNCHANGED <<index, cur, made, known, jumped, failed>>

AnswersStored(t) ==
  /\ task[t].pc = "answers"
  /\ AfterClose(t, task[t].row)
  /\ UNCHANGED <<index, cur, made, known, jumped, failed>>

UpgradesStored(t) ==
  /\ task[t].pc = "upgrade"
  /\ SetState(task[t].row, "revealed")
  /\ task' = [task EXCEPT ![t].pc = "revealed"]
  /\ UNCHANGED <<index, cur, made, handle, known, jumped, scored, failed>>

Winners(r) == {p \in Players : /\ rt[r].ans[p].how \in {"answered", "late"}
                               /\ rt[r].ans[p].zone \in Correct}

\* The row and the player_reveals are stored: issue the score events.
RevealStored(t) ==
  /\ task[t].pc = "revealed"
  /\ LET r == task[t].row
     IN  scored' = [scored EXCEPT ![r] = [p \in Players |->
                      IF p \in Winners(r) /\ @[p] < 2 THEN @[p] + 1 ELSE @[p]]]
  /\ task' = [task EXCEPT ![t].pc = "scores"]
  /\ UNCHANGED <<index, cur, made, rt, handle, known, jumped, failed>>

ScoresStored(t) ==
  /\ task[t].pc = "scores"
  /\ SetState(task[t].row, "done")
  /\ task' = [task EXCEPT ![t].pc = "done"]
  /\ UNCHANGED <<index, cur, made, handle, known, jumped, scored, failed>>

DoneStored(t) ==
  /\ task[t].pc = "done"
  /\ task' = [task EXCEPT ![t] = Idle]
  /\ UNCHANGED <<index, cur, made, rt, handle, known, jumped, scored, failed>>

\* A database call raises: the request answers 500, a timer task just dies.
CallFails(t) ==
  /\ Failures
  /\ task[t].pc \notin {"idle", "sleep"}
  /\ task' = [task EXCEPT ![t] = Idle]
  /\ failed' = failed \cup {task[t].row}
  /\ UNCHANGED <<index, cur, made, rt, handle, known, jumped, scored>>

\* A player claims a GID for the first time.
Join(p) ==
  /\ p \notin known
  /\ known' = known \cup {p}
  /\ UNCHANGED <<index, cur, made, rt, task, handle, jumped, scored, failed>>

Proceeds(t) ==
  \/ RowCreated(t) \/ RoundOpened(t) \/ CloseStored(t) \/ AnswersStored(t)
  \/ UpgradesStored(t) \/ RevealStored(t) \/ ScoresStored(t) \/ DoneStored(t)

Requests(o) ==
  Close(o) \/ Reveal(o) \/ StartNext(o) \/ \E i \in 1 .. NumRounds : StartAt(o, i)

Next ==
  \/ \E o \in Ops : Requests(o)
  \/ \E t \in Tasks : Proceeds(t) \/ CallFails(t)
  \/ \E t \in Timers : TimerFires(t)
  \/ \E p \in Players : Join(p)

Spec == Init /\ [][Next]_vars

(***************************************************************************)
(* Database calls return and timers expire; nobody has to press a button.  *)
(***************************************************************************)
Fairness ==
  /\ \A t \in Tasks : WF_vars(Proceeds(t))
  /\ \A t \in Timers : WF_vars(TimerFires(t))

FairSpec == Spec /\ Fairness

-----------------------------------------------------------------------------
States == <<"none", "pending", "active", "closing", "revealed", "done">>
Rank(s) == CHOOSE i \in 1 .. 6 : States[i] = s

TypeOK ==
  /\ index \in 0 .. NumRounds
  /\ cur \in 0 .. MaxRows
  /\ made \in 0 .. MaxRows
  /\ rt \in [Rows -> [content : 0 .. NumRounds, idx : 0 .. NumRounds,
                      state : {States[i] : i \in 1 .. 6},
                      ans : [Players -> Answer]]]
  /\ task \in [Tasks -> [pc : Pcs, row : 0 .. MaxRows, kind : Kinds]]
  /\ handle \in Timers \cup {0}
  /\ known \in SUBSET Players
  /\ jumped \in SUBSET Rows
  /\ scored \in [Rows -> [Players -> 0 .. 2]]
  /\ failed \in SUBSET Rows

Open(r) == rt[r].state \in {"active", "closing", "revealed"}

\* "a round is already in progress": there are never two.
OneRoundInProgress == \A r, s \in Rows : Open(r) /\ Open(s) => r = s

\* A round never returns to an earlier phase.
PhasesAdvance ==
  [][\A r \in Rows : Rank(rt'[r].state) >= Rank(rt[r].state)]_vars

Unpaid(r) == \A p \in Players : scored[r][p] = 0

Dues(r) == [p \in Players |-> IF p \in Winners(r) THEN 1 ELSE 0]

\* The points of a round go out together, after the reveal, once to everybody with a
\* right answer and to nobody else, whoever revealed it; no round is done without.
PaidWhatIsDue ==
  \A r \in Rows :
    CASE rt[r].state = "done" -> scored[r] = Dues(r)
      [] rt[r].state = "revealed" -> Unpaid(r) \/ scored[r] = Dues(r)
      [] OTHER -> Unpaid(r)

\* Points go only to answers that were locked in: after the reveal the
\* answers of a round stay as they are.
AnswersLocked ==
  [][\A r \in Rows : rt[r].state \in {"revealed", "done"} => rt'[r].ans = rt[r].ans]_vars

\* A round is started only when the one before it is done, or one of its calls
\* failed; and pressing Next starts the round that follows it in the show, from
\* wherever the operator has jumped to.
InOrder ==
  \A r \in Rows : rt[r].state # "none" =>
    /\ r > 1 => rt[r - 1].state = "done" \/ r - 1 \in failed
    /\ r \notin jumped => rt[r].content = 1 + (IF r = 1 THEN 0 ELSE rt[r - 1].content)

\* A timed round is closed and revealed without any help, unless a call fails.
TimedRoundsFinish ==
  \A r \in Rows :
    (rt[r].state = "active" /\ rt[r].content \in Timed)
      ~> (rt[r].state = "done" \/ r \in failed)

Board == INSTANCE RoundBoard WITH
  at <- index,
  content <- [r \in Rows |-> rt[r].content],
  stage <- [r \in Rows |-> rt[r].state],
  answers <- [r \in Rows |-> rt[r].ans],
  points <- scored

\* With one operator request at a time the engine, its tasks and its timers implement
\* the board of rounds: what is due for a round is what its locked answers say, it is
\* paid once, and no round is done before it is.
RoundBoardSpec == Board!Spec
=============================================================================
