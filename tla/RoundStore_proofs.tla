-------------------------- MODULE RoundStore_proofs --------------------------
(***************************************************************************)
(* Proofs about RoundStore, for any players, zones, rounds, timers and     *)
(* crashes, calls failing and replies lost or not, and one operator        *)
(* request at a time (OneOperator): what the tables show of a round stays  *)
(* true to the engine through cancelled tasks, failures and restarts.      *)
(***************************************************************************)
EXTENDS RoundStore, RoundEngine_proofs

-----------------------------------------------------------------------------
(* The requests on their way.                                              *)

RequestOf(pc, m) ==
  \/ pc = "create" /\ m.what = "row"
  \/ pc \in {"open", "close", "revealed", "done"} /\ m.what = "state" /\ m.state = StateOf(pc)
  \/ pc \in {"answers", "upgrade"} /\ m.what = "answer"
  \/ pc = "scores" /\ m.what = "score"

Message ==
  [src : Tasks \cup {NoTask}, row : Rows, what : {"row", "state", "answer", "score"},
   who : Players \cup {NoOne}, state : Phases, ans : Answer]

WellFormed(m) ==
  /\ m \in Message
  /\ m.what \in {"answer", "score"} => m.who \in Players
  /\ m.what = "state" => m.state \in Begun
  /\ m.row <= made

\* While the runner is up a request is what its sender waits for, or its row is torn.
Owned(m) ==
  IF up /\ m.src # NoTask
    THEN m.row = task[m.src].row /\ RequestOf(task[m.src].pc, m)
    ELSE m.src = NoTask /\ (up => m.row \in torn)

NetInv == \A m \in net : WellFormed(m) /\ Owned(m)

TableRow == [idx : 0 .. NumRounds, state : Phases]

StoreTyped ==
  /\ row \in [Rows -> TableRow]
  /\ answer \in [Rows -> [Players -> Answer]]
  /\ paid \in [Rows -> [Players -> 0 .. 2]]
  /\ up \in BOOLEAN
  /\ \A r \in Created : r <= made

StoreInv == TypeInv /\ Base /\ StoreTyped /\ NetInv

LEMMA GhostType ==
  ASSUME NEW m \in Message
  PROVE  LET n == [m EXCEPT !.src = NoTask]
         IN  /\ n \in Message /\ n.src = NoTask /\ n.row = m.row /\ n.what = m.what
             /\ n.who = m.who /\ n.state = m.state /\ n.ans = m.ans
BY DEF Message

\* A task moves: the requests dead are abandoned, those of the others stay, and t
\* sends new ones.
NetMoves(t, dead, new) ==
  /\ dead \subseteq net
  /\ net' = (net \ dead) \cup Abandoned(dead) \cup new
  /\ torn \subseteq torn'
  /\ \A m \in dead : m.src \in Tasks /\ m.row \in torn' /\ task'[m.src] # task[m.src]
  /\ \A m \in net \ dead : m.src # t /\ (m.src \in Tasks => task'[m.src] = task[m.src])

LEMMA Grows ==
  ASSUME OneOperator, TypeInv, Base, [Next]_vars
  PROVE  made' \in {made, made + 1} /\ made \in Nat
<1>1. made \in Nat
  BY SameTypes, EngineAssumption DEF TypeInv, Typed
<1>2. CASE Forward
  BY <1>1, <1>2 DEF Forward
<1>3. CASE \E o \in Ops, i \in 1 .. NumRounds : Asks(o, i)
  BY <1>1, <1>3, StartEffect DEF Asks
<1>4. CASE \E o \in Tasks : RowCreated(o)
  BY <1>1, <1>4, CreatedEffect
<1> QED  BY <1>2, <1>3, <1>4, BaseStep

LEMMA NetKept ==
  ASSUME StoreInv, NEW t \in Tasks, NEW dead, NEW new, NetMoves(t, dead, new),
         up, up', made' \in {made, made + 1}, made \in Nat,
         \A m \in new : (WellFormed(m) /\ Owned(m))'
  PROVE  NetInv'
<1> SUFFICES ASSUME NEW n \in net' PROVE (WellFormed(n) /\ Owned(n))'
  BY DEF NetInv
<1>1. ASSUME NEW m \in net PROVE WellFormed(m) /\ WellFormed(m)' /\ Owned(m) /\ m \in Message
  <2>1. WellFormed(m) /\ Owned(m) /\ m \in Message /\ m.row <= made
    BY DEF StoreInv, NetInv, WellFormed
  <2>2. m.row \in Nat
    BY <2>1 DEF Message, Rows
  <2>3. m.row <= made'
    BY <2>1, <2>2
  <2> QED  BY <2>1, <2>3 DEF WellFormed
<1>2. CASE n \in net \ dead
  <2>1. n.src \in Tasks \cup {NoTask}
    BY <1>1, <1>2 DEF Message
  <2> QED  BY <1>1, <1>2, <2>1 DEF NetMoves, Owned
<1>3. CASE n \in Abandoned(dead)
  <2>1. PICK m \in dead : n = [m EXCEPT !.src = NoTask]
    BY <1>3 DEF Abandoned
  <2>2. m \in net /\ m.row \in torn'
    BY DEF NetMoves
  <2>3. WellFormed(m)' /\ m \in Message
    BY <1>1, <2>2
  <2>4. /\ n \in Message /\ n.src = NoTask /\ n.row = m.row /\ n.what = m.what
        /\ n.who = m.who /\ n.state = m.state
    BY <2>1, <2>3, GhostType
  <2> QED  BY <2>2, <2>3, <2>4 DEF WellFormed, Owned
<1>4. CASE n \in new
  BY <1>4
<1> QED  BY <1>2, <1>3, <1>4 DEF NetMoves

LEMMA MsgType ==
  ASSUME NEW t \in Tasks, NEW r \in Rows, NEW what \in {"row", "state", "answer", "score"},
         NEW p \in Players \cup {NoOne}, NEW s \in Phases, NEW a \in Answer
  PROVE  LET x == Msg(t, r, what, p, s, a)
         IN  /\ x \in Message /\ x.src = t /\ x.row = r /\ x.what = what /\ x.who = p
             /\ x.state = s /\ x.ans = a
BY DEF Msg, Message

\* What task t sends when it has moved.
LEMMA IssuedEffect ==
  ASSUME NEW t \in Tasks, TypeInv, TypeInv', known' = known, NEW m \in Issued(t)
  PROVE  /\ m.src = t /\ m.row = task'[t].row /\ m.row \in Rows /\ m \in Message
         /\ RequestOf(task'[t].pc, m)
         /\ m.what = "answer" => m.who \in Players /\ m.ans = rt'[m.row].ans[m.who]
         /\ m.what = "score" => /\ m.who \in Winners(m.row)
                                /\ m = Msg(t, m.row, "score", m.who, "none", NoAnswer)
         /\ m.what = "state" => m.state \in Begun
<1> DEFINE pc == task'[t].pc
           r == task'[t].row
<1>0. /\ rt' \in [Rows -> Runtime] /\ known \subseteq Players
      /\ NoAnswer \in Answer
  BY SameTypes DEF TypeInv, Typed, NoAnswer, Answer
<1>1. pc # "idle" => r \in Rows
  BY DEF TypeInv, TaskRow
<1>3. CASE pc \in {"open", "close", "revealed", "done"}
  <2>1. m = Msg(t, r, "state", NoOne, StateOf(pc), NoAnswer)
    BY <1>3 DEF Issued
  <2>2. StateOf(pc) \in Begun /\ StateOf(pc) \in Phases
    BY <1>3 DEF StateOf, Begun, Phases
  <2>3. /\ m \in Message /\ m.src = t /\ m.row = r /\ m.what = "state" /\ m.state = StateOf(pc)
    BY <1>0, <1>1, <1>3, <2>1, <2>2 DEF Msg, Message
  <2> QED  BY <1>1, <1>3, <2>2, <2>3 DEF RequestOf
<1>4. CASE pc = "create"
  <2>1. m = Msg(t, r, "row", NoOne, "pending", NoAnswer)
    BY <1>4 DEF Issued
  <2>2. r \in Rows /\ "pending" \in Phases
    BY <1>1, <1>4 DEF Phases
  <2>3. /\ m \in Message /\ m.src = t /\ m.row = r /\ m.what = "row"
    BY <1>0, <2>1, <2>2 DEF Msg, Message
  <2> QED  BY <1>4, <2>2, <2>3 DEF RequestOf
<1>5. CASE pc \in {"answers", "upgrade"}
  <2>1. \E p \in known : m = Msg(t, r, "answer", p, "none", rt'[r].ans[p])
    BY <1>5 DEF Issued
  <2>2. PICK p \in known : m = Msg(t, r, "answer", p, "none", rt'[r].ans[p])
    BY <2>1
  <2>3. r \in Rows /\ p \in Players /\ rt'[r].ans[p] \in Answer
    BY <1>0, <1>1, <1>5 DEF Runtime
  <2>4. /\ m \in Message /\ m.src = t /\ m.row = r /\ m.what = "answer" /\ m.who = p
        /\ m.ans = rt'[r].ans[p]
    <3>1. "none" \in Phases
      BY DEF Phases
    <3> QED  BY <2>2, <2>3, <3>1, MsgType
  <2> QED  BY <1>5, <2>3, <2>4 DEF RequestOf
<1>6. CASE pc = "scores"
  <2>1. PICK p \in Winners(r) : m = Msg(t, r, "score", p, "none", NoAnswer)
    BY <1>6 DEF Issued
  <2>2. r \in Rows /\ p \in Players
    BY <1>1, <1>6 DEF Winners
  <2>3. /\ m \in Message /\ m.src = t /\ m.row = r /\ m.what = "score" /\ m.who = p
    BY <1>0, <2>1, <2>2, MsgType DEF Phases
  <2> QED  BY <1>6, <2>1, <2>2, <2>3 DEF RequestOf
<1>7. pc \notin {"open", "close", "revealed", "done", "create", "answers", "upgrade", "scores"}
        => Issued(t) = {}
  BY DEF Issued
<1> QED  BY <1>3, <1>4, <1>5, <1>6, <1>7

\* A task that takes a step has no request on its way.
LEMMA TaskNet ==
  ASSUME OneOperator, StoreInv, NEW t \in Tasks, StoreTask(t)
  PROVE  /\ TaskStep(t) /\ Moved(t) /\ [Next]_vars
         /\ up /\ UNCHANGED <<row, answer, paid, up, crashes, again>>
         /\ \A m \in net : m.src # t
         /\ \E dead : NetMoves(t, dead, Issued(t))
<1>1. TaskStep(t) /\ up /\ Send(t)
  BY DEF StoreTask, TaskStep
<1>2. Moved(t)
  BY <1>1, StepMoves DEF StoreInv
<1>3. [Next]_vars
  BY <1>1 DEF TaskStep, Next
<1>4. \A m \in net : m.src # t
  <2>1. CASE Answered(t)
    BY <2>1 DEF Answered
  <2>2. CASE task[t].pc \in {"idle", "sleep"}
    <3> SUFFICES ASSUME NEW m \in net, m.src = t PROVE FALSE
      OBVIOUS
    <3>1. RequestOf(task[t].pc, m)
      BY <1>1, StoreAssumption DEF StoreInv, NetInv, Owned, Tasks
    <3> QED  BY <2>2, <3>1 DEF RequestOf
  <2>3. Requests(t) => task[t] = Idle
    BY DEF Requests, Close, Reveal, StartNext, StartAt, StartRound
  <2>4. TimerFires(t) => task[t].pc = "sleep"
    BY DEF TimerFires
  <2> QED  BY <2>1, <2>2, <2>3, <2>4, IdleType DEF StoreTask
<1> DEFINE dead == {m \in net : m.src \in Timers \ {t} /\ task'[m.src] # task[m.src]}
<1>5. NetMoves(t, dead, Issued(t))
  <2>1. dead \subseteq net
    OBVIOUS
  <2>2. net' = (net \ dead) \cup Abandoned(dead) \cup Issued(t)
    BY <1>1 DEF Send
  <2>3. /\ torn \subseteq torn'
        /\ \A m \in dead : m.src \in Tasks /\ m.row \in torn' /\ task'[m.src] # task[m.src]
    BY <1>1 DEF Send, Tasks
  <2>4. ASSUME NEW m \in net \ dead PROVE m.src # t /\ (m.src \in Tasks => task'[m.src] = task[m.src])
    <3>1. m.src # t
      BY <1>4
    <3>2. m.src \in Tasks /\ task'[m.src] # task[m.src] => m.src \in Timers
      BY <3>1, <1>2 DEF Moved, OthersStay
    <3> QED  BY <3>1, <3>2
  <2> QED  BY <2>1, <2>2, <2>3, <2>4 DEF NetMoves
<1>6. UNCHANGED <<row, answer, paid, up, crashes, again>>
  BY <1>1 DEF Send, StoreTask, Requests
<1> QED  BY <1>1, <1>2, <1>3, <1>4, <1>5, <1>6

\* A failed call: the task is gone, its requests are abandoned.
LEMMA FailNet ==
  ASSUME StoreInv, NEW t \in Tasks, StoreFails(t)
  PROVE  /\ [Next]_vars /\ up /\ UNCHANGED <<row, answer, paid, up, crashes, again>>
         /\ UNCHANGED <<index, cur, made, rt, handle, known, jumped, scored>>
         /\ task'[t].pc = "idle" /\ OthersStay(t) /\ task[t].pc \notin {"idle", "sleep"}
         /\ task[t].row \in torn'
         /\ \E dead : NetMoves(t, dead, {})
<1>1. CallFails(t) /\ up /\ task' = [task EXCEPT ![t] = Idle] /\ task \in [Tasks -> TaskRecord]
  BY SameTypes DEF StoreFails, CallFails, StoreInv, TypeInv, Typed
<1>2. task'[t].pc = "idle" /\ \A u \in Tasks \ {t} : task'[u] = task[u]
  BY <1>1, IdleType
<1> DEFINE dead == {m \in net : m.src = t}
<1>3. NetMoves(t, dead, {})
  <2>1. net' = (net \ dead) \cup Abandoned(dead) \cup {} /\ torn' = torn \cup {task[t].row}
    BY DEF StoreFails
  <2>2. \A m \in dead : m.src \in Tasks /\ m.row = task[t].row
    BY <1>1, StoreAssumption DEF StoreInv, NetInv, Owned, Tasks
  <2>3. task'[t] # task[t]
    BY <1>1, <1>2 DEF CallFails
  <2> QED  BY <1>2, <2>1, <2>2, <2>3 DEF NetMoves
<1>4. [Next]_vars
  BY <1>1 DEF Next
<1>5. /\ UNCHANGED <<row, answer, paid, up, crashes, again>> /\ task[t].row \in torn'
      /\ UNCHANGED <<index, cur, made, rt, handle, known, jumped, scored>>
      /\ task[t].pc \notin {"idle", "sleep"}
  BY <1>1 DEF StoreFails, CallFails
<1> QED  BY <1>1, <1>2, <1>3, <1>4, <1>5 DEF OthersStay

\* A request is served.
LEMMA ServeEffect ==
  ASSUME StoreInv, NEW m \in net, Serve(m)
  PROVE  /\ UNCHANGED vars /\ UNCHANGED <<up, crashes, torn>>
         /\ m \in Message /\ m.row \in Rows /\ m.row <= made
         /\ net' \subseteq net /\ again \subseteq again' /\ again' \subseteq again \cup {m.row}
         /\ \A n \in net \ net' : n = m
         /\ m \in net' /\ m.what = "score" => m.row \in again'
         /\ row' \in [Rows -> TableRow] /\ answer' \in [Rows -> [Players -> Answer]]
         /\ paid' \in [Rows -> [Players -> 0 .. 2]]
         /\ \A r \in Rows \ {m.row} : row'[r] = row[r] /\ answer'[r] = answer[r] /\ paid'[r] = paid[r]
         /\ IF m.what = "row" THEN row'[m.row] = [idx |-> rt[m.row].content, state |-> "pending"]
            ELSE /\ row'[m.row].idx = row[m.row].idx
                 /\ row'[m.row].state = IF m.what = "state" THEN m.state ELSE row[m.row].state
         /\ IF m.what = "answer"
              THEN answer'[m.row] = [answer[m.row] EXCEPT ![m.who] = m.ans]
              ELSE answer'[m.row] = answer[m.row]
         /\ \A p \in Players :
              paid'[m.row][p] = IF m.what = "score" /\ p = m.who /\ paid[m.row][p] < 2
                                  THEN paid[m.row][p] + 1 ELSE paid[m.row][p]
<1>1. WellFormed(m) /\ m \in Message /\ m.row \in Rows /\ m.row <= made
  BY DEF StoreInv, NetInv, WellFormed, Message
<1>2. /\ row \in [Rows -> TableRow] /\ answer \in [Rows -> [Players -> Answer]]
      /\ paid \in [Rows -> [Players -> 0 .. 2]] /\ rt \in [Rows -> Runtime]
  BY SameTypes DEF StoreInv, StoreTyped, TypeInv, Typed
<1>3. Apply(m)
  BY DEF Serve
<1>4. /\ UNCHANGED vars /\ UNCHANGED <<up, crashes, torn>>
      /\ net' \subseteq net /\ again \subseteq again' /\ again' \subseteq again \cup {m.row}
      /\ \A n \in net \ net' : n = m
      /\ m \in net' /\ m.what = "score" => m.row \in again'
  BY DEF Serve
<1>5. /\ row' \in [Rows -> TableRow]
      /\ \A r \in Rows \ {m.row} : row'[r] = row[r]
      /\ IF m.what = "row" THEN row'[m.row] = [idx |-> rt[m.row].content, state |-> "pending"]
         ELSE /\ row'[m.row].idx = row[m.row].idx
              /\ row'[m.row].state = IF m.what = "state" THEN m.state ELSE row[m.row].state
  <2>1. CASE m.what = "row"
    <3>1. row' = [row EXCEPT ![m.row] = [idx |-> rt[m.row].content, state |-> "pending"]]
      BY <1>3, <2>1 DEF Apply
    <3>2. [idx |-> rt[m.row].content, state |-> "pending"] \in TableRow
      BY <1>1, <1>2 DEF TableRow, Runtime, Phases
    <3> QED  BY <1>1, <1>2, <2>1, <3>1, <3>2
  <2>2. CASE m.what = "state"
    <3>1. row' = [row EXCEPT ![m.row].state = m.state] /\ m.state \in Phases
      BY <1>1, <1>3, <2>2 DEF Apply, Message
    <3> QED  BY <1>1, <1>2, <2>2, <3>1 DEF TableRow
  <2>3. CASE m.what \notin {"row", "state"}
    BY <1>2, <1>3, <2>3 DEF Apply
  <2> QED  BY <2>1, <2>2, <2>3
<1>6. /\ answer' \in [Rows -> [Players -> Answer]]
      /\ \A r \in Rows \ {m.row} : answer'[r] = answer[r]
      /\ IF m.what = "answer" THEN answer'[m.row] = [answer[m.row] EXCEPT ![m.who] = m.ans]
         ELSE answer'[m.row] = answer[m.row]
  <2>1. CASE m.what = "answer"
    <3>1. answer' = [answer EXCEPT ![m.row][m.who] = m.ans] /\ m.ans \in Answer /\ m.who \in Players
      BY <1>1, <1>3, <2>1 DEF Apply, Message, WellFormed
    <3> QED  BY <1>1, <1>2, <2>1, <3>1
  <2>2. CASE m.what # "answer"
    BY <1>2, <1>3, <2>2 DEF Apply
  <2> QED  BY <2>1, <2>2
<1>7. /\ paid' \in [Rows -> [Players -> 0 .. 2]]
      /\ \A r \in Rows \ {m.row} : paid'[r] = paid[r]
      /\ \A p \in Players :
           paid'[m.row][p] = IF m.what = "score" /\ p = m.who /\ paid[m.row][p] < 2
                               THEN paid[m.row][p] + 1 ELSE paid[m.row][p]
  <2>1. CASE m.what = "score" /\ paid[m.row][m.who] < 2
    <3>1. paid' = [paid EXCEPT ![m.row][m.who] = paid[m.row][m.who] + 1] /\ m.who \in Players
      BY <1>1, <1>3, <2>1 DEF Apply, WellFormed
    <3>2. paid[m.row][m.who] \in 0 .. 2
      BY <1>1, <1>2, <3>1
    <3>3. paid[m.row][m.who] + 1 \in 0 .. 2
      BY <2>1, <3>2
    <3> DEFINE x == paid[m.row][m.who] + 1
    <3>4. x \in 0 .. 2 /\ paid' = [paid EXCEPT ![m.row][m.who] = x]
      BY <3>1, <3>3
    <3>5. x = paid[m.row][m.who] + 1
      OBVIOUS
    <3> HIDE DEF x
    <3> QED  BY <1>1, <1>2, <2>1, <3>1, <3>4, <3>5
  <2>2. CASE ~ (m.what = "score" /\ paid[m.row][m.who] < 2)
    BY <1>1, <1>2, <1>3, <2>2 DEF Apply
  <2> QED  BY <2>1, <2>2
<1> QED  BY <1>1, <1>4, <1>5, <1>6, <1>7

\* A request times out: its first attempt stays under way and nobody waits for it.
LEMMA TimesOutEffect ==
  ASSUME StoreInv, NEW m \in net, TimesOut(m)
  PROVE  /\ UNCHANGED vars /\ UNCHANGED <<row, answer, paid, up>> /\ up
         /\ m.row \in Rows /\ m.what # "row" /\ torn' = torn \cup {m.row}
         /\ again \subseteq again' /\ (m.what = "score" => m.row \in again')
         /\ net \subseteq net'
         /\ \A n \in net' : \/ n \in net
                            \/ /\ n \in Message /\ n.src = NoTask /\ n.row = m.row
                               /\ n.what = m.what /\ n.who = m.who /\ n.state = m.state
<1>1. WellFormed(m) /\ Owned(m) /\ m \in Message /\ m.row \in Rows
  BY DEF StoreInv, NetInv, WellFormed, Message
<1>2. /\ UNCHANGED vars /\ UNCHANGED <<row, answer, paid, up>>
      /\ m.what # "row" /\ torn' = torn \cup {m.row} /\ m.src # NoTask
      /\ again \subseteq again' /\ (m.what = "score" => m.row \in again')
      /\ net' = net \cup Abandoned({m})
  BY DEF TimesOut
<1>3. up
  BY <1>1, <1>2 DEF Owned, StoreInv, StoreTyped
<1>4. ASSUME NEW n \in net', n \notin net
      PROVE  /\ n \in Message /\ n.src = NoTask /\ n.row = m.row
             /\ n.what = m.what /\ n.who = m.who /\ n.state = m.state
  <2>1. n = [m EXCEPT !.src = NoTask]
    BY <1>2, <1>4 DEF Abandoned
  <2> QED  BY <1>1, <2>1, GhostType
<1> QED  BY <1>1, <1>2, <1>3, <1>4

-----------------------------------------------------------------------------
(* A restart.                                                              *)

\* It resumes the round last at closing, with the answers of the table.
Resumed(last) ==
  /\ last \in Created /\ \A r \in Created : row[r].idx <= row[last].idx
  /\ index' = row[last].idx /\ row[last].state # "done"
  /\ cur' = last
  /\ rt' = [rt EXCEPT ![last] = Loaded(last)]
  /\ row' = [row EXCEPT ![last].state = "closing"]
  /\ torn' = torn \ {last}
  /\ again \subseteq again'
  /\ (\E p \in Players : scored[last][p] > 0) => last \in again'

\* Or there is no round to resume.
NoneResumed ==
  /\ cur' = 0 /\ UNCHANGED <<rt, row, torn, again>>
  /\ \/ Created = {} /\ index' = 0
     \/ \E last \in Created : /\ \A r \in Created : row[r].idx <= row[last].idx
                              /\ index' = row[last].idx /\ row[last].state = "done"

LEMMA RestartEffect ==
  ASSUME Restart
  PROVE  /\ ~ up /\ up' /\ net = {} /\ net' = {}
         /\ task' = [t \in Tasks |-> Idle] /\ handle' = 0
         /\ UNCHANGED <<made, known, jumped, scored, failed, answer, paid, crashes>>
         /\ NoneResumed \/ \E last \in Rows : Resumed(last)
<1>1. CASE Created = {}
  BY <1>1 DEF Restart, NoneResumed
<1>2. CASE Created # {}
  <2>1. PICK last \in Created :
          /\ \A r \in Created : row[r].idx <= row[last].idx
          /\ index' = row[last].idx
          /\ IF row[last].state = "done"
               THEN cur' = 0 /\ UNCHANGED <<rt, row, torn, again>>
               ELSE /\ cur' = last
                    /\ again' = IF \E p \in Players : scored[last][p] > 0
                                  THEN again \cup {last} ELSE again
                    /\ torn' = torn \ {last}
                    /\ rt' = [rt EXCEPT ![last] = Loaded(last)]
                    /\ row' = [row EXCEPT ![last].state = "closing"]
    BY <1>2, Zenon DEF Restart
  <2>2. NoneResumed \/ Resumed(last)
    BY <2>1 DEF NoneResumed, Resumed
  <2> QED  BY <2>2 DEF Restart, Created
<1> QED  BY <1>1, <1>2

LEMMA ResumedEffect ==
  ASSUME StoreInv, NEW last \in Rows, Resumed(last)
  PROVE  /\ rt' \in [Rows -> Runtime] /\ row' \in [Rows -> TableRow]
         /\ \A r \in Rows \ {last} : rt'[r] = rt[r] /\ row'[r] = row[r]
         /\ rt'[last].content = row[last].idx /\ rt'[last].state = "closing"
         /\ rt'[last].ans = answer[last]
         /\ row'[last].idx = row[last].idx /\ row'[last].state = "closing"
         /\ cur' = last /\ index' = row[last].idx /\ last <= made
<1>1. /\ row \in [Rows -> TableRow] /\ answer[last] \in [Players -> Answer]
      /\ rt \in [Rows -> Runtime] /\ last <= made
      /\ row[last].idx \in 0 .. NumRounds
  BY SameTypes DEF StoreInv, StoreTyped, TypeInv, Typed, TableRow, Resumed
<1> DEFINE x == Loaded(last)
<1>2. x \in Runtime /\ x.content = row[last].idx /\ x.state = "closing" /\ x.ans = answer[last]
  BY <1>1 DEF Loaded, Runtime, Phases
<1>3. rt' = [rt EXCEPT ![last] = x]
  BY DEF Resumed
<1> HIDE DEF x
<1>4. /\ rt' \in [Rows -> Runtime] /\ rt'[last] = x
      /\ \A r \in Rows \ {last} : rt'[r] = rt[r]
  BY <1>1, <1>2, <1>3
<1>5. /\ row' \in [Rows -> TableRow]
      /\ \A r \in Rows \ {last} : row'[r] = row[r]
      /\ row'[last].idx = row[last].idx /\ row'[last].state = "closing"
  <2>1. row' = [row EXCEPT ![last].state = "closing"] /\ "closing" \in Phases
    BY DEF Resumed, Phases
  <2> QED  BY <1>1, <2>1 DEF TableRow
<1>6. cur' = last /\ index' = row[last].idx
  BY DEF Resumed
<1> QED  BY <1>1, <1>2, <1>4, <1>5, <1>6

LEMMA RestartKeeps ==
  ASSUME StoreInv, Restart
  PROVE  StoreInv'
<1>0. /\ TypeInv /\ Typed /\ Base /\ StoreTyped
      /\ rt \in [Rows -> Runtime]
  BY SameTypes DEF StoreInv, TypeInv, Typed
<1>1. /\ up' /\ net' = {} /\ task' = [t \in Tasks |-> Idle] /\ handle' = 0
      /\ UNCHANGED <<made, known, jumped, scored, failed, answer, paid>>
      /\ NoneResumed \/ \E last \in Rows : Resumed(last)
  BY RestartEffect
<1>2. \A t \in Tasks : task'[t].pc = "idle"
  BY <1>1, IdleType
<1>3. /\ rt' \in [Rows -> Runtime] /\ row' \in [Rows -> TableRow]
      /\ index' \in 0 .. NumRounds /\ cur' \in 0 .. MaxRows /\ cur' <= made'
      /\ cur' # 0 => rt'[cur'].state = "closing"
      /\ \A r \in Rows : r > made' => rt'[r].state = "none"
      /\ \A r \in Created' : r <= made'
  <2>1. CASE NoneResumed
    <3>1. index' \in 0 .. NumRounds
      BY <1>0, <2>1, EngineAssumption DEF NoneResumed, Created, StoreTyped, TableRow
    <3>2. cur' = 0 /\ 0 <= made /\ rt' = rt /\ row' = row
      BY <1>0, <2>1 DEF NoneResumed, Typed
    <3> QED  BY <1>0, <1>1, <3>1, <3>2, EngineAssumption DEF Base, CurInv, StoreTyped, Created
  <2>2. ASSUME NEW last \in Rows, Resumed(last)
        PROVE  /\ rt' \in [Rows -> Runtime] /\ row' \in [Rows -> TableRow]
               /\ index' \in 0 .. NumRounds /\ cur' \in 0 .. MaxRows /\ cur' <= made'
               /\ cur' # 0 => rt'[cur'].state = "closing"
               /\ \A r \in Rows : r > made' => rt'[r].state = "none"
               /\ \A r \in Created' : r <= made'
    <3>1. /\ rt' \in [Rows -> Runtime] /\ row' \in [Rows -> TableRow]
          /\ \A r \in Rows \ {last} : rt'[r] = rt[r] /\ row'[r] = row[r]
          /\ rt'[last].state = "closing" /\ cur' = last /\ last <= made
      BY <2>2, ResumedEffect
    <3>2. index' \in 0 .. NumRounds /\ last \in 0 .. MaxRows
      BY <1>0, <2>2, EngineAssumption DEF Resumed, StoreTyped, TableRow, Rows
    <3>3. \A r \in Created' : r <= made
      BY <1>0, <3>1 DEF StoreTyped, Created
    <3>4. ASSUME NEW r \in Rows, r > made PROVE rt'[r].state = "none"
      <4>1. r # last
        BY <1>0, <3>1, <3>4, EngineAssumption DEF Typed, Rows
      <4> QED  BY <1>0, <3>1, <3>4, <4>1 DEF Base, CurInv
    <3> QED  BY <1>1, <3>1, <3>2, <3>3, <3>4
  <2> QED  BY <1>1, <2>1, <2>2
<1>4. TypeInv'
  <2>1. task' \in [Tasks -> TaskRecord]
    BY <1>1, IdleType
  <2>2. Typed'
    BY <1>0, <1>1, <1>3, <2>1 DEF Typed
  <2>3. TaskRow'
    BY <1>2 DEF TaskRow
  <2> QED  BY <2>2, <2>3, SameTypes DEF TypeInv
<1>5. Base'
  <2>1. \A t \in Tasks : TaskInv(t)'
    BY <1>2 DEF TaskInv, Early, Late
  <2>2. HandleInv'
    BY <1>2 DEF HandleInv, Working, Early, Late, Tasks
  <2>3. CurInv'
    BY <1>3 DEF CurInv, Begun
  <2> QED  BY <2>1, <2>2, <2>3 DEF Base
<1>6. StoreTyped'
  BY <1>0, <1>1, <1>3 DEF StoreTyped
<1>7. NetInv'
  BY <1>1 DEF NetInv
<1> QED  BY <1>4, <1>5, <1>6, <1>7 DEF StoreInv

LEMMA StoreStep ==
  ASSUME OneOperator, StoreInv, [StoreNext]_storeVars
  PROVE  StoreInv'
<1>0. TypeInv /\ Base /\ StoreTyped /\ NetInv
  BY DEF StoreInv
<1>1. ASSUME [Next]_vars, UNCHANGED <<row, answer, paid, up>>
      PROVE  TypeInv' /\ Base' /\ StoreTyped' /\ made' \in {made, made + 1} /\ made \in Nat
  <2>1. TypeInv' /\ Base' /\ made' \in {made, made + 1} /\ made \in Nat
    BY <1>0, <1>1, TypeStep, BaseStep, Grows
  <2>2. \A r \in Created : r \in Nat /\ r <= made
    BY <1>0 DEF StoreTyped, Created, Rows
  <2>3. \A r \in Created : r <= made'
    BY <2>1, <2>2
  <2>4. Created' = Created
    BY <1>1 DEF Created
  <2>5. StoreTyped'
    BY <1>0, <1>1, <2>3, <2>4 DEF StoreTyped
  <2> QED  BY <2>1, <2>5
<1>2. ASSUME NEW t \in Tasks, StoreTask(t) PROVE StoreInv'
  <2>1. /\ [Next]_vars /\ Moved(t) /\ up /\ UNCHANGED <<row, answer, paid, up>>
        /\ \E dead : NetMoves(t, dead, Issued(t))
    BY <1>2, TaskNet
  <2>2. TypeInv' /\ Base' /\ StoreTyped' /\ made' \in {made, made + 1} /\ made \in Nat
    BY <1>1, <2>1
  <2>3. known' = known
    BY <2>1 DEF Moved
  <2>4. ASSUME NEW m \in Issued(t) PROVE (WellFormed(m) /\ Owned(m))'
    <3>1. /\ m.src = t /\ m.row = task'[t].row /\ m \in Message
          /\ RequestOf(task'[t].pc, m)
          /\ m.what = "answer" => m.who \in Players
          /\ m.what = "score" => m.who \in Winners(m.row)
          /\ m.what = "state" => m.state \in Begun
      BY <1>0, <2>2, <2>3, IssuedEffect
    <3>2. t # NoTask
      BY StoreAssumption DEF Tasks
    <3>3. m.row <= made'
      <4>1. task'[t].pc # "idle"
        BY <3>1 DEF RequestOf
      <4> QED  BY <2>2, <3>1, <4>1 DEF Base, TaskInv
    <3>4. WellFormed(m)'
      BY <3>1, <3>3 DEF WellFormed, Winners
    <3>5. Owned(m)'
      BY <2>1, <3>1, <3>2 DEF Owned
    <3> QED  BY <3>4, <3>5
  <2>5. NetInv'
    BY <2>1, <2>2, <2>4, NetKept
  <2> QED  BY <2>2, <2>5 DEF StoreInv
<1>3. ASSUME NEW t \in Tasks, StoreFails(t) PROVE StoreInv'
  <2>1. /\ [Next]_vars /\ up /\ UNCHANGED <<row, answer, paid, up>>
        /\ \E dead : NetMoves(t, dead, {})
    BY <1>3, FailNet
  <2>2. TypeInv' /\ Base' /\ StoreTyped' /\ made' \in {made, made + 1} /\ made \in Nat
    BY <1>1, <2>1
  <2>3. NetInv'
    BY <2>1, <2>2, NetKept
  <2> QED  BY <2>2, <2>3 DEF StoreInv
<1>4. CASE (\E p \in Players : Join(p) /\ UNCHANGED dbVars) \/ UNCHANGED storeVars
  <2>1. [Next]_vars
    BY <1>4 DEF Next, storeVars
  <2>2. UNCHANGED dbVars /\ UNCHANGED task
    BY <1>4 DEF Join, storeVars, vars
  <2>3. UNCHANGED <<net, row, answer, paid, up, torn, task>>
    BY <2>2 DEF dbVars
  <2>4. TypeInv' /\ Base' /\ StoreTyped' /\ made' \in {made, made + 1} /\ made \in Nat
    BY <1>1, <2>1, <2>3
  <2>5. ASSUME NEW m \in net PROVE WellFormed(m)' /\ Owned(m)'
    <3>1. WellFormed(m) /\ Owned(m) /\ m.row \in Nat
      BY <1>0 DEF NetInv, WellFormed, Message, Rows
    <3>2. m.row <= made'
      BY <2>4, <3>1 DEF WellFormed
    <3> QED  BY <2>3, <3>1, <3>2 DEF WellFormed, Owned
  <2>6. NetInv'
    BY <2>3, <2>5 DEF NetInv
  <2> QED  BY <2>4, <2>6 DEF StoreInv
<1>5. ASSUME NEW m \in net, Serve(m) PROVE StoreInv'
  <2>1. /\ UNCHANGED vars /\ UNCHANGED <<up, torn>> /\ net' \subseteq net
        /\ row' \in [Rows -> TableRow] /\ answer' \in [Rows -> [Players -> Answer]]
        /\ paid' \in [Rows -> [Players -> 0 .. 2]]
        /\ m.row <= made /\ \A r \in Rows \ {m.row} : row'[r] = row[r]
    BY <1>5, ServeEffect
  <2>2. [Next]_vars
    BY <2>1
  <2>3. TypeInv' /\ Base'
    BY <1>0, <2>2, TypeStep, BaseStep
  <2>4. \A r \in Created' : r <= made'
    BY <1>0, <2>1 DEF StoreTyped, Created, vars
  <2>5. StoreTyped'
    BY <1>0, <2>1, <2>4 DEF StoreTyped
  <2>6. NetInv'
    BY <1>0, <2>1 DEF NetInv, WellFormed, Owned, vars
  <2> QED  BY <2>3, <2>5, <2>6 DEF StoreInv
<1>6. ASSUME NEW m \in net, Drop(m) PROVE StoreInv'
  <2>1. UNCHANGED vars /\ UNCHANGED <<row, answer, paid, up, torn>> /\ net' \subseteq net
    BY <1>6 DEF Drop
  <2>2. TypeInv' /\ Base' /\ StoreTyped'
    BY <1>1, <2>1
  <2>3. NetInv'
    BY <1>0, <2>1 DEF NetInv, WellFormed, Owned, vars
  <2> QED  BY <2>2, <2>3 DEF StoreInv
<1>7. CASE Crash
  <2>1. /\ UNCHANGED vars /\ UNCHANGED <<row, answer, paid, torn>> /\ ~ up'
        /\ net' = Abandoned(net)
    BY <1>7 DEF Crash
  <2>2. TypeInv' /\ Base'
    BY <1>0, <2>1, TypeStep, BaseStep
  <2>3. StoreTyped'
    <3>1. up' \in BOOLEAN
      BY <1>7 DEF Crash
    <3> QED  BY <1>0, <2>1, <3>1 DEF StoreTyped, Created, vars
  <2>4. NetInv'
    <3> SUFFICES ASSUME NEW n \in net' PROVE WellFormed(n)' /\ Owned(n)'
      BY DEF NetInv
    <3>1. PICK m \in net : n = [m EXCEPT !.src = NoTask]
      BY <2>1 DEF Abandoned
    <3>2. WellFormed(m) /\ m \in Message
      BY <1>0 DEF NetInv, WellFormed
    <3>3. /\ n \in Message /\ n.src = NoTask /\ n.row = m.row /\ n.what = m.what
          /\ n.who = m.who /\ n.state = m.state
      BY <3>1, <3>2, GhostType
    <3> QED  BY <2>1, <3>2, <3>3 DEF WellFormed, Owned, vars
  <2> QED  BY <2>2, <2>3, <2>4 DEF StoreInv
<1>8. ASSUME NEW m \in net, TimesOut(m) PROVE StoreInv'
  <2>1. /\ UNCHANGED vars /\ UNCHANGED <<row, answer, paid, up>>
        /\ torn' = torn \cup {m.row}
        /\ \A n \in net' : \/ n \in net
                           \/ /\ n \in Message /\ n.src = NoTask /\ n.row = m.row
                              /\ n.what = m.what /\ n.who = m.who /\ n.state = m.state
    BY <1>8, TimesOutEffect
  <2>2. TypeInv' /\ Base' /\ StoreTyped'
    BY <1>1, <2>1
  <2>3. WellFormed(m)
    BY <1>0 DEF NetInv
  <2>4. NetInv'
    BY <1>0, <2>1, <2>3 DEF NetInv, WellFormed, Owned, vars
  <2> QED  BY <2>2, <2>4 DEF StoreInv
<1> QED  BY <1>2, <1>3, <1>4, <1>5, <1>6, <1>7, <1>8, RestartKeeps DEF StoreNext

LEMMA StoreStart == StoreInit => StoreInv
<1> SUFFICES ASSUME StoreInit PROVE StoreInv
  OBVIOUS
<1>1. Init /\ net = {} /\ made = 0
  BY DEF StoreInit, Init
<1>2. TypeInv /\ Base
  BY <1>1, TypeInit, InvInit DEF Inv
<1>3. StoreTyped
  <2>1. NoAnswer \in Answer /\ [idx |-> 0, state |-> "none"] \in TableRow
    BY EngineAssumption DEF NoAnswer, Answer, TableRow, Phases
  <2>2. Created = {}
    BY DEF StoreInit, Created
  <2> QED  BY <2>1, <2>2 DEF StoreInit, StoreTyped
<1> QED  BY <1>1, <1>2, <1>3 DEF StoreInv, NetInv

-----------------------------------------------------------------------------
(***************************************************************************)
(* Score events.  As long as none of them is inserted again, those of a    *)
(* round are issued by the one task that reveals it, which then moves on;  *)
(* so of a player there is one event, on its way or in the table.          *)
(***************************************************************************)
ScoreOf(r, m) == m.row = r /\ m.what = "score"

PaidInv(r) ==
  r \notin again =>
    /\ RowPaid(r)
    /\ \A m, n \in net : ScoreOf(r, m) /\ ScoreOf(r, n) /\ m.who = n.who => m = n
    /\ \A m \in net : ScoreOf(r, m) => scored[r][m.who] > 0 /\ paid[r][m.who] = 0
    /\ \A p \in Players : paid[r][p] <= 1 /\ (scored[r][p] = 0 => paid[r][p] = 0)

\* Requests that are abandoned or go away stay as few.
LEMMA PaidKept ==
  ASSUME StoreInv, NEW r \in Rows, PaidInv(r), r \notin again, RowPaid(r)',
         NEW dead, dead \subseteq net,
         \A n \in net' : ScoreOf(r, n) => n \in (net \ dead) \cup Abandoned(dead),
         scored'[r] = scored[r], paid'[r] = paid[r]
  PROVE  PaidInv(r)'
<1>1. ASSUME NEW n \in net', ScoreOf(r, n)
      PROVE  \E m \in net : /\ ScoreOf(r, m) /\ m.who = n.who
                            /\ \/ m \notin dead /\ n = m
                               \/ m \in dead /\ n = [m EXCEPT !.src = NoTask]
  <2>1. CASE n \in net \ dead
    BY <1>1, <2>1
  <2>2. CASE n \in Abandoned(dead)
    <3>1. PICK m \in dead : n = [m EXCEPT !.src = NoTask]
      BY <2>2 DEF Abandoned
    <3>2. m \in Message
      BY DEF StoreInv, NetInv, WellFormed
    <3> QED  BY <1>1, <3>1, <3>2, GhostType DEF ScoreOf
  <2> QED  BY <1>1, <2>1, <2>2
<1>2. \A m, n \in net' : ScoreOf(r, m) /\ ScoreOf(r, n) /\ m.who = n.who => m = n
  <2> SUFFICES ASSUME NEW m \in net', NEW n \in net',
                      ScoreOf(r, m), ScoreOf(r, n), m.who = n.who
               PROVE  m = n
    OBVIOUS
  <2>1. PICK a \in net : /\ ScoreOf(r, a) /\ a.who = m.who
                         /\ \/ a \notin dead /\ m = a
                            \/ a \in dead /\ m = [a EXCEPT !.src = NoTask]
    BY <1>1
  <2>2. PICK b \in net : /\ ScoreOf(r, b) /\ b.who = n.who
                         /\ \/ b \notin dead /\ n = b
                            \/ b \in dead /\ n = [b EXCEPT !.src = NoTask]
    BY <1>1
  <2>3. a = b
    BY <2>1, <2>2 DEF PaidInv
  <2> QED  BY <2>1, <2>2, <2>3
<1>3. \A m \in net' : ScoreOf(r, m) => scored[r][m.who] > 0 /\ paid[r][m.who] = 0
  BY <1>1 DEF PaidInv
<1> QED  BY <1>2, <1>3 DEF PaidInv

LEMMA PaidStep ==
  ASSUME OneOperator, StoreInv, [StoreNext]_storeVars, NEW r \in Rows, PaidInv(r)
  PROVE  PaidInv(r)'
<1> SUFFICES ASSUME r \notin again' PROVE PaidInv(r)'
  BY DEF PaidInv
<1>0. TypeInv /\ Base /\ StoreTyped /\ NetInv /\ StoreInv'
  BY StoreStep DEF StoreInv
<1>1. ASSUME [Next]_vars, r \notin again PROVE RowPaid(r)'
  BY <1>0, <1>1, RowPaidStep DEF PaidInv
<1>2. ASSUME NEW t \in Tasks, StoreTask(t) PROVE PaidInv(r)'
  <2>1. /\ [Next]_vars /\ Moved(t) /\ UNCHANGED <<paid, again>>
        /\ \E dead : NetMoves(t, dead, Issued(t))
    BY <1>2, TaskNet
  <2>2. RowPaid(r)' /\ r \notin again
    BY <1>1, <2>1
  <2>3. PICK dead : NetMoves(t, dead, Issued(t))
    BY <2>1
  <2>4. TypeInv' /\ known' = known
    BY <1>0, <2>1 DEF StoreInv, Moved
  <2>5. CASE RevealStored(t) /\ r = cur
    <3>1. Unpaid(r)
      BY <2>2, <2>5, <1>0, PayEffect DEF PaidInv, RowPaid
    <3>2. /\ \A p \in Players : scored'[r][p] = IF p \in Winners(r) THEN 1 ELSE 0
          /\ rt' = rt /\ r \in Rows
      BY <1>0, <2>5, <3>1, PayEffect DEF Unpaid
    <3>3. \A m \in net : ~ ScoreOf(r, m)
      <4> SUFFICES ASSUME NEW m \in net, ScoreOf(r, m) PROVE FALSE
        OBVIOUS
      <4>1. m.who \in Players
        BY <1>0 DEF NetInv, WellFormed, ScoreOf
      <4>2. scored[r][m.who] > 0
        BY <2>2 DEF PaidInv
      <4> QED  BY <3>1, <4>1, <4>2 DEF Unpaid
    <3>4. \A p \in Players : paid[r][p] = 0
      BY <2>2, <3>1 DEF PaidInv, Unpaid
    <3>5. \A n \in net' : ScoreOf(r, n) => n \in Issued(t)
      <4> SUFFICES ASSUME NEW n \in net', ScoreOf(r, n), n \in Abandoned(dead) PROVE FALSE
        BY <2>3, <3>3 DEF NetMoves
      <4>1. PICK m \in dead : n = [m EXCEPT !.src = NoTask]
        BY DEF Abandoned
      <4>2. m \in net /\ m \in Message
        BY <1>0, <2>3 DEF NetInv, WellFormed, NetMoves
      <4> QED  BY <3>3, <4>1, <4>2, GhostType DEF ScoreOf
    <3>6. ASSUME NEW m \in Issued(t), ScoreOf(r, m)
          PROVE  m.who \in Winners(r) /\ m = Msg(t, r, "score", m.who, "none", NoAnswer)
      BY <1>0, <2>4, <3>6, IssuedEffect DEF ScoreOf
    <3>7. \A m, n \in net' : ScoreOf(r, m) /\ ScoreOf(r, n) /\ m.who = n.who => m = n
      BY <3>5, <3>6
    <3>8. \A m \in net' : ScoreOf(r, m) => scored'[r][m.who] > 0 /\ paid'[r][m.who] = 0
      BY <2>1, <3>2, <3>4, <3>5, <3>6 DEF Winners
    <3>9. \A p \in Players : paid'[r][p] <= 1 /\ (scored'[r][p] = 0 => paid'[r][p] = 0)
      BY <2>1, <3>4
    <3> QED  BY <2>2, <3>7, <3>8, <3>9 DEF PaidInv
  <2>6. CASE ~ (RevealStored(t) /\ r = cur)
    <3>1. scored'[r] = scored[r]
      <4>1. CASE scored' = scored
        BY <4>1
      <4>2. CASE \E u \in Tasks : RevealStored(u)
        <5>1. PICK u \in Tasks : RevealStored(u)
          BY <4>2
        <5>2. task[u].pc = "revealed" /\ task'[u].pc = "scores"
          BY <1>0, <5>1, PayEffect
        <5>3. u = t
          BY <2>1, <5>2 DEF Moved, OthersStay
        <5> QED  BY <1>0, <2>6, <5>1, <5>3, PayEffect
      <4> QED  BY <2>1, <4>1, <4>2, Pays
    <3>2. \A m \in Issued(t) : ~ ScoreOf(r, m)
      <4> SUFFICES ASSUME NEW m \in Issued(t), ScoreOf(r, m) PROVE FALSE
        OBVIOUS
      <4>1. RequestOf(task'[t].pc, m) /\ m.row = task'[t].row
        BY <1>0, <2>4, IssuedEffect
      <4>2. task'[t].pc = "scores"
        BY <4>1 DEF RequestOf, ScoreOf
      <4>3. RevealStored(t)
        BY <2>1, <4>2 DEF Moved
      <4> QED  BY <1>0, <2>6, <4>1, <4>3, PayEffect DEF ScoreOf
    <3>3. \A n \in net' : ScoreOf(r, n) => n \in (net \ dead) \cup Abandoned(dead)
      BY <2>3, <3>2 DEF NetMoves
    <3> QED  BY <2>1, <2>2, <2>3, <3>1, <3>3, PaidKept DEF NetMoves
  <2> QED  BY <2>5, <2>6
<1>3. ASSUME NEW t \in Tasks, StoreFails(t) PROVE PaidInv(r)'
  <2>1. /\ [Next]_vars /\ UNCHANGED <<paid, again, scored>>
        /\ \E dead : NetMoves(t, dead, {})
    BY <1>3, FailNet
  <2>2. RowPaid(r)' /\ r \notin again
    BY <1>1, <2>1
  <2>3. PICK dead : NetMoves(t, dead, {})
    BY <2>1
  <2> QED  BY <2>1, <2>2, <2>3, PaidKept DEF NetMoves
<1>4. CASE (\E p \in Players : Join(p) /\ UNCHANGED dbVars) \/ UNCHANGED storeVars
  <2>1. [Next]_vars /\ UNCHANGED <<net, paid, again, scored>>
    BY <1>4 DEF Join, Next, storeVars, vars, dbVars
  <2>2. RowPaid(r)'
    BY <1>1, <2>1
  <2> QED  BY <2>1, <2>2 DEF PaidInv
<1>5. ASSUME NEW m \in net, Serve(m) PROVE PaidInv(r)'
  <2>0. /\ UNCHANGED vars /\ again \subseteq again' /\ net' \subseteq net
        /\ m \in net' /\ m.what = "score" => m.row \in again'
        /\ \A s \in Rows \ {m.row} : paid'[s] = paid[s]
        /\ \A p \in Players :
             paid'[m.row][p] = IF m.what = "score" /\ p = m.who /\ paid[m.row][p] < 2
                                 THEN paid[m.row][p] + 1 ELSE paid[m.row][p]
    BY <1>5, ServeEffect
  <2>1. /\ UNCHANGED vars /\ scored' = scored /\ r \notin again
        /\ net' \subseteq net
        /\ m \in net' /\ m.what = "score" => m.row \in again'
        /\ r # m.row => paid'[r] = paid[r]
        /\ r = m.row => \A p \in Players :
             paid'[r][p] = IF m.what = "score" /\ p = m.who /\ paid[r][p] < 2
                             THEN paid[r][p] + 1 ELSE paid[r][p]
    BY <2>0 DEF vars
  <2>2. RowPaid(r)'
    BY <1>1, <2>1
  <2>3. CASE ScoreOf(r, m)
    <3>1. /\ m \notin net' /\ m.who \in Players
          /\ scored[r][m.who] > 0 /\ paid[r][m.who] = 0
      BY <1>0, <2>1, <2>3 DEF ScoreOf, NetInv, WellFormed, PaidInv
    <3>2. \A p \in Players : paid'[r][p] = IF p = m.who THEN 1 ELSE paid[r][p]
      BY <2>1, <2>3, <3>1 DEF ScoreOf
    <3>3. \A n \in net' : ScoreOf(r, n) => n.who # m.who
      BY <2>1, <2>3, <3>1 DEF PaidInv
    <3>4. \A n \in net' : ScoreOf(r, n) => scored'[r][n.who] > 0 /\ paid'[r][n.who] = 0
      <4> SUFFICES ASSUME NEW n \in net', ScoreOf(r, n)
                   PROVE  scored'[r][n.who] > 0 /\ paid'[r][n.who] = 0
        OBVIOUS
      <4>1. n.who \in Players /\ scored[r][n.who] > 0 /\ paid[r][n.who] = 0
        BY <1>0, <2>1 DEF ScoreOf, NetInv, WellFormed, PaidInv
      <4> QED  BY <2>1, <3>2, <3>3, <4>1
    <3>5. \A p \in Players : paid'[r][p] <= 1 /\ (scored'[r][p] = 0 => paid'[r][p] = 0)
      BY <2>1, <3>1, <3>2 DEF PaidInv
    <3> QED  BY <2>1, <2>2, <3>4, <3>5 DEF PaidInv
  <2>4. CASE ~ ScoreOf(r, m)
    <3>1. \A p \in Players : paid'[r][p] = paid[r][p]
      BY <2>1, <2>4 DEF ScoreOf
    <3>2. \A n \in net' : ScoreOf(r, n) => n.who \in Players
      BY <1>0, <2>1 DEF NetInv, WellFormed, ScoreOf
    <3> QED  BY <2>1, <2>2, <3>1, <3>2 DEF PaidInv
  <2> QED  BY <2>3, <2>4
<1>6. ASSUME NEW m \in net, Drop(m) PROVE PaidInv(r)'
  <2>1. UNCHANGED vars /\ UNCHANGED <<scored, paid, again>> /\ net' \subseteq net
    BY <1>6 DEF Drop, vars
  <2>2. RowPaid(r)'
    BY <1>1, <2>1
  <2> QED  BY <2>1, <2>2 DEF PaidInv
<1>7. CASE Crash
  <2>1. UNCHANGED vars /\ UNCHANGED <<scored, paid, again>> /\ net' = Abandoned(net)
    BY <1>7 DEF Crash, vars
  <2>2. RowPaid(r)'
    BY <1>1, <2>1
  <2> QED  BY <2>1, <2>2, PaidKept
<1>8. CASE Restart
  <2>1. /\ net' = {} /\ task' = [t \in Tasks |-> Idle] /\ UNCHANGED <<scored, paid>>
        /\ NoneResumed \/ \E last \in Rows : Resumed(last)
    BY <1>8, RestartEffect
  <2>2. \A t \in Tasks : task'[t].pc = "idle"
    BY <2>1, IdleType
  <2>3. r \notin again
    BY <2>1 DEF NoneResumed, Resumed
  <2>4. rt'[r].state \in {"none", "pending", "active", "closing"} => Unpaid(r)
    <3>1. CASE NoneResumed
      BY <2>3, <3>1 DEF NoneResumed, PaidInv, RowPaid
    <3>2. ASSUME NEW last \in Rows, Resumed(last), r # last
          PROVE  rt'[r].state \in {"none", "pending", "active", "closing"} => Unpaid(r)
      BY <2>3, <3>2, ResumedEffect DEF PaidInv, RowPaid
    <3>3. CASE Resumed(r)
      <4>1. \A p \in Players : ~ scored[r][p] > 0 /\ scored[r][p] \in 0 .. 2
        BY <1>0, <3>3, SameTypes DEF Resumed, TypeInv, Typed
      <4> QED  BY <4>1 DEF Unpaid
    <3> QED  BY <2>1, <3>1, <3>2, <3>3
  <2>5. rt'[r].state \in {"revealed", "done"} => rt'[r] = rt[r]
    BY <2>1, ResumedEffect DEF NoneResumed
  <2>6. rt'[r] = rt[r] => Dues(r)' = Dues(r)
    BY SameDues
  <2>7. RowPaid(r)'
    BY <2>1, <2>2, <2>3, <2>4, <2>5, <2>6 DEF PaidInv, RowPaid, Unpaid
  <2> QED  BY <2>1, <2>3, <2>7 DEF PaidInv
<1>9. ASSUME NEW m \in net, TimesOut(m) PROVE PaidInv(r)'
  <2>1. /\ UNCHANGED vars /\ UNCHANGED <<scored, paid>> /\ again \subseteq again'
        /\ m.what = "score" => m.row \in again'
        /\ \A n \in net' : n \in net \/ (n.row = m.row /\ n.what = m.what)
    BY <1>9, TimesOutEffect DEF vars
  <2>2. RowPaid(r)' /\ r \notin again
    BY <1>1, <2>1
  <2>3. \A n \in net' : ScoreOf(r, n) => n \in net
    BY <2>1 DEF ScoreOf
  <2> QED  BY <2>1, <2>2, <2>3 DEF PaidInv
<1> QED  BY <1>2, <1>3, <1>4, <1>5, <1>6, <1>7, <1>8, <1>9 DEF StoreNext

LEMMA PaidStart == StoreInit => \A r \in Rows : PaidInv(r)
<1> SUFFICES ASSUME StoreInit, NEW r \in Rows PROVE PaidInv(r)
  OBVIOUS
<1>1. ScoreInv /\ net = {} /\ paid[r] = [p \in Players |-> 0]
  BY InvInit DEF StoreInit, Inv
<1> QED  BY <1>1 DEF ScoreInv, PaidInv

LEMMA StoreAlways ==
  ASSUME OneOperator
  PROVE  StoreSpec => []StoreInv
BY StoreStart, StoreStep, PTL DEF StoreSpec

LEMMA PaidAlways ==
  ASSUME OneOperator
  PROVE  StoreSpec => [](\A r \in Rows : PaidInv(r))
<1> DEFINE AllPaid == \A r \in Rows : PaidInv(r)
<1>1. StoreInit => AllPaid
  BY PaidStart
<1>2. StoreInv /\ AllPaid /\ [StoreNext]_storeVars => AllPaid'
  BY PaidStep
<1> QED  BY <1>1, <1>2, StoreAlways, PTL DEF StoreSpec

-----------------------------------------------------------------------------
(***************************************************************************)
(* The tables.  As long as no task of a round is cut short, its row is     *)
(* behind the engine, never ahead of it, and an answer of the current      *)
(* round is in the table or on its way.  A request that moves the row to   *)
(* revealed is issued when the answers have arrived, and they are final    *)
(* then; so the row finds them in the table whenever it is served.         *)
(***************************************************************************)
AnswerOf(r, m) == m.row = r /\ m.what = "answer"
StateTo(r, m) == m.row = r /\ m.what = "state"

TableInv(r) ==
  r \notin torn =>
    /\ row[r].state \in {"revealed", "done"} => answer[r] = rt[r].ans
    /\ \A m \in net : StateTo(r, m) /\ m.state \in {"revealed", "done"} => answer[r] = rt[r].ans
    /\ \A m \in net : AnswerOf(r, m) => m.ans = rt[r].ans[m.who]
    /\ up /\ r = cur =>
         \A p \in Players : \/ answer[r][p] = rt[r].ans[p]
                            \/ \E m \in net : AnswerOf(r, m) /\ m.who = p
    /\ rt[r].state \in {"none", "pending"} => answer[r] = rt[r].ans
    /\ Rank(row[r].state) <= Rank(rt[r].state)
    /\ \A m \in net : StateTo(r, m) => Rank(m.state) <= Rank(rt[r].state)
    /\ \A m \in net : m.row = r /\ m.what = "row" => rt[r].state = "pending"

\* While the runner is up, a request of a round that is not torn is about the phase
\* the round is in.
OnItsWay ==
  up => \A m \in net : m.row \notin torn =>
    /\ m.src \in Tasks /\ m.row = task[m.src].row /\ RequestOf(task[m.src].pc, m)
    /\ m.what = "state" => m.state = rt[m.row].state
    /\ m.what = "row" => rt[m.row].state = "pending"
    /\ m.what = "answer" => rt[m.row].state = "closing" /\ m.row = cur

LEMMA Way == StoreInv => OnItsWay
<1> SUFFICES ASSUME StoreInv, up, NEW m \in net, m.row \notin torn
             PROVE  /\ m.src \in Tasks /\ m.row = task[m.src].row /\ RequestOf(task[m.src].pc, m)
                    /\ m.what = "state" => m.state = rt[m.row].state
                    /\ m.what = "row" => rt[m.row].state = "pending"
                    /\ m.what = "answer" => rt[m.row].state = "closing" /\ m.row = cur
  BY DEF OnItsWay
<1>1. /\ m.src \in Tasks /\ m.row = task[m.src].row /\ RequestOf(task[m.src].pc, m)
  BY DEF StoreInv, NetInv, WellFormed, Owned, Message
<1>2. TaskInv(m.src)
  BY <1>1 DEF StoreInv, Base
<1>3. m.what = "state" => m.state = rt[m.row].state
  BY <1>1, <1>2 DEF RequestOf, StateOf, TaskInv, Early, Late
<1>4. m.what = "row" => rt[m.row].state = "pending"
  BY <1>1, <1>2 DEF RequestOf, TaskInv
<1>5. m.what = "answer" => rt[m.row].state = "closing" /\ m.row = cur
  BY <1>1, <1>2 DEF RequestOf, TaskInv, Early
<1> QED  BY <1>1, <1>3, <1>4, <1>5

LEMMA WayNext == StoreInv' => OnItsWay'
BY Way, PTL

\* A task's step leaves the requests of a row that is not torn where they are.
LEMMA Untouched ==
  ASSUME StoreInv, StoreInv', NEW t \in Tasks, NEW dead, NEW new, NetMoves(t, dead, new),
         up', NEW r \in Rows, r \notin torn'
  PROVE  /\ r \notin torn
         /\ \A n \in net' : n.row = r => \/ n \in new
                                         \/ n \in net /\ n.src # t /\ task'[n.src] = task[n.src]
         /\ \A m \in net : m.row = r => m \in net'
<1>1. OnItsWay'
  BY WayNext
<1>2. ASSUME NEW n \in net', n.row = r, n \notin new
      PROVE  n \in net /\ n.src # t /\ task'[n.src] = task[n.src]
  <2>1. n.src \in Tasks
    BY <1>1, <1>2 DEF OnItsWay
  <2>2. n \notin Abandoned(dead)
    <3> SUFFICES ASSUME n \in Abandoned(dead) PROVE FALSE
      OBVIOUS
    <3>1. PICK m \in dead : n = [m EXCEPT !.src = NoTask]
      BY DEF Abandoned
    <3>2. m \in Message
      BY DEF NetMoves, StoreInv, NetInv, WellFormed
    <3>3. n.src = NoTask
      BY <3>1, <3>2, GhostType
    <3> QED  BY <2>1, <3>3, StoreAssumption DEF Tasks
  <2> QED  BY <1>2, <2>1, <2>2 DEF NetMoves
<1> QED  BY <1>2 DEF NetMoves

LEMMA TableTask ==
  ASSUME OneOperator, StoreInv, NEW t \in Tasks, StoreTask(t), NEW r \in Rows, TableInv(r)
  PROVE  TableInv(r)'
<1> SUFFICES ASSUME r \notin torn' PROVE TableInv(r)'
  BY DEF TableInv
<1>0. TypeInv /\ Base /\ StoreTyped /\ NetInv /\ OnItsWay
  BY Way DEF StoreInv
<1>1. /\ [Next]_vars /\ Moved(t) /\ up /\ UNCHANGED <<row, answer, up>>
      /\ \E dead : NetMoves(t, dead, Issued(t))
  BY TaskNet
<1>2. /\ StoreInv' /\ TypeInv' /\ Base' /\ OnItsWay' /\ Onward /\ up'
  <2>1. StoreInv'
    BY StoreStep DEF StoreNext
  <2> QED  BY <1>0, <1>1, <2>1, BaseStep, WayNext DEF StoreInv
<1>3. PICK dead : NetMoves(t, dead, Issued(t))
  BY <1>1
<1>4. /\ r \notin torn
      /\ \A n \in net' : n.row = r => \/ n \in Issued(t)
                                      \/ n \in net /\ n.src # t /\ task'[n.src] = task[n.src]
      /\ \A m \in net : m.row = r => m \in net'
      /\ Issued(t) \subseteq net'
  BY <1>2, <1>3, Untouched DEF NetMoves
<1>5. /\ answer[r] \in [Players -> Answer] /\ rt[r].ans \in [Players -> Answer]
      /\ rt'[r].ans \in [Players -> Answer]
      /\ row[r].state \in Phases /\ rt[r].state \in Phases /\ rt'[r].state \in Phases
  BY <1>0, <1>2, SameTypes DEF StoreTyped, TypeInv, Typed, Runtime, TableRow
<1>6. Rank(rt'[r].state) >= Rank(rt[r].state)
  BY <1>0, <1>2, RankOnward
<1>7. /\ Rank(row[r].state) \in 1 .. 6 /\ Rank(rt[r].state) \in 1 .. 6 /\ Rank(rt'[r].state) \in 1 .. 6
  BY <1>5, RankTypes
<1>8. /\ \/ rt'[r].ans = rt[r].ans
         \/ /\ r = cur /\ task'[t].row = r /\ task'[t].pc \in {"answers", "upgrade"}
            /\ \A p \in Players \ known : rt'[r].ans[p] = rt[r].ans[p]
      /\ known' = known
  BY <1>1 DEF Moved, AnswersMove
<1>9. rt[r].state \in {"revealed", "done"} => rt'[r].ans = rt[r].ans
  BY <1>2 DEF Onward
<1>10. ASSUME NEW m \in net', StateTo(r, m), m.state \in {"revealed", "done"}
       PROVE  answer[r] = rt'[r].ans
  <2>1. CASE m \in net
    <3>1. answer[r] = rt[r].ans /\ rt[r].state = m.state
      BY <1>0, <1>1, <1>4, <1>10, <2>1 DEF TableInv, StateTo, OnItsWay
    <3> QED  BY <1>9, <1>10, <3>1
  <2>2. CASE m \in Issued(t)
    <3>1. m.row = task'[t].row /\ RequestOf(task'[t].pc, m)
      BY <1>0, <1>2, <1>8, <2>2, IssuedEffect
    <3>2. task'[t].pc = m.state /\ task'[t].pc \in {"revealed", "done"}
      BY <1>10, <3>1 DEF RequestOf, StateTo, StateOf
    <3>3. r = cur /\ rt'[r].ans = rt[r].ans
      BY <1>1, <1>8, <1>10, <3>1, <3>2 DEF Moved, StateTo
    <3>4. rt'[r].state = m.state
      BY <1>2, <1>4, <1>10 DEF OnItsWay, StateTo
    <3>5. ASSUME NEW p \in Players PROVE answer[r][p] = rt[r].ans[p]
      <4>1. \A n \in net : ~ AnswerOf(r, n)
        BY <1>2, <1>4, <1>10, <3>4 DEF OnItsWay, AnswerOf
      <4> QED  BY <1>1, <1>4, <3>3, <4>1 DEF TableInv
    <3>6. answer[r] = rt[r].ans
      BY <1>5, <3>5
    <3> QED  BY <3>3, <3>6
  <2> QED  BY <1>4, <1>10, <2>1, <2>2 DEF StateTo
<1>11. ASSUME NEW m \in net', AnswerOf(r, m) PROVE m.ans = rt'[r].ans[m.who]
  <2>1. CASE m \in Issued(t)
    BY <1>0, <1>2, <1>8, <1>11, <2>1, IssuedEffect DEF AnswerOf
  <2>2. CASE m \in net /\ m.src # t
    <3>1. m.ans = rt[r].ans[m.who]
      BY <1>4, <1>11, <2>2 DEF TableInv
    <3>2. /\ m.src \in Tasks /\ task'[m.src].pc \in Working
      BY <1>2, <1>4, <1>11 DEF OnItsWay, AnswerOf, RequestOf, Working, Early
    <3>3. task'[t].pc \notin {"answers", "upgrade"}
      BY <1>2, <2>2, <3>2, EngineAssumption
         DEF OneOperator, Base, HandleInv, Tasks, Working, Early
    <3> QED  BY <1>8, <3>1, <3>3
  <2> QED  BY <1>4, <1>11, <2>1, <2>2 DEF AnswerOf
<1>12. ASSUME r = cur', NEW p \in Players
       PROVE  answer[r][p] = rt'[r].ans[p] \/ \E m \in net' : AnswerOf(r, m) /\ m.who = p
  <2>1. CASE r = cur
    <3>1. CASE rt'[r].ans[p] = rt[r].ans[p]
      BY <1>1, <1>4, <2>1, <3>1 DEF TableInv, AnswerOf
    <3>2. CASE rt'[r].ans[p] # rt[r].ans[p]
      <4>1. task'[t].row = r /\ task'[t].pc \in {"answers", "upgrade"} /\ p \in known
        BY <1>8, <3>2
      <4> DEFINE m == Msg(t, r, "answer", p, "none", rt'[r].ans[p])
      <4>2. m \in Issued(t)
        BY <3>2, <4>1 DEF Issued
      <4>3. AnswerOf(r, m) /\ m.who = p
        BY DEF Msg, AnswerOf
      <4> QED  BY <1>4, <4>2, <4>3
    <3> QED  BY <3>1, <3>2
  <2>2. CASE r # cur
    <3>1. rt[r].state = "pending"
      <4>1. ~ Forward /\ ~ \E o \in Ops, i \in 1 .. NumRounds : Asks(o, i)
        BY <1>0, <1>12, <2>2, StartEffect DEF Forward, Asks
      <4>2. PICK o \in Tasks : RowCreated(o)
        BY <1>0, <1>1, <4>1, BaseStep
      <4> QED  BY <1>0, <1>12, <4>2, CreatedEffect
    <3> QED  BY <1>4, <1>8, <2>2, <3>1 DEF TableInv
  <2> QED  BY <2>1, <2>2
<1>13. rt'[r].state \in {"none", "pending"} => answer[r] = rt'[r].ans
  <2> SUFFICES ASSUME rt'[r].state \in {"none", "pending"} PROVE answer[r] = rt'[r].ans
    OBVIOUS
  <2>1. rt[r].state \in {"none", "pending"}
    BY <1>2 DEF Onward, Moves
  <2>2. r # cur
    BY <1>0, <2>1, EngineAssumption DEF Base, CurInv, Begun, Rows
  <2> QED  BY <1>4, <1>8, <2>1, <2>2 DEF TableInv
<1>14. row[r].state \in {"revealed", "done"} => answer[r] = rt'[r].ans
  <2> SUFFICES ASSUME row[r].state \in {"revealed", "done"} PROVE answer[r] = rt'[r].ans
    OBVIOUS
  <2>1. rt[r].state \in {"revealed", "done"}
    <3>1. Rank(row[r].state) >= 5 /\ Rank(row[r].state) <= Rank(rt[r].state)
      BY <1>4, Ranks DEF TableInv
    <3> QED  BY <1>5, <1>7, <3>1, Ranks DEF Phases
  <2> QED  BY <1>4, <1>9, <2>1 DEF TableInv
<1>15. /\ Rank(row[r].state) <= Rank(rt'[r].state)
       /\ \A m \in net' : StateTo(r, m) => Rank(m.state) <= Rank(rt'[r].state)
       /\ \A m \in net' : m.row = r /\ m.what = "row" => rt'[r].state = "pending"
  <2>1. Rank(row[r].state) <= Rank(rt'[r].state)
    BY <1>4, <1>6, <1>7 DEF TableInv
  <2>2. \A m \in net' : StateTo(r, m) => m.state = rt'[r].state
    BY <1>2 DEF OnItsWay, StateTo
  <2>3. \A m \in net' : m.row = r /\ m.what = "row" => rt'[r].state = "pending"
    BY <1>2 DEF OnItsWay
  <2> QED  BY <1>7, <2>1, <2>2, <2>3
<1> QED
  BY <1>1, <1>10, <1>11, <1>12, <1>13, <1>14, <1>15 DEF TableInv

\* A request of a round that is not torn is served.
LEMMA TableServe ==
  ASSUME StoreInv, NEW m \in net, Serve(m), NEW r \in Rows, TableInv(r), r \notin torn
  PROVE  TableInv(r)'
<1>0. TypeInv /\ StoreTyped /\ NetInv
  BY DEF StoreInv
<1>1. /\ UNCHANGED <<rt, cur>> /\ up' = up /\ torn' = torn
      /\ m \in Message /\ net' \subseteq net /\ \A n \in net \ net' : n = m
      /\ \A s \in Rows \ {m.row} : row'[s] = row[s] /\ answer'[s] = answer[s]
      /\ IF m.what = "row" THEN row'[m.row] = [idx |-> rt[m.row].content, state |-> "pending"]
         ELSE row'[m.row].state = IF m.what = "state" THEN m.state ELSE row[m.row].state
      /\ IF m.what = "answer"
           THEN answer'[m.row] = [answer[m.row] EXCEPT ![m.who] = m.ans]
           ELSE answer'[m.row] = answer[m.row]
  BY ServeEffect DEF vars
<1>2. answer[r] \in [Players -> Answer] /\ rt[r].ans \in [Players -> Answer]
  BY <1>0, SameTypes DEF StoreTyped, TypeInv, Typed, Runtime
<1>3. CASE m.row # r
  <2>1. row'[r] = row[r] /\ answer'[r] = answer[r] /\ rt'[r] = rt[r]
    BY <1>1, <1>3
  <2>2. \A n \in net : n.row = r => n \in net'
    BY <1>1, <1>3
  <2> QED  BY <1>1, <2>1, <2>2 DEF TableInv, StateTo, AnswerOf
<1>4. CASE m.row = r /\ m.what = "answer"
  <2>1. /\ m.ans = rt[r].ans[m.who] /\ m.who \in Players
        /\ answer'[r] = [answer[r] EXCEPT ![m.who] = m.ans] /\ row'[r].state = row[r].state
    BY <1>0, <1>1, <1>4 DEF TableInv, AnswerOf, NetInv, WellFormed
  <2>2. \A p \in Players : answer'[r][p] = IF p = m.who THEN rt[r].ans[p] ELSE answer[r][p]
    BY <1>2, <2>1
  <2>3. answer[r] = rt[r].ans => answer'[r] = rt[r].ans
    BY <1>2, <2>1
  <2>4. up /\ r = cur =>
          \A p \in Players : \/ answer'[r][p] = rt[r].ans[p]
                             \/ \E n \in net' : AnswerOf(r, n) /\ n.who = p
    BY <1>1, <2>2 DEF TableInv
  <2> QED  BY <1>1, <2>1, <2>3, <2>4 DEF TableInv
<1>5. CASE m.row = r /\ m.what # "answer"
  <2>1. answer'[r] = answer[r] /\ \A n \in net : AnswerOf(r, n) => n \in net'
    BY <1>1, <1>5 DEF AnswerOf
  <2>2. /\ row'[r].state \in {"revealed", "done"} => answer[r] = rt[r].ans
        /\ Rank(row'[r].state) <= Rank(rt[r].state)
    <3>1. CASE m.what = "row"
      <4>1. row'[r].state = "pending" /\ rt[r].state = "pending"
        BY <1>1, <1>5, <3>1 DEF TableInv
      <4> QED  BY <4>1, Ranks
    <3>2. CASE m.what = "state"
      BY <1>1, <1>5, <3>2 DEF TableInv, StateTo
    <3>3. CASE m.what \notin {"row", "state"}
      BY <1>1, <1>5, <3>3 DEF TableInv
    <3> QED  BY <3>1, <3>2, <3>3
  <2> QED  BY <1>1, <2>1, <2>2 DEF TableInv
<1> QED  BY <1>3, <1>4, <1>5

LEMMA TableStep ==
  ASSUME OneOperator, StoreInv, [StoreNext]_storeVars, NEW r \in Rows, TableInv(r)
  PROVE  TableInv(r)'
<1> SUFFICES ASSUME r \notin torn' PROVE TableInv(r)'
  BY DEF TableInv
<1>0. TypeInv /\ StoreTyped /\ NetInv /\ StoreInv'
  BY StoreStep DEF StoreInv
<1>1. ASSUME NEW t \in Tasks, StoreFails(t) PROVE TableInv(r)'
  <2>1. /\ UNCHANGED <<rt, cur, row, answer>> /\ up'
        /\ \E dead : NetMoves(t, dead, {})
    BY <1>1, FailNet
  <2>2. PICK dead : NetMoves(t, dead, {})
    BY <2>1
  <2>3. /\ r \notin torn
        /\ \A n \in net' : n.row = r => n \in net
        /\ \A n \in net : n.row = r => n \in net'
    BY <1>0, <2>1, <2>2, Untouched
  <2>4. up
    BY <1>1 DEF StoreFails
  <2> QED  BY <2>1, <2>3, <2>4 DEF TableInv, StateTo, AnswerOf
<1>2. CASE (\E p \in Players : Join(p) /\ UNCHANGED dbVars) \/ UNCHANGED storeVars
  <2>1. UNCHANGED <<rt, cur, row, answer, net, torn, up>>
    BY <1>2 DEF Join, storeVars, vars, dbVars
  <2> QED  BY <2>1 DEF TableInv
<1>3. ASSUME NEW m \in net, Serve(m) PROVE TableInv(r)'
  BY <1>3, TableServe DEF Serve
<1>4. ASSUME NEW m \in net, Drop(m) PROVE TableInv(r)'
  <2>1. /\ UNCHANGED <<rt, cur, row, answer, up, torn>> /\ net' = net \ {m} /\ m.src = NoTask
    BY <1>4 DEF Drop, vars
  <2>2. up => m.row # r
    BY <1>0, <2>1 DEF NetInv, Owned
  <2> QED  BY <2>1, <2>2 DEF TableInv, StateTo, AnswerOf
<1>5. CASE Crash
  <2>1. /\ UNCHANGED <<rt, cur, row, answer, torn>> /\ ~ up' /\ net' = Abandoned(net)
    BY <1>5 DEF Crash, vars
  <2>2. \A n \in net' : \E m \in net : /\ n.row = m.row /\ n.what = m.what /\ n.who = m.who
                                       /\ n.state = m.state /\ n.ans = m.ans
    <3> SUFFICES ASSUME NEW n \in net'
                 PROVE  \E m \in net : /\ n.row = m.row /\ n.what = m.what /\ n.who = m.who
                                       /\ n.state = m.state /\ n.ans = m.ans
      OBVIOUS
    <3>1. PICK m \in net : n = [m EXCEPT !.src = NoTask]
      BY <2>1 DEF Abandoned
    <3>2. m \in Message
      BY <1>0 DEF NetInv, WellFormed
    <3> QED  BY <3>1, <3>2, GhostType
  <2> QED  BY <2>1, <2>2 DEF TableInv, StateTo, AnswerOf
<1>6. CASE Restart
  <2>1. /\ net' = {} /\ UNCHANGED answer
        /\ NoneResumed \/ \E last \in Rows : Resumed(last)
    BY <1>6, RestartEffect
  <2>2. CASE NoneResumed
    <3>1. UNCHANGED <<rt, row, torn>> /\ r # cur'
      BY <2>2, EngineAssumption DEF NoneResumed, Rows
    <3> QED  BY <2>1, <3>1 DEF TableInv
  <2>3. ASSUME NEW last \in Rows, Resumed(last), last # r PROVE TableInv(r)'
    <3>1. rt'[r] = rt[r] /\ row'[r] = row[r] /\ r # cur' /\ r \notin torn
      BY <2>3, ResumedEffect DEF Resumed
    <3> QED  BY <2>1, <3>1 DEF TableInv
  <2>4. CASE Resumed(r)
    <3>1. rt'[r].state = "closing" /\ rt'[r].ans = answer[r] /\ row'[r].state = "closing"
      BY <2>4, ResumedEffect
    <3> QED  BY <2>1, <3>1, Ranks DEF TableInv
  <2> QED  BY <2>1, <2>2, <2>3, <2>4
<1>7. ASSUME NEW m \in net, TimesOut(m) PROVE TableInv(r)'
  <2>1. /\ UNCHANGED <<rt, cur, row, answer, up>> /\ torn' = torn \cup {m.row}
        /\ net \subseteq net' /\ \A n \in net' : n \in net \/ n.row = m.row
    BY <1>7, TimesOutEffect DEF vars
  <2>2. r \notin torn /\ \A n \in net' : n.row = r => n \in net
    BY <2>1
  <2> QED  BY <2>1, <2>2 DEF TableInv, StateTo, AnswerOf
<1> QED  BY <1>1, <1>2, <1>3, <1>4, <1>5, <1>6, <1>7, TableTask DEF StoreNext

LEMMA TableStart == StoreInit => \A r \in Rows : TableInv(r)
<1> SUFFICES ASSUME StoreInit, NEW r \in Rows PROVE TableInv(r)
  OBVIOUS
<1>1. /\ net = {} /\ row[r].state = "none" /\ rt[r].state = "none" /\ cur = 0
      /\ answer[r] = [p \in Players |-> NoAnswer] /\ rt[r].ans = [p \in Players |-> NoAnswer]
  BY DEF StoreInit, Init
<1>2. r # 0
  BY EngineAssumption DEF Rows
<1> QED  BY <1>1, <1>2, Ranks DEF TableInv

LEMMA TableAlways ==
  ASSUME OneOperator
  PROVE  StoreSpec => [](StoreInv /\ \A r \in Rows : TableInv(r))
<1> DEFINE Tables == \A r \in Rows : TableInv(r)
<1>1. StoreInit => Tables
  BY TableStart
<1>2. StoreInv /\ Tables /\ [StoreNext]_storeVars => Tables'
  BY TableStep
<1> QED  BY <1>1, <1>2, StoreAlways, PTL DEF StoreSpec

\* The table shows no round as revealed of which an answer is missing or another one
\* than was counted, in whatever order requests are served and wherever the runner
\* dies -- unless a request of that round was abandoned (torn: its task was cut short,
\* or an attempt timed out) and the round was not loaded by a restart since.
THEOREM RevealedStored == ASSUME OneOperator PROVE StoreSpec => []RevealedIsStored
<1>1. (\A r \in Rows : TableInv(r)) => RevealedIsStored
  BY DEF TableInv, RevealedIsStored
<1> QED  BY <1>1, TableAlways, PTL

\* While the runner is up the row of a round never goes back a phase: no request is
\* overtaken by a later one -- unless one of that round was abandoned (torn) and the
\* round was not loaded by a restart since.
THEOREM RowsOnward == ASSUME OneOperator PROVE StoreSpec => RowsAdvance
<1> DEFINE Tables == \A r \in Rows : TableInv(r)
           Advance == \A r \in Rows \ torn : up => Rank(row'[r].state) >= Rank(row[r].state)
<1>1. StoreInv /\ Tables /\ [StoreNext]_storeVars => [Advance]_storeVars
  <2> SUFFICES ASSUME StoreInv, StoreNext, NEW r \in Rows, r \notin torn, up, TableInv(r)
               PROVE  Rank(row'[r].state) >= Rank(row[r].state)
    BY DEF storeVars
  <2>1. /\ row[r].state \in Phases /\ rt[r].state \in Phases
        /\ Rank(row[r].state) \in 1 .. 6 /\ Rank(row[r].state) <= Rank(rt[r].state)
    BY SameTypes, RankTypes DEF StoreInv, StoreTyped, TableRow, TypeInv, Typed, Runtime, TableInv
  <2>2. CASE row'[r] = row[r]
    BY <2>1, <2>2
  <2>3. ASSUME NEW m \in net, Serve(m), row'[r] # row[r]
        PROVE  Rank(row'[r].state) >= Rank(row[r].state)
    <3>1. /\ m.row = r
          /\ IF m.what = "row" THEN row'[r].state = "pending"
             ELSE row'[r].state = IF m.what = "state" THEN m.state ELSE row[r].state
      <4>1. /\ \A s \in Rows \ {m.row} : row'[s] = row[s]
            /\ IF m.what = "row" THEN row'[m.row] = [idx |-> rt[m.row].content, state |-> "pending"]
               ELSE row'[m.row].state = IF m.what = "state" THEN m.state ELSE row[m.row].state
        BY <2>3, ServeEffect
      <4>2. m.row = r
        BY <2>3, <4>1
      <4> QED  BY <4>1, <4>2
    <3>2. m.what \in {"row", "state"} => row'[r].state = rt[r].state
      BY <2>3, <3>1, Way DEF OnItsWay
    <3>3. CASE m.what \in {"row", "state"}
      BY <2>1, <3>2, <3>3
    <3>4. CASE m.what \notin {"row", "state"}
      BY <2>1, <3>1, <3>4
    <3> QED  BY <3>3, <3>4
  <2>4. CASE row' = row
    BY <2>2, <2>4
  <2>5. ASSUME NEW t \in Tasks, StoreTask(t) \/ StoreFails(t) PROVE row' = row
    BY <2>5 DEF StoreTask, Send, StoreFails
  <2>6. ASSUME NEW p \in Players, Join(p) /\ UNCHANGED dbVars PROVE row' = row
    BY <2>6 DEF dbVars
  <2>7. ASSUME NEW m \in net, Drop(m) \/ TimesOut(m) PROVE row' = row
    BY <2>7 DEF Drop, TimesOut
  <2>8. row' = row \/ \E m \in net : Serve(m)
    <3>1. ~ Restart /\ (Crash => row' = row)
      BY DEF Restart, Crash
    <3> QED  BY <2>5, <2>6, <2>7, <3>1 DEF StoreNext
  <2> QED  BY <2>2, <2>3, <2>4, <2>8
<1> QED  BY <1>1, TableAlways, PTL DEF StoreSpec, RowsAdvance

-----------------------------------------------------------------------------
(***************************************************************************)
(* The points of a done round.  As long as no task of it is cut short, a   *)
(* score event of the current round is on its way until it is in the       *)
(* table; the request that stores the round as done is issued when they    *)
(* have all arrived, and what is due does not change any more.             *)
(***************************************************************************)
AllArrived(r) == \A p \in Players : paid[r][p] = Dues(r)[p]

ArrivedInv(r) ==
  r \notin torn /\ r \notin again =>
    /\ row[r].state = "done" => AllArrived(r)
    /\ \A m \in net : StateTo(r, m) /\ m.state = "done" => AllArrived(r)
    /\ up /\ r = cur =>
         \A p \in Players : scored[r][p] > 0 =>
           paid[r][p] = 1 \/ \E m \in net : ScoreOf(r, m) /\ m.who = p

\* The points that were given are those that are due.
LEMMA ScoredDues ==
  ASSUME TypeInv, NEW r \in Rows, RowPaid(r)
  PROVE  /\ Unpaid(r) \/ scored[r] = Dues(r)
         /\ rt[r].state = "done" => scored[r] = Dues(r)
         /\ rt[r].state \notin {"revealed", "done"} => Unpaid(r)
         /\ \A p \in Players : Dues(r)[p] = IF p \in Winners(r) THEN 1 ELSE 0
<1>1. rt[r].state \in Phases
  BY SameTypes DEF TypeInv, Typed, Runtime
<1>2. \A p \in Players : Dues(r)[p] = IF p \in Winners(r) THEN 1 ELSE 0
  BY DEF Dues
<1> QED  BY <1>1, <1>2 DEF Phases, RowPaid

\* A row is done, or on its way to be, only when the engine is done with the round.
LEMMA DoneBehind ==
  ASSUME StoreInv, NEW r \in Rows, TableInv(r), r \notin torn
  PROVE  /\ row[r].state = "done" => rt[r].state = "done"
         /\ \A m \in net : StateTo(r, m) /\ m.state = "done" => rt[r].state = "done"
<1>1. rt[r].state \in Phases /\ Rank(rt[r].state) \in 1 .. 6
  BY SameTypes, RankTypes DEF StoreInv, TypeInv, Typed, Runtime
<1>2. Rank(rt[r].state) >= 6 => rt[r].state = "done"
  BY <1>1, Ranks DEF Phases
<1> QED  BY <1>1, <1>2, Ranks DEF TableInv

LEMMA ArrivedTask ==
  ASSUME OneOperator, StoreInv, NEW t \in Tasks, StoreTask(t), NEW r \in Rows,
         PaidInv(r), TableInv(r), ArrivedInv(r)
  PROVE  ArrivedInv(r)'
<1> SUFFICES ASSUME r \notin torn', r \notin again' PROVE ArrivedInv(r)'
  BY DEF ArrivedInv
<1>0. TypeInv /\ Base /\ StoreTyped /\ NetInv /\ OnItsWay
  BY Way DEF StoreInv
<1>1. /\ [Next]_vars /\ Moved(t) /\ up /\ UNCHANGED <<row, paid, again>>
      /\ \E dead : NetMoves(t, dead, Issued(t))
  BY TaskNet
<1>2. StoreInv' /\ TypeInv' /\ Onward /\ up'
  <2>1. StoreInv' /\ up'
    BY StoreStep, TaskNet DEF StoreNext
  <2> QED  BY <1>0, <1>1, <2>1, BaseStep DEF StoreInv
<1>3. PICK dead : NetMoves(t, dead, Issued(t))
  BY <1>1
<1>4. /\ r \notin torn /\ r \notin again
      /\ \A n \in net' : n.row = r => n \in Issued(t) \/ n \in net
      /\ \A m \in net : m.row = r => m \in net'
      /\ Issued(t) \subseteq net'
  BY <1>1, <1>2, <1>3, Untouched DEF NetMoves
<1>5. /\ RowPaid(r) /\ \A p \in Players : paid[r][p] <= 1 /\ (scored[r][p] = 0 => paid[r][p] = 0)
      /\ paid[r] \in [Players -> 0 .. 2] /\ scored[r] \in [Players -> 0 .. 2]
  BY <1>0, <1>4, SameTypes DEF PaidInv, StoreTyped, TypeInv, Typed
<1>6. rt[r].state \in {"revealed", "done"} /\ AllArrived(r) => AllArrived(r)'
  BY <1>1, <1>2, SameDues DEF Onward, AllArrived
<1>7. row'[r].state = "done" => AllArrived(r)'
  BY <1>1, <1>4, <1>6, DoneBehind DEF ArrivedInv
<1>8. ASSUME NEW m \in net', StateTo(r, m), m.state = "done" PROVE AllArrived(r)'
  <2>1. CASE m \in net
    BY <1>4, <1>6, <1>8, <2>1, DoneBehind DEF ArrivedInv
  <2>2. CASE m \in Issued(t)
    <3>1. /\ m.row = task'[t].row /\ RequestOf(task'[t].pc, m)
      BY <1>0, <1>1, <1>2, <2>2, IssuedEffect DEF Moved
    <3>2. task'[t].pc = "done" /\ r = cur
      BY <1>1, <1>8, <3>1 DEF RequestOf, StateTo, StateOf, Moved
    <3>3. task[t].pc = "scores" /\ task[t].row = r /\ rt[r].state = "revealed"
      BY <1>0, <1>1, <3>2 DEF Moved, ScoresStored, Base, TaskInv, Late
    <3>4. \A n \in net : n.src # t
      BY <1>3, <3>3, IdleType, EngineAssumption DEF StoreTask, Requests, Close, Reveal, StartNext,
         StartAt, StartRound, TimerFires, Answered
    <3>5. \A n \in net : ~ ScoreOf(r, n)
      <4> SUFFICES ASSUME NEW n \in net, ScoreOf(r, n) PROVE FALSE
        OBVIOUS
      <4>1. n.src \in Tasks /\ task[n.src].pc = "scores"
        BY <1>0, <1>1, <1>4 DEF OnItsWay, ScoreOf, RequestOf
      <4>2. n.src = t
        BY <1>0, <3>3, <4>1, OneWorks DEF Base, Working, Late
      <4> QED  BY <3>4, <4>2
    <3>6. scored[r] = Dues(r)
      BY <3>3, <1>5 DEF RowPaid
    <3>7. \A p \in Players : scored[r][p] > 0 => paid[r][p] = 1
      BY <1>1, <1>4, <3>2, <3>5 DEF ArrivedInv
    <3>8. AllArrived(r)
      <4> SUFFICES ASSUME NEW p \in Players PROVE paid[r][p] = scored[r][p]
        BY <3>6 DEF AllArrived
      <4>1. scored[r][p] \in {0, 1}
        BY <1>0, <1>5, <3>6, ScoredDues
      <4> QED  BY <1>5, <3>7, <4>1
    <3> QED  BY <1>6, <3>3, <3>8
  <2> QED  BY <1>4, <1>8, <2>1, <2>2 DEF StateTo
<1>9. ASSUME r = cur', NEW p \in Players, scored'[r][p] > 0
      PROVE  paid'[r][p] = 1 \/ \E m \in net' : ScoreOf(r, m) /\ m.who = p
  <2>1. ASSUME RevealStored(t), r = cur PROVE \E m \in net' : ScoreOf(r, m) /\ m.who = p
    <3>1. Unpaid(r) /\ task'[t].pc = "scores" /\ task'[t].row = r
      BY <1>0, <1>5, <2>1, PayEffect DEF RowPaid
    <3>2. p \in Winners(r)
      BY <1>0, <1>9, <2>1, <3>1, PayEffect DEF Unpaid
    <3> DEFINE m == Msg(t, r, "score", p, "none", NoAnswer)
    <3>3. m \in Issued(t)
      BY <3>1, <3>2 DEF Issued
    <3>4. ScoreOf(r, m) /\ m.who = p
      BY DEF Msg, ScoreOf
    <3> HIDE DEF m
    <3> QED  BY <1>4, <3>3, <3>4
  <2>2. CASE ~ (RevealStored(t) /\ r = cur)
    <3>1. scored'[r] = scored[r]
      <4>1. ASSUME NEW u \in Tasks, RevealStored(u) PROVE scored'[r] = scored[r]
        <5>1. task[u].pc = "revealed" /\ task'[u].pc = "scores"
          BY <1>0, <4>1, PayEffect
        <5>2. u = t
          BY <1>1, <5>1 DEF Moved, OthersStay
        <5> QED  BY <1>0, <2>2, <4>1, <5>2, PayEffect
      <4> QED  BY <1>1, <4>1, Pays
    <3>2. CASE r = cur
      BY <1>1, <1>4, <1>9, <3>1, <3>2 DEF ArrivedInv, ScoreOf
    <3>3. CASE r # cur
      <4>1. ~ Forward /\ ~ \E o \in Ops, i \in 1 .. NumRounds : Asks(o, i)
        BY <1>0, <1>9, <3>3, StartEffect DEF Forward, Asks
      <4>2. PICK o \in Tasks : RowCreated(o)
        BY <1>0, <1>1, <4>1, BaseStep
      <4>3. rt[r].state = "pending"
        BY <1>0, <1>9, <4>2, CreatedEffect
      <4>4. Unpaid(r)
        BY <1>5, <4>3 DEF RowPaid
      <4> QED  BY <1>9, <3>1, <4>4 DEF Unpaid
    <3> QED  BY <3>2, <3>3
  <2> QED  BY <2>1, <2>2
<1> QED  BY <1>7, <1>8, <1>9 DEF ArrivedInv

LEMMA ArrivedServe ==
  ASSUME StoreInv, NEW m \in net, Serve(m), NEW r \in Rows,
         PaidInv(r), TableInv(r), ArrivedInv(r), r \notin torn, r \notin again'
  PROVE  ArrivedInv(r)'
<1>0. TypeInv /\ StoreTyped /\ NetInv
  BY DEF StoreInv
<1>1. /\ UNCHANGED <<rt, cur, scored>> /\ up' = up /\ torn' = torn
      /\ r \notin again /\ net' \subseteq net
      /\ \A n \in net \ net' : n = m
      /\ m.row # r => row'[r] = row[r] /\ paid'[r] = paid[r]
      /\ m.row = r => \A p \in Players :
           paid'[r][p] = IF m.what = "score" /\ p = m.who /\ paid[r][p] < 2
                           THEN paid[r][p] + 1 ELSE paid[r][p]
      /\ m.row = r /\ m.what = "score" => row'[r].state = row[r].state
      /\ row'[r].state = "done" => row[r].state = "done" \/ (StateTo(r, m) /\ m.state = "done")
  <2>1. /\ UNCHANGED <<rt, cur, scored>> /\ up' = up /\ torn' = torn
        /\ again \subseteq again' /\ net' \subseteq net /\ \A n \in net \ net' : n = m
        /\ r # m.row => row'[r] = row[r] /\ paid'[r] = paid[r]
    BY ServeEffect DEF vars
  <2>2. /\ IF m.what = "row" THEN row'[m.row] = [idx |-> rt[m.row].content, state |-> "pending"]
           ELSE row'[m.row].state = IF m.what = "state" THEN m.state ELSE row[m.row].state
        /\ \A p \in Players :
             paid'[m.row][p] = IF m.what = "score" /\ p = m.who /\ paid[m.row][p] < 2
                                 THEN paid[m.row][p] + 1 ELSE paid[m.row][p]
    BY ServeEffect
  <2>3. m.row = r => IF m.what = "row" THEN row'[r].state = "pending"
                     ELSE row'[r].state = IF m.what = "state" THEN m.state ELSE row[r].state
    BY <2>2
  <2> QED  BY <2>1, <2>2, <2>3 DEF StateTo
<1>2. RowPaid(r) /\ Dues(r)' = Dues(r)
  BY <1>1, SameDues DEF PaidInv
<1>3. CASE ScoreOf(r, m)
  <2>1. m.who \in Players /\ scored[r][m.who] > 0 /\ paid[r][m.who] = 0
    BY <1>0, <1>1, <1>3 DEF PaidInv, ScoreOf, NetInv, WellFormed
  <2>2. ~ AllArrived(r) \/ rt[r].state # "done"
    <3> SUFFICES ASSUME AllArrived(r), rt[r].state = "done" PROVE FALSE
      OBVIOUS
    <3>1. scored[r] = Dues(r)
      BY <1>0, <1>2, ScoredDues
    <3>2. paid[r][m.who] = scored[r][m.who]
      BY <2>1, <3>1 DEF AllArrived
    <3> QED  BY <2>1, <3>2
  <2>3. row'[r].state # "done" /\ \A n \in net' : ~ (StateTo(r, n) /\ n.state = "done")
    BY <1>1, <1>3, <2>2, DoneBehind DEF ScoreOf, ArrivedInv
  <2>4. \A p \in Players : paid'[r][p] = IF p = m.who THEN 1 ELSE paid[r][p]
    BY <1>1, <1>3, <2>1 DEF ScoreOf
  <2>5. \A p \in Players \ {m.who} : \A n \in net : n.who = p => n \in net'
    BY <1>1
  <2> QED  BY <1>1, <2>3, <2>4, <2>5 DEF ArrivedInv
<1>4. CASE ~ ScoreOf(r, m)
  <2>1. \A p \in Players : paid'[r][p] = paid[r][p]
    BY <1>1, <1>4 DEF ScoreOf
  <2>2. AllArrived(r) => AllArrived(r)'
    BY <1>2, <2>1 DEF AllArrived
  <2>3. row'[r].state = "done" => row[r].state = "done" \/ (StateTo(r, m) /\ m.state = "done")
    BY <1>1
  <2>4. \A n \in net : ScoreOf(r, n) => n \in net'
    BY <1>1, <1>4
  <2>5. /\ row[r].state = "done" => AllArrived(r)
        /\ \A n \in net : StateTo(r, n) /\ n.state = "done" => AllArrived(r)
        /\ up /\ r = cur => \A p \in Players : scored[r][p] > 0 =>
             paid[r][p] = 1 \/ \E n \in net : ScoreOf(r, n) /\ n.who = p
    BY <1>1 DEF ArrivedInv
  <2>6. row'[r].state = "done" => AllArrived(r)'
    BY <2>2, <2>3, <2>5
  <2>7. \A n \in net' : StateTo(r, n) /\ n.state = "done" => AllArrived(r)'
    BY <1>1, <2>2, <2>5
  <2>8. up' /\ r = cur' => \A p \in Players : scored'[r][p] > 0 =>
          paid'[r][p] = 1 \/ \E n \in net' : ScoreOf(r, n) /\ n.who = p
    BY <1>1, <2>1, <2>4, <2>5
  <2> QED  BY <2>6, <2>7, <2>8 DEF ArrivedInv
<1> QED  BY <1>3, <1>4

LEMMA ArrivedStep ==
  ASSUME OneOperator, StoreInv, [StoreNext]_storeVars, NEW r \in Rows,
         PaidInv(r), TableInv(r), ArrivedInv(r)
  PROVE  ArrivedInv(r)'
<1> SUFFICES ASSUME r \notin torn', r \notin again' PROVE ArrivedInv(r)'
  BY DEF ArrivedInv
<1>0. TypeInv /\ NetInv /\ StoreInv'
  BY StoreStep DEF StoreInv
<1>1. rt'[r] = rt[r] => Dues(r)' = Dues(r)
  BY SameDues
<1>2. ASSUME NEW t \in Tasks, StoreFails(t) PROVE ArrivedInv(r)'
  <2>1. /\ UNCHANGED <<rt, cur, row, paid, scored, up, again>> /\ up'
        /\ \E dead : NetMoves(t, dead, {})
    BY <1>2, FailNet DEF StoreFails
  <2>2. PICK dead : NetMoves(t, dead, {})
    BY <2>1
  <2>3. /\ r \notin torn
        /\ \A n \in net' : n.row = r => n \in net
        /\ \A n \in net : n.row = r => n \in net'
    BY <1>0, <2>1, <2>2, Untouched
  <2> QED  BY <1>1, <2>1, <2>3 DEF ArrivedInv, StateTo, ScoreOf, AllArrived
<1>3. CASE (\E p \in Players : Join(p) /\ UNCHANGED dbVars) \/ UNCHANGED storeVars
  <2>1. UNCHANGED <<rt, cur, row, paid, scored, net, torn, again, up>>
    BY <1>3 DEF Join, storeVars, vars, dbVars
  <2> QED  BY <1>1, <2>1 DEF ArrivedInv, AllArrived
<1>4. ASSUME NEW m \in net, Serve(m) PROVE ArrivedInv(r)'
  BY <1>4, ArrivedServe DEF Serve
<1>5. ASSUME NEW m \in net, Drop(m) PROVE ArrivedInv(r)'
  <2>1. /\ UNCHANGED <<rt, cur, row, paid, scored, up, torn, again>>
        /\ net' = net \ {m} /\ m.src = NoTask
    BY <1>5 DEF Drop, vars
  <2>2. up => m.row # r
    BY <1>0, <2>1 DEF NetInv, Owned
  <2> QED  BY <1>1, <2>1, <2>2 DEF ArrivedInv, StateTo, ScoreOf, AllArrived
<1>6. CASE Crash
  <2>1. /\ UNCHANGED <<rt, cur, row, paid, torn, again>> /\ ~ up' /\ net' = Abandoned(net)
    BY <1>6 DEF Crash, vars
  <2>2. ASSUME NEW n \in net' PROVE \E m \in net : n.row = m.row /\ n.what = m.what /\ n.state = m.state
    <3>1. PICK m \in net : n = [m EXCEPT !.src = NoTask]
      BY <2>1, <2>2 DEF Abandoned
    <3>2. m \in Message
      BY <1>0 DEF NetInv, WellFormed
    <3> QED  BY <3>1, <3>2, GhostType
  <2> QED  BY <1>1, <2>1, <2>2 DEF ArrivedInv, StateTo, AllArrived
<1>7. CASE Restart
  <2>1. /\ net' = {} /\ UNCHANGED <<paid, scored>>
        /\ NoneResumed \/ \E last \in Rows : Resumed(last)
    BY <1>7, RestartEffect
  <2>2. CASE NoneResumed
    <3>1. UNCHANGED <<rt, row, torn, again>> /\ r # cur'
      BY <2>2, EngineAssumption DEF NoneResumed, Rows
    <3> QED  BY <1>1, <2>1, <3>1 DEF ArrivedInv, AllArrived
  <2>3. ASSUME NEW last \in Rows, Resumed(last), last # r PROVE ArrivedInv(r)'
    <3>1. /\ rt'[r] = rt[r] /\ row'[r] = row[r] /\ r # cur' /\ again \subseteq again'
          /\ r \notin torn
      BY <2>3, ResumedEffect DEF Resumed
    <3> QED  BY <1>1, <2>1, <3>1 DEF ArrivedInv, AllArrived
  <2>4. CASE Resumed(r)
    <3>1. row'[r].state = "closing" /\ \A p \in Players : ~ scored[r][p] > 0
      BY <2>4, ResumedEffect DEF Resumed
    <3> QED  BY <2>1, <3>1 DEF ArrivedInv
  <2> QED  BY <2>1, <2>2, <2>3, <2>4
<1>8. ASSUME NEW m \in net, TimesOut(m) PROVE ArrivedInv(r)'
  <2>1. /\ UNCHANGED <<rt, cur, row, paid, scored, up>> /\ torn' = torn \cup {m.row}
        /\ again \subseteq again' /\ net \subseteq net'
        /\ \A n \in net' : n \in net \/ n.row = m.row
    BY <1>8, TimesOutEffect DEF vars
  <2>2. r \notin torn /\ r \notin again /\ \A n \in net' : n.row = r => n \in net
    BY <2>1
  <2> QED  BY <1>1, <2>1, <2>2 DEF ArrivedInv, StateTo, ScoreOf, AllArrived
<1> QED  BY <1>2, <1>3, <1>4, <1>5, <1>6, <1>7, <1>8, ArrivedTask DEF StoreNext

LEMMA ArrivedStart == StoreInit => \A r \in Rows : ArrivedInv(r)
<1> SUFFICES ASSUME StoreInit, NEW r \in Rows PROVE ArrivedInv(r)
  OBVIOUS
<1>1. row[r].state = "none" /\ net = {} /\ cur = 0 /\ r # 0
  BY EngineAssumption DEF StoreInit, Init, Rows
<1> QED  BY <1>1 DEF ArrivedInv

\* The score events in the table are those the answers of the round deserve, none twice
\* and, once its row says done, none missing: through cancelled timers, failed calls,
\* lost requests and restarts.  Not said of rounds whose inserts were resent or that a
\* restart found half paid (again), nor is the last of those with an abandoned request
\* (torn).
THEOREM PointsStored == ASSUME OneOperator PROVE StoreSpec => []PointsAreDue
<1> DEFINE Tables == \A r \in Rows : TableInv(r)
           AllPaid == \A r \in Rows : PaidInv(r)
           Arrived == \A r \in Rows : ArrivedInv(r)
<1>1. StoreInit => Arrived
  BY ArrivedStart
<1>2. StoreInv /\ Tables /\ AllPaid /\ Arrived /\ [StoreNext]_storeVars => Arrived'
  BY ArrivedStep
<1>3. StoreInv /\ Tables /\ AllPaid /\ Arrived => PointsAreDue
  <2> SUFFICES ASSUME StoreInv, Tables, AllPaid, Arrived, NEW r \in Rows, r \notin again,
                      NEW p \in Players
               PROVE  /\ paid[r][p] <= Dues(r)[p]
                      /\ row[r].state = "done" /\ r \notin torn =>
                           paid[r][p] = IF Deserves(answer[r][p]) THEN 1 ELSE 0
    BY DEF PointsAreDue
  <2>1. /\ RowPaid(r) /\ paid[r][p] <= 1 /\ (scored[r][p] = 0 => paid[r][p] = 0)
        /\ paid[r][p] \in 0 .. 2 /\ TypeInv
    BY DEF PaidInv, StoreInv, StoreTyped
  <2>2. /\ Unpaid(r) \/ scored[r] = Dues(r)
        /\ Dues(r)[p] = IF p \in Winners(r) THEN 1 ELSE 0
    BY <2>1, ScoredDues
  <2>3. paid[r][p] <= Dues(r)[p]
    BY <2>1, <2>2 DEF Unpaid
  <2>4. ASSUME row[r].state = "done", r \notin torn
        PROVE  paid[r][p] = IF Deserves(answer[r][p]) THEN 1 ELSE 0
    <3>1. paid[r][p] = Dues(r)[p] /\ answer[r] = rt[r].ans
      BY <2>4 DEF ArrivedInv, AllArrived, TableInv
    <3> QED  BY <2>2, <3>1 DEF Winners, Deserves
  <2> QED  BY <2>3, <2>4
<1> QED  BY <1>1, <1>2, <1>3, TableAlways, PaidAlways, PTL DEF StoreSpec

-----------------------------------------------------------------------------
(***************************************************************************)
(* The answers a restart finds.  As long as no request of the current      *)
(* round is abandoned, its answers are in the table, but for some that the *)
(* step before a crash was storing: the table has nothing for them yet, or *)
(* an absence, for only those change (StepSeen).                           *)
(***************************************************************************)
BackInv(r) ==
  r \notin torn /\ r = cur => \A p \in Players :
    \/ answer[r][p] = rt[r].ans[p]
    \/ Waits({"answers", "upgrade"}, r) /\ answer[r][p].how \in {"none", "absent"}

\* While the runner is up an answer that is not in the table is on its way.
Arriving ==
  up => \A r \in Rows \ torn, p \in Players :
    r = cur => answer[r][p] = rt[r].ans[p] \/ Waits({"answers", "upgrade"}, r)

LEMMA Arrives == StoreInv /\ (\A r \in Rows : TableInv(r)) => Arriving
<1> SUFFICES ASSUME StoreInv, up, NEW r \in Rows, r \notin torn, TableInv(r), r = cur,
                    NEW p \in Players, answer[r][p] # rt[r].ans[p]
             PROVE  Waits({"answers", "upgrade"}, r)
  BY DEF Arriving
<1>1. PICK m \in net : AnswerOf(r, m)
  BY DEF TableInv
<1>2. m.src \in Tasks /\ task[m.src].row = r /\ task[m.src].pc \in {"answers", "upgrade"}
  BY <1>1, Way DEF OnItsWay, AnswerOf, RequestOf
<1> QED  BY <1>2 DEF Waits

LEMMA ArrivesNext == StoreInv' /\ (\A r \in Rows : TableInv(r))' => Arriving'
BY Arrives, PTL

LEMMA BoardRestart ==
  ASSUME StoreInv, BoardInv, Restart
  PROVE  BoardInv'
<1>1. /\ task' = [t \in Tasks |-> Idle] /\ made' = made
      /\ NoneResumed \/ \E last \in Rows : Resumed(last)
  BY RestartEffect
<1>2. \A t \in Tasks : task'[t].pc = "idle"
  BY <1>1, IdleType
<1>3. ASSUME NEW r \in Rows
      PROVE  rt'[r] = rt[r] \/ rt'[r].state = "closing"
  BY <1>1, ResumedEffect DEF NoneResumed
<1> QED  BY <1>1, <1>2, <1>3 DEF BoardInv, RowBoard, EmptySheet

\* Most steps of the store are steps of the engine.
LEMMA EngineSteps ==
  ASSUME OneOperator, StoreInv, StoreNext
  PROVE  [Next]_vars \/ Restart
<1>1. \A p \in Players : Join(p) => Next
  BY DEF Next
<1> QED
  BY <1>1, TaskNet, FailNet DEF StoreNext, Serve, TimesOut, Drop, Crash

LEMMA SheetsStep ==
  ASSUME OneOperator, StoreInv, BoardInv, [StoreNext]_storeVars
  PROVE  BoardInv'
<1>1. [Next]_vars \/ Restart
  BY EngineSteps DEF storeVars
<1> QED  BY <1>1, BoardInvStep, BoardRestart DEF StoreInv

\* Only an answer that places nobody changes.
LEMMA AnswersChange ==
  ASSUME OneOperator, StoreInv, BoardInv, [Next]_vars,
         NEW r \in Rows, NEW p \in Players, rt'[r].ans[p] # rt[r].ans[p]
  PROVE  rt[r].ans[p].how \in {"none", "absent"}
<1>1. SeenStep
  BY StepSeen DEF StoreInv
<1>2. ~ \E o \in Ops, i \in 1 .. NumRounds : Asks(o, i)
  BY StartEffect DEF Asks, StoreInv
<1>3. ~ \E o \in Tasks : RowCreated(o)
  BY CreatedEffect DEF StoreInv
<1>4. ~ \E t \in Tasks : RevealStored(t)
  BY DEF RevealStored
<1>5. \A from, to : \A q \in Rows : ~ MoveStep(q, from, to)
  BY DEF MoveStep, Others
<1>6. \A q \in Rows : CaptureStep(q) \/ UpgradeStep(q) => q = r
  BY DEF CaptureStep, UpgradeStep, AnswerStep, Others
<1>7. CaptureStep(r) \/ UpgradeStep(r)
  <2>1. PICK q \in Rows : CaptureStep(q) \/ UpgradeStep(q)
    BY <1>1, <1>2, <1>3, <1>4, <1>5 DEF SeenStep
  <2> QED  BY <1>6, <2>1
<1> QED  BY <1>7 DEF CaptureStep, UpgradeStep, EmptySheet, NoAnswer

LEMMA BackStep ==
  ASSUME OneOperator, StoreInv, BoardInv, \A r \in Rows : TableInv(r),
         [StoreNext]_storeVars, NEW r \in Rows, BackInv(r)
  PROVE  BackInv(r)'
<1> SUFFICES ASSUME r \notin torn', r = cur', NEW p \in Players
             PROVE  \/ answer'[r][p] = rt'[r].ans[p]
                    \/ /\ Waits({"answers", "upgrade"}, r)'
                       /\ answer'[r][p].how \in {"none", "absent"}
  BY DEF BackInv
<1>0. StoreInv' /\ (\A s \in Rows : TableInv(s)') /\ Arriving'
  <2>1. StoreInv' /\ \A s \in Rows : TableInv(s)'
    BY StoreStep, TableStep
  <2> QED  BY <2>1, ArrivesNext
<1>1. ASSUME [Next]_vars, answer' = answer, torn \subseteq torn', up'
      PROVE  \/ answer'[r][p] = rt'[r].ans[p]
             \/ /\ Waits({"answers", "upgrade"}, r)'
                /\ answer'[r][p].how \in {"none", "absent"}
  <2> SUFFICES ASSUME answer[r][p] # rt'[r].ans[p]
               PROVE  answer[r][p].how \in {"none", "absent"}
    BY <1>0, <1>1 DEF Arriving
  <2>1. r \notin torn
    BY <1>1
  <2>2. CASE r = cur /\ rt'[r].ans[p] = rt[r].ans[p]
    BY <2>1, <2>2 DEF BackInv
  <2>3. CASE r = cur /\ rt'[r].ans[p] # rt[r].ans[p]
    <3>1. rt[r].ans[p].how \in {"none", "absent"}
      BY <1>1, <2>3, AnswersChange
    <3> QED  BY <2>1, <2>3, <3>1 DEF BackInv
  <2>4. CASE r # cur
    <3>1. ~ Forward /\ ~ \E o \in Ops, i \in 1 .. NumRounds : Asks(o, i)
      BY <2>4, StartEffect DEF Forward, Asks, StoreInv
    <3>2. PICK o \in Tasks : RowCreated(o)
      BY <1>1, <3>1, BaseStep DEF StoreInv
    <3>3. rt[r].state = "pending" /\ rt'[r].ans = rt[r].ans
      BY <3>2, CreatedEffect DEF StoreInv
    <3> QED  BY <2>1, <3>3 DEF TableInv
  <2> QED  BY <2>2, <2>3, <2>4
<1>2. ASSUME NEW t \in Tasks, StoreTask(t) \/ StoreFails(t)
      PROVE  [Next]_vars /\ answer' = answer /\ torn \subseteq torn' /\ up'
  BY <1>2, TaskNet, FailNet DEF NetMoves
<1>3. ASSUME UNCHANGED <<vars, answer>>, torn \subseteq torn'
      PROVE  \/ answer'[r][p] = rt'[r].ans[p]
             \/ /\ Waits({"answers", "upgrade"}, r)'
                /\ answer'[r][p].how \in {"none", "absent"}
  BY <1>3 DEF BackInv, Waits, vars
<1>4. ASSUME NEW q \in Players, Join(q) /\ UNCHANGED dbVars
      PROVE  \/ answer'[r][p] = rt'[r].ans[p]
             \/ /\ Waits({"answers", "upgrade"}, r)'
                /\ answer'[r][p].how \in {"none", "absent"}
  <2>1. UNCHANGED <<rt, cur, task, answer, torn>>
    BY <1>4 DEF Join, dbVars
  <2> QED  BY <2>1 DEF BackInv, Waits
<1>5. ASSUME NEW m \in net, Serve(m)
      PROVE  \/ answer'[r][p] = rt'[r].ans[p]
             \/ /\ Waits({"answers", "upgrade"}, r)'
                /\ answer'[r][p].how \in {"none", "absent"}
  <2>1. /\ UNCHANGED <<rt, cur, task, torn>> /\ m.row \in Rows
        /\ \A s \in Rows \ {m.row} : answer'[s] = answer[s]
        /\ IF m.what = "answer"
             THEN answer'[m.row] = [answer[m.row] EXCEPT ![m.who] = m.ans]
             ELSE answer'[m.row] = answer[m.row]
    BY <1>5, ServeEffect DEF vars
  <2>2. answer[r] \in [Players -> Answer]
    BY DEF StoreInv, StoreTyped
  <2>3. CASE m.row = r /\ m.what = "answer" /\ m.who = p
    <3>1. m.ans = rt[r].ans[p]
      BY <2>1, <2>3 DEF TableInv, AnswerOf
    <3> QED  BY <2>1, <2>2, <2>3, <3>1
  <2>4. CASE ~ (m.row = r /\ m.what = "answer" /\ m.who = p)
    <3>1. answer'[r][p] = answer[r][p]
      BY <2>1, <2>2, <2>4
    <3> QED  BY <2>1, <3>1 DEF BackInv, Waits
  <2> QED  BY <2>3, <2>4
<1>6. CASE Restart
  <2>1. PICK last \in Rows : Resumed(last)
    BY <1>6, RestartEffect, EngineAssumption DEF NoneResumed, Rows
  <2> QED  BY <1>6, <2>1, ResumedEffect, RestartEffect
<1>7. CASE UNCHANGED storeVars
  BY <1>3, <1>7 DEF storeVars, dbVars
<1> QED
  BY <1>1, <1>2, <1>3, <1>4, <1>5, <1>6, <1>7 DEF StoreNext, Drop, TimesOut, Crash

LEMMA BackAlways ==
  ASSUME OneOperator
  PROVE  StoreSpec => [](\A r \in Rows : BackInv(r))
<1> DEFINE Tables == \A r \in Rows : TableInv(r)
           Backs == \A r \in Rows : BackInv(r)
<1>1. StoreInit => BoardInv /\ Backs
  BY BoardInvInit, EngineAssumption DEF StoreInit, Init, BackInv, Rows
<1>2. StoreInv /\ BoardInv /\ [StoreNext]_storeVars => BoardInv'
  BY SheetsStep
<1>3. StoreInv /\ BoardInv /\ Tables /\ Backs /\ [StoreNext]_storeVars => Backs'
  BY BackStep
<1> QED  BY <1>1, <1>2, <1>3, TableAlways, PTL DEF StoreSpec

-----------------------------------------------------------------------------
(***************************************************************************)
(* The place a restart finds.  GameEngine.load knows the last round only   *)
(* as the row with the highest idx.  As long as the operator does not      *)
(* jump, the idx of the rows, those still on their way included (Live),    *)
(* are the places of their rounds in the show, all different (IndexInv); a *)
(* row that is being created has the highest, if it is there               *)
(* (CreatingInv); and the row of the place the engine was at (Here) is     *)
(* there: the current one, if there is one (LastInv), or that of a round   *)
(* the last restart found done (ZeroInv).  When the engine is done with a  *)
(* round, so is the row, or the task that writes it has not finished       *)
(* (DoneInv).                                                              *)
(***************************************************************************)
IsCreating == \E t \in Tasks : task[t].pc = "create"

Here == IF IsCreating THEN index - 1 ELSE index

Fine == IF IsCreating THEN torn = {} ELSE made \notin torn

Live == Created \cup {r \in Rows : \E m \in net : m.what = "row" /\ m.row = r}

IndexInv ==
  /\ \A r \in Created : row[r].idx = rt[r].content
  /\ \A r \in Live : rt[r].content \in 1 .. index
  /\ \A r, s \in Live : rt[r].content = rt[s].content => r = s
  /\ cur # 0 => cur \in Created

MailInv ==
  \A m \in net : m.what = "state" =>
    m.row \in Created /\ (m.row \notin torn => m.state = rt[m.row].state)

CreatingInv ==
  \A t \in Tasks : task[t].pc = "create" =>
    /\ rt[made].content = index /\ index > 0
    /\ \A r \in Live : rt[r].content = index => r = made
    /\ up => made \in Created \/ \E m \in net : m.src = t

LastInv ==
  Fine => \/ Here = 0 /\ cur = 0
          \/ \E r \in Created : rt[r].content = Here /\ cur \in {0, r}

ZeroInv ==
  cur = 0 /\ Fine =>
    /\ \A m \in net : m.what = "row" /\ m.row = made /\ IsCreating
    /\ \A r \in Created : rt[r].content = Here => row[r].state = "done"

DoneInv ==
  cur # 0 /\ cur \notin torn /\ rt[cur].state = "done" =>
    \/ row[cur].state = "done"
    \/ \E t \in Tasks : /\ task[t].pc = "done" /\ task[t].row = cur
                        /\ up => \E m \in net : m.src = t

PlaceInv == IndexInv /\ MailInv /\ CreatingInv /\ LastInv /\ ZeroInv /\ DoneInv

\* Without jumps a round is started where the last one was.
LEMMA NoJump ==
  ASSUME Jumps = FALSE, TypeInv, [Next]_vars, made' # made
  PROVE  index' = index + 1
<1>1. \A t : ~ (CloseStored(t) /\ made' # made) /\ ~ (TimerFires(t) /\ made' # made)
  BY DEF CloseStored, TimerFires
<1>2. \A t : ~ (Proceeds(t) /\ made' # made)
  BY <1>1 DEF Proceeds, RowCreated, RoundOpened, AnswersStored, UpgradesStored,
              RevealStored, ScoresStored, DoneStored
<1>3. \A t : ~ (CallFails(t) /\ made' # made) /\ ~ (Join(t) /\ made' # made)
  BY DEF CallFails, Join
<1>4. \A o : Requests(o) => StartNext(o)
  BY DEF Requests, Close, Reveal, StartAt
<1> QED  BY <1>1, <1>2, <1>3, <1>4 DEF Next, vars, StartNext, StartRound

\* What a step of task t leaves of the requests: those it abandons keep what they say,
\* those of the tasks that stay are still theirs.
LEMMA MailMoves ==
  ASSUME StoreInv, NEW t \in Tasks, NEW dead, NEW new, NetMoves(t, dead, new)
  PROVE  /\ \A n \in net' : \/ n \in new
                            \/ \E m \in net : n.what = m.what /\ n.row = m.row /\ n.state = m.state
         /\ \A m \in net : \E n \in net' : n.what = m.what /\ n.row = m.row
         /\ \A m \in net : m.src \in Tasks /\ task'[m.src] = task[m.src] => m \in net'
         /\ new \subseteq net' /\ torn \subseteq torn'
<1>1. ASSUME NEW m \in dead
      PROVE  LET g == [m EXCEPT !.src = NoTask]
             IN  m \in net /\ g.what = m.what /\ g.row = m.row /\ g.state = m.state
  BY GhostType DEF NetMoves, StoreInv, NetInv, WellFormed
<1>2. ASSUME NEW n \in Abandoned(dead)
      PROVE  \E m \in net : n.what = m.what /\ n.row = m.row /\ n.state = m.state
  BY <1>1 DEF Abandoned
<1>3. ASSUME NEW m \in dead PROVE \E n \in net' : n.what = m.what /\ n.row = m.row
  BY <1>1 DEF Abandoned, NetMoves
<1> QED  BY <1>2, <1>3 DEF NetMoves

LEMMA PlaceTask ==
  ASSUME OneOperator, Jumps = FALSE, StoreInv, PlaceInv, NEW t \in Tasks, StoreTask(t)
  PROVE  PlaceInv'
<1>0. /\ TypeInv /\ Base /\ StoreTyped /\ NetInv
      /\ IndexInv /\ MailInv /\ CreatingInv /\ LastInv /\ ZeroInv /\ DoneInv
  BY DEF StoreInv, PlaceInv
<1>1. /\ [Next]_vars /\ Moved(t) /\ TaskStep(t) /\ up /\ row' = row /\ up' = up
      /\ \A m \in net : m.src # t
      /\ \E dead : NetMoves(t, dead, Issued(t))
  BY TaskNet
<1>2. /\ StoreInv' /\ TypeInv' /\ Base' /\ OnItsWay'
  BY <1>0, <1>1, StoreStep, WayNext DEF StoreNext, StoreInv
<1>3. /\ \A n \in net' : \/ n \in Issued(t)
                         \/ \E m \in net : n.what = m.what /\ n.row = m.row /\ n.state = m.state
      /\ \A m \in net : \E n \in net' : n.what = m.what /\ n.row = m.row
      /\ \A m \in net : m.src \in Tasks /\ task'[m.src] = task[m.src] => m \in net'
      /\ Issued(t) \subseteq net' /\ torn \subseteq torn'
  BY <1>1, MailMoves
<1>4. \A m \in Issued(t) : /\ m.src = t /\ m.row = task'[t].row /\ m.row \in Rows
                           /\ RequestOf(task'[t].pc, m)
  BY <1>0, <1>1, <1>2, IssuedEffect DEF Moved
<1>5. Created' = Created /\ \A r \in Created : r \in Rows /\ r <= made
  BY <1>0, <1>1 DEF Created, StoreTyped
<1>6. /\ made \in Nat /\ index \in Nat /\ cur \in 0 .. MaxRows
      /\ \A r \in Rows : r \in Nat /\ rt[r].content \in Nat
  BY <1>0, SameTypes, EngineAssumption DEF TypeInv, Typed, Runtime, Rows
<1>7. /\ Live \subseteq Rows /\ \A r \in Live : r <= made
      /\ Live \subseteq Live'
      /\ \A r \in Live' : r \in Live \/ (task'[t].pc = "create" /\ r = task'[t].row)
  <2>1. \A m \in net : m.row \in Rows /\ m.row <= made
    BY <1>0 DEF NetInv, WellFormed, Message
  <2>2. \A m \in Issued(t) : m.what = "row" => task'[t].pc = "create"
    BY <1>4 DEF RequestOf
  <2> QED  BY <1>3, <1>4, <1>5, <2>1, <2>2 DEF Live
<1>8. \A u \in Tasks : \/ u = t \/ task'[u] = task[u]
                       \/ u \in Timers /\ task'[u].pc \in {"idle", "sleep"}
  BY <1>1 DEF Moved, OthersStay
<1>9. \A u \in Tasks : task[u].pc = "create" => u \notin Timers
  BY <1>0, EngineAssumption DEF Base, TaskInv
<1>10. ASSUME cur' # 0 => cur' \in Created
       PROVE  MailInv'
  <2> SUFFICES ASSUME NEW m \in net', m.what = "state"
               PROVE  m.row \in Created /\ (m.row \notin torn' => m.state = rt'[m.row].state)
    BY <1>5 DEF MailInv
  <2>1. m.row \notin torn' => m.state = rt'[m.row].state
    BY <1>1, <1>2 DEF OnItsWay
  <2>2. CASE \E n \in net : m.what = n.what /\ m.row = n.row
    BY <1>0, <2>1, <2>2 DEF MailInv
  <2>3. CASE m \in Issued(t)
    <3>1. m.row = task'[t].row /\ m.row \in Rows /\ RequestOf(task'[t].pc, m)
      BY <1>4, <2>3
    <3>2. m.row \in {cur, cur'}
      <4>1. task'[t].pc \in {"open", "close", "revealed", "done"}
        BY <3>1 DEF RequestOf
      <4> QED  BY <1>1, <1>2, <3>1, <4>1 DEF Moved, Base, TaskInv, Early, Late
    <3>3. m.row # 0
      BY <3>1, EngineAssumption DEF Rows
    <3> QED  BY <1>0, <1>10, <2>1, <3>2, <3>3 DEF IndexInv
  <2> QED  BY <1>3, <2>2, <2>3
<1>11. ASSUME cur' # 0 /\ rt'[cur'].state = "done" => cur' = cur
       PROVE  DoneInv'
  <2> SUFFICES ASSUME cur # 0, cur' = cur, rt'[cur].state = "done", cur \notin torn'
               PROVE  \/ row'[cur].state = "done"
                      \/ \E u \in Tasks : /\ task'[u].pc = "done" /\ task'[u].row = cur
                                          /\ \E m \in net' : m.src = u
    BY <1>11 DEF DoneInv
  <2>1. cur \in Rows /\ cur \notin torn
    BY <1>3, <1>6 DEF Rows
  <2>2. CASE rt[cur].state = "done"
    <3>1. CASE row[cur].state = "done"
      BY <1>1, <3>1
    <3>2. ASSUME NEW u \in Tasks, task[u].pc = "done", task[u].row = cur,
                 NEW m \in net, m.src = u
          PROVE  task'[u] = task[u] /\ m \in net'
      <4>1. m.row = cur
        BY <1>0, <1>1, <3>2, StoreAssumption DEF NetInv, Owned, Tasks
      <4>2. PICK dead : NetMoves(t, dead, Issued(t))
        BY <1>1
      <4>3. m \notin dead
        BY <4>1, <4>2 DEF NetMoves
      <4> QED  BY <3>2, <4>2, <4>3 DEF NetMoves
    <3> QED  BY <1>0, <1>1, <2>1, <2>2, <3>1, <3>2 DEF DoneInv
  <2>3. CASE rt[cur].state # "done"
    <3>1. task'[t].pc = "done" /\ task'[t].row = cur
      BY <1>1, <2>1, <2>3 DEF Moved, StagesMove
    <3> DEFINE m == Msg(t, cur, "state", NoOne, StateOf("done"), NoAnswer)
    <3>2. m \in Issued(t) /\ m.src = t
      BY <3>1 DEF Issued, Msg
    <3> QED  BY <1>3, <3>1, <3>2
  <2> QED  BY <2>2, <2>3
<1>12. ASSUME NEW o \in Ops, NEW i \in 1 .. NumRounds, Asks(o, i)
       PROVE  PlaceInv'
  <2>1. /\ made + 1 \in Rows /\ made' = made + 1 /\ index' = i /\ cur' = cur
        /\ \A s \in Rows \ {made + 1} : rt'[s] = rt[s]
        /\ rt'[made + 1].content = i /\ rt'[made + 1].state = "pending"
        /\ cur # 0 => cur # made + 1
        /\ task[o].pc = "idle" /\ task'[o].pc = "create" /\ task'[o].row = made + 1
        /\ \A u \in Tasks \ {o} : task'[u] = task[u]
    <3>1. StartRound(o, i)
      BY <1>12 DEF Asks
    <3> QED  BY <1>0, <3>1, StartEffect
  <2>2. index' = index + 1
    <3>1. made' # made
      BY <1>6, <2>1
    <3> QED  BY <1>0, <1>1, <3>1, NoJump
  <2>3. o = t
    BY <1>8, <2>1, EngineAssumption DEF Tasks
  <2>4. \A u \in Tasks \ {o} : task[u].pc # "create"
    BY <1>9, EngineAssumption DEF OneOperator, Tasks
  <2>5. \A r \in Live : rt'[r] = rt[r] /\ r # made + 1 /\ rt[r].content \in 1 .. index
    BY <1>0, <1>6, <1>7, <2>1 DEF IndexInv
  <2>6. \A r \in Live' : r \in Live \/ r = made + 1
    BY <1>7, <2>1, <2>3
  <2>7. Created \subseteq Live
    BY DEF Live
  <2>8. \A r \in Live : rt'[r].content \in 1 .. index /\ rt'[r].content < index'
    BY <1>6, <2>2, <2>5
  <2>9. IndexInv'
    <3>1. \A r \in Created' : row'[r].idx = rt'[r].content
      BY <1>0, <1>1, <1>5, <2>5, <2>7 DEF IndexInv
    <3>2. \A r \in Live' : rt'[r].content \in 1 .. index'
      BY <1>6, <2>1, <2>2, <2>6, <2>8
    <3>3. \A r, s \in Live' : rt'[r].content = rt'[s].content => r = s
      BY <1>0, <1>6, <2>1, <2>2, <2>5, <2>6, <2>8 DEF IndexInv
    <3> QED  BY <1>0, <1>5, <2>1, <3>1, <3>2, <3>3 DEF IndexInv
  <2>10. CreatingInv'
    <3> DEFINE m == Msg(t, made + 1, "row", NoOne, "pending", NoAnswer)
    <3>1. m \in Issued(t) /\ m.src = t
      BY <2>1, <2>3 DEF Issued, Msg
    <3>2. \E n \in net' : n.src = t
      BY <1>3, <3>1
    <3>3. rt'[made'].content = index' /\ index' > 0
      BY <1>6, <2>1, <2>2
    <3>4. \A r \in Live' : rt'[r].content = index' => r = made'
      BY <1>6, <2>1, <2>2, <2>6, <2>8
    <3> QED  BY <2>1, <2>3, <2>4, <3>2, <3>3, <3>4 DEF CreatingInv
  <2>11. /\ ~ IsCreating /\ IsCreating' /\ Here' = Here /\ (Fine' => Fine)
    <3>1. ~ IsCreating /\ IsCreating'
      BY <2>1, <2>3, <2>4 DEF IsCreating
    <3>2. Here' = Here
      BY <1>6, <2>2, <3>1 DEF Here
    <3> QED  BY <1>3, <3>1, <3>2 DEF Fine
  <2>12. LastInv'
    BY <1>0, <1>5, <2>1, <2>5, <2>7, <2>11 DEF LastInv
  <2>13. ZeroInv'
    <3> SUFFICES ASSUME cur = 0, Fine
                 PROVE  /\ \A m \in net' : m.what = "row" /\ m.row = made' /\ IsCreating'
                        /\ \A r \in Created : rt'[r].content = Here => row[r].state = "done"
      BY <1>1, <1>5, <2>1, <2>11 DEF ZeroInv
    <3>1. \A m \in net : FALSE
      BY <1>0, <2>11 DEF ZeroInv
    <3>2. \A m \in net' : m \in Issued(t)
      BY <1>3, <3>1
    <3>3. \A m \in net' : m.what = "row" /\ m.row = made'
      BY <1>4, <2>1, <2>3, <3>2 DEF RequestOf
    <3> QED  BY <1>0, <2>5, <2>7, <2>11, <3>3 DEF ZeroInv
  <2>14. MailInv' /\ DoneInv'
    BY <1>0, <1>10, <1>11, <2>1 DEF IndexInv
  <2> QED  BY <2>9, <2>10, <2>12, <2>13, <2>14 DEF PlaceInv
<1>13. ASSUME NEW o \in Tasks, RowCreated(o)
       PROVE  PlaceInv'
  <2>1. /\ task[o].pc = "create" /\ made \in Rows /\ o \in Ops
        /\ \A s \in Rows \ {made} : rt'[s] = rt[s]
        /\ rt'[made].content = rt[made].content /\ rt'[made].state = "active"
        /\ cur' = made /\ UNCHANGED <<index, made>>
        /\ task'[o].pc = "open"
        /\ \A u \in Tasks \ {o} : u \in Timers
    BY <1>0, <1>13, CreatedEffect
  <2>2. o = t
    BY <1>8, <2>1, EngineAssumption DEF Tasks
  <2>3. made \in Created /\ rt[made].content = index
    BY <1>0, <1>1, <2>1, <2>2 DEF CreatingInv
  <2>4. \A r \in Rows : rt'[r].content = rt[r].content
    BY <2>1
  <2>5. Live' = Live
    BY <1>7, <2>1, <2>2
  <2>6. IndexInv'
    BY <1>0, <1>1, <1>5, <1>7, <2>1, <2>3, <2>4, <2>5 DEF IndexInv
  <2>7. \A u \in Tasks : task'[u].pc # "create"
    BY <1>2, <2>1, EngineAssumption DEF Base, TaskInv
  <2>8. CreatingInv' /\ ~ IsCreating' /\ Here' = index
    BY <2>1, <2>7 DEF CreatingInv, IsCreating, Here
  <2>9. LastInv'
    BY <1>5, <2>1, <2>3, <2>4, <2>8 DEF LastInv
  <2>10. ZeroInv'
    BY <2>1, EngineAssumption DEF ZeroInv, Rows
  <2>11. MailInv' /\ DoneInv'
    BY <1>10, <1>11, <2>1, <2>3
  <2> QED  BY <2>6, <2>8, <2>9, <2>10, <2>11 DEF PlaceInv
<1>14. CASE Forward /\ ~ \E o \in Tasks : RowCreated(o)
  <2>1. UNCHANGED <<index, cur, made>> /\ \A r \in Rows : rt'[r].content = rt[r].content
    BY <1>14 DEF Forward
  <2>2. \A u \in Tasks : task'[u].pc = "create" => task[u].pc = "create"
    BY <1>1, <1>6, <1>8, <2>1 DEF Moved, StagesMove
  <2>3. ASSUME NEW u \in Tasks, task[u].pc = "create"
        PROVE  task'[u] = task[u] /\ u # t
    <3>1. u # t
      <4>1. task[t].pc = "create" => RowCreated(t)
        BY IdleType DEF StoreTask, Requests, Close, Reveal, StartNext, StartAt, StartRound,
               TimerFires, Proceeds, RoundOpened, CloseStored, AnswersStored, UpgradesStored,
               RevealStored, ScoresStored, DoneStored
      <4> QED  BY <1>14, <2>3, <4>1
    <3> QED  BY <1>8, <1>9, <2>3, <3>1
  <2>4. (IsCreating' <=> IsCreating) /\ task'[t].pc # "create"
    BY <2>2, <2>3 DEF IsCreating
  <2>5. Live' = Live /\ Here' = Here /\ (Fine' => Fine)
    BY <1>3, <1>7, <2>1, <2>4 DEF Here, Fine
  <2>6. IndexInv'
    BY <1>0, <1>1, <1>5, <1>7, <2>1, <2>5 DEF IndexInv
  <2>7. CreatingInv'
    <3> SUFFICES ASSUME NEW u \in Tasks, task'[u].pc = "create"
                 PROVE  /\ rt'[made].content = index /\ index > 0
                        /\ \A r \in Live : rt'[r].content = index => r = made
                        /\ made \in Created \/ \E m \in net' : m.src = u
      BY <1>5, <2>1, <2>5 DEF CreatingInv
    <3>1. /\ rt[made].content = index /\ index > 0
          /\ \A r \in Live : rt[r].content = index => r = made
          /\ made \in Created \/ \E m \in net : m.src = u
          /\ made \in Rows /\ task'[u] = task[u]
      BY <1>0, <1>1, <2>2, <2>3 DEF CreatingInv, Base, TaskInv
    <3> QED  BY <1>3, <1>7, <2>1, <3>1
  <2>8. LastInv'
    BY <1>0, <1>5, <2>1, <2>5 DEF LastInv
  <2>9. ZeroInv'
    <3> SUFFICES ASSUME cur = 0, Fine
                 PROVE  /\ \A m \in net' : m.what = "row" /\ m.row = made /\ IsCreating
                        /\ \A r \in Created : rt'[r].content = Here => row[r].state = "done"
      BY <1>1, <1>5, <2>1, <2>4, <2>5 DEF ZeroInv
    <3>1. \A m \in Issued(t) : FALSE
      <4> SUFFICES ASSUME NEW m \in Issued(t) PROVE FALSE
        OBVIOUS
      <4>1. task'[t].row \in Rows /\ RequestOf(task'[t].pc, m) /\ cur' = 0
        BY <1>4, <2>1
      <4>2. task'[t].pc \in {"open", "close", "revealed", "done", "answers", "upgrade", "scores"}
        BY <2>4, <4>1 DEF RequestOf
      <4>3. task'[t].row = 0
        BY <1>1, <1>2, <4>1, <4>2 DEF Moved, Base, TaskInv, Early, Late
      <4> QED  BY <4>1, <4>3, EngineAssumption DEF Rows
    <3> QED  BY <1>0, <1>3, <1>5, <2>1, <3>1 DEF ZeroInv
  <2>10. MailInv' /\ DoneInv'
    BY <1>0, <1>5, <1>10, <1>11, <2>1 DEF IndexInv
  <2> QED  BY <2>6, <2>7, <2>8, <2>9, <2>10 DEF PlaceInv
<1> QED  BY <1>0, <1>1, <1>12, <1>13, <1>14, BaseStep

LEMMA PlaceFails ==
  ASSUME OneOperator, StoreInv, PlaceInv, NEW t \in Tasks, StoreFails(t)
  PROVE  PlaceInv'
<1>0. /\ TypeInv /\ Base /\ StoreTyped /\ NetInv
      /\ IndexInv /\ MailInv /\ CreatingInv /\ LastInv /\ ZeroInv /\ DoneInv
  BY DEF StoreInv, PlaceInv
<1>1. /\ UNCHANGED <<index, cur, made, rt, row, up>> /\ up
      /\ task'[t].pc = "idle" /\ OthersStay(t) /\ task[t].row \in torn'
      /\ \E dead : NetMoves(t, dead, {})
  BY FailNet
<1>2. /\ \A n \in net' : \E m \in net : n.what = m.what /\ n.row = m.row /\ n.state = m.state
      /\ \A m \in net : \E n \in net' : n.what = m.what /\ n.row = m.row
      /\ \A m \in net : m.src \in Tasks /\ task'[m.src] = task[m.src] => m \in net'
      /\ torn \subseteq torn'
  BY <1>1, MailMoves
<1>3. Created' = Created /\ Live' = Live
  BY <1>1, <1>2 DEF Created, Live
<1>4. \A u \in Tasks \ {t} : task'[u] = task[u] \/ (task[u].pc # "create" /\ task'[u].pc # "create"
                                                     /\ task'[u].pc # "done")
  <2>1. \A u \in Tasks \ {t} : task'[u] = task[u]
    BY SameTypes DEF StoreFails, CallFails, StoreInv, TypeInv, Typed
  <2> QED  BY <2>1
<1>5. \A u \in Tasks : task'[u].pc \in {"create", "done"} => u # t /\ task'[u] = task[u]
  BY <1>1, <1>4
<1>6. IndexInv' /\ MailInv'
  BY <1>0, <1>1, <1>2, <1>3 DEF IndexInv, MailInv
<1>7. CreatingInv'
  <2> SUFFICES ASSUME NEW u \in Tasks, task'[u].pc = "create"
               PROVE  /\ rt[made].content = index /\ index > 0
                      /\ \A r \in Live : rt[r].content = index => r = made
                      /\ made \in Created \/ \E m \in net' : m.src = u
    BY <1>1, <1>3 DEF CreatingInv
  <2> QED  BY <1>0, <1>1, <1>2, <1>5 DEF CreatingInv
<1>8. Fine' => Fine /\ Here' = Here /\ (IsCreating' <=> IsCreating)
  <2>1. CASE task[t].pc = "create"
    <3>1. task[t].row = made /\ t \in Ops
      BY <1>0, <2>1 DEF Base, TaskInv
    <3>2. \A u \in Tasks : task'[u].pc # "create"
      BY <1>0, <1>5, <3>1 DEF Base, TaskInv, OneOperator
    <3> QED  BY <1>1, <3>1, <3>2 DEF Fine, IsCreating
  <2>2. CASE task[t].pc # "create"
    <3>1. IsCreating' <=> IsCreating
      BY <1>1, <1>4, <2>2 DEF IsCreating
    <3> QED  BY <1>1, <1>2, <3>1 DEF Fine, Here
  <2> QED  BY <2>1, <2>2
<1>9. LastInv' /\ ZeroInv'
  BY <1>0, <1>1, <1>2, <1>3, <1>8 DEF LastInv, ZeroInv
<1>10. DoneInv'
  <2> SUFFICES ASSUME cur # 0, cur \notin torn', rt[cur].state = "done", row[cur].state # "done"
               PROVE  \E u \in Tasks : /\ task'[u].pc = "done" /\ task'[u].row = cur
                                       /\ \E m \in net' : m.src = u
    BY <1>1 DEF DoneInv
  <2>1. PICK u \in Tasks : /\ task[u].pc = "done" /\ task[u].row = cur
                           /\ \E m \in net : m.src = u
    BY <1>0, <1>1, <1>2 DEF DoneInv
  <2>2. u # t
    BY <1>1, <2>1
  <2>3. task'[u] = task[u]
    BY <2>2, SameTypes DEF StoreFails, CallFails, StoreInv, TypeInv, Typed
  <2> QED  BY <1>2, <2>1, <2>3
<1> QED  BY <1>6, <1>7, <1>9, <1>10 DEF PlaceInv

LEMMA PlaceServe ==
  ASSUME StoreInv, PlaceInv, \A r \in Rows : TableInv(r), NEW m \in net, Serve(m)
  PROVE  PlaceInv'
<1>0. /\ TypeInv /\ Base /\ NetInv
      /\ IndexInv /\ MailInv /\ CreatingInv /\ LastInv /\ ZeroInv /\ DoneInv
  BY DEF StoreInv, PlaceInv
<1>1. /\ UNCHANGED <<task, rt, cur, made, index, torn>> /\ up' = up
      /\ m.row \in Rows /\ net' \subseteq net
      /\ \A n \in net : n = m \/ n \in net'
      /\ \A s \in Rows \ {m.row} : row'[s] = row[s]
      /\ IF m.what = "row" THEN row'[m.row] = [idx |-> rt[m.row].content, state |-> "pending"]
         ELSE /\ row'[m.row].idx = row[m.row].idx
              /\ row'[m.row].state = IF m.what = "state" THEN m.state ELSE row[m.row].state
  BY ServeEffect DEF vars
<1>2. ASSUME up, NEW t \in Tasks, m.src = t
      PROVE  m.row = task[t].row /\ RequestOf(task[t].pc, m)
  BY <1>0, <1>2, StoreAssumption DEF NetInv, Owned, Tasks
<1>3. (IsCreating' <=> IsCreating) /\ Here' = Here /\ (Fine' <=> Fine)
  BY <1>1 DEF IsCreating, Here, Fine
<1>4. /\ Created' = IF m.what = "row" THEN Created \cup {m.row} ELSE Created
      /\ Live' \subseteq Live
  <2>1. m.what = "state" => m.row \in Created /\ m.state # "none"
    BY <1>0 DEF MailInv, NetInv, WellFormed, Begun
  <2>2. Created' = IF m.what = "row" THEN Created \cup {m.row} ELSE Created
    BY <1>1, <2>1 DEF Created
  <2> QED  BY <1>1, <2>2 DEF Live
<1>5. \A r \in Created : row'[r].idx = rt[r].content
  BY <1>0, <1>1 DEF IndexInv, Created
<1>6. IndexInv' /\ MailInv'
  <2>1. \A r \in Created' : row'[r].idx = rt[r].content
    BY <1>1, <1>4, <1>5
  <2>2. Created \subseteq Created'
    BY <1>4
  <2> QED  BY <1>0, <1>1, <1>4, <2>1, <2>2 DEF IndexInv, MailInv
<1>7. CreatingInv'
  <2> SUFFICES ASSUME NEW t \in Tasks, task[t].pc = "create", up
               PROVE  made \in Created' \/ \E n \in net' : n.src = t
    BY <1>0, <1>1, <1>4 DEF CreatingInv
  <2>1. CASE m.src = t
    <3>1. m.row = made /\ m.what = "row"
      BY <1>0, <1>2, <2>1 DEF RequestOf, Base, TaskInv
    <3> QED  BY <1>4, <3>1
  <2>2. CASE m.src # t
    BY <1>0, <1>1, <1>4, <2>2 DEF CreatingInv
  <2> QED  BY <2>1, <2>2
<1>8. LastInv'
  BY <1>0, <1>1, <1>3, <1>4 DEF LastInv
<1>9. ZeroInv'
  <2> SUFFICES ASSUME cur = 0, Fine, NEW r \in Created', rt[r].content = Here
               PROVE  row'[r].state = "done"
    BY <1>0, <1>1, <1>3 DEF ZeroInv
  <2>1. m.what = "row" /\ m.row = made /\ IsCreating
    BY <1>0 DEF ZeroInv
  <2>2. rt[made].content = index /\ Here = index - 1 /\ index \in Nat
    BY <1>0, <2>1, SameTypes DEF CreatingInv, IsCreating, Here, TypeInv, Typed
  <2>3. r # made
    BY <2>2
  <2> QED  BY <1>0, <1>1, <1>4, <2>1, <2>3 DEF ZeroInv, Created
<1>10. DoneInv'
  <2> SUFFICES ASSUME cur # 0, cur \notin torn, rt[cur].state = "done"
               PROVE  \/ row'[cur].state = "done"
                      \/ \E t \in Tasks : /\ task[t].pc = "done" /\ task[t].row = cur
                                          /\ up => \E n \in net' : n.src = t
    BY <1>1 DEF DoneInv
  <2>1. cur \in Rows
    BY <1>0, SameTypes DEF TypeInv, Typed, Rows
  <2>2. ~ (m.what = "row" /\ m.row = cur)
    BY <2>1 DEF TableInv
  <2>3. CASE m.what = "state" /\ m.row = cur
    BY <1>0, <1>1, <2>3 DEF MailInv
  <2>4. CASE ~ (m.what = "state" /\ m.row = cur)
    <3>1. row'[cur].state = row[cur].state
      BY <1>1, <2>1, <2>2, <2>4
    <3>2. ASSUME up, NEW t \in Tasks, task[t].pc = "done", task[t].row = cur,
                 NEW n \in net, n.src = t
          PROVE  n \in net'
      BY <1>1, <1>2, <2>4, <3>2 DEF RequestOf
    <3> QED  BY <1>0, <3>1, <3>2 DEF DoneInv
  <2> QED  BY <2>3, <2>4
<1> QED  BY <1>6, <1>7, <1>8, <1>9, <1>10 DEF PlaceInv

\* The requests and the torn rows change, and what a step adds is an attempt nobody
\* waits for, of a request under way.
LEMMA PlaceMail ==
  ASSUME StoreInv, PlaceInv, UNCHANGED <<index, cur, made, rt, task, row>>,
         up' => up, torn \subseteq torn',
         \A n \in net' : \E m \in net : n.what = m.what /\ n.row = m.row /\ n.state = m.state,
         \A m \in net : up' /\ m.src \in Tasks => m \in net'
  PROVE  PlaceInv'
<1>0. IndexInv /\ MailInv /\ CreatingInv /\ LastInv /\ ZeroInv /\ DoneInv
  BY DEF PlaceInv
<1>1. Created' = Created /\ Live' \subseteq Live
  BY DEF Created, Live
<1>2. (IsCreating' <=> IsCreating) /\ Here' = Here /\ (Fine' => Fine)
  BY DEF IsCreating, Here, Fine
<1>3. IndexInv' /\ MailInv'
  BY <1>0, <1>1 DEF IndexInv, MailInv
<1>4. CreatingInv' /\ DoneInv'
  BY <1>0, <1>1 DEF CreatingInv, DoneInv
<1>5. LastInv' /\ ZeroInv'
  BY <1>0, <1>1, <1>2 DEF LastInv, ZeroInv
<1> QED  BY <1>3, <1>4, <1>5 DEF PlaceInv

LEMMA PlaceRestart ==
  ASSUME StoreInv, PlaceInv, Restart
  PROVE  PlaceInv'
<1>0. /\ StoreTyped /\ IndexInv /\ \A r \in Created : r \in Rows
      /\ row \in [Rows -> TableRow]
  BY DEF StoreInv, StoreTyped, PlaceInv, Created
<1>1. /\ net = {} /\ net' = {} /\ task' = [t \in Tasks |-> Idle]
      /\ NoneResumed \/ \E last \in Rows : Resumed(last)
  BY RestartEffect
<1>2. CreatingInv' /\ ~ IsCreating' /\ MailInv' /\ Here' = index'
  BY <1>1, IdleType DEF CreatingInv, IsCreating, MailInv, Here
<1>3. Live = Created /\ Live' = Created'
  BY <1>1 DEF Live
<1>4. ASSUME NEW last \in Created, \A r \in Created : row[r].idx <= row[last].idx
      PROVE  /\ \A r \in Created : rt[r].content \in 1 .. row[last].idx
             /\ rt[last].content = row[last].idx
  <2>1. \A r \in Created : row[r].idx \in Nat /\ row[r].idx = rt[r].content /\ row[r].idx >= 1
    BY <1>0, <1>3, EngineAssumption DEF IndexInv, TableRow
  <2> QED  BY <1>4, <2>1
<1>5. CASE NoneResumed
  <2>1. cur' = 0 /\ rt' = rt /\ row' = row /\ Created' = Created
    BY <1>5 DEF NoneResumed, Created
  <2>2. CASE Created = {} /\ index' = 0
    BY <1>1, <1>2, <1>3, <2>1, <2>2 DEF PlaceInv, IndexInv, LastInv, ZeroInv, DoneInv
  <2>3. ASSUME NEW last \in Created, \A r \in Created : row[r].idx <= row[last].idx,
               index' = row[last].idx, row[last].state = "done"
        PROVE  PlaceInv'
    <3>1. IndexInv' /\ LastInv' /\ DoneInv'
      BY <1>0, <1>2, <1>3, <1>4, <2>1, <2>3 DEF IndexInv, LastInv, DoneInv
    <3>2. \A r \in Created : rt[r].content = index' => r = last
      BY <1>0, <1>3, <1>4, <2>3 DEF IndexInv
    <3>3. ZeroInv'
      BY <1>1, <1>2, <2>1, <2>3, <3>2 DEF ZeroInv
    <3> QED  BY <1>2, <3>1, <3>3 DEF PlaceInv
  <2> QED  BY <1>5, <2>2, <2>3 DEF NoneResumed
<1>6. ASSUME NEW last \in Rows, Resumed(last)
      PROVE  PlaceInv'
  <2>1. /\ \A r \in Rows \ {last} : rt'[r] = rt[r] /\ row'[r] = row[r]
        /\ rt'[last].content = row[last].idx /\ rt'[last].state = "closing"
        /\ row'[last].idx = row[last].idx /\ row'[last].state = "closing"
        /\ cur' = last /\ index' = row[last].idx
    BY <1>6, ResumedEffect
  <2>2. last \in Created /\ \A r \in Created : row[r].idx <= row[last].idx
    BY <1>6 DEF Resumed
  <2>3. /\ \A r \in Created : rt[r].content \in 1 .. index'
        /\ rt[last].content = index'
    BY <1>4, <2>1, <2>2
  <2>4. Created' = Created /\ \A r \in Created : rt'[r].content = rt[r].content
    BY <1>0, <2>1, <2>2, <2>3 DEF Created
  <2>5. IndexInv'
    BY <1>0, <1>3, <2>1, <2>2, <2>3, <2>4 DEF IndexInv
  <2>6. LastInv' /\ DoneInv'
    BY <1>2, <2>1, <2>2, <2>3, <2>4 DEF LastInv, DoneInv
  <2>7. ZeroInv'
    BY <2>1, EngineAssumption DEF ZeroInv, Rows
  <2> QED  BY <1>2, <2>5, <2>6, <2>7 DEF PlaceInv
<1> QED  BY <1>1, <1>5, <1>6

LEMMA PlaceStep ==
  ASSUME OneOperator, Jumps = FALSE, StoreInv, PlaceInv, \A r \in Rows : TableInv(r),
         [StoreNext]_storeVars
  PROVE  PlaceInv'
<1>0. NetInv
  BY DEF StoreInv
<1>1. CASE (\E p \in Players : Join(p) /\ UNCHANGED dbVars) \/ UNCHANGED storeVars
  <2>1. UNCHANGED <<index, cur, made, rt, task, row, net, up, torn>>
    BY <1>1 DEF Join, storeVars, vars, dbVars
  <2> QED  BY <2>1, PlaceMail
<1>2. ASSUME NEW m \in net, TimesOut(m) PROVE PlaceInv'
  <2>1. /\ UNCHANGED vars /\ UNCHANGED <<row, up>> /\ torn \subseteq torn' /\ net \subseteq net'
        /\ \A n \in net' : n \in net \/ (n.row = m.row /\ n.what = m.what /\ n.state = m.state)
    BY <1>2, TimesOutEffect
  <2> QED  BY <2>1, PlaceMail DEF vars
<1>3. ASSUME NEW m \in net, Drop(m) PROVE PlaceInv'
  <2>1. /\ UNCHANGED vars /\ UNCHANGED <<row, up, torn>> /\ net' = net \ {m} /\ m.src = NoTask
    BY <1>3 DEF Drop
  <2>2. \A n \in net : n.src \in Tasks => n \in net'
    BY <2>1, StoreAssumption DEF Tasks
  <2> QED  BY <2>1, <2>2, PlaceMail DEF vars
<1>4. CASE Crash
  <2>1. /\ UNCHANGED vars /\ UNCHANGED <<row, torn>> /\ ~ up' /\ net' = Abandoned(net)
    BY <1>4 DEF Crash
  <2>2. ASSUME NEW n \in net'
        PROVE  \E m \in net : n.row = m.row /\ n.what = m.what /\ n.state = m.state
    <3>1. PICK m \in net : n = [m EXCEPT !.src = NoTask]
      BY <2>1 DEF Abandoned
    <3>2. m \in Message
      BY <1>0 DEF NetInv, WellFormed
    <3> QED  BY <3>1, <3>2, GhostType
  <2> QED  BY <2>1, <2>2, PlaceMail DEF vars
<1> QED
  BY <1>1, <1>2, <1>3, <1>4, PlaceTask, PlaceFails, PlaceServe, PlaceRestart DEF StoreNext

LEMMA PlaceStart == StoreInit => PlaceInv
<1> SUFFICES ASSUME StoreInit PROVE PlaceInv
  OBVIOUS
<1>1. /\ Init /\ net = {} /\ Created = {} /\ Live = {} /\ cur = 0 /\ index = 0
      /\ \A t \in Tasks : task[t].pc = "idle"
  BY IdleType DEF StoreInit, Init, Created, Live
<1>2. ~ IsCreating /\ Here = 0
  BY <1>1 DEF IsCreating, Here
<1> QED
  BY <1>1, <1>2 DEF PlaceInv, IndexInv, CreatingInv, LastInv, ZeroInv, MailInv, DoneInv


LEMMA HighestRow ==
  ASSUME StoreInv, IndexInv, NEW r \in Created, \A s \in Created : rt[s].content <= rt[r].content,
         NEW last \in Created, \A s \in Created : row[s].idx <= row[last].idx
  PROVE  last = r /\ row[r].idx = rt[r].content
<1>1. \A s \in Created : s \in Rows /\ row[s].idx = rt[s].content /\ rt[s].content \in Nat
  BY SameTypes, EngineAssumption DEF Created, StoreInv, TypeInv, Typed, Runtime, IndexInv
<1>2. rt[last].content = rt[r].content
  BY <1>1
<1> QED  BY <1>1, <1>2 DEF IndexInv, Live

\* The answers of the round that is taken up again.
LEMMA BroughtBack ==
  ASSUME StoreInv, NEW r \in Rows, Resumed(r), row[r].idx = rt[r].content,
         (BackInv(r) /\ r = cur /\ r \notin torn) \/ answer[r] = rt[r].ans
  PROVE  RoundBack(r)
<1>1. /\ rt'[r].content = row[r].idx /\ rt'[r].state = "closing" /\ rt'[r].ans = answer[r]
      /\ cur' = r /\ index' = row[r].idx
  BY ResumedEffect
<1> QED  BY <1>1 DEF RoundBack, AnswersBack, BackInv

\* A show that was at place i, where no round is open or all is stored of the one that is.
LEMMA FoundAt ==
  ASSUME StoreInv, PlaceInv, Restart, NEW i \in Nat,
         cur # 0 => cur \in Rows /\ cur \notin torn /\ TableInv(cur) /\ BackInv(cur),
         \A r \in Created : rt[r].content <= i,
         \/ i = 0 /\ cur = 0
         \/ \E r \in Created : /\ rt[r].content = i /\ cur \in {0, r}
                               /\ cur = 0 => row[r].state = "done"
  PROVE  ResumesAt(i)
<1>0. /\ IndexInv /\ DoneInv /\ StoreTyped
      /\ \A r \in Created : r \in Rows /\ rt[r].content >= 1
  <2>1. \A r \in Created : r \in Rows /\ r \in Live
    BY DEF Created, Live
  <2>2. index \in Nat /\ IndexInv /\ DoneInv /\ StoreTyped
    BY SameTypes, EngineAssumption DEF StoreInv, TypeInv, Typed, PlaceInv
  <2> QED  BY <2>1, <2>2 DEF IndexInv
<1>1. NoneResumed \/ \E last \in Rows : Resumed(last)
  BY RestartEffect
<1>2. CASE i = 0 /\ cur = 0
  <2>1. Created = {}
    BY <1>0, <1>2, SameTypes, EngineAssumption DEF StoreInv, TypeInv, Typed, Runtime
  <2>2. index' = 0 /\ cur' = 0
    BY <1>1, <2>1 DEF NoneResumed, Resumed
  <2> QED  BY <1>2, <2>2 DEF ResumesAt
<1>3. ASSUME NEW r \in Created, rt[r].content = i, cur \in {0, r}, cur = 0 => row[r].state = "done"
      PROVE  ResumesAt(i)
  <2>1. ASSUME NEW last \in Created, \A s \in Created : row[s].idx <= row[last].idx
        PROVE  last = r /\ row[r].idx = i
    BY <1>0, <1>3, <2>1, HighestRow
  <2>2. CASE NoneResumed
    <3>1. index' = i /\ cur' = 0 /\ row[r].state = "done"
      BY <1>3, <2>1, <2>2 DEF NoneResumed
    <3>2. cur # 0 => rt[cur].state = "done"
      <4> SUFFICES ASSUME cur # 0 PROVE rt[cur].state = "done"
        OBVIOUS
      <4>1. cur = r /\ Rank(row[r].state) <= Rank(rt[r].state) /\ rt[r].state \in Phases
        BY <1>0, <1>3, SameTypes DEF TableInv, StoreInv, TypeInv, Typed, Runtime
      <4> QED  BY <3>1, <4>1, Ranks, RankTypes DEF Phases
    <3> QED  BY <3>1, <3>2 DEF ResumesAt
  <2>3. ASSUME NEW last \in Rows, Resumed(last) PROVE ResumesAt(i)
    <3>1. last = r /\ row[r].idx = i /\ index' = i /\ row[r].state # "done"
      BY <2>1, <2>3 DEF Resumed
    <3>2. cur = r /\ cur # 0
      BY <1>0, <1>3, <3>1, EngineAssumption DEF Rows
    <3>3. RoundBack(cur)
      BY <1>0, <1>3, <2>3, <3>1, <3>2, BroughtBack
    <3>4. rt[cur].state = "done" => Waits({"done"}, cur)
      BY <1>0, <3>1, <3>2 DEF DoneInv, Waits
    <3> QED  BY <3>1, <3>2, <3>3, <3>4 DEF ResumesAt
  <2> QED  BY <1>1, <2>2, <2>3
<1> QED  BY <1>2, <1>3

LEMMA ResumesFound ==
  ASSUME OneOperator, StoreInv, PlaceInv, \A r \in Rows : TableInv(r) /\ BackInv(r), Restart,
         IF Waits({"create"}, made) THEN torn = {} ELSE {cur, made} \cap torn = {}
  PROVE  Resumes
<1>0. /\ Base /\ StoreTyped /\ IndexInv /\ CreatingInv /\ LastInv /\ ZeroInv
      /\ index \in Nat /\ cur \in 0 .. MaxRows
      /\ \A r \in Rows : rt[r].content \in Nat
      /\ net = {}
  BY RestartEffect, SameTypes, EngineAssumption
     DEF StoreInv, PlaceInv, TypeInv, Typed, Runtime
<1>1. Waits({"create"}, made) <=> IsCreating
  BY <1>0 DEF Base, TaskInv, Waits, IsCreating
<1>2. Fine /\ cur \notin torn
  BY <1>1 DEF Fine
<1>3. cur # 0 => cur \in Rows /\ cur \notin torn /\ TableInv(cur) /\ BackInv(cur)
  BY <1>0, <1>2 DEF Rows
<1>4. Created = Live /\ \A r \in Created : r \in Rows /\ rt[r].content \in 1 .. index
  BY <1>0 DEF Live, Created, IndexInv
<1>5. \/ Here = 0 /\ cur = 0
      \/ \E r \in Created : /\ rt[r].content = Here /\ cur \in {0, r}
                            /\ cur = 0 => row[r].state = "done"
  BY <1>0, <1>2 DEF LastInv, ZeroInv
<1>6. CASE ~ IsCreating
  <2>1. ResumesAt(index)
    <3>1. Here = index /\ \A r \in Created : rt[r].content <= index
      BY <1>0, <1>4, <1>6 DEF Here
    <3> QED  BY <1>0, <1>3, <1>5, <3>1, FoundAt
  <2> QED  BY <1>1, <1>6, <2>1 DEF Resumes
<1>7. CASE IsCreating
  <2>1. /\ rt[made].content = index /\ index > 0
        /\ \A r \in Live : rt[r].content = index => r = made
        /\ made \in Rows /\ rt[made].state = "pending"
    BY <1>0, <1>7 DEF IsCreating, CreatingInv, Base, TaskInv
  <2>2. CASE made \in Created
    <3>1. ASSUME NEW last \in Created, \A s \in Created : row[s].idx <= row[last].idx
          PROVE  last = made /\ row[made].idx = index
      <4>1. \A s \in Created : rt[s].content <= rt[made].content
        BY <1>0, <1>4, <2>1
      <4> QED  BY <1>0, <2>1, <2>2, <3>1, <4>1, HighestRow
    <3>2. row[made].state # "done" /\ answer[made] = rt[made].ans
      <4>1. TableInv(made) /\ made \notin torn /\ row[made].state \in Phases
        BY <1>0, <1>1, <1>7, <2>1 DEF StoreTyped, TableRow
      <4> QED  BY <2>1, <4>1, Ranks, RankTypes DEF TableInv, Phases
    <3>3. Resumed(made)
      <4>1. NoneResumed \/ \E last \in Rows : Resumed(last)
        BY RestartEffect
      <4>2. ~ NoneResumed
        BY <2>2, <3>1, <3>2 DEF NoneResumed
      <4> QED  BY <3>1, <4>1, <4>2 DEF Resumed
    <3>4. RoundBack(made)
      <4>1. row[made].idx = rt[made].content
        BY <1>0, <2>2 DEF IndexInv
      <4> QED  BY <2>1, <3>2, <3>3, <4>1, BroughtBack
    <3> QED  BY <1>1, <1>7, <3>4 DEF Resumes
  <2>3. CASE made \notin Created
    <3>1. /\ Here = index - 1 /\ index - 1 \in Nat
          /\ \A r \in Created : rt[r].content <= index - 1
      BY <1>0, <1>4, <1>7, <2>1, <2>3 DEF Here
    <3>2. ResumesAt(index - 1)
      BY <1>3, <1>5, <3>1, FoundAt
    <3> QED  BY <1>1, <1>7, <3>2 DEF Resumes
  <2> QED  BY <2>2, <2>3
<1> QED  BY <1>6, <1>7

\* A show whose runner dies resumes where it was, answers included: an open round comes
\* back as the current one, closing, with every answer but those that were being stored,
\* a finished one is followed by the next unless its end was being stored, and one that
\* was being created is there or the show is where it was before -- however late the
\* requests of the dead runner were served.  Not said of a round of which a task was cut
\* short or a request timed out (torn), nor when the operator jumps back in the show,
\* for GameEngine.load goes by the highest idx.
THEOREM RestartsResume == ASSUME OneOperator, Jumps = FALSE PROVE StoreSpec => RestartResumes
<1> DEFINE Tables == \A r \in Rows : TableInv(r)
           Backs == \A r \in Rows : BackInv(r)
           Whole == IF Waits({"create"}, made) THEN torn = {} ELSE {cur, made} \cap torn = {}
           Claim == up' /\ ~ up /\ Whole => Resumes
<1>1. StoreInv /\ Tables /\ PlaceInv /\ Backs /\ [StoreNext]_storeVars => [Claim]_storeVars
  <2> SUFFICES ASSUME StoreInv, Tables, PlaceInv, Backs, StoreNext, up', ~ up, Whole
               PROVE  Resumes
    BY DEF storeVars
  <2>1. Restart
    <3>1. \A t \in Tasks : ~ StoreTask(t) /\ ~ StoreFails(t)
      BY DEF StoreTask, StoreFails
    <3>2. ~ Crash /\ \A m \in net : ~ Serve(m) /\ ~ Drop(m) /\ ~ TimesOut(m)
      BY DEF Crash, Serve, Drop, TimesOut
    <3> QED  BY <3>1, <3>2 DEF StoreNext
  <2> QED  BY <2>1, ResumesFound
<1>2. StoreSpec => []PlaceInv
  <2>1. StoreInit => PlaceInv
    BY PlaceStart
  <2>2. StoreInv /\ Tables /\ PlaceInv /\ [StoreNext]_storeVars => PlaceInv'
    BY PlaceStep
  <2> QED  BY <2>1, <2>2, TableAlways, PTL DEF StoreSpec
<1> QED  BY <1>1, <1>2, TableAlways, BackAlways, PTL DEF StoreSpec, RestartResumes
=============================================================================
