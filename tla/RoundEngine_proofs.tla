------------------------- MODULE RoundEngine_proofs -------------------------
(***************************************************************************)
(* Proofs about RoundEngine, for any players, zones, rounds and timers, any *)
(* call failing and the operator jumping, and one operator request at a     *)
(* time (OneOperator): with two of them two rounds can be open at once. The *)
(* last part shows that the engine implements RoundBoard.                   *)
(***************************************************************************)
EXTENDS RoundEngine, TLAPS

OneOperator == \A o, u \in Ops : o = u

Phases == {"none", "pending", "active", "closing", "revealed", "done"}
Runtime == [content : 0 .. NumRounds, idx : 0 .. NumRounds,
            state : Phases, ans : [Players -> Answer]]
TaskRecord == [pc : Pcs, row : 0 .. MaxRows, kind : Kinds]

\* A task that stands between two awaits of _do_close or _do_reveal.
Early == {"close", "answers", "upgrade"}
Late == {"revealed", "scores"}
Working == Early \cup Late

-----------------------------------------------------------------------------
(* Helpers.                                                                *)

LEMMA StateNames == {States[i] : i \in 1 .. 6} = Phases
BY DEF States, Phases

LEMMA RuntimeType == TypeOK => rt \in [Rows -> Runtime]
BY StateNames DEF TypeOK, Runtime

LEMMA PutType ==
  ASSUME NEW f \in [Tasks -> TaskRecord], NEW t \in Tasks, NEW x \in TaskRecord
  PROVE  /\ Put(f, t, x) \in [Tasks -> TaskRecord]
         /\ Put(f, t, x)[t] = x
         /\ \A u \in Tasks \ {t} : Put(f, t, x)[u] = f[u]
BY DEF Put

LEMMA AtType ==
  ASSUME NEW pc \in Pcs, NEW r \in 0 .. MaxRows, NEW kind \in Kinds
  PROVE  /\ At(pc, r, kind) \in TaskRecord
         /\ At(pc, r, kind).pc = pc /\ At(pc, r, kind).row = r /\ At(pc, r, kind).kind = kind
BY DEF At, TaskRecord

LEMMA IdleType == Idle \in TaskRecord /\ Idle.pc = "idle"
BY EngineAssumption DEF Idle, At, TaskRecord, Pcs, Kinds

LEMMA CancelledType ==
  ASSUME task \in [Tasks -> TaskRecord]
  PROVE  /\ Cancelled \in [Tasks -> TaskRecord]
         /\ \A t \in Tasks : Cancelled[t] = IF t = handle THEN Idle ELSE task[t]
BY IdleType DEF Cancelled

\* What a reveal does up to its first await.
LEMMA RevealEffect ==
  ASSUME TypeOK, NEW f \in [Tasks -> TaskRecord], NEW t \in Tasks, NEW r \in Rows,
         NEW kind \in Kinds, DoReveal(f, t, r, kind)
  PROVE  /\ rt' \in [Rows -> Runtime]
         /\ \A s \in Rows \ {r} : rt'[s] = rt[s]
         /\ rt'[r].content = rt[r].content
         /\ \/ /\ rt'[r].state = "revealed" /\ rt'[r].ans = rt[r].ans
               /\ task' = Put(f, t, At("revealed", r, kind))
            \/ /\ rt'[r].state = rt[r].state
               /\ task' = Put(f, t, At("upgrade", r, kind))
         /\ scored' = scored
         /\ \A p \in Players \ known : rt'[r].ans[p] = rt[r].ans[p]
<1>0. rt \in [Rows -> Runtime]
  BY RuntimeType
<1>a. scored' = scored
  BY DEF DoReveal
<1>1. CASE SetState(r, "revealed") /\ task' = Put(f, t, At("revealed", r, kind))
  BY <1>0, <1>a, <1>1 DEF SetState, Runtime, Phases
<1>2. CASE \E up \in (SUBSET Upgradable(r)) \ {{}} : \E z \in [up -> Zones] :
             /\ rt' = [rt EXCEPT ![r].ans = [p \in Players |->
                         IF p \in up THEN [how |-> "late", zone |-> z[p]] ELSE @[p]]]
             /\ task' = Put(f, t, At("upgrade", r, kind))
  <2>1. PICK up \in SUBSET Upgradable(r) : \E z \in [up -> Zones] :
             /\ rt' = [rt EXCEPT ![r].ans = [p \in Players |->
                         IF p \in up THEN [how |-> "late", zone |-> z[p]] ELSE @[p]]]
             /\ task' = Put(f, t, At("upgrade", r, kind))
    BY <1>2
  <2>2. PICK z \in [up -> Zones] :
             /\ rt' = [rt EXCEPT ![r].ans = [p \in Players |->
                         IF p \in up THEN [how |-> "late", zone |-> z[p]] ELSE @[p]]]
             /\ task' = Put(f, t, At("upgrade", r, kind))
    BY <2>1
  <2>3. [p \in Players |-> IF p \in up THEN [how |-> "late", zone |-> z[p]] ELSE rt[r].ans[p]]
          \in [Players -> Answer]
    <3>1. \A p \in up : [how |-> "late", zone |-> z[p]] \in Answer
      BY DEF Answer
    <3>2. rt[r].ans \in [Players -> Answer]
      BY <1>0 DEF Runtime
    <3> QED  BY <3>1, <3>2
  <2>4. up \subseteq known
    BY DEF Upgradable
  <2> QED  BY <1>0, <1>a, <2>2, <2>3, <2>4 DEF Runtime
<1> QED  BY <1>1, <1>2 DEF DoReveal

\* What a close that is stored does: it captures where everybody stands.
LEMMA CaptureEffect ==
  ASSUME TypeOK, NEW r \in Rows, NEW in \in SUBSET known, NEW z \in [in -> Zones],
         rt' = [rt EXCEPT ![r].ans = [p \in Players |->
                  IF p \in in THEN [how |-> "answered", zone |-> z[p]]
                  ELSE IF p \in known THEN Absent ELSE @[p]]]
  PROVE  /\ rt' \in [Rows -> Runtime]
         /\ \A s \in Rows \ {r} : rt'[s] = rt[s]
         /\ rt'[r].content = rt[r].content
         /\ rt'[r].state = rt[r].state
         /\ \A p \in Players \ known : rt'[r].ans[p] = rt[r].ans[p]
<1>1. rt \in [Rows -> Runtime] /\ rt[r].ans \in [Players -> Answer]
  BY RuntimeType DEF Runtime
<1>2. \A p \in in : [how |-> "answered", zone |-> z[p]] \in Answer
  BY DEF Answer
<1>3. Absent \in Answer
  BY DEF Absent, Answer
<1>4. [p \in Players |-> IF p \in in THEN [how |-> "answered", zone |-> z[p]]
                         ELSE IF p \in known THEN Absent ELSE rt[r].ans[p]]
        \in [Players -> Answer]
  BY <1>1, <1>2, <1>3
<1> QED  BY <1>1, <1>4 DEF Runtime

LEMMA SetStateEffect ==
  ASSUME TypeOK, NEW r \in Rows, NEW s \in Phases, SetState(r, s)
  PROVE  /\ rt' \in [Rows -> Runtime]
         /\ \A u \in Rows \ {r} : rt'[u] = rt[u]
         /\ rt'[r].content = rt[r].content
         /\ rt'[r].ans = rt[r].ans
         /\ rt'[r].state = s
BY RuntimeType DEF SetState, Runtime

\* The types, with the names given above.
Typed ==
  /\ index \in 0 .. NumRounds
  /\ cur \in 0 .. MaxRows
  /\ made \in 0 .. MaxRows
  /\ rt \in [Rows -> Runtime]
  /\ task \in [Tasks -> TaskRecord]
  /\ handle \in Timers \cup {0}
  /\ known \in SUBSET Players
  /\ jumped \in SUBSET Rows
  /\ scored \in [Rows -> [Players -> 0 .. 2]]
  /\ failed \in SUBSET Rows

LEMMA SameTypes == (TypeOK <=> Typed) /\ (TypeOK' <=> Typed')
BY StateNames DEF TypeOK, Typed, Runtime, TaskRecord

\* A task that waits for the database or sleeps is about a row of the table.
TaskRow == \A t \in Tasks : task[t].pc # "idle" => task[t].row \in Rows

TypeInv == TypeOK /\ TaskRow

LEMMA NewTimerType ==
  ASSUME NEW f \in [Tasks -> TaskRecord], NEW r \in Rows, NEW kind \in Kinds,
         NewTimer(f, r, kind), TypeOK
  PROVE  /\ task' \in [Tasks -> TaskRecord]
         /\ handle' \in Timers
         /\ f[handle'] = Idle
         /\ task' = Put(f, handle', At("sleep", r, kind))
<1>1. PICK t \in Timers : f[t] = Idle /\ task' = Put(f, t, At("sleep", r, kind)) /\ handle' = t
  BY DEF NewTimer
<1>2. At("sleep", r, kind) \in TaskRecord
  BY AtType, EngineAssumption DEF Pcs, Rows
<1> QED  BY <1>1, <1>2, PutType DEF Tasks
-----------------------------------------------------------------------------
(* Types.                                                                  *)

\* Where a task is put is well typed.
LEMMA AtTypes ==
  /\ \A pc \in Pcs, r \in Rows, kind \in Kinds : At(pc, r, kind) \in TaskRecord
  /\ \A pc, r, kind : At(pc, r, kind).pc = pc /\ At(pc, r, kind).row = r
BY EngineAssumption DEF At, TaskRecord, Rows

LEMMA CloseTypes ==
  ASSUME Typed, NEW f \in [Tasks -> TaskRecord], NEW t \in Tasks, NEW r \in Rows,
         NEW kind \in Kinds, DoClose(f, t, r, kind)
  PROVE  /\ rt' \in [Rows -> Runtime]
         /\ task' \in [Tasks -> TaskRecord]
         /\ task'[t] = At("close", r, kind)
         /\ \A u \in Tasks \ {t} : task'[u] = f[u]
         /\ scored' = scored
<1>1. At("close", r, kind) \in TaskRecord
  BY AtTypes DEF Pcs
<1>2. rt' \in [Rows -> Runtime]
  BY SetStateEffect, SameTypes DEF DoClose, Phases
<1> QED  BY <1>1, <1>2, PutType DEF DoClose

LEMMA RevealTypes ==
  ASSUME Typed, NEW f \in [Tasks -> TaskRecord], NEW t \in Tasks, NEW r \in Rows,
         NEW kind \in Kinds, DoReveal(f, t, r, kind)
  PROVE  /\ rt' \in [Rows -> Runtime]
         /\ task' \in [Tasks -> TaskRecord]
         /\ task'[t].pc \in {"upgrade", "revealed"} /\ task'[t].row = r
         /\ \A u \in Tasks \ {t} : task'[u] = f[u]
         /\ scored' = scored
<1>1. At("upgrade", r, kind) \in TaskRecord /\ At("revealed", r, kind) \in TaskRecord
  BY AtTypes DEF Pcs
<1>2. At("upgrade", r, kind).pc = "upgrade" /\ At("revealed", r, kind).pc = "revealed"
      /\ At("upgrade", r, kind).row = r /\ At("revealed", r, kind).row = r
  BY DEF At
<1>3. /\ rt' \in [Rows -> Runtime] /\ scored' = scored
      /\ \/ task' = Put(f, t, At("revealed", r, kind))
         \/ task' = Put(f, t, At("upgrade", r, kind))
  BY RevealEffect, SameTypes
<1>4. CASE task' = Put(f, t, At("revealed", r, kind))
  <2> DEFINE x == At("revealed", r, kind)
  <2>1. x \in TaskRecord /\ x.pc = "revealed" /\ x.row = r /\ task' = Put(f, t, x)
    BY <1>1, <1>2, <1>4
  <2> HIDE DEF x
  <2> QED  BY <2>1, <1>3, PutType
<1>5. CASE task' = Put(f, t, At("upgrade", r, kind))
  <2> DEFINE x == At("upgrade", r, kind)
  <2>1. x \in TaskRecord /\ x.pc = "upgrade" /\ x.row = r /\ task' = Put(f, t, x)
    BY <1>1, <1>2, <1>5
  <2> HIDE DEF x
  <2> QED  BY <2>1, <1>3, PutType
<1> QED  BY <1>3, <1>4, <1>5

LEMMA AfterCloseTypes ==
  ASSUME Typed, NEW t \in Tasks, NEW r \in Rows, AfterClose(t, r)
  PROVE  /\ rt' \in [Rows -> Runtime]
         /\ task' \in [Tasks -> TaskRecord]
         /\ \A u \in Tasks : task'[u].pc # "idle" => task'[u].row = r \/ task'[u] = task[u]
         /\ handle' \in Timers \cup {0}
         /\ scored' = scored
<1>1. CASE task[t].kind = "reveal"
  <2>1. DoReveal(task, t, r, "reveal") /\ handle' = handle
    BY <1>1 DEF AfterClose
  <2>2. task \in [Tasks -> TaskRecord] /\ "reveal" \in Kinds
    BY DEF Typed, Kinds
  <2> QED  BY <2>1, <2>2, RevealTypes DEF Typed
<1>2. CASE task[t].kind # "reveal"
  <2>1. NewTimer(Put(task, t, Idle), r, "grace") /\ rt' = rt /\ scored' = scored
    BY <1>2 DEF AfterClose
  <2>2. /\ Put(task, t, Idle) \in [Tasks -> TaskRecord]
        /\ \A u \in Tasks \ {t} : Put(task, t, Idle)[u] = task[u]
        /\ Put(task, t, Idle)[t] = Idle
    BY PutType, IdleType DEF Typed
  <2>3. At("sleep", r, "grace") \in TaskRecord /\ At("sleep", r, "grace").row = r
    BY AtTypes DEF Pcs, Kinds
  <2>4. /\ task' \in [Tasks -> TaskRecord] /\ handle' \in Timers
        /\ task' = Put(Put(task, t, Idle), handle', At("sleep", r, "grace"))
    BY <2>1, <2>2, NewTimerType, SameTypes DEF Kinds
  <2>5. \A u \in Tasks : task'[u] = IF u = handle' THEN At("sleep", r, "grace")
                                    ELSE IF u = t THEN Idle ELSE task[u]
    BY <2>3, <2>4 DEF Put, Tasks
  <2> QED  BY <2>1, <2>3, <2>4, <2>5, IdleType DEF Typed
<1> QED  BY <1>1, <1>2

LEMMA TypeStep == TypeInv /\ [Next]_vars => TypeInv'
<1> SUFFICES ASSUME TypeInv, [Next]_vars PROVE TypeInv'
  OBVIOUS
<1> USE EngineAssumption
<1>0. Typed /\ TaskRow
  BY SameTypes DEF TypeInv
<1>t. task \in [Tasks -> TaskRecord] /\ rt \in [Rows -> Runtime] /\ Ops \subseteq Tasks /\ Timers \subseteq Tasks
  BY <1>0 DEF Typed, Tasks
<1>c. /\ Cancelled \in [Tasks -> TaskRecord]
      /\ \A t \in Tasks : Cancelled[t] = IF t = handle THEN Idle ELSE task[t]
  BY <1>t, CancelledType
<1>i. Idle \in TaskRecord /\ Idle.pc = "idle"
  BY IdleType
<1> SUFFICES Typed' /\ TaskRow'
  BY SameTypes DEF TypeInv
<1>1. ASSUME NEW o \in Ops, NEW i \in 1 .. NumRounds, StartRound(o, i),
             jumped' \in {jumped, jumped \cup {made + 1}}
      PROVE  Typed' /\ TaskRow'
  <2>1. made + 1 \in Rows /\ made' = made + 1 /\ i \in 0 .. NumRounds
    BY <1>1, <1>0 DEF StartRound, Typed, Rows
  <2>2. rt' \in [Rows -> Runtime]
    BY <1>1, <1>t, <2>1 DEF StartRound, Runtime, Phases
  <2>3. At("create", made + 1, "start") \in TaskRecord /\ At("create", made + 1, "start").row = made + 1
    BY <2>1, AtTypes DEF Pcs, Kinds
  <2>4. task' \in [Tasks -> TaskRecord] /\ TaskRow'
    BY <1>1, <1>0, <1>t, <2>1, <2>3 DEF StartRound, TaskRow, Rows
  <2> QED  BY <1>1, <1>0, <2>1, <2>2, <2>4 DEF StartRound, Typed, Rows
<1>2. ASSUME NEW o \in Ops, StartNext(o) PROVE Typed' /\ TaskRow'
  <2>1. index + 1 \in 1 .. NumRounds
    BY <1>2, <1>0 DEF StartNext, Typed
  <2> QED  BY <1>2, <1>1, <2>1 DEF StartNext
<1>3. ASSUME NEW o \in Ops, NEW i \in 1 .. NumRounds, StartAt(o, i) PROVE Typed' /\ TaskRow'
  BY <1>3, <1>1 DEF StartAt
<1>4. ASSUME NEW t \in Tasks, RowCreated(t) PROVE Typed' /\ TaskRow'
  <2>1. task[t].row \in Rows
    BY <1>4, <1>0 DEF RowCreated, TaskRow
  <2>2. rt' \in [Rows -> Runtime]
    <3>1. rt' = [rt EXCEPT ![task[t].row].idx = index, ![task[t].row].state = "active"]
      BY <1>4 DEF RowCreated
    <3>2. index \in 0 .. NumRounds /\ "active" \in Phases
      BY <1>0 DEF Typed, Phases
    <3> QED  BY <3>1, <3>2, <1>t, <2>1 DEF Runtime
  <2>3. task' \in [Tasks -> TaskRecord] /\ TaskRow'
    BY <1>4, <1>0, <1>t, <2>1 DEF RowCreated, TaskRow, TaskRecord, Pcs, Rows
  <2> QED  BY <1>4, <1>0, <2>1, <2>2, <2>3 DEF RowCreated, Typed, Rows
<1>5. ASSUME NEW t \in Tasks, RoundOpened(t) PROVE Typed' /\ TaskRow'
  <2> DEFINE r == task[t].row
             f == Put(Cancelled, t, Idle)
  <2>1. r \in Rows
    BY <1>5, <1>0 DEF RoundOpened, TaskRow
  <2>2. /\ f \in [Tasks -> TaskRecord]
        /\ \A u \in Tasks : f[u] = Idle \/ f[u] = task[u]
    BY <1>c, <1>i DEF Put
  <2>3. CASE rt[r].content \in Timed
    <3> HIDE DEF f
    <3>1. NewTimer(f, r, "active")
      BY <1>5, <2>3 DEF RoundOpened, f
    <3>2. At("sleep", r, "active") \in TaskRecord /\ At("sleep", r, "active").row = r
      BY <2>1, AtTypes DEF Pcs, Kinds
    <3>3. /\ task' \in [Tasks -> TaskRecord] /\ handle' \in Timers
          /\ task' = Put(f, handle', At("sleep", r, "active"))
      BY <3>1, <2>1, <2>2, NewTimerType, SameTypes, <1>0 DEF Kinds
    <3>4. \A u \in Tasks : task'[u] = IF u = handle' THEN At("sleep", r, "active") ELSE f[u]
      BY <3>3, <1>t DEF Put
    <3>5. TaskRow'
      BY <3>2, <3>4, <2>1, <2>2, <1>0, <1>i DEF TaskRow, Rows
    <3> QED  BY <1>5, <1>0, <3>3, <3>5 DEF RoundOpened, Typed, Rows
  <2>4. CASE rt[r].content \notin Timed
    <3> HIDE DEF f
    <3>1. task' = f /\ handle' = 0
      BY <1>5, <2>4 DEF RoundOpened, f
    <3>2. TaskRow'
      BY <3>1, <2>2, <1>0, <1>i DEF TaskRow, Rows
    <3> QED  BY <1>5, <1>0, <2>2, <3>1, <3>2 DEF RoundOpened, Typed, Rows
  <2> QED  BY <2>3, <2>4
<1>6. ASSUME NEW t \in Tasks, NEW r \in Rows, NEW f \in [Tasks -> TaskRecord], NEW kind \in Kinds,
             DoClose(f, t, r, kind) \/ DoReveal(f, t, r, kind),
             \A u \in Tasks : f[u] = Idle \/ f[u] = task[u],
             UNCHANGED <<index, cur, made, known, jumped, failed>>,
             handle' \in Timers \cup {0}
      PROVE  Typed' /\ TaskRow'
  <2>1. /\ rt' \in [Rows -> Runtime] /\ task' \in [Tasks -> TaskRecord] /\ scored' = scored
        /\ task'[t].row = r /\ \A u \in Tasks \ {t} : task'[u] = f[u]
    <3>1. CASE DoClose(f, t, r, kind)
      BY <3>1, <1>0, CloseTypes, AtTypes
    <3>2. CASE DoReveal(f, t, r, kind)
      BY <3>2, <1>0, RevealTypes
    <3> QED  BY <3>1, <3>2, <1>6
  <2>2. TaskRow'
    BY <2>1, <1>6, <1>0, <1>i DEF TaskRow, Rows
  <2> QED  BY <2>1, <2>2, <1>6, <1>0 DEF Typed, Rows
<1>7. ASSUME NEW o \in Ops, Close(o) \/ Reveal(o) PROVE Typed' /\ TaskRow'
  <2>1. cur \in Rows /\ handle' = 0
    BY <1>7, <1>0 DEF Close, Reveal, Typed, Rows
  <2>2. /\ \E kind \in Kinds : DoClose(Cancelled, o, cur, kind) \/ DoReveal(Cancelled, o, cur, kind)
        /\ UNCHANGED <<index, cur, made, known, jumped, failed>>
    BY <1>7 DEF Close, Reveal, Kinds
  <2>3. \A u \in Tasks : Cancelled[u] = Idle \/ Cancelled[u] = task[u]
    BY <1>c
  <2> HIDE DEF Cancelled
  <2> QED  BY <2>1, <2>2, <2>3, <1>c, <1>6, <1>t
<1>8. ASSUME NEW t \in Timers, TimerFires(t) PROVE Typed' /\ TaskRow'
  <2>1. task[t].row \in Rows /\ UNCHANGED <<index, cur, made, known, jumped, failed, handle>>
    BY <1>8, <1>0, <1>t DEF TimerFires, TaskRow
  <2>2. CASE \E kind \in Kinds : DoClose(task, t, task[t].row, kind) \/ DoReveal(task, t, task[t].row, kind)
    BY <2>1, <2>2, <1>6, <1>t, <1>0 DEF Typed
  <2>3. CASE task' = [task EXCEPT ![t] = Idle] /\ UNCHANGED <<rt, scored>>
    BY <2>1, <2>3, <1>0, <1>t, <1>i DEF Typed, TaskRow, Rows
  <2> QED  BY <1>8, <2>2, <2>3 DEF TimerFires, Kinds
<1>9. ASSUME NEW t \in Tasks, task[t].pc # "idle", AfterClose(t, task[t].row),
             UNCHANGED <<index, cur, made, known, jumped, failed>>
      PROVE  Typed' /\ TaskRow'
  <2>1. task[t].row \in Rows
    BY <1>9, <1>0 DEF TaskRow
  <2>2. /\ rt' \in [Rows -> Runtime] /\ task' \in [Tasks -> TaskRecord] /\ scored' = scored
        /\ handle' \in Timers \cup {0}
        /\ \A u \in Tasks : task'[u].pc # "idle" => task'[u].row = task[t].row \/ task'[u] = task[u]
    BY <2>1, <1>9, <1>0, AfterCloseTypes
  <2>3. TaskRow'
    BY <2>1, <2>2, <1>0 DEF TaskRow, Rows
  <2> QED  BY <2>2, <2>3, <1>9, <1>0 DEF Typed, Rows
<1>10. ASSUME NEW t \in Tasks, CloseStored(t) PROVE Typed' /\ TaskRow'
  <2> DEFINE r == task[t].row
  <2>1. r \in Rows /\ task[t].pc = "close" /\ UNCHANGED <<index, cur, made, known, jumped, failed>>
    BY <1>10, <1>0 DEF CloseStored, TaskRow
  <2>2. CASE AfterClose(t, r)
    BY <2>1, <2>2, <1>9
  <2>3. CASE /\ \E in \in SUBSET known : \E z \in [in -> Zones] :
                  rt' = [rt EXCEPT ![r].ans = [p \in Players |->
                    IF p \in in THEN [how |-> "answered", zone |-> z[p]]
                    ELSE IF p \in known THEN Absent ELSE @[p]]]
             /\ task' = [task EXCEPT ![t].pc = "answers"]
             /\ UNCHANGED <<handle, scored>>
    <3>1. rt' \in [Rows -> Runtime]
      BY <2>1, <2>3, <1>0, SameTypes, CaptureEffect
    <3>2. task' \in [Tasks -> TaskRecord] /\ TaskRow'
      BY <2>1, <2>3, <1>0, <1>t DEF TaskRow, TaskRecord, Pcs, Rows
    <3> QED  BY <2>1, <2>3, <3>1, <3>2, <1>0 DEF Typed, Rows
  <2> QED  BY <1>10, <2>2, <2>3 DEF CloseStored
<1>11. ASSUME NEW t \in Tasks, AnswersStored(t) PROVE Typed' /\ TaskRow'
  BY <1>11, <1>9 DEF AnswersStored
<1>12. ASSUME NEW t \in Tasks, UpgradesStored(t) \/ ScoresStored(t) PROVE Typed' /\ TaskRow'
  <2>1. task[t].row \in Rows /\ rt' \in [Rows -> Runtime]
    BY <1>12, <1>0, SameTypes, SetStateEffect DEF UpgradesStored, ScoresStored, TaskRow, Phases
  <2>2. task' \in [Tasks -> TaskRecord] /\ TaskRow'
    <3>1. PICK pc \in Pcs : task' = [task EXCEPT ![t].pc = pc] /\ pc # "idle"
      BY <1>12 DEF UpgradesStored, ScoresStored, Pcs
    <3>2. task' \in [Tasks -> TaskRecord]
      BY <3>1, <1>t DEF TaskRecord
    <3>3. \A u \in Tasks : task'[u].row = task[u].row /\ (u # t => task'[u].pc = task[u].pc)
      BY <3>1, <1>t DEF TaskRecord
    <3> QED  BY <3>2, <3>3, <2>1, <1>0 DEF TaskRow, Rows
  <2> QED  BY <2>1, <2>2, <1>12, <1>0 DEF UpgradesStored, ScoresStored, Typed, Rows
<1>13. ASSUME NEW t \in Tasks, RevealStored(t) PROVE Typed' /\ TaskRow'
  <2>1. task[t].row \in Rows
    BY <1>13, <1>0 DEF RevealStored, TaskRow
  <2>2. scored' \in [Rows -> [Players -> 0 .. 2]]
    BY <1>13, <1>0, <2>1 DEF RevealStored, Typed
  <2>3. task' \in [Tasks -> TaskRecord] /\ TaskRow'
    BY <1>13, <1>0, <1>t DEF RevealStored, TaskRow, TaskRecord, Pcs, Rows
  <2> QED  BY <2>2, <2>3, <1>13, <1>0 DEF RevealStored, Typed, Rows
<1>14. ASSUME NEW t \in Tasks, DoneStored(t) \/ CallFails(t) PROVE Typed' /\ TaskRow'
  <2>1. task' = [task EXCEPT ![t] = Idle] /\ failed' \in SUBSET Rows
    BY <1>14, <1>0 DEF DoneStored, CallFails, TaskRow, Typed
  <2>2. task' \in [Tasks -> TaskRecord] /\ TaskRow'
    BY <2>1, <1>0, <1>t, <1>i DEF TaskRow, Rows
  <2> QED  BY <2>1, <2>2, <1>14, <1>0 DEF DoneStored, CallFails, Typed, Rows
<1>15. ASSUME NEW p \in Players, Join(p) PROVE Typed' /\ TaskRow'
  BY <1>15, <1>0 DEF Join, Typed, TaskRow, Rows
<1>16. CASE UNCHANGED vars
  BY <1>16, <1>0 DEF vars, Typed, TaskRow, Rows
<1> QED
  BY <1>2, <1>3, <1>4, <1>5, <1>7, <1>8, <1>10, <1>11, <1>12, <1>13, <1>14, <1>15, <1>16
     DEF Next, Requests, Proceeds
LEMMA TypeInit == Init => TypeInv
<1> SUFFICES ASSUME Init PROVE Typed /\ TaskRow
  BY SameTypes DEF TypeInv
<1>1. NoAnswer \in Answer
  BY DEF NoAnswer, Answer
<1>2. rt \in [Rows -> Runtime]
  BY <1>1, EngineAssumption DEF Init, Runtime, Phases
<1> QED  BY <1>2, IdleType, EngineAssumption DEF Init, Typed, TaskRow

\* Every variable of the engine keeps its type, for any instance and any number
\* of overlapping requests.
THEOREM TypeCorrect == Spec => []TypeOK
<1>1. Spec => []TypeInv
  BY TypeInit, TypeStep, PTL DEF Spec
<1>2. TypeInv => TypeOK
  BY DEF TypeInv
<1> QED  BY <1>1, <1>2, PTL

-----------------------------------------------------------------------------
(***************************************************************************)
(* The inductive invariant.  A task between two awaits works on the        *)
(* current round, in the phase its step belongs to (TaskInv); there is one *)
(* such task, because a timer that works or sleeps is the one of the       *)
(* handle, and a request that works has taken the handle away (HandleInv); *)
(* no round beyond those asked for has begun (CurInv).  This base also     *)
(* survives a restart, which takes a round back to closing (RoundStore).   *)
(* Without restarts no other round is open (OnlyOpen), nobody is paid      *)
(* before the reveal, exactly what is due with it and none afterwards      *)
(* (RowPaid), and the next round follows (OrderInv).                       *)
(***************************************************************************)
TaskInv(t) ==
  /\ task[t].pc \in {"create", "open"} => t \in Ops
  /\ task[t].pc = "sleep" => t \in Timers
  /\ task[t].pc # "idle" => task[t].row <= made
  /\ task[t].pc = "create" =>
       task[t].row = made /\ made \in Rows /\ rt[made].state = "pending" /\ ~ InProgress
  /\ task[t].pc = "open" => task[t].row = cur /\ cur \in Rows /\ rt[cur].state = "active"
  /\ task[t].pc \in Early => task[t].row = cur /\ cur \in Rows /\ rt[cur].state = "closing"
  /\ task[t].pc \in Late => task[t].row = cur /\ cur \in Rows /\ rt[cur].state = "revealed"
  /\ task[t].pc = "done" => task[t].row \in Rows /\ rt[task[t].row].state = "done"

HandleInv ==
  /\ \A t \in Timers : task[t].pc \in Working \cup {"sleep"} => t = handle
  /\ \A o \in Ops : task[o].pc \in Working => handle = 0
  /\ \A o \in Ops, t \in Timers :
       task[o].pc \in {"create", "open"} /\ task[t].pc = "sleep" => task[t].row # task[o].row

Begun == {"active", "closing", "revealed", "done"}

CurInv ==
  /\ cur <= made
  /\ cur # 0 => rt[cur].state \in Begun
  /\ \A r \in Rows : r > made => rt[r].state = "none"

Base ==
  /\ \A t \in Tasks : TaskInv(t)
  /\ HandleInv
  /\ CurInv

OnlyOpen == \A r \in Rows : Open(r) => r = cur

RowPaid(r) ==
  /\ rt[r].state \in {"none", "pending", "active", "closing"} => Unpaid(r)
  /\ rt[r].state = "revealed" => Unpaid(r) \/ scored[r] = Dues(r)
  /\ rt[r].state = "done" => scored[r] = Dues(r)
  /\ \A t \in Tasks : task[t].pc = "revealed" /\ task[t].row = r => Unpaid(r)
  /\ \A t \in Tasks : task[t].pc = "scores" /\ task[t].row = r => scored[r] = Dues(r)

ScoreInv == \A r \in Rows : RowPaid(r)

OrderInv ==
  /\ index = IF made = 0 THEN 0 ELSE rt[made].content
  /\ made # 0 => made = cur \/ made \in failed \/ \E o \in Ops : task[o].pc = "create"
  /\ InOrder

Inv == Base /\ OnlyOpen /\ ScoreInv /\ OrderInv

\* Two tasks are never between the awaits of a close or a reveal together.
LEMMA OneWorks ==
  ASSUME OneOperator, TypeInv, HandleInv,
         NEW t \in Tasks, NEW u \in Tasks, task[t].pc \in Working, task[u].pc \in Working
  PROVE  t = u
BY EngineAssumption DEF OneOperator, HandleInv, Tasks

\* What most steps have in common: no round is asked for and only the current one
\* moves, forward.
Forward ==
  /\ UNCHANGED <<index, cur, made, jumped>>
  /\ failed \subseteq failed'
  /\ \A s \in Rows : rt'[s].content = rt[s].content
  /\ \A s \in Rows : s # cur => rt'[s].state = rt[s].state
  /\ cur # 0 => /\ rt'[cur].state \in Begun
                /\ rt[cur].state = "done" => rt'[cur].state = "done"
  /\ \A o \in Ops : task[o].pc = "create" => task'[o].pc = "create" \/ made \in failed'

LEMMA ForwardCur ==
  ASSUME TypeInv, CurInv, Forward
  PROVE  CurInv'
<1>0. Typed
  BY SameTypes DEF TypeInv
<1>1. \A r \in Rows : r > made' => rt'[r].state = "none"
  <2> SUFFICES ASSUME NEW r \in Rows, r > made PROVE rt'[r].state = "none"
    BY DEF Forward
  <2>1. r # cur
    BY <1>0, EngineAssumption DEF CurInv, Typed, Rows
  <2> QED  BY <2>1 DEF CurInv, Forward
<1>2. cur' <= made' /\ (cur' # 0 => rt'[cur'].state \in Begun)
  BY DEF CurInv, Forward
<1> QED  BY <1>1, <1>2 DEF CurInv

LEMMA ForwardOrder ==
  ASSUME TypeInv, CurInv, OrderInv, Forward
  PROVE  OrderInv'
<1>0. Typed
  BY SameTypes DEF TypeInv
<1>1. index' = IF made' = 0 THEN 0 ELSE rt'[made'].content
  BY <1>0, EngineAssumption DEF OrderInv, Forward, Typed, Rows
<1>2. made' # 0 => made' = cur' \/ made' \in failed' \/ \E o \in Ops : task'[o].pc = "create"
  BY DEF OrderInv, Forward
<1>3. InOrder'
  <2> SUFFICES ASSUME NEW r \in Rows, rt'[r].state # "none"
               PROVE  /\ r > 1 => rt'[r - 1].state = "done" \/ r - 1 \in failed'
                      /\ r \notin jumped' =>
                           rt'[r].content = 1 + (IF r = 1 THEN 0 ELSE rt'[r - 1].content)
    BY DEF InOrder
  <2>1. r > 1 => r - 1 \in Rows
    BY EngineAssumption DEF Rows
  <2>2. rt[r].state # "none"
    BY EngineAssumption DEF Forward, CurInv, Begun, Rows
  <2>3. /\ r > 1 => rt[r - 1].state = "done" \/ r - 1 \in failed
        /\ r \notin jumped => rt[r].content = 1 + (IF r = 1 THEN 0 ELSE rt[r - 1].content)
    BY <2>2 DEF OrderInv, InOrder
  <2>4. r > 1 /\ rt[r - 1].state = "done" => rt'[r - 1].state = "done"
    BY <2>1, EngineAssumption DEF Forward, Rows
  <2>5. r \notin jumped' =>
          rt'[r].content = 1 + (IF r = 1 THEN 0 ELSE rt'[r - 1].content)
    BY <2>1, <2>3, EngineAssumption DEF Forward, Rows
  <2> QED  BY <2>3, <2>4, <2>5 DEF Forward
<1> QED  BY <1>1, <1>2, <1>3 DEF OrderInv

\* A task that does not move stays where the invariant wants it.
LEMMA TaskStays ==
  ASSUME TypeInv, Base, Forward, NEW u \in Tasks,
         task'[u] = task[u] \/ task'[u].pc = "idle",
         \/ task[u].pc \notin Working \cup {"open"}
         \/ task'[u].pc = "idle"
         \/ rt'[cur].state = rt[cur].state
  PROVE  TaskInv(u)'
<1>1. CASE task'[u].pc = "idle"
  BY <1>1 DEF TaskInv, Early, Late
<1>2. CASE task'[u] = task[u] /\ task[u].pc \notin Working \cup {"open"}
  <2>1. task[u].pc = "create" => rt'[made].state = "pending" /\ ~ InProgress'
    <3> SUFFICES ASSUME task[u].pc = "create" PROVE rt'[made].state = "pending" /\ ~ InProgress'
      OBVIOUS
    <3>1. made \in Rows /\ rt[made].state = "pending" /\ ~ InProgress
      BY DEF Base, TaskInv
    <3>2. made # cur
      BY <3>1, EngineAssumption DEF Base, CurInv, Begun, Rows
    <3> QED  BY <3>1, <3>2 DEF Forward, InProgress
  <2>2. task[u].pc = "done" => task[u].row \in Rows /\ rt'[task[u].row].state = "done"
    BY EngineAssumption DEF Base, TaskInv, Forward, Rows
  <2> QED  BY <1>2, <2>1, <2>2 DEF Base, TaskInv, Working, Early, Late, Forward
<1>3. CASE /\ task'[u] = task[u] /\ task[u].pc \in Working \cup {"open"}
           /\ rt'[cur].state = rt[cur].state
  BY <1>3 DEF Base, TaskInv, Working, Early, Late, Forward
<1> QED  BY <1>1, <1>2, <1>3

\* A task t moves, the others being those of f: none of them works, sleeps or opens a
\* round, unless it is a timer that f has stopped; and t keeps or takes away the handle.
Busy == Working \cup {"sleep", "open"}

Alone(f, t) ==
  \A u \in Tasks \ {t} : \/ f[u] = task[u] /\ task[u].pc \notin Busy
                         \/ f[u] = Idle /\ u \in Timers

Handles(t) == (t \in Ops /\ handle' = 0) \/ (t \in Timers /\ t = handle')

LEMMA RequestAlone ==
  ASSUME OneOperator, TypeInv, Base, NEW o \in Ops, task[o].pc = "idle"
  PROVE  Alone(Cancelled, o)
<1> SUFFICES ASSUME NEW u \in Tasks \ {o}
             PROVE  \/ Cancelled[u] = task[u] /\ task[u].pc \notin Busy
                    \/ Cancelled[u] = Idle /\ u \in Timers
  BY DEF Alone
<1>1. u \in Timers /\ u \notin Ops
  BY EngineAssumption DEF OneOperator, Tasks
<1>2. Cancelled[u] = IF u = handle THEN Idle ELSE task[u]
  BY CancelledType, SameTypes DEF TypeInv, Typed
<1>3. task[u].pc # "open"
  BY <1>1 DEF Base, TaskInv
<1> QED  BY <1>1, <1>2, <1>3 DEF Base, HandleInv, Busy

\* A sleeping timer that wakes finds the round it was started for still current.
LEMMA WorkerAlone ==
  ASSUME OneOperator, TypeInv, Base, NEW t \in Tasks,
         task[t].pc \in Working \/ (task[t].pc = "sleep" /\ task[t].row = cur)
  PROVE  /\ Alone(task, t)
         /\ (t \in Ops /\ handle = 0) \/ (t \in Timers /\ t = handle)
<1>0. task[t].pc = "sleep" => t \in Timers /\ t \notin Ops
  BY EngineAssumption DEF Base, TaskInv
<1>1. (t \in Ops /\ handle = 0) \/ (t \in Timers /\ t = handle)
  BY <1>0 DEF Base, HandleInv, Tasks
<1>2. ASSUME NEW u \in Tasks \ {t} PROVE task[u].pc \notin Busy
  <2>1. u \in Ops => task[u].pc # "sleep"
    BY EngineAssumption DEF Base, TaskInv, Tasks
  <2>2. task[u].pc \notin Working \cup {"sleep"}
    BY <1>0, <1>1, <2>1, EngineAssumption DEF OneOperator, Base, HandleInv, Tasks
  <2>3. task[u].pc # "open"
    <3> SUFFICES ASSUME task[u].pc = "open" PROVE FALSE
      OBVIOUS
    <3>1. u \in Ops /\ task[u].row = cur /\ rt[cur].state = "active"
      BY DEF Base, TaskInv
    <3>2. CASE task[t].pc \in Working
      BY <3>1, <3>2 DEF Base, TaskInv, Working
    <3>3. CASE task[t].pc = "sleep" /\ task[t].row = cur
      BY <3>1, <3>3, <1>0 DEF Base, HandleInv
    <3> QED  BY <3>2, <3>3
  <2> QED  BY <2>2, <2>3 DEF Busy
<1> QED  BY <1>1, <1>2 DEF Alone

\* A step moves a round to its next phase or leaves it, keeps its answers once they
\* are revealed, and reveals it only from closing.
Moves == {<<"none", "pending">>, <<"pending", "active">>, <<"active", "closing">>,
          <<"closing", "revealed">>, <<"revealed", "done">>}

Onward ==
  \A r \in Rows :
    /\ rt'[r].state = rt[r].state \/ <<rt[r].state, rt'[r].state>> \in Moves
    /\ rt[r].state \in {"revealed", "done"} => rt'[r].ans = rt[r].ans
    /\ \A t \in Tasks : task'[t].pc = "revealed" /\ task'[t].row = r =>
         task[t] = task'[t] \/ rt[r].state = "closing"

\* Closing the current round.
LEMMA DoCloseKeeps ==
  ASSUME OneOperator, TypeInv, Base,
         NEW f \in [Tasks -> TaskRecord], NEW t \in Tasks, NEW kind \in Kinds,
         cur \in Rows, rt[cur].state = "active", task[t].pc # "create",
         DoClose(f, t, cur, kind), Alone(f, t), Handles(t),
         UNCHANGED <<index, cur, made, known, jumped, failed>>
  PROVE  Base' /\ Onward /\ Forward
<1>0. Typed /\ task \in [Tasks -> TaskRecord]
  BY SameTypes DEF TypeInv, Typed
<1>1. /\ task'[t] = At("close", cur, kind)
      /\ \A u \in Tasks \ {t} : task'[u] = f[u]
      /\ scored' = scored
  BY <1>0, CloseTypes
<1>2. /\ \A u \in Rows \ {cur} : rt'[u] = rt[u]
      /\ rt'[cur].content = rt[cur].content /\ rt'[cur].state = "closing"
  BY SetStateEffect DEF DoClose, Phases, TypeInv
<1>3. task'[t].pc = "close" /\ task'[t].row = cur
  BY <1>1, AtTypes
<1>4. \A u \in Tasks \ {t} : \/ task'[u] = task[u] /\ task[u].pc \notin Busy
                             \/ task'[u].pc = "idle" /\ u \in Timers
  BY <1>1, IdleType DEF Alone
<1>5. Forward
  <2>1. \A o \in Ops : task[o].pc = "create" => task'[o].pc = "create"
    BY <1>4, EngineAssumption DEF Tasks
  <2> QED  BY <1>2, <2>1 DEF Forward, Begun
<1>6. \A u \in Tasks \ {t} : TaskInv(u)'
  BY <1>4, <1>5, TaskStays DEF Busy
<1>7. TaskInv(t)'
  BY <1>2, <1>3 DEF TaskInv, Early, Late, Base, CurInv
<1>8. HandleInv'
  BY <1>3, <1>4, EngineAssumption
     DEF Handles, HandleInv, Busy, Working, Early, Late, Tasks
<1>9. Onward
  <2>1. \A u \in Tasks : task'[u].pc = "revealed" => task'[u] = task[u]
    BY <1>3, <1>4 DEF Busy, Working, Late
  <2> QED  BY <1>2, <2>1 DEF Onward, Moves
<1> QED  BY <1>5, <1>6, <1>7, <1>8, <1>9, ForwardCur DEF Base

\* Revealing it.
LEMMA DoRevealKeeps ==
  ASSUME OneOperator, TypeInv, Base,
         NEW f \in [Tasks -> TaskRecord], NEW t \in Tasks, NEW kind \in Kinds,
         cur \in Rows, rt[cur].state = "closing", task[t].pc # "create",
         DoReveal(f, t, cur, kind), Alone(f, t), Handles(t),
         UNCHANGED <<index, cur, made, known, jumped, failed>>
  PROVE  Base' /\ Onward /\ Forward
<1>0. Typed /\ task \in [Tasks -> TaskRecord]
  BY SameTypes DEF TypeInv, Typed
<1>1. /\ task'[t].row = cur
      /\ \A u \in Tasks \ {t} : task'[u] = f[u]
      /\ scored' = scored
  BY <1>0, RevealTypes
<1>2. /\ \A u \in Rows \ {cur} : rt'[u] = rt[u]
      /\ rt'[cur].content = rt[cur].content
      /\ \/ rt'[cur].state = "revealed" /\ task'[t].pc = "revealed"
         \/ rt'[cur].state = "closing" /\ task'[t].pc = "upgrade"
  <2>1. /\ \A u \in Rows \ {cur} : rt'[u] = rt[u]
        /\ rt'[cur].content = rt[cur].content
        /\ \/ rt'[cur].state = "revealed" /\ task' = Put(f, t, At("revealed", cur, kind))
           \/ rt'[cur].state = rt[cur].state /\ task' = Put(f, t, At("upgrade", cur, kind))
    BY RevealEffect DEF TypeInv
  <2>2. \A x : Put(f, t, x)[t] = x
    BY DEF Put
  <2>3. At("revealed", cur, kind).pc = "revealed" /\ At("upgrade", cur, kind).pc = "upgrade"
    BY AtTypes
  <2> QED  BY <2>1, <2>2, <2>3
<1>4. \A u \in Tasks \ {t} : \/ task'[u] = task[u] /\ task[u].pc \notin Busy
                             \/ task'[u].pc = "idle" /\ u \in Timers
  BY <1>1, IdleType DEF Alone
<1>5. Forward
  <2>1. \A o \in Ops : task[o].pc = "create" => task'[o].pc = "create"
    BY <1>4, EngineAssumption DEF Tasks
  <2> QED  BY <1>2, <2>1 DEF Forward, Begun
<1>6. \A u \in Tasks \ {t} : TaskInv(u)'
  BY <1>4, <1>5, TaskStays DEF Busy
<1>7. TaskInv(t)'
  BY <1>1, <1>2 DEF TaskInv, Early, Late, Base, CurInv
<1>8. HandleInv'
  BY <1>1, <1>2, <1>4, EngineAssumption
     DEF Handles, HandleInv, Busy, Working, Early, Late, Tasks
<1>9. Onward
  <2>1. \A u \in Tasks : task'[u].pc = "revealed" => task'[u] = task[u] \/ task'[u].row = cur
    BY <1>1, <1>4
  <2> QED  BY <1>2, <2>1 DEF Onward, Moves
<1> QED  BY <1>5, <1>6, <1>7, <1>8, <1>9, ForwardCur DEF Base

\* What follows a close that is stored.
LEMMA AfterCloseKeeps ==
  ASSUME OneOperator, TypeInv, Base, NEW t \in Tasks, task[t].pc \in {"close", "answers"},
         AfterClose(t, task[t].row),
         UNCHANGED <<index, cur, made, known, jumped, failed>>
  PROVE  Base' /\ Onward /\ Forward
<1>0. Typed /\ task \in [Tasks -> TaskRecord]
  BY SameTypes DEF TypeInv, Typed
<1>1. task[t].row = cur /\ cur \in Rows /\ rt[cur].state = "closing" /\ task[t].pc \in Working
  BY DEF Base, TaskInv, Working, Early
<1>2. Alone(task, t) /\ ((t \in Ops /\ handle = 0) \/ (t \in Timers /\ t = handle))
  BY <1>1, WorkerAlone
<1>3. CASE task[t].kind = "reveal"
  <2>1. DoReveal(task, t, cur, "reveal") /\ handle' = handle
    BY <1>1, <1>3 DEF AfterClose
  <2> QED  BY <1>0, <1>1, <1>2, <2>1, DoRevealKeeps DEF Handles, Kinds
<1>4. CASE task[t].kind # "reveal"
  <2> DEFINE f == Put(task, t, Idle)
  <2>1. NewTimer(f, cur, "grace") /\ rt' = rt /\ scored' = scored
    BY <1>1, <1>4 DEF AfterClose
  <2>2. f \in [Tasks -> TaskRecord] /\ f[t] = Idle /\ \A u \in Tasks \ {t} : f[u] = task[u]
    BY <1>0, PutType, IdleType
  <2> HIDE DEF f
  <2>3. /\ handle' \in Timers /\ f[handle'] = Idle
        /\ task' = Put(f, handle', At("sleep", cur, "grace"))
    BY <2>1, <2>2, <1>1, NewTimerType DEF Kinds, TypeInv
  <2>4. \A u \in Tasks : task'[u] = IF u = handle' THEN At("sleep", cur, "grace") ELSE f[u]
    BY <2>3 DEF Put
  <2>5. \A u \in Tasks : \/ u = handle' /\ task'[u] = At("sleep", cur, "grace")
                         \/ task'[u] = task[u] /\ task[u].pc \notin Busy
                         \/ task'[u].pc = "idle" /\ task[u].pc # "create"
    BY <2>2, <2>4, <1>2, IdleType DEF Alone
  <2>6. Forward
    <3>1. \A o \in Ops : o # handle'
      BY <2>3, EngineAssumption
    <3>2. \A o \in Ops : task[o].pc = "create" => task'[o].pc = "create"
      BY <3>1, <2>5 DEF Tasks
    <3> QED  BY <2>1, <1>1, <3>2 DEF Forward, Begun
  <2>7. \A u \in Tasks : TaskInv(u)'
    <3>1. PICK h \in Timers : h = handle'
      BY <2>3
    <3>2. TaskInv(h)'
      BY <3>1, <2>3, <2>4, <1>1, AtTypes DEF TaskInv, Early, Late, Tasks, Base, CurInv
    <3>3. ASSUME NEW u \in Tasks, u # h PROVE TaskInv(u)'
      <4>1. CASE task'[u].pc = "idle"
        BY <4>1 DEF TaskInv, Early, Late
      <4>2. CASE task'[u] = task[u] /\ task[u].pc \notin Working
        BY <4>2, <2>1, <2>6, TaskStays
      <4> QED  BY <4>1, <4>2, <3>1, <3>3, <2>5 DEF Busy
    <3> QED  BY <3>2, <3>3
  <2>8. HandleInv'
    <3>1. At("sleep", cur, "grace").pc = "sleep"
      BY AtTypes
    <3>2. \A o \in Ops : task[o].pc # "create"
      <4>1. InProgress
        BY <1>1, EngineAssumption DEF InProgress, Rows
      <4> QED  BY <4>1 DEF Base, TaskInv, Tasks
    <3>3. \A o \in Ops : task'[o].pc \notin Busy \cup {"create"}
      BY <3>2, <2>3, <2>5, EngineAssumption DEF Tasks, Busy, Working, Early, Late
    <3>4. \A u \in Timers : task'[u].pc \in Working \cup {"sleep"} => u = handle'
      BY <2>5 DEF Tasks, Busy, Working, Early, Late
    <3> QED  BY <3>3, <3>4 DEF HandleInv, Busy
  <2>9. Onward
    <3>1. At("sleep", cur, "grace").pc = "sleep"
      BY AtTypes
    <3> QED  BY <3>1, <2>1, <2>5 DEF Onward
  <2> QED  BY <2>6, <2>7, <2>8, <2>9, ForwardCur DEF Base
<1> QED  BY <1>3, <1>4

\* Asking for a round.
Asks(o, i) ==
  /\ StartRound(o, i)
  /\ \/ jumped' = jumped /\ i = index + 1
     \/ Jumps /\ jumped' = jumped \cup {made + 1}

LEMMA StartEffect ==
  ASSUME TypeInv, Base, NEW o \in Ops, NEW i \in 1 .. NumRounds, StartRound(o, i)
  PROVE  /\ made + 1 \in Rows /\ made' = made + 1 /\ index' = i
         /\ UNCHANGED <<cur, handle, known, scored, failed>>
         /\ \A s \in Rows \ {made + 1} : rt'[s] = rt[s]
         /\ rt[made + 1].state = "none"
         /\ rt'[made + 1].content = i /\ rt'[made + 1].state = "pending"
         /\ rt'[made + 1].ans = rt[made + 1].ans
         /\ cur # 0 => cur \in Rows /\ cur # made + 1 /\ rt[cur].state = "done" /\ rt'[cur] = rt[cur]
         /\ task[o].pc = "idle" /\ task'[o].pc = "create" /\ task'[o].row = made + 1
         /\ \A u \in Tasks \ {o} : task'[u] = task[u]
<1>0. Typed /\ task \in [Tasks -> TaskRecord] /\ o \in Tasks
  BY SameTypes DEF TypeInv, Typed, Tasks
<1> DEFINE r == made + 1
<1>1. /\ r \in Rows /\ made' = r /\ index' = i /\ task[o].pc = "idle"
      /\ task' = [task EXCEPT ![o] = At("create", r, "start")]
      /\ UNCHANGED <<cur, handle, known, scored, failed>>
  BY <1>0, IdleType, EngineAssumption DEF StartRound, Typed, Rows
<1>2. /\ \A s \in Rows \ {r} : rt'[s] = rt[s]
      /\ rt'[r].content = i /\ rt'[r].state = "pending" /\ rt'[r].ans = rt[r].ans
  BY <1>0, <1>1 DEF StartRound, Typed, Runtime
<1>3. rt[r].state = "none"
  BY <1>0, <1>1 DEF Base, CurInv, Typed, Rows
<1>4. cur # 0 => cur \in Rows /\ cur # r /\ rt[cur].state = "done" /\ rt'[cur] = rt[cur]
  <2>1. cur # 0 => cur \in Rows /\ cur # r
    BY <1>0, <1>1 DEF Base, CurInv, Typed, Rows
  <2> QED  BY <2>1, <1>2 DEF StartRound, InProgress
<1>5. /\ task'[o].pc = "create" /\ task'[o].row = r
      /\ \A u \in Tasks \ {o} : task'[u] = task[u]
  BY <1>0, <1>1, AtTypes
<1> QED  BY <1>1, <1>2, <1>3, <1>4, <1>5

LEMMA StartKeeps ==
  ASSUME OneOperator, TypeInv, Base, NEW o \in Ops, NEW i \in 1 .. NumRounds, StartRound(o, i)
  PROVE  Base' /\ Onward
<1>0. Typed /\ task \in [Tasks -> TaskRecord] /\ o \in Tasks
  BY SameTypes DEF TypeInv, Typed, Tasks
<1> DEFINE r == made + 1
<1>1. /\ r \in Rows /\ made' = r
      /\ UNCHANGED <<cur, handle, known, scored, failed>>
  BY StartEffect
<1>2. /\ \A s \in Rows \ {r} : rt'[s] = rt[s]
      /\ rt[r].state = "none" /\ rt'[r].state = "pending"
  BY StartEffect
<1>3. cur # 0 => cur \in Rows /\ cur # r /\ rt[cur].state = "done" /\ rt'[cur] = rt[cur]
  BY StartEffect
<1>4. /\ task'[o].pc = "create" /\ task'[o].row = r
      /\ \A u \in Tasks \ {o} : task'[u] = task[u]
  BY StartEffect
<1>r. made \in Nat /\ r = made + 1
  BY <1>0, EngineAssumption DEF Typed
<1> HIDE DEF r
<1>5. \A u \in Tasks : task[u].pc \notin Working
  BY <1>3 DEF Base, TaskInv, Working, Early, Late, Rows
<1>6. \A u \in Tasks \ {o} : u \in Timers /\ task[u].pc \notin {"create", "open"}
  BY EngineAssumption DEF OneOperator, Tasks, Base, TaskInv
<1>7. \A u \in Tasks : TaskInv(u)'
  <2>1. TaskInv(o)'
    <3>1. ~ InProgress'
      BY <1>1, <1>3 DEF InProgress
    <3> QED  BY <1>1, <1>2, <1>4, <1>r, <3>1 DEF TaskInv, Early, Late
  <2>2. ASSUME NEW u \in Tasks \ {o} PROVE TaskInv(u)'
    <3>1. /\ task'[u] = task[u] /\ u \in Timers
          /\ task[u].pc \notin Working \cup {"create", "open"}
      BY <1>4, <1>5, <1>6
    <3>2. task[u].pc # "idle" => task[u].row <= made' /\ task[u].row # r
      <4>1. task[u].row \in 0 .. MaxRows
        BY <1>0 DEF TaskRecord
      <4>2. task[u].pc # "idle" => task[u].row <= made
        BY DEF Base, TaskInv
      <4> QED  BY <4>1, <4>2, <1>1, <1>r
    <3>3. task[u].pc = "done" => task[u].row \in Rows /\ rt[task[u].row].state = "done"
      BY DEF Base, TaskInv
    <3> QED  BY <1>2, <3>1, <3>2, <3>3 DEF TaskInv, Working, Early, Late
  <2> QED  BY <2>1, <2>2
<1>8. HandleInv'
  <2>1. \A u \in Tasks : task'[u].pc \notin Working
    BY <1>4, <1>5 DEF Working, Early, Late
  <2>2. \A u \in Timers : task'[u].pc = "sleep" => u = handle' /\ task'[u].row # r
    <3> SUFFICES ASSUME NEW u \in Timers, task'[u].pc = "sleep"
                 PROVE  u = handle' /\ task'[u].row # r
      OBVIOUS
    <3>1. u \in Tasks /\ u # o
      BY EngineAssumption DEF Tasks
    <3>2. task[u].pc = "sleep" /\ task[u] = task'[u]
      BY <3>1, <1>4
    <3>3. task[u].row <= made /\ task[u].row \in 0 .. MaxRows /\ u = handle
      BY <3>1, <3>2, <1>0 DEF Base, TaskInv, TaskRecord, HandleInv
    <3> QED  BY <3>2, <3>3, <1>1, <1>r
  <2>3. \A u \in Ops : u = o
    BY DEF OneOperator
  <2> QED  BY <1>4, <2>1, <2>2, <2>3 DEF HandleInv, Tasks
<1>9. CurInv'
  <2>1. cur' <= made' /\ (cur' # 0 => rt'[cur'].state \in Begun)
    BY <1>0, <1>1, <1>3, <1>r DEF Base, CurInv, Typed
  <2>2. \A s \in Rows : s > made' => rt'[s].state = "none"
    BY <1>0, <1>1, <1>2, <1>r, EngineAssumption DEF Base, CurInv, Rows
  <2> QED  BY <2>1, <2>2 DEF CurInv
<1>10. Onward
  <2>1. \A s \in Rows : \/ rt'[s].state = rt[s].state
                        \/ <<rt[s].state, rt'[s].state>> \in Moves
    BY <1>2 DEF Moves
  <2>2. \A s \in Rows : rt[s].state \in {"revealed", "done"} => rt'[s].ans = rt[s].ans
    BY <1>2
  <2>3. \A u \in Tasks : task'[u].pc = "revealed" => task[u] = task'[u]
    BY <1>4
  <2> QED  BY <2>1, <2>2, <2>3 DEF Onward
<1> QED  BY <1>7, <1>8, <1>9, <1>10 DEF Base

\* The round asked for follows the last one, which is over.
LEMMA StartOrder ==
  ASSUME OneOperator, TypeInv, Base, OrderInv, NEW o \in Ops, NEW i \in 1 .. NumRounds, Asks(o, i)
  PROVE  OrderInv'
<1>0. Typed /\ StartRound(o, i) /\ o \in Tasks
  BY SameTypes DEF TypeInv, Asks, Tasks
<1> DEFINE r == made + 1
<1>1. /\ r \in Rows /\ made' = r /\ index' = i
      /\ UNCHANGED <<cur, failed>> /\ task[o].pc = "idle" /\ task'[o].pc = "create"
  BY <1>0, StartEffect
<1>2. /\ \A s \in Rows \ {r} : rt'[s] = rt[s]
      /\ rt'[r].content = i
  BY <1>0, StartEffect
<1>3. cur # 0 => cur \in Rows /\ rt[cur].state = "done"
  BY <1>0, StartEffect
<1>4. \/ jumped' = jumped /\ i = index + 1
      \/ jumped' = jumped \cup {r}
  BY DEF Asks
<1>r. made \in Nat /\ r = made + 1 /\ index \in Nat
  BY <1>0, EngineAssumption DEF Typed
<1> HIDE DEF r
<1>5. index' = IF made' = 0 THEN 0 ELSE rt'[made'].content
  BY <1>1, <1>2, <1>r
<1>6. made # 0 => made \in Rows /\ (rt[made].state = "done" \/ made \in failed)
  <2>1. made # 0 => made = cur \/ made \in failed
    BY <1>1 DEF OrderInv, OneOperator
  <2> QED  BY <2>1, <1>0, <1>3 DEF Typed, Rows
<1>7. InOrder'
  <2> SUFFICES ASSUME NEW s \in Rows, rt'[s].state # "none"
               PROVE  /\ s > 1 => rt'[s - 1].state = "done" \/ s - 1 \in failed'
                      /\ s \notin jumped' =>
                           rt'[s].content = 1 + (IF s = 1 THEN 0 ELSE rt'[s - 1].content)
    BY DEF InOrder
  <2>0. s \in Nat /\ s >= 1
    BY DEF Rows
  <2>1. CASE s = r
    <3>1. s > 1 => made = s - 1 /\ made # 0 /\ made \in Rows /\ rt'[made] = rt[made]
      BY <2>0, <2>1, <1>2, <1>6, <1>r
    <3>2. s = 1 <=> made = 0
      BY <2>1, <1>r
    <3>3. s \notin jumped' => i = index + 1
      BY <2>1, <1>4
    <3>4. index = IF made = 0 THEN 0 ELSE rt[made].content
      BY DEF OrderInv
    <3>5. s > 1 => rt'[s - 1].state = "done" \/ s - 1 \in failed'
      BY <1>1, <1>6, <3>1
    <3>6. ASSUME s \notin jumped'
          PROVE  rt'[s].content = 1 + (IF s = 1 THEN 0 ELSE rt'[s - 1].content)
      <4>1. rt'[s].content = 1 + index
        BY <1>2, <1>r, <2>1, <3>3, <3>6
      <4>2. s # 1 => rt'[s - 1].content = index
        BY <2>0, <3>1, <3>2, <3>4
      <4>3. s = 1 => index = 0
        BY <3>2, <3>4
      <4> QED  BY <4>1, <4>2, <4>3
    <3> QED  BY <3>5, <3>6
  <2>2. CASE s # r
    <3>1. rt'[s] = rt[s] /\ s <= made
      BY <2>2, <2>0, <1>2, <1>r DEF Base, CurInv
    <3>2. s > 1 => s - 1 \in Rows /\ rt'[s - 1] = rt[s - 1]
      <4>1. s > 1 => s - 1 \in Rows /\ s - 1 # r
        BY <3>1, <2>0, <1>r, EngineAssumption DEF Rows
      <4> QED  BY <4>1, <1>2
    <3>3. /\ s > 1 => rt[s - 1].state = "done" \/ s - 1 \in failed
          /\ s \notin jumped => rt[s].content = 1 + (IF s = 1 THEN 0 ELSE rt[s - 1].content)
      BY <3>1 DEF OrderInv, InOrder
    <3>4. s \notin jumped' => s \notin jumped
      BY <1>4
    <3>5. s # 1 => s > 1
      BY <2>0
    <3> QED  BY <1>1, <3>1, <3>2, <3>3, <3>4, <3>5
  <2> QED  BY <2>1, <2>2
<1> QED  BY <1>1, <1>5, <1>7 DEF OrderInv

\* The row exists: the round becomes the current one.
LEMMA CreatedEffect ==
  ASSUME OneOperator, TypeInv, Base, NEW o \in Tasks, RowCreated(o)
  PROVE  /\ task[o].pc = "create" /\ task[o].row = made /\ made \in Rows /\ o \in Ops
         /\ rt[made].state = "pending" /\ ~ InProgress
         /\ \A s \in Rows \ {made} : rt'[s] = rt[s]
         /\ rt'[made].content = rt[made].content /\ rt'[made].state = "active"
         /\ rt'[made].ans = rt[made].ans
         /\ cur' = made /\ UNCHANGED <<index, made, handle, known, jumped, scored, failed>>
         /\ task'[o].pc = "open" /\ task'[o].row = made
         /\ \A u \in Tasks \ {o} : task'[u] = task[u] /\ u \in Timers
<1>0. Typed /\ task \in [Tasks -> TaskRecord] /\ rt \in [Rows -> Runtime]
  BY SameTypes DEF TypeInv, Typed
<1>1. /\ task[o].pc = "create" /\ task[o].row = made /\ made \in Rows /\ o \in Ops
      /\ rt[made].state = "pending" /\ ~ InProgress
  BY DEF RowCreated, Base, TaskInv
<1>2. /\ \A s \in Rows \ {made} : rt'[s] = rt[s]
      /\ rt'[made].content = rt[made].content /\ rt'[made].state = "active"
      /\ rt'[made].ans = rt[made].ans
      /\ cur' = made /\ UNCHANGED <<index, made, handle, known, jumped, scored, failed>>
  BY <1>0, <1>1 DEF RowCreated, Runtime
<1>3. /\ task'[o].pc = "open" /\ task'[o].row = made
      /\ \A u \in Tasks \ {o} : task'[u] = task[u] /\ u \in Timers
  BY <1>0, <1>1 DEF RowCreated, OneOperator, Tasks, TaskRecord
<1> QED  BY <1>1, <1>2, <1>3

LEMMA RowCreatedKeeps ==
  ASSUME OneOperator, TypeInv, Base, NEW o \in Tasks, RowCreated(o)
  PROVE  Base' /\ Onward
<1>0. Typed /\ task \in [Tasks -> TaskRecord]
  BY SameTypes DEF TypeInv, Typed
<1>1. /\ task[o].pc = "create" /\ task[o].row = made /\ made \in Rows /\ o \in Ops
      /\ rt[made].state = "pending" /\ ~ InProgress
  BY CreatedEffect
<1>2. /\ \A s \in Rows \ {made} : rt'[s] = rt[s]
      /\ rt'[made].state = "active" /\ rt'[made].ans = rt[made].ans
      /\ cur' = made /\ UNCHANGED <<index, made, handle, known, jumped, scored, failed>>
  BY CreatedEffect
<1>3. /\ task'[o].pc = "open" /\ task'[o].row = made
      /\ \A u \in Tasks \ {o} : task'[u] = task[u] /\ u \in Timers
  BY CreatedEffect
<1>4. \A u \in Tasks : task[u].pc \notin Working
  BY <1>1, EngineAssumption DEF Base, TaskInv, Working, Early, Late, InProgress, Rows
<1>5. \A u \in Tasks : TaskInv(u)'
  <2>1. TaskInv(o)'
    BY <1>0, <1>1, <1>2, <1>3, EngineAssumption DEF TaskInv, Early, Late, Typed
  <2>2. ASSUME NEW u \in Tasks \ {o} PROVE TaskInv(u)'
    <3>1. task[u].pc \notin {"create", "open"}
      BY <1>3, EngineAssumption DEF Base, TaskInv
    <3>2. task[u].pc = "done" => /\ task[u].row \in Rows /\ rt[task[u].row].state = "done"
                                 /\ task[u].row # made
      BY <1>1 DEF Base, TaskInv
    <3>3. task[u].pc # "idle" => task[u].row <= made
      BY DEF Base, TaskInv
    <3> QED  BY <1>2, <1>3, <1>4, <3>1, <3>2, <3>3 DEF TaskInv, Working, Early, Late
  <2> QED  BY <2>1, <2>2
<1>6. HandleInv'
  <2>1. \A u \in Tasks : task'[u].pc \notin Working
    BY <1>3, <1>4 DEF Working, Early, Late
  <2>2. \A u \in Timers : task'[u].pc = "sleep" => u = handle' /\ task'[u].row # made
    <3> SUFFICES ASSUME NEW u \in Timers, task'[u].pc = "sleep"
                 PROVE  u = handle' /\ task'[u].row # made
      OBVIOUS
    <3>1. u \in Tasks /\ u # o
      BY <1>1, EngineAssumption DEF Tasks
    <3> QED  BY <3>1, <1>1, <1>2, <1>3 DEF Base, HandleInv
  <2>3. \A u \in Ops : u = o
    BY <1>1 DEF OneOperator
  <2> QED  BY <1>3, <2>1, <2>2, <2>3 DEF HandleInv, Tasks
<1>7. CurInv'
  <2>1. cur' <= made' /\ rt'[cur'].state \in Begun
    BY <1>0, <1>2, EngineAssumption DEF Typed, Begun
  <2>2. \A s \in Rows : s > made' => rt'[s].state = "none"
    BY <1>1, <1>2, EngineAssumption DEF Base, CurInv, Rows
  <2> QED  BY <2>1, <2>2 DEF CurInv
<1>8. Onward
  <2>1. \A s \in Rows : \/ rt'[s].state = rt[s].state
                        \/ <<rt[s].state, rt'[s].state>> \in Moves
    BY <1>1, <1>2 DEF Moves
  <2>2. \A s \in Rows : rt'[s].ans = rt[s].ans
    BY <1>2
  <2>3. \A u \in Tasks : task'[u].pc = "revealed" => task[u] = task'[u]
    BY <1>3
  <2> QED  BY <2>1, <2>2, <2>3 DEF Onward
<1> QED  BY <1>5, <1>6, <1>7, <1>8 DEF Base

LEMMA CreatedOrder ==
  ASSUME OneOperator, TypeInv, Base, OrderInv, NEW o \in Tasks, RowCreated(o)
  PROVE  OrderInv'
<1>1. /\ made \in Rows /\ rt[made].state = "pending" /\ rt'[made].state = "active"
      /\ \A s \in Rows \ {made} : rt'[s] = rt[s]
      /\ rt'[made].content = rt[made].content
      /\ cur' = made /\ UNCHANGED <<index, made, jumped, failed>>
  BY CreatedEffect
<1>2. index' = (IF made' = 0 THEN 0 ELSE rt'[made'].content) /\ made' = cur'
  BY <1>1 DEF OrderInv
<1>3. InOrder'
  <2> SUFFICES ASSUME NEW s \in Rows, rt'[s].state # "none"
               PROVE  /\ s > 1 => rt'[s - 1].state = "done" \/ s - 1 \in failed'
                      /\ s \notin jumped' =>
                           rt'[s].content = 1 + (IF s = 1 THEN 0 ELSE rt'[s - 1].content)
    BY DEF InOrder
  <2>1. rt[s].state # "none" /\ rt'[s].content = rt[s].content
    BY <1>1
  <2>2. /\ s > 1 => rt[s - 1].state = "done" \/ s - 1 \in failed
        /\ s \notin jumped => rt[s].content = 1 + (IF s = 1 THEN 0 ELSE rt[s - 1].content)
    BY <2>1 DEF OrderInv, InOrder
  <2>3. s # 1 => s > 1 /\ s - 1 \in Rows
    BY EngineAssumption DEF Rows
  <2>4. s # 1 => rt'[s - 1].content = rt[s - 1].content
    BY <2>3, <1>1
  <2>5. s > 1 /\ rt[s - 1].state = "done" => rt'[s - 1].state = "done"
    <3>1. s > 1 /\ rt[s - 1].state = "done" => s - 1 # made /\ s - 1 \in Rows
      BY <2>3, <1>1
    <3> QED  BY <3>1, <1>1
  <2> QED  BY <1>1, <2>1, <2>2, <2>4, <2>5
<1> QED  BY <1>2, <1>3 DEF OrderInv

\* The round is open: the old timer is cancelled and a timed one gets its own.
LEMMA OpenedEffect ==
  ASSUME OneOperator, TypeInv, Base, NEW o \in Tasks, RoundOpened(o)
  PROVE  /\ task[o].pc = "open" /\ o \in Ops /\ task[o].row \in Rows /\ task[o].row <= made
         /\ UNCHANGED <<index, cur, made, rt, known, jumped, scored, failed>>
         /\ \A u \in Tasks :
              \/ u \in Timers /\ u = handle' /\ task'[u] = At("sleep", task[o].row, "active")
              \/ task'[u].pc = "idle" /\ (u = o \/ u \in Timers)
              \/ u \in Timers /\ task'[u] = task[u] /\ task[u].pc \notin Busy
<1> DEFINE r == task[o].row
           f == Put(Cancelled, o, Idle)
<1>0. Typed /\ task \in [Tasks -> TaskRecord] /\ TaskRow /\ Idle.pc = "idle"
  BY SameTypes, IdleType DEF TypeInv, Typed
<1>1. /\ task[o].pc = "open" /\ o \in Ops /\ r \in Rows /\ r <= made
      /\ UNCHANGED <<index, cur, made, rt, known, jumped, scored, failed>>
  BY <1>0 DEF RoundOpened, Base, TaskInv, TaskRow
<1>2. /\ f \in [Tasks -> TaskRecord] /\ f[o] = Idle
      /\ \A u \in Tasks \ {o} : u \in Timers /\ f[u] = IF u = handle THEN Idle ELSE task[u]
  <2>1. \A u \in Tasks \ {o} : u \in Timers
    BY <1>1 DEF OneOperator, Tasks
  <2>2. f \in [Tasks -> TaskRecord] /\ f[o] = Idle /\ \A u \in Tasks \ {o} : f[u] = Cancelled[u]
    BY <1>0, CancelledType, PutType, IdleType
  <2>3. \A u \in Tasks : Cancelled[u] = IF u = handle THEN Idle ELSE task[u]
    BY <1>0, CancelledType
  <2> HIDE DEF f
  <2> QED  BY <2>1, <2>2, <2>3
<1>3. \/ handle' = 0 /\ task' = f
      \/ /\ handle' \in Timers
         /\ task' = Put(f, handle', At("sleep", r, "active"))
  <2> HIDE DEF f
  <2>1. CASE rt[r].content \in Timed
    <3>1. NewTimer(f, r, "active")
      BY <2>1 DEF RoundOpened, f
    <3> QED  BY <3>1, <1>1, <1>2, NewTimerType DEF Kinds, TypeInv
  <2>2. CASE rt[r].content \notin Timed
    BY <2>2 DEF RoundOpened, f
  <2> QED  BY <2>1, <2>2
<1> HIDE DEF f
<1>4. \A u \in Tasks : \/ u \in Timers /\ u = handle' /\ task'[u] = At("sleep", r, "active")
                       \/ task'[u].pc = "idle" /\ (u = o \/ u \in Timers)
                       \/ u \in Timers /\ task'[u] = task[u] /\ task[u].pc \notin Busy
  <2>0. \A u \in Timers : task[u].pc # "open"
    BY EngineAssumption DEF Base, TaskInv, Tasks
  <2>1. \A u \in Tasks : f[u] = Idle \/ (f[u] = task[u] /\ task[u].pc \notin Busy)
    BY <1>2, <2>0 DEF Base, HandleInv, Busy
  <2>2. \A u \in Tasks : task'[u] = f[u] \/ (u = handle' /\ u \in Timers /\ task'[u] = At("sleep", r, "active"))
    BY <1>3 DEF Put
  <2> QED  BY <2>1, <2>2, <1>0, <1>2
<1> QED  BY <1>1, <1>4

LEMMA RoundOpenedKeeps ==
  ASSUME OneOperator, TypeInv, Base, NEW o \in Tasks, RoundOpened(o)
  PROVE  Base' /\ Onward /\ Forward
<1> DEFINE r == task[o].row
<1>1. /\ task[o].pc = "open" /\ o \in Ops /\ r \in Rows /\ r <= made
      /\ UNCHANGED <<index, cur, made, rt, known, jumped, scored, failed>>
  BY OpenedEffect
<1>4. \A u \in Tasks : \/ u \in Timers /\ u = handle' /\ task'[u] = At("sleep", r, "active")
                       \/ task'[u].pc = "idle" /\ (u = o \/ u \in Timers)
                       \/ u \in Timers /\ task'[u] = task[u] /\ task[u].pc \notin Busy
  BY OpenedEffect
<1>5. Forward
  <2>1. \A u \in Ops : task[u].pc # "create"
    BY <1>1 DEF OneOperator
  <2> QED  BY <1>1, <2>1 DEF Forward, Base, CurInv
<1>6. \A u \in Tasks : TaskInv(u)'
  <2> SUFFICES ASSUME NEW u \in Tasks PROVE TaskInv(u)'
    OBVIOUS
  <2>1. CASE task'[u].pc = "idle"
    BY <2>1 DEF TaskInv, Early, Late
  <2>2. CASE u \in Timers /\ task'[u] = At("sleep", r, "active")
    BY <1>1, <2>2, AtTypes DEF TaskInv, Early, Late
  <2>3. CASE task'[u] = task[u] /\ task[u].pc \notin Busy
    BY <2>3, <1>1, <1>5, TaskStays DEF Busy
  <2> QED  BY <1>4, <2>1, <2>2, <2>3
<1>7. HandleInv'
  <2>1. \A u \in Ops : task'[u].pc = "idle"
    BY <1>1, <1>4, EngineAssumption DEF OneOperator, Tasks
  <2>2. \A u \in Timers : task'[u].pc \in Working \cup {"sleep"} => u = handle'
    BY <1>4 DEF Tasks, Busy, Working, Early, Late
  <2> QED  BY <2>1, <2>2 DEF HandleInv, Working, Early, Late
<1>8. Onward
  <2>1. \A u \in Tasks : task'[u].pc = "revealed" => task'[u] = task[u]
    BY <1>4, AtTypes
  <2> QED  BY <1>1, <2>1 DEF Onward
<1> QED  BY <1>5, <1>6, <1>7, <1>8, ForwardCur DEF Base

\* The operator's close and reveal, and the timer that does the same.
LEMMA RequestKeeps ==
  ASSUME OneOperator, TypeInv, Base, NEW o \in Ops, Close(o) \/ Reveal(o)
  PROVE  Base' /\ Onward /\ Forward
<1>1. /\ task[o] = Idle /\ cur \in Rows /\ handle' = 0
      /\ UNCHANGED <<index, cur, made, known, jumped, failed>>
  BY SameTypes DEF Close, Reveal, TypeInv, Typed, Rows
<1>2. task[o].pc = "idle" /\ o \in Tasks
  BY <1>1, IdleType DEF Tasks
<1>3. Alone(Cancelled, o) /\ Handles(o) /\ Cancelled \in [Tasks -> TaskRecord]
  BY <1>1, <1>2, RequestAlone, CancelledType, SameTypes DEF Handles, TypeInv, Typed
<1>4. \/ rt[cur].state = "active" /\ \E kind \in Kinds : DoClose(Cancelled, o, cur, kind)
      \/ rt[cur].state = "closing" /\ \E kind \in Kinds : DoReveal(Cancelled, o, cur, kind)
  BY DEF Close, Reveal, Kinds
<1> HIDE DEF Cancelled
<1> QED  BY <1>1, <1>2, <1>3, <1>4, DoCloseKeeps, DoRevealKeeps

\* A task stops: its work is done, or no call of it is outstanding any more.
LEMMA StopKeeps ==
  ASSUME TypeInv, Base, NEW t \in Tasks, task' = [task EXCEPT ![t] = Idle],
         failed \subseteq failed', t \in Ops /\ task[t].pc = "create" => made \in failed',
         UNCHANGED <<index, cur, made, rt, handle, jumped, scored>>
  PROVE  Base' /\ Onward /\ Forward
<1>1. \A u \in Tasks : task'[u] = task[u] \/ task'[u].pc = "idle"
  BY IdleType, SameTypes DEF TypeInv, Typed
<1>2. Forward
  <2>1. \A o \in Ops : task[o].pc = "create" => task'[o].pc = "create" \/ made \in failed'
    BY SameTypes DEF TypeInv, Typed, Tasks
  <2> QED  BY <2>1 DEF Forward, Base, CurInv
<1>3. \A u \in Tasks : TaskInv(u)'
  BY <1>1, <1>2, TaskStays
<1>4. HandleInv'
  <2>1. \A u \in Tasks : task'[u].pc # "idle" => task'[u] = task[u]
    BY <1>1
  <2> QED  BY <2>1 DEF Base, HandleInv, Working, Early, Late, Tasks
<1>5. Onward
  BY <1>1 DEF Onward
<1> QED  BY <1>2, <1>3, <1>4, <1>5, ForwardCur DEF Base

LEMMA TimerKeeps ==
  ASSUME OneOperator, TypeInv, Base, NEW t \in Timers, TimerFires(t)
  PROVE  Base' /\ Onward /\ Forward
<1> DEFINE r == task[t].row
<1>0. /\ t \in Tasks /\ task[t].pc = "sleep" /\ r \in Rows /\ task \in [Tasks -> TaskRecord]
      /\ UNCHANGED <<index, cur, made, handle, known, jumped, failed>>
  BY SameTypes DEF TimerFires, TypeInv, Typed, TaskRow, Tasks
<1>1. cur = r => Alone(task, t) /\ Handles(t)
  BY <1>0, WorkerAlone, EngineAssumption DEF Handles
<1>2. CASE cur = r /\ rt[r].state = "active" /\ DoClose(task, t, r, "active")
  BY <1>0, <1>1, <1>2, DoCloseKeeps DEF Kinds
<1>3. CASE cur = r /\ rt[r].state = "closing" /\ DoReveal(task, t, r, "grace")
  BY <1>0, <1>1, <1>3, DoRevealKeeps DEF Kinds
<1>4. CASE task' = [task EXCEPT ![t] = Idle] /\ UNCHANGED <<rt, scored>>
  BY <1>0, <1>4, StopKeeps, EngineAssumption
<1> QED  BY <1>2, <1>3, <1>4 DEF TimerFires

\* A worker that goes on to its next wait with the round in state s.
LEMMA WorkerKeeps ==
  ASSUME OneOperator, TypeInv, Base, NEW t \in Tasks, task[t].pc \in Working,
         NEW pc \in Pcs, task' = [task EXCEPT ![t].pc = pc],
         UNCHANGED <<index, cur, made, handle, jumped, failed>>,
         \A s \in Rows \ {cur} : rt'[s] = rt[s], rt'[cur].content = rt[cur].content,
         <<rt[cur].state, pc, rt'[cur].state>> \in
           {<<"closing", "answers", "closing">>, <<"closing", "revealed", "revealed">>,
            <<"revealed", "scores", "revealed">>, <<"revealed", "done", "done">>},
         rt[cur].state = "revealed" => rt'[cur].ans = rt[cur].ans
  PROVE  Base' /\ Onward /\ Forward
<1>1. task \in [Tasks -> TaskRecord]
  BY SameTypes DEF TypeInv, Typed
<1>2. task[t].row = cur /\ cur \in Rows /\ cur <= made
  BY DEF Base, TaskInv, Working, CurInv
<1>3. /\ task'[t].pc = pc /\ task'[t].row = cur
      /\ \A u \in Tasks \ {t} : task'[u] = task[u]
  BY <1>1, <1>2 DEF TaskRecord
<1>4. \A u \in Tasks \ {t} : task[u].pc \notin Busy \ {"sleep"}
  <2>1. \A u \in Tasks \ {t} : task[u].pc \notin Working
    BY OneWorks DEF Base
  <2>2. \A u \in Tasks : task[u].pc # "open"
    BY DEF Base, TaskInv, Working
  <2> QED  BY <2>1, <2>2 DEF Busy
<1>5. Forward
  <2>1. \A o \in Ops : task[o].pc = "create" => task'[o].pc = "create"
    BY <1>3 DEF Tasks, Working, Early, Late
  <2> QED  BY <1>2, <2>1 DEF Forward, Begun
<1>6. \A u \in Tasks : TaskInv(u)'
  <2>1. TaskInv(t)'
    BY <1>2, <1>3 DEF TaskInv, Early, Late
  <2>2. \A u \in Tasks \ {t} : task[u].pc \notin Working \cup {"open"}
    BY <1>4 DEF Busy, Working, Early, Late
  <2> QED  BY <2>1, <2>2, <1>3, <1>5, TaskStays
<1>7. HandleInv'
  <2>1. pc \notin {"create", "open", "sleep"}
    OBVIOUS
  <2>2. \A u \in Tasks : task'[u].pc \in Working => task[u].pc \in Working
    BY <1>3
  <2>3. \A u \in Tasks : task'[u].pc \in {"create", "open", "sleep"} => task'[u] = task[u]
    BY <1>3, <2>1
  <2> QED  BY <2>2, <2>3 DEF Base, HandleInv, Tasks
<1>8. Onward
  <2>1. \A u \in Tasks \ {t} : task'[u].pc = "revealed" => task'[u] = task[u]
    BY <1>3
  <2>2. task'[t].pc = "revealed" => rt[cur].state = "closing"
    BY <1>3
  <2>3. \A s \in Rows \ {cur} : rt'[s] = rt[s]
    OBVIOUS
  <2>4. rt'[cur].state = rt[cur].state \/ <<rt[cur].state, rt'[cur].state>> \in Moves
    BY DEF Moves
  <2>5. rt[cur].state \in {"revealed", "done"} => rt'[cur].ans = rt[cur].ans
    OBVIOUS
  <2> QED  BY <1>3, <2>1, <2>2, <2>3, <2>4, <2>5 DEF Onward
<1> QED  BY <1>5, <1>6, <1>7, <1>8, ForwardCur DEF Base

\* The places are known: the answers are captured, or the close is over.
LEMMA CloseStoredKeeps ==
  ASSUME OneOperator, TypeInv, Base, NEW t \in Tasks, CloseStored(t)
  PROVE  Base' /\ Onward /\ Forward
<1>1. /\ task[t].pc = "close" /\ task[t].row = cur /\ cur \in Rows /\ rt[cur].state = "closing"
      /\ UNCHANGED <<index, cur, made, known, jumped, failed>>
  BY DEF CloseStored, Base, TaskInv, Early
<1>2. CASE AfterClose(t, task[t].row)
  BY <1>1, <1>2, AfterCloseKeeps
<1>3. CASE /\ \E in \in SUBSET known : \E z \in [in -> Zones] :
                rt' = [rt EXCEPT ![cur].ans = [p \in Players |->
                  IF p \in in THEN [how |-> "answered", zone |-> z[p]]
                  ELSE IF p \in known THEN Absent ELSE @[p]]]
           /\ task' = [task EXCEPT ![t].pc = "answers"]
           /\ UNCHANGED <<handle, scored>>
  <2>1. /\ \A s \in Rows \ {cur} : rt'[s] = rt[s]
        /\ rt'[cur].content = rt[cur].content /\ rt'[cur].state = rt[cur].state
    BY <1>1, <1>3, CaptureEffect DEF TypeInv
  <2> QED  BY <1>1, <1>3, <2>1, WorkerKeeps DEF Working, Early, Pcs
<1> QED  BY <1>1, <1>2, <1>3 DEF CloseStored

LEMMA UpgradesStoredKeeps ==
  ASSUME OneOperator, TypeInv, Base, NEW t \in Tasks, UpgradesStored(t)
  PROVE  Base' /\ Onward /\ Forward
<1>1. /\ task[t].pc = "upgrade" /\ task[t].row = cur /\ cur \in Rows /\ rt[cur].state = "closing"
      /\ task' = [task EXCEPT ![t].pc = "revealed"] /\ SetState(cur, "revealed")
      /\ UNCHANGED <<index, cur, made, handle, known, jumped, scored, failed>>
  BY DEF UpgradesStored, Base, TaskInv, Early
<1>2. /\ \A s \in Rows \ {cur} : rt'[s] = rt[s]
      /\ rt'[cur].content = rt[cur].content /\ rt'[cur].state = "revealed"
  BY <1>1, SetStateEffect DEF TypeInv, Phases
<1> QED  BY <1>1, <1>2, WorkerKeeps DEF Working, Early, Pcs

LEMMA RevealStoredKeeps ==
  ASSUME OneOperator, TypeInv, Base, NEW t \in Tasks, RevealStored(t)
  PROVE  Base' /\ Onward /\ Forward
<1>1. /\ task[t].pc = "revealed" /\ task[t].row = cur /\ cur \in Rows /\ rt[cur].state = "revealed"
      /\ task' = [task EXCEPT ![t].pc = "scores"]
      /\ UNCHANGED <<index, cur, made, rt, handle, known, jumped, failed>>
  BY DEF RevealStored, Base, TaskInv, Late
<1> QED  BY <1>1, WorkerKeeps DEF Working, Late, Pcs

LEMMA ScoresStoredKeeps ==
  ASSUME OneOperator, TypeInv, Base, NEW t \in Tasks, ScoresStored(t)
  PROVE  Base' /\ Onward /\ Forward
<1>1. /\ task[t].pc = "scores" /\ task[t].row = cur /\ cur \in Rows /\ rt[cur].state = "revealed"
      /\ task' = [task EXCEPT ![t].pc = "done"] /\ SetState(cur, "done")
      /\ UNCHANGED <<index, cur, made, handle, known, jumped, scored, failed>>
  BY DEF ScoresStored, Base, TaskInv, Late
<1>2. /\ \A s \in Rows \ {cur} : rt'[s] = rt[s]
      /\ rt'[cur].content = rt[cur].content /\ rt'[cur].state = "done"
      /\ rt'[cur].ans = rt[cur].ans
  BY <1>1, SetStateEffect DEF TypeInv, Phases
<1> QED  BY <1>1, <1>2, WorkerKeeps DEF Working, Late, Pcs

\* Every step keeps the base; those that ask for a round or make it the current one
\* are set apart.
LEMMA BaseStep ==
  ASSUME OneOperator, TypeInv, Base, [Next]_vars
  PROVE  /\ Base' /\ Onward
         /\ \/ Forward
            \/ \E o \in Ops, i \in 1 .. NumRounds : Asks(o, i)
            \/ \E o \in Tasks : RowCreated(o)
<1>1. ASSUME NEW o \in Ops, NEW i \in 1 .. NumRounds, Asks(o, i) PROVE Base' /\ Onward
  BY <1>1, StartKeeps DEF Asks
<1>2. ASSUME NEW o \in Ops, Requests(o)
      PROVE  Close(o) \/ Reveal(o) \/ \E i \in 1 .. NumRounds : Asks(o, i)
  <2>1. CASE StartNext(o)
    <3>1. index + 1 \in 1 .. NumRounds
      BY <2>1, SameTypes, EngineAssumption DEF StartNext, TypeInv, Typed
    <3> QED  BY <2>1, <3>1 DEF StartNext, Asks
  <2>2. CASE \E i \in 1 .. NumRounds : StartAt(o, i)
    BY <2>2 DEF StartAt, Asks
  <2> QED  BY <1>2, <2>1, <2>2 DEF Requests
<1>3. ASSUME NEW t \in Tasks, Proceeds(t), ~ RowCreated(t) PROVE Base' /\ Onward /\ Forward
  <2>1. CASE AnswersStored(t)
    BY <2>1, AfterCloseKeeps DEF AnswersStored
  <2>2. CASE DoneStored(t)
    BY <2>2, StopKeeps DEF DoneStored
  <2> QED
    BY <1>3, <2>1, <2>2, RoundOpenedKeeps, CloseStoredKeeps,
       UpgradesStoredKeeps, RevealStoredKeeps, ScoresStoredKeeps DEF Proceeds
<1>4. ASSUME NEW t \in Tasks, CallFails(t) PROVE Base' /\ Onward /\ Forward
  <2>1. t \in Ops /\ task[t].pc = "create" => made \in failed'
    BY <1>4 DEF CallFails, Base, TaskInv
  <2> QED  BY <1>4, <2>1, StopKeeps DEF CallFails
<1>5. CASE (\E p \in Players : Join(p)) \/ UNCHANGED vars
  <2>1. UNCHANGED <<index, cur, made, rt, task, handle, jumped, scored, failed>>
    BY <1>5 DEF Join, vars
  <2>2. Forward
    BY <2>1 DEF Forward, Base, CurInv
  <2>3. \A t \in Tasks : TaskInv(t)'
    BY <2>1, <2>2, TaskStays
  <2>4. HandleInv' /\ Onward
    BY <2>1 DEF Base, HandleInv, Onward
  <2> QED  BY <2>2, <2>3, <2>4, ForwardCur DEF Base
<1> QED
  BY <1>1, <1>2, <1>3, <1>4, <1>5, RequestKeeps, RowCreatedKeeps, TimerKeeps DEF Next

-----------------------------------------------------------------------------
(* What a step of one task does to the others and to the answers.          *)

TaskStep(t) ==
  \/ t \in Ops /\ Requests(t)
  \/ t \in Timers /\ TimerFires(t)
  \/ Proceeds(t)

\* The others stay, but for a timer task that is cancelled or started.
OthersStay(t) ==
  \A u \in Tasks \ {t} : \/ task'[u] = task[u]
                         \/ u \in Timers /\ task'[u].pc \in {"idle", "sleep"}

\* Only the current round's answers change, those of known players, and task t
\* goes on to write them.
AnswersMove(t) ==
  \A r \in Rows :
    \/ rt'[r].ans = rt[r].ans
    \/ /\ r = cur /\ task'[t].row = r /\ task'[t].pc \in {"answers", "upgrade"}
       /\ \A p \in Players \ known : rt'[r].ans[p] = rt[r].ans[p]

\* A round is asked for by a task that goes on to create its row, and done once a task
\* goes on to store that.
StagesMove(t) ==
  /\ task'[t].pc = "create" => made' = made + 1
  /\ \A r \in Rows : rt'[r].state = "done" =>
       rt[r].state = "done" \/ (task'[t].pc = "done" /\ task'[t].row = r)

Moved(t) ==
  /\ OthersStay(t)
  /\ AnswersMove(t)
  /\ StagesMove(t)
  /\ known' = known
  /\ task'[t].pc \in {"revealed", "done"} => task'[t].row = cur
  /\ task'[t].pc = "scores" => RevealStored(t)
  /\ task'[t].pc = "done" => ScoresStored(t)

LEMMA DoCloseMoves ==
  ASSUME Typed, NEW f \in [Tasks -> TaskRecord], NEW t \in Tasks, NEW kind \in Kinds,
         cur \in Rows, DoClose(f, t, cur, kind),
         \A u \in Tasks : f[u] = task[u] \/ (f[u] = Idle /\ u \in Timers), known' = known
  PROVE  Moved(t)
<1>1. task'[t] = At("close", cur, kind) /\ \A u \in Tasks \ {t} : task'[u] = f[u]
  BY CloseTypes
<1>2. task'[t].pc = "close"
  BY <1>1, AtTypes
<1>3. OthersStay(t)
  BY <1>1, IdleType DEF OthersStay
<1>4. AnswersMove(t)
  BY SetStateEffect, SameTypes DEF DoClose, Phases, AnswersMove
<1>5. StagesMove(t)
  BY <1>2, SetStateEffect, SameTypes DEF DoClose, Phases, StagesMove
<1> QED  BY <1>2, <1>3, <1>4, <1>5 DEF Moved

LEMMA DoRevealMoves ==
  ASSUME Typed, NEW f \in [Tasks -> TaskRecord], NEW t \in Tasks, NEW kind \in Kinds,
         cur \in Rows, DoReveal(f, t, cur, kind),
         \A u \in Tasks : f[u] = task[u] \/ (f[u] = Idle /\ u \in Timers), known' = known
  PROVE  Moved(t)
<1>1. /\ task'[t].pc \in {"upgrade", "revealed"} /\ task'[t].row = cur
      /\ \A u \in Tasks \ {t} : task'[u] = f[u]
  BY RevealTypes
<1>2. OthersStay(t)
  BY <1>1, IdleType DEF OthersStay
<1>3. /\ \A s \in Rows \ {cur} : rt'[s] = rt[s]
      /\ \A p \in Players \ known : rt'[cur].ans[p] = rt[cur].ans[p]
      /\ \/ rt'[cur].ans = rt[cur].ans
         \/ task' = Put(f, t, At("upgrade", cur, kind))
  BY RevealEffect, SameTypes
<1>4. rt'[cur].ans = rt[cur].ans \/ task'[t].pc = "upgrade"
  <2>1. Put(f, t, At("upgrade", cur, kind))[t] = At("upgrade", cur, kind)
    BY DEF Put
  <2> QED  BY <1>3, <2>1, AtTypes
<1>5. AnswersMove(t)
  BY <1>1, <1>3, <1>4 DEF AnswersMove
<1>6. StagesMove(t)
  <2>1. rt'[cur].state \in {"revealed", rt[cur].state}
    BY RevealEffect, SameTypes
  <2> QED  BY <1>1, <1>3, <2>1 DEF StagesMove
<1> QED  BY <1>1, <1>2, <1>5, <1>6 DEF Moved

LEMMA AfterCloseMoves ==
  ASSUME TypeInv, Base, NEW t \in Tasks, task[t].pc \in {"close", "answers"},
         AfterClose(t, task[t].row), known' = known
  PROVE  Moved(t)
<1>0. Typed /\ task \in [Tasks -> TaskRecord]
  BY SameTypes DEF TypeInv, Typed
<1>1. task[t].row = cur /\ cur \in Rows
  BY DEF Base, TaskInv, Early
<1>2. CASE task[t].kind = "reveal"
  <2>1. DoReveal(task, t, cur, "reveal")
    BY <1>1, <1>2 DEF AfterClose
  <2>2. "reveal" \in Kinds
    BY DEF Kinds
  <2> QED  BY <1>0, <1>1, <2>1, <2>2, DoRevealMoves
<1>3. CASE task[t].kind # "reveal"
  <2> DEFINE f == Put(task, t, Idle)
  <2>1. NewTimer(f, cur, "grace") /\ rt' = rt
    BY <1>1, <1>3 DEF AfterClose
  <2>2. f \in [Tasks -> TaskRecord] /\ f[t] = Idle /\ \A u \in Tasks \ {t} : f[u] = task[u]
    BY <1>0, PutType, IdleType
  <2> HIDE DEF f
  <2>3. handle' \in Timers /\ task' = Put(f, handle', At("sleep", cur, "grace"))
    BY <2>1, <2>2, <1>1, NewTimerType DEF Kinds, TypeInv
  <2>4. \A u \in Tasks : \/ task'[u] = f[u]
                         \/ u \in Timers /\ task'[u].pc = "sleep"
    BY <2>3, AtTypes DEF Put
  <2>5. OthersStay(t)
    BY <2>2, <2>4 DEF OthersStay
  <2>6. task'[t].pc \in {"idle", "sleep"}
    BY <2>2, <2>4, IdleType
  <2> QED  BY <2>1, <2>5, <2>6 DEF Moved, AnswersMove, StagesMove
<1> QED  BY <1>2, <1>3

LEMMA StepMoves ==
  ASSUME OneOperator, TypeInv, Base, NEW t \in Tasks, TaskStep(t)
  PROVE  Moved(t)
<1>0. /\ Typed /\ task \in [Tasks -> TaskRecord] /\ rt \in [Rows -> Runtime]
      /\ Cancelled \in [Tasks -> TaskRecord]
      /\ \A u \in Tasks : Cancelled[u] = task[u] \/ (Cancelled[u] = Idle /\ u \in Timers)
  <2>1. Typed
    BY SameTypes DEF TypeInv
  <2>2. \A u \in Tasks : Cancelled[u] = IF u = handle THEN Idle ELSE task[u]
    BY <2>1, CancelledType DEF Typed
  <2>3. \A u \in Tasks : u = handle => u \in Timers
    BY <2>1, EngineAssumption DEF Typed, Tasks
  <2> HIDE DEF Cancelled
  <2> QED  BY <2>1, <2>2, <2>3, CancelledType DEF Typed
<1>1. ASSUME NEW i \in 1 .. NumRounds, t \in Ops, StartRound(t, i) PROVE Moved(t)
  <2>1. /\ made + 1 \in Rows /\ \A s \in Rows \ {made + 1} : rt'[s] = rt[s]
        /\ rt'[made + 1].ans = rt[made + 1].ans /\ known' = known
        /\ rt'[made + 1].state = "pending" /\ made' = made + 1
        /\ task'[t].pc = "create" /\ \A u \in Tasks \ {t} : task'[u] = task[u]
    BY <1>1, StartEffect
  <2> QED  BY <2>1 DEF Moved, OthersStay, AnswersMove, StagesMove
<1>2. CASE t \in Ops /\ StartNext(t)
  <2>1. index + 1 \in 1 .. NumRounds
    BY <1>0, <1>2, EngineAssumption DEF StartNext, Typed
  <2> QED  BY <1>1, <1>2, <2>1 DEF StartNext
<1>3. CASE t \in Ops /\ \E i \in 1 .. NumRounds : StartAt(t, i)
  BY <1>1, <1>3 DEF StartAt
<1>4. CASE Close(t) \/ Reveal(t)
  <2>1. cur \in Rows /\ known' = known
    BY <1>0, <1>4 DEF Close, Reveal, Typed, Rows
  <2>2. \E kind \in Kinds : DoClose(Cancelled, t, cur, kind) \/ DoReveal(Cancelled, t, cur, kind)
    BY <1>4 DEF Close, Reveal, Kinds
  <2> HIDE DEF Cancelled
  <2> QED  BY <1>0, <2>1, <2>2, DoCloseMoves, DoRevealMoves
<1>5. CASE t \in Timers /\ TimerFires(t)
  <2>1. known' = known /\ task[t].pc = "sleep"
    BY <1>5 DEF TimerFires
  <2>2. CASE /\ cur = task[t].row /\ cur \in Rows
             /\ \E kind \in Kinds : DoClose(task, t, cur, kind) \/ DoReveal(task, t, cur, kind)
    BY <1>0, <2>1, <2>2, DoCloseMoves, DoRevealMoves
  <2>3. CASE task' = [task EXCEPT ![t] = Idle] /\ rt' = rt
    BY <1>0, <2>1, <2>3, IdleType DEF Moved, OthersStay, AnswersMove, StagesMove
  <2>4. task[t].row \in Rows
    BY <2>1 DEF TypeInv, TaskRow
  <2> QED  BY <1>5, <2>2, <2>3, <2>4 DEF TimerFires, Kinds
<1>6. CASE RowCreated(t)
  <2>1. /\ made \in Rows /\ \A s \in Rows \ {made} : rt'[s] = rt[s]
        /\ rt'[made].ans = rt[made].ans /\ known' = known
        /\ rt'[made].state = "active"
        /\ task'[t].pc = "open" /\ \A u \in Tasks \ {t} : task'[u] = task[u]
    BY <1>6, CreatedEffect
  <2> QED  BY <2>1 DEF Moved, OthersStay, AnswersMove, StagesMove
<1>7. CASE RoundOpened(t)
  <2>1. /\ rt' = rt /\ known' = known
        /\ \A u \in Tasks : \/ u \in Timers /\ task'[u] = At("sleep", task[t].row, "active")
                            \/ task'[u].pc = "idle" /\ (u = t \/ u \in Timers)
                            \/ u \in Timers /\ task'[u] = task[u]
        /\ t \in Ops
    BY <1>7, OpenedEffect
  <2>2. t \notin Timers /\ \A r : At("sleep", r, "active").pc = "sleep"
    BY <2>1, EngineAssumption, AtTypes
  <2> QED  BY <2>1, <2>2 DEF Moved, OthersStay, AnswersMove, StagesMove
<1>8. CASE CloseStored(t)
  <2>1. /\ task[t].pc = "close" /\ task[t].row = cur /\ cur \in Rows /\ known' = known
    BY <1>8 DEF CloseStored, Base, TaskInv, Early
  <2>2. CASE AfterClose(t, task[t].row)
    BY <2>1, <2>2, AfterCloseMoves
  <2>3. CASE /\ \E in \in SUBSET known : \E z \in [in -> Zones] :
                  rt' = [rt EXCEPT ![cur].ans = [p \in Players |->
                    IF p \in in THEN [how |-> "answered", zone |-> z[p]]
                    ELSE IF p \in known THEN Absent ELSE @[p]]]
             /\ task' = [task EXCEPT ![t].pc = "answers"]
    <3>1. /\ \A s \in Rows \ {cur} : rt'[s] = rt[s]
          /\ \A p \in Players \ known : rt'[cur].ans[p] = rt[cur].ans[p]
          /\ rt'[cur].state = rt[cur].state
      BY <2>1, <2>3, CaptureEffect DEF TypeInv
    <3>2. /\ task'[t].pc = "answers" /\ task'[t].row = cur
          /\ \A u \in Tasks \ {t} : task'[u] = task[u]
      BY <1>0, <2>1, <2>3 DEF TaskRecord
    <3> QED  BY <2>1, <3>1, <3>2 DEF Moved, OthersStay, AnswersMove, StagesMove
  <2> QED  BY <1>8, <2>1, <2>2, <2>3 DEF CloseStored
<1>9. CASE AnswersStored(t)
  BY <1>9, AfterCloseMoves DEF AnswersStored
<1>10. ASSUME NEW pc \in Pcs, task' = [task EXCEPT ![t].pc = pc]
       PROVE  /\ task'[t].pc = pc /\ task'[t].row = task[t].row
              /\ OthersStay(t)
  BY <1>0, <1>10 DEF TaskRecord, OthersStay
<1>11. CASE UpgradesStored(t) \/ ScoresStored(t)
  <2>1. PICK pc \in {"revealed", "done"} :
          /\ known' = known /\ task[t].pc \in {"upgrade", "scores"}
          /\ task[t].row \in Rows /\ SetState(task[t].row, pc)
          /\ task' = [task EXCEPT ![t].pc = pc]
    BY <1>11 DEF UpgradesStored, ScoresStored, TypeInv, TaskRow
  <2>2. /\ \A r \in Rows : rt'[r].ans = rt[r].ans
        /\ \A r \in Rows : rt'[r].state = IF r = task[t].row THEN pc ELSE rt[r].state
    BY <2>1, SetStateEffect DEF TypeInv, Phases
  <2>3. task'[t].pc = pc /\ task'[t].row = cur /\ task[t].row = cur
    <3>1. task[t].row = cur
      BY <2>1 DEF Base, TaskInv, Early, Late
    <3> QED  BY <1>10, <2>1, <3>1 DEF Pcs
  <2>4. OthersStay(t)
    BY <1>10, <2>1 DEF Pcs
  <2>5. task'[t].pc = "done" => ScoresStored(t)
    BY <1>10, <1>11 DEF UpgradesStored, Pcs
  <2> QED  BY <2>1, <2>2, <2>3, <2>4, <2>5 DEF Moved, AnswersMove, StagesMove
<1>12. CASE RevealStored(t)
  <2>1. task'[t].pc = "scores" /\ OthersStay(t)
    BY <1>10, <1>12 DEF RevealStored, Pcs
  <2> QED  BY <1>12, <2>1 DEF RevealStored, Moved, AnswersMove, StagesMove
<1>13. CASE DoneStored(t)
  BY <1>0, <1>13, IdleType DEF DoneStored, Moved, OthersStay, AnswersMove, StagesMove
<1> QED
  BY <1>2, <1>3, <1>4, <1>5, <1>6, <1>7, <1>8, <1>9, <1>11, <1>12, <1>13
     DEF TaskStep, Requests, Proceeds

-----------------------------------------------------------------------------
(* The points.                                                             *)

\* Only the step after the reveal is stored issues score events, one per winner.
LEMMA Pays == [Next]_vars => scored' = scored \/ \E t \in Tasks : RevealStored(t)
<1> SUFFICES ASSUME [Next]_vars, ~ \E t \in Tasks : RevealStored(t) PROVE scored' = scored
  OBVIOUS
<1>1. ASSUME NEW o \in Ops, Requests(o) PROVE scored' = scored
  BY <1>1 DEF Requests, Close, Reveal, StartNext, StartAt, StartRound, DoClose, DoReveal
<1>2. ASSUME NEW t \in Tasks, Proceeds(t) PROVE scored' = scored
  BY <1>2 DEF Proceeds, RowCreated, RoundOpened, CloseStored, AnswersStored, AfterClose, DoReveal,
              UpgradesStored, ScoresStored, DoneStored
<1>3. ASSUME NEW t \in Tasks, CallFails(t) PROVE scored' = scored
  BY <1>3 DEF CallFails
<1>4. ASSUME NEW t \in Timers, TimerFires(t) PROVE scored' = scored
  BY <1>4 DEF TimerFires, DoClose, DoReveal
<1> QED  BY <1>1, <1>2, <1>3, <1>4 DEF Next, Join, vars

LEMMA PayEffect ==
  ASSUME TypeInv, Base, NEW t \in Tasks, RevealStored(t)
  PROVE  /\ task[t].pc = "revealed" /\ task[t].row = cur /\ cur \in Rows
         /\ rt' = rt /\ rt[cur].state = "revealed"
         /\ task'[t].pc = "scores" /\ task'[t].row = cur
         /\ \A u \in Tasks \ {t} : task'[u] = task[u]
         /\ \A s \in Rows \ {cur} : scored'[s] = scored[s]
         /\ \A p \in Players : scored[cur][p] = 0 =>
              scored'[cur][p] = IF p \in Winners(cur) THEN 1 ELSE 0
<1>0. /\ task \in [Tasks -> TaskRecord]
      /\ scored \in [Rows -> [Players -> 0 .. 2]]
  BY SameTypes DEF TypeInv, Typed
<1>1. /\ task[t].pc = "revealed" /\ task[t].row = cur /\ cur \in Rows /\ rt[cur].state = "revealed"
      /\ rt' = rt
  BY DEF RevealStored, Base, TaskInv, Late
<1>2. /\ task'[t].pc = "scores" /\ task'[t].row = cur
      /\ \A u \in Tasks \ {t} : task'[u] = task[u]
  BY <1>0, <1>1 DEF RevealStored, TaskRecord
<1>3. scored' = [scored EXCEPT ![cur] = [p \in Players |->
                   IF p \in Winners(cur) /\ @[p] < 2 THEN @[p] + 1 ELSE @[p]]]
  BY <1>1 DEF RevealStored
<1>4. \A s \in Rows \ {cur} : scored'[s] = scored[s]
  BY <1>0, <1>3
<1>5. \A p \in Players :
        scored'[cur][p] = IF p \in Winners(cur) /\ scored[cur][p] < 2 THEN scored[cur][p] + 1
                          ELSE scored[cur][p]
  BY <1>0, <1>1, <1>3
<1>6. \A p \in Players : scored[cur][p] = 0 =>
        scored'[cur][p] = IF p \in Winners(cur) THEN 1 ELSE 0
  BY <1>5
<1> QED  BY <1>1, <1>2, <1>4, <1>6

LEMMA DuesPaid ==
  ASSUME TypeInv, NEW r \in Rows,
         \A p \in Players : scored'[r][p] = IF p \in Winners(r) THEN 1 ELSE 0,
         scored' \in [Rows -> [Players -> 0 .. 2]]
  PROVE  scored'[r] = Dues(r)
BY DEF Dues

LEMMA SameDues ==
  ASSUME NEW r \in Rows, rt'[r].ans = rt[r].ans
  PROVE  Dues(r)' = Dues(r)
BY DEF Dues, Winners

\* A round is done by the task that waited for its scores, and only one that has issued
\* them waits for them.
LEMMA Finishes ==
  ASSUME OneOperator, TypeInv, Base, [Next]_vars
  PROVE  /\ \A r \in Rows : rt'[r].state = "done" =>
              rt[r].state = "done" \/ \E t \in Tasks : ScoresStored(t) /\ task[t].row = r
         /\ \A t \in Tasks : task'[t].pc = "scores" => task'[t] = task[t] \/ RevealStored(t)
<1>0. task \in [Tasks -> TaskRecord] /\ Idle.pc = "idle"
  BY SameTypes, IdleType DEF TypeInv, Typed
<1>1. ASSUME NEW t \in Tasks, TaskStep(t)
      PROVE  /\ \A r \in Rows : rt'[r].state = "done" =>
                  rt[r].state = "done" \/ (ScoresStored(t) /\ task[t].row = r)
             /\ \A u \in Tasks : task'[u].pc = "scores" => task'[u] = task[u] \/ RevealStored(u)
  <2>1. Moved(t)
    BY <1>1, StepMoves
  <2>2. ScoresStored(t) => task'[t].row = task[t].row
    BY <1>0 DEF ScoresStored, TaskRecord
  <2> QED  BY <2>1, <2>2 DEF Moved, StagesMove, OthersStay
<1>2. ASSUME NEW t \in Tasks, CallFails(t)
      PROVE  rt' = rt /\ \A u \in Tasks : task'[u] = task[u] \/ task'[u].pc = "idle"
  BY <1>0, <1>2 DEF CallFails
<1>3. CASE (\E p \in Players : Join(p)) \/ UNCHANGED vars
  BY <1>3 DEF Join, vars
<1> QED  BY <1>1, <1>2, <1>3 DEF Next, TaskStep, Tasks

\* A round is paid by itself, whatever the others have been paid.
LEMMA RowPaidStep ==
  ASSUME OneOperator, TypeInv, Base, [Next]_vars, NEW r \in Rows, RowPaid(r)
  PROVE  RowPaid(r)'
<1>1. Base' /\ Onward
  BY BaseStep
<1>2. /\ rt'[r].state \in {"none", "pending", "active", "closing"} =>
           rt[r].state \in {"none", "pending", "active", "closing"}
      /\ rt'[r].state = "revealed" => rt[r].state \in {"closing", "revealed"}
  BY <1>1 DEF Onward, Moves
<1>3. \A t \in Tasks : task'[t].pc = "revealed" /\ task'[t].row = r => Unpaid(r)
  BY <1>1 DEF Onward, RowPaid
<1>4. rt[r].state \in {"revealed", "done"} => Dues(r)' = Dues(r)
  BY <1>1, SameDues DEF Onward
<1>5. ASSUME NEW t \in Tasks, task[t].pc = "scores", task[t].row = r
      PROVE  rt[r].state = "revealed" /\ scored[r] = Dues(r)
  BY <1>5 DEF Base, TaskInv, Late, RowPaid
<1>6. CASE scored'[r] = scored[r] /\ \A t \in Tasks : RevealStored(t) => r # cur
  <2>1. rt'[r].state = "revealed" => Unpaid(r)' \/ scored'[r] = Dues(r)'
    BY <1>2, <1>4, <1>6 DEF RowPaid, Unpaid
  <2>2. rt'[r].state = "done" => scored'[r] = Dues(r)'
    <3>1. CASE rt[r].state = "done"
      BY <1>4, <1>6, <3>1 DEF RowPaid
    <3>2. ASSUME NEW t \in Tasks, ScoresStored(t), task[t].row = r PROVE scored'[r] = Dues(r)'
      <4>1. task[t].pc = "scores"
        BY <3>2 DEF ScoresStored
      <4> QED  BY <1>4, <1>5, <1>6, <3>2, <4>1
    <3> QED  BY <3>1, <3>2, Finishes
  <2>3. ASSUME NEW t \in Tasks, task'[t].pc = "scores", task'[t].row = r
        PROVE  scored'[r] = Dues(r)'
    <3>1. task'[t] = task[t]
      BY <1>6, <2>3, Finishes, PayEffect
    <3> QED  BY <1>4, <1>5, <1>6, <2>3, <3>1
  <2> QED  BY <1>2, <1>3, <1>6, <2>1, <2>2, <2>3 DEF RowPaid, Unpaid
<1>7. ASSUME NEW t \in Tasks, RevealStored(t), r = cur PROVE RowPaid(r)'
  <2>1. /\ Unpaid(r) /\ rt' = rt /\ rt[r].state = "revealed"
        /\ task[t].pc \in Working /\ task'[t].pc = "scores"
        /\ \A u \in Tasks \ {t} : task'[u] = task[u]
    BY <1>7, PayEffect DEF RowPaid, Working, Late
  <2>2. \A p \in Players : scored'[r][p] = IF p \in Winners(r) THEN 1 ELSE 0
    BY <1>7, <2>1, PayEffect DEF Unpaid
  <2>3. scored' \in [Rows -> [Players -> 0 .. 2]]
    BY TypeStep, SameTypes DEF TypeInv, Typed
  <2>4. scored'[r] = Dues(r)'
    BY <1>4, <2>1, <2>2, <2>3, DuesPaid
  <2>5. \A u \in Tasks : task'[u].pc # "revealed"
    <3>1. \A u \in Tasks \ {t} : task[u].pc \notin Working
      BY <2>1, OneWorks DEF Base
    <3> QED  BY <2>1, <3>1 DEF Working, Late
  <2> QED  BY <2>1, <2>4, <2>5 DEF RowPaid
<1> QED
  <2>1. CASE scored' = scored /\ ~ \E t \in Tasks : RevealStored(t)
    BY <1>6, <2>1
  <2>2. ASSUME NEW t \in Tasks, RevealStored(t) PROVE RowPaid(r)'
    <3>1. r # cur => scored'[r] = scored[r]
      BY <2>2, PayEffect
    <3> QED  BY <1>6, <1>7, <2>2, <3>1
  <2> QED  BY <2>1, <2>2, Pays

LEMMA InvInit == Init => Inv
<1> SUFFICES ASSUME Init PROVE Inv
  OBVIOUS
<1>1. /\ \A t \in Tasks : task[t].pc = "idle"
      /\ \A r \in Rows : rt[r].state = "none"
      /\ \A r \in Rows, p \in Players : scored[r][p] = 0
      /\ index = 0 /\ cur = 0 /\ made = 0
  BY IdleType DEF Init
<1>2. \A t \in Tasks : TaskInv(t)
  BY <1>1 DEF TaskInv, Early, Late
<1>3. HandleInv
  BY <1>1 DEF HandleInv, Working, Early, Late, Tasks
<1>4. CurInv /\ OnlyOpen
  BY <1>1 DEF CurInv, OnlyOpen, Open
<1>5. ScoreInv
  BY <1>1 DEF ScoreInv, RowPaid, Unpaid
<1>6. OrderInv
  BY <1>1 DEF OrderInv, InOrder
<1> QED  BY <1>2, <1>3, <1>4, <1>5, <1>6 DEF Inv, Base

LEMMA InvStep ==
  ASSUME OneOperator, TypeInv, Inv, [Next]_vars
  PROVE  Inv' /\ Onward
<1>0. Base /\ OnlyOpen /\ OrderInv
  BY DEF Inv
<1>1. Base' /\ Onward
  BY <1>0, BaseStep
<1>2. ScoreInv'
  BY <1>0, RowPaidStep DEF Inv, ScoreInv
<1>3. CASE Forward
  <2>1. OnlyOpen'
    BY <1>0, <1>3 DEF OnlyOpen, Open, Forward
  <2>2. OrderInv'
    BY <1>0, <1>3, ForwardOrder DEF Base
  <2> QED  BY <1>1, <1>2, <2>1, <2>2 DEF Inv
<1>4. ASSUME NEW o \in Ops, NEW i \in 1 .. NumRounds, Asks(o, i) PROVE Inv' /\ Onward
  <2>1. OnlyOpen'
    <3>1. /\ cur' = cur /\ \A s \in Rows \ {made + 1} : rt'[s] = rt[s]
          /\ rt'[made + 1].state = "pending"
      BY <1>0, <1>4, StartEffect DEF Asks
    <3> QED  BY <1>0, <3>1 DEF OnlyOpen, Open
  <2>2. OrderInv'
    BY <1>0, <1>4, StartOrder
  <2> QED  BY <1>1, <1>2, <2>1, <2>2 DEF Inv
<1>5. ASSUME NEW o \in Tasks, RowCreated(o) PROVE Inv' /\ Onward
  <2>1. OnlyOpen'
    <3>1. /\ cur' = made /\ ~ InProgress /\ \A s \in Rows \ {made} : rt'[s] = rt[s]
      BY <1>0, <1>5, CreatedEffect
    <3>2. \A s \in Rows : ~ Open(s)
      BY <1>0, <3>1, EngineAssumption DEF OnlyOpen, InProgress, Open, Rows
    <3> QED  BY <3>1, <3>2 DEF OnlyOpen, Open
  <2>2. OrderInv'
    BY <1>0, <1>5, CreatedOrder
  <2> QED  BY <1>1, <1>2, <2>1, <2>2 DEF Inv
<1> QED  BY <1>0, <1>3, <1>4, <1>5, BaseStep

\* With one request at a time the invariant holds, and every step goes on.
LEMMA InvCorrect ==
  ASSUME OneOperator
  PROVE  Spec => [](TypeInv /\ Inv) /\ [][Onward]_vars
<1>1. Init => TypeInv /\ Inv
  BY TypeInit, InvInit
<1>2. TypeInv /\ Inv /\ [Next]_vars => (TypeInv /\ Inv)'
  BY TypeStep, InvStep
<1>3. TypeInv /\ Inv /\ [Next]_vars => [Onward]_vars
  BY InvStep
<1> QED  BY <1>1, <1>2, <1>3, PTL DEF Spec

\* No two rounds are ever open at once.
THEOREM OneRound == ASSUME OneOperator PROVE Spec => []OneRoundInProgress
<1>0. Spec => [](TypeInv /\ Inv) /\ [][Onward]_vars
  BY InvCorrect
<1>1. Inv => OneRoundInProgress
  BY DEF Inv, OnlyOpen, OneRoundInProgress
<1> QED  BY <1>0, <1>1, PTL

\* Everybody gets what his locked answer deserves, once, and no round is done before.
THEOREM PaidExactly == ASSUME OneOperator PROVE Spec => []PaidWhatIsDue
<1>0. Spec => [](TypeInv /\ Inv) /\ [][Onward]_vars
  BY InvCorrect
<1>1. TypeInv /\ Inv => PaidWhatIsDue
  <2> SUFFICES ASSUME TypeInv, Inv, NEW r \in Rows
               PROVE  CASE rt[r].state = "done" -> scored[r] = Dues(r)
                        [] rt[r].state = "revealed" -> Unpaid(r) \/ scored[r] = Dues(r)
                        [] OTHER -> Unpaid(r)
    BY DEF PaidWhatIsDue
  <2>1. rt[r].state \in Phases
    BY SameTypes DEF TypeInv, Typed, Runtime
  <2> QED  BY <2>1 DEF Inv, ScoreInv, RowPaid, Phases
<1> QED  BY <1>0, <1>1, PTL

\* A round is asked for when the one before it is done or has lost a call, and
\* Next asks for the one that follows in the show.
THEOREM RoundsInOrder == ASSUME OneOperator PROVE Spec => []InOrder
<1>0. Spec => [](TypeInv /\ Inv) /\ [][Onward]_vars
  BY InvCorrect
<1>1. Inv => InOrder
  BY DEF Inv, OrderInv
<1> QED  BY <1>0, <1>1, PTL

\* The answers of a revealed round are final.
THEOREM AnswersFinal == ASSUME OneOperator PROVE Spec => AnswersLocked
<1>0. Spec => [](TypeInv /\ Inv) /\ [][Onward]_vars
  BY InvCorrect
<1>1. [Onward]_vars => [\A r \in Rows : rt[r].state \in {"revealed", "done"} =>
                                         rt'[r].ans = rt[r].ans]_vars
  BY DEF Onward
<1> QED  BY <1>0, <1>1, PTL DEF AnswersLocked

LEMMA Ranks ==
  /\ Rank("none") = 1 /\ Rank("pending") = 2 /\ Rank("active") = 3
  /\ Rank("closing") = 4 /\ Rank("revealed") = 5 /\ Rank("done") = 6
BY DEF Rank, States

LEMMA RankTypes == \A s \in Phases : Rank(s) \in 1 .. 6
BY Ranks DEF Phases

LEMMA RankOnward ==
  ASSUME TypeInv, Onward, NEW r \in Rows
  PROVE  Rank(rt'[r].state) >= Rank(rt[r].state)
<1>1. \A s, q : <<s, q>> \in Moves => Rank(q) >= Rank(s)
  BY Ranks DEF Moves
<1>2. CASE rt'[r].state = rt[r].state
  <2>1. rt[r].state \in Phases
    BY SameTypes DEF TypeInv, Typed, Runtime
  <2>2. Rank(rt[r].state) \in 1 .. 6
    BY <2>1, RankTypes
  <2> QED  BY <1>2, <2>2
<1>3. CASE <<rt[r].state, rt'[r].state>> \in Moves
  BY <1>1, <1>3
<1> QED  BY <1>2, <1>3 DEF Onward

\* No round ever goes back a phase.
THEOREM PhasesOnward == ASSUME OneOperator PROVE Spec => PhasesAdvance
<1>0. Spec => [](TypeInv /\ Inv) /\ [][Onward]_vars
  BY InvCorrect
<1>1. TypeInv /\ [Onward]_vars =>
        [\A r \in Rows : Rank(rt'[r].state) >= Rank(rt[r].state)]_vars
  BY RankOnward
<1> QED  BY <1>0, <1>1, PTL DEF PhasesAdvance
-----------------------------------------------------------------------------
(***************************************************************************)
(* The board of rounds.  Its mapping needs two facts more: a round asked   *)
(* for leaves the board's empty rows, and the places of a round are taken  *)
(* into an empty sheet.                                                    *)
(***************************************************************************)
EmptySheet(r) == \A p \in Players : rt[r].ans[p] = NoAnswer

RowBoard(r) ==
  /\ r <= made => rt[r].state # "none"
  /\ rt[r].state \in {"none", "pending", "active"} => EmptySheet(r)
  /\ \A t \in Tasks : task[t].pc = "close" /\ task[t].row = r => EmptySheet(r)

BoardInv == \A r \in Rows : RowBoard(r)

\* The kinds of step the board sees.
Others(r) == \A s \in Rows \ {r} : rt'[s] = rt[s]

MoveStep(r, from, to) ==
  /\ rt[r].state = from /\ rt'[r].state = to
  /\ rt'[r].ans = rt[r].ans /\ rt'[r].content = rt[r].content
  /\ Others(r) /\ UNCHANGED <<index, scored>>

AnswerStep(r) ==
  /\ rt[r].state = "closing" /\ rt'[r].state = "closing"
  /\ rt[r].content \notin Narration /\ rt'[r].content = rt[r].content
  /\ Others(r) /\ UNCHANGED <<index, scored>>

CaptureStep(r) ==
  /\ AnswerStep(r) /\ EmptySheet(r)
  /\ \A p \in Players : \/ rt'[r].ans[p] \in {NoAnswer, Absent}
                        \/ \E z \in Zones : rt'[r].ans[p] = [how |-> "answered", zone |-> z]

UpgradeStep(r) ==
  /\ AnswerStep(r)
  /\ \A p \in Players :
       \/ rt'[r].ans[p] = rt[r].ans[p]
       \/ /\ rt[r].ans[p].how \in {"none", "absent"}
          /\ \E z \in Zones : rt'[r].ans[p] = [how |-> "late", zone |-> z]

SeenStep ==
  \/ \E o \in Ops, i \in 1 .. NumRounds : Asks(o, i)
  \/ \E o \in Tasks : RowCreated(o)
  \/ \E r \in Rows : \/ MoveStep(r, "active", "closing") \/ MoveStep(r, "closing", "revealed")
                     \/ MoveStep(r, "revealed", "done") /\ (ScoreInv => scored[r] = Dues(r))
                     \/ CaptureStep(r) \/ UpgradeStep(r)
  \/ \E t \in Tasks : RevealStored(t)
  \/ UNCHANGED <<index, rt, scored>>

\* What it does to the tasks: one that comes to wait for the close found the round
\* open, and none waits for it when the answers change.
TaskFacts ==
  /\ \A r \in Rows : rt'[r].ans # rt[r].ans =>
       rt[r].state = "closing" /\ \A t \in Tasks : task'[t].pc # "close"
  /\ \A t \in Tasks : task'[t].pc = "close" =>
       task'[t] = task[t] \/ rt[task'[t].row].state = "active"

\* An answer that is not yet one may be anything but a place.
LEMMA UnplacedAnswers ==
  ASSUME TypeOK, NEW r \in Rows, NEW p \in Players
  PROVE  rt[r].ans[p] \in Answer
BY RuntimeType DEF Runtime

LEMMA CloseSeen ==
  ASSUME OneOperator, TypeInv, Base,
         NEW f \in [Tasks -> TaskRecord], NEW t \in Tasks, NEW kind \in Kinds,
         cur \in Rows, rt[cur].state = "active",
         DoClose(f, t, cur, kind), Alone(f, t), index' = index
  PROVE  SeenStep /\ TaskFacts
<1>0. Typed
  BY SameTypes DEF TypeInv
<1>1. /\ task'[t] = At("close", cur, kind) /\ scored' = scored
      /\ \A u \in Tasks \ {t} : task'[u] = f[u]
  BY <1>0, CloseTypes
<1>2. /\ \A u \in Rows \ {cur} : rt'[u] = rt[u]
      /\ rt'[cur].content = rt[cur].content /\ rt'[cur].state = "closing"
      /\ rt'[cur].ans = rt[cur].ans
  BY SetStateEffect DEF DoClose, Phases, TypeInv
<1>3. task'[t].pc = "close" /\ task'[t].row = cur
  BY <1>1, AtTypes
<1>4. \A u \in Tasks \ {t} : task'[u] = task[u] \/ task'[u].pc = "idle"
  BY <1>1, IdleType DEF Alone
<1>5. MoveStep(cur, "active", "closing")
  BY <1>1, <1>2 DEF MoveStep, Others
<1>6. TaskFacts
  BY <1>2, <1>3, <1>4 DEF TaskFacts
<1> QED  BY <1>5, <1>6 DEF SeenStep

\* The answers that an upgrade leaves.
LEMMA UpgradeEffect ==
  ASSUME TypeOK, NEW r \in Rows, NEW ups \in SUBSET Upgradable(r), ups # {},
         NEW z \in [ups -> Zones],
         rt' = [rt EXCEPT ![r].ans = [p \in Players |->
                  IF p \in ups THEN [how |-> "late", zone |-> z[p]] ELSE @[p]]],
         rt[r].state = "closing", UNCHANGED <<index, scored>>
  PROVE  UpgradeStep(r)
<1>1. rt \in [Rows -> Runtime] /\ rt[r].ans \in [Players -> Answer]
  BY RuntimeType DEF Runtime
<1> DEFINE new == [p \in Players |-> IF p \in ups THEN [how |-> "late", zone |-> z[p]]
                                     ELSE rt[r].ans[p]]
<1>2. /\ rt'[r].ans = new /\ rt'[r].state = rt[r].state /\ rt'[r].content = rt[r].content
      /\ \A s \in Rows \ {r} : rt'[s] = rt[s]
  BY <1>1 DEF Runtime
<1>3. \A p \in Players : new[p] = IF p \in ups THEN [how |-> "late", zone |-> z[p]]
                                  ELSE rt[r].ans[p]
  OBVIOUS
<1> HIDE DEF new
<1>4. rt[r].content \notin Narration /\ \A p \in ups : rt[r].ans[p].how \in {"none", "absent"}
  BY DEF Upgradable
<1>5. \A p \in Players :
        \/ new[p] = rt[r].ans[p]
        \/ /\ rt[r].ans[p].how \in {"none", "absent"}
           /\ \E y \in Zones : new[p] = [how |-> "late", zone |-> y]
  <2> SUFFICES ASSUME NEW p \in Players, p \in ups
               PROVE  /\ rt[r].ans[p].how \in {"none", "absent"}
                      /\ \E y \in Zones : new[p] = [how |-> "late", zone |-> y]
    BY <1>3
  <2>1. z[p] \in Zones /\ new[p] = [how |-> "late", zone |-> z[p]]
    BY <1>3
  <2> QED  BY <1>4, <2>1
<1> QED  BY <1>2, <1>4, <1>5 DEF UpgradeStep, AnswerStep, Others

LEMMA RevealSeen ==
  ASSUME OneOperator, TypeInv, Base,
         NEW f \in [Tasks -> TaskRecord], NEW t \in Tasks, NEW kind \in Kinds,
         cur \in Rows, rt[cur].state = "closing",
         DoReveal(f, t, cur, kind), Alone(f, t), index' = index
  PROVE  SeenStep /\ TaskFacts
<1>0. Typed
  BY SameTypes DEF TypeInv
<1>1. /\ task'[t].pc \in {"upgrade", "revealed"} /\ scored' = scored
      /\ \A u \in Tasks \ {t} : task'[u] = f[u]
  BY <1>0, RevealTypes
<1>2. \A u \in Tasks : task'[u].pc # "close"
  <2>1. \A u \in Tasks \ {t} : task'[u].pc \notin Working
    BY <1>1, IdleType DEF Alone, Busy, Working, Early, Late
  <2> QED  BY <1>1, <2>1 DEF Working, Early, Late
<1>3. CASE SetState(cur, "revealed")
  <2>1. /\ \A u \in Rows \ {cur} : rt'[u] = rt[u]
        /\ rt'[cur].content = rt[cur].content /\ rt'[cur].state = "revealed"
        /\ rt'[cur].ans = rt[cur].ans
    BY <1>3, SetStateEffect DEF Phases, TypeInv
  <2>2. MoveStep(cur, "closing", "revealed")
    BY <1>1, <2>1 DEF MoveStep, Others
  <2>3. TaskFacts
    BY <1>2, <2>1 DEF TaskFacts
  <2> QED  BY <2>2, <2>3 DEF SeenStep
<1>4. CASE \E up \in (SUBSET Upgradable(cur)) \ {{}} : \E z \in [up -> Zones] :
             rt' = [rt EXCEPT ![cur].ans = [p \in Players |->
                      IF p \in up THEN [how |-> "late", zone |-> z[p]] ELSE @[p]]]
  <2>1. UpgradeStep(cur)
    BY <1>1, <1>4, UpgradeEffect DEF TypeInv
  <2>2. TaskFacts
    BY <1>2, <2>1 DEF TaskFacts, UpgradeStep, AnswerStep, Others
  <2> QED  BY <2>1, <2>2 DEF SeenStep
<1> QED  BY <1>3, <1>4 DEF DoReveal

\* A step that changes no round and puts no task to a close.
LEMMA UnseenStep ==
  ASSUME UNCHANGED <<index, rt, scored>>,
         \A u \in Tasks : task'[u] = task[u] \/ task'[u].pc # "close"
  PROVE  SeenStep /\ TaskFacts
BY DEF SeenStep, TaskFacts

LEMMA RequestSeen ==
  ASSUME OneOperator, TypeInv, Base, NEW o \in Ops, Close(o) \/ Reveal(o)
  PROVE  SeenStep /\ TaskFacts
<1>1. task[o] = Idle /\ cur \in Rows /\ index' = index
  BY SameTypes DEF Close, Reveal, TypeInv, Typed, Rows
<1>2. task[o].pc = "idle" /\ o \in Tasks
  BY <1>1, IdleType DEF Tasks
<1>3. Alone(Cancelled, o) /\ Cancelled \in [Tasks -> TaskRecord]
  BY <1>1, <1>2, RequestAlone, CancelledType, SameTypes DEF TypeInv, Typed
<1>4. \/ rt[cur].state = "active" /\ \E kind \in Kinds : DoClose(Cancelled, o, cur, kind)
      \/ rt[cur].state = "closing" /\ \E kind \in Kinds : DoReveal(Cancelled, o, cur, kind)
  BY DEF Close, Reveal, Kinds
<1> HIDE DEF Cancelled
<1> QED  BY <1>1, <1>2, <1>3, <1>4, CloseSeen, RevealSeen

LEMMA TimerSeen ==
  ASSUME OneOperator, TypeInv, Base, NEW t \in Timers, TimerFires(t)
  PROVE  SeenStep /\ TaskFacts
<1> DEFINE r == task[t].row
<1>0. /\ t \in Tasks /\ task[t].pc = "sleep" /\ r \in Rows /\ task \in [Tasks -> TaskRecord]
      /\ index' = index
  BY SameTypes DEF TimerFires, TypeInv, Typed, TaskRow, Tasks
<1>1. cur = r => Alone(task, t)
  BY <1>0, WorkerAlone
<1>2. CASE cur = r /\ rt[r].state = "active" /\ DoClose(task, t, r, "active")
  BY <1>0, <1>1, <1>2, CloseSeen DEF Kinds
<1>3. CASE cur = r /\ rt[r].state = "closing" /\ DoReveal(task, t, r, "grace")
  BY <1>0, <1>1, <1>3, RevealSeen DEF Kinds
<1>4. CASE task' = [task EXCEPT ![t] = Idle] /\ UNCHANGED <<rt, scored>>
  <2>1. \A u \in Tasks : task'[u] = task[u] \/ task'[u].pc = "idle"
    BY <1>0, <1>4, IdleType
  <2> QED  BY <1>0, <1>4, <2>1, UnseenStep
<1> QED  BY <1>2, <1>3, <1>4 DEF TimerFires

LEMMA AfterCloseSeen ==
  ASSUME OneOperator, TypeInv, Base, NEW t \in Tasks, task[t].pc \in {"close", "answers"},
         AfterClose(t, task[t].row), index' = index
  PROVE  SeenStep /\ TaskFacts
<1>0. Typed /\ task \in [Tasks -> TaskRecord]
  BY SameTypes DEF TypeInv, Typed
<1>1. task[t].row = cur /\ cur \in Rows /\ rt[cur].state = "closing" /\ task[t].pc \in Working
  BY DEF Base, TaskInv, Working, Early
<1>2. Alone(task, t)
  BY <1>1, WorkerAlone
<1>3. CASE task[t].kind = "reveal"
  <2>1. DoReveal(task, t, cur, "reveal")
    BY <1>1, <1>3 DEF AfterClose
  <2> QED  BY <1>0, <1>1, <1>2, <2>1, RevealSeen DEF Kinds
<1>4. CASE task[t].kind # "reveal"
  <2> DEFINE f == Put(task, t, Idle)
  <2>1. NewTimer(f, cur, "grace") /\ rt' = rt /\ scored' = scored
    BY <1>1, <1>4 DEF AfterClose
  <2>2. f \in [Tasks -> TaskRecord] /\ f[t] = Idle /\ \A u \in Tasks \ {t} : f[u] = task[u]
    BY <1>0, PutType, IdleType
  <2> HIDE DEF f
  <2>3. task' = Put(f, handle', At("sleep", cur, "grace"))
    BY <2>1, <2>2, <1>1, NewTimerType DEF Kinds, TypeInv
  <2>4. \A u \in Tasks : task'[u] = IF u = handle' THEN At("sleep", cur, "grace") ELSE f[u]
    BY <2>3 DEF Put
  <2>5. \A u \in Tasks : task'[u] = task[u] \/ task'[u].pc \in {"sleep", "idle"}
    BY <2>2, <2>4, IdleType, AtTypes
  <2> QED  BY <2>1, <2>5, UnseenStep
<1> QED  BY <1>3, <1>4
LEMMA CloseStoredSeen ==
  ASSUME OneOperator, TypeInv, Base, BoardInv, NEW t \in Tasks, CloseStored(t)
  PROVE  SeenStep /\ TaskFacts
<1>1. /\ task[t].pc = "close" /\ task[t].row = cur /\ cur \in Rows /\ rt[cur].state = "closing"
      /\ index' = index
  BY DEF CloseStored, Base, TaskInv, Early
<1>2. CASE AfterClose(t, task[t].row)
  BY <1>1, <1>2, AfterCloseSeen
<1>3. CASE /\ rt[cur].content \notin Narration
           /\ \E in \in SUBSET known : \E z \in [in -> Zones] :
                rt' = [rt EXCEPT ![cur].ans = [p \in Players |->
                  IF p \in in THEN [how |-> "answered", zone |-> z[p]]
                  ELSE IF p \in known THEN Absent ELSE @[p]]]
           /\ task' = [task EXCEPT ![t].pc = "answers"]
           /\ UNCHANGED <<handle, scored>>
  <2>0. rt \in [Rows -> Runtime] /\ task \in [Tasks -> TaskRecord]
    BY SameTypes DEF TypeInv, Typed
  <2>1. PICK in \in SUBSET known : \E z \in [in -> Zones] :
                rt' = [rt EXCEPT ![cur].ans = [p \in Players |->
                  IF p \in in THEN [how |-> "answered", zone |-> z[p]]
                  ELSE IF p \in known THEN Absent ELSE @[p]]]
    BY <1>3
  <2>2. PICK z \in [in -> Zones] :
                rt' = [rt EXCEPT ![cur].ans = [p \in Players |->
                  IF p \in in THEN [how |-> "answered", zone |-> z[p]]
                  ELSE IF p \in known THEN Absent ELSE @[p]]]
    BY <2>1
  <2> DEFINE new == [p \in Players |-> IF p \in in THEN [how |-> "answered", zone |-> z[p]]
                                       ELSE IF p \in known THEN Absent ELSE rt[cur].ans[p]]
  <2>3. /\ rt'[cur].ans = new /\ rt'[cur].state = rt[cur].state
        /\ rt'[cur].content = rt[cur].content /\ Others(cur)
    BY <2>0, <2>2, <1>1 DEF Runtime, Others
  <2>4. \A p \in Players : new[p] = IF p \in in THEN [how |-> "answered", zone |-> z[p]]
                                    ELSE IF p \in known THEN Absent ELSE rt[cur].ans[p]
    OBVIOUS
  <2> HIDE DEF new
  <2>5. EmptySheet(cur)
    BY <1>1 DEF BoardInv, RowBoard
  <2>6. \A p \in Players : \/ new[p] \in {NoAnswer, Absent}
                           \/ \E y \in Zones : new[p] = [how |-> "answered", zone |-> y]
    <3> SUFFICES ASSUME NEW p \in Players, p \in in
                 PROVE  \E y \in Zones : new[p] = [how |-> "answered", zone |-> y]
      BY <2>4, <2>5 DEF EmptySheet
    <3>1. z[p] \in Zones /\ new[p] = [how |-> "answered", zone |-> z[p]]
      BY <2>4
    <3> QED  BY <3>1
  <2>7. CaptureStep(cur)
    BY <1>1, <1>3, <2>3, <2>5, <2>6 DEF CaptureStep, AnswerStep
  <2>8. \A u \in Tasks : task'[u].pc # "close"
    <3>1. task[t].pc \in Working /\ task'[t].pc = "answers" /\ \A u \in Tasks \ {t} : task'[u] = task[u]
      BY <1>1, <1>3, <2>0 DEF Working, Early, TaskRecord
    <3>2. \A u \in Tasks \ {t} : task[u].pc \notin Working
      BY <3>1, OneWorks DEF Base
    <3> QED  BY <3>1, <3>2 DEF Working, Early, Late
  <2>9. TaskFacts
    BY <1>1, <2>3, <2>8 DEF TaskFacts, Others
  <2> QED  BY <2>7, <2>9, <1>1 DEF SeenStep
<1> QED  BY <1>1, <1>2, <1>3 DEF CloseStored

\* The waits after the close, but for the one that issues the score events.
LEMMA LaterSeen ==
  ASSUME OneOperator, TypeInv, Base, NEW t \in Tasks,
         UpgradesStored(t) \/ ScoresStored(t) \/ DoneStored(t) \/ CallFails(t)
  PROVE  SeenStep /\ TaskFacts
<1>0. task \in [Tasks -> TaskRecord] /\ Idle.pc = "idle"
  BY SameTypes, IdleType DEF TypeInv, Typed
<1>1. \A u \in Tasks : task'[u] = task[u] \/ task'[u].pc \in {"revealed", "done", "idle"}
  BY <1>0 DEF UpgradesStored, ScoresStored, DoneStored, CallFails, TaskRecord
<1>2. CASE DoneStored(t) \/ CallFails(t)
  <2>1. UNCHANGED <<index, rt, scored>>
    BY <1>2 DEF DoneStored, CallFails
  <2> QED  BY <1>1, <2>1, UnseenStep
<1>3. ASSUME NEW from \in {"closing", "revealed"}, NEW to \in Phases,
             rt[cur].state = from, SetState(cur, to), cur \in Rows, UNCHANGED <<index, scored>>
      PROVE  MoveStep(cur, from, to) /\ TaskFacts
  <2>1. /\ \A u \in Rows \ {cur} : rt'[u] = rt[u]
        /\ rt'[cur].content = rt[cur].content /\ rt'[cur].state = to
        /\ rt'[cur].ans = rt[cur].ans
    BY <1>3, SetStateEffect DEF TypeInv
  <2>2. MoveStep(cur, from, to)
    BY <1>3, <2>1 DEF MoveStep, Others
  <2>3. TaskFacts
    BY <1>1, <2>1 DEF TaskFacts
  <2> QED  BY <2>2, <2>3
<1>4. CASE UpgradesStored(t)
  <2>1. /\ task[t].row = cur /\ cur \in Rows /\ rt[cur].state = "closing"
        /\ SetState(cur, "revealed") /\ UNCHANGED <<index, scored>>
    BY <1>4 DEF UpgradesStored, Base, TaskInv, Early
  <2> QED  BY <1>3, <2>1 DEF SeenStep, Phases
<1>5. CASE ScoresStored(t)
  <2>1. /\ task[t].row = cur /\ cur \in Rows /\ rt[cur].state = "revealed"
        /\ SetState(cur, "done") /\ UNCHANGED <<index, scored>> /\ task[t].pc = "scores"
    BY <1>5 DEF ScoresStored, Base, TaskInv, Late
  <2>2. ScoreInv => scored[cur] = Dues(cur)
    BY <2>1 DEF ScoreInv, RowPaid
  <2> QED  BY <1>3, <2>1, <2>2 DEF SeenStep, Phases
<1> QED  BY <1>2, <1>4, <1>5

LEMMA StepSeen ==
  ASSUME OneOperator, TypeInv, Base, BoardInv, [Next]_vars
  PROVE  SeenStep /\ TaskFacts
<1>0. task \in [Tasks -> TaskRecord]
  BY SameTypes DEF TypeInv, Typed
<1>1. ASSUME NEW o \in Ops, NEW i \in 1 .. NumRounds, Asks(o, i) PROVE SeenStep /\ TaskFacts
  <2>1. /\ \A s \in Rows : rt'[s].ans = rt[s].ans
        /\ task'[o].pc = "create" /\ \A u \in Tasks \ {o} : task'[u] = task[u]
    BY <1>0, <1>1, StartEffect DEF Asks
  <2> QED  BY <1>1, <2>1 DEF SeenStep, TaskFacts
<1>2. ASSUME NEW o \in Tasks, RowCreated(o) PROVE SeenStep /\ TaskFacts
  <2>1. /\ \A s \in Rows : rt'[s].ans = rt[s].ans
        /\ task'[o].pc = "open" /\ \A u \in Tasks \ {o} : task'[u] = task[u]
    BY <1>0, <1>2, CreatedEffect
  <2> QED  BY <1>2, <2>1 DEF SeenStep, TaskFacts
<1>3. ASSUME NEW o \in Tasks, RoundOpened(o) PROVE SeenStep /\ TaskFacts
  <2>1. /\ UNCHANGED <<index, rt, scored>>
        /\ \A u \in Tasks : task'[u] = task[u] \/ task'[u].pc \in {"sleep", "idle"}
    BY <1>0, <1>3, OpenedEffect, AtTypes
  <2> QED  BY <2>1, UnseenStep
<1>4. ASSUME NEW t \in Tasks, RevealStored(t) PROVE SeenStep /\ TaskFacts
  <2>1. /\ rt' = rt /\ task'[t].pc = "scores" /\ \A u \in Tasks \ {t} : task'[u] = task[u]
    BY <1>0, <1>4, PayEffect
  <2> QED  BY <1>4, <2>1 DEF SeenStep, TaskFacts
<1>5. ASSUME NEW o \in Ops, Requests(o) PROVE SeenStep /\ TaskFacts
  <2>1. CASE StartNext(o)
    <3>1. index + 1 \in 1 .. NumRounds
      BY <2>1, SameTypes, EngineAssumption DEF StartNext, TypeInv, Typed
    <3> QED  BY <1>1, <2>1, <3>1 DEF StartNext, Asks
  <2>2. CASE \E i \in 1 .. NumRounds : StartAt(o, i)
    BY <1>1, <2>2 DEF StartAt, Asks
  <2> QED  BY <1>0, <1>5, <2>1, <2>2, RequestSeen DEF Requests
<1>6. ASSUME NEW t \in Tasks, Proceeds(t) PROVE SeenStep /\ TaskFacts
  <2>1. CASE AnswersStored(t)
    BY <1>0, <2>1, AfterCloseSeen DEF AnswersStored
  <2> QED  BY <1>0, <1>2, <1>3, <1>4, <1>6, <2>1, CloseStoredSeen, LaterSeen DEF Proceeds
<1>7. CASE (\E p \in Players : Join(p)) \/ UNCHANGED vars
  <2>1. UNCHANGED <<index, rt, scored, task>>
    BY <1>7 DEF Join, vars
  <2> QED  BY <2>1, UnseenStep
<1> QED  BY <1>0, <1>5, <1>6, <1>7, LaterSeen, TimerSeen DEF Next

LEMMA BoardInvInit == Init => BoardInv
<1> SUFFICES ASSUME Init PROVE BoardInv
  OBVIOUS
<1>1. \A t \in Tasks : task[t].pc = "idle"
  BY IdleType DEF Init
<1>2. \A r \in Rows : ~ (r <= made) /\ EmptySheet(r)
  BY EngineAssumption DEF Init, EmptySheet, Rows
<1> QED  BY <1>1, <1>2 DEF BoardInv, RowBoard

LEMMA BoardInvStep ==
  ASSUME OneOperator, TypeInv, Base, BoardInv, [Next]_vars
  PROVE  BoardInv'
<1>0. /\ Onward /\ SeenStep /\ TaskFacts /\ TypeInv'
      /\ Typed /\ task \in [Tasks -> TaskRecord]
  BY StepSeen, BaseStep, TypeStep, SameTypes DEF TypeInv, Typed
<1> SUFFICES ASSUME NEW r \in Rows PROVE RowBoard(r)'
  BY DEF BoardInv
<1>1. r <= made' => rt'[r].state # "none"
  <2>1. r <= made => rt'[r].state # "none"
    BY <1>0 DEF BoardInv, RowBoard, Onward, Moves
  <2>2. ASSUME NEW o \in Ops, NEW i \in 1 .. NumRounds, Asks(o, i)
        PROVE  made' = made + 1 /\ rt'[made + 1].state = "pending"
    BY <1>0, <2>2, StartEffect DEF Asks
  <2>3. CASE made' = made
    BY <2>1, <2>3
  <2>4. CASE made' # made
    <3>1. \E o \in Ops, i \in 1 .. NumRounds : Asks(o, i)
      BY <1>0, <2>4, BaseStep, CreatedEffect DEF Forward
    <3>2. made' = made + 1 /\ rt'[made + 1].state = "pending"
      BY <3>1, <2>2
    <3>3. r \in Nat /\ made \in Nat
      BY <1>0, EngineAssumption DEF Typed, Rows
    <3> QED  BY <2>1, <3>2, <3>3
  <2> QED  BY <2>3, <2>4
<1>2. rt'[r].state \in {"none", "pending", "active"} => EmptySheet(r)'
  <2>1. rt'[r].state \in {"none", "pending", "active"} =>
          rt[r].state \in {"none", "pending", "active"}
    BY <1>0 DEF Onward, Moves
  <2> QED  BY <1>0, <2>1 DEF TaskFacts, BoardInv, RowBoard, EmptySheet
<1>3. ASSUME NEW t \in Tasks, task'[t].pc = "close", task'[t].row = r PROVE EmptySheet(r)'
  <2>1. rt'[r].ans = rt[r].ans
    BY <1>0, <1>3 DEF TaskFacts
  <2>2. task'[t] = task[t] \/ rt[r].state = "active"
    BY <1>0, <1>3 DEF TaskFacts
  <2> QED  BY <1>3, <2>1, <2>2 DEF BoardInv, RowBoard, EmptySheet
<1> QED  BY <1>1, <1>2, <1>3 DEF RowBoard
-----------------------------------------------------------------------------
(* The mapping, step by step.                                              *)

LEMMA BoardRows == Board!Rows = Rows
BY DEF Board!Rows, Rows

LEMMA MoveMaps ==
  ASSUME TypeInv, TypeInv', NEW r \in Rows, NEW from, NEW to, MoveStep(r, from, to)
  PROVE  /\ Board!Passes(r, from, to)
         /\ UNCHANGED <<index, [s \in Rows |-> rt[s].content], [s \in Rows |-> rt[s].ans], scored>>
<1>1. \A s \in Rows : rt'[s].content = rt[s].content /\ rt'[s].ans = rt[s].ans
  BY DEF MoveStep, Others
<1>2. \A s \in Rows : rt'[s].state = IF s = r THEN to ELSE rt[s].state
  BY DEF MoveStep, Others
<1>3. [s \in Rows |-> rt'[s].state] = [[s \in Rows |-> rt[s].state] EXCEPT ![r] = to]
  BY <1>2
<1>4. [s \in Rows |-> rt[s].state][r] = from
  BY DEF MoveStep
<1>5. Board!Passes(r, from, to)
  BY <1>3, <1>4 DEF Board!Passes
<1>6. /\ [s \in Rows |-> rt'[s].content] = [s \in Rows |-> rt[s].content]
      /\ [s \in Rows |-> rt'[s].ans] = [s \in Rows |-> rt[s].ans]
  BY <1>1
<1> QED  BY <1>5, <1>6 DEF MoveStep

LEMMA AnswerMaps ==
  ASSUME TypeInv, TypeInv', NEW r \in Rows, AnswerStep(r)
  PROVE  /\ Board!Answer(r, rt'[r].ans)
         /\ UNCHANGED <<index, [s \in Rows |-> rt[s].content], [s \in Rows |-> rt[s].state], scored>>
<1>1. \A s \in Rows : rt'[s].content = rt[s].content /\ rt'[s].state = rt[s].state
  BY DEF AnswerStep, Others
<1>2. \A s \in Rows : s # r => rt'[s].ans = rt[s].ans
  BY DEF AnswerStep, Others
<1>3. [s \in Rows |-> rt'[s].ans] = [[s \in Rows |-> rt[s].ans] EXCEPT ![r] = rt'[r].ans]
  BY <1>2
<1>4. /\ [s \in Rows |-> rt'[s].content] = [s \in Rows |-> rt[s].content]
      /\ [s \in Rows |-> rt'[s].state] = [s \in Rows |-> rt[s].state]
  BY <1>1
<1> QED  BY <1>3, <1>4 DEF AnswerStep, Board!Answer

LEMMA DueMaps ==
  ASSUME NEW r \in Rows
  PROVE  Board!Due(r) = Dues(r)
BY DEF Board!Due, Dues, Winners

LEMMA CaptureMaps ==
  ASSUME TypeInv, TypeInv', NEW r \in Rows, CaptureStep(r)
  PROVE  Board!Capture(r)
<1>0. AnswerStep(r) /\ rt'[r].ans \in [Players -> Answer]
  BY SameTypes DEF CaptureStep, TypeInv, Typed, Runtime
<1> DEFINE new == rt'[r].ans
<1>1. /\ Board!Answer(r, new)
      /\ UNCHANGED <<index, [s \in Rows |-> rt[s].content], [s \in Rows |-> rt[s].state], scored>>
  BY <1>0, AnswerMaps
<1>2. \A p \in Players : new[p] \in {Board!Blank, Board!Missing} \cup Board!Placed("answered")
  BY DEF CaptureStep, NoAnswer, Absent, Board!Blank, Board!Missing, Board!Placed
<1>3. new \in [Players -> {Board!Blank, Board!Missing} \cup Board!Placed("answered")]
  <2> HIDE DEF new
  <2>1. new \in [Players -> Answer]
    BY <1>0 DEF new
  <2> QED  BY <1>2, <2>1
<1>4. \A p \in Players : rt[r].ans[p] = Board!Blank
  BY DEF CaptureStep, EmptySheet, NoAnswer, Board!Blank
<1>5. /\ [s \in Rows |-> rt[s].state][r] = "closing"
      /\ [s \in Rows |-> rt[s].content][r] \notin Narration
      /\ [s \in Rows |-> rt[s].ans][r] = rt[r].ans
  BY <1>0 DEF AnswerStep
<1>6. \A p \in Players : [s \in Rows |-> rt[s].ans][r][p] = Board!Blank
  BY <1>4, <1>5
<1> HIDE DEF new
<1>7. \E sheet \in [Players -> {Board!Blank, Board!Missing} \cup Board!Placed("answered")] :
        Board!Answer(r, sheet)
  BY <1>1, <1>3 DEF Board!Answer
<1> QED  BY <1>1, <1>5, <1>6, <1>7, Zenon DEF Board!Capture

LEMMA UpgradeMaps ==
  ASSUME TypeInv, TypeInv', NEW r \in Rows, UpgradeStep(r)
  PROVE  Board!Upgrade(r)
<1>0. AnswerStep(r) /\ rt'[r].ans \in [Players -> Answer] /\ rt[r].ans \in [Players -> Answer]
  BY SameTypes DEF UpgradeStep, TypeInv, Typed, Runtime
<1> DEFINE new == rt'[r].ans
           old == rt[r].ans
<1>1. /\ Board!Answer(r, new)
      /\ UNCHANGED <<index, [s \in Rows |-> rt[s].content], [s \in Rows |-> rt[s].state], scored>>
  BY <1>0, AnswerMaps
<1>2. \A p \in Players : \/ new[p] = old[p]
                         \/ /\ old[p].how \in {"none", "absent"}
                            /\ new[p] \in Board!Placed("late")
  BY DEF UpgradeStep, Board!Placed
<1>5. /\ [s \in Rows |-> rt[s].state][r] = "closing"
      /\ [s \in Rows |-> rt[s].content][r] \notin Narration
      /\ [s \in Rows |-> rt[s].ans][r] = old
  BY <1>0 DEF AnswerStep
<1>t. new \in [Players -> Answer] /\ old \in [Players -> Answer]
  BY <1>0
<1> HIDE DEF new, old
<1>3. new \in [Players -> {old[p] : p \in Players} \cup Board!Placed("late")]
  BY <1>2, <1>t
<1>4. [s \in Rows |-> rt[s].ans][r] = old
  BY <1>5
<1>6. \E sheet \in [Players -> {[s \in Rows |-> rt[s].ans][r][p] : p \in Players}
                                \cup Board!Placed("late")] :
        /\ \A p \in Players :
             \/ sheet[p] = [s \in Rows |-> rt[s].ans][r][p]
             \/ /\ [s \in Rows |-> rt[s].ans][r][p].how \in {"none", "absent"}
                /\ sheet[p] \in Board!Placed("late")
        /\ Board!Answer(r, sheet)
  <2>1. [s \in Rows |-> rt'[s].ans] = [[s \in Rows |-> rt[s].ans] EXCEPT ![r] = new]
    BY <1>1 DEF Board!Answer
  <2>2. new \in [Players -> {[s \in Rows |-> rt[s].ans][r][p] : p \in Players}
                           \cup Board!Placed("late")]
    BY <1>3, <1>4
  <2>3. \A p \in Players :
          \/ new[p] = [s \in Rows |-> rt[s].ans][r][p]
          \/ /\ [s \in Rows |-> rt[s].ans][r][p].how \in {"none", "absent"}
             /\ new[p] \in Board!Placed("late")
    BY <1>2, <1>4
  <2> QED  BY <2>1, <2>2, <2>3, Zenon DEF Board!Answer
<1> QED  BY <1>1, <1>5, <1>6, Zenon DEF Board!Upgrade

LEMMA AskMaps ==
  ASSUME OneOperator, TypeInv, TypeInv', Inv, BoardInv,
         NEW o \in Ops, NEW i \in 1 .. NumRounds, Asks(o, i), NEW r \in Rows, r = made + 1
  PROVE  Board!Ask(r, i)
<1>0. Typed /\ Base
  BY SameTypes DEF TypeInv, Inv
<1>1. /\ r \in Rows /\ index' = i /\ rt[r].state = "none"
      /\ \A s \in Rows \ {r} : rt'[s] = rt[s]
      /\ rt'[r].content = i /\ rt'[r].state = "pending" /\ rt'[r].ans = rt[r].ans
      /\ scored' = scored /\ ~ InProgress
  BY <1>0, StartEffect DEF Asks, StartRound
<1>r. made \in Nat /\ r = made + 1 /\ Rows \subseteq Nat
  BY <1>0, EngineAssumption DEF Typed, Rows
<1>2. i = index + 1 \/ Jumps
  BY DEF Asks
<1>3. \A s \in Rows : IF s < r THEN rt[s].state \in {"pending", "done"} ELSE rt[s].state = "none"
  <2> SUFFICES ASSUME NEW s \in Rows
               PROVE  IF s < r THEN rt[s].state \in {"pending", "done"} ELSE rt[s].state = "none"
    OBVIOUS
  <2>1. CASE s < r
    <3>1. rt[s].state # "none" /\ rt[s].state \in Phases
      BY <1>0, <1>r, <2>1 DEF BoardInv, RowBoard, Typed, Runtime
    <3>2. ~ Open(s)
      BY <1>0, <1>1, EngineAssumption DEF Inv, OnlyOpen, InProgress, Open, Rows
    <3> QED  BY <2>1, <3>1, <3>2 DEF Open, Phases
  <2>2. CASE ~ (s < r)
    <3>1. s > made
      BY <1>r, <2>2
    <3> QED  BY <1>0, <2>2, <3>1 DEF Base, CurInv
  <2> QED  BY <2>1, <2>2
<1>4. [s \in Rows |-> rt'[s].state] = [[s \in Rows |-> rt[s].state] EXCEPT ![r] = "pending"]
  <2>1. \A s \in Rows : rt'[s].state = IF s = r THEN "pending" ELSE rt[s].state
    BY <1>1
  <2> QED  BY <2>1
<1>5. [s \in Rows |-> rt'[s].content] = [[s \in Rows |-> rt[s].content] EXCEPT ![r] = i]
  <2>1. \A s \in Rows : rt'[s].content = IF s = r THEN i ELSE rt[s].content
    BY <1>1
  <2> QED  BY <2>1
<1>6. [s \in Rows |-> rt'[s].ans] = [s \in Rows |-> rt[s].ans]
  <2>1. \A s \in Rows : rt'[s].ans = rt[s].ans
    BY <1>1
  <2> QED  BY <2>1
<1>7. Board!Passes(r, "none", "pending")
  BY <1>1, <1>4 DEF Board!Passes
<1>8. \A s \in Board!Rows : IF s < r THEN [u \in Rows |-> rt[u].state][s] \in {"pending", "done"}
                                     ELSE [u \in Rows |-> rt[u].state][s] = "none"
  BY <1>3, BoardRows
<1> QED  BY <1>1, <1>2, <1>5, <1>6, <1>7, <1>8 DEF Board!Ask

LEMMA OpenMaps ==
  ASSUME OneOperator, TypeInv, TypeInv', Inv, BoardInv, NEW o \in Tasks, RowCreated(o), NEW r \in Rows, r = made
  PROVE  Board!Open(r)
<1>0. Typed /\ Base
  BY SameTypes DEF TypeInv, Inv
<1>1. /\ r \in Rows /\ rt[r].state = "pending" /\ ~ InProgress /\ rt'[r].state = "active"
      /\ rt'[r].content = rt[r].content /\ rt'[r].ans = rt[r].ans
      /\ \A s \in Rows \ {r} : rt'[s] = rt[s]
      /\ UNCHANGED <<index, scored>>
  BY <1>0, CreatedEffect
<1>2. Board!Passes(r, "pending", "active")
      /\ UNCHANGED <<index, [s \in Rows |-> rt[s].content], [s \in Rows |-> rt[s].ans], scored>>
  BY <1>1, MoveMaps DEF MoveStep, Others
<1>3. \A s \in Rows : IF s < r THEN rt[s].state \in {"pending", "done"}
                      ELSE s > r => rt[s].state = "none"
  <2> SUFFICES ASSUME NEW s \in Rows
               PROVE  IF s < r THEN rt[s].state \in {"pending", "done"}
                      ELSE s > r => rt[s].state = "none"
    OBVIOUS
  <2>1. CASE s < r
    <3>1. s <= made
      BY <2>1, <1>1 DEF Rows
    <3>2. rt[s].state # "none" /\ rt[s].state \in Phases
      BY <1>0, <3>1 DEF BoardInv, RowBoard, Typed, Runtime
    <3>3. ~ Open(s)
      BY <1>0, <1>1, EngineAssumption DEF Inv, OnlyOpen, InProgress, Open, Rows
    <3> QED  BY <2>1, <3>2, <3>3 DEF Open, Phases
  <2>2. CASE s > r
    <3>1. rt[s].state = "none" /\ ~ (s < r)
      BY <1>0, <2>2, EngineAssumption DEF Base, CurInv, Typed, Rows
    <3> QED  BY <3>1
  <2>3. CASE s = r
    <3>1. ~ (s < r) /\ ~ (s > r)
      BY <1>0, <2>3, EngineAssumption DEF Typed
    <3> QED  BY <3>1
  <2>4. s < r \/ s > r \/ s = r
    BY <1>0, EngineAssumption DEF Typed, Rows
  <2> QED  BY <2>1, <2>2, <2>3, <2>4
<1>4. \A s \in Board!Rows : IF s < r THEN [u \in Rows |-> rt[u].state][s] \in {"pending", "done"}
                            ELSE s > r => [u \in Rows |-> rt[u].state][s] = "none"
  BY <1>3, BoardRows
<1> QED  BY <1>1, <1>2, <1>4 DEF Board!Open

LEMMA PayMaps ==
  ASSUME OneOperator, TypeInv, Inv, NEW t \in Tasks, RevealStored(t), NEW r \in Rows, r = cur
  PROVE  Board!Pay(r)
<1>0. Base /\ scored \in [Rows -> [Players -> 0 .. 2]]
  BY SameTypes DEF TypeInv, Typed, Inv
<1>1. /\ task[t].pc = "revealed" /\ task[t].row = r /\ r \in Rows /\ rt' = rt
      /\ rt[r].state = "revealed" /\ index' = index
      /\ \A s \in Rows \ {r} : scored'[s] = scored[s]
  BY <1>0, PayEffect DEF RevealStored
<1>2. Unpaid(r)
  BY <1>1 DEF Inv, ScoreInv, RowPaid
<1>3. scored' \in [Rows -> [Players -> 0 .. 2]]
  <2>1. [Next]_vars
    BY DEF Next, Proceeds
  <2> QED  BY <2>1, TypeStep, SameTypes DEF TypeInv, Typed
<1>4. scored'[r] = Dues(r)
  <2>1. \A p \in Players : scored'[r][p] = IF p \in Winners(r) THEN 1 ELSE 0
    BY <1>0, <1>2, PayEffect DEF Unpaid
  <2> QED  BY <1>1, <1>3, <2>1, DuesPaid
<1>5. scored' = [scored EXCEPT ![r] = Board!Due(r)]
  BY <1>0, <1>1, <1>3, <1>4, DueMaps
<1>6. /\ [s \in Rows |-> rt[s].state][r] = "revealed"
      /\ \A p \in Players : scored[r][p] = 0
  BY <1>1, <1>2 DEF Unpaid
<1> QED  BY <1>1, <1>5, <1>6 DEF Board!Pay

LEMMA BoardMapping ==
  ASSUME OneOperator, TypeInv, Inv, BoardInv, [Next]_vars
  PROVE  [Board!Next]_(Board!boardVars)
<1>0. TypeInv' /\ SeenStep
  BY TypeStep, StepSeen DEF Inv
<1>1. ASSUME NEW o \in Ops, NEW i \in 1 .. NumRounds, Asks(o, i) PROVE Board!Next
  <2>1. PICK r \in Rows : r = made + 1
    BY <1>1, StartEffect DEF Asks, Inv
  <2>2. Board!Ask(r, i) /\ r \in Board!Rows
    BY <1>0, <1>1, <2>1, AskMaps, BoardRows
  <2> QED  BY <2>2, Zenon DEF Board!Next
<1>2. ASSUME NEW o \in Tasks, RowCreated(o) PROVE Board!Next
  <2>1. PICK r \in Rows : r = made
    BY <1>2, CreatedEffect DEF Inv
  <2>2. Board!Open(r) /\ r \in Board!Rows
    BY <1>0, <1>2, <2>1, OpenMaps, BoardRows
  <2> QED  BY <2>2, Zenon DEF Board!Next
<1>3. ASSUME NEW r \in Rows, MoveStep(r, "active", "closing") PROVE Board!Next
  <2>1. Board!Close(r) /\ r \in Board!Rows
    BY <1>0, <1>3, MoveMaps, BoardRows DEF Board!Close
  <2> QED  BY <2>1, Zenon DEF Board!Next
<1>4. ASSUME NEW r \in Rows, MoveStep(r, "closing", "revealed") PROVE Board!Next
  <2>1. Board!Reveal(r) /\ r \in Board!Rows
    BY <1>0, <1>4, MoveMaps, BoardRows DEF Board!Reveal
  <2> QED  BY <2>1, Zenon DEF Board!Next
<1>5. ASSUME NEW r \in Rows, MoveStep(r, "revealed", "done"), scored[r] = Dues(r) PROVE Board!Next
  <2>1. Board!Finish(r) /\ r \in Board!Rows
    BY <1>0, <1>5, MoveMaps, DueMaps, BoardRows DEF Board!Finish
  <2> QED  BY <2>1, Zenon DEF Board!Next
<1>6. ASSUME NEW r \in Rows, CaptureStep(r) PROVE Board!Next
  <2>1. Board!Capture(r) /\ r \in Board!Rows
    BY <1>0, <1>6, CaptureMaps, BoardRows
  <2> QED  BY <2>1, Zenon DEF Board!Next
<1>7. ASSUME NEW r \in Rows, UpgradeStep(r) PROVE Board!Next
  <2>1. Board!Upgrade(r) /\ r \in Board!Rows
    BY <1>0, <1>7, UpgradeMaps, BoardRows
  <2> QED  BY <2>1, Zenon DEF Board!Next
<1>8. ASSUME NEW t \in Tasks, RevealStored(t) PROVE Board!Next
  <2>1. PICK r \in Rows : r = cur
    BY <1>8, PayEffect DEF Inv
  <2>2. Board!Pay(r) /\ r \in Board!Rows
    BY <1>8, <2>1, PayMaps, BoardRows
  <2> QED  BY <2>2, Zenon DEF Board!Next
<1>9. CASE UNCHANGED <<index, rt, scored>>
  BY <1>9 DEF Board!boardVars
<1>10. ScoreInv
  BY DEF Inv
<1> QED  BY <1>0, <1>1, <1>2, <1>3, <1>4, <1>5, <1>6, <1>7, <1>8, <1>9, <1>10 DEF SeenStep

\* With one operator request at a time the engine, its tasks and timers, its failing
\* calls and cancelled waits, implements the board of rounds of module RoundBoard:
\* every handler between two awaits is one operation of the board or nothing it sees.
THEOREM RoundBoardIsImplemented == ASSUME OneOperator PROVE Spec => RoundBoardSpec
<1>1. Init => Board!Init
  BY DEF Init, Board!Init, Board!Rows, Board!Blank, Rows, NoAnswer
<1>2. Init => TypeInv /\ Inv /\ BoardInv
  BY TypeInit, InvInit, BoardInvInit
<1>3. TypeInv /\ Inv /\ BoardInv /\ [Next]_vars => (TypeInv /\ Inv /\ BoardInv)'
  BY TypeStep, InvStep, BoardInvStep DEF Inv
<1>4. TypeInv /\ Inv /\ BoardInv /\ [Next]_vars => [Board!Next]_(Board!boardVars)
  BY BoardMapping
<1> QED  BY <1>1, <1>2, <1>3, <1>4, PTL DEF Spec, RoundBoardSpec, Board!Spec
=============================================================================
