-------------------------- MODULE Bindings_proofs --------------------------
(***************************************************************************)
(* Proofs about Bindings, for any players, GIDs, callers and queue length. *)
(*                                                                         *)
(*   TypeCorrect      Spec => []TypeOK                                     *)
(*   IndexIsExact     Spec => []IndexExact           if nobody steals      *)
(*   OneHolderPerGid  Spec => []NoDoubleBinding      if nobody steals      *)
(*   BoardIsImplemented  Spec => BoardSpec           if nobody steals      *)
(*   LostPlayersAreTimed Spec => []LostIsTimed                             *)
(*   NobodyKeepsAGhost   Spec => []NoDeadBinding     if nobody steals, no  *)
(*                       save fails and the queue suffices                 *)
(*                                                                         *)
(* IndexExact is not inductive: what a bind or a loss pops from _by_gid is *)
(* the gid of the player's record, so the record must say nothing when the *)
(* player is not bound (Released), and no steal may be half done.          *)
(* NoDeadBinding needs besides that a disappearance names one GID and that *)
(* run has no unfinished event when it takes the next (DeadInv).           *)
(***************************************************************************)
EXTENDS Bindings, TLAPS

States == {"unclaimed", "bound", "lost", "orphaned"}
TimerStates == {"none", "sleep", "save"}

-----------------------------------------------------------------------------
(***************************************************************************)
(* Type correctness                                                        *)
(***************************************************************************)

\* The task of run is a task, and no GID or player is a sentinel.
LEMMA Sentinels ==
  /\ NoPlayer \notin Players
  /\ NoGid \notin Gids
  /\ Run \in Tasks
  /\ Clients \subseteq Tasks
BY SentinelAssumption DEF Tasks

\* What _save is asked to do is a job.
LEMMA SavingType ==
  ASSUME NEW p \in Players \cup {NoPlayer}, NEW lost \in BOOLEAN
  PROVE  Saving(p, lost) \in Job /\ Saving(p, lost).next = NoPlayer
BY DEF Saving, Job

\* A finished _mark_lost leaves the orphan tasks well typed.
LEMMA TimerAfterType ==
  ASSUME TypeOK, NEW t \in Tasks
  PROVE  TimerAfter(job[t]) \in [Players -> TimerStates]
BY DEF TypeOK, TimerAfter, Job, TimerStates

\* _bind keeps the types, whatever player, GID and old GID it is given.
LEMMA BindType ==
  ASSUME TypeOK,
         NEW t \in Tasks, NEW p \in Players, NEW g \in Gids \cup {NoGid}, NEW old,
         NEW tm \in [Players -> TimerStates],
         Bind(t, p, g, old, tm)
  PROVE  /\ st' \in [Players -> States]
         /\ gid' \in [Players -> Gids \cup {NoGid}]
         /\ byGid' \in [Gids -> Players \cup {NoPlayer}]
         /\ job' \in [Tasks -> Job]
         /\ timer' \in [Players -> TimerStates]
         /\ unsaved' \in SUBSET Players
<1>1. Saving(p, FALSE) \in Job
  BY SavingType
<1>2. Popped(old) \in [Gids -> Players \cup {NoPlayer}]
  BY DEF TypeOK, Popped
<1> QED
  BY <1>1, <1>2 DEF TypeOK, Bind, States, TimerStates

\* So does _mark_lost.
LEMMA MarkLostType ==
  ASSUME TypeOK,
         NEW t \in Tasks, NEW j \in Job, j.who \in Players,
         MarkLost(t, j)
  PROVE  /\ st' \in [Players -> States]
         /\ gid' \in [Players -> Gids \cup {NoGid}]
         /\ byGid' \in [Gids -> Players \cup {NoPlayer}]
         /\ job' \in [Tasks -> Job]
         /\ unsaved' \in SUBSET Players
<1>1. Popped(gid[j.who]) \in [Gids -> Players \cup {NoPlayer}]
  BY DEF TypeOK, Popped
<1> QED
  BY <1>1 DEF TypeOK, MarkLost, States

\* And every way the run loop goes on with an event.
LEMMA AdvanceType ==
  ASSUME TypeOK,
         NEW l \in Loop, NEW tm \in [Players -> TimerStates],
         Advance(l, tm)
  PROVE  /\ st' \in [Players -> States]
         /\ gid' \in [Players -> Gids \cup {NoGid}]
         /\ byGid' \in [Gids -> Players \cup {NoPlayer}]
         /\ job' \in [Tasks -> Job]
         /\ timer' \in [Players -> TimerStates]
         /\ loop' \in Loop
         /\ unsaved' \in SUBSET Players
<1> USE Sentinels
<1>1. CASE LoseNext(l, tm)
  <2>1. PICK p \in ToLose(l), rest \in SUBSET l.lose :
          /\ MarkLost(Run, Saving(p, TRUE))
          /\ loop' = [l EXCEPT !.lose = rest]
          /\ timer' = tm
    BY <1>1 DEF LoseNext
  <2>2. p \in Players
    BY DEF ToLose, Loop
  <2>3. Saving(p, TRUE) \in Job /\ Saving(p, TRUE).who = p
    BY <2>2 DEF Saving, Job
  <2>4. loop' \in Loop
    BY <2>1 DEF Loop
  <2> QED
    BY <2>1, <2>2, <2>3, <2>4, MarkLostType
<1>2. CASE AutoRebind(l, tm)
  <2>1. PICK g \in l.scan \cap live, rest \in SUBSET l.scan, p \in Waiting :
          /\ Bind(Run, p, g, NoGid, tm)
          /\ loop' = Scanning(rest, g)
    BY <1>2 DEF AutoRebind
  <2>2. g \in Gids /\ p \in Players
    BY DEF Loop, Waiting
  <2>3. loop' \in Loop
    BY <2>1, <2>2 DEF Loop, Scanning
  <2> QED
    BY <2>1, <2>2, <2>3, BindType
<1>3. CASE Ritual(l, tm)
  <2>1. PICK g \in (l.scan \cup {l.again}) \cap live, rest \in SUBSET l.scan, p \in Players :
          /\ Bind(Run, p, g, NoGid, tm)
          /\ loop' = Scanning(rest, NoGid)
    BY <1>3 DEF Ritual
  <2>2. g \in Gids
    BY DEF TypeOK
  <2>3. loop' \in Loop
    BY <2>1 DEF Loop, Scanning
  <2> QED
    BY <2>1, <2>2, <2>3, BindType
<1>4. CASE Finish(l, tm)
  <2>1. Idle \in Job
    BY SavingType DEF Idle
  <2>2. NoLoop \in Loop
    BY DEF NoLoop, Scanning, Loop
  <2> QED
    BY <1>4, <2>1, <2>2 DEF Finish, TypeOK, States
<1> QED
  BY <1>1, <1>2, <1>3, <1>4 DEF Advance

\* The events of the queue carry sets of GIDs.
LEMMA EventTypes ==
  /\ \A g \in Gids : Seen(g) \in Event /\ Gone(g) \in Event
  /\ \A S \in SUBSET Gids : Resync(S) \in Event
BY DEF Seen, Gone, Resync, Event

\* The types are kept by every step.
LEMMA TypeStep == TypeOK /\ [Next]_vars => TypeOK'
<1> SUFFICES ASSUME TypeOK, [Next]_vars PROVE TypeOK'
  OBVIOUS
<1> USE Sentinels
<1>1. CASE Feed
  <2>1. live' \in SUBSET Gids /\ \E e \in Event : Publish(e)
    BY <1>1, EventTypes DEF Feed, GidSeen, GidGone, Snapshot, TypeOK
  <2>2. queue' \in Seq(Event)
    BY <2>1 DEF Publish, TypeOK
  <2> QED
    BY <2>1, <2>2 DEF Publish, TypeOK
<1>2. ASSUME NEW c \in Clients, NEW p \in Players, NEW g \in Gids,
             Claim(c, p, g) \/ OperatorRebind(c, p, g)
      PROVE  TypeOK'
  <2>1. timer \in [Players -> TimerStates]
    BY DEF TypeOK, TimerStates
  <2>2. Bind(c, p, g, gid[p], timer) /\ UNCHANGED <<live, queue, loop>>
    BY <1>2 DEF Claim, OperatorRebind
  <2> QED
    BY <2>1, <2>2, BindType DEF TypeOK, States, TimerStates
<1>3. ASSUME NEW c \in Clients, NEW p \in Players, NEW g \in Gids,
             OperatorSteal(c, p, g)
      PROVE  TypeOK'
  <2> DEFINE j == [who |-> byGid[g], lost |-> TRUE,
                   next |-> p, ngid |-> g, nold |-> gid[p]]
  <2>1. MarkLost(c, j) /\ UNCHANGED <<live, queue, loop, timer>>
    BY <1>3 DEF OperatorSteal
  <2>2. byGid[g] \in Players
    BY <1>3 DEF OperatorSteal, TypeOK
  <2>3. j \in Job /\ j.who \in Players
    BY <2>2 DEF Job, TypeOK
  <2> HIDE DEF j
  <2> QED
    BY <2>1, <2>3, MarkLostType DEF TypeOK, States
<1>4. ASSUME NEW c \in Clients, SaveReturns(c)
      PROVE  TypeOK'
  <2>1. TimerAfter(job[c]) \in [Players -> TimerStates]
    BY TimerAfterType
  <2>2. Idle \in Job
    BY SavingType DEF Idle
  <2> QED
    BY <1>4, <2>1, <2>2 DEF SaveReturns, TypeOK, TimerStates
<1>5. ASSUME NEW c \in Clients, StealBinds(c)
      PROVE  TypeOK'
  <2>1. TimerAfter(job[c]) \in [Players -> TimerStates]
    BY TimerAfterType
  <2>2. job[c].next \in Players
    BY <1>5 DEF StealBinds, TypeOK, Job
  <2>3. job[c].ngid \in Gids \cup {NoGid}
    BY DEF TypeOK, Job
  <2> QED
    BY <1>5, <2>1, <2>2, <2>3, BindType DEF StealBinds, TypeOK, States, TimerStates
<1>6. ASSUME NEW p \in Players, OrphanFires(p) \/ OrphanSaved(p)
      PROVE  TypeOK'
  BY <1>6 DEF OrphanFires, OrphanSaved, TypeOK
<1>7. ASSUME NEW t \in Tasks, SaveFails(t)
      PROVE  TypeOK'
  <2>1. Idle \in Job /\ NoLoop \in Loop
    BY SavingType DEF Idle, NoLoop, Scanning, Loop
  <2>2. unsaved' \in SUBSET Players
    BY <1>7 DEF SaveFails, TypeOK
  <2> QED
    BY <1>7, <2>1, <2>2 DEF SaveFails, TypeOK
<1>8. CASE RunLoop
  <2>1. ASSUME queue # << >>
        PROVE  /\ Head(queue) \in Event /\ Tail(queue) \in Seq(Event)
               /\ Head(queue).gids \in SUBSET Gids
    <3>1. queue \in Seq(Event)
      BY DEF TypeOK
    <3>2. Head(queue) \in Event /\ Tail(queue) \in Seq(Event)
      BY <2>1, <3>1
    <3> QED
      BY <3>2 DEF Event
  <2>2. CASE HandleResync
    <3> DEFINE l == [lose |-> {p \in Players : st[p] # "unclaimed"},
                     gids |-> Head(queue).gids,
                     scan |-> Head(queue).gids, again |-> NoGid]
    <3>1. Advance(l, timer) /\ queue' = Tail(queue) /\ UNCHANGED live
      BY <2>2 DEF HandleResync
    <3>2. l \in Loop /\ timer \in [Players -> TimerStates]
      BY <2>1, <2>2 DEF HandleResync, Loop, TypeOK, TimerStates
    <3> HIDE DEF l
    <3> QED
      BY <2>1, <2>2, <3>1, <3>2, AdvanceType DEF HandleResync, TypeOK, States, TimerStates
  <2>3. CASE HandleGone
    <3> DEFINE S == {byGid[g] : g \in Head(queue).gids} \ {NoPlayer}
    <3>1. queue' \in Seq(Event) /\ UNCHANGED <<live, loop, timer>>
      BY <2>1, <2>3 DEF HandleGone
    <3>2. S \subseteq Players
      BY <2>1, <2>3 DEF HandleGone, TypeOK
    <3>3. CASE \E p \in S : MarkLost(Run, Saving(p, TRUE))
      <4>1. PICK p \in S : MarkLost(Run, Saving(p, TRUE))
        BY <3>3
      <4>2. Saving(p, TRUE) \in Job /\ Saving(p, TRUE).who = p /\ p \in Players
        BY <3>2, SavingType DEF Saving
      <4> QED
        BY <3>1, <4>1, <4>2, MarkLostType DEF TypeOK, States
    <3>4. CASE UNCHANGED <<st, gid, byGid, job, unsaved>>
      BY <3>1, <3>4 DEF TypeOK
    <3> QED
      BY <2>3, <3>3, <3>4 DEF HandleGone
  <2>4. CASE HandleSeen
    <3> DEFINE l == Scanning(Head(queue).gids, NoGid)
    <3>1. queue' \in Seq(Event) /\ UNCHANGED live
      BY <2>1, <2>4 DEF HandleSeen
    <3>2. l \in Loop /\ timer \in [Players -> TimerStates]
      BY <2>1, <2>4 DEF HandleSeen, Scanning, Loop, TypeOK, TimerStates
    <3> HIDE DEF l
    <3>3. CASE Advance(l, timer)
      BY <3>1, <3>2, <3>3, AdvanceType DEF TypeOK, States, TimerStates
    <3>4. CASE /\ \E p \in {byGid[g] : g \in Head(queue).gids} \ {NoPlayer} :
                    job' = [job EXCEPT ![Run] = Saving(p, FALSE)]
               /\ UNCHANGED <<st, gid, byGid, loop, timer, unsaved>>
      <4>1. PICK p \in {byGid[g] : g \in Head(queue).gids} \ {NoPlayer} :
              job' = [job EXCEPT ![Run] = Saving(p, FALSE)]
        BY <3>4
      <4>2. p \in Players
        BY <2>1, <2>4 DEF HandleSeen, TypeOK
      <4>3. job' \in [Tasks -> Job]
        BY <4>1, <4>2, SavingType DEF TypeOK
      <4> QED
        BY <3>1, <3>4, <4>3 DEF TypeOK
    <3> QED
      BY <2>4, <3>3, <3>4 DEF HandleSeen, l
  <2>5. CASE RunResumes
    <3>1. TimerAfter(job[Run]) \in [Players -> TimerStates] /\ loop \in Loop
      BY TimerAfterType DEF TypeOK
    <3> QED
      BY <2>5, <3>1, AdvanceType DEF RunResumes, feedVars, TypeOK, States, TimerStates
  <2> QED
    BY <1>8, <2>2, <2>3, <2>4, <2>5 DEF RunLoop
<1>9. CASE UNCHANGED vars
  BY <1>9 DEF vars, TypeOK
<1> QED
  BY <1>1, <1>2, <1>3, <1>4, <1>5, <1>6, <1>7, <1>8, <1>9
  DEF Next, Requests, Replies, Timers

\* The initial state is well typed.
LEMMA TypeInit == Init => TypeOK
<1>1. Idle \in Job /\ NoLoop \in Loop
  BY SavingType DEF Idle, NoLoop, Scanning, Loop
<1>2. << >> \in Seq(Event)
  OBVIOUS
<1> QED
  BY <1>1, <1>2 DEF Init, TypeOK

\* Every variable of the binding manager has its type in every behaviour.
THEOREM TypeCorrect == Spec => []TypeOK
<1>1. Init => TypeOK
  BY TypeInit
<1>2. TypeOK /\ [Next]_vars => TypeOK'
  BY TypeStep
<1> QED
  BY <1>1, <1>2, PTL DEF Spec

-----------------------------------------------------------------------------
(***************************************************************************)
(* The index is exact when the operator does not steal                     *)
(***************************************************************************)

\* A player's record names a GID exactly while he is bound.
Released == \A p \in Players : st[p] = "bound" <=> gid[p] # NoGid

\* No steal is half done.
NoStealing == \A t \in Tasks : job[t].next = NoPlayer

IndexInv == TypeOK /\ IndexExact /\ Released /\ NoStealing

\* The three ways in which a step changes the bindings.
BindStep(p, g) ==
  /\ byGid[g] \in {NoPlayer, p}
  /\ st' = [st EXCEPT ![p] = "bound"]
  /\ gid' = [gid EXCEPT ![p] = g]
  /\ byGid' = [Popped(gid[p]) EXCEPT ![g] = p]

LossStep(p) ==
  /\ st[p] = "bound"
  /\ st' = [st EXCEPT ![p] = "lost"]
  /\ gid' = [gid EXCEPT ![p] = NoGid]
  /\ byGid' = Popped(gid[p])

OrphanStep(p) ==
  /\ st[p] = "lost"
  /\ st' = [st EXCEPT ![p] = "orphaned"]
  /\ UNCHANGED <<gid, byGid>>

Same == UNCHANGED <<st, gid, byGid>>

BoardStep ==
  \/ Same
  \/ \E p \in Players : LossStep(p) \/ OrphanStep(p) \/ \E g \in Gids : BindStep(p, g)

\* _bind with the GID of the record as the old one is a step of the board,
\* and leaves no steal behind.
LEMMA BindIsStep ==
  ASSUME IndexInv,
         NEW t \in Tasks, NEW p \in Players, NEW g \in Gids, NEW old, NEW tm,
         byGid[g] \in {NoPlayer, p}, old = gid[p],
         Bind(t, p, g, old, tm)
  PROVE  BoardStep /\ NoStealing'
<1>1. BindStep(p, g)
  BY DEF Bind, BindStep
<1>2. NoStealing'
  BY SavingType DEF Bind, NoStealing, IndexInv, TypeOK
<1> QED
  BY <1>1, <1>2 DEF BoardStep

\* So is _mark_lost on behalf of a tracking event.
LEMMA LossIsStep ==
  ASSUME IndexInv,
         NEW t \in Tasks, NEW p \in Players,
         MarkLost(t, Saving(p, TRUE))
  PROVE  BoardStep /\ NoStealing'
<1>1. Saving(p, TRUE).who = p
  BY DEF Saving
<1>2. LossStep(p)
  BY <1>1 DEF MarkLost, LossStep
<1>3. NoStealing'
  BY SavingType DEF MarkLost, NoStealing, IndexInv, TypeOK
<1> QED
  BY <1>2, <1>3 DEF BoardStep

\* However the run loop goes on with an event, it takes a step of the board.
LEMMA AdvanceIsStep ==
  ASSUME IndexInv, NEW l \in Loop, NEW tm, Advance(l, tm)
  PROVE  BoardStep /\ NoStealing'
<1> USE Sentinels
<1>1. CASE LoseNext(l, tm)
  BY <1>1, LossIsStep DEF LoseNext, ToLose, Loop
<1>2. CASE AutoRebind(l, tm)
  <2>1. PICK g \in l.scan \cap live, p \in Waiting :
          byGid[g] = NoPlayer /\ Bind(Run, p, g, NoGid, tm)
    BY <1>2 DEF AutoRebind
  <2>2. g \in Gids /\ p \in Players /\ gid[p] = NoGid
    BY DEF Loop, Waiting, IndexInv, Released
  <2> QED
    BY <2>1, <2>2, BindIsStep
<1>3. CASE Ritual(l, tm)
  <2>1. PICK g \in live, p \in Players :
          byGid[g] = NoPlayer /\ st[p] = "orphaned" /\ Bind(Run, p, g, NoGid, tm)
    BY <1>3 DEF Ritual
  <2>2. g \in Gids /\ gid[p] = NoGid
    BY <2>1 DEF IndexInv, TypeOK, Released
  <2> QED
    BY <2>1, <2>2, BindIsStep
<1>4. CASE Finish(l, tm)
  BY <1>4, SavingType DEF Finish, Idle, BoardStep, Same, NoStealing, IndexInv, TypeOK
<1> QED
  BY <1>1, <1>2, <1>3, <1>4 DEF Advance

\* Every step of the manager is a step of the board, if nobody steals.
LEMMA NextIsStep ==
  ASSUME Steals = FALSE, IndexInv, [Next]_vars
  PROVE  BoardStep /\ NoStealing'
<1> USE Sentinels
<1>1. ASSUME NEW c \in Clients, NEW p \in Players, NEW g \in Gids,
             Claim(c, p, g) \/ OperatorRebind(c, p, g)
      PROVE  BoardStep /\ NoStealing'
  <2>1. byGid[g] \in {NoPlayer, p} \cup Unbound /\ Bind(c, p, g, gid[p], timer)
    BY <1>1 DEF Claim, OperatorRebind
  <2>2. byGid[g] \notin Unbound
    BY DEF IndexInv, IndexExact, Unbound
  <2> QED
    BY <2>1, <2>2, BindIsStep
<1>2. ASSUME NEW c \in Clients, SaveReturns(c)
      PROVE  BoardStep /\ NoStealing'
  BY <1>2, SavingType
  DEF SaveReturns, Idle, BoardStep, Same, NoStealing, IndexInv, TypeOK
<1>3. ASSUME NEW c \in Clients
      PROVE  ~ StealBinds(c)
  BY DEF StealBinds, NoStealing, IndexInv
<1>4. ASSUME NEW p \in Players, OrphanFires(p) \/ OrphanSaved(p)
      PROVE  BoardStep /\ NoStealing'
  BY <1>4 DEF OrphanFires, OrphanSaved, OrphanStep, BoardStep, Same, NoStealing, IndexInv
<1>5. ASSUME NEW t \in Tasks, SaveFails(t)
      PROVE  BoardStep /\ NoStealing'
  BY <1>5, SavingType
  DEF SaveFails, Idle, BoardStep, Same, NoStealing, IndexInv, TypeOK
<1>6. CASE Feed
  BY <1>6 DEF Feed, GidSeen, GidGone, Snapshot, Publish, BoardStep, Same, NoStealing, IndexInv
<1>7. ASSUME queue # << >>
      PROVE  Head(queue).gids \in SUBSET Gids
  <2>1. queue \in Seq(Event)
    BY DEF IndexInv, TypeOK
  <2>2. Head(queue) \in Event
    BY <1>7, <2>1
  <2> QED
    BY <2>2 DEF Event
<1>8. CASE HandleResync
  <2> DEFINE l == [lose |-> {p \in Players : st[p] # "unclaimed"},
                   gids |-> Head(queue).gids,
                   scan |-> Head(queue).gids, again |-> NoGid]
  <2>1. Advance(l, timer)
    BY <1>8 DEF HandleResync
  <2>2. l \in Loop
    BY <1>7, <1>8 DEF HandleResync, Loop
  <2> HIDE DEF l
  <2> QED
    BY <2>1, <2>2, AdvanceIsStep
<1>9. CASE HandleGone
  <2> DEFINE S == {byGid[g] : g \in Head(queue).gids} \ {NoPlayer}
  <2>1. S \subseteq Players
    BY <1>7, <1>9 DEF HandleGone, IndexInv, TypeOK
  <2>2. CASE \E p \in S : MarkLost(Run, Saving(p, TRUE))
    BY <2>1, <2>2, LossIsStep
  <2>3. CASE UNCHANGED <<st, gid, byGid, job, unsaved>>
    BY <2>3 DEF BoardStep, Same, NoStealing, IndexInv
  <2> QED
    BY <1>9, <2>2, <2>3 DEF HandleGone
<1>10. CASE HandleSeen
  <2> DEFINE l == Scanning(Head(queue).gids, NoGid)
  <2>1. l \in Loop
    BY <1>7, <1>10 DEF HandleSeen, Scanning, Loop
  <2> HIDE DEF l
  <2>2. CASE Advance(l, timer)
    BY <2>1, <2>2, AdvanceIsStep
  <2>3. CASE /\ \E p \in {byGid[g] : g \in Head(queue).gids} \ {NoPlayer} :
                  job' = [job EXCEPT ![Run] = Saving(p, FALSE)]
             /\ UNCHANGED <<st, gid, byGid, loop, timer, unsaved>>
    <3>1. PICK p \in {byGid[g] : g \in Head(queue).gids} \ {NoPlayer} :
            job' = [job EXCEPT ![Run] = Saving(p, FALSE)]
      BY <2>3
    <3>2. p \in Players
      BY <1>7, <1>10 DEF HandleSeen, IndexInv, TypeOK
    <3>3. NoStealing'
      BY <3>1, <3>2, SavingType DEF NoStealing, IndexInv, TypeOK
    <3> QED
      BY <2>3, <3>3 DEF BoardStep, Same
  <2> QED
    BY <1>10, <2>2, <2>3 DEF HandleSeen, l
<1>11. CASE RunResumes
  <2>1. loop \in Loop
    BY DEF IndexInv, TypeOK
  <2> QED
    BY <1>11, <2>1, AdvanceIsStep DEF RunResumes
<1>12. CASE UNCHANGED vars
  BY <1>12 DEF vars, BoardStep, Same, NoStealing, IndexInv
<1>13. ASSUME NEW c \in Clients, NEW p \in Players, NEW g \in Gids
       PROVE  ~ OperatorSteal(c, p, g)
  BY DEF OperatorSteal
<1> QED
  BY <1>1, <1>2, <1>3, <1>4, <1>5, <1>6, <1>8, <1>9, <1>10, <1>11, <1>12, <1>13
  DEF Next, Requests, Replies, Timers, RunLoop

\* A step of the board keeps the index the inverse of the records.
LEMMA BoardStepKeepsIndex ==
  ASSUME IndexInv, BoardStep
  PROVE  IndexExact' /\ Released'
<1> USE Sentinels DEF IndexInv
<1>1. CASE Same
  BY <1>1 DEF Same, IndexExact, Released
<1>2. ASSUME NEW p \in Players, LossStep(p)
      PROVE  IndexExact' /\ Released'
  BY <1>2 DEF LossStep, Popped, IndexExact, Released, TypeOK
<1>3. ASSUME NEW p \in Players, OrphanStep(p)
      PROVE  IndexExact' /\ Released'
  BY <1>3 DEF OrphanStep, IndexExact, Released, TypeOK
<1>4. ASSUME NEW p \in Players, NEW g \in Gids, BindStep(p, g)
      PROVE  IndexExact' /\ Released'
  BY <1>4 DEF BindStep, Popped, IndexExact, Released, TypeOK
<1> QED
  BY <1>1, <1>2, <1>3, <1>4 DEF BoardStep

\* The strengthened invariant is inductive.
LEMMA IndexInvStep ==
  ASSUME Steals = FALSE, IndexInv, [Next]_vars
  PROVE  IndexInv'
<1>1. BoardStep /\ NoStealing'
  BY NextIsStep
<1>2. IndexExact' /\ Released'
  BY <1>1, BoardStepKeepsIndex
<1>3. TypeOK'
  BY TypeStep DEF IndexInv
<1> QED
  BY <1>1, <1>2, <1>3 DEF IndexInv

\* It holds in the initial state.
LEMMA IndexInvInit == Init => IndexInv
<1> SUFFICES ASSUME Init PROVE IndexInv
  OBVIOUS
<1>1. TypeOK
  BY TypeInit
<1>2. IndexExact /\ Released
  BY Sentinels DEF Init, IndexExact, Released
<1>3. NoStealing
  BY SavingType DEF Init, Idle, NoStealing
<1> QED
  BY <1>1, <1>2, <1>3 DEF IndexInv

\* If the operator never takes a GID from a bound player, _by_gid is the
\* inverse of the players' records in every reachable state, whatever the
\* requests, the tracking events, the orphan tasks and failed saves do.
THEOREM IndexIsExact ==
  ASSUME Steals = FALSE
  PROVE  Spec => []IndexExact
<1>1. Init => IndexInv
  BY IndexInvInit
<1>2. IndexInv /\ [Next]_vars => IndexInv'
  BY IndexInvStep
<1>3. IndexInv => IndexExact
  BY DEF IndexInv
<1> QED
  BY <1>1, <1>2, <1>3, PTL DEF Spec

\* And then no GID is ever bound to two players.
THEOREM OneHolderPerGid ==
  ASSUME Steals = FALSE
  PROVE  Spec => []NoDoubleBinding
<1>1. Init => IndexInv
  BY IndexInvInit
<1>2. IndexInv /\ [Next]_vars => IndexInv'
  BY IndexInvStep
<1>3. IndexInv => NoDoubleBinding
  BY DEF IndexInv, TypeOK, IndexExact, Released, NoDoubleBinding
<1> QED
  BY <1>1, <1>2, <1>3, PTL DEF Spec

\* Under the same assumption the manager implements the board of exclusive
\* bindings of module BindingBoard: every handler is one of its operations, or
\* changes nothing it can see.
THEOREM BoardIsImplemented ==
  ASSUME Steals = FALSE
  PROVE  Spec => BoardSpec
<1>1. Init => Board!Init
  BY DEF Init, Board!Init
<1>2. IndexInv /\ [Next]_vars => [Board!Next]_(Board!boardVars)
  <2> SUFFICES ASSUME IndexInv, [Next]_vars
               PROVE  [Board!Next]_(Board!boardVars)
    OBVIOUS
  <2> USE Sentinels
  <2>1. BoardStep
    BY NextIsStep
  <2>2. CASE Same
    BY <2>2 DEF Same, Board!boardVars
  <2>3. ASSUME NEW p \in Players, LossStep(p)
        PROVE  Board!Lose(p)
    BY <2>3 DEF LossStep, Popped, IndexInv, IndexExact, TypeOK, Board!Lose
  <2>4. ASSUME NEW p \in Players, OrphanStep(p)
        PROVE  Board!Orphan(p)
    BY <2>4 DEF OrphanStep, Board!Orphan
  <2>5. ASSUME NEW p \in Players, NEW g \in Gids, BindStep(p, g)
        PROVE  Board!Take(p, g)
    <3>1. \A h \in Gids : byGid[h] = p <=> gid[p] = h
      BY DEF IndexInv, IndexExact, Released
    <3>2. byGid' = [h \in Gids |-> IF h = g THEN p
                                   ELSE IF byGid[h] = p THEN NoPlayer ELSE byGid[h]]
      BY <2>5, <3>1 DEF BindStep, Popped
    <3> QED
      BY <2>5, <3>2 DEF BindStep, Board!Take
  <2> QED
    BY <2>1, <2>2, <2>3, <2>4, <2>5 DEF BoardStep, Board!Next
<1>3. Init => IndexInv
  BY IndexInvInit
<1>4. IndexInv /\ [Next]_vars => IndexInv'
  BY IndexInvStep
<1> QED
  BY <1>1, <1>2, <1>3, <1>4, PTL DEF Spec, BoardSpec, Board!Spec

-----------------------------------------------------------------------------
(***************************************************************************)
(* Lost players are timed unless their save failed                         *)
(***************************************************************************)

\* A task that waits for nothing starts no orphan task.
LEMMA IdleTimer == TimerAfter(Idle) = timer
BY DEF TimerAfter, Idle, Saving

\* A lost player is in the care of an orphan task, of a task or of nobody.
Timed(q) ==
  \/ timer[q] = "sleep"
  \/ \E u \in Tasks : job[u].who = q /\ job[u].lost
  \/ q \in unsaved

\* A lost player stays so when task t starts the orphan task it owed: somebody
\* else's care is not affected.
LEMMA TimedAfter ==
  ASSUME TypeOK, LostIsTimed,
         NEW t \in Tasks, NEW q \in Players, st[q] = "lost"
  PROVE  \/ TimerAfter(job[t])[q] = "sleep"
         \/ \E u \in Tasks \ {t} : job[u].who = q /\ job[u].lost
         \/ q \in unsaved
<1>1. CASE timer[q] = "sleep"
  BY <1>1 DEF TimerAfter, TypeOK
<1>2. CASE job[t].who = q /\ job[t].lost
  BY <1>2 DEF TimerAfter, TypeOK
<1> QED
  BY <1>1, <1>2 DEF LostIsTimed

\* A bind keeps the lost players timed.
LEMMA BindTimed ==
  ASSUME TypeOK, LostIsTimed,
         NEW t \in Tasks, NEW p \in Players, NEW g, NEW old,
         Bind(t, p, g, old, TimerAfter(job[t]))
  PROVE  LostIsTimed'
<1> SUFFICES ASSUME NEW q \in Players, st'[q] = "lost"
             PROVE  Timed(q)'
  BY DEF LostIsTimed, Timed
<1>1. q # p /\ st[q] = "lost"
  BY DEF Bind, TypeOK
<1>2. CASE TimerAfter(job[t])[q] = "sleep"
  <2>1. TimerAfter(job[t]) \in [Players -> TimerStates]
    BY TimerAfterType
  <2> QED
    BY <1>1, <1>2, <2>1 DEF Bind, Timed
<1>3. CASE \E u \in Tasks \ {t} : job[u].who = q /\ job[u].lost
  BY <1>3 DEF Bind, TypeOK, Timed
<1>4. CASE q \in unsaved
  BY <1>1, <1>4 DEF Bind, Timed
<1> QED
  BY <1>1, <1>2, <1>3, <1>4, TimedAfter

\* A loss puts the new lost player in the care of the task that saves him.
LEMMA LossTimed ==
  ASSUME TypeOK, LostIsTimed,
         NEW t \in Tasks, NEW j, j.lost, j.who \in Players,
         MarkLost(t, j), timer' = TimerAfter(job[t])
  PROVE  LostIsTimed'
<1> SUFFICES ASSUME NEW q \in Players, st'[q] = "lost"
             PROVE  Timed(q)'
  BY DEF LostIsTimed, Timed
<1>1. job'[t] = j /\ \A u \in Tasks \ {t} : job'[u] = job[u]
  BY DEF MarkLost, TypeOK
<1>2. CASE q = j.who
  BY <1>1, <1>2 DEF Timed
<1>3. CASE q # j.who
  <2>1. st[q] = "lost"
    BY <1>3 DEF MarkLost, TypeOK
  <2> QED
    BY <1>1, <2>1, TimedAfter DEF MarkLost, Timed
<1> QED
  BY <1>2, <1>3

\* A task that has nothing more to do hands over to the orphan task.
LEMMA FinishTimed ==
  ASSUME TypeOK, LostIsTimed, NEW t \in Tasks, NEW j,
         job' = [job EXCEPT ![t] = j], timer' = TimerAfter(job[t]), UNCHANGED <<st, unsaved>>
  PROVE  LostIsTimed'
<1> SUFFICES ASSUME NEW q \in Players, st'[q] = "lost"
             PROVE  Timed(q)'
  BY DEF LostIsTimed, Timed
<1>1. \A u \in Tasks \ {t} : job'[u] = job[u]
  BY DEF TypeOK
<1> QED
  BY <1>1, TimedAfter DEF Timed

\* However the run loop goes on with an event, lost players are timed.
LEMMA AdvanceTimed ==
  ASSUME TypeOK, LostIsTimed, NEW l, l.lose \subseteq Players,
         Advance(l, TimerAfter(job[Run]))
  PROVE  LostIsTimed'
<1> USE Sentinels
<1>1. CASE LoseNext(l, TimerAfter(job[Run]))
  <2>1. PICK p \in ToLose(l) :
          MarkLost(Run, Saving(p, TRUE)) /\ timer' = TimerAfter(job[Run])
    BY <1>1 DEF LoseNext
  <2>2. p \in Players /\ Saving(p, TRUE).who = p /\ Saving(p, TRUE).lost
    BY DEF ToLose, Saving
  <2> QED
    BY <2>1, <2>2, LossTimed
<1>2. CASE AutoRebind(l, TimerAfter(job[Run])) \/ Ritual(l, TimerAfter(job[Run]))
  <2>1. PICK p \in Players, g \in live : Bind(Run, p, g, NoGid, TimerAfter(job[Run]))
    BY <1>2 DEF AutoRebind, Ritual, Waiting
  <2> QED
    BY <2>1, BindTimed
<1>3. CASE Finish(l, TimerAfter(job[Run]))
  BY <1>3, FinishTimed DEF Finish
<1> QED
  BY <1>1, <1>2, <1>3 DEF Advance

\* Every step keeps the lost players timed.
LEMMA TimedStep ==
  ASSUME TypeOK, LostIsTimed, [Next]_vars
  PROVE  LostIsTimed'
<1> USE Sentinels
<1>1. CASE Feed
  BY <1>1 DEF Feed, GidSeen, GidGone, Snapshot, Publish, LostIsTimed
<1>2. ASSUME NEW c \in Clients, NEW p \in Players, NEW g \in Gids,
             Claim(c, p, g) \/ OperatorRebind(c, p, g)
      PROVE  LostIsTimed'
  <2>1. TimerAfter(job[c]) = timer
    BY <1>2, IdleTimer DEF Claim, OperatorRebind
  <2> QED
    BY <1>2, <2>1, BindTimed DEF Claim, OperatorRebind
<1>3. ASSUME NEW c \in Clients, NEW p \in Players, NEW g \in Gids,
             OperatorSteal(c, p, g)
      PROVE  LostIsTimed'
  <2>1. timer' = TimerAfter(job[c])
    BY <1>3, IdleTimer DEF OperatorSteal
  <2>2. byGid[g] \in Players
    BY <1>3 DEF OperatorSteal, TypeOK
  <2> DEFINE j == [who |-> byGid[g], lost |-> TRUE,
                   next |-> p, ngid |-> g, nold |-> gid[p]]
  <2>3. j.lost /\ j.who \in Players /\ MarkLost(c, j)
    BY <1>3, <2>2 DEF OperatorSteal
  <2> HIDE DEF j
  <2> QED
    BY <2>1, <2>3, LossTimed
<1>4. ASSUME NEW c \in Clients, SaveReturns(c)
      PROVE  LostIsTimed'
  BY <1>4, FinishTimed DEF SaveReturns
<1>5. ASSUME NEW c \in Clients, StealBinds(c)
      PROVE  LostIsTimed'
  <2>1. job[c].next \in Players
    BY <1>5 DEF StealBinds, TypeOK, Job
  <2> QED
    BY <1>5, <2>1, BindTimed DEF StealBinds
<1>6. ASSUME NEW p \in Players, OrphanFires(p) \/ OrphanSaved(p)
      PROVE  LostIsTimed'
  BY <1>6 DEF OrphanFires, OrphanSaved, LostIsTimed, TypeOK
<1>7. ASSUME NEW t \in Tasks, SaveFails(t)
      PROVE  LostIsTimed'
  <2> SUFFICES ASSUME NEW q \in Players, st[q] = "lost"
               PROVE  Timed(q)'
    BY <1>7 DEF SaveFails, LostIsTimed, Timed
  <2>1. CASE timer[q] = "sleep" \/ q \in unsaved
    BY <1>7, <2>1 DEF SaveFails, Timed
  <2>2. CASE job[t].who = q /\ job[t].lost
    BY <1>7, <2>2 DEF SaveFails, Timed
  <2>3. CASE \E u \in Tasks \ {t} : job[u].who = q /\ job[u].lost
    BY <1>7, <2>3 DEF SaveFails, Timed, TypeOK
  <2> QED
    BY <2>1, <2>2, <2>3 DEF LostIsTimed
<1>8. ASSUME queue # << >>
      PROVE  Head(queue).gids \in SUBSET Gids
  <2>1. queue \in Seq(Event)
    BY DEF TypeOK
  <2>2. Head(queue) \in Event
    BY <1>8, <2>1
  <2> QED
    BY <2>2 DEF Event
<1>9. job[Run] = Idle => timer = TimerAfter(job[Run])
  BY IdleTimer
<1>10. CASE HandleResync
  <2> DEFINE l == [lose |-> {p \in Players : st[p] # "unclaimed"},
                   gids |-> Head(queue).gids,
                   scan |-> Head(queue).gids, again |-> NoGid]
  <2>1. Advance(l, TimerAfter(job[Run])) /\ l.lose \subseteq Players
    BY <1>9, <1>10 DEF HandleResync, Free
  <2> HIDE DEF l
  <2> QED
    BY <2>1, AdvanceTimed
<1>11. CASE HandleGone
  <2>1. timer' = TimerAfter(job[Run])
    BY <1>9, <1>11 DEF HandleGone, Free
  <2> DEFINE S == {byGid[g] : g \in Head(queue).gids} \ {NoPlayer}
  <2>2. S \subseteq Players
    BY <1>8, <1>11 DEF HandleGone, TypeOK
  <2>3. CASE \E p \in S : MarkLost(Run, Saving(p, TRUE))
    <3>1. PICK p \in S : MarkLost(Run, Saving(p, TRUE))
      BY <2>3
    <3>2. Saving(p, TRUE).lost /\ Saving(p, TRUE).who \in Players
      BY <2>2 DEF Saving
    <3> QED
      BY <2>1, <3>1, <3>2, LossTimed
  <2>4. CASE UNCHANGED <<st, gid, byGid, job, unsaved>>
    BY <1>11, <2>4 DEF HandleGone, LostIsTimed
  <2> QED
    BY <1>11, <2>3, <2>4 DEF HandleGone
<1>12. CASE HandleSeen
  <2> DEFINE l == Scanning(Head(queue).gids, NoGid)
  <2>1. l.lose \subseteq Players
    BY DEF Scanning
  <2> HIDE DEF l
  <2>2. CASE Advance(l, timer)
    BY <1>9, <1>12, <2>1, <2>2, AdvanceTimed DEF HandleSeen, Free
  <2>3. CASE /\ \E p \in {byGid[g] : g \in Head(queue).gids} \ {NoPlayer} :
                  job' = [job EXCEPT ![Run] = Saving(p, FALSE)]
             /\ UNCHANGED <<st, gid, byGid, loop, timer, unsaved>>
    <3>1. timer' = TimerAfter(job[Run])
      BY <1>9, <1>12, <2>3 DEF HandleSeen, Free
    <3> QED
      BY <2>3, <3>1, FinishTimed
  <2> QED
    BY <1>12, <2>2, <2>3 DEF HandleSeen, l
<1>13. CASE RunResumes
  <2>1. loop.lose \subseteq Players
    BY DEF TypeOK, Loop
  <2> QED
    BY <1>13, <2>1, AdvanceTimed DEF RunResumes
<1>14. CASE UNCHANGED vars
  BY <1>14 DEF vars, LostIsTimed
<1> QED
  BY <1>1, <1>2, <1>3, <1>4, <1>5, <1>6, <1>7, <1>10, <1>11, <1>12, <1>13, <1>14
  DEF Next, Requests, Replies, Timers, RunLoop

\* A lost player always has an orphan task, or the _mark_lost that will start
\* one is still saving him, or failed to -- even when operators steal GIDs from
\* under the run loop and the queue drops events.
THEOREM LostPlayersAreTimed == Spec => []LostIsTimed
<1>1. Init => TypeOK /\ LostIsTimed
  BY TypeInit DEF Init, LostIsTimed
<1>2. TypeOK /\ LostIsTimed /\ [Next]_vars => TypeOK' /\ LostIsTimed'
  BY TypeStep, TimedStep
<1> QED
  BY <1>1, <1>2, PTL DEF Spec

-----------------------------------------------------------------------------
(***************************************************************************)
(* Nobody stays attached to a ghost, without steals, failures and drops    *)
(***************************************************************************)

\* A disappearance names one GID, and run has no unfinished event while it
\* waits for the queue.
LossesAreSingle ==
  \A i \in 1 .. Len(queue) :
    queue[i].type = "gone" => \E g \in Gids : queue[i].gids = {g}

FreeIsDone == job[Run] = Idle => loop = NoLoop

DeadInv == IndexInv /\ NoDeadBinding /\ LossesAreSingle /\ FreeIsDone

\* News of a loss somewhere in the queue.
Queued(g) == \E i \in 1 .. Len(queue) : Kills(queue[i], g)

\* A new event goes behind the news already queued.
LEMMA AppendKeepsNews ==
  ASSUME queue \in Seq(Event), NEW e \in Event, queue' = Append(queue, e), NEW g
  PROVE  Queued(g) \/ Kills(e, g) => Queued(g)'
<1>1. /\ Len(queue') = Len(queue) + 1 /\ queue'[Len(queue) + 1] = e
      /\ Len(queue) \in Nat
      /\ \A i \in 1 .. Len(queue) : queue'[i] = queue[i]
  OBVIOUS
<1>2. ASSUME NEW i \in 1 .. Len(queue), Kills(queue[i], g)
      PROVE  Queued(g)'
  <2>1. i \in 1 .. Len(queue') /\ Kills(queue'[i], g)
    BY <1>1, <1>2
  <2> QED
    BY <2>1 DEF Queued, Kills
<1>3. ASSUME Kills(e, g)
      PROVE  Queued(g)'
  <2>1. Len(queue) + 1 \in 1 .. Len(queue') /\ Kills(queue'[Len(queue) + 1], g)
    BY <1>1, <1>3
  <2> QED
    BY <2>1 DEF Queued, Kills
<1> QED
  BY <1>2, <1>3 DEF Queued

\* Taking the head leaves the news behind it.
LEMMA TailKeepsNews ==
  ASSUME queue \in Seq(Event), queue # << >>, queue' = Tail(queue), NEW g,
         Queued(g), ~ Kills(Head(queue), g)
  PROVE  Queued(g)'
<1>1. PICK i \in 1 .. Len(queue) : Kills(queue[i], g)
  BY DEF Queued
<1>2. i # 1 /\ Len(queue) \in Nat
  BY <1>1
<1>3. i - 1 \in 1 .. Len(queue') /\ queue'[i - 1] = queue[i]
  BY <1>2
<1>4. Kills(queue'[i - 1], g)
  BY <1>1, <1>3
<1> QED
  BY <1>3, <1>4 DEF Queued, Kills

\* Neither appending nor taking makes a disappearance name more GIDs.
LEMMA LossesStaySingle ==
  ASSUME queue \in Seq(Event), LossesAreSingle,
         \/ UNCHANGED queue
         \/ queue # << >> /\ queue' = Tail(queue)
         \/ \E e \in Event : /\ queue' = Append(queue, e)
                             /\ e.type = "gone" => \E g \in Gids : e.gids = {g}
  PROVE  LossesAreSingle'
<1>1. CASE UNCHANGED queue
  BY <1>1 DEF LossesAreSingle
<1>2. CASE queue # << >> /\ queue' = Tail(queue)
  <2>1. \A i \in 1 .. Len(queue') : i + 1 \in 1 .. Len(queue) /\ queue'[i] = queue[i + 1]
    BY <1>2
  <2> QED
    BY <2>1 DEF LossesAreSingle
<1>3. ASSUME NEW e \in Event, queue' = Append(queue, e),
             e.type = "gone" => \E g \in Gids : e.gids = {g}
      PROVE  LossesAreSingle'
  <2>1. \A i \in 1 .. Len(queue') : \/ i \in 1 .. Len(queue) /\ queue'[i] = queue[i]
                                    \/ queue'[i] = e
    BY <1>3
  <2> QED
    BY <1>3, <2>1 DEF LossesAreSingle
<1> QED
  BY <1>1, <1>2, <1>3

\* A step binds to visible GIDs only: whoever is bound after it was so before,
\* to the same GID, or holds a visible one.
Settled(q) == \/ gid'[q] \in live
              \/ st[q] = "bound" /\ gid'[q] = gid[q]

LEMMA BindSettles ==
  ASSUME TypeOK, NEW t, NEW p \in Players, NEW g \in live, NEW old, NEW tm,
         Bind(t, p, g, old, tm), NEW q \in Players, st'[q] = "bound"
  PROVE  Settled(q)
BY DEF Bind, Settled, TypeOK

LEMMA LossSettles ==
  ASSUME TypeOK, NEW t, NEW j, MarkLost(t, j), NEW q \in Players, st'[q] = "bound"
  PROVE  Settled(q) /\ q # j.who
BY DEF MarkLost, Settled, TypeOK

\* The run loop keeps what it still has to lose, and is done when it is free.
LEMMA AdvanceKeepsNews ==
  ASSUME TypeOK, NEW l \in Loop, NEW tm, Advance(l, tm)
  PROVE  /\ FreeIsDone'
         /\ \A q \in Players : st'[q] = "bound" =>
              /\ Settled(q)
              /\ q \in l.lose /\ st[q] = "bound" /\ gid[q] \notin l.gids =>
                   q \in loop'.lose /\ gid[q] \notin loop'.gids
<1> USE Sentinels
<1>1. CASE LoseNext(l, tm)
  <2>1. PICK p \in ToLose(l), rest \in SUBSET l.lose :
          /\ ToLose(l) \ {p} \subseteq rest
          /\ MarkLost(Run, Saving(p, TRUE))
          /\ loop' = [l EXCEPT !.lose = rest]
    BY <1>1 DEF LoseNext
  <2>2. p \in Players /\ Saving(p, TRUE).who = p
    BY DEF ToLose, Loop, Saving
  <2>3. job'[Run] # Idle
    BY <2>1, <2>2 DEF MarkLost, TypeOK, Idle, Saving
  <2>4. loop'.lose = rest /\ loop'.gids = l.gids
    BY <2>1 DEF Loop
  <2>5. ASSUME NEW q \in Players, st'[q] = "bound"
        PROVE  Settled(q) /\ q # p
    BY <2>1, <2>2, <2>5, LossSettles
  <2>6. ASSUME NEW q \in Players, st'[q] = "bound",
               q \in l.lose, st[q] = "bound", gid[q] \notin l.gids
        PROVE  q \in rest
    <3>1. q \in ToLose(l)
      BY <2>6 DEF ToLose
    <3> QED
      BY <2>1, <2>5, <2>6, <3>1
  <2> QED
    BY <2>3, <2>4, <2>5, <2>6 DEF FreeIsDone
<1>2. CASE AutoRebind(l, tm) \/ Ritual(l, tm)
  <2>1. PICK p \in Players, g \in live : Bind(Run, p, g, NoGid, tm)
    BY <1>2 DEF AutoRebind, Ritual, Waiting
  <2>2. ToLose(l) = {}
    BY <1>2 DEF AutoRebind, Ritual
  <2>3. job'[Run] # Idle
    BY <2>1 DEF Bind, TypeOK, Idle, Saving
  <2>4. ASSUME NEW q \in Players, st'[q] = "bound"
        PROVE  Settled(q)
    BY <2>1, <2>4, BindSettles
  <2> QED
    BY <2>2, <2>3, <2>4 DEF FreeIsDone, ToLose
<1>3. CASE Finish(l, tm)
  <2>1. ToLose(l) = {} /\ loop' = NoLoop /\ UNCHANGED <<st, gid>>
    BY <1>3 DEF Finish
  <2>2. FreeIsDone'
    BY <2>1 DEF FreeIsDone, NoLoop, Scanning
  <2> QED
    BY <2>1, <2>2 DEF ToLose, Settled
<1> QED
  BY <1>1, <1>2, <1>3 DEF Advance

\* Nobody is left on a ghost by a step that binds to visible GIDs only and
\* keeps the news of every loss it does not act on.
LEMMA NewsSuffices ==
  ASSUME TypeOK, NoDeadBinding, UNCHANGED live,
         \A q \in Players : st'[q] = "bound" =>
           /\ Settled(q)
           /\ st[q] = "bound" /\ gid'[q] = gid[q] /\ LossPending(q) => LossPending(q)'
  PROVE  NoDeadBinding'
BY DEF NoDeadBinding, Settled

\* A step of a request or an orphan task touches neither the queue nor the loop.
LEMMA OthersKeepNews ==
  ASSUME TypeOK, NoDeadBinding, LossesAreSingle,
         UNCHANGED <<live, queue, loop>>,
         \A q \in Players : st'[q] = "bound" => Settled(q)
  PROVE  NoDeadBinding' /\ LossesAreSingle'
<1>1. LossesAreSingle'
  BY DEF LossesAreSingle
<1>2. \A q \in Players : gid'[q] = gid[q] /\ LossPending(q) => LossPending(q)'
  BY DEF LossPending, Kills
<1> QED
  BY <1>1, <1>2, NewsSuffices

\* A step of a request leaves run as it is.
LEMMA OthersKeepFree ==
  ASSUME TypeOK, FreeIsDone, NEW c \in Clients, NEW j,
         job' = [job EXCEPT ![c] = j], UNCHANGED loop
  PROVE  FreeIsDone'
BY SentinelAssumption DEF FreeIsDone, TypeOK, Tasks

\* The strengthened invariant is kept when nobody steals, no save fails and no
\* event is dropped.
LEMMA DeadInvStep ==
  ASSUME Steals = FALSE, Failures = FALSE, Overflow = FALSE, DeadInv, [Next]_vars
  PROVE  DeadInv'
<1> USE Sentinels DEF DeadInv
<1> SUFFICES NoDeadBinding' /\ LossesAreSingle' /\ FreeIsDone'
  BY IndexInvStep
<1>a. TypeOK /\ queue \in Seq(Event)
  BY DEF IndexInv, TypeOK
<1>1. CASE Feed
  <2>1. PICK e \in Event :
          /\ Publish(e)
          /\ e.type = "gone" => \E g \in Gids : e.gids = {g}
          /\ \A q \in Players : gid[q] \in live => gid[q] \in live' \/ Kills(e, gid[q])
    BY <1>1, <1>a, EventTypes
    DEF Feed, GidSeen, GidGone, Snapshot, Seen, Gone, Resync, Kills
  <2>2. /\ queue' = Append(queue, e)
        /\ UNCHANGED <<st, gid, loop, job>>
    BY <2>1 DEF Publish
  <2>3. ASSUME NEW q \in Players, st'[q] = "bound", gid[q] \notin live'
        PROVE  LossPending(q)'
    <3>1. LossPending(q) \/ Kills(e, gid[q])
      BY <2>1, <2>2, <2>3 DEF NoDeadBinding
    <3>2. CASE Queued(gid[q]) \/ Kills(e, gid[q])
      <4>1. Queued(gid[q])'
        BY <1>a, <2>2, <3>2, AppendKeepsNews DEF Queued, Kills
      <4> QED
        BY <2>2, <4>1 DEF Queued, LossPending
    <3>3. CASE q \in loop.lose /\ gid[q] \notin loop.gids
      BY <2>2, <3>3 DEF LossPending
    <3> QED
      BY <3>1, <3>2, <3>3 DEF LossPending, Queued
  <2>4. NoDeadBinding'
    BY <2>2, <2>3 DEF NoDeadBinding
  <2>5. LossesAreSingle'
    BY <1>a, <2>1, <2>2, LossesStaySingle
  <2> QED
    BY <2>2, <2>4, <2>5 DEF FreeIsDone
<1>2. ASSUME NEW c \in Clients, NEW p \in Players, NEW g \in Gids,
             Claim(c, p, g) \/ OperatorRebind(c, p, g)
      PROVE  NoDeadBinding' /\ LossesAreSingle' /\ FreeIsDone'
  <2>1. g \in live /\ Bind(c, p, g, gid[p], timer) /\ UNCHANGED <<live, queue, loop>>
    BY <1>2 DEF Claim, OperatorRebind
  <2>2. FreeIsDone'
    BY <1>a, <2>1, OthersKeepFree DEF Bind
  <2> QED
    BY <1>a, <2>1, <2>2, BindSettles, OthersKeepNews
<1>3. ASSUME NEW c \in Clients, SaveReturns(c)
      PROVE  NoDeadBinding' /\ LossesAreSingle' /\ FreeIsDone'
  <2>1. FreeIsDone'
    BY <1>a, <1>3, OthersKeepFree DEF SaveReturns
  <2> QED
    BY <1>a, <1>3, <2>1, OthersKeepNews DEF SaveReturns, Settled
<1>4. ASSUME NEW p \in Players, OrphanFires(p) \/ OrphanSaved(p)
      PROVE  NoDeadBinding' /\ LossesAreSingle' /\ FreeIsDone'
  <2>1. FreeIsDone'
    BY <1>4 DEF OrphanFires, OrphanSaved, FreeIsDone
  <2>2. \A q \in Players : st'[q] = "bound" => Settled(q)
    BY <1>4, <1>a DEF OrphanFires, OrphanSaved, Settled, TypeOK
  <2> QED
    BY <1>a, <1>4, <2>1, <2>2, OthersKeepNews DEF OrphanFires, OrphanSaved
<1>5. ASSUME queue # << >>
      PROVE  Head(queue) \in Event /\ Head(queue).gids \in SUBSET Gids
  <2>1. Head(queue) \in Event
    BY <1>5, <1>a
  <2> QED
    BY <2>1 DEF Event
<1>6. CASE HandleResync
  <2> DEFINE l == [lose |-> {p \in Players : st[p] # "unclaimed"},
                   gids |-> Head(queue).gids,
                   scan |-> Head(queue).gids, again |-> NoGid]
  <2>1. /\ Advance(l, timer) /\ loop = NoLoop /\ UNCHANGED live
        /\ queue # << >> /\ queue' = Tail(queue) /\ Head(queue).type = "resync"
    BY <1>6 DEF HandleResync, FreeIsDone, Free
  <2>2. l \in Loop
    BY <1>5, <2>1 DEF Loop
  <2>3. /\ FreeIsDone'
        /\ \A q \in Players : st'[q] = "bound" =>
             /\ Settled(q)
             /\ q \in l.lose /\ st[q] = "bound" /\ gid[q] \notin l.gids =>
                  q \in loop'.lose /\ gid[q] \notin loop'.gids
    <3> HIDE DEF l
    <3> QED
      BY <1>a, <2>1, <2>2, AdvanceKeepsNews
  <2>4. ASSUME NEW q \in Players, st'[q] = "bound",
               st[q] = "bound", gid'[q] = gid[q], LossPending(q)
        PROVE  LossPending(q)'
    <3>1. Queued(gid[q])
      BY <2>1, <2>4 DEF LossPending, Queued, NoLoop, Scanning
    <3>2. CASE Kills(Head(queue), gid[q])
      BY <2>1, <2>3, <2>4, <3>2 DEF Kills, LossPending
    <3>3. CASE ~ Kills(Head(queue), gid[q])
      <4>1. Queued(gid[q])'
        BY <1>a, <2>1, <2>4, <3>1, <3>3, TailKeepsNews DEF Queued, Kills
      <4> QED
        BY <2>4, <4>1 DEF Queued, LossPending
    <3> QED
      BY <3>2, <3>3
  <2>5. LossesAreSingle'
    BY <1>a, <2>1, LossesStaySingle
  <2> QED
    BY <1>a, <2>1, <2>3, <2>4, <2>5, NewsSuffices
<1>7. CASE HandleGone
  <2>1. /\ loop' = NoLoop /\ UNCHANGED <<live, loop>>
        /\ queue # << >> /\ queue' = Tail(queue) /\ Head(queue).type = "gone"
    BY <1>7 DEF HandleGone, FreeIsDone, Free
  <2>2. PICK g \in Gids : Head(queue).gids = {g}
    <3>1. 1 \in 1 .. Len(queue) /\ Head(queue) = queue[1]
      BY <1>a, <2>1
    <3> QED
      BY <2>1, <3>1 DEF LossesAreSingle
  <2> DEFINE S == {byGid[h] : h \in Head(queue).gids}
  <2>3. S = {byGid[g]}
    BY <2>2
  <2>4. \/ byGid[g] # NoPlayer /\ MarkLost(Run, Saving(byGid[g], TRUE))
        \/ /\ byGid[g] # NoPlayer => st[byGid[g]] # "bound"
           /\ UNCHANGED <<st, gid>>
    BY <1>7, <2>3 DEF HandleGone
  <2>5. ASSUME NEW q \in Players, st'[q] = "bound"
        PROVE  Settled(q) /\ (st[q] = "bound" => gid[q] # g)
    <3>1. st[q] = "bound" /\ gid[q] = g => byGid[g] = q /\ q # NoPlayer
      BY DEF IndexInv, IndexExact
    <3>2. CASE byGid[g] # NoPlayer /\ MarkLost(Run, Saving(byGid[g], TRUE))
      BY <1>a, <2>5, <3>1, <3>2, LossSettles DEF Saving
    <3>3. CASE /\ byGid[g] # NoPlayer => st[byGid[g]] # "bound"
               /\ UNCHANGED <<st, gid>>
      BY <2>5, <3>1, <3>3 DEF Settled
    <3> QED
      BY <2>4, <3>2, <3>3
  <2>6. ASSUME NEW q \in Players, st'[q] = "bound",
               st[q] = "bound", gid'[q] = gid[q], LossPending(q)
        PROVE  LossPending(q)'
    <3>1. Queued(gid[q])
      BY <2>1, <2>6 DEF LossPending, Queued, NoLoop, Scanning
    <3>2. ~ Kills(Head(queue), gid[q])
      BY <2>1, <2>2, <2>5, <2>6 DEF Kills
    <3>3. Queued(gid[q])'
      BY <1>a, <2>1, <2>6, <3>1, <3>2, TailKeepsNews DEF Queued, Kills
    <3> QED
      BY <2>6, <3>3 DEF Queued, LossPending
  <2>7. LossesAreSingle'
    BY <1>a, <2>1, LossesStaySingle
  <2>8. FreeIsDone'
    BY <2>1 DEF FreeIsDone, NoLoop, Scanning
  <2> QED
    BY <1>a, <2>1, <2>5, <2>6, <2>7, <2>8, NewsSuffices
<1>8. CASE HandleSeen
  <2> DEFINE l == Scanning(Head(queue).gids, NoGid)
  <2>1. /\ loop = NoLoop /\ UNCHANGED live
        /\ queue # << >> /\ queue' = Tail(queue) /\ Head(queue).type = "seen"
    BY <1>8 DEF HandleSeen, FreeIsDone, Free
  <2>2. l \in Loop
    BY <1>5, <2>1 DEF Loop, Scanning
  <2>3. FreeIsDone' /\ \A q \in Players : st'[q] = "bound" => Settled(q)
    <3> HIDE DEF l
    <3>1. CASE Advance(l, timer)
      BY <1>a, <2>2, <3>1, AdvanceKeepsNews
    <3>2. CASE UNCHANGED <<st, gid, loop>>
      BY <2>1, <3>2 DEF FreeIsDone, Settled, NoLoop, Scanning
    <3> QED
      BY <1>8, <3>1, <3>2 DEF HandleSeen, l
  <2>4. ASSUME NEW q \in Players, gid'[q] = gid[q], LossPending(q)
        PROVE  LossPending(q)'
    <3>1. Queued(gid[q]) /\ ~ Kills(Head(queue), gid[q])
      BY <2>1, <2>4 DEF LossPending, Queued, NoLoop, Scanning, Kills
    <3>2. Queued(gid[q])'
      BY <1>a, <2>1, <2>4, <3>1, TailKeepsNews DEF Queued, Kills
    <3> QED
      BY <2>4, <3>2 DEF Queued, LossPending
  <2>5. LossesAreSingle'
    BY <1>a, <2>1, LossesStaySingle
  <2> QED
    BY <1>a, <2>1, <2>3, <2>4, <2>5, NewsSuffices
<1>9. CASE RunResumes
  <2>1. Advance(loop, TimerAfter(job[Run])) /\ UNCHANGED <<live, queue>> /\ loop \in Loop
    BY <1>9, <1>a DEF RunResumes, feedVars, TypeOK
  <2>2. /\ FreeIsDone'
        /\ \A q \in Players : st'[q] = "bound" =>
             /\ Settled(q)
             /\ q \in loop.lose /\ st[q] = "bound" /\ gid[q] \notin loop.gids =>
                  q \in loop'.lose /\ gid[q] \notin loop'.gids
    BY <1>a, <2>1, AdvanceKeepsNews
  <2>3. ASSUME NEW q \in Players, st'[q] = "bound",
               st[q] = "bound", gid'[q] = gid[q], LossPending(q)
        PROVE  LossPending(q)'
    BY <2>1, <2>2, <2>3 DEF LossPending, Kills
  <2>4. LossesAreSingle'
    BY <2>1 DEF LossesAreSingle
  <2> QED
    BY <1>a, <2>1, <2>2, <2>3, <2>4, NewsSuffices
<1>10. CASE UNCHANGED vars
  BY <1>10 DEF vars, NoDeadBinding, LossPending, Kills, LossesAreSingle, FreeIsDone
<1>11. ASSUME NEW t \in Tasks
       PROVE  ~ SaveFails(t)
  BY DEF SaveFails
<1>12. ASSUME NEW c \in Clients
       PROVE  ~ StealBinds(c) /\ \A p \in Players, g \in Gids : ~ OperatorSteal(c, p, g)
  BY DEF StealBinds, OperatorSteal, NoStealing, IndexInv
<1> QED
  BY <1>1, <1>2, <1>3, <1>4, <1>6, <1>7, <1>8, <1>9, <1>10, <1>11, <1>12
  DEF Next, Requests, Replies, Timers, RunLoop

\* If nobody steals, no save fails and the queue suffices, a player is bound to
\* a GID that is not visible only while the news of its loss is on its way to
\* him, for any number of players, GIDs, callers and queued events.
THEOREM NobodyKeepsAGhost ==
  ASSUME Steals = FALSE, Failures = FALSE, Overflow = FALSE
  PROVE  Spec => []NoDeadBinding
<1>1. Init => DeadInv
  <2>1. Init => IndexInv
    BY IndexInvInit
  <2>2. Init => NoDeadBinding /\ LossesAreSingle /\ FreeIsDone
    BY DEF Init, NoDeadBinding, LossesAreSingle, FreeIsDone
  <2> QED
    BY <2>1, <2>2 DEF DeadInv
<1>2. DeadInv /\ [Next]_vars => DeadInv'
  BY DeadInvStep
<1>3. DeadInv => NoDeadBinding
  BY DEF DeadInv
<1> QED
  BY <1>1, <1>2, <1>3, PTL DEF Spec

=============================================================================
