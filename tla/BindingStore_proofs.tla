------------------------ MODULE BindingStore_proofs ------------------------
(***************************************************************************)
(* Theorems about BindingStore, for every set of players, GIDs and callers, *)
(* whoever steals, whatever fails, times out, is resent, abandoned or lost, *)
(* however late it is served, and any number of restarts: the two           *)
(* properties of its run.                                                   *)
(*                                                                          *)
(* Apart from the services of the database and the crash, every step is one *)
(* of Bindings in which one writer may start a write.  Effect(w) says what  *)
(* such a step may do; SendKeeps is the one place where writes are counted. *)
(***************************************************************************)
EXTENDS BindingStore, Bindings_proofs

\* Rows as they are written: only a bound player's row names a GID.
Written == {r \in Row : r.st # "bound" => r.gid = NoGid}

StoreTypes ==
  /\ TypeOK
  /\ db \in [Players -> {NoRow} \cup Written]
  /\ wire \in [Writers -> {NoRow} \cup Written]
  /\ ghost \subseteq [who : Players, row : Written]

\* The records: who is not bound has no GID, and who is in the index is known.
MemoryInv ==
  /\ \A p \in Players : st[p] # "bound" => gid[p] = NoGid
  /\ \A g \in Gids, p \in Players : byGid[g] = p => st[p] # "unclaimed"

\* A write under way belongs to a task that awaits it, about a player.
WireInv ==
  /\ \A t \in Tasks : wire[t] # NoRow => job[t].who \in Players
  /\ \A p \in Players : wire[p] # NoRow => timer[p] = "save"

\* The player of one write at the most, which will make the row what it should
\* be; or of none, and the row is that already.
Serial(p) ==
  /\ \A w \in Pending : Subject(w) = p => wire[w] = InMemory(p)
  /\ \A v, w \in Pending : Subject(v) = p /\ Subject(w) = p => v = w
  /\ (\A w \in Pending : Subject(w) # p) => db[p] = InMemory(p)

SerialInv ==
  /\ \A x \in ghost : x.who \in suspect \/ x.row = InMemory(x.who)
  /\ \A p \in Players \ suspect : Serial(p)

StoreInv == StoreTypes /\ MemoryInv /\ WireInv /\ SerialInv

LEMMA WriterKinds ==
  /\ Writers = Tasks \cup Players /\ Tasks \cap Players = {}
  /\ Run \in Tasks /\ Clients \subseteq Tasks
BY StoreAssumption DEF Writers, Tasks

LEMMA NoRowIsNone == NoRow \notin Row /\ Orphaned \in Written /\ Orphaned # NoRow
BY DEF NoRow, Row, Orphaned, Written

\* What is under way is a row of a player, awaited or not.
LEMMA AttemptType ==
  ASSUME StoreInv, NEW w \in Writers
  PROVE  /\ Attempt(w) \subseteq [who : Players, row : Written]
         /\ w \in Pending => Subject(w) \in Players /\ wire[w] \in Written
<1>1. w \in Pending => Subject(w) \in Players /\ wire[w] \in Written
  BY WriterKinds DEF Pending, Subject, StoreInv, WireInv, StoreTypes
<1> QED  BY <1>1 DEF Attempt

-----------------------------------------------------------------------------
(* A step in which writer w may start a write.                             *)

Whose(w) == IF w \in Players THEN w ELSE job'[w].who

Effect(w) ==
  /\ wire[w] = NoRow
  /\ \A t \in Tasks \ {w} : job'[t] = job[t]
  /\ \A q \in Players \ {w} : timer'[q] = timer[q] \/ timer'[q] # "save"
  /\ \A q \in Players : \/ st'[q] = st[q] /\ gid'[q] = gid[q]
                        \/ q = Whose(w) /\ Called(w) # NoRow
  /\ Called(w) # NoRow =>
       /\ Whose(w) \in Players
       /\ st'[Whose(w)] # "unclaimed"
       /\ Called(w) = [st |-> st'[Whose(w)], gid |-> gid'[Whose(w)]]

LEMMA SendKeeps ==
  ASSUME StoreInv, TypeOK', MemoryInv', NEW w \in Writers, Effect(w), Send(w)
  PROVE  StoreInv'
<1> DEFINE row == Called(w)
           dropped == Cancelled(w) \cap Pending
<1>0. /\ db' = db
      /\ wire' = [v \in Writers |-> IF v = w THEN row
                                    ELSE IF v \in dropped THEN NoRow ELSE wire[v]]
      /\ ghost' = ghost \cup UNION {Attempt(v) : v \in dropped}
      /\ dropped \subseteq suspect'
      /\ row = NoRow => suspect \subseteq suspect'
      /\ \A p : p \in suspect /\ p # Whose(w) => p \in suspect'
      /\ row # NoRow /\ Whose(w) \notin suspect' =>
           /\ \A x \in ghost' : x.who # Whose(w)
           /\ \A v \in Pending : v \notin {w} \cup dropped => Subject(v) # Whose(w)
  BY DEF Send, Whose
<1>1. row \in {NoRow} \cup Written
  <2> SUFFICES ASSUME row # NoRow PROVE row \in Written
    OBVIOUS
  <2>1. st'[Whose(w)] \in {"bound", "lost", "orphaned"} /\ gid'[Whose(w)] \in Gids \cup {NoGid}
    BY DEF Effect, TypeOK
  <2> QED  BY <2>1 DEF Effect, Written, Row, MemoryInv
<1>2. StoreTypes'
  <2>1. ghost' \subseteq [who : Players, row : Written]
    BY <1>0, AttemptType DEF StoreInv, StoreTypes, Pending
  <2> QED  BY <1>0, <1>1, <2>1 DEF StoreInv, StoreTypes, Cancelled
<1>3. WireInv'
  <2>1. ASSUME NEW t \in Tasks, wire'[t] # NoRow PROVE job'[t].who \in Players
    BY <2>1, <1>0, WriterKinds DEF Effect, Whose, StoreInv, WireInv
  <2>2. ASSUME NEW p \in Players, wire'[p] # NoRow PROVE timer'[p] = "save"
    <3>1. CASE p = w
      BY <3>1, <2>2, <1>0, WriterKinds DEF Called
    <3>2. CASE p # w
      <4>1. wire[p] # NoRow /\ p \notin dropped
        BY <3>2, <2>2, <1>0, WriterKinds
      <4>2. p \in Pending /\ timer[p] = "save"
        BY <4>1, WriterKinds DEF Pending, StoreInv, WireInv
      <4> QED  BY <4>1, <4>2, <3>2 DEF Cancelled
    <3> QED  BY <3>1, <3>2
  <2> QED  BY <2>1, <2>2 DEF WireInv
<1>4. \A v \in Writers \ {w} : /\ v \in Pending' <=> v \in Pending /\ v \notin dropped
                               /\ Subject(v)' = Subject(v)
                               /\ v \in Pending' => wire'[v] = wire[v]
  BY <1>0, WriterKinds DEF Pending, Subject, Effect
<1>5. w \notin Pending /\ (w \in Pending' <=> row # NoRow) /\ wire'[w] = row
  BY <1>0 DEF Effect, Pending
<1>6. Subject(w)' = Whose(w)
  BY DEF Subject, Whose
<1>7. \A v \in dropped : Subject(v) = v
  BY DEF Cancelled, Subject
<1>8. ASSUME NEW x \in ghost', x.who \notin suspect' PROVE x.row = InMemory(x.who)'
  <2>1. ~ (row # NoRow /\ x.who = Whose(w)) /\ x.who \notin suspect
    BY <1>0, <1>8
  <2>2. x \in ghost /\ x.who \in Players
    BY <1>0, <1>7, <1>8 DEF Attempt, StoreInv, StoreTypes
  <2>3. InMemory(x.who)' = InMemory(x.who)
    BY <2>1, <2>2 DEF Effect, InMemory
  <2> QED  BY <2>1, <2>2, <2>3 DEF StoreInv, SerialInv
<1>9. ASSUME NEW p \in Players, p \notin suspect' PROVE Serial(p)'
  <2>1. CASE row # NoRow /\ p = Whose(w)
    <3>1. \A v \in Pending' : Subject(v)' = p => v = w
      BY <2>1, <1>0, <1>4, <1>9 DEF Pending
    <3>2. wire'[w] = InMemory(p)'
      BY <2>1, <1>5 DEF InMemory, Effect
    <3> QED  BY <3>1, <3>2, <2>1, <1>5, <1>6 DEF Serial
  <2>2. CASE ~ (row # NoRow /\ p = Whose(w))
    <3>1. Serial(p)
      BY <2>2, <1>0, <1>9 DEF StoreInv, SerialInv
    <3>2. InMemory(p)' = InMemory(p)
      BY <2>2 DEF Effect, InMemory
    <3>3. w \in Pending' => Subject(w)' # p
      BY <2>2, <1>5, <1>6
    <3>4. \A v \in Pending : Subject(v) = p => v \in Pending' /\ v # w
      BY <1>0, <1>4, <1>5, <1>7, <1>9 DEF Pending
    <3>5. \A v \in Pending' : Subject(v)' = p => /\ v # w /\ v \in Pending
                                                 /\ Subject(v) = p /\ wire'[v] = wire[v]
      BY <3>3, <1>4 DEF Pending
    <3>6. \A v \in Pending : Subject(v) = p => Subject(v)' = p
      BY <3>4, <1>4 DEF Pending
    <3> QED  BY <3>1, <3>2, <3>4, <3>5, <3>6, <1>0 DEF Serial
  <2> QED  BY <2>1, <2>2
<1> QED  BY <1>2, <1>3, <1>8, <1>9 DEF StoreInv, SerialInv

-----------------------------------------------------------------------------
(* The steps of Bindings, as steps that may start a write.                  *)

\* What a step does to the orphan tasks besides starting the writer's own.
Kept(tm) == \A q \in Players : tm[q] = timer[q] \/ tm[q] # "save"

LEMMA TimerAfterKept ==
  ASSUME TypeOK, NEW t \in Tasks PROVE Kept(TimerAfter(job[t])) /\ Kept(timer)
BY DEF TypeOK, TimerAfter, Kept

LEMMA BindEffect ==
  ASSUME TypeOK, TypeOK', NEW t \in Tasks, NEW p \in Players, NEW g, NEW old,
         NEW tm \in [Players -> TimerStates], Kept(tm), Bind(t, p, g, old, tm),
         wire[t] = NoRow
  PROVE  Effect(t)
<1> USE WriterKinds
<1>1. job' = [job EXCEPT ![t] = Saving(p, FALSE)] /\ job'[t].who = p
  BY DEF Bind, TypeOK, Saving
<1>2. Whose(t) = p /\ Called(t) = [st |-> st'[p], gid |-> gid'[p]] /\ Called(t) # NoRow
  <2>1. t \notin Players /\ p # NoPlayer
    BY Sentinels
  <2>2. st'[p] # "none"
    BY DEF TypeOK
  <2> QED  BY <1>1, <2>1, <2>2 DEF Whose, Called, NoRow
<1>3. \A q \in Players : timer'[q] = tm[q] \/ timer'[q] = "none"
  BY DEF Bind, TimerStates
<1> QED  BY <1>1, <1>2, <1>3 DEF Effect, Bind, TypeOK, Kept

LEMMA MarkLostEffect ==
  ASSUME TypeOK, TypeOK', NEW t \in Tasks, NEW j \in Job, j.who \in Players,
         Kept(timer'), MarkLost(t, j), wire[t] = NoRow
  PROVE  Effect(t)
<1> USE WriterKinds
<1>1. job' = [job EXCEPT ![t] = j] /\ job'[t] = j
  BY DEF MarkLost, TypeOK
<1>2. Whose(t) = j.who /\ Called(t) # NoRow
      /\ Called(t) = [st |-> st'[j.who], gid |-> gid'[j.who]]
  <2>1. t \notin Players /\ j.who # NoPlayer
    BY Sentinels
  <2>2. st'[j.who] # "none"
    BY DEF TypeOK
  <2> QED  BY <1>1, <2>1, <2>2 DEF Whose, Called, NoRow
<1> QED  BY <1>1, <1>2 DEF Effect, MarkLost, TypeOK, Kept

\* A task that starts no write, or one about a player who stays as he is.
LEMMA QuietEffect ==
  ASSUME TypeOK, TypeOK', NEW t \in Tasks, NEW j, job' = [job EXCEPT ![t] = j],
         Kept(timer'), UNCHANGED <<st, gid>>, wire[t] = NoRow,
         j.who = NoPlayer \/ (j.who \in Players /\ st[j.who] # "unclaimed")
  PROVE  Effect(t)
<1> USE WriterKinds
<1>1. job'[t] = j /\ t \notin Players
  BY DEF TypeOK
<1>2. CASE j.who = NoPlayer
  <2>1. Called(t) = NoRow
    BY <1>1, <1>2 DEF Called
  <2> QED  BY <1>1, <2>1 DEF Effect, TypeOK, Kept
<1>3. CASE j.who # NoPlayer
  <2>1. Called(t) = [st |-> st'[j.who], gid |-> gid'[j.who]] /\ Whose(t) = j.who
    BY <1>1, <1>3 DEF Called, Whose
  <2> QED  BY <1>1, <1>3, <2>1 DEF Effect, TypeOK, Kept
<1> QED  BY <1>2, <1>3

LEMMA HeadIsEvent ==
  ASSUME TypeOK, queue # << >> PROVE Head(queue) \in Event
BY DEF TypeOK

LEMMA AdvanceEffect ==
  ASSUME TypeOK, TypeOK', NEW l \in Loop, NEW tm \in [Players -> TimerStates], Kept(tm),
         Advance(l, tm), wire[Run] = NoRow
  PROVE  Effect(Run)
<1> USE WriterKinds, Sentinels
<1>1. CASE LoseNext(l, tm)
  <2>1. PICK p \in ToLose(l) : MarkLost(Run, Saving(p, TRUE)) /\ timer' = tm
    BY <1>1 DEF LoseNext
  <2>2. p \in Players
    BY DEF ToLose, Loop
  <2>3. Saving(p, TRUE) \in Job /\ Saving(p, TRUE).who = p
    BY <2>2, SavingType DEF Saving
  <2> QED  BY <2>1, <2>2, <2>3, MarkLostEffect
<1>2. CASE AutoRebind(l, tm)
  <2>1. PICK p \in Waiting, g \in l.scan : Bind(Run, p, g, NoGid, tm)
    BY <1>2 DEF AutoRebind
  <2> QED  BY <2>1, BindEffect DEF Waiting
<1>3. CASE Ritual(l, tm)
  <2>1. PICK p \in Players, g \in l.scan \cup {l.again} : Bind(Run, p, g, NoGid, tm)
    BY <1>3 DEF Ritual
  <2> QED  BY <2>1, BindEffect
<1>4. CASE Finish(l, tm)
  <2>1. Idle.who = NoPlayer
    BY DEF Idle, Saving
  <2> QED  BY <1>4, <2>1, QuietEffect DEF Finish
<1> QED  BY <1>1, <1>2, <1>3, <1>4 DEF Advance

LEMMA OrphanEffect ==
  ASSUME TypeOK, TypeOK', MemoryInv, NEW p \in Players,
         OrphanFires(p) \/ OrphanSaved(p), wire[p] = NoRow
  PROVE  Effect(p)
<1> USE WriterKinds
<1>1. /\ job' = job /\ gid' = gid
      /\ \A q \in Players \ {p} : st'[q] = st[q] /\ timer'[q] = timer[q]
      /\ \/ st'[p] = st[p] /\ timer'[p] = "none"
         \/ st'[p] = "orphaned" /\ timer'[p] = "save" /\ gid[p] = NoGid
  BY DEF OrphanFires, OrphanSaved, TypeOK, MemoryInv
<1>2. Whose(p) = p /\ Called(p) = IF timer'[p] = "save" THEN Orphaned ELSE NoRow
  BY DEF Whose, Called
<1> QED  BY <1>1, <1>2, NoRowIsNone DEF Effect, Orphaned

\* Nobody awaits a write he has not asked for.
LEMMA IdleWrites ==
  ASSUME StoreInv, NEW t \in Tasks, job[t] = Idle
  PROVE  wire[t] = NoRow
BY Sentinels DEF StoreInv, WireInv, Idle, Saving

LEMMA AsleepWrites ==
  ASSUME StoreInv, NEW p \in Players, timer[p] = "sleep"
  PROVE  wire[p] = NoRow
BY DEF StoreInv, WireInv

-----------------------------------------------------------------------------
(* The records.                                                             *)

LEMMA BindMemory ==
  ASSUME TypeOK, MemoryInv, NEW t, NEW p \in Players, NEW g, NEW old, NEW tm,
         Bind(t, p, g, old, tm)
  PROVE  MemoryInv'
BY Sentinels DEF TypeOK, MemoryInv, Bind, Popped

LEMMA MarkLostMemory ==
  ASSUME TypeOK, MemoryInv, NEW t, NEW j, MarkLost(t, j)
  PROVE  MemoryInv'
BY Sentinels DEF TypeOK, MemoryInv, MarkLost, Popped

LEMMA AdvanceMemory ==
  ASSUME TypeOK, MemoryInv, NEW l, NEW tm, Advance(l, tm)
  PROVE  MemoryInv'
<1>1. CASE LoseNext(l, tm)
  BY <1>1, MarkLostMemory DEF LoseNext
<1>2. CASE AutoRebind(l, tm) \/ Ritual(l, tm)
  <2>1. \E p \in Players, g \in l.scan \cup {l.again} : Bind(Run, p, g, NoGid, tm)
    BY <1>2 DEF AutoRebind, Ritual, Waiting
  <2> QED  BY <2>1, BindMemory
<1>3. CASE Finish(l, tm)
  BY <1>3 DEF Finish, MemoryInv
<1> QED  BY <1>1, <1>2, <1>3 DEF Advance

LEMMA MemoryStep ==
  ASSUME TypeOK, MemoryInv, Next PROVE MemoryInv'
<1>1. CASE Feed
  BY <1>1 DEF Feed, GidSeen, GidGone, Snapshot, Publish, MemoryInv
<1>2. CASE Requests
  <2>1. PICK c \in Clients, p \in Players, g \in Gids :
          Claim(c, p, g) \/ OperatorRebind(c, p, g) \/ OperatorSteal(c, p, g)
    BY <1>2 DEF Requests
  <2>2. CASE Claim(c, p, g) \/ OperatorRebind(c, p, g)
    BY <2>2, BindMemory DEF Claim, OperatorRebind
  <2>3. CASE OperatorSteal(c, p, g)
    BY <2>3, MarkLostMemory DEF OperatorSteal
  <2> QED  BY <2>1, <2>2, <2>3
<1>3. CASE Replies
  <2>1. PICK c \in Clients : SaveReturns(c) \/ StealBinds(c)
    BY <1>3 DEF Replies
  <2>2. CASE SaveReturns(c)
    BY <2>2 DEF SaveReturns, MemoryInv
  <2>3. CASE StealBinds(c)
    <3>1. job[c].next \in Players
      BY <2>3, Sentinels DEF StealBinds, TypeOK, Job
    <3> QED  BY <2>3, <3>1, BindMemory DEF StealBinds
  <2> QED  BY <2>1, <2>2, <2>3
<1>4. CASE Timers
  BY <1>4 DEF Timers, OrphanFires, OrphanSaved, MemoryInv, TypeOK
<1>5. CASE HandleResync \/ HandleSeen \/ RunResumes
  <2>1. CASE \E l, tm : Advance(l, tm)
    BY <2>1, AdvanceMemory
  <2>2. CASE UNCHANGED <<st, gid, byGid>>
    BY <2>2 DEF MemoryInv
  <2> QED  BY <1>5, <2>1, <2>2 DEF HandleResync, HandleSeen, RunResumes
<1>6. CASE HandleGone
  <2>1. CASE \E p : MarkLost(Run, Saving(p, TRUE))
    BY <2>1, MarkLostMemory
  <2>2. CASE UNCHANGED <<st, gid, byGid>>
    BY <2>2 DEF MemoryInv
  <2> QED  BY <1>6, <2>1, <2>2 DEF HandleGone
<1>7. CASE \E t \in Tasks : SaveFails(t)
  BY <1>7 DEF SaveFails, MemoryInv
<1> QED  BY <1>1, <1>2, <1>3, <1>4, <1>5, <1>6, <1>7 DEF Next, RunLoop

-----------------------------------------------------------------------------
(* Every step of BindingStore.                                              *)

\* The steps of Bindings in BindingStore, which all but a crash and a service are.
LEMMA StoreNextIsNext ==
  ASSUME StoreNext
  PROVE  \/ Next
         \/ UNCHANGED vars
         \/ Crash
BY WriterKinds
   DEF StoreNext, StoreRequests, StoreReplies, StoreTimer, StoreRun, StoreFails, Serve,
       TimesOut, GhostEnds, Next, Requests, Replies, Timers, RunLoop

LEMMA RequestKeeps ==
  ASSUME StoreInv, TypeOK', MemoryInv', StoreRequests
  PROVE  StoreInv'
<1> USE WriterKinds
<1>0. TypeOK /\ Kept(timer) /\ timer \in [Players -> TimerStates]
  BY TimerAfterKept DEF StoreInv, StoreTypes, TypeOK, TimerStates
<1>1. PICK c \in Clients, p \in Players, g \in Gids :
        (Claim(c, p, g) \/ OperatorRebind(c, p, g) \/ OperatorSteal(c, p, g)) /\ Send(c)
  BY DEF StoreRequests
<1>2. wire[c] = NoRow
  BY <1>1, IdleWrites DEF Claim, OperatorRebind, OperatorSteal
<1>3. CASE Claim(c, p, g) \/ OperatorRebind(c, p, g)
  <2>1. Bind(c, p, g, gid[p], timer)
    BY <1>3 DEF Claim, OperatorRebind
  <2>2. Effect(c)
    BY <1>0, <1>2, <2>1, BindEffect
  <2> QED  BY <1>1, <2>2, SendKeeps
<1>4. CASE OperatorSteal(c, p, g)
  <2> DEFINE j == [who |-> byGid[g], lost |-> TRUE, next |-> p, ngid |-> g, nold |-> gid[p]]
  <2>1. j \in Job /\ j.who \in Players
    BY <1>0, <1>4 DEF OperatorSteal, TypeOK, Job
  <2>2. MarkLost(c, j) /\ timer' = timer
    BY <1>4 DEF OperatorSteal
  <2>3. Kept(timer')
    BY <1>0, <2>2
  <2>4. Effect(c)
    BY <1>0, <1>2, <2>1, <2>2, <2>3, MarkLostEffect
  <2> QED  BY <1>1, <2>4, SendKeeps
<1> QED  BY <1>1, <1>3, <1>4

LEMMA ReplyKeeps ==
  ASSUME StoreInv, TypeOK', MemoryInv', NEW c \in Clients, StoreReplies(c)
  PROVE  StoreInv'
<1> USE WriterKinds
<1>0. /\ TypeOK /\ Kept(TimerAfter(job[c])) /\ wire[c] = NoRow /\ Send(c)
      /\ TimerAfter(job[c]) \in [Players -> TimerStates]
  BY TimerAfterKept, TimerAfterType DEF StoreInv, StoreTypes, StoreReplies
<1>1. CASE SaveReturns(c)
  <2>1. Idle.who = NoPlayer
    BY DEF Idle, Saving
  <2>2. Kept(timer')
    BY <1>0, <1>1 DEF SaveReturns
  <2>3. Effect(c)
    BY <1>0, <1>1, <2>1, <2>2, QuietEffect DEF SaveReturns
  <2> QED  BY <1>0, <2>3, SendKeeps
<1>2. CASE StealBinds(c)
  <2>1. job[c].next \in Players
    BY <1>0, <1>2, Sentinels DEF StealBinds, TypeOK, Job
  <2>2. Effect(c)
    BY <1>0, <1>2, <2>1, BindEffect DEF StealBinds
  <2> QED  BY <1>0, <2>2, SendKeeps
<1> QED  BY <1>1, <1>2 DEF StoreReplies

LEMMA HandleKeeps ==
  ASSUME StoreInv, TypeOK', MemoryInv', StoreRun
  PROVE  StoreInv'
<1> USE WriterKinds
<1>0. /\ TypeOK /\ MemoryInv /\ Kept(timer) /\ timer \in [Players -> TimerStates] /\ Send(Run)
      /\ Kept(TimerAfter(job[Run])) /\ TimerAfter(job[Run]) \in [Players -> TimerStates]
  BY TimerAfterKept, TimerAfterType DEF StoreInv, StoreTypes, StoreRun, TypeOK, TimerStates
<1>1. wire[Run] = NoRow
  BY IdleWrites DEF StoreRun, HandleResync, HandleGone, HandleSeen, Free
<1> SUFFICES Effect(Run)
  BY <1>0, SendKeeps
<1>2. queue # << >> => Head(queue) \in Event
  BY <1>0, HeadIsEvent
<1>3. CASE HandleResync
  <2> DEFINE l == [lose |-> {p \in Players : st[p] # "unclaimed"}, gids |-> Head(queue).gids,
                   scan |-> Head(queue).gids, again |-> NoGid]
  <2>1. l \in Loop
    BY <1>2, <1>3 DEF HandleResync, Loop, Event
  <2>2. Advance(l, timer)
    BY <1>3 DEF HandleResync
  <2> QED  BY <1>0, <1>1, <2>1, <2>2, AdvanceEffect
<1>4. CASE HandleGone
  <2>1. Kept(timer')
    BY <1>0, <1>4 DEF HandleGone
  <2>2. ASSUME NEW p, p \in {byGid[g] : g \in Head(queue).gids} \ {NoPlayer}
        PROVE  p \in Players
    BY <1>0, <1>2, <1>4, <2>2 DEF HandleGone, Event, TypeOK
  <2>3. CASE \E p \in {byGid[g] : g \in Head(queue).gids} \ {NoPlayer} : MarkLost(Run, Saving(p, TRUE))
    <3>1. PICK p \in Players : MarkLost(Run, Saving(p, TRUE))
      BY <2>2, <2>3
    <3>2. Saving(p, TRUE) \in Job /\ Saving(p, TRUE).who = p
      BY SavingType DEF Saving
    <3> QED  BY <1>0, <1>1, <2>1, <3>1, <3>2, MarkLostEffect
  <2>4. CASE UNCHANGED <<st, gid, byGid, job, unsaved>>
    <3>1. job' = [job EXCEPT ![Run] = Idle] /\ Idle.who = NoPlayer
      BY <1>0, <1>4, <2>4 DEF HandleGone, Free, TypeOK, Idle, Saving
    <3> QED  BY <1>0, <1>1, <2>1, <2>4, <3>1, QuietEffect
  <2> QED  BY <1>4, <2>3, <2>4 DEF HandleGone
<1>5. CASE HandleSeen
  <2>1. CASE Advance(Scanning(Head(queue).gids, NoGid), timer)
    <3>1. Scanning(Head(queue).gids, NoGid) \in Loop
      BY <1>2, <1>5 DEF HandleSeen, Scanning, Loop, Event
    <3> QED  BY <1>0, <1>1, <2>1, <3>1, AdvanceEffect
  <2>2. CASE /\ \E p \in {byGid[g] : g \in Head(queue).gids} \ {NoPlayer} :
                  job' = [job EXCEPT ![Run] = Saving(p, FALSE)]
             /\ UNCHANGED <<st, gid, byGid, loop, timer, unsaved>>
    <3>1. PICK g \in Head(queue).gids : /\ byGid[g] # NoPlayer
                                        /\ job' = [job EXCEPT ![Run] = Saving(byGid[g], FALSE)]
      BY <2>2
    <3>2. g \in Gids /\ byGid[g] \in Players /\ st[byGid[g]] # "unclaimed"
      BY <1>0, <1>2, <1>5, <3>1 DEF HandleSeen, Event, TypeOK, MemoryInv
    <3>3. Saving(byGid[g], FALSE).who = byGid[g]
      BY DEF Saving
    <3>4. Kept(timer')
      BY <1>0, <2>2
    <3> QED  BY <1>0, <1>1, <2>2, <3>1, <3>2, <3>3, <3>4, QuietEffect
  <2> QED  BY <1>5, <2>1, <2>2 DEF HandleSeen
<1>6. CASE RunResumes
  <2>1. loop \in Loop /\ Advance(loop, TimerAfter(job[Run]))
    BY <1>0, <1>6 DEF RunResumes, TypeOK
  <2> QED  BY <1>0, <1>1, <2>1, AdvanceEffect
<1> QED  BY <1>3, <1>4, <1>5, <1>6 DEF StoreRun

LEMMA TimerKeeps ==
  ASSUME StoreInv, TypeOK', MemoryInv', NEW p \in Players, StoreTimer(p)
  PROVE  StoreInv'
<1>1. wire[p] = NoRow /\ Send(p) /\ (OrphanFires(p) \/ OrphanSaved(p))
  BY AsleepWrites DEF StoreTimer, OrphanFires
<1>2. Effect(p)
  BY <1>1, OrphanEffect DEF StoreInv, StoreTypes
<1> QED  BY <1>1, <1>2, SendKeeps, WriterKinds

\* A step that leaves the writes alone, with the memory they are about.
LEMMA StillKeeps ==
  ASSUME StoreInv, TypeOK', MemoryInv', UNCHANGED <<st, gid, job, timer, dbVars>>
  PROVE  StoreInv'
BY DEF StoreInv, StoreTypes, WireInv, SerialInv, Serial, Pending, Subject, InMemory, dbVars

LEMMA ServeKeeps ==
  ASSUME StoreInv, TypeOK', MemoryInv', NEW w \in Writers, Serve(w)
  PROVE  StoreInv'
<1> DEFINE p == Subject(w)
<1>0. /\ w \in Pending /\ db' = [db EXCEPT ![p] = wire[w]]
      /\ \A v \in Writers : wire'[v] = wire[v] \/ (v = w /\ wire'[v] = NoRow)
      /\ wire' \in [Writers -> {NoRow} \cup Written]
      /\ UNCHANGED <<st, gid, job, timer, ghost, suspect>>
  BY DEF Serve, vars, StoreInv, StoreTypes
<1>1. p \in Players /\ wire[w] \in Written
  BY <1>0, WriterKinds DEF Pending, Subject, StoreInv, WireInv, StoreTypes
<1>2. StoreTypes'
  BY <1>0, <1>1 DEF StoreInv, StoreTypes
<1>3. WireInv'
  BY <1>0, WriterKinds DEF StoreInv, WireInv
<1>4. /\ \A v \in Writers : Subject(v)' = Subject(v)
      /\ \A v \in Pending' : v \in Pending /\ wire'[v] = wire[v]
      /\ \A v \in Pending : v # w => v \in Pending'
  BY <1>0 DEF Subject, Pending
<1>5. ASSUME NEW q \in Players \ suspect PROVE Serial(q)'
  <2>1. Serial(q) /\ InMemory(q)' = InMemory(q)
    BY <1>0 DEF StoreInv, SerialInv, InMemory
  <2>2. CASE q = p
    <3>1. wire[w] = InMemory(q) /\ db'[q] = wire[w]
      BY <1>0, <1>1, <2>1, <2>2 DEF Serial, StoreInv, StoreTypes
    <3> QED  BY <1>4, <2>1, <3>1 DEF Serial, Pending
  <2>3. CASE q # p
    <3>1. db'[q] = db[q]
      BY <1>0, <1>1, <2>3 DEF StoreInv, StoreTypes
    <3> QED  BY <1>0, <1>4, <2>1, <2>3, <3>1 DEF Serial, Pending
  <2> QED  BY <2>2, <2>3
<1>6. SerialInv'
  BY <1>0, <1>5 DEF StoreInv, SerialInv, InMemory
<1> QED  BY <1>2, <1>3, <1>6 DEF StoreInv

LEMMA GhostEndsKeeps ==
  ASSUME StoreInv, TypeOK', MemoryInv', NEW x \in ghost, GhostEnds(x)
  PROVE  StoreInv'
<1>0. /\ ghost' = ghost \ {x}
      /\ db' \in {db, [db EXCEPT ![x.who] = x.row]}
      /\ UNCHANGED <<st, gid, job, timer, wire, suspect>>
  BY DEF GhostEnds, vars
<1>1. x.who \in Players /\ x.row \in Written
  BY DEF StoreInv, StoreTypes
<1>2. StoreTypes' /\ WireInv'
  BY <1>0, <1>1 DEF StoreInv, StoreTypes, WireInv
<1>3. \A q \in Players \ suspect : db'[q] = db[q] \/ db'[q] = InMemory(q)
  BY <1>0, <1>1 DEF StoreInv, StoreTypes, SerialInv
<1>4. SerialInv'
  BY <1>0, <1>3 DEF StoreInv, SerialInv, Serial, Pending, Subject, InMemory
<1> QED  BY <1>2, <1>4 DEF StoreInv

LEMMA TimesOutKeeps ==
  ASSUME StoreInv, TypeOK', MemoryInv', NEW w \in Writers, TimesOut(w)
  PROVE  StoreInv'
<1>0. /\ w \in Pending /\ ghost' = ghost \cup {[who |-> Subject(w), row |-> wire[w]]}
      /\ UNCHANGED <<st, gid, job, timer, wire, db, suspect>>
  BY DEF TimesOut, Attempt, vars
<1>1. Subject(w) \in Players /\ wire[w] \in Written
  BY <1>0, AttemptType
<1>2. StoreTypes' /\ WireInv'
  BY <1>0, <1>1 DEF StoreInv, StoreTypes, WireInv
<1>3. Subject(w) \in suspect \/ wire[w] = InMemory(Subject(w))
  BY <1>0, <1>1 DEF StoreInv, SerialInv, Serial
<1>4. SerialInv'
  BY <1>0, <1>3 DEF StoreInv, SerialInv, Serial, Pending, Subject, InMemory
<1> QED  BY <1>2, <1>4 DEF StoreInv

LEMMA FailKeeps ==
  ASSUME StoreInv, TypeOK', MemoryInv', StoreFails
  PROVE  StoreInv'
<1> USE WriterKinds
<1>1. PICK w \in Writers :
        /\ Failed(w)
        /\ UNCHANGED <<st, gid>>
        /\ \A t \in Tasks \ {w} : job'[t] = job[t]
        /\ \A p \in Players \ {w} : timer'[p] = timer[p]
  <2>1. CASE \E t \in Tasks : SaveFails(t) /\ Failed(t)
    <3>1. PICK t \in Tasks : SaveFails(t) /\ Failed(t)
      BY <2>1
    <3> QED  BY <3>1 DEF SaveFails, StoreInv, StoreTypes, TypeOK
  <2>2. CASE \E p \in Players : OrphanSaved(p) /\ Failed(p)
    <3>1. PICK p \in Players : OrphanSaved(p) /\ Failed(p)
      BY <2>2
    <3> QED  BY <3>1 DEF OrphanSaved, StoreInv, StoreTypes, TypeOK
  <2> QED  BY <2>1, <2>2 DEF StoreFails
<1>2. /\ wire' = [wire EXCEPT ![w] = NoRow] /\ suspect' = suspect \cup {Subject(w)}
      /\ UNCHANGED <<db, ghost>>
  BY <1>1 DEF Failed
<1>3. StoreTypes' /\ WireInv'
  BY <1>1, <1>2 DEF StoreInv, StoreTypes, WireInv
<1>4. /\ Pending' = Pending \ {w}
      /\ \A v \in Pending' : Subject(v)' = Subject(v) /\ wire'[v] = wire[v]
  BY <1>1, <1>2 DEF Pending, Subject, StoreInv, StoreTypes
<1>5. ASSUME NEW p \in Players \ suspect' PROVE Serial(p)'
  <2>1. Serial(p) /\ InMemory(p)' = InMemory(p) /\ Subject(w) # p
    BY <1>1, <1>2 DEF StoreInv, SerialInv, InMemory
  <2> QED  BY <1>2, <1>4, <2>1 DEF Serial
<1>6. SerialInv'
  BY <1>1, <1>2, <1>5 DEF StoreInv, SerialInv, InMemory
<1> QED  BY <1>3, <1>6 DEF StoreInv

\* What a restart reads is what the database holds by then.
LEMMA CrashReads ==
  ASSUME StoreInv, Crash
  PROVE  /\ db' = db /\ db \in [Players -> {NoRow} \cup Written]
         /\ \A p \in Players : /\ st'[p] = IF db'[p] = NoRow THEN "unclaimed" ELSE db'[p].st
                               /\ gid'[p] = db'[p].gid
BY DEF Crash, Load, StoreInv, StoreTypes

LEMMA CrashKeeps ==
  ASSUME StoreInv, Crash
  PROVE  StoreInv'
<1> USE WriterKinds
<1>0. /\ db' \in [Players -> {NoRow} \cup Written]
      /\ \A p \in Players : /\ st'[p] = IF db'[p] = NoRow THEN "unclaimed" ELSE db'[p].st
                            /\ gid'[p] = db'[p].gid
  BY CrashReads
<1>1. /\ st' \in [Players -> States] /\ gid' \in [Players -> Gids \cup {NoGid}]
      /\ byGid' \in [Gids -> Players \cup {NoPlayer}]
  BY <1>0 DEF Crash, Load, States, NoRow, Written, Row
<1>2. TypeOK'
  <2>1. NoLoop \in Loop /\ Idle \in Job
    BY SavingType DEF NoLoop, Scanning, Loop, Idle
  <2>2. << >> \in Seq(Event)
    OBVIOUS
  <2>3. /\ live' = {} /\ queue' = << >> /\ loop' = NoLoop /\ unsaved' = {}
        /\ job' \in [Tasks -> Job] /\ timer' \in [Players -> TimerStates]
    BY <2>1 DEF Crash, TimerStates
  <2> QED  BY <1>1, <2>1, <2>2, <2>3 DEF TypeOK, States, TimerStates
<1>3. StoreTypes' /\ WireInv'
  <2>1. ghost' \subseteq [who : Players, row : Written]
    BY AttemptType DEF Crash, StoreInv, StoreTypes, Pending
  <2> QED  BY <1>0, <1>2, <2>1 DEF Crash, StoreTypes, WireInv
<1>4. MemoryInv'
  <2>1. ASSUME NEW p \in Players, st'[p] # "bound" PROVE gid'[p] = NoGid
    BY <1>0, <2>1 DEF NoRow, Written
  <2>2. ASSUME NEW g \in Gids, NEW p \in Players, byGid'[g] = p PROVE st'[p] # "unclaimed"
    <3>1. db'[p].st = "bound"
      BY <2>2, Sentinels DEF Crash, Load
    <3> QED  BY <1>0, <3>1 DEF NoRow
  <2> QED  BY <2>1, <2>2 DEF MemoryInv
<1>5. ASSUME NEW p \in Players PROVE db'[p] = InMemory(p)'
  <2>1. CASE db'[p] = NoRow
    BY <1>0, <2>1 DEF InMemory
  <2>2. CASE db'[p] \in Row
    <3>1. st'[p] = db'[p].st /\ st'[p] # "unclaimed"
      BY <1>0, <2>2, NoRowIsNone DEF Row
    <3> QED  BY <1>0, <2>2, <3>1 DEF InMemory, Row
  <2> QED  BY <1>0, <2>1, <2>2 DEF Written
<1>6. SerialInv'
  BY <1>5 DEF Crash, SerialInv, Serial, Pending
<1> QED  BY <1>3, <1>4, <1>6 DEF StoreInv

LEMMA StoreStep == StoreInv /\ [StoreNext]_storeVars => StoreInv'
<1> SUFFICES ASSUME StoreInv, [StoreNext]_storeVars PROVE StoreInv'
  OBVIOUS
<1>1. CASE Crash
  BY <1>1, CrashKeeps
<1>2. CASE ~ Crash
  <2>1. TypeOK' /\ MemoryInv'
    <3>1. CASE Next
      BY <3>1, TypeStep, MemoryStep DEF StoreInv, StoreTypes
    <3>2. CASE UNCHANGED vars
      BY <3>2, TypeStep DEF StoreInv, StoreTypes, MemoryInv, vars
    <3> QED  BY <1>2, <3>1, <3>2, StoreNextIsNext DEF storeVars
  <2>2. CASE Feed /\ UNCHANGED dbVars
    <3>1. UNCHANGED <<st, gid, job, timer>>
      BY <2>2 DEF Feed, GidSeen, GidGone, Snapshot, Publish
    <3> QED  BY <2>1, <2>2, <3>1, StillKeeps
  <2>3. CASE UNCHANGED storeVars
    BY <2>1, <2>3, StillKeeps DEF storeVars, vars
  <2> QED  BY <1>2, <2>1, <2>2, <2>3, RequestKeeps, ReplyKeeps, TimerKeeps, GhostEndsKeeps,
              HandleKeeps, ServeKeeps, TimesOutKeeps, FailKeeps DEF StoreNext
<1> QED  BY <1>1, <1>2

LEMMA StoreInvInit == StoreInit => StoreInv
<1> SUFFICES ASSUME StoreInit PROVE StoreInv
  OBVIOUS
<1>1. TypeOK /\ MemoryInv
  BY TypeInit, Sentinels DEF StoreInit, Init, MemoryInv
<1>2. StoreTypes /\ WireInv
  BY <1>1, WriterKinds DEF StoreInit, StoreTypes, WireInv
<1>3. SerialInv
  BY DEF StoreInit, Init, SerialInv, Serial, Pending, InMemory
<1> QED  BY <1>1, <1>2, <1>3 DEF StoreInv

-----------------------------------------------------------------------------
(***************************************************************************)
(* As long as the writes of a player follow one another and succeed, his   *)
(* row is what memory says of him whenever none is under way: the          *)
(* write-through of _save, for any number of players, callers, restarts    *)
(* and attempts that are resent, time out or outlive their call and are    *)
(* served late.  suspect names whose writes did not follow one another.    *)
(***************************************************************************)
THEOREM SerialWritesHold == StoreSpec => []SerialWritesMirror
<1>1. StoreInv => SerialWritesMirror
  BY DEF StoreInv, SerialInv, Serial, SerialWritesMirror, Unwritten
<1> QED  BY <1>1, StoreInvInit, StoreStep, PTL DEF StoreSpec

(***************************************************************************)
(* A restart at a quiet moment finds the bindings the dead runner had: what *)
(* the class comment promises of load, provided that the last write of each *)
(* player met no other attempt, was not cancelled and did not fail.         *)
(***************************************************************************)
THEOREM QuietRestartIsExact == StoreSpec => RestartIsExact
<1> DEFINE Exact == Quiet /\ suspect = {} /\ Crash =>
                      UNCHANGED <<st, gid>> /\ (IndexExact => UNCHANGED byGid)
<1>1. ASSUME StoreInv, Quiet, suspect = {}, Crash
      PROVE  UNCHANGED <<st, gid>> /\ (IndexExact => UNCHANGED byGid)
  <2>1. Crash
    BY <1>1
  <2>2. ASSUME NEW p \in Players
        PROVE  db[p] = InMemory(p) /\ db'[p] = db[p] /\ st'[p] = st[p] /\ gid'[p] = gid[p]
    <3>1. db[p] = InMemory(p)
      BY <1>1 DEF StoreInv, SerialInv, Serial, Quiet
    <3>2. db'[p] = db[p]
      BY <1>1, CrashReads
    <3>3. st[p] \in States /\ gid[p] \in Gids \cup {NoGid}
      BY <1>1 DEF StoreInv, StoreTypes, TypeOK, States
    <3>4. st[p] = "unclaimed" => gid[p] = NoGid
      BY <1>1 DEF StoreInv, MemoryInv
    <3> QED  BY <1>1, <2>1, <3>1, <3>2, <3>3, <3>4, CrashReads DEF InMemory, NoRow, States
  <2>3. st' = st /\ gid' = gid
    BY <1>1, <2>1, <2>2 DEF Crash, Load, StoreInv, StoreTypes, TypeOK
  <2>4. ASSUME IndexExact PROVE byGid' = byGid
    <3>1. ASSUME NEW g \in Gids PROVE byGid'[g] = byGid[g]
      <4> DEFINE holders == {p \in Players : db'[p].st = "bound" /\ db'[p].gid = g}
      <4>1. byGid'[g] \in IF holders = {} THEN {NoPlayer} ELSE holders
        BY <2>1 DEF Crash, Load
      <4>2. ASSUME NEW p \in Players PROVE p \in holders <=> byGid[g] = p
        <5>1. db'[p] = InMemory(p)
          BY <2>2
        <5>2. p \in holders <=> st[p] = "bound" /\ gid[p] = g
          BY <5>1 DEF InMemory, NoRow
        <5> QED  BY <2>4, <5>2 DEF IndexExact
      <4>3. byGid[g] \in Players \cup {NoPlayer}
        BY <1>1 DEF StoreInv, StoreTypes, TypeOK
      <4> QED  BY <4>1, <4>2, <4>3
    <3> QED  BY <1>1, <2>1, <3>1 DEF Crash, Load, StoreInv, StoreTypes, TypeOK
  <2> QED  BY <2>3, <2>4
<1>2. StoreInv /\ [StoreNext]_storeVars => [Exact]_storeVars
  BY <1>1
<1> QED  BY <1>2, StoreInvInit, StoreStep, PTL DEF StoreSpec, RestartIsExact
=============================================================================
