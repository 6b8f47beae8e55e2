------------------------------ MODULE Bindings ------------------------------
(***************************************************************************)
(* The runner's player <-> GID bindings: class BindingManager of           *)
(* apps/runner/server/bindings.py, with the part of TrackingClient         *)
(* (tracking_client.py) that feeds it.                                     *)
(*                                                                         *)
(* Everything runs on one asyncio loop, so a handler is atomic between two *)
(* awaits.  The only awaits are the two database calls of _save (and the   *)
(* single upsert of a position update or of an orphaned player).  Nothing  *)
(* in memory happens between those two calls, so they are one wait here:   *)
(* job[t] names what task t is waiting to have saved.  What the database   *)
(* makes of the calls is module BindingStore.                              *)
(*                                                                         *)
(* Positions, zones and clocks are abstracted: which waiting player is the *)
(* only plausible candidate for a GID, and whether the GID stands in the   *)
(* ritual zone, is chosen freely each time the code asks.                  *)
(***************************************************************************)
EXTENDS Naturals, Sequences

CONSTANTS
  Players,    \* player keys
  Gids,       \* TrackingBox identity numbers
  Clients,    \* concurrent callers of claim and operator_rebind
  Run,        \* the task of BindingManager.run
  NoPlayer, NoGid,
  QueueMax,   \* slots of the subscriber queue (1024 in the code)
  Steals,     \* does the operator move GIDs away from bound players?
  Failures,   \* do database calls fail after their retries?
  Overflow    \* does the feed outrun the subscriber queue?

ASSUME SentinelAssumption ==
  NoPlayer \notin Players /\ NoGid \notin Gids /\ Run \notin Clients

ASSUME BoundAssumption ==
  QueueMax \in Nat \ {0} /\ {Steals, Failures, Overflow} \subseteq BOOLEAN

VARIABLES
  st,      \* Player.state, "unclaimed" for a key not in _players
  gid,     \* Player.gid
  byGid,   \* _by_gid, NoPlayer for an absent key
  live,    \* the keys of TrackingClient._state: the visible GIDs
  queue,   \* tracking events published and not yet handled
  loop,    \* what is left of the event that run is handling
  job,     \* the save each task awaits
  timer,   \* the orphan task of each player
  unsaved  \* history: lost players whose _mark_lost failed in its save

vars == <<st, gid, byGid, live, queue, loop, job, timer, unsaved>>
feedVars == <<live, queue>>

Tasks == Clients \cup {Run}

(***************************************************************************)
(* Events and the progress of the run loop through one event: the players  *)
(* of a resync still to be looked at, the GIDs it carried, the GIDs still  *)
(* to be scanned, and the GID whose ritual check follows the current save. *)
(***************************************************************************)
Seen(g)   == [type |-> "seen",   gids |-> {g}]
Gone(g)   == [type |-> "gone",   gids |-> {g}]
Resync(S) == [type |-> "resync", gids |-> S]
Event     == [type : {"seen", "gone", "resync"}, gids : SUBSET Gids]

Scanning(S, g) == [lose |-> {}, gids |-> {}, scan |-> S, again |-> g]
NoLoop == Scanning({}, NoGid)
Loop   == [lose : SUBSET Players, gids : SUBSET Gids,
           scan : SUBSET Gids, again : Gids \cup {NoGid}]

(***************************************************************************)
(* A job: the player being saved, whether _mark_lost is the saver, and the *)
(* bind that an operator's steal performs afterwards (next to ngid, giving *)
(* up nold), with the GID the player held when the request came in.        *)
(***************************************************************************)
Job == [who : Players \cup {NoPlayer}, lost : BOOLEAN,
        next : Players \cup {NoPlayer},
        ngid : Gids \cup {NoGid}, nold : Gids \cup {NoGid}]

Saving(p, lost) == [who |-> p, lost |-> lost, next |-> NoPlayer,
                    ngid |-> NoGid, nold |-> NoGid]
Idle == Saving(NoPlayer, FALSE)

Unbound == {p \in Players : st[p] # "bound"}
Waiting == {p \in Players : st[p] \in {"lost", "orphaned"}}

Init ==
  /\ st = [p \in Players |-> "unclaimed"]
  /\ gid = [p \in Players |-> NoGid]
  /\ byGid = [g \in Gids |-> NoPlayer]
  /\ live = {}
  /\ queue = << >>
  /\ loop = NoLoop
  /\ job = [t \in Tasks |-> Idle]
  /\ timer = [p \in Players |-> "none"]
  /\ unsaved = {}

\* Faulty variant: the key of a released GID stays, holding nothing.
PoppedKeepsKey(g) == [h \in Gids |-> IF h = g THEN NoGid ELSE byGid[h]]

(***************************************************************************)
(* _bind and _mark_lost up to the await in _save.  tm is the state of the  *)
(* orphan tasks when the call is made.                                     *)
(***************************************************************************)
Popped(g) == [h \in Gids |-> IF h = g THEN NoPlayer ELSE byGid[h]]

\* Faulty variant: the player's old GID is not popped.
BindKeepsOld(t, p, g, old, tm) ==
  /\ st' = [st EXCEPT ![p] = "bound"]
  /\ gid' = [gid EXCEPT ![p] = g]
  /\ byGid' = [byGid EXCEPT ![g] = p]
  /\ job' = [job EXCEPT ![t] = Saving(p, FALSE)]
  /\ timer' = [tm EXCEPT ![p] = "none"]
  /\ unsaved' = unsaved \ {p}

Bind(t, p, g, old, tm) ==
  /\ st' = [st EXCEPT ![p] = "bound"]
  /\ gid' = [gid EXCEPT ![p] = g]
  /\ byGid' = [Popped(old) EXCEPT ![g] = p]
  /\ job' = [job EXCEPT ![t] = Saving(p, FALSE)]
  /\ timer' = [tm EXCEPT ![p] = "none"]
  /\ unsaved' = unsaved \ {p}

MarkLost(t, j) ==
  /\ st[j.who] = "bound"
  /\ st' = [st EXCEPT ![j.who] = "lost"]
  /\ gid' = [gid EXCEPT ![j.who] = NoGid]
  /\ byGid' = Popped(gid[j.who])
  /\ job' = [job EXCEPT ![t] = j]
  /\ UNCHANGED unsaved

\* Faulty variant: the claim does not look who holds the GID.
ClaimUnchecked(c, p, g) ==
  /\ job[c] = Idle
  /\ st[p] # "bound"
  /\ g \in live
  /\ Bind(c, p, g, gid[p], timer)
  /\ UNCHANGED <<live, queue, loop>>

(***************************************************************************)
(* Requests.  A refused request changes nothing and is not an action.      *)
(***************************************************************************)
Claim(c, p, g) ==
  /\ job[c] = Idle
  /\ st[p] # "bound"
  /\ g \in live
  /\ byGid[g] \in {NoPlayer, p}
  /\ Bind(c, p, g, gid[p], timer)
  /\ UNCHANGED <<live, queue, loop>>

\* Faulty variant: the player's current GID is not passed on as the old one.
OperatorRebindForgets(c, p, g) ==
  /\ job[c] = Idle
  /\ g \in live
  /\ byGid[g] \in {NoPlayer, p} \cup Unbound
  /\ Bind(c, p, g, NoGid, timer)
  /\ UNCHANGED <<live, queue, loop>>

OperatorRebind(c, p, g) ==
  /\ job[c] = Idle
  /\ g \in live
  /\ byGid[g] \in {NoPlayer, p} \cup Unbound
  /\ Bind(c, p, g, gid[p], timer)
  /\ UNCHANGED <<live, queue, loop>>

\* The GID is someone else's: that player is marked lost and saved first.
OperatorSteal(c, p, g) ==
  /\ Steals
  /\ job[c] = Idle
  /\ g \in live
  /\ byGid[g] \notin {NoPlayer, p}
  /\ MarkLost(c, [who |-> byGid[g], lost |-> TRUE,
                  next |-> p, ngid |-> g, nold |-> gid[p]])
  /\ UNCHANGED <<live, queue, loop, timer>>

(***************************************************************************)
(* A save returns.  _mark_lost then replaces the player's orphan task by a *)
(* new one, and an operator's steal goes on to bind.                       *)
(***************************************************************************)
TimerAfter(j) ==
  IF j.lost THEN [timer EXCEPT ![j.who] = "sleep"] ELSE timer

SaveReturns(c) ==
  /\ job[c] # Idle
  /\ job[c].next = NoPlayer
  /\ job' = [job EXCEPT ![c] = Idle]
  /\ timer' = TimerAfter(job[c])
  /\ UNCHANGED <<st, gid, byGid, live, queue, loop, unsaved>>

\* Faulty variant: a steal does not wait for the robbed player's orphan task.
StealBindsUntimed(c) ==
  /\ job[c].next # NoPlayer
  /\ Bind(c, job[c].next, job[c].ngid, job[c].nold, timer)
  /\ UNCHANGED <<live, queue, loop>>

StealBinds(c) ==
  /\ job[c].next # NoPlayer
  /\ Bind(c, job[c].next, job[c].ngid, job[c].nold, TimerAfter(job[c]))
  /\ UNCHANGED <<live, queue, loop>>

\* The exception ends the request, or the handling of the current event.
SaveFails(t) ==
  /\ Failures
  /\ job[t] # Idle
  /\ job' = [job EXCEPT ![t] = Idle]
  /\ loop' = IF t = Run THEN NoLoop ELSE loop
  /\ unsaved' = unsaved \cup {p \in Players : job[t].who = p /\ job[t].lost /\ st[p] = "lost"}
  /\ UNCHANGED <<st, gid, byGid, live, queue, timer>>

\* Faulty variant: the orphan task looks for the wrong state.
OrphanFiresLate(p) ==
  /\ timer[p] = "sleep"
  /\ st[p] # "orphaned"
  /\ timer' = [timer EXCEPT ![p] = "none"]
  /\ UNCHANGED <<st, gid, byGid, live, queue, loop, job, unsaved>>

(***************************************************************************)
(* _orphan_after_delay.                                                    *)
(***************************************************************************)
OrphanFires(p) ==
  /\ timer[p] = "sleep"
  /\ unsaved' = unsaved \ {p}
  /\ IF st[p] = "lost"
       THEN /\ st' = [st EXCEPT ![p] = "orphaned"]
            /\ timer' = [timer EXCEPT ![p] = "save"]
       ELSE /\ timer' = [timer EXCEPT ![p] = "none"]
            /\ UNCHANGED st
  /\ UNCHANGED <<gid, byGid, live, queue, loop, job>>

OrphanSaved(p) ==
  /\ timer[p] = "save"
  /\ timer' = [timer EXCEPT ![p] = "none"]
  /\ UNCHANGED <<st, gid, byGid, live, queue, loop, job, unsaved>>

(***************************************************************************)
(* handle_tracking_event, from one await to the next.  l is what is left   *)
(* of the event and tm the state of the orphan tasks at the resumption.    *)
(* Iterations that find nothing to do are passed over without an await.    *)
(***************************************************************************)
ToLose(l) == {p \in l.lose : st[p] = "bound" /\ gid[p] \notin l.gids}

\* Faulty variant: a resync stops at the first player it loses.
LoseFirst(l, tm) ==
  \E p \in ToLose(l) :
    /\ MarkLost(Run, Saving(p, TRUE))
    /\ loop' = [l EXCEPT !.lose = {}]
    /\ timer' = tm

LoseNext(l, tm) ==
  \E p \in ToLose(l), rest \in SUBSET l.lose :
    /\ p \notin rest
    /\ ToLose(l) \ {p} \subseteq rest
    /\ MarkLost(Run, Saving(p, TRUE))
    /\ loop' = [l EXCEPT !.lose = rest]
    /\ timer' = tm

\* _on_gid_appeared: exactly one plausible candidate.
AutoRebind(l, tm) ==
  /\ ToLose(l) = {}
  /\ \E g \in l.scan \cap live, rest \in SUBSET l.scan, p \in Waiting :
       /\ g \notin rest
       /\ byGid[g] = NoPlayer
       /\ Bind(Run, p, g, NoGid, tm)
       /\ loop' = Scanning(rest, g)

\* _maybe_resolve_ritual, for the GID just tried or for a later one.
Ritual(l, tm) ==
  /\ ToLose(l) = {}
  /\ \E g \in (l.scan \cup {l.again}) \cap live, rest \in SUBSET l.scan, p \in Players :
       /\ g \notin rest
       /\ g = l.again => rest = l.scan
       /\ byGid[g] = NoPlayer
       /\ st[p] = "orphaned"
       /\ Bind(Run, p, g, NoGid, tm)
       /\ loop' = Scanning(rest, NoGid)

Finish(l, tm) ==
  /\ ToLose(l) = {}
  /\ loop' = NoLoop
  /\ job' = [job EXCEPT ![Run] = Idle]
  /\ timer' = tm
  /\ UNCHANGED <<st, gid, byGid, unsaved>>

Advance(l, tm) ==
  LoseNext(l, tm) \/ AutoRebind(l, tm) \/ Ritual(l, tm) \/ Finish(l, tm)

Free == job[Run] = Idle

HandleResync ==
  /\ Free
  /\ queue # << >> /\ Head(queue).type = "resync"
  /\ queue' = Tail(queue)
  /\ Advance([lose |-> {p \in Players : st[p] # "unclaimed"}, gids |-> Head(queue).gids,
              scan |-> Head(queue).gids, again |-> NoGid], timer)
  /\ UNCHANGED live

HandleGone ==
  /\ Free
  /\ queue # << >> /\ Head(queue).type = "gone"
  /\ queue' = Tail(queue)
  /\ LET holders == {byGid[g] : g \in Head(queue).gids}
     IN  \/ \E p \in holders \ {NoPlayer} : MarkLost(Run, Saving(p, TRUE))
         \/ /\ \A p \in holders \ {NoPlayer} : st[p] # "bound"
            /\ UNCHANGED <<st, gid, byGid, job, unsaved>>
  /\ UNCHANGED <<live, loop, timer>>

HandleSeen ==
  /\ Free
  /\ queue # << >> /\ Head(queue).type = "seen"
  /\ queue' = Tail(queue)
  /\ LET holders == {byGid[g] : g \in Head(queue).gids}
     IN  \/ /\ NoPlayer \in holders
            /\ Advance(Scanning(Head(queue).gids, NoGid), timer)
         \/ /\ \E p \in holders \ {NoPlayer} :
                 job' = [job EXCEPT ![Run] = Saving(p, FALSE)]
            /\ UNCHANGED <<st, gid, byGid, loop, timer, unsaved>>
  /\ UNCHANGED live

RunResumes ==
  /\ job[Run] # Idle
  /\ Advance(loop, TimerAfter(job[Run]))
  /\ UNCHANGED feedVars

(***************************************************************************)
(* TrackingClient: a message updates _state at once and is published to    *)
(* the queue, which drops the new event when it is full.                   *)
(***************************************************************************)
Publish(e) ==
  /\ Overflow \/ Len(queue) < QueueMax
  /\ queue' = IF Len(queue) < QueueMax THEN Append(queue, e) ELSE queue
  /\ UNCHANGED <<st, gid, byGid, loop, job, timer, unsaved>>

GidSeen(g)  == live' = live \cup {g} /\ Publish(Seen(g))
\* Faulty variant: an invisible GID is removed without telling anybody.
GidGoneSilently(g) ==
  /\ live' = live \ {g}
  /\ UNCHANGED <<st, gid, byGid, queue, loop, job, timer, unsaved>>

GidGone(g)  == live' = live \ {g} /\ Publish(Gone(g))
Snapshot(S) == live' = S /\ Publish(Resync(S))

Feed == \/ \E g \in Gids : GidSeen(g) \/ GidGone(g)
        \/ \E S \in SUBSET Gids : Snapshot(S)

Requests == \E c \in Clients, p \in Players, g \in Gids :
              Claim(c, p, g) \/ OperatorRebind(c, p, g) \/ OperatorSteal(c, p, g)
Replies  == \E c \in Clients : SaveReturns(c) \/ StealBinds(c)
Timers   == \E p \in Players : OrphanFires(p) \/ OrphanSaved(p)
RunLoop  == HandleResync \/ HandleGone \/ HandleSeen \/ RunResumes

Next == Feed \/ Requests \/ Replies \/ Timers \/ RunLoop \/ \E t \in Tasks : SaveFails(t)

Spec == Init /\ [][Next]_vars

(***************************************************************************)
(* The loop serves every ready task, database calls return and timers      *)
(* expire.  Nobody is obliged to send a request or a tracking message.     *)
(***************************************************************************)
Fairness ==
  /\ WF_vars(RunLoop)
  /\ \A c \in Clients : WF_vars(SaveReturns(c) \/ StealBinds(c))
  /\ \A p \in Players : WF_vars(OrphanFires(p)) /\ WF_vars(OrphanSaved(p))

FairSpec == Spec /\ Fairness

-----------------------------------------------------------------------------
TypeOK ==
  /\ st \in [Players -> {"unclaimed", "bound", "lost", "orphaned"}]
  /\ gid \in [Players -> Gids \cup {NoGid}]
  /\ byGid \in [Gids -> Players \cup {NoPlayer}]
  /\ live \in SUBSET Gids
  /\ queue \in Seq(Event)
  /\ loop \in Loop
  /\ job \in [Tasks -> Job]
  /\ timer \in [Players -> {"none", "sleep", "save"}]
  /\ unsaved \in SUBSET Players

(***************************************************************************)
(* _by_gid is exactly the inverse of the players' own records: a GID leads *)
(* to the player bound to it, and a bound player is found through his GID. *)
(* Every lookup of the engine, the audio bridge and the claim check goes   *)
(* through _by_gid, every saved row through the record.                    *)
(***************************************************************************)
IndexExact ==
  \A p \in Players, g \in Gids :
    byGid[g] = p <=> st[p] = "bound" /\ gid[p] = g

\* No GID is ever bound to two players at once (the soak test's invariant).
NoDoubleBinding ==
  \A p, q \in Players :
    st[p] = "bound" /\ st[q] = "bound" /\ gid[p] = gid[q] => p = q

\* The event at the head or further back will find g no longer visible.
Kills(e, g) == \/ e.type = "gone" /\ g \in e.gids
               \/ e.type = "resync" /\ g \notin e.gids

LossPending(p) ==
  \/ \E i \in 1 .. Len(queue) : Kills(queue[i], gid[p])
  \/ p \in loop.lose /\ gid[p] \notin loop.gids

(***************************************************************************)
(* A player is bound to a GID that tracking no longer sees only while the  *)
(* news of its loss is still on its way to him: however requests, resyncs  *)
(* and queued events interleave, nobody stays attached to a ghost.         *)
(***************************************************************************)
NoDeadBinding ==
  \A p \in Players : st[p] = "bound" => gid[p] \in live \/ LossPending(p)

(***************************************************************************)
(* A lost player has an orphan task, or the _mark_lost that will start one *)
(* is still waiting for its save; the only way to be left without is that  *)
(* this save failed.  Requests, events and steals may take over a player   *)
(* while his timer, or an older one, is anywhere in its life.              *)
(***************************************************************************)
LostIsTimed ==
  \A p \in Players : st[p] = "lost" =>
    \/ timer[p] = "sleep"
    \/ \E t \in Tasks : job[t].who = p /\ job[t].lost
    \/ p \in unsaved

\* A lost player is rebound or becomes an orphan the ritual can serve.
LostResolves ==
  \A p \in Players : st[p] = "lost" ~> st[p] # "lost"

\* A player whose GID has vanished is released from it, unless it comes back.
DeadBindingReleased ==
  \A p \in Players, g \in Gids :
    (st[p] = "bound" /\ gid[p] = g /\ g \notin live)
      ~> (g \in live \/ ~ (st[p] = "bound" /\ gid[p] = g))

Board == INSTANCE BindingBoard WITH holder <- byGid, phase <- st

\* Without steals the manager implements the board of exclusive bindings.
BoardSpec == Board!Spec
=============================================================================
