---------------------------- MODULE BindingStore ----------------------------
(***************************************************************************)
(* Bindings written through to PocketBase, and read back after a crash.    *)
(*                                                                         *)
(* Every save of Bindings is a call of upsert_player                       *)
(* (pocketbase_client.py) whose row is fixed when the call is made.  The   *)
(* request reaches the database at some later moment; when its reply is    *)
(* lost or does not come in time, _request sends it again, up to three     *)
(* times.  Calls of different tasks travel on different connections, in    *)
(* any order.  An attempt nobody waits for any more, because it timed out, *)
(* its call failed, its task was cancelled or its runner died, may still   *)
(* be served, however late.                                                *)
(***************************************************************************)
EXTENDS Bindings, FiniteSets

CONSTANT MaxLate   \* bound on the attempts under way that nobody waits for: timed
                   \* out, of cancelled tasks, or left by a runner that died

ASSUME StoreAssumption ==
  MaxLate \in Nat /\ Players \cap (Clients \cup {Run}) = {}

VARIABLES
  db,       \* the row of each player, NoRow before the first write
  wire,     \* the row each task (or player's orphan task) is writing, NoRow once
            \* the database has served it for the last time
  ghost,    \* the attempts under way that nobody waits for: [who, row]
  suspect   \* history: players whose last write met another one, was cancelled or
            \* failed

dbVars == <<db, wire, ghost, suspect>>
storeVars == <<vars, dbVars>>

Writers == Tasks \cup Players

NoRow == [st |-> "none", gid |-> NoGid]
Row == [st : {"bound", "lost", "orphaned"}, gid : Gids \cup {NoGid}]

\* Faulty variant: the row of an orphaned player is taken before he is one.
OrphanedEarly == [st |-> "lost", gid |-> NoGid]

Orphaned == [st |-> "orphaned", gid |-> NoGid]

Pending == {w \in Writers : wire[w] # NoRow}

\* Whose row writer w writes (an orphan task is named after its player).
Subject(w) == IF w \in Players THEN w ELSE job[w].who

\* What writer w has under way, as an attempt nobody waits for.
Attempt(w) == IF w \in Pending THEN {[who |-> Subject(w), row |-> wire[w]]} ELSE {}

StoreInit ==
  /\ Init
  /\ db = [p \in Players |-> NoRow]
  /\ wire = [w \in Writers |-> NoRow]
  /\ ghost = {}
  /\ suspect = {}

(***************************************************************************)
(* Composition with a step of Bindings in which writer w may start to save *)
(* (to_row is taken after the change in memory) and orphan tasks may be    *)
(* cancelled.  A write that starts while another one for the same player   *)
(* is under way, awaited or not, makes the row suspect; one that starts    *)
(* alone clears it.                                                        *)
(***************************************************************************)
Called(w) ==
  IF w \in Players
    THEN IF timer'[w] = "save" THEN Orphaned ELSE NoRow
    ELSE LET p == job'[w].who
         IN  IF p = NoPlayer THEN NoRow ELSE [st |-> st'[p], gid |-> gid'[p]]

Cancelled(w) == {p \in Players \ {w} : timer[p] = "save" /\ timer'[p] # "save"}

Send(w) ==
  LET row == Called(w)
      p == IF w \in Players THEN w ELSE job'[w].who
      dropped == Cancelled(w) \cap Pending
      others == {v \in Pending \ ({w} \cup dropped) : Subject(v) = p}
  IN  /\ wire' = [v \in Writers |-> IF v = w THEN row
                                    ELSE IF v \in dropped THEN NoRow ELSE wire[v]]
      /\ ghost' = ghost \cup UNION {Attempt(v) : v \in dropped}
      /\ Cardinality(ghost') <= MaxLate
      /\ suspect' = dropped \cup
                    IF row = NoRow THEN suspect
                    ELSE IF others # {} \/ \E x \in ghost' : x.who = p
                    THEN suspect \cup {p}
                    ELSE suspect \ {p}
      /\ UNCHANGED db

(***************************************************************************)
(* The database serves a request.  If the reply is lost the request stays  *)
(* pending and is sent, and served, again.                                 *)
(***************************************************************************)
Serve(w) ==
  /\ w \in Pending
  /\ db' = [db EXCEPT ![Subject(w)] = wire[w]]
  /\ wire' \in {wire, [wire EXCEPT ![w] = NoRow]}
  /\ UNCHANGED <<vars, ghost, suspect>>

\* An attempt times out, and is still under way while the call goes on: with another
\* attempt, or, when it was the third, with Failed.
TimesOut(w) ==
  /\ w \in Pending
  /\ ghost' = ghost \cup Attempt(w)
  /\ Cardinality(ghost') <= MaxLate
  /\ UNCHANGED <<vars, db, wire, suspect>>

\* An attempt nobody waits for is served, or lost.
GhostEnds(x) ==
  /\ ghost' = ghost \ {x}
  /\ db' \in {db, [db EXCEPT ![x.who] = x.row]}
  /\ UNCHANGED <<vars, wire, suspect>>

\* The third attempt was refused, or has timed out, and upsert_player raises.  Those
\* that timed out are ghosts and may still be served.
Failed(w) ==
  /\ wire' = [wire EXCEPT ![w] = NoRow]
  /\ suspect' = suspect \cup {Subject(w)}
  /\ UNCHANGED <<db, ghost>>

(***************************************************************************)
(* The runner dies and BindingManager.load reads the rows.  The attempts   *)
(* under way are lost, were served just before (Serve), or may still be    *)
(* served: at most MaxLate of them, with the ghosts there are.             *)
(* _by_gid keeps the last of several rows with the same GID.  No orphan    *)
(* task is started.                                                        *)
(***************************************************************************)
\* Faulty variant: the index is not rebuilt.
LoadNoIndex(rows) ==
  /\ st' = [p \in Players |-> IF rows[p] = NoRow THEN "unclaimed" ELSE rows[p].st]
  /\ gid' = [p \in Players |-> rows[p].gid]
  /\ byGid' = [g \in Gids |-> NoPlayer]

Load(rows) ==
  /\ st' = [p \in Players |-> IF rows[p] = NoRow THEN "unclaimed" ELSE rows[p].st]
  /\ gid' = [p \in Players |-> rows[p].gid]
  /\ byGid' \in [Gids -> Players \cup {NoPlayer}]
  /\ \A g \in Gids :
       LET holders == {p \in Players : rows[p].st = "bound" /\ rows[p].gid = g}
       IN  byGid'[g] \in IF holders = {} THEN {NoPlayer} ELSE holders

Crash ==
  /\ Load(db)
  /\ live' = {}
  /\ queue' = << >>
  /\ loop' = NoLoop
  /\ job' = [t \in Tasks |-> Idle]
  /\ timer' = [p \in Players |-> "none"]
  /\ unsaved' = {}
  /\ wire' = [w \in Writers |-> NoRow]
  /\ ghost' \in SUBSET (ghost \cup UNION {Attempt(w) : w \in Pending})
  /\ Cardinality(ghost') <= MaxLate
  /\ suspect' = {x.who : x \in ghost'}
  /\ UNCHANGED db

StoreRequests == \E c \in Clients, p \in Players, g \in Gids :
  (Claim(c, p, g) \/ OperatorRebind(c, p, g) \/ OperatorSteal(c, p, g)) /\ Send(c)

StoreReplies(c) == wire[c] = NoRow /\ (SaveReturns(c) \/ StealBinds(c)) /\ Send(c)

StoreRun == /\ \/ HandleResync \/ HandleGone \/ HandleSeen
               \/ wire[Run] = NoRow /\ RunResumes
            /\ Send(Run)

StoreTimer(p) == \/ OrphanFires(p) /\ Send(p)
                 \/ wire[p] = NoRow /\ OrphanSaved(p) /\ Send(p)

StoreFails == \/ \E t \in Tasks : SaveFails(t) /\ Failed(t)
              \/ \E p \in Players : Failures /\ OrphanSaved(p) /\ Failed(p)

StoreNext ==
  \/ Feed /\ UNCHANGED dbVars
  \/ StoreRequests
  \/ \E c \in Clients : StoreReplies(c)
  \/ \E p \in Players : StoreTimer(p)
  \/ StoreRun
  \/ \E w \in Writers : Serve(w) \/ TimesOut(w)
  \/ \E x \in ghost : GhostEnds(x)
  \/ StoreFails
  \/ Crash

StoreSpec == StoreInit /\ [][StoreNext]_storeVars

-----------------------------------------------------------------------------
InMemory(p) == IF st[p] = "unclaimed" THEN NoRow ELSE [st |-> st[p], gid |-> gid[p]]

Unwritten(p) == (\E x \in ghost : x.who = p) \/ \E w \in Pending : Subject(w) = p

(***************************************************************************)
(* Writing through (_save) keeps the row of a player current as long as    *)
(* his writes do not meet and succeed: the row can only be wrong while a   *)
(* write is under way, or after one for that player failed, was cancelled  *)
(* or started while an earlier attempt was still on its way.               *)
(***************************************************************************)
SerialWritesMirror ==
  \A p \in Players : Unwritten(p) \/ p \in suspect \/ db[p] = InMemory(p)

(***************************************************************************)
(* A restart at a quiet moment changes nothing the bindings depend on: the *)
(* claim of the class comment that load can rebuild identical state, with  *)
(* the proviso that writes were serial.                                    *)
(***************************************************************************)
Quiet == Pending = {} /\ ghost = {}

RestartIsExact ==
  [][Quiet /\ suspect = {} /\ Crash =>
       UNCHANGED <<st, gid>> /\ (IndexExact => UNCHANGED byGid)]_storeVars
=============================================================================
