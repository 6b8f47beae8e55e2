---------------------------- MODULE ClaimBridge ----------------------------
(***************************************************************************)
(* How a phone claims a GID.  submitClaim (apps/frontend/src/lib/pb.js)    *)
(* creates a row of claim_requests and watches it three ways: a realtime   *)
(* subscription, one read when that is live, and a poll every second that  *)
(* also gives up.  _consume_claim_requests (apps/runner/server/app.py)     *)
(* lists the pending rows, then follows the realtime stream, and writes    *)
(* each outcome onto its row.                                              *)
(*                                                                         *)
(* The binding layer behind `bindings.claim' is the abstract BindingBoard, *)
(* which Bindings implements.  Whether a GID is visible is a free choice   *)
(* each time it is asked.  PocketBase and its browser SDK are modelled     *)
(* from their use here: a second request with the method and path of one   *)
(* under way aborts that one, and an idle stream is closed by the server.  *)
(***************************************************************************)
EXTENDS Naturals, Sequences, SequencesExt

CONSTANTS
  Players, Gids, NoPlayer,
  Phones,     \* the players whose phone submits claims here
  MaxCalls,   \* claims a phone submits
  MaxTicks,   \* polls before submitClaim gives up (12 in the code)
  NoCall

ASSUME PhonesAssumption == Phones \subseteq Players /\ NoPlayer \notin Players
ASSUME LimitAssumption == MaxCalls \in Nat \ {0} /\ MaxTicks \in Nat \ {0}

Calls == Phones \X (1 .. MaxCalls)
who(c) == c[1]

VARIABLES
  holder, phase,  \* the binding layer
  busy,     \* the phones whose ClaimForm is busy
  call,     \* where each submitClaim stands: its awaits, then its outcome
  want,     \* the GID each call asks for
  row,      \* each call's claim_requests row: posted to PocketBase, or its status
  sub,      \* the call's realtime subscription
  note,     \* the realtime event under way to the call, by status
  get,      \* who awaits the call's one getOne under way
  waited,   \* polls so far
  bridge,   \* where _consume_claim_requests stands
  todo,     \* rows it has listed or been told of, in order
  work,     \* the request it is processing and its outcome so far
  granted   \* history: calls on whose behalf the player was bound

phoneVars == <<busy, call, want, sub, get, waited>>
bridgeVars == <<bridge, todo, work>>
boardVars == <<holder, phase>>
vars == <<boardVars, phoneVars, row, note, bridgeVars, granted>>

Board == INSTANCE BindingBoard
DB == INSTANCE Schema

Settled == {"done", "error", "timeout", "failed"}
NoWork == [call |-> NoCall, res |-> "none"]

Init ==
  /\ Board!Init
  /\ busy = {}
  /\ call = [c \in Calls |-> "none"]
  /\ want \in [Calls -> Gids]
  /\ row = [c \in Calls |-> "none"]
  /\ sub = [c \in Calls |-> "none"]
  /\ note = [c \in Calls |-> "none"]
  /\ get = [c \in Calls |-> "none"]
  /\ waited = [c \in Calls |-> 0]
  /\ bridge = "down"
  /\ todo = << >>
  /\ work = NoWork
  /\ granted = {}

-----------------------------------------------------------------------------
(* The phone.                                                              *)

\* ClaimForm's claim(): the button is disabled while busy, the Enter key is
\* not.  A create still under way from the same phone is aborted by the SDK;
\* its promise rejects, its row may still be made.
Submit(p, n, key) ==
  LET c == <<p, n>>
      aborted == {d \in Calls : who(d) = p /\ call[d] = "create"} IN
  /\ key = "button" => p \notin busy
  /\ call[c] = "none"
  /\ \A m \in 1 .. n - 1 : call[<<p, m>>] # "none"
  /\ call' = [d \in Calls |-> IF d = c THEN "create"
                              ELSE IF d \in aborted THEN "failed" ELSE call[d]]
  /\ busy' = IF aborted = {} THEN busy \cup {p} ELSE busy \ {p}
  /\ row' = [row EXCEPT ![c] = "posted"]
  /\ UNCHANGED <<boardVars, want, sub, get, waited, note, bridgeVars, granted>>

\* The create's reply: the row is watched and the interval started.
CreateReturns(c) ==
  /\ call[c] = "create"
  /\ row[c] \notin {"posted", "lost"}
  /\ call' = [call EXCEPT ![c] = "wait"]
  /\ sub' = [sub EXCEPT ![c] = "asked"]
  /\ UNCHANGED <<boardVars, busy, want, get, waited, row, note, bridgeVars, granted>>

\* Faulty variant: the form stays busy after a settled claim.
SettleStaysBusy(c, outcome) ==
  /\ call' = [call EXCEPT ![c] = outcome]
  /\ sub' = [sub EXCEPT ![c] = "closed"]
  /\ UNCHANGED busy

\* settled = true; cleanup(); resolve() or reject(), and claim's finally.  A
\* subscription still being made is never released, and ignored.
Settle(c, outcome) ==
  /\ call' = [call EXCEPT ![c] = outcome]
  /\ sub' = [sub EXCEPT ![c] = "closed"]
  /\ busy' = busy \ {who(c)}

\* The create fails for the phone, whatever became of the row.
CreateFails(c) ==
  /\ call[c] = "create"
  /\ Settle(c, "failed")
  /\ UNCHANGED <<boardVars, want, get, waited, row, note, bridgeVars, granted>>

\* Faulty variant: a row that is still pending counts as a success.
OutcomeOfAny(status) == IF status = "error" THEN "error" ELSE "done"

\* What finish(rec) makes of a record with this status.
OutcomeOf(status) == IF status \in {"done", "error"} THEN status ELSE "wait"

\* Faulty variant: only an answered poll is asked whether to give up.
AfterGetAnswered(c, status, w) ==
  LET seen == OutcomeOf(status) IN
  IF seen # "wait" THEN seen
  ELSE IF get[c] = "tick" /\ status # "none" /\ w >= MaxTicks THEN "timeout" ELSE "wait"

\* Where a waiting call stands after the getOne under way gave status ("none":
\* it failed or was aborted); the poll's callback then counts its ticks.
AfterGet(c, status, w) ==
  LET seen == OutcomeOf(status) IN
  IF seen # "wait" THEN seen
  ELSE IF get[c] = "tick" /\ w >= MaxTicks THEN "timeout" ELSE "wait"

\* A settled call ignores what its reads and events still bring.
Becomes(c, next, read) ==
  IF next = "wait"
    THEN /\ get' = [get EXCEPT ![c] = read]
         /\ UNCHANGED <<call, sub, busy>>
    ELSE /\ Settle(c, next)
         /\ get' = [get EXCEPT ![c] = "none"]

\* The subscription is live: read once for what came before it.  The read
\* aborts a poll's.
SubscribeReturns(c) ==
  LET next == AfterGet(c, "none", waited[c]) IN
  /\ call[c] = "wait"
  /\ sub[c] = "asked"
  /\ IF next = "wait"
       THEN /\ get' = [get EXCEPT ![c] = "first"]
            /\ sub' = [sub EXCEPT ![c] = "live"]
            /\ UNCHANGED <<call, busy>>
       ELSE /\ get' = [get EXCEPT ![c] = "none"]
            /\ call' = [call EXCEPT ![c] = next]
            /\ busy' = busy \ {who(c)}
            /\ sub' = [sub EXCEPT ![c] = "closed"]
  /\ UNCHANGED <<boardVars, want, waited, row, note, bridgeVars, granted>>

SubscribeFails(c) ==
  /\ call[c] = "wait"
  /\ sub[c] = "asked"
  /\ sub' = [sub EXCEPT ![c] = "closed"]
  /\ UNCHANGED <<boardVars, busy, call, want, get, waited, row, note, bridgeVars, granted>>

\* The interval fires: one more poll, which aborts the read under way.
Tick(c) ==
  LET w == IF waited[c] < MaxTicks THEN waited[c] + 1 ELSE MaxTicks IN
  /\ call[c] = "wait"
  /\ waited' = [waited EXCEPT ![c] = w]
  /\ Becomes(c, AfterGet(c, "none", w), "tick")
  /\ UNCHANGED <<boardVars, want, row, note, bridgeVars, granted>>

\* The row as it was when the read was served: pending, or as it is now.
GetReturns(c) ==
  /\ get[c] # "none"
  /\ DB!Viewed("claim_requests")
  /\ \E status \in {"pending", row[c]} : Becomes(c, AfterGet(c, status, waited[c]), "none")
  /\ UNCHANGED <<boardVars, want, waited, row, note, bridgeVars, granted>>

GetFails(c) ==
  /\ get[c] # "none"
  /\ Becomes(c, AfterGet(c, "none", waited[c]), "none")
  /\ UNCHANGED <<boardVars, want, waited, row, note, bridgeVars, granted>>

NoteArrives(c) ==
  /\ call[c] = "wait"
  /\ note[c] # "none"
  /\ Becomes(c, OutcomeOf(note[c]), get[c])
  /\ note' = [note EXCEPT ![c] = "none"]
  /\ UNCHANGED <<boardVars, want, waited, row, bridgeVars, granted>>

Phone ==
  \/ \E p \in Phones, n \in 1 .. MaxCalls, key \in {"button", "enter"} : Submit(p, n, key)
  \/ \E c \in Calls : \/ CreateReturns(c) \/ CreateFails(c)
                      \/ SubscribeReturns(c) \/ SubscribeFails(c)
                      \/ Tick(c) \/ GetReturns(c) \/ GetFails(c) \/ NoteArrives(c)

-----------------------------------------------------------------------------
(* PocketBase.                                                             *)

\* The row is made, and the bridge hears of it if its stream is live.
CreateServed(c) ==
  /\ row[c] = "posted"
  /\ DB!Created("claim_requests")
  /\ row' = [row EXCEPT ![c] = "pending"]
  /\ todo' = IF bridge = "live" THEN Append(todo, c) ELSE todo
  /\ UNCHANGED <<boardVars, phoneVars, note, bridge, work, granted>>

CreateLost(c) ==
  /\ row[c] = "posted"
  /\ call[c] = "failed"
  /\ row' = [row EXCEPT ![c] = "lost"]
  /\ UNCHANGED <<boardVars, phoneVars, note, bridgeVars, granted>>

NoteLost(c) ==
  /\ note[c] # "none"
  /\ note' = [note EXCEPT ![c] = "none"]
  /\ UNCHANGED <<boardVars, phoneVars, row, bridgeVars, granted>>

PocketBase ==
  \E c \in Calls : CreateServed(c) \/ CreateLost(c) \/ NoteLost(c)

-----------------------------------------------------------------------------
(* The bridge.                                                             *)

PendingRows == {c \in Calls : row[c] = "pending"}

\* load_pending_claim_requests, ordered by the clocks of the phones.
CatchUp ==
  /\ bridge = "down"
  /\ bridge' = "catchup"
  /\ todo' \in SetToSeqs(PendingRows)
  /\ UNCHANGED <<boardVars, phoneVars, row, note, work, granted>>

\* The list is done: the stream is opened, and some time later subscribed.
OpenStream ==
  /\ bridge = "catchup"
  /\ todo = << >>
  /\ work = NoWork
  /\ bridge' = "opening"
  /\ UNCHANGED <<boardVars, phoneVars, row, note, todo, work, granted>>

StreamLive ==
  /\ bridge = "opening"
  /\ bridge' = "live"
  /\ UNCHANGED <<boardVars, phoneVars, row, note, todo, work, granted>>

Idle == work = NoWork /\ bridge \in {"catchup", "live"} /\ todo # << >>

\* _process_claim_request up to its first await: the player holds the GID.
AlreadyBound ==
  LET c == Head(todo) IN
  /\ Idle
  /\ holder[want[c]] = who(c)
  /\ work' = [call |-> c, res |-> "done"]
  /\ todo' = Tail(todo)
  /\ granted' = granted \cup {c}
  /\ UNCHANGED <<boardVars, phoneVars, row, note, bridge>>

\* bindings.claim accepts and awaits its save.
Grants ==
  LET c == Head(todo)  p == who(c)  g == want[c] IN
  /\ Idle
  /\ phase[p] # "bound"
  /\ holder[g] = NoPlayer
  /\ phase' = [phase EXCEPT ![p] = "bound"]
  /\ holder' = [h \in Gids |-> IF h = g THEN p ELSE holder[h]]
  /\ work' = [call |-> c, res |-> "saving"]
  /\ todo' = Tail(todo)
  /\ granted' = granted \cup {c}
  /\ UNCHANGED <<phoneVars, row, note, bridge>>

\* bindings.claim raises BindingError: bound, taken, or no such GID to be seen.
Refuses ==
  LET c == Head(todo) IN
  /\ Idle
  /\ holder[want[c]] # who(c)
  /\ work' = [call |-> c, res |-> "error"]
  /\ todo' = Tail(todo)
  /\ UNCHANGED <<boardVars, phoneVars, row, note, bridge, granted>>

SaveReturns ==
  /\ work.res = "saving"
  /\ work' = [work EXCEPT !.res = "done"]
  /\ UNCHANGED <<boardVars, phoneVars, row, note, bridge, todo, granted>>

\* resolve_claim_request is served: the watching phone is told.
Resolves ==
  /\ work.res \in {"done", "error"}
  /\ row[work.call] = "pending"
  /\ row' = [row EXCEPT ![work.call] = work.res]
  /\ note' = [note EXCEPT ![work.call] = IF call[work.call] = "wait" /\ sub[work.call] = "live" /\ DB!Viewed("claim_requests") THEN work.res ELSE @]
  /\ UNCHANGED <<boardVars, phoneVars, bridgeVars, granted>>

ResolveReturns ==
  /\ work.res \in {"done", "error"}
  /\ row[work.call] # "pending"
  /\ work' = NoWork
  /\ UNCHANGED <<boardVars, phoneVars, row, note, bridge, todo, granted>>

\* A database call fails after its retries: reconnect and catch up.
BridgeFails ==
  /\ work # NoWork
  /\ bridge' = "down"
  /\ work' = NoWork
  /\ todo' = << >>
  /\ UNCHANGED <<boardVars, phoneVars, row, note, granted>>

\* Faulty variant: the stream is reopened without listing what it had not said.
StreamReopened ==
  /\ bridge \in {"opening", "live"}
  /\ work = NoWork
  /\ bridge' = "opening"
  /\ todo' = << >>
  /\ UNCHANGED <<boardVars, phoneVars, row, note, work, granted>>

\* The stream breaks, or the server closes it: what it had not said is listed.
StreamEnds ==
  /\ bridge \in {"opening", "live"}
  /\ work = NoWork
  /\ bridge' = "down"
  /\ todo' = << >>
  /\ UNCHANGED <<boardVars, phoneVars, row, note, work, granted>>

Bridge ==
  \/ CatchUp \/ OpenStream \/ StreamLive \/ AlreadyBound \/ Grants \/ Refuses
  \/ SaveReturns \/ Resolves \/ ResolveReturns \/ BridgeFails \/ StreamEnds

-----------------------------------------------------------------------------
(* The rest of the binding layer: losses, time-outs, rebinds and the        *)
(* console's own claims.                                                   *)

Others ==
  /\ \E p \in Players :
       \/ Board!Lose(p)
       \/ Board!Orphan(p)
       \/ \E g \in Gids : /\ holder[g] = NoPlayer
                          /\ phase[p] # "bound"
                          /\ Board!Take(p, g)
  /\ UNCHANGED <<phoneVars, row, note, bridgeVars, granted>>

Next == Phone \/ PocketBase \/ Bridge \/ Others

Spec == Init /\ [][Next]_vars

\* The browser's timer keeps firing and a create is answered or fails; no
\* read needs to be answered.  The consumer task runs and its calls return or
\* fail.  PocketBase closes a stream that is idle, and a call that is retried
\* for ever is served in the end.
BridgeTurns ==
  \/ CatchUp \/ OpenStream \/ StreamLive \/ AlreadyBound \/ Grants \/ Refuses

Fairness ==
  /\ \A c \in Calls : /\ WF_vars(CreateServed(c) \/ CreateLost(c))
                      /\ WF_vars(CreateReturns(c) \/ CreateFails(c))
                      /\ WF_vars(Tick(c))
  /\ WF_vars(BridgeTurns)
  /\ WF_vars(StreamEnds)
  /\ SF_vars(SaveReturns)
  /\ SF_vars(Resolves)
  /\ WF_vars(ResolveReturns)

FairSpec == Spec /\ Fairness

-----------------------------------------------------------------------------
(* Properties.                                                             *)

TypeOK ==
  /\ holder \in [Gids -> Players \cup {NoPlayer}]
  /\ phase \in [Players -> {"unclaimed", "bound", "lost", "orphaned"}]
  /\ busy \subseteq Phones
  /\ call \in [Calls -> {"none", "create", "wait"} \cup Settled]
  /\ want \in [Calls -> Gids]
  /\ row \in [Calls -> {"none", "posted", "lost", "pending", "done", "error"}]
  /\ sub \in [Calls -> {"none", "asked", "live", "closed"}]
  /\ note \in [Calls -> {"none", "done", "error"}]
  /\ get \in [Calls -> {"none", "first", "tick"}]
  /\ waited \in [Calls -> 0 .. MaxTicks]
  /\ bridge \in {"down", "catchup", "opening", "live"}
  /\ todo \in Seq(Calls)
  /\ work \in [call : Calls \cup {NoCall}, res : {"none", "saving", "done", "error"}]
  /\ granted \subseteq Calls

\* What a phone is told of its claim is what the game server decided, however
\* the event, the first read and the polls interleave: a success is the
\* row's, for a player who was bound to that GID; a refusal is the row's too.
OutcomeIsTrue ==
  \A c \in Calls :
    /\ call[c] \in {"done", "error"} => row[c] = call[c]
    /\ row[c] = "done" => c \in granted

\* The claim button is never left disabled: a busy form has a claim under way.
FormFree ==
  \A p \in busy : \E c \in Calls : who(c) = p /\ call[c] \in {"create", "wait"}

\* Every submitted claim ends for the phone, even if no read or event of it
\* ever arrives.
CallsEnd == \A c \in Calls : call[c] \in {"create", "wait"} ~> call[c] \in Settled

\* Every row the game server was left is resolved in the end: one the list
\* and the stream both missed is found when the stream is reopened.
RequestsAnswered == \A c \in Calls : row[c] = "pending" ~> row[c] # "pending"
=============================================================================
