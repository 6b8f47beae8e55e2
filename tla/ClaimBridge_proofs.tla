-------------------------- MODULE ClaimBridge_proofs --------------------------
(***************************************************************************)
(* Proofs about ClaimBridge, for any players, GIDs, phones and number of   *)
(* calls and polls.                                                        *)
(***************************************************************************)
EXTENDS ClaimBridge, TLAPS

CallStates == {"none", "create", "wait"} \cup Settled
RowStates == {"none", "posted", "lost", "pending", "done", "error"}

\* The functions on calls, and the form of the work, which the steps change in place.
Functions ==
  /\ busy \subseteq Phones
  /\ call \in [Calls -> CallStates]
  /\ row \in [Calls -> RowStates]
  /\ note \in [Calls -> {"none", "done", "error"}]
  /\ get \in [Calls -> {"none", "first", "tick"}]
  /\ work = [call |-> work.call, res |-> work.res]

(***************************************************************************)
(* An event under way carries the status of its row, which is resolved     *)
(* once; a call has a row only when it was submitted and reads only while  *)
(* it waits; the bridge resolves a row as done only for a call it has      *)
(* bound the player for.                                                   *)
(***************************************************************************)
TruthInv ==
  /\ \A c \in Calls : /\ note[c] # "none" => row[c] = note[c]
                      /\ call[c] = "none" => row[c] = "none"
                      /\ get[c] # "none" => call[c] = "wait"
  /\ work.res \in {"saving", "done"} => work.call \in granted
  /\ OutcomeIsTrue

Inv == Functions /\ TruthInv /\ FormFree

\* A phone's step that moves one call.
Moved(c, next) ==
  /\ call' = [call EXCEPT ![c] = next]
  /\ busy' = IF next \in {"create", "wait"} THEN busy ELSE busy \ {who(c)}

LEMMA InvInit == Init => Inv
<1> SUFFICES ASSUME Init PROVE Inv
  OBVIOUS
<1>1. Functions
  BY DEF Init, Functions, CallStates, RowStates, NoWork
<1>2. TruthInv /\ FormFree
  BY DEF Init, TruthInv, OutcomeIsTrue, FormFree, NoWork
<1> QED  BY <1>1, <1>2 DEF Inv

\* What a phone's step owes: the outcome it settles on is the row's.
LEMMA MovedKeeps ==
  ASSUME Inv, NEW c \in Calls, NEW next \in CallStates, Moved(c, next),
         call[c] \in {"create", "wait"}, next # "none",
         next \in {"done", "error"} => row[c] = next,
         UNCHANGED <<row, work, granted>>,
         note' = note \/ note' = [note EXCEPT ![c] = "none"],
         get' \in [Calls -> {"none", "first", "tick"}],
         \A d \in Calls : get'[d] # "none" => IF d = c THEN next = "wait" ELSE get[d] # "none"
  PROVE  Inv'
<1>1. /\ call' \in [Calls -> CallStates] /\ call'[c] = next
      /\ \A d \in Calls \ {c} : call'[d] = call[d]
      /\ \A d \in Calls : note'[d] = note[d] \/ note'[d] = "none"
  BY DEF Moved, Inv, Functions
<1>2. Functions'
  BY <1>1 DEF Moved, Inv, Functions
<1>3. TruthInv'
  BY <1>1 DEF Inv, TruthInv, OutcomeIsTrue
<1>4. FormFree'
  <2> SUFFICES ASSUME NEW p \in busy'
               PROVE  \E d \in Calls : who(d) = p /\ call'[d] \in {"create", "wait"}
    BY DEF FormFree
  <2>1. p \in busy /\ (next \in {"create", "wait"} \/ p # who(c))
    BY DEF Moved
  <2>2. PICK d \in Calls : who(d) = p /\ call[d] \in {"create", "wait"}
    BY <2>1 DEF Inv, FormFree
  <2> QED  BY <1>1, <2>1, <2>2
<1> QED  BY <1>2, <1>3, <1>4 DEF Inv

\* A step of PocketBase, the bridge or somebody else leaves the phones alone.
LEMMA ServerKeeps ==
  ASSUME Inv, UNCHANGED <<busy, call, get>>,
         row' \in [Calls -> RowStates], note' \in [Calls -> {"none", "done", "error"}],
         work' = [call |-> work'.call, res |-> work'.res],
         \A c \in Calls : row'[c] = row[c] \/ (row[c] \notin {"none", "done", "error"} /\ row'[c] # "done")
                          \/ (row[c] = "pending" /\ c \in granted'),
         \A c \in Calls : note'[c] # "none" => row'[c] = note'[c],
         work'.res \in {"saving", "done"} => work'.call \in granted',
         granted \subseteq granted'
  PROVE  Inv'
<1>1. Functions'
  BY DEF Inv, Functions
<1>2. TruthInv'
  BY DEF Inv, TruthInv, OutcomeIsTrue
<1>3. FormFree'
  BY DEF Inv, FormFree
<1> QED  BY <1>1, <1>2, <1>3 DEF Inv

\* What a call becomes after a read: it waits on, takes the status, or gives up.
LEMMA AfterGetValue ==
  ASSUME NEW c \in Calls, NEW status, NEW w
  PROVE  /\ AfterGet(c, status, w) \in {"wait", "done", "error", "timeout"}
         /\ AfterGet(c, status, w) \in {"done", "error"} => AfterGet(c, status, w) = status
BY DEF AfterGet, OutcomeOf

LEMMA BecomesKeeps ==
  ASSUME Inv, NEW c \in Calls, call[c] = "wait", NEW next \in {"wait", "done", "error", "timeout"},
         NEW read \in {"none", "first", "tick"}, Becomes(c, next, read),
         next \in {"done", "error"} => row[c] = next,
         UNCHANGED <<row, work, granted>>,
         note' = note \/ note' = [note EXCEPT ![c] = "none"]
  PROVE  Inv'
<1>1. Moved(c, next)
  <2>1. CASE next = "wait"
    BY <2>1 DEF Becomes, Moved, Inv, Functions
  <2>2. CASE next # "wait"
    BY <2>2 DEF Becomes, Settle, Moved
  <2> QED  BY <2>1, <2>2
<1>2. /\ get' \in [Calls -> {"none", "first", "tick"}]
      /\ \A d \in Calls : get'[d] # "none" => IF d = c THEN next = "wait" ELSE get[d] # "none"
  BY DEF Becomes, Inv, Functions
<1> QED  BY <1>1, <1>2, MovedKeeps DEF CallStates, Settled

LEMMA SubmitKeeps ==
  ASSUME Inv, NEW p \in Phones, NEW n \in 1 .. MaxCalls, NEW key, Submit(p, n, key)
  PROVE  Inv'
<1> DEFINE c == <<p, n>>
           aborted == {d \in Calls : who(d) = p /\ call[d] = "create"}
<1>1. c \in Calls /\ who(c) = p /\ call[c] = "none" /\ row[c] = "none"
  BY DEF Submit, Calls, who, Inv, TruthInv
<1>2. /\ call' = [d \in Calls |-> IF d = c THEN "create"
                                  ELSE IF d \in aborted THEN "failed" ELSE call[d]]
      /\ busy' = IF aborted = {} THEN busy \cup {p} ELSE busy \ {p}
      /\ row' = [row EXCEPT ![c] = "posted"]
      /\ UNCHANGED <<get, note, work, granted>>
  BY <1>1 DEF Submit, Inv, Functions, bridgeVars
<1> HIDE DEF c
<1>3. Functions'
  BY <1>1, <1>2 DEF Inv, Functions, CallStates, RowStates, Settled
<1>4. TruthInv'
  BY <1>1, <1>2 DEF Inv, Functions, TruthInv, OutcomeIsTrue
<1>5. FormFree'
  <2> SUFFICES ASSUME NEW q \in busy'
               PROVE  \E d \in Calls : who(d) = q /\ call'[d] \in {"create", "wait"}
    BY DEF FormFree
  <2>1. CASE q = p
    <3>1. aborted = {}
      BY <1>2, <2>1
    <3> QED  BY <1>1, <1>2, <2>1
  <2>2. CASE q # p
    <3>1. q \in busy
      BY <1>2, <2>2
    <3>2. PICK d \in Calls : who(d) = q /\ call[d] \in {"create", "wait"}
      BY <3>1 DEF Inv, FormFree
    <3>3. d # c /\ d \notin aborted
      BY <1>1, <2>2, <3>2
    <3> QED  BY <1>2, <3>2, <3>3
  <2> QED  BY <2>1, <2>2
<1> QED  BY <1>3, <1>4, <1>5 DEF Inv

\* Every step of a phone.
LEMMA PhoneKeeps == ASSUME Inv, Phone PROVE Inv'
<1>1. CASE \E p \in Phones, n \in 1 .. MaxCalls, key \in {"button", "enter"} : Submit(p, n, key)
  BY <1>1, SubmitKeeps
<1>2. ASSUME NEW c \in Calls, CreateReturns(c) PROVE Inv'
  <2>1. Moved(c, "wait")
    BY <1>2 DEF CreateReturns, Moved
  <2> QED  BY <1>2, <2>1, MovedKeeps DEF CreateReturns, bridgeVars, CallStates, Inv, Functions
<1>3. ASSUME NEW c \in Calls, CreateFails(c) PROVE Inv'
  <2>1. Moved(c, "failed") /\ get[c] = "none"
    BY <1>3 DEF CreateFails, Settle, Moved, Inv, TruthInv
  <2> QED  BY <1>3, <2>1, MovedKeeps
           DEF CreateFails, bridgeVars, CallStates, Settled, Inv, Functions
<1>4. ASSUME NEW c \in Calls, SubscribeReturns(c) PROVE Inv'
  <2> DEFINE next == AfterGet(c, "none", waited[c])
  <2>1. next \in {"wait", "timeout"}
    BY AfterGetValue
  <2>2. /\ call[c] = "wait" /\ UNCHANGED <<row, note, work, granted>>
        /\ IF next = "wait"
             THEN get' = [get EXCEPT ![c] = "first"] /\ UNCHANGED <<call, busy>>
             ELSE /\ get' = [get EXCEPT ![c] = "none"]
                  /\ call' = [call EXCEPT ![c] = next]
                  /\ busy' = busy \ {who(c)}
    BY <1>4 DEF SubscribeReturns, bridgeVars
  <2> HIDE DEF next
  <2>3. Moved(c, next)
    BY <2>1, <2>2 DEF Moved, Inv, Functions
  <2>4. /\ get' \in [Calls -> {"none", "first", "tick"}]
        /\ \A d \in Calls : get'[d] # "none" => IF d = c THEN next = "wait" ELSE get[d] # "none"
    BY <2>2 DEF Inv, Functions
  <2> QED  BY <2>1, <2>2, <2>3, <2>4, MovedKeeps DEF CallStates, Settled
<1>5. ASSUME NEW c \in Calls, SubscribeFails(c) PROVE Inv'
  <2>1. UNCHANGED <<busy, call, get, row, note, work, granted>>
    BY <1>5 DEF SubscribeFails, bridgeVars
  <2> QED  BY <2>1 DEF Inv, Functions, TruthInv, OutcomeIsTrue, FormFree
<1>6. ASSUME NEW c \in Calls, Tick(c) PROVE Inv'
  <2>1. PICK w : call[c] = "wait" /\ Becomes(c, AfterGet(c, "none", w), "tick")
    BY <1>6 DEF Tick
  <2>2. AfterGet(c, "none", w) \in {"wait", "timeout"}
    BY AfterGetValue
  <2>3. UNCHANGED <<row, note, work, granted>>
    BY <1>6 DEF Tick, bridgeVars
  <2> QED  BY <2>1, <2>2, <2>3, BecomesKeeps
<1>7. ASSUME NEW c \in Calls, GetReturns(c) PROVE Inv'
  <2>1. PICK status \in {"pending", row[c]} : Becomes(c, AfterGet(c, status, waited[c]), "none")
    BY <1>7 DEF GetReturns
  <2>2. call[c] = "wait" /\ UNCHANGED <<row, note, work, granted>>
    BY <1>7 DEF GetReturns, bridgeVars, Inv, TruthInv
  <2>3. /\ AfterGet(c, status, waited[c]) \in {"wait", "done", "error", "timeout"}
        /\ AfterGet(c, status, waited[c]) \in {"done", "error"} =>
             row[c] = AfterGet(c, status, waited[c])
    BY AfterGetValue
  <2> QED  BY <2>1, <2>2, <2>3, BecomesKeeps
<1>8. ASSUME NEW c \in Calls, GetFails(c) PROVE Inv'
  <2>1. call[c] = "wait" /\ UNCHANGED <<row, note, work, granted>>
    BY <1>8 DEF GetFails, bridgeVars, Inv, TruthInv
  <2>2. AfterGet(c, "none", waited[c]) \in {"wait", "timeout"}
    BY AfterGetValue
  <2> QED  BY <1>8, <2>1, <2>2, BecomesKeeps DEF GetFails
<1>9. ASSUME NEW c \in Calls, NoteArrives(c) PROVE Inv'
  <2>1. /\ call[c] = "wait" /\ note' = [note EXCEPT ![c] = "none"]
        /\ row[c] = note[c] /\ note[c] \in {"done", "error"} /\ get[c] \in {"none", "first", "tick"}
        /\ Becomes(c, OutcomeOf(note[c]), get[c]) /\ UNCHANGED <<row, work, granted>>
    BY <1>9 DEF NoteArrives, bridgeVars, Inv, TruthInv, Functions
  <2>2. OutcomeOf(note[c]) = note[c]
    BY <2>1 DEF OutcomeOf
  <2> QED  BY <2>1, <2>2, BecomesKeeps
<1> QED  BY <1>1, <1>2, <1>3, <1>4, <1>5, <1>6, <1>7, <1>8, <1>9 DEF Phone

\* Every step of PocketBase and of the bridge, and everybody else's.
LEMMA ServerStep == ASSUME Inv, PocketBase \/ Bridge \/ Others PROVE Inv'
<1>0. Functions /\ TruthInv
  BY DEF Inv
<1>1. ASSUME NEW c \in Calls, CreateServed(c) PROVE Inv'
  <2>1. /\ row[c] = "posted" /\ row' = [row EXCEPT ![c] = "pending"]
        /\ UNCHANGED <<busy, call, get, note, work, granted>>
    BY <1>1 DEF CreateServed, phoneVars
  <2> QED  BY <1>0, <2>1, ServerKeeps DEF Functions, TruthInv, RowStates
<1>2. ASSUME NEW c \in Calls, CreateLost(c) PROVE Inv'
  <2>1. /\ row[c] = "posted" /\ row' = [row EXCEPT ![c] = "lost"]
        /\ UNCHANGED <<busy, call, get, note, work, granted>>
    BY <1>2 DEF CreateLost, phoneVars, bridgeVars
  <2> QED  BY <1>0, <2>1, ServerKeeps DEF Functions, TruthInv, RowStates
<1>3. ASSUME NEW c \in Calls, NoteLost(c) PROVE Inv'
  <2>1. /\ note' = [note EXCEPT ![c] = "none"]
        /\ UNCHANGED <<busy, call, get, row, work, granted>>
    BY <1>3 DEF NoteLost, phoneVars, bridgeVars
  <2> QED  BY <1>0, <2>1, ServerKeeps DEF Functions, TruthInv, RowStates
<1>4. CASE CatchUp \/ OpenStream \/ StreamLive \/ StreamEnds \/ Others
  <2>1. UNCHANGED <<busy, call, get, row, note, work, granted>>
    BY <1>4 DEF CatchUp, OpenStream, StreamLive, StreamEnds, Others, phoneVars, bridgeVars
  <2> QED  BY <1>0, <2>1, ServerKeeps DEF Functions, TruthInv
<1>5. CASE AlreadyBound \/ Grants \/ Refuses
  <2>1. /\ UNCHANGED <<busy, call, get, row, note>>
        /\ \E c, res : /\ work' = [call |-> c, res |-> res]
                       /\ granted' \in {granted \cup {c}, granted}
                       /\ res = "error" \/ granted' = granted \cup {c}
    BY <1>5 DEF AlreadyBound, Grants, Refuses, phoneVars
  <2>2. /\ work' = [call |-> work'.call, res |-> work'.res]
        /\ work'.res = "error" \/ work'.call \in granted'
        /\ granted \subseteq granted'
    BY <2>1
  <2> QED  BY <1>0, <2>1, <2>2, ServerKeeps DEF Functions, TruthInv
<1>6. CASE SaveReturns
  <2>1. /\ work.res = "saving" /\ work' = [work EXCEPT !.res = "done"]
        /\ UNCHANGED <<busy, call, get, row, note, granted>>
    BY <1>6 DEF SaveReturns, phoneVars
  <2>2. work' = [call |-> work.call, res |-> "done"]
    BY <1>0, <2>1 DEF Functions
  <2> QED  BY <1>0, <2>1, <2>2, ServerKeeps DEF Functions, TruthInv
<1>7. CASE Resolves
  <2> DEFINE c == work.call
  <2>1. /\ work.res \in {"done", "error"} /\ row[c] = "pending"
        /\ row' = [row EXCEPT ![c] = work.res]
        /\ note' \in {[note EXCEPT ![c] = work.res], [note EXCEPT ![c] = note[c]]}
        /\ UNCHANGED <<busy, call, get, work, granted>>
    BY <1>7 DEF Resolves, phoneVars, bridgeVars
  <2>2. work.res = "done" => c \in granted
    BY <1>0, <2>1 DEF TruthInv
  <2>3. /\ row' \in [Calls -> RowStates] /\ note' \in [Calls -> {"none", "done", "error"}]
        /\ \A d \in Calls : row'[d] = IF d = c THEN work.res ELSE row[d]
        /\ \A d \in Calls : note'[d] = note[d] \/ (d = c /\ note'[d] = work.res)
    <3> HIDE DEF c
    <3>1. row \in [Calls -> RowStates] /\ note \in [Calls -> {"none", "done", "error"}]
      BY <1>0 DEF Functions
    <3>2. /\ row' \in [Calls -> RowStates]
          /\ \A d \in Calls : row'[d] = IF d = c THEN work.res ELSE row[d]
      BY <2>1, <3>1 DEF RowStates
    <3>3. CASE note' = [note EXCEPT ![c] = work.res]
      BY <2>1, <3>1, <3>2, <3>3
    <3>4. CASE note' = [note EXCEPT ![c] = note[c]]
      BY <3>1, <3>2, <3>4
    <3> QED  BY <2>1, <3>3, <3>4
  <2>4. \A d \in Calls : note'[d] # "none" => row'[d] = note'[d]
    BY <1>0, <2>1, <2>3 DEF TruthInv
  <2> HIDE DEF c
  <2>5. \A d \in Calls : \/ row'[d] = row[d]
                         \/ d = c /\ row[d] = "pending" /\ (row'[d] = "error" \/ d \in granted)
    BY <2>1, <2>2, <2>3
  <2>6. work.res \in {"saving", "done"} => work.call \in granted
    BY <1>0 DEF TruthInv
  <2> QED  BY <1>0, <2>1, <2>3, <2>4, <2>5, <2>6, ServerKeeps DEF Functions
<1>8. CASE ResolveReturns \/ BridgeFails
  <2>1. work' = NoWork /\ UNCHANGED <<busy, call, get, row, note, granted>>
    BY <1>8 DEF ResolveReturns, BridgeFails, phoneVars
  <2>2. work' = [call |-> work'.call, res |-> work'.res] /\ work'.res = "none"
    BY <2>1 DEF NoWork
  <2> QED  BY <1>0, <2>1, <2>2, ServerKeeps DEF Functions, TruthInv
<1> QED  BY <1>1, <1>2, <1>3, <1>4, <1>5, <1>6, <1>7, <1>8 DEF PocketBase, Bridge

LEMMA InvStep == Inv /\ [Next]_vars => Inv'
<1> SUFFICES ASSUME Inv, [Next]_vars PROVE Inv'
  OBVIOUS
<1>1. CASE UNCHANGED vars
  BY <1>1 DEF vars, phoneVars, bridgeVars, Inv, Functions, TruthInv, OutcomeIsTrue, FormFree
<1> QED  BY <1>1, PhoneKeeps, ServerStep DEF Next

\* What a phone is told of its claim is what the game server decided, for any number
\* of phones and calls, polls given up and requests lost.
THEOREM PhonesAreTold == Spec => []OutcomeIsTrue
<1>1. Inv => OutcomeIsTrue
  BY DEF Inv, TruthInv
<1> QED  BY <1>1, InvInit, InvStep, PTL DEF Spec

\* A form is busy only while a claim of its phone is under way.
THEOREM FormIsFreed == Spec => []FormFree
<1>1. Inv => FormFree
  BY DEF Inv
<1> QED  BY <1>1, InvInit, InvStep, PTL DEF Spec
=============================================================================
