----------------------------- MODULE PhoneFeed ------------------------------
(***************************************************************************)
(* What a player's page knows of the show.  connectPlayer                  *)
(* (apps/frontend/src/lib/pb.js) reads each collection once and subscribes *)
(* to it, one after the other; Player.svelte applies what arrives and      *)
(* starts each round's audio.  No subscription is awaited: what changes    *)
(* between a read and the moment its subscription is live is not heard of, *)
(* nor is what changes while the SDK reconnects.                           *)
(*                                                                         *)
(* The database is modelled by what the runner writes of it: the session   *)
(* published on game_state, this player's row and the newest rounds row of *)
(* each session, this player's answers.  The last write of a round leaves  *)
(* the revealed payload in place.                                          *)
(* The migration declares no `created' on rounds, so the staleness guard   *)
(* never refuses and the sorted read may be refused by PocketBase.         *)
(***************************************************************************)
EXTENDS Naturals, Sequences

CONSTANTS
  Questions, NoQuestion,
  MaxSessions,  \* shows the runner starts
  MaxRounds,    \* rounds opened in all of them
  MaxMoves,     \* changes of this player's binding
  MaxWrites,    \* rounds opened and changes of the binding, together
  MaxDrops,     \* interruptions of the realtime connection
  Lagging       \* may rows of a session be written before game_state says so

ASSUME QuestionAssumption == NoQuestion \notin Questions
ASSUME BoundsAssumption ==
  /\ MaxSessions \in Nat \ {0}
  /\ {MaxRounds, MaxMoves, MaxWrites, MaxDrops} \subseteq Nat
  /\ Lagging \in BOOLEAN

Sessions == 1 .. MaxSessions
DB == INSTANCE Schema

Collections == {"game_state", "players", "rounds", "player_reveals", "score_events", "live_stats"}

\* Those whose rule lets a page read and follow them.
Open == {c \in Collections : DB!Listed(c)}
Live == {"bound", "lost"}
NoRound == [session |-> 0, row |-> 0, question |-> NoQuestion, state |-> "none"]

VARIABLES
  session,    \* the runner's session
  published,  \* game_state.session_id, 0 if none
  players,    \* state of this player's row in each session, "none" if none
  rounds,     \* the newest rounds row of each session
  answered,   \* the last row this player's answer was published for
  opened,     \* rounds opened so far
  moved,      \* changes of players so far
  dropped,    \* interruptions so far
  pc,         \* the collection connectPlayer is at
  read,       \* what PocketBase has served to its read
  subs,       \* the subscriptions: off, asked or live
  feed,       \* realtime events under way to the page, in order
  missed,     \* history: collections whose latest change the page was not sent
  astray,     \* history: answers told to a page that had missed their round
  sessionId, player, round, yourAnswer, playedRoundId,  \* the page
  started,    \* history: how often the page started each round's audio
  repeated    \* history: rows shown right after another row of the same question

dbVars == <<session, published, players, rounds, answered, opened, moved>>
pageVars == <<sessionId, player, round, yourAnswer, playedRoundId, started, repeated>>
linkVars == <<pc, read, subs, feed, missed, astray, dropped>>
vars == <<dbVars, pageVars, linkVars>>

Unread == << >>

\* The payload the newest row carries.
Payload(r) == [r EXCEPT !.state = IF @ = "done" THEN "revealed" ELSE @]

Init ==
  /\ session = 1
  /\ published = 0
  /\ players = [s \in Sessions |-> "none"]
  /\ rounds = [s \in Sessions |-> NoRound]
  /\ answered = 0
  /\ opened = 0 /\ moved = 0 /\ dropped = 0
  /\ pc = "game_state"
  /\ read = Unread
  /\ subs = [c \in Collections |-> "off"]
  /\ feed = << >>
  /\ missed = {}
  /\ astray = {}
  /\ sessionId = 0
  /\ player = "none"
  /\ round = NoRound
  /\ yourAnswer = NoQuestion
  /\ playedRoundId = NoQuestion
  /\ started = [r \in 1 .. MaxRounds |-> 0]
  /\ repeated = {}

-----------------------------------------------------------------------------
(* The page.                                                               *)

inSession(s) == sessionId = 0 \/ s = sessionId

\* Faulty variant: it is not looked whether the round was played.
playRoundAgain(payload, played) ==
  IF payload.state = "active"
    THEN /\ playedRoundId' = payload.question
         /\ started' = [started EXCEPT ![payload.row] = @ + 1]
    ELSE playedRoundId' = played /\ UNCHANGED started

\* playRoundOnce: the audio of an active round not played yet is started.
playRoundOnce(payload, played) ==
  IF payload.state = "active" /\ played # payload.question
    THEN /\ playedRoundId' = payload.question
         /\ started' = [started EXCEPT ![payload.row] = @ + 1]
    ELSE playedRoundId' = played /\ UNCHANGED started

applyGameState(s) ==
  /\ sessionId' = IF s = 0 THEN sessionId ELSE s
  /\ UNCHANGED <<player, round, yourAnswer, playedRoundId, started, repeated>>

\* Faulty variant: binding into a running round does not catch up on it.
applyPlayerSilently(rec) ==
  /\ player' = IF inSession(rec.session) THEN rec.state ELSE player
  /\ UNCHANGED <<sessionId, round, yourAnswer, playedRoundId, started, repeated>>

applyPlayer(rec) ==
  /\ IF inSession(rec.session)
       THEN /\ player' = rec.state
            /\ IF rec.state = "bound" /\ player # "bound"
                 THEN playRoundOnce(round, playedRoundId)
                 ELSE UNCHANGED <<playedRoundId, started>>
       ELSE UNCHANGED <<player, playedRoundId, started>>
  /\ UNCHANGED <<sessionId, round, yourAnswer, repeated>>

Repeats(rec) == rec.row # round.row /\ rec.question = round.question

\* Faulty variant: the answer to the last round is kept.
applyRoundKeepsAnswer(rec) ==
  /\ IF rec.row # 0 /\ inSession(rec.session)
       THEN LET played == IF rec.question # round.question THEN NoQuestion ELSE playedRoundId IN
            /\ round' = rec
            /\ repeated' = IF Repeats(rec) THEN repeated \cup {rec.row} ELSE repeated
            /\ IF player = "bound" THEN playRoundOnce(rec, played)
               ELSE playedRoundId' = played /\ UNCHANGED started
       ELSE UNCHANGED <<round, playedRoundId, started, repeated>>
  /\ UNCHANGED <<sessionId, player, yourAnswer>>

\* A payload of another question starts afresh.
applyRound(rec) ==
  /\ IF rec.row # 0 /\ inSession(rec.session)
       THEN LET fresh == rec.question # round.question
                played == IF fresh THEN NoQuestion ELSE playedRoundId IN
            /\ yourAnswer' = IF fresh THEN NoQuestion ELSE yourAnswer
            /\ round' = rec
            /\ repeated' = IF Repeats(rec) THEN repeated \cup {rec.row} ELSE repeated
            /\ IF player = "bound" THEN playRoundOnce(rec, played)
               ELSE playedRoundId' = played /\ UNCHANGED started
       ELSE UNCHANGED <<yourAnswer, round, playedRoundId, started, repeated>>
  /\ UNCHANGED <<sessionId, player>>

\* applyReveal does not look at the record's round.
applyReveal(rec) ==
  /\ yourAnswer' = IF inSession(rec.session) THEN rec.question ELSE yourAnswer
  /\ UNCHANGED <<sessionId, player, round, playedRoundId, started, repeated>>

\* An event is applied by its collection's callback.
EventArrives ==
  /\ feed # << >>
  /\ LET e == Head(feed) IN
       CASE e.of = "game_state" -> applyGameState(e.rec)
         [] e.of = "players" -> applyPlayer(e.rec)
         [] e.of = "rounds" -> applyRound(e.rec)
         [] e.of = "player_reveals" -> applyReveal(e.rec)
  /\ feed' = Tail(feed)
  /\ UNCHANGED <<dbVars, pc, read, subs, missed, astray, dropped>>

-----------------------------------------------------------------------------
(* connectPlayer.                                                          *)

After(c) == CASE c = "game_state" -> "players" [] c = "players" -> "rounds" [] c = "rounds" -> "done"

\* The row of the page's session, or the newest for a page that knows none.
Mine(rows, none) ==
  LET having == {s \in Sessions : rows[s] # none /\ inSession(s)} IN
  IF having = {} THEN [session |-> 0, is |-> none]
  ELSE LET s == CHOOSE s \in having : \A t \in having : t <= s IN [session |-> s, is |-> rows[s]]

\* PocketBase serves the read connectPlayer awaits.  The page's session is
\* part of the question for a round; among the player's rows it is looked up
\* when they have come.
ReadServed ==
  /\ pc # "done"
  /\ read = Unread
  /\ pc \in Open
  /\ read' = CASE pc = "game_state" -> <<published>>
               [] pc = "players" -> <<players>>
               [] pc = "rounds" -> <<Mine([s \in Sessions |-> Payload(rounds[s])], NoRound).is, sessionId>>
  /\ UNCHANGED <<dbVars, pageVars, pc, subs, feed, missed, astray, dropped>>

\* The subscription to player_reveals, which is never read, follows that of
\* rounds.
Asked == IF pc = "rounds" THEN {"rounds", "player_reveals"} ELSE {pc}

\* The answer is applied, also if the session it was asked for is over by now,
\* and the collection's subscription is asked for.
ReadReturns ==
  LET asked == IF pc = "rounds" THEN read[2] ELSE sessionId IN
  /\ read # Unread
  /\ CASE pc = "game_state" -> applyGameState(read[1])
       [] pc = "players" -> LET mine == Mine(read[1], "none") IN
                            IF mine.is = "none" THEN UNCHANGED pageVars
                            ELSE applyPlayer([session |-> mine.session, state |-> mine.is])
       [] pc = "rounds" -> applyRound(read[1])
  /\ pc' = After(pc)
  /\ read' = Unread
  /\ subs' = [c \in Collections |-> IF c \in Asked THEN "asked" ELSE subs[c]]
  /\ missed' = IF {asked, sessionId} \subseteq {0, session} THEN missed ELSE missed \cup {pc}
  /\ UNCHANGED <<dbVars, feed, astray, dropped>>

\* The read fails, which the page takes for nothing there: it waits for the
\* next change.
ReadFails ==
  /\ pc # "done"
  /\ pc' = After(pc)
  /\ read' = Unread
  /\ subs' = [c \in Collections |-> IF c \in Asked THEN "asked" ELSE subs[c]]
  /\ missed' = missed \cup {pc}
  /\ UNCHANGED <<dbVars, pageVars, feed, astray, dropped>>

\* One request carries all the subscriptions asked for.
SubscriptionsLive ==
  /\ \E c \in Collections : subs[c] = "asked"
  /\ subs' = [c \in Collections |-> IF subs[c] = "asked" THEN "live" ELSE subs[c]]
  /\ UNCHANGED <<dbVars, pageVars, pc, read, feed, missed, astray, dropped>>

\* The connection drops, with the events under way on it; the SDK asks for
\* every subscription again and reads nothing.
ConnectionDrops ==
  /\ dropped < MaxDrops
  /\ \E c \in Collections : subs[c] = "live"
  /\ dropped' = dropped + 1
  /\ subs' = [c \in Collections |-> IF subs[c] = "live" THEN "asked" ELSE subs[c]]
  /\ feed' = << >>
  /\ missed' = missed \cup {feed[i].of : i \in DOMAIN feed}
  /\ UNCHANGED <<dbVars, pageVars, pc, read, astray>>

-----------------------------------------------------------------------------
(* The runner writes.                                                      *)

\* A write of c is told to the page if its subscription is live and the rule
\* of c lets it be, and missed if its read was served before.
HasRead(c) ==
  \/ subs[c] = "asked"
  \/ c = pc /\ read # Unread
  \/ c = "player_reveals"

Told(c, rec) ==
  IF subs[c] = "live" /\ c \in Open
    THEN /\ feed' = Append(feed, [of |-> c, rec |-> rec])
         /\ missed' = missed \ {c}
    ELSE /\ missed' = IF HasRead(c) THEN missed \cup {c} ELSE missed
         /\ UNCHANGED feed

NewSession ==
  /\ session < MaxSessions
  /\ session' = session + 1
  /\ IF Lagging THEN UNCHANGED <<published, feed, missed>>
     ELSE published' = session' /\ Told("game_state", session')
  /\ UNCHANGED <<players, rounds, answered, opened, moved, pageVars, pc, read, subs, astray, dropped>>

\* publish_available_gids writes the session with the first list of GIDs.
Publish ==
  /\ published # session
  /\ published' = session
  /\ Told("game_state", session)
  /\ UNCHANGED <<session, players, rounds, answered, opened, moved, pageVars, pc, read, subs, astray, dropped>>

Known == Lagging \/ published = session

PlayerMoves ==
  /\ Known
  /\ moved < MaxMoves /\ moved + opened < MaxWrites
  /\ moved' = moved + 1
  /\ \E state \in Live \ {players[session]} :
       /\ players[session] = "none" => state = "bound"
       /\ players' = [players EXCEPT ![session] = state]
       /\ Told("players", [session |-> session, state |-> state])
  /\ UNCHANGED <<session, published, rounds, answered, opened, pageVars, pc, read, subs, astray, dropped>>

\* A round opens, by start or by a skip of the operator, on any question.
RoundOpens ==
  /\ Known
  /\ opened < MaxRounds /\ moved + opened < MaxWrites
  /\ rounds[session].state \in {"none", "done"}
  /\ opened' = opened + 1
  /\ \E q \in Questions :
       LET rec == [session |-> session, row |-> opened + 1, question |-> q, state |-> "active"] IN
       /\ rounds' = [rounds EXCEPT ![session] = rec]
       /\ Told("rounds", rec)
  /\ UNCHANGED <<session, published, players, answered, moved, pageVars, pc, read, subs, astray, dropped>>

Later == [active |-> "closing", closing |-> "revealed", revealed |-> "done"]

RoundMoves ==
  LET r == rounds[session] IN
  /\ r.state \in DOMAIN Later
  /\ r.state = "revealed" /\ players[session] # "none" => answered = r.row
  /\ rounds' = [rounds EXCEPT ![session].state = Later[@]]
  /\ Told("rounds", Payload(rounds'[session]))
  /\ UNCHANGED <<session, published, players, answered, opened, moved, pageVars, pc, read, subs, astray, dropped>>

\* record_player_reveal, once the round is revealed.
Reveals ==
  LET r == rounds[session] IN
  /\ r.state = "revealed"
  /\ players[session] # "none"
  /\ answered # r.row
  /\ answered' = r.row
  /\ Told("player_reveals", [session |-> session, question |-> r.question])
  /\ astray' = IF subs["player_reveals"] = "live" /\ "rounds" \in missed
                THEN astray \cup {r.question} ELSE astray
  /\ UNCHANGED <<session, published, players, rounds, opened, moved, pageVars, pc, read, subs, dropped>>

Next ==
  \/ EventArrives \/ ReadServed \/ ReadReturns \/ ReadFails \/ ConnectionDrops
  \/ SubscriptionsLive
  \/ NewSession \/ Publish \/ PlayerMoves \/ RoundOpens \/ RoundMoves \/ Reveals

Spec == Init /\ [][Next]_vars

-----------------------------------------------------------------------------
(* Properties.                                                             *)

\* A bound player's page has started the audio of the round it shows as active,
\* whichever came first, the binding or the round, and from a read or an event --
\* but of a round that is shown right after another one of the same question
\* (repeated, or with those between them missed), which the page takes for the
\* round it has played already.
BoundHears ==
  player = "bound" /\ round.state = "active" /\ round.row \notin repeated =>
    started[round.row] = 1

\* ... and starts it once: a player lost and bound again in the round, a
\* payload sent twice or a reconnection does not start it over.
StartedOnce == \A r \in DOMAIN started : started[r] <= 1

\* Once nothing is under way and no latest change was missed, the page shows
\* what the database says: the session, this player's binding in it and its
\* newest round.  And it never shows an answer to another question, but one it
\* was told when it had missed the round it belongs to.
ShowsTheShow ==
  LET quiet == pc = "done" /\ feed = << >> /\ missed = {} IN
  /\ quiet /\ sessionId = session =>
       /\ players[session] # "none" => player = players[session]
       /\ rounds[session].row # 0 => round = Payload(rounds[session])
  /\ yourAnswer \in {NoQuestion, round.question} \cup astray
=============================================================================
