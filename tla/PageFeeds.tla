----------------------------- MODULE PageFeeds ------------------------------
(***************************************************************************)
(* The feeds of both pages.  A device shows a player's page (PhoneFeed) or *)
(* the listener page (connectListener in apps/frontend/src/lib/pb.js and   *)
(* TaskListener.svelte), which has no seat: it reads the session, the      *)
(* round, the score events and the live headcount, one after the other,    *)
(* and keeps a scoreboard of its own, the sum of what it read and of what  *)
(* it was told since.                                                      *)
(*                                                                         *)
(* One player scores here, a point a round.  What the page shown does not  *)
(* subscribe to is not written; the score badge of the player's page, the  *)
(* same sum over his own events, is left out.                              *)
(***************************************************************************)
EXTENDS PhoneFeed, FiniteSets

CONSTANTS
  MaxCounts,   \* headcounts published in all
  Interrupted  \* bound: the pages whose connection may be interrupted

ASSUME CountsAssumption == MaxCounts \in Nat
ASSUME InterruptedAssumption == Interrupted \subseteq {"player", "listener"}

VARIABLES
  page,        \* player or listener
  events,      \* the score_events rows: the session of each
  paid,        \* the last row scores were stored for
  stats,       \* live_stats: the session and number of the last headcount
  totals,      \* the listener's scoreboard
  zoneCounts   \* its bars: of a round's tally or of a headcount, or none

listenerVars == <<totals, zoneCounts>>
moreVars == <<events, paid, stats, listenerVars>>
allVars == <<vars, page, moreVars>>

NoCounts == [from |-> "none", of |-> 0]

PagesInit ==
  /\ Init
  /\ page \in {"player", "listener"}
  /\ events = << >>
  /\ paid = 0
  /\ stats = [session |-> 0, count |-> 0]
  /\ totals = 0
  /\ zoneCounts = NoCounts

-----------------------------------------------------------------------------
(* The listener page.                                                      *)

\* applyRound of TaskListener.svelte.  syncAudio plays an active round that
\* was not the last it played; the bars change to the tally at the reveal.
listenerRound(rec) ==
  IF rec.row = 0 \/ ~inSession(rec.session)
    THEN UNCHANGED <<pageVars, listenerVars>>
    ELSE /\ round' = rec
         /\ playRoundOnce(rec, playedRoundId)
         /\ zoneCounts' = IF rec.state = "revealed" THEN [from |-> "tally", of |-> rec.row] ELSE zoneCounts
         /\ UNCHANGED <<sessionId, player, yourAnswer, repeated, totals>>

listenerSession(s) ==
  /\ sessionId' = IF s = 0 THEN sessionId ELSE s
  /\ UNCHANGED <<player, round, yourAnswer, playedRoundId, started, repeated, listenerVars>>

\* A score is added when its row is created; the record is the row's.
bump(id) ==
  /\ totals' = IF inSession(events[id]) THEN totals + 1 ELSE totals
  /\ UNCHANGED <<pageVars, zoneCounts>>

\* applyStats compares the sessions itself.
applyStats(rec) ==
  /\ zoneCounts' = IF rec.session # 0 /\ inSession(rec.session)
                     THEN [from |-> "headcount", of |-> rec.count] ELSE zoneCounts
  /\ UNCHANGED <<pageVars, totals>>

listenerApplies(c, rec) ==
  CASE c = "game_state" -> listenerSession(rec)
    [] c = "rounds" -> listenerRound(rec)
    [] c = "score_events" -> bump(rec)
    [] c = "live_stats" -> applyStats(rec)

ListenerEvent ==
  /\ feed # << >>
  /\ listenerApplies(Head(feed).of, Head(feed).rec)
  /\ feed' = Tail(feed)
  /\ UNCHANGED <<dbVars, pc, read, subs, missed, astray, dropped, events, paid, stats>>

-----------------------------------------------------------------------------
(* connectListener.                                                        *)

listenerAfter(c) ==
  CASE c = "game_state" -> "rounds" [] c = "rounds" -> "score_events"
    [] c = "score_events" -> "live_stats" [] c = "live_stats" -> "done"

\* What a read has been served: the events of the page's session, or all.
Summed == Cardinality({i \in DOMAIN events : inSession(events[i])})

ListenerReadServed ==
  /\ pc # "done"
  /\ read = Unread
  /\ pc \in Open
  /\ read' = CASE pc = "game_state" -> <<published>>
               [] pc = "rounds" -> <<Mine([s \in Sessions |-> Payload(rounds[s])], NoRound).is, sessionId>>
               [] pc = "score_events" -> <<Summed, sessionId>>
               [] pc = "live_stats" -> <<stats>>
  /\ UNCHANGED <<dbVars, pageVars, pc, subs, feed, missed, astray, dropped, moreVars>>

\* Faulty variant: the scores are subscribed to with the round, before they
\* are read.
ListenerAsksEarly == IF pc = "rounds" THEN {"rounds", "score_events"} ELSE {pc}

\* Each collection is subscribed to when its read has returned or failed.
ListenerAsks == {pc}

Asks == subs' = [c \in Collections |-> IF c \in ListenerAsks THEN "asked" ELSE subs[c]]

ListenerReadReturns ==
  LET asked == IF pc \in {"rounds", "score_events"} THEN read[2] ELSE sessionId IN
  /\ read # Unread
  /\ IF pc = "score_events"
       THEN totals' = totals + read[1] /\ UNCHANGED <<pageVars, zoneCounts>>
       ELSE listenerApplies(pc, read[1])
  /\ pc' = listenerAfter(pc)
  /\ read' = Unread
  /\ Asks
  /\ missed' = IF {asked, sessionId} \subseteq {0, session} THEN missed ELSE missed \cup {pc}
  /\ UNCHANGED <<dbVars, feed, astray, dropped, events, paid, stats>>

ListenerReadFails ==
  /\ pc # "done"
  /\ pc' = listenerAfter(pc)
  /\ read' = Unread
  /\ Asks
  /\ missed' = missed \cup {pc}
  /\ UNCHANGED <<dbVars, pageVars, feed, astray, dropped, moreVars>>

Listener == ListenerEvent \/ ListenerReadServed \/ ListenerReadReturns \/ ListenerReadFails

-----------------------------------------------------------------------------
(* The runner writes.                                                      *)

\* record_score_event, between the revealed row and the done one.  A row that
\* was missed is never sent again.
Scores ==
  LET r == rounds[session] IN
  /\ r.state = "revealed"
  /\ paid # r.row
  /\ paid' = r.row
  /\ events' = Append(events, session)
  /\ feed' = IF subs["score_events"] = "live"
               THEN Append(feed, [of |-> "score_events", rec |-> Len(events')]) ELSE feed
  /\ missed' = IF subs["score_events"] # "live" /\ HasRead("score_events") THEN missed \cup {"score_events"} ELSE missed
  /\ UNCHANGED <<dbVars, pageVars, pc, read, subs, astray, dropped, stats, listenerVars>>

\* _publish_zone_counts: somebody has changed zone.
CountsPublished ==
  /\ Known
  /\ stats.count < MaxCounts
  /\ stats' = [session |-> session, count |-> stats.count + 1]
  /\ Told("live_stats", stats')
  /\ UNCHANGED <<dbVars, pageVars, pc, read, subs, astray, dropped, events, paid, listenerVars>>

PlayerPage ==
  \/ EventArrives \/ ReadServed \/ ReadReturns \/ ReadFails \/ PlayerMoves \/ Reveals

BothPages ==
  \/ SubscriptionsLive \/ NewSession \/ Publish \/ RoundOpens \/ RoundMoves

PagesNext ==
  /\ UNCHANGED page
  /\ \/ BothPages /\ UNCHANGED moreVars
     \/ page \in Interrupted /\ ConnectionDrops /\ UNCHANGED moreVars
     \/ page = "player" /\ PlayerPage /\ UNCHANGED moreVars
     \/ page = "listener" /\ (Listener \/ Scores \/ CountsPublished)

PagesSpec == PagesInit /\ [][PagesNext]_allVars

-----------------------------------------------------------------------------
(* Properties.                                                             *)

Quiet == pc = "done" /\ feed = << >> /\ missed = {} /\ sessionId = session

\* The scoreboard counts no score event twice, whether it came with the read,
\* by the stream or while both were under way; and once nothing is under way
\* and nothing was missed, it has counted every one of the show.
EachScoreOnce ==
  page = "listener" =>
    /\ totals <= Len(events)
    /\ Quiet => totals >= Cardinality({i \in DOMAIN events : events[i] = session})
=============================================================================
