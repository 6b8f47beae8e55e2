---------------------------- MODULE PageFeeds_proofs ------------------------
(***************************************************************************)
(* Proofs about PageFeeds, for any number of questions, sessions, rounds,  *)
(* moves, headcounts and interruptions.                                    *)
(***************************************************************************)
EXTENDS PageFeeds, FiniteSetTheorems, WellFoundedInduction, TLAPS

-----------------------------------------------------------------------------
(* What is where.                                                          *)

Stages == {"active", "closing", "revealed", "done"}
RoundsWith(states) ==
  [session : Sessions, row : 1 .. MaxRounds, question : Questions, state : states]
Rows == {NoRound} \cup RoundsWith(Stages)
ToldRounds == RoundsWith(Stages \ {"done"})
Payloads == {NoRound} \cup ToldRounds
States == {"none"} \cup Live

\* What each collection's events carry.
Records(c) ==
  CASE c = "game_state" -> Sessions
    [] c = "score_events" -> Nat \ {0}
    [] c = "players" -> [session : Sessions, state : Live]
    [] c = "rounds" -> ToldRounds
    [] c = "player_reveals" -> [session : Sessions, question : Questions]
    [] c = "live_stats" -> [session : 0 .. MaxSessions, count : Nat]
Event == UNION {[of : {c}, rec : Records(c)] : c \in Collections}

DbTyped ==
  /\ session \in Sessions
  /\ published \in 0 .. MaxSessions
  /\ players \in [Sessions -> States]
  /\ rounds \in [Sessions -> Rows]
  /\ opened \in 0 .. MaxRounds
  /\ stats \in [session : 0 .. MaxSessions, count : Nat]
  /\ events \in Seq(Sessions)

\* The page has played a question or none.
PlayedIds == Questions \cup {NoQuestion}

PageTyped ==
  /\ sessionId \in 0 .. MaxSessions
  /\ player \in States
  /\ round \in Payloads
  /\ playedRoundId \in PlayedIds
  /\ started \in [1 .. MaxRounds -> 0 .. 1]

LinkTyped ==
  /\ subs \in [Collections -> {"off", "asked", "live"}]
  /\ feed \in Seq(Event)
  /\ missed \subseteq Collections

\* What the read at pc has been served.
ReadTyped ==
  read # Unread =>
    /\ pc # "done"
    /\ pc = "game_state" => read[1] \in 0 .. MaxSessions
    /\ pc = "players" => read[1] \in [Sessions -> States]
    /\ pc = "rounds" => read[1] \in Payloads /\ read[2] \in 0 .. MaxSessions
    /\ pc = "live_stats" => read[1] \in [session : 0 .. MaxSessions, count : Nat]

\* The collections a page asks for are those it has passed.
Asking ==
  /\ page \in {"player", "listener"}
  /\ page = "player" =>
       /\ pc \in {"game_state", "players", "rounds", "done"}
       /\ subs["game_state"] = "off" <=> pc = "game_state"
       /\ subs["players"] = "off" <=> pc \in {"game_state", "players"}
       /\ subs["rounds"] = "off" <=> pc # "done"
       /\ subs["player_reveals"] = subs["rounds"]
       /\ subs["score_events"] = "off" /\ subs["live_stats"] = "off"
  /\ page = "listener" =>
       /\ player = "none"
       /\ players = [s \in Sessions |-> "none"]
       /\ pc \in {"game_state", "rounds", "score_events", "live_stats", "done"}
       /\ subs["game_state"] = "off" <=> pc = "game_state"
       /\ subs["rounds"] = "off" <=> pc \in {"game_state", "rounds"}
       /\ subs["score_events"] = "off" <=> pc \in {"game_state", "rounds", "score_events"}
       /\ subs["live_stats"] = "off" <=> pc # "done"
       /\ subs["players"] = "off" /\ subs["player_reveals"] = "off"
  /\ \A i \in 1 .. Len(feed) : subs[feed[i].of] # "off"
  /\ subs["rounds"] = "off" => round = NoRound

\* The newest row of the session is the last one opened.
RowsInv ==
  /\ rounds[session].row \in {0, opened}
  /\ \A s \in Sessions :
       /\ rounds[s].row <= opened
       /\ rounds[s].row # 0 => rounds[s].session = s
       /\ s > session => rounds[s] = NoRound /\ players[s] = "none"
       /\ s < session /\ rounds[session].row # 0 => rounds[s].row < opened

\* Rounds reach the page in the order of their rows.
SameRow(a, b) == a.row = b.row => a.question = b.question
OrderInv ==
  /\ round.row <= opened
  /\ SameRow(round, rounds[session])
  /\ \A i \in 1 .. Len(feed) : feed[i].of = "rounds" =>
       /\ round.row <= feed[i].rec.row /\ feed[i].rec.row <= opened
       /\ SameRow(round, feed[i].rec)
       /\ SameRow(feed[i].rec, rounds[session])
       /\ \A j \in 1 .. Len(feed) : i < j /\ feed[j].of = "rounds" =>
            /\ feed[i].rec.row <= feed[j].rec.row
            /\ SameRow(feed[i].rec, feed[j].rec)
  /\ pc = "rounds" /\ read # Unread =>
       read[1].row <= opened /\ SameRow(read[1], rounds[session])

PlayedInv ==
  /\ \A r \in 1 .. MaxRounds : r > round.row => started[r] = 0
  /\ round.row # 0 => (started[round.row] = 1 => playedRoundId = round.question)

\* A bound player's page takes the active round it shows for played ...
AskedFor == player = "bound" /\ round.state = "active" => playedRoundId = round.question

FeedInv ==
  /\ DbTyped /\ PageTyped /\ LinkTyped /\ ReadTyped
  /\ Asking /\ RowsInv /\ OrderInv /\ PlayedInv /\ AskedFor

-----------------------------------------------------------------------------
(* What the page is yet to hear, if no row is written before the session is *)
(* announced.                                                               *)

OfSession == {"players", "rounds", "player_reveals"}

AnnouncedInv ==
  /\ published # session =>
       /\ session = 1 /\ published = 0
       /\ rounds[1] = NoRound /\ players[1] = "none"
  /\ \A i \in 1 .. Len(feed) : feed[i].of \in OfSession =>
       /\ published = session /\ feed[i].rec.session <= session
       /\ \A j \in 1 .. Len(feed) :
            i < j /\ feed[j].of = "game_state" => feed[j].rec > feed[i].rec.session

\* Among the first n events of f the last of c carries rec; there is none.
LastIs(f, n, c, rec) ==
  \E i \in 1 .. n :
    /\ f[i].of = c /\ f[i].rec = rec
    /\ \A j \in 1 .. n : i < j => f[j].of # c
Silent(f, n, c) == \A i \in 1 .. n : f[i].of # c

\* A page in session sid is in s now, or after one of the first n events.
Comes(f, n, sid, s) ==
  \/ sid \in {0, s}
  \/ \E j \in 1 .. n : f[j].of = "game_state" /\ f[j].rec = s

\* The player's row is the last one under way, or the one shown if none is
\* and the page is in its session when all has come.
SeatHeard ==
  \/ LastIs(feed, Len(feed), "players", [session |-> session, state |-> players[session]])
  \/ /\ Silent(feed, Len(feed), "players")
     /\ Comes(feed, Len(feed), sessionId, session) => player = players[session]
SeatInv ==
  /\ pc = "players" /\ read # Unread /\ "players" \notin missed => read[1] = players
  /\ players[session] # "none" /\ subs["players"] # "off" /\ "players" \notin missed => SeatHeard

\* The same of the newest round.
Newest == Payload(rounds[session])
RoundHeard ==
  \/ LastIs(feed, Len(feed), "rounds", Newest)
  \/ /\ Silent(feed, Len(feed), "rounds")
     /\ Comes(feed, Len(feed), sessionId, session) => round = Newest
RoundInv ==
  /\ /\ pc = "rounds" /\ read # Unread /\ "rounds" \notin missed
     /\ read[2] \in {0, session} /\ rounds[session].row # 0
     => read[1] = Newest
  /\ rounds[session].row # 0 /\ subs["rounds"] # "off" /\ "rounds" \notin missed => RoundHeard

\* An answer a comes after the first n events of f: behind its round, or when
\* that is shown.
Placed(f, n, a, sid, shown) ==
  \/ \E rec \in ToldRounds :
       rec.session = a.session /\ rec.question = a.question /\ LastIs(f, n, "rounds", rec)
  \/ /\ Silent(f, n, "rounds")
     /\ Comes(f, n, sid, a.session) => shown.question = a.question

AnswerInv ==
  /\ yourAnswer \in {NoQuestion, round.question} \cup astray
  /\ page = "listener" => yourAnswer = NoQuestion
  /\ \A i \in 1 .. Len(feed) : feed[i].of = "player_reveals" =>
       feed[i].rec.question \in astray \/ Placed(feed, i - 1, feed[i].rec, sessionId, round)

HeardInv == AnnouncedInv /\ SeatInv /\ RoundInv /\ AnswerInv

-----------------------------------------------------------------------------
(* Events and the feed.                                                    *)

\* An event is made of a collection and one of its records.
LEMMA EventMade ==
  ASSUME NEW c \in Collections, NEW rec \in Records(c)
  PROVE  [of |-> c, rec |-> rec] \in Event
BY DEF Event

LEMMA EventFacts ==
  ASSUME NEW e \in Event
  PROVE  /\ e.of \in Collections
         /\ e.rec \in Records(e.of)
BY DEF Event

\* The records by collection.
LEMMA RecordFacts ==
  /\ Records("game_state") = Sessions
  /\ Records("score_events") = Nat \ {0}
  /\ Records("players") = [session : Sessions, state : Live]
  /\ Records("rounds") = ToldRounds
  /\ Records("player_reveals") = [session : Sessions, question : Questions]
  /\ Records("live_stats") = [session : 0 .. MaxSessions, count : Nat]
BY DEF Records

LEMMA AppendFacts ==
  ASSUME NEW f \in Seq(Event), NEW e \in Event
  PROVE  /\ Append(f, e) \in Seq(Event)
         /\ Len(f) \in Nat
         /\ Len(Append(f, e)) = Len(f) + 1
         /\ \A i \in 1 .. Len(f) : Append(f, e)[i] = f[i] /\ f[i] \in Event
         /\ Append(f, e)[Len(f) + 1] = e
OBVIOUS

LEMMA TailFacts ==
  ASSUME NEW f \in Seq(Event), f # << >>
  PROVE  /\ Tail(f) \in Seq(Event)
         /\ Head(f) = f[1] /\ Head(f) \in Event
         /\ Len(f) \in Nat /\ Len(f) >= 1
         /\ Len(Tail(f)) = Len(f) - 1
         /\ \A i \in 1 .. Len(f) - 1 : Tail(f)[i] = f[i + 1] /\ i + 1 \in 1 .. Len(f)
OBVIOUS

\* A payload keeps all of a row but that it is done.
LEMMA PayloadFacts ==
  ASSUME NEW r \in Rows
  PROVE  /\ Payload(r) \in Payloads
         /\ r # NoRound => Payload(r) \in ToldRounds
         /\ r = NoRound => Payload(r) = NoRound
         /\ Payload(r).row = r.row /\ Payload(r).question = r.question
         /\ Payload(r).session = r.session
         /\ r.row \in Nat /\ r.session \in 0 .. MaxSessions
         /\ r.row = 0 <=> r = NoRound
BY BoundsAssumption DEF Payload, Rows, Payloads, ToldRounds, RoundsWith, Stages, NoRound, Sessions

LEMMA PayloadsFacts ==
  ASSUME NEW r \in Payloads
  PROVE  /\ r.row \in 0 .. MaxRounds /\ r.session \in 0 .. MaxSessions
         /\ r.question \in Questions \cup {NoQuestion}
         /\ r.row = 0 <=> r = NoRound
         /\ r.row # 0 => r.row \in 1 .. MaxRounds /\ r.question \in Questions /\ r \in ToldRounds
         /\ r.state = "active" => r.row # 0
BY BoundsAssumption DEF Payloads, ToldRounds, RoundsWith, Stages, NoRound, Sessions

LEMMA ToldFacts ==
  ASSUME NEW r \in ToldRounds
  PROVE  /\ r \in Payloads /\ r.row # 0 /\ r.session \in Sessions
BY BoundsAssumption DEF Payloads, ToldRounds, RoundsWith, Stages, NoRound, Sessions

\* Every collection a page follows is open to it.
LEMMA AllOpen == Collections \subseteq Open
<1>1. "game_state" \in Open
  BY DEF Open, Collections, DB!Listed, DB!Baseline, DB!game_state, DB!Shown, DB!Closed, DB!Anyone
<1>2. "players" \in Open
  BY DEF Open, Collections, DB!Listed, DB!Baseline, DB!players, DB!Shown, DB!Closed, DB!Anyone
<1>3. "rounds" \in Open
  BY DEF Open, Collections, DB!Listed, DB!Baseline, DB!rounds, DB!Shown, DB!Closed, DB!Anyone
<1>4. "player_reveals" \in Open
  BY DEF Open, Collections, DB!Listed, DB!Baseline, DB!player_reveals, DB!Shown, DB!Closed, DB!Anyone
<1>5. "score_events" \in Open
  BY DEF Open, Collections, DB!Listed, DB!Baseline, DB!score_events, DB!Shown, DB!Closed, DB!Anyone
<1>6. "live_stats" \in Open
  BY DEF Open, Collections, DB!Listed, DB!Baseline, DB!live_stats, DB!Shown, DB!Closed, DB!Anyone
<1> QED BY <1>1, <1>2, <1>3, <1>4, <1>5, <1>6 DEF Collections

-----------------------------------------------------------------------------
(* What the callbacks of a page do to it.                                  *)

PageInv == PageTyped /\ PlayedInv /\ AskedFor

\* st counts starts up to a round shown, and id was played if that one was.
Counts(st, shown, id) ==
  /\ st \in [1 .. MaxRounds -> 0 .. 1]
  /\ id \in PlayedIds
  /\ \A r \in 1 .. MaxRounds : r > shown.row => st[r] = 0
  /\ shown.row # 0 => (st[shown.row] = 1 => id = shown.question)
Start(st, r) == [st EXCEPT ![r] = @ + 1]

\* A round at or after the one shown that is not played keeps the count ...
LEMMA NotPlayed ==
  ASSUME NEW st, NEW shown \in Payloads, NEW id, NEW rec \in Payloads, NEW played \in PlayedIds,
         Counts(st, shown, id), shown.row <= rec.row,
         rec.row = shown.row => rec.question = shown.question /\ played = id
  PROVE  Counts(st, rec, played)
BY PayloadsFacts, BoundsAssumption DEF Counts

\* ... and so does one that is played, for it was not.
LEMMA Plays ==
  ASSUME NEW st, NEW shown \in Payloads, NEW id, NEW rec \in Payloads, NEW played \in PlayedIds,
         Counts(st, shown, id), shown.row <= rec.row,
         rec.row = shown.row => rec.question = shown.question /\ played = id,
         rec.state = "active", played # rec.question
  PROVE  Counts(Start(st, rec.row), rec, rec.question)
<1>1. /\ rec.row \in 1 .. MaxRounds /\ shown.row \in 0 .. MaxRounds /\ MaxRounds \in Nat
      /\ rec.question \in PlayedIds
  BY PayloadsFacts, BoundsAssumption DEF PlayedIds
<1>2. st \in [1 .. MaxRounds -> 0 .. 1] /\ st[rec.row] = 0
  BY <1>1 DEF Counts
<1>3. Start(st, rec.row) \in [1 .. MaxRounds -> 0 .. 1]
  BY <1>1, <1>2 DEF Start
<1>4. \A r \in 1 .. MaxRounds : r > rec.row => Start(st, rec.row)[r] = 0
  BY <1>1, <1>2 DEF Counts, Start
<1> QED BY <1>1, <1>3, <1>4 DEF Counts

LEMMA Counted == PageInv <=> /\ sessionId \in 0 .. MaxSessions /\ player \in States /\ round \in Payloads
                             /\ Counts(started, round, playedRoundId) /\ AskedFor
BY DEF PageInv, PageTyped, PlayedInv, Counts

LEMMA CountedNext == PageInv' <=> /\ sessionId' \in 0 .. MaxSessions /\ player' \in States /\ round' \in Payloads
                                  /\ Counts(started', round', playedRoundId') /\ AskedFor'
BY DEF PageInv, PageTyped, PlayedInv, Counts

\* A round is shown only if it is not older than the one shown.
Follows(rec) == rec.row # 0 => round.row <= rec.row /\ SameRow(round, rec)

LEMMA RoundApplied ==
  ASSUME PageInv, NEW rec \in Payloads, Follows(rec), applyRound(rec)
  PROVE  PageInv'
<1>1. CASE ~(rec.row # 0 /\ inSession(rec.session))
  <2>1. UNCHANGED <<sessionId, player, round, playedRoundId, started>>
    BY <1>1 DEF applyRound
  <2> QED BY <2>1 DEF PageInv, PageTyped, PlayedInv, AskedFor
<1>2. CASE rec.row # 0 /\ inSession(rec.session)
  <2> DEFINE played == IF rec.question # round.question THEN NoQuestion ELSE playedRoundId
  <2>1. /\ round' = rec /\ UNCHANGED <<sessionId, player>>
        /\ IF player = "bound" THEN playRoundOnce(rec, played)
           ELSE playedRoundId' = played /\ UNCHANGED started
    BY <1>2 DEF applyRound
  <2>2. /\ played \in PlayedIds
        /\ rec.row = round.row => rec.question = round.question /\ played = playedRoundId
    BY <1>2, Counted DEF Counts, Follows, SameRow, PlayedIds
  <2>3. /\ round \in Payloads /\ round.row <= rec.row /\ Counts(started, round, playedRoundId)
        /\ sessionId \in 0 .. MaxSessions /\ player \in States
    BY <1>2, Counted DEF Follows
  <2> HIDE DEF played
  <2>4. \/ playedRoundId' = played /\ started' = started
        \/ /\ rec.state = "active" /\ played # rec.question
           /\ playedRoundId' = rec.question /\ started' = Start(started, rec.row)
    BY <2>1 DEF playRoundOnce, Start
  <2>5. Counts(started', rec, playedRoundId')
    BY <2>2, <2>3, <2>4, NotPlayed, Plays
  <2>6. AskedFor'
    BY <2>1 DEF AskedFor, playRoundOnce
  <2> QED BY <2>1, <2>3, <2>5, <2>6, CountedNext
<1> QED BY <1>1, <1>2

LEMMA PlayerApplied ==
  ASSUME PageInv, NEW rec, rec.state \in Live, applyPlayer(rec)
  PROVE  PageInv'
<1>1. UNCHANGED <<sessionId, round>> /\ player' \in {player, rec.state}
  BY DEF applyPlayer
<1>2. CASE inSession(rec.session) /\ rec.state = "bound" /\ player # "bound"
  <2>1. playRoundOnce(round, playedRoundId)
    BY <1>2 DEF applyPlayer
  <2>2. /\ round \in Payloads /\ playedRoundId \in PlayedIds /\ round.row <= round.row
        /\ Counts(started, round, playedRoundId)
    BY Counted, PayloadsFacts DEF Counts
  <2>3. Counts(started', round, playedRoundId')
    BY <2>1, <2>2, NotPlayed, Plays DEF playRoundOnce, Start
  <2>4. AskedFor'
    BY <1>1, <2>1 DEF AskedFor, playRoundOnce
  <2> QED BY <1>1, <2>3, <2>4, Counted, CountedNext DEF States
<1>3. CASE ~(inSession(rec.session) /\ rec.state = "bound" /\ player # "bound")
  <2>1. /\ UNCHANGED <<playedRoundId, started>>
        /\ player' = "bound" => player = "bound"
    BY <1>3 DEF applyPlayer
  <2> QED BY <1>1, <2>1 DEF PageInv, PageTyped, PlayedInv, AskedFor, States
<1> QED BY <1>2, <1>3

LEMMA SessionApplied ==
  ASSUME PageInv, NEW s \in 0 .. MaxSessions,
         sessionId' = IF s = 0 THEN sessionId ELSE s,
         UNCHANGED <<player, round, playedRoundId, started>>
  PROVE  PageInv'
BY DEF PageInv, PageTyped, PlayedInv, AskedFor

\* The listener's round: it has no player to be bound.
LEMMA ListenerRoundApplied ==
  ASSUME PageInv, player = "none", NEW rec \in Payloads, Follows(rec), listenerRound(rec)
  PROVE  PageInv'
<1>1. UNCHANGED <<sessionId, player>>
  BY DEF listenerRound, pageVars
<1>2. CASE rec.row = 0 \/ ~inSession(rec.session)
  <2>1. UNCHANGED <<round, playedRoundId, started>>
    BY <1>2 DEF listenerRound, pageVars
  <2> QED BY <1>1, <2>1 DEF PageInv, PageTyped, PlayedInv, AskedFor
<1>3. CASE rec.row # 0 /\ inSession(rec.session)
  <2>1. round' = rec /\ playRoundOnce(rec, playedRoundId)
    BY <1>3 DEF listenerRound
  <2>2. /\ round \in Payloads /\ round.row <= rec.row /\ playedRoundId \in PlayedIds
        /\ Counts(started, round, playedRoundId)
        /\ rec.row = round.row => rec.question = round.question
    BY <1>3, Counted DEF Counts, Follows, SameRow
  <2>3. Counts(started', rec, playedRoundId')
    BY <2>1, <2>2, NotPlayed, Plays DEF playRoundOnce, Start
  <2> QED BY <1>1, <2>1, <2>3, Counted, CountedNext DEF AskedFor
<1> QED BY <1>2, <1>3

-----------------------------------------------------------------------------
(* The feed may grow by an event of a live subscription, or lose its first. *)

\* What a write tells the page.
Tells(c, rec) ==
  \/ feed' = feed
  \/ subs[c] = "live" /\ feed' = Append(feed, [of |-> c, rec |-> rec])

LEMMA ToldTells ==
  ASSUME LinkTyped, NEW c \in Collections, NEW rec \in Records(c), UNCHANGED subs,
         Tells(c, rec), missed' \subseteq missed \cup {c}
  PROVE  LinkTyped'
<1>1. [of |-> c, rec |-> rec] \in Event
  BY EventMade
<1>2. feed' \in Seq(Event)
  BY <1>1, AppendFacts DEF Tells, LinkTyped
<1> QED BY <1>2 DEF LinkTyped

\* The events are of subscriptions asked for.
Followed == \A i \in 1 .. Len(feed) : subs[feed[i].of] # "off"

LEMMA FollowedTold ==
  ASSUME LinkTyped, Followed, NEW c \in Collections, NEW rec \in Records(c), UNCHANGED subs,
         Tells(c, rec)
  PROVE  Followed'
<1>1. CASE feed' = feed
  BY <1>1 DEF Followed
<1>2. CASE subs[c] = "live" /\ feed' = Append(feed, [of |-> c, rec |-> rec])
  <2>1. [of |-> c, rec |-> rec] \in Event /\ feed \in Seq(Event)
    BY EventMade DEF LinkTyped
  <2>2. /\ Len(feed) \in Nat /\ Len(feed') = Len(feed) + 1
        /\ \A i \in 1 .. Len(feed) : feed'[i] = feed[i]
        /\ feed'[Len(feed) + 1] = [of |-> c, rec |-> rec]
    BY <1>2, <2>1, AppendFacts
  <2> SUFFICES ASSUME NEW i \in 1 .. Len(feed') PROVE subs'[feed'[i].of] # "off"
    BY DEF Followed
  <2>4. CASE i \in 1 .. Len(feed)
    BY <2>2, <2>4 DEF Followed
  <2>5. CASE i = Len(feed) + 1
    BY <1>2, <2>2, <2>5
  <2> QED BY <2>2, <2>4, <2>5
<1> QED BY <1>1, <1>2 DEF Tells

LEMMA FollowedTail ==
  ASSUME LinkTyped, Followed, feed # << >>, feed' = Tail(feed), UNCHANGED subs
  PROVE  Followed'
BY TailFacts DEF LinkTyped, Followed

LEMMA PageSame ==
  ASSUME PageInv, UNCHANGED <<sessionId, player, round, playedRoundId, started>>
  PROVE  PageInv'
BY DEF PageInv, PageTyped, PlayedInv, AskedFor

\* The order of the rounds, when anything else is told ...
LEMMA OrderOther ==
  ASSUME LinkTyped, OrderInv, NEW c \in Collections \ {"rounds"}, NEW rec \in Records(c), Tells(c, rec),
         UNCHANGED <<round, rounds, opened, session, pc, read>>
  PROVE  OrderInv'
<1>1. CASE feed' = feed
  BY <1>1 DEF OrderInv, SameRow
<1>2. CASE feed' = Append(feed, [of |-> c, rec |-> rec])
  <2>1. [of |-> c, rec |-> rec] \in Event /\ feed \in Seq(Event)
    BY EventMade DEF LinkTyped
  <2>2. /\ Len(feed) \in Nat /\ Len(feed') = Len(feed) + 1
        /\ \A i \in 1 .. Len(feed) : feed'[i] = feed[i]
        /\ feed'[Len(feed) + 1].of # "rounds"
    BY <1>2, <2>1, AppendFacts
  <2>3. \A i \in 1 .. Len(feed') : feed'[i].of = "rounds" => i \in 1 .. Len(feed) /\ feed'[i] = feed[i]
    BY <2>2
  <2> QED BY <2>2, <2>3 DEF OrderInv, SameRow
<1> QED BY <1>1, <1>2 DEF Tells

\* ... when the first event is taken ...
LEMMA OrderTail ==
  ASSUME LinkTyped, OrderInv, feed # << >>, feed' = Tail(feed),
         UNCHANGED <<rounds, opened, session, pc, read>>,
         \/ round' = round
         \/ feed[1].of = "rounds" /\ round' = feed[1].rec
  PROVE  OrderInv'
<1>1. /\ Len(feed) \in Nat /\ Len(feed) >= 1 /\ Len(feed') = Len(feed) - 1
      /\ \A i \in 1 .. Len(feed') : feed'[i] = feed[i + 1] /\ i + 1 \in 1 .. Len(feed)
  BY TailFacts DEF LinkTyped
<1>2. /\ round'.row <= opened'
      /\ SameRow(round', rounds[session])
  BY <1>1 DEF OrderInv
<1>3. ASSUME NEW i \in 1 .. Len(feed'), feed'[i].of = "rounds"
      PROVE  /\ round'.row <= feed'[i].rec.row /\ feed'[i].rec.row <= opened'
             /\ SameRow(round', feed'[i].rec)
             /\ SameRow(feed'[i].rec, rounds[session])
  <2>1. feed'[i] = feed[i + 1] /\ i + 1 \in 1 .. Len(feed) /\ 1 < i + 1 /\ 1 \in 1 .. Len(feed)
    BY <1>1
  <2> QED BY <1>3, <2>1 DEF OrderInv
<1>4. ASSUME NEW i \in 1 .. Len(feed'), feed'[i].of = "rounds",
             NEW j \in 1 .. Len(feed'), i < j, feed'[j].of = "rounds"
      PROVE  /\ feed'[i].rec.row <= feed'[j].rec.row
             /\ SameRow(feed'[i].rec, feed'[j].rec)
  <2>1. /\ feed'[i] = feed[i + 1] /\ i + 1 \in 1 .. Len(feed)
        /\ feed'[j] = feed[j + 1] /\ j + 1 \in 1 .. Len(feed) /\ i + 1 < j + 1
    BY <1>1, <1>4
  <2> QED BY <1>4, <2>1 DEF OrderInv
<1>5. pc' = "rounds" /\ read' # Unread =>
        read'[1].row <= opened' /\ SameRow(read'[1], rounds[session])
  BY DEF OrderInv
<1> QED BY <1>2, <1>3, <1>4, <1>5 DEF OrderInv, SameRow

\* ... and when the read returns, before any round is heard of.
LEMMA OrderRead ==
  ASSUME OrderInv, UNCHANGED <<feed, rounds, opened, session>>, read' = Unread,
         \/ round' = round
         \/ /\ pc = "rounds" /\ read # Unread /\ round' = read[1]
            /\ \A i \in 1 .. Len(feed) : feed[i].of # "rounds"
  PROVE  OrderInv'
BY DEF OrderInv, SameRow

\* ... when the newest round is told ...
LEMMA OrderTold ==
  ASSUME LinkTyped, DbTyped, OrderInv, NEW rec \in ToldRounds, Tells("rounds", rec),
         UNCHANGED <<session, round, pc, read>>, round \in Payloads,
         pc = "rounds" /\ read # Unread => read[1] \in Payloads,
         opened' \in Nat, rec.row = opened', rounds'[session].row = opened',
         rounds'[session].question = rec.question,
         \/ opened' = opened + 1
         \/ opened' = opened /\ rounds[session].row = opened /\ rounds[session].question = rec.question
  PROVE  OrderInv'
<1> DEFINE Before(x) == x.row <= opened' /\ SameRow(x, rec) /\ SameRow(x, rounds'[session])
<1>1. ASSUME NEW x \in Payloads, x.row <= opened, SameRow(x, rounds[session])
      PROVE  Before(x)
  <2>1. x.row \in Nat /\ opened \in Nat
    BY PayloadsFacts, BoundsAssumption DEF DbTyped
  <2> QED BY <1>1, <2>1 DEF SameRow
<1> HIDE DEF Before
<1>2. Before(round)
  BY <1>1 DEF OrderInv
<1>3. pc = "rounds" /\ read # Unread => Before(read[1])
  BY <1>1 DEF OrderInv
<1>4. \A i \in 1 .. Len(feed) : feed[i].of = "rounds" => Before(feed[i].rec) /\ round.row <= feed[i].rec.row
  <2>1. ASSUME NEW i \in 1 .. Len(feed), feed[i].of = "rounds" PROVE feed[i].rec \in Payloads
    <3>1. feed[i] \in Event
      BY DEF LinkTyped
    <3> QED BY <2>1, <3>1, EventFacts, RecordFacts, ToldFacts
  <2> QED BY <1>1, <2>1 DEF OrderInv
<1>5. /\ round'.row <= opened' /\ SameRow(round', rounds'[session'])
      /\ pc' = "rounds" /\ read' # Unread => read'[1].row <= opened' /\ SameRow(read'[1], rounds'[session'])
  BY <1>2, <1>3 DEF Before
<1>6. CASE feed' = feed
  BY <1>4, <1>5, <1>6 DEF OrderInv, Before, SameRow
<1>7. CASE feed' = Append(feed, [of |-> "rounds", rec |-> rec])
  <2>1. "rounds" \in Collections /\ rec \in Records("rounds")
    BY RecordFacts DEF Collections
  <2>2. [of |-> "rounds", rec |-> rec] \in Event /\ feed \in Seq(Event)
    BY <2>1, EventMade DEF LinkTyped
  <2>3. /\ Len(feed) \in Nat /\ Len(feed') = Len(feed) + 1
        /\ \A i \in 1 .. Len(feed) : feed'[i] = feed[i]
        /\ feed'[Len(feed) + 1] = [of |-> "rounds", rec |-> rec]
    BY <1>7, <2>2, AppendFacts
  <2>4. ASSUME NEW i \in 1 .. Len(feed'), feed'[i].of = "rounds"
        PROVE  /\ round'.row <= feed'[i].rec.row /\ feed'[i].rec.row <= opened'
               /\ SameRow(round', feed'[i].rec)
               /\ SameRow(feed'[i].rec, rounds'[session'])
    <3>1. CASE i \in 1 .. Len(feed)
      BY <1>4, <2>3, <2>4, <3>1 DEF OrderInv, Before
    <3>2. CASE i = Len(feed) + 1
      <4>1. feed'[i].rec = rec
        BY <2>3, <3>2
      <4> QED BY <4>1, <1>2 DEF Before, SameRow
    <3> QED BY <2>3, <3>1, <3>2
  <2>5. ASSUME NEW i \in 1 .. Len(feed'), feed'[i].of = "rounds",
               NEW j \in 1 .. Len(feed'), i < j, feed'[j].of = "rounds"
        PROVE  feed'[i].rec.row <= feed'[j].rec.row /\ SameRow(feed'[i].rec, feed'[j].rec)
    <3>1. i \in 1 .. Len(feed) /\ feed'[i] = feed[i]
      BY <2>3, <2>5
    <3>2. CASE j \in 1 .. Len(feed)
      BY <2>3, <2>5, <3>1, <3>2 DEF OrderInv
    <3>3. CASE j = Len(feed) + 1
      <4>1. feed'[j].rec = rec
        BY <2>3, <3>3
      <4> QED BY <4>1, <3>1, <2>5, <1>4 DEF Before
    <3> QED BY <2>3, <3>2, <3>3
  <2> QED BY <1>5, <2>4, <2>5 DEF OrderInv
<1> QED BY <1>6, <1>7 DEF Tells

\* ... and when a session begins that has none.
LEMMA OrderSession ==
  ASSUME LinkTyped, OrderInv, Tells("game_state", session'), session' \in Sessions,
         UNCHANGED <<rounds, round, opened, pc, read>>, round \in Payloads,
         pc = "rounds" /\ read # Unread => read[1] \in Payloads,
         rounds[session'] = NoRound
  PROVE  OrderInv'
<1>1. ASSUME NEW x \in Payloads PROVE SameRow(x, NoRound)
  BY PayloadsFacts DEF SameRow, NoRound
<1>2. ASSUME NEW i \in 1 .. Len(feed), feed[i].of = "rounds" PROVE feed[i].rec \in Payloads
  <2>1. feed[i] \in Event
    BY DEF LinkTyped
  <2> QED BY <1>2, <2>1, EventFacts, RecordFacts, ToldFacts
<1>3. CASE feed' = feed
  BY <1>1, <1>2, <1>3 DEF OrderInv
<1>4. CASE feed' = Append(feed, [of |-> "game_state", rec |-> session'])
  <2>1. "game_state" \in Collections /\ session' \in Records("game_state")
    BY RecordFacts DEF Collections
  <2>2. [of |-> "game_state", rec |-> session'] \in Event /\ feed \in Seq(Event)
    BY <2>1, EventMade DEF LinkTyped
  <2>3. /\ Len(feed) \in Nat /\ Len(feed') = Len(feed) + 1
        /\ \A i \in 1 .. Len(feed) : feed'[i] = feed[i]
        /\ feed'[Len(feed) + 1].of # "rounds"
    BY <1>4, <2>2, AppendFacts
  <2>4. \A i \in 1 .. Len(feed') : feed'[i].of = "rounds" => i \in 1 .. Len(feed) /\ feed'[i] = feed[i]
    BY <2>3
  <2> QED BY <1>1, <1>2, <2>3, <2>4 DEF OrderInv
<1> QED BY <1>3, <1>4 DEF Tells

-----------------------------------------------------------------------------
(* Every step keeps FeedInv: the runner's ...                              *)

LEMMA WriteKeeps ==
  ASSUME FeedInv, NEW c \in Collections, NEW rec \in Records(c),
         Tells(c, rec), missed' \subseteq missed \cup {c},
         UNCHANGED <<sessionId, player, round, playedRoundId, started, page, pc, read, subs>>,
         page = "listener" => players' = players,
         DbTyped', RowsInv', OrderInv'
  PROVE  FeedInv'
<1>1. LinkTyped' /\ Followed'
  BY ToldTells, FollowedTold DEF FeedInv, Asking, Followed
<1>2. ReadTyped'
  BY DEF FeedInv, ReadTyped
<1>3. Asking'
  BY <1>1 DEF FeedInv, Asking, Followed
<1>4. PageInv'
  BY PageSame DEF FeedInv, PageInv
<1> QED BY <1>1, <1>2, <1>3, <1>4 DEF FeedInv, PageInv

LEMMA NewSessionKeeps ==
  ASSUME FeedInv, NewSession, UNCHANGED <<page, moreVars>>
  PROVE  FeedInv'
<1>1. /\ session' = session + 1 /\ session' \in Sessions /\ session \in Sessions
      /\ UNCHANGED <<players, rounds, opened, stats, events, page, pc, read, subs>>
      /\ UNCHANGED <<sessionId, player, round, playedRoundId, started>>
      /\ published' \in {published, session'}
      /\ Tells("game_state", session') /\ missed' \subseteq missed \cup {"game_state"}
  BY BoundsAssumption DEF NewSession, FeedInv, DbTyped, Sessions, pageVars, moreVars, Told, Tells
<1>2. DbTyped'
  BY <1>1 DEF FeedInv, DbTyped, Sessions
<1>3. RowsInv'
  <2>1. rounds[session'] = NoRound /\ NoRound.row = 0
    BY <1>1 DEF FeedInv, RowsInv, DbTyped, Sessions, NoRound
  <2>2. \A s \in Sessions : s > session' => s > session
    BY <1>1 DEF Sessions
  <2> QED BY <1>1, <2>1, <2>2 DEF FeedInv, RowsInv
<1>4. rounds[session'] = NoRound
  BY <1>1 DEF FeedInv, RowsInv, DbTyped, Sessions
<1>5. OrderInv'
  BY <1>1, <1>4, OrderSession DEF FeedInv, PageTyped, ReadTyped
<1>6. "game_state" \in Collections /\ session' \in Records("game_state")
  BY <1>1, RecordFacts DEF Collections
<1> QED BY <1>1, <1>2, <1>3, <1>5, <1>6, WriteKeeps

LEMMA PublishKeeps ==
  ASSUME FeedInv, Publish, UNCHANGED <<page, moreVars>>
  PROVE  FeedInv'
<1>1. /\ session \in Sessions
      /\ UNCHANGED <<session, players, rounds, opened, stats, events, page, pc, read, subs>>
      /\ UNCHANGED <<sessionId, player, round, playedRoundId, started>>
      /\ published' = session
      /\ Tells("game_state", session) /\ missed' \subseteq missed \cup {"game_state"}
  BY DEF Publish, FeedInv, DbTyped, pageVars, moreVars, Told, Tells
<1>2. DbTyped'
  BY <1>1 DEF FeedInv, DbTyped, Sessions
<1>3. RowsInv'
  BY <1>1 DEF FeedInv, RowsInv
<1>4. /\ "game_state" \in Collections /\ "game_state" # "rounds"
      /\ session \in Records("game_state")
  BY <1>1, RecordFacts DEF Collections
<1>5. OrderInv'
  BY <1>1, <1>4, OrderOther DEF FeedInv
<1> QED BY <1>1, <1>2, <1>3, <1>4, <1>5, WriteKeeps

LEMMA PlayerMovesKeeps ==
  ASSUME FeedInv, PlayerMoves, page = "player", UNCHANGED <<page, moreVars>>
  PROVE  FeedInv'
<1>1. PICK state \in Live \ {players[session]} :
        /\ players' = [players EXCEPT ![session] = state]
        /\ Told("players", [session |-> session, state |-> state])
  BY DEF PlayerMoves
<1>2. /\ session \in Sessions
      /\ UNCHANGED <<session, published, rounds, opened, stats, events, page, pc, read, subs>>
      /\ UNCHANGED <<sessionId, player, round, playedRoundId, started>>
  BY DEF PlayerMoves, FeedInv, DbTyped, pageVars, moreVars
<1>3. /\ Tells("players", [session |-> session, state |-> state])
      /\ missed' \subseteq missed \cup {"players"}
  BY <1>1 DEF Told, Tells
<1>4. DbTyped'
  BY <1>1, <1>2 DEF FeedInv, DbTyped, States
<1>5. RowsInv'
  <2>1. \A s \in Sessions : s > session => players'[s] = players[s]
    BY <1>1, <1>2 DEF FeedInv, DbTyped, Sessions
  <2> QED BY <1>2, <2>1 DEF FeedInv, RowsInv
<1>6. /\ "players" \in Collections /\ "players" # "rounds"
      /\ [session |-> session, state |-> state] \in Records("players")
  BY <1>2, RecordFacts DEF Collections
<1>7. OrderInv'
  BY <1>2, <1>3, <1>6, OrderOther DEF FeedInv
<1> QED BY <1>2, <1>3, <1>4, <1>5, <1>6, <1>7, WriteKeeps

LEMMA RevealsKeeps ==
  ASSUME FeedInv, Reveals, UNCHANGED <<page, moreVars>>
  PROVE  FeedInv'
<1>1. /\ session \in Sessions /\ rounds[session].question \in Questions
      /\ UNCHANGED <<session, published, players, rounds, opened, stats, events, page, pc, read, subs>>
      /\ UNCHANGED <<sessionId, player, round, playedRoundId, started>>
      /\ Tells("player_reveals", [session |-> session, question |-> rounds[session].question])
      /\ missed' \subseteq missed \cup {"player_reveals"}
  <2>1. session \in Sessions /\ rounds[session] \in Rows /\ rounds[session].state = "revealed"
    BY DEF Reveals, FeedInv, DbTyped
  <2>2. rounds[session].question \in Questions
    BY <2>1 DEF Rows, RoundsWith, NoRound
  <2> QED BY <2>1, <2>2 DEF Reveals, pageVars, moreVars, Told, Tells
<1>2. DbTyped'
  BY <1>1 DEF FeedInv, DbTyped
<1>3. RowsInv'
  BY <1>1 DEF FeedInv, RowsInv
<1>4. /\ "player_reveals" \in Collections /\ "player_reveals" # "rounds"
      /\ [session |-> session, question |-> rounds[session].question] \in Records("player_reveals")
  BY <1>1, RecordFacts DEF Collections
<1>5. OrderInv'
  BY <1>1, <1>4, OrderOther DEF FeedInv
<1> QED BY <1>1, <1>2, <1>3, <1>4, <1>5, WriteKeeps

LEMMA ScoresKeeps ==
  ASSUME FeedInv, Scores, UNCHANGED page
  PROVE  FeedInv'
<1>1. /\ session \in Sessions /\ events \in Seq(Sessions) /\ events' = Append(events, session)
      /\ UNCHANGED <<session, published, players, rounds, opened, stats, page, pc, read, subs>>
      /\ UNCHANGED <<sessionId, player, round, playedRoundId, started>>
      /\ Tells("score_events", Len(events')) /\ missed' \subseteq missed \cup {"score_events"}
  BY DEF Scores, FeedInv, DbTyped, dbVars, pageVars, Tells
<1>2. DbTyped'
  BY <1>1 DEF FeedInv, DbTyped
<1>3. RowsInv'
  BY <1>1 DEF FeedInv, RowsInv
<1>4. /\ "score_events" \in Collections /\ "score_events" # "rounds"
      /\ Len(events') \in Records("score_events")
  <2>1. Len(events') \in Nat \ {0}
    BY <1>1
  <2> QED BY <2>1, RecordFacts DEF Collections
<1>5. OrderInv'
  BY <1>1, <1>4, OrderOther DEF FeedInv
<1> QED BY <1>1, <1>2, <1>3, <1>4, <1>5, WriteKeeps

LEMMA CountsPublishedKeeps ==
  ASSUME FeedInv, CountsPublished, UNCHANGED page
  PROVE  FeedInv'
<1>1. /\ stats' \in [session : 0 .. MaxSessions, count : Nat]
      /\ UNCHANGED <<session, published, players, rounds, opened, events, page, pc, read, subs>>
      /\ UNCHANGED <<sessionId, player, round, playedRoundId, started>>
      /\ Tells("live_stats", stats') /\ missed' \subseteq missed \cup {"live_stats"}
  BY DEF CountsPublished, FeedInv, DbTyped, dbVars, pageVars, Told, Tells, Sessions
<1>2. DbTyped'
  BY <1>1 DEF FeedInv, DbTyped
<1>3. RowsInv'
  BY <1>1 DEF FeedInv, RowsInv
<1>4. /\ "live_stats" \in Collections /\ "live_stats" # "rounds"
      /\ stats' \in Records("live_stats")
  BY <1>1, RecordFacts DEF Collections
<1>5. OrderInv'
  BY <1>1, <1>4, OrderOther DEF FeedInv
<1> QED BY <1>1, <1>2, <1>3, <1>4, <1>5, WriteKeeps

LEMMA RoundOpensKeeps ==
  ASSUME FeedInv, RoundOpens, UNCHANGED <<page, moreVars>>
  PROVE  FeedInv'
<1>1. PICK q \in Questions :
        LET rec == [session |-> session, row |-> opened + 1, question |-> q, state |-> "active"] IN
        /\ rounds' = [rounds EXCEPT ![session] = rec]
        /\ Told("rounds", rec)
  BY DEF RoundOpens
<1> DEFINE rec == [session |-> session, row |-> opened + 1, question |-> q, state |-> "active"]
<1>2. /\ session \in Sessions /\ opened \in Nat /\ opened < MaxRounds /\ opened' = opened + 1
      /\ MaxRounds \in Nat
      /\ UNCHANGED <<session, published, players, stats, events, page, pc, read, subs>>
      /\ UNCHANGED <<sessionId, player, round, playedRoundId, started>>
  BY BoundsAssumption DEF RoundOpens, FeedInv, DbTyped, pageVars, moreVars
<1>3. /\ Tells("rounds", rec) /\ missed' \subseteq missed \cup {"rounds"}
      /\ rounds' = [rounds EXCEPT ![session] = rec]
  BY <1>1 DEF Told, Tells
<1>4. rec \in ToldRounds /\ rec \in Rows
  BY <1>2 DEF ToldRounds, Rows, RoundsWith, Stages
<1>5. /\ rec.row = opened' /\ rec.question = q /\ rec.session = session
  BY <1>2
<1> HIDE DEF rec
<1>6. rounds'[session] = rec /\ \A s \in Sessions : s # session => rounds'[s] = rounds[s]
  BY <1>2, <1>3 DEF FeedInv, DbTyped
<1>7. DbTyped'
  BY <1>2, <1>3, <1>4 DEF FeedInv, DbTyped
<1>8. RowsInv'
  <2>1. ASSUME NEW s \in Sessions
        PROVE  /\ rounds'[s].row <= opened'
               /\ rounds'[s].row # 0 => rounds'[s].session = s
               /\ s > session => rounds'[s] = NoRound /\ players[s] = "none"
               /\ s < session => rounds'[s].row < opened'
    <3>1. CASE s = session
      BY <1>2, <1>5, <1>6, <3>1 DEF Sessions
    <3>2. CASE s # session
      <4>1. rounds'[s] = rounds[s] /\ rounds[s].row \in Nat /\ rounds[s].row <= opened
        BY <1>6, <3>2, PayloadFacts DEF FeedInv, DbTyped, RowsInv
      <4> QED BY <1>2, <3>2, <4>1 DEF FeedInv, RowsInv
    <3> QED BY <3>1, <3>2
  <2> QED BY <1>2, <1>5, <1>6, <2>1 DEF RowsInv
<1>9. "rounds" \in Collections /\ rec \in Records("rounds")
  BY <1>4, RecordFacts DEF Collections
<1>10. OrderInv'
  BY <1>2, <1>3, <1>4, <1>5, <1>6, OrderTold DEF FeedInv, PageTyped, ReadTyped
<1> QED BY <1>2, <1>3, <1>7, <1>8, <1>9, <1>10, WriteKeeps

LEMMA RoundMovesKeeps ==
  ASSUME FeedInv, RoundMoves, UNCHANGED <<page, moreVars>>
  PROVE  FeedInv'
<1> DEFINE rec == Payload(rounds'[session])
<1>1. /\ session \in Sessions /\ opened \in Nat /\ rounds[session] \in Rows
      /\ rounds[session].state \in {"active", "closing", "revealed"}
      /\ UNCHANGED <<session, published, players, opened, stats, events, page, pc, read, subs>>
      /\ UNCHANGED <<sessionId, player, round, playedRoundId, started>>
      /\ rounds' = [rounds EXCEPT ![session].state = Later[@]]
      /\ Told("rounds", rec)
  BY BoundsAssumption DEF RoundMoves, FeedInv, DbTyped, pageVars, moreVars, Later
<1>2. /\ Tells("rounds", rec) /\ missed' \subseteq missed \cup {"rounds"}
  BY <1>1 DEF Told, Tells
<1>3. /\ rounds'[session] = [rounds[session] EXCEPT !.state = Later[@]]
      /\ \A s \in Sessions : s # session => rounds'[s] = rounds[s]
  BY <1>1 DEF FeedInv, DbTyped
<1>4. rounds[session] \in RoundsWith(Stages)
  BY <1>1 DEF Rows, NoRound
<1>5. Later[rounds[session].state] \in Stages
  BY <1>1 DEF Later, Stages
<1>6. /\ rounds'[session] \in RoundsWith(Stages)
      /\ rounds'[session].row = rounds[session].row
      /\ rounds'[session].question = rounds[session].question
      /\ rounds'[session].session = rounds[session].session
  BY <1>3, <1>4, <1>5 DEF RoundsWith
<1>7. rounds'[session] \in Rows /\ rounds'[session] # NoRound
  BY <1>6, BoundsAssumption DEF Rows, NoRound, RoundsWith, Sessions
<1>8. /\ rec \in ToldRounds /\ rec.row = rounds[session].row /\ rec.question = rounds[session].question
      /\ rounds[session].row # 0 /\ rounds[session].row = opened
  BY <1>6, <1>7, PayloadFacts DEF FeedInv, RowsInv
<1> HIDE DEF rec
<1>9. DbTyped'
  <2>1. rounds' \in [Sessions -> Rows]
    <3>1. rounds \in [Sessions -> Rows]
      BY DEF FeedInv, DbTyped
    <3>2. rounds' = [s \in Sessions |-> rounds'[s]] /\ \A s \in Sessions : rounds'[s] \in Rows
      BY <1>1, <1>3, <1>7, <3>1
    <3> QED BY <3>2
  <2> QED BY <1>1, <2>1 DEF FeedInv, DbTyped
<1>10. RowsInv'
  <2>1. ASSUME NEW s \in Sessions
        PROVE  /\ rounds'[s].row = rounds[s].row /\ rounds'[s].session = rounds[s].session
               /\ s # session => rounds'[s] = rounds[s]
    BY <1>3, <1>6
  <2>2. session \in Nat
    BY <1>1 DEF Sessions
  <2> QED BY <1>1, <2>1, <2>2 DEF FeedInv, RowsInv, Sessions
<1>11. "rounds" \in Collections /\ rec \in Records("rounds")
  BY <1>8, RecordFacts DEF Collections
<1>12. OrderInv'
  BY <1>1, <1>2, <1>6, <1>8, OrderTold DEF FeedInv, PageTyped, ReadTyped
<1> QED BY <1>1, <1>2, <1>9, <1>10, <1>11, <1>12, WriteKeeps

-----------------------------------------------------------------------------
(* ... what a page looks for ...                                           *)

LEMMA NewestSession ==
  ASSUME NEW T, T \subseteq Sessions, T # {}
  PROVE  \E x \in T : \A y \in T : y <= x
<1> DEFINE U == {MaxSessions - s : s \in T}
<1>1. U \subseteq Nat /\ U # {} /\ MaxSessions \in Nat
  <2>1. MaxSessions \in Nat /\ \A s \in T : MaxSessions - s \in Nat
    BY BoundsAssumption DEF Sessions
  <2> QED BY <2>1
<1> HIDE DEF U
<1>2. \E u \in U : \A v \in U : ~ (<<v, u>> \in OpToRel(<, Nat))
  BY <1>1, WFMin, NatLessThanWellFounded, Zenon
<1>3. PICK u \in U : \A v \in U : ~ (<<v, u>> \in OpToRel(<, Nat))
  BY <1>2
<1>4. ASSUME NEW v \in U PROVE ~(v < u)
  BY <1>1, <1>3, Zenon DEF OpToRel
<1>5. PICK x \in T : u = MaxSessions - x
  BY DEF U
<1>6. ASSUME NEW y \in T PROVE y <= x
  <2>1. MaxSessions - y \in U
    BY DEF U
  <2>2. ~(MaxSessions - y < MaxSessions - x)
    BY <1>4, <1>5, <2>1
  <2> QED BY <1>1, <2>2 DEF Sessions
<1> QED BY <1>6

\* What Mine finds for a page in session sid.
Found(sid, rows, none) ==
  LET having == {s \in Sessions : rows[s] # none /\ (sid = 0 \/ s = sid)} IN
  IF having = {} THEN [session |-> 0, is |-> none]
  ELSE LET s == CHOOSE s \in having : \A t \in having : t <= s IN [session |-> s, is |-> rows[s]]

\* It is nothing, or the newest row in its session.
LEMMA FoundFacts ==
  ASSUME NEW sid, NEW rows, NEW none
  PROVE  \/ Found(sid, rows, none) = [session |-> 0, is |-> none]
            /\ \A t \in Sessions : (sid = 0 \/ t = sid) => rows[t] = none
         \/ \E s \in Sessions :
              /\ Found(sid, rows, none) = [session |-> s, is |-> rows[s]]
              /\ rows[s] # none /\ (sid = 0 \/ s = sid)
              /\ \A t \in Sessions : rows[t] # none /\ (sid = 0 \/ t = sid) => t <= s
<1> DEFINE having == {s \in Sessions : rows[s] # none /\ (sid = 0 \/ s = sid)}
<1>1. CASE having = {}
  BY <1>1 DEF Found
<1>2. CASE having # {}
  <2>1. \E s \in having : \A t \in having : t <= s
    BY <1>2, NewestSession
  <2> DEFINE s == CHOOSE s \in having : \A t \in having : t <= s
  <2>2. s \in having /\ \A t \in having : t <= s
    BY <2>1
  <2>3. Found(sid, rows, none) = [session |-> s, is |-> rows[s]]
    BY <1>2 DEF Found
  <2> HIDE DEF s
  <2> QED BY <2>2, <2>3
<1> QED BY <1>1, <1>2

\* The rounds a page may be served.
Carried == [s \in Sessions |-> Payload(rounds[s])]

LEMMA RoundServed ==
  ASSUME DbTyped, RowsInv
  PROVE  LET found == Mine(Carried, NoRound).is IN
         /\ found \in Payloads
         /\ found.row <= opened /\ SameRow(found, rounds[session])
<1> DEFINE found == Mine(Carried, NoRound).is
<1>1. CASE found = NoRound
  <2>1. /\ NoRound \in Payloads /\ NoRound \in Rows /\ NoRound.row = 0 /\ NoRound.question = NoQuestion
    BY DEF Payloads, Rows, NoRound
  <2>2. rounds[session] \in Rows /\ opened \in Nat
    BY BoundsAssumption DEF DbTyped
  <2>3. rounds[session].row = 0 => rounds[session] = NoRound
    BY <2>2, PayloadFacts
  <2> QED BY <1>1, <2>1, <2>2, <2>3 DEF SameRow
<1>2. CASE \E s \in Sessions : found = Payload(rounds[s]) /\ Payload(rounds[s]) # NoRound
  <2>1. PICK s \in Sessions : found = Payload(rounds[s]) /\ Payload(rounds[s]) # NoRound
    BY <1>2
  <2>2. rounds[s] \in Rows /\ rounds[session] \in Rows /\ session \in Nat /\ s \in Nat
    BY DEF DbTyped, Sessions
  <2>3. found \in Payloads /\ found.row = rounds[s].row /\ found.question = rounds[s].question
    BY <2>1, <2>2, PayloadFacts
  <2>4. rounds[s].row # 0 /\ rounds[s].row \in Nat /\ rounds[session].row \in Nat
    BY <2>1, <2>2, PayloadFacts
  <2>5. rounds[s].row <= opened /\ rounds[s] # NoRound
    BY <2>4 DEF RowsInv, NoRound
  <2>6. s <= session
    BY <2>2, <2>5 DEF RowsInv
  <2>7. s # session => rounds[s].row # rounds[session].row
    BY <2>2, <2>4, <2>6, BoundsAssumption DEF RowsInv, DbTyped
  <2> QED BY <2>3, <2>5, <2>7 DEF SameRow
<1>3. found = NoRound \/ \E s \in Sessions : found = Payload(rounds[s]) /\ Payload(rounds[s]) # NoRound
  <2>1. found = Found(sessionId, Carried, NoRound).is
    BY DEF Mine, Found, inSession
  <2>2. CASE Found(sessionId, Carried, NoRound) = [session |-> 0, is |-> NoRound]
    BY <2>1, <2>2
  <2>3. CASE \E s \in Sessions : /\ Found(sessionId, Carried, NoRound) = [session |-> s, is |-> Carried[s]]
                                 /\ Carried[s] # NoRound
    <3>1. PICK s \in Sessions : /\ Found(sessionId, Carried, NoRound) = [session |-> s, is |-> Carried[s]]
                               /\ Carried[s] # NoRound
      BY <2>3
    <3>2. Carried[s] = Payload(rounds[s])
      BY DEF Carried
    <3> QED BY <2>1, <3>1, <3>2
  <2> QED BY <2>2, <2>3, FoundFacts
<1> QED BY <1>1, <1>2, <1>3

-----------------------------------------------------------------------------
(* ... and the pages'.                                                     *)

\* An event is of its collection's kind, and a round at the head may be shown.
LEMMA HeadFacts ==
  ASSUME FeedInv, feed # << >>
  PROVE  /\ Head(feed) = feed[1] /\ feed[1] \in Event /\ subs[feed[1].of] # "off"
         /\ page = "player" => feed[1].of \in {"game_state", "players", "rounds", "player_reveals"}
         /\ page = "listener" => feed[1].of \in {"game_state", "rounds", "score_events", "live_stats"}
         /\ feed[1].of = "game_state" => feed[1].rec \in Sessions
         /\ feed[1].of = "players" => feed[1].rec \in [session : Sessions, state : Live]
         /\ feed[1].of = "rounds" => feed[1].rec \in ToldRounds /\ feed[1].rec \in Payloads /\ Follows(feed[1].rec)
<1>1. Head(feed) = feed[1] /\ feed[1] \in Event /\ 1 \in 1 .. Len(feed)
  BY TailFacts DEF FeedInv, LinkTyped
<1>2. subs[feed[1].of] # "off"
  BY <1>1 DEF FeedInv, Asking
<1>3. feed[1].of \in Collections /\ feed[1].rec \in Records(feed[1].of)
  BY <1>1, EventFacts
<1>4. /\ page = "player" => feed[1].of \in {"game_state", "players", "rounds", "player_reveals"}
      /\ page = "listener" => feed[1].of \in {"game_state", "rounds", "score_events", "live_stats"}
  BY <1>2, <1>3 DEF FeedInv, Asking, Collections
<1>5. feed[1].of = "rounds" => Follows(feed[1].rec)
  BY <1>1 DEF FeedInv, OrderInv, Follows
<1> QED BY <1>1, <1>2, <1>3, <1>4, <1>5, RecordFacts, ToldFacts

LEMMA ArrivalKeeps ==
  ASSUME FeedInv, feed # << >>, feed' = Tail(feed),
         UNCHANGED <<session, published, players, rounds, opened, stats, events, page, pc, read, subs, missed>>,
         PageInv', player' = player \/ page = "player",
         \/ round' = round
         \/ feed[1].of = "rounds" /\ round' = feed[1].rec
  PROVE  FeedInv'
<1>1. OrderInv'
  BY OrderTail DEF FeedInv
<1>2. Followed'
  BY FollowedTail DEF FeedInv, Asking, Followed
<1>3. LinkTyped'
  BY TailFacts DEF FeedInv, LinkTyped
<1>4. DbTyped' /\ ReadTyped' /\ RowsInv'
  BY DEF FeedInv, DbTyped, ReadTyped, RowsInv
<1>5. subs["rounds"] = "off" => round' = NoRound
  BY HeadFacts DEF FeedInv, Asking
<1>6. Asking'
  BY <1>2, <1>5 DEF FeedInv, Asking, Followed
<1> QED BY <1>1, <1>3, <1>4, <1>6 DEF FeedInv, PageInv

LEMMA EventArrivesKeeps ==
  ASSUME FeedInv, EventArrives, page = "player", UNCHANGED <<page, moreVars>>
  PROVE  FeedInv'
<1> DEFINE e == feed[1]
<1>1. /\ feed # << >> /\ feed' = Tail(feed)
      /\ UNCHANGED <<session, published, players, rounds, opened, stats, events, page, pc, read, subs, missed>>
  BY DEF EventArrives, dbVars, moreVars
<1>2. Head(feed) = e /\ e.of \in {"game_state", "players", "rounds", "player_reveals"}
  BY <1>1, HeadFacts
<1>3. PageInv
  BY DEF FeedInv, PageInv
<1>4. CASE e.of = "game_state"
  <2>a. applyGameState(e.rec)
    BY <1>1, <1>2, <1>4 DEF EventArrives
  <2>b. e.rec \in Sessions
    BY <1>1, <1>4, HeadFacts
  <2>1. applyGameState(e.rec) /\ e.rec \in 0 .. MaxSessions
    BY <2>a, <2>b, BoundsAssumption DEF Sessions
  <2>2. PageInv' /\ UNCHANGED <<player, round>>
    BY <1>3, <2>1, SessionApplied DEF applyGameState
  <2> QED BY <1>1, <2>2, ArrivalKeeps
<1>5. CASE e.of = "players"
  <2>1. applyPlayer(e.rec) /\ e.rec.state \in Live
    BY <1>1, <1>2, <1>5, HeadFacts DEF EventArrives
  <2>2. PageInv' /\ UNCHANGED round
    BY <1>3, <2>1, PlayerApplied DEF applyPlayer
  <2> QED BY <1>1, <2>2, ArrivalKeeps
<1>6. CASE e.of = "rounds"
  <2>1. applyRound(e.rec) /\ e.rec \in Payloads /\ Follows(e.rec)
    BY <1>1, <1>2, <1>6, HeadFacts DEF EventArrives
  <2>2. PageInv' /\ player' = player /\ round' \in {round, e.rec}
    BY <1>3, <2>1, RoundApplied DEF applyRound
  <2> QED BY <1>1, <1>6, <2>2, ArrivalKeeps
<1>7. CASE e.of = "player_reveals"
  <2>1. applyReveal(e.rec)
    BY <1>1, <1>2, <1>7 DEF EventArrives
  <2>2. PageInv' /\ UNCHANGED <<player, round>>
    BY <1>3, <2>1, PageSame DEF applyReveal
  <2> QED BY <1>1, <2>2, ArrivalKeeps
<1> QED BY <1>2, <1>4, <1>5, <1>6, <1>7

LEMMA ListenerEventKeeps ==
  ASSUME FeedInv, ListenerEvent, page = "listener", UNCHANGED page
  PROVE  FeedInv'
<1> DEFINE e == feed[1]
<1>1. /\ feed # << >> /\ feed' = Tail(feed)
      /\ UNCHANGED <<session, published, players, rounds, opened, stats, events, page, pc, read, subs, missed>>
  BY DEF ListenerEvent, dbVars
<1>2. Head(feed) = e /\ e.of \in {"game_state", "rounds", "score_events", "live_stats"}
  BY <1>1, HeadFacts
<1>3. PageInv /\ player = "none"
  BY DEF FeedInv, PageInv, Asking
<1>4. CASE e.of = "game_state"
  <2>a. listenerSession(e.rec)
    BY <1>1, <1>2, <1>4 DEF ListenerEvent, listenerApplies
  <2>b. e.rec \in Sessions
    BY <1>1, <1>4, HeadFacts
  <2>1. listenerSession(e.rec) /\ e.rec \in 0 .. MaxSessions
    BY <2>a, <2>b, BoundsAssumption DEF Sessions
  <2>2. PageInv' /\ UNCHANGED <<player, round>>
    BY <1>3, <2>1, SessionApplied DEF listenerSession
  <2> QED BY <1>1, <2>2, ArrivalKeeps
<1>5. CASE e.of = "rounds"
  <2>1. listenerRound(e.rec) /\ e.rec \in Payloads /\ Follows(e.rec)
    BY <1>1, <1>2, <1>5, HeadFacts DEF ListenerEvent, listenerApplies
  <2>2. PageInv' /\ player' = player /\ round' \in {round, e.rec}
    BY <1>3, <2>1, ListenerRoundApplied DEF listenerRound, pageVars
  <2> QED BY <1>1, <1>5, <2>2, ArrivalKeeps
<1>6. CASE e.of \in {"score_events", "live_stats"}
  <2>1. UNCHANGED pageVars
    BY <1>1, <1>2, <1>6 DEF ListenerEvent, listenerApplies, bump, applyStats
  <2>2. PageInv' /\ UNCHANGED <<player, round>>
    BY <1>3, <2>1, PageSame DEF pageVars
  <2> QED BY <1>1, <2>2, ArrivalKeeps
<1> QED BY <1>2, <1>4, <1>5, <1>6

\* A page that reads applies what it was served, and asks for the rest.
LEMMA ReturnKeeps ==
  ASSUME FeedInv, PageInv', Asking', read' = Unread, missed' \subseteq Collections,
         UNCHANGED <<session, published, players, rounds, opened, stats, events, feed>>,
         subs' \in [Collections -> {"off", "asked", "live"}],
         \/ round' = round
         \/ pc = "rounds" /\ read # Unread /\ round' = read[1]
  PROVE  FeedInv'
<1>1. pc = "rounds" => \A i \in 1 .. Len(feed) : feed[i].of # "rounds"
  BY DEF FeedInv, Asking
<1>2. OrderInv'
  BY <1>1, OrderRead DEF FeedInv
<1>3. LinkTyped' /\ DbTyped' /\ ReadTyped' /\ RowsInv'
  BY DEF FeedInv, LinkTyped, DbTyped, ReadTyped, RowsInv
<1> QED BY <1>2, <1>3 DEF FeedInv, PageInv

LEMMA PlayerAsks ==
  ASSUME FeedInv, page = "player", page' = page, pc # "done", pc' = After(pc),
         subs' = [c \in Collections |-> IF c \in Asked THEN "asked" ELSE subs[c]],
         UNCHANGED feed, round' = round \/ pc = "rounds"
  PROVE  /\ Asking'
         /\ subs' \in [Collections -> {"off", "asked", "live"}]
<1>1. subs \in [Collections -> {"off", "asked", "live"}]
  BY DEF FeedInv, LinkTyped
<1>2. subs' \in [Collections -> {"off", "asked", "live"}]
  BY <1>1
<1>3. Followed'
  <2>1. \A c \in Collections : subs[c] # "off" => subs'[c] # "off"
    BY <1>1
  <2>2. \A i \in 1 .. Len(feed) : feed[i].of \in Collections
    BY EventFacts DEF FeedInv, LinkTyped
  <2> QED BY <2>1, <2>2 DEF FeedInv, Asking, Followed
<1>4. pc \in {"game_state", "players", "rounds"}
  BY DEF FeedInv, Asking
<1>5. /\ {"game_state", "players", "rounds", "player_reveals", "score_events", "live_stats"} = Collections
      /\ pc' = After(pc) /\ page' = "player"
  BY DEF Collections
<1>6. CASE pc = "game_state"
  <2>1. pc' = "players" /\ Asked = {"game_state"}
    BY <1>5, <1>6 DEF After, Asked
  <2>2. /\ subs'["game_state"] = "asked" /\ subs'["players"] = subs["players"]
        /\ subs'["rounds"] = subs["rounds"] /\ subs'["player_reveals"] = subs["player_reveals"]
        /\ subs'["score_events"] = subs["score_events"] /\ subs'["live_stats"] = subs["live_stats"]
    BY <1>1, <1>5, <2>1
  <2> QED BY <1>2, <1>3, <1>5, <1>6, <2>1, <2>2 DEF FeedInv, Asking, Followed
<1>7. CASE pc = "players"
  <2>1. pc' = "rounds" /\ Asked = {"players"}
    BY <1>5, <1>7 DEF After, Asked
  <2>2. /\ subs'["game_state"] = subs["game_state"] /\ subs'["players"] = "asked"
        /\ subs'["rounds"] = subs["rounds"] /\ subs'["player_reveals"] = subs["player_reveals"]
        /\ subs'["score_events"] = subs["score_events"] /\ subs'["live_stats"] = subs["live_stats"]
    BY <1>1, <1>5, <2>1
  <2> QED BY <1>2, <1>3, <1>5, <1>7, <2>1, <2>2 DEF FeedInv, Asking, Followed
<1>8. CASE pc = "rounds"
  <2>1. pc' = "done" /\ Asked = {"rounds", "player_reveals"}
    BY <1>5, <1>8 DEF After, Asked
  <2>2. /\ subs'["game_state"] = subs["game_state"] /\ subs'["players"] = subs["players"]
        /\ subs'["rounds"] = "asked" /\ subs'["player_reveals"] = "asked"
        /\ subs'["score_events"] = subs["score_events"] /\ subs'["live_stats"] = subs["live_stats"]
    BY <1>1, <1>5, <2>1
  <2> QED BY <1>2, <1>3, <1>5, <1>8, <2>1, <2>2 DEF FeedInv, Asking, Followed
<1> QED BY <1>4, <1>6, <1>7, <1>8

LEMMA ListenerPageAsks ==
  ASSUME FeedInv, page = "listener", page' = page, pc # "done", pc' = listenerAfter(pc), Asks,
         UNCHANGED <<feed, players, player>>, round' = round \/ pc = "rounds"
  PROVE  /\ Asking'
         /\ subs' \in [Collections -> {"off", "asked", "live"}]
<1>1. /\ subs \in [Collections -> {"off", "asked", "live"}]
      /\ subs' = [c \in Collections |-> IF c = pc THEN "asked" ELSE subs[c]]
  BY DEF FeedInv, LinkTyped, Asks, ListenerAsks
<1>2. subs' \in [Collections -> {"off", "asked", "live"}]
  BY <1>1
<1>3. Followed'
  <2>1. \A c \in Collections : subs[c] # "off" => subs'[c] # "off"
    BY <1>1
  <2>2. \A i \in 1 .. Len(feed) : feed[i].of \in Collections
    BY EventFacts DEF FeedInv, LinkTyped
  <2> QED BY <2>1, <2>2 DEF FeedInv, Asking, Followed
<1>4. pc \in {"game_state", "rounds", "score_events", "live_stats"}
  BY DEF FeedInv, Asking
<1>5. /\ {"game_state", "players", "rounds", "player_reveals", "score_events", "live_stats"} = Collections
      /\ page' = "listener" /\ player = "none" /\ players = [s \in Sessions |-> "none"]
  BY DEF Collections, FeedInv, Asking
<1>6. /\ subs'[pc] = "asked"
      /\ \A c \in {"game_state", "players", "rounds", "player_reveals", "score_events", "live_stats"} \ {pc} :
           subs'[c] = subs[c]
  BY <1>1, <1>4, <1>5
<1>7. CASE pc = "game_state"
  <2>1. pc' = "rounds"
    BY <1>7 DEF listenerAfter
  <2> QED BY <1>2, <1>3, <1>5, <1>6, <1>7, <2>1 DEF FeedInv, Asking, Followed
<1>8. CASE pc = "rounds"
  <2>1. pc' = "score_events"
    BY <1>8 DEF listenerAfter
  <2> QED BY <1>2, <1>3, <1>5, <1>6, <1>8, <2>1 DEF FeedInv, Asking, Followed
<1>9. CASE pc = "score_events"
  <2>1. pc' = "live_stats"
    BY <1>9 DEF listenerAfter
  <2> QED BY <1>2, <1>3, <1>5, <1>6, <1>9, <2>1 DEF FeedInv, Asking, Followed
<1>10. CASE pc = "live_stats"
  <2>1. pc' = "done"
    BY <1>10 DEF listenerAfter
  <2> QED BY <1>2, <1>3, <1>5, <1>6, <1>10, <2>1 DEF FeedInv, Asking, Followed
<1> QED BY <1>4, <1>7, <1>8, <1>9, <1>10

LEMMA ReadKeeps ==
  ASSUME FeedInv, pc' = pc, ReadTyped',
         UNCHANGED <<session, published, players, rounds, opened, stats, events, page, subs, feed, missed>>,
         UNCHANGED <<sessionId, player, round, playedRoundId, started>>,
         pc = "rounds" /\ read' # Unread => read'[1].row <= opened /\ SameRow(read'[1], rounds[session])
  PROVE  FeedInv'
<1>1. PageInv'
  BY PageSame DEF FeedInv, PageInv
<1>2. OrderInv'
  BY DEF FeedInv, OrderInv, SameRow
<1>3. LinkTyped' /\ DbTyped' /\ RowsInv' /\ Asking'
  BY DEF FeedInv, LinkTyped, DbTyped, RowsInv, Asking
<1> QED BY <1>1, <1>2, <1>3 DEF FeedInv, PageInv

\* The round a read is served.
LEMMA RoundReadServed ==
  ASSUME FeedInv, read' = <<Mine([s \in Sessions |-> Payload(rounds[s])], NoRound).is, sessionId>>
  PROVE  /\ read'[1] \in Payloads /\ read'[2] \in 0 .. MaxSessions
         /\ read'[1].row <= opened /\ SameRow(read'[1], rounds[session])
<1>1. read'[1] = Mine(Carried, NoRound).is /\ read'[2] = sessionId
  BY DEF Carried
<1> QED BY <1>1, RoundServed DEF FeedInv, PageTyped

LEMMA ReadServedKeeps ==
  ASSUME FeedInv, ReadServed, page = "player", UNCHANGED <<page, moreVars>>
  PROVE  FeedInv'
<1>1. /\ pc \in {"game_state", "players", "rounds"} /\ pc' = pc
      /\ UNCHANGED <<session, published, players, rounds, opened, stats, events, page, subs, feed, missed>>
      /\ UNCHANGED <<sessionId, player, round, playedRoundId, started>>
  BY DEF ReadServed, FeedInv, Asking, dbVars, pageVars, moreVars
<1>2. CASE pc = "game_state"
  <2>1. read'[1] = published
    BY <1>2 DEF ReadServed
  <2>2. ReadTyped'
    BY <1>1, <1>2, <2>1 DEF ReadTyped, FeedInv, DbTyped
  <2> QED BY <1>1, <1>2, <2>2, ReadKeeps
<1>3. CASE pc = "players"
  <2>1. read'[1] = players
    BY <1>3 DEF ReadServed
  <2>2. ReadTyped'
    BY <1>1, <1>3, <2>1 DEF ReadTyped, FeedInv, DbTyped
  <2> QED BY <1>1, <1>3, <2>2, ReadKeeps
<1>4. CASE pc = "rounds"
  <2>1. read' = <<Mine([s \in Sessions |-> Payload(rounds[s])], NoRound).is, sessionId>>
    BY <1>4 DEF ReadServed
  <2>2. ReadTyped'
    BY <1>1, <1>4, <2>1, RoundReadServed DEF ReadTyped
  <2> QED BY <1>1, <1>4, <2>1, <2>2, RoundReadServed, ReadKeeps
<1> QED BY <1>1, <1>2, <1>3, <1>4

LEMMA ListenerReadServedKeeps ==
  ASSUME FeedInv, ListenerReadServed, page = "listener", UNCHANGED page
  PROVE  FeedInv'
<1>1. /\ pc \in {"game_state", "rounds", "score_events", "live_stats"} /\ pc' = pc
      /\ UNCHANGED <<session, published, players, rounds, opened, stats, events, page, subs, feed, missed>>
      /\ UNCHANGED <<sessionId, player, round, playedRoundId, started>>
  BY DEF ListenerReadServed, FeedInv, Asking, dbVars, pageVars, moreVars
<1>2. CASE pc = "game_state"
  <2>1. read'[1] = published
    BY <1>2 DEF ListenerReadServed
  <2>2. ReadTyped'
    BY <1>1, <1>2, <2>1 DEF ReadTyped, FeedInv, DbTyped
  <2> QED BY <1>1, <1>2, <2>2, ReadKeeps
<1>3. CASE pc = "live_stats"
  <2>1. read'[1] = stats
    BY <1>3 DEF ListenerReadServed
  <2>2. ReadTyped'
    BY <1>1, <1>3, <2>1 DEF ReadTyped, FeedInv, DbTyped
  <2> QED BY <1>1, <1>3, <2>2, ReadKeeps
<1>4. CASE pc = "score_events"
  <2>1. ReadTyped'
    BY <1>1, <1>4 DEF ReadTyped
  <2> QED BY <1>1, <1>4, <2>1, ReadKeeps
<1>5. CASE pc = "rounds"
  <2>1. read' = <<Mine([s \in Sessions |-> Payload(rounds[s])], NoRound).is, sessionId>>
    BY <1>5 DEF ListenerReadServed
  <2>2. ReadTyped'
    BY <1>1, <1>5, <2>1, RoundReadServed DEF ReadTyped
  <2> QED BY <1>1, <1>5, <2>1, <2>2, RoundReadServed, ReadKeeps
<1> QED BY <1>1, <1>2, <1>3, <1>4, <1>5

\* A page shows no round before it has read one.
LEMMA ReadFollows ==
  ASSUME FeedInv, pc = "rounds", read # Unread
  PROVE  read[1] \in Payloads /\ Follows(read[1])
<1>1. read[1] \in Payloads /\ round = NoRound
  BY DEF FeedInv, ReadTyped, Asking
<1>2. NoRound \in Payloads /\ NoRound.row = 0 /\ read[1].row \in Nat
  BY <1>1, PayloadsFacts DEF Payloads, NoRound
<1> QED BY <1>1, <1>2 DEF Follows, SameRow

\* A player's page finds a row of its own, or none.
LEMMA SeatFound ==
  ASSUME NEW rows \in [Sessions -> States], NEW sid, Found(sid, rows, "none").is # "none"
  PROVE  Found(sid, rows, "none").is \in Live
BY FoundFacts DEF States

LEMMA ReadReturnsKeeps ==
  ASSUME FeedInv, ReadReturns, page = "player", UNCHANGED <<page, moreVars>>
  PROVE  FeedInv'
<1>1. /\ read # Unread /\ read' = Unread /\ pc' = After(pc)
      /\ subs' = [c \in Collections |-> IF c \in Asked THEN "asked" ELSE subs[c]]
      /\ UNCHANGED <<session, published, players, rounds, opened, stats, events, feed>>
      /\ missed' \in {missed, missed \cup {pc}}
  BY DEF ReadReturns, dbVars, moreVars
<1>2. pc \in {"game_state", "players", "rounds", "done"} /\ PageInv
  BY DEF FeedInv, Asking, PageInv
<1>3. pc # "done"
  BY <1>1 DEF FeedInv, ReadTyped
<1>4. missed' \subseteq Collections
  BY <1>1, <1>2, <1>3 DEF FeedInv, LinkTyped, Collections
<1>5. CASE pc = "game_state"
  <2>1. applyGameState(read[1]) /\ read[1] \in 0 .. MaxSessions
    BY <1>1, <1>5 DEF ReadReturns, FeedInv, ReadTyped
  <2>2. PageInv' /\ round' = round
    BY <1>2, <2>1, SessionApplied DEF applyGameState
  <2>3. Asking' /\ subs' \in [Collections -> {"off", "asked", "live"}]
    BY <1>1, <1>3, <2>2, PlayerAsks
  <2> QED BY <1>1, <1>4, <2>2, <2>3, ReturnKeeps
<1>6. CASE pc = "players"
  <2> DEFINE mine == Mine(read[1], "none")
  <2>1. IF mine.is = "none" THEN UNCHANGED pageVars
        ELSE applyPlayer([session |-> mine.session, state |-> mine.is])
    BY <1>6 DEF ReadReturns
  <2>2. mine = Found(sessionId, read[1], "none") /\ read[1] \in [Sessions -> States]
    BY <1>1, <1>6 DEF Mine, Found, inSession, FeedInv, ReadTyped
  <2>3. mine.is # "none" => mine.is \in Live
    BY <2>2, SeatFound
  <2> HIDE DEF mine
  <2>4. CASE mine.is = "none"
    <3>1. PageInv' /\ round' = round
      BY <1>2, <2>1, <2>4, PageSame DEF pageVars
    <3>2. Asking' /\ subs' \in [Collections -> {"off", "asked", "live"}]
      BY <1>1, <1>3, <3>1, PlayerAsks
    <3> QED BY <1>1, <1>4, <3>1, <3>2, ReturnKeeps
  <2>5. CASE mine.is # "none"
    <3> DEFINE rec == [session |-> mine.session, state |-> mine.is]
    <3>1. applyPlayer(rec) /\ rec.state \in Live
      BY <2>1, <2>3, <2>5
    <3> HIDE DEF rec
    <3>2. PageInv' /\ round' = round
      BY <1>2, <3>1, PlayerApplied DEF applyPlayer
    <3>3. Asking' /\ subs' \in [Collections -> {"off", "asked", "live"}]
      BY <1>1, <1>3, <3>2, PlayerAsks
    <3> QED BY <1>1, <1>4, <3>2, <3>3, ReturnKeeps
  <2> QED BY <2>4, <2>5
<1>7. CASE pc = "rounds"
  <2>1. applyRound(read[1])
    BY <1>7 DEF ReadReturns
  <2>2. PageInv' /\ round' \in {round, read[1]}
    BY <1>1, <1>2, <1>7, <2>1, ReadFollows, RoundApplied DEF applyRound
  <2>3. Asking' /\ subs' \in [Collections -> {"off", "asked", "live"}]
    BY <1>1, <1>3, <1>7, PlayerAsks
  <2> QED BY <1>1, <1>4, <1>7, <2>2, <2>3, ReturnKeeps
<1> QED BY <1>2, <1>3, <1>5, <1>6, <1>7

LEMMA ListenerReadReturnsKeeps ==
  ASSUME FeedInv, ListenerReadReturns, page = "listener", UNCHANGED page
  PROVE  FeedInv'
<1>1. /\ read # Unread /\ read' = Unread /\ pc' = listenerAfter(pc) /\ Asks
      /\ UNCHANGED <<session, published, players, rounds, opened, stats, events, feed>>
      /\ missed' \in {missed, missed \cup {pc}}
  BY DEF ListenerReadReturns, dbVars
<1>2. /\ pc \in {"game_state", "rounds", "score_events", "live_stats", "done"} /\ PageInv
      /\ player = "none"
  BY DEF FeedInv, Asking, PageInv
<1>3. pc # "done"
  BY <1>1 DEF FeedInv, ReadTyped
<1>4. missed' \subseteq Collections
  BY <1>1, <1>2, <1>3 DEF FeedInv, LinkTyped, Collections
<1>5. CASE pc = "game_state"
  <2>1. listenerSession(read[1]) /\ read[1] \in 0 .. MaxSessions
    BY <1>1, <1>5 DEF ListenerReadReturns, listenerApplies, FeedInv, ReadTyped
  <2>2. PageInv' /\ UNCHANGED <<player, round>>
    BY <1>2, <2>1, SessionApplied DEF listenerSession
  <2>3. Asking' /\ subs' \in [Collections -> {"off", "asked", "live"}]
    BY <1>1, <1>3, <2>2, ListenerPageAsks
  <2> QED BY <1>1, <1>4, <2>2, <2>3, ReturnKeeps
<1>6. CASE pc \in {"score_events", "live_stats"}
  <2>1. UNCHANGED pageVars
    BY <1>6 DEF ListenerReadReturns, listenerApplies, applyStats
  <2>2. PageInv' /\ UNCHANGED <<player, round>>
    BY <1>2, <2>1, PageSame DEF pageVars
  <2>3. Asking' /\ subs' \in [Collections -> {"off", "asked", "live"}]
    BY <1>1, <1>3, <2>2, ListenerPageAsks
  <2> QED BY <1>1, <1>4, <2>2, <2>3, ReturnKeeps
<1>7. CASE pc = "rounds"
  <2>1. listenerRound(read[1])
    BY <1>7 DEF ListenerReadReturns, listenerApplies
  <2>2. PageInv' /\ player' = player /\ round' \in {round, read[1]}
    BY <1>1, <1>2, <1>7, <2>1, ReadFollows, ListenerRoundApplied DEF listenerRound, pageVars
  <2>3. Asking' /\ subs' \in [Collections -> {"off", "asked", "live"}]
    BY <1>1, <1>3, <1>7, <2>2, ListenerPageAsks
  <2> QED BY <1>1, <1>4, <1>7, <2>2, <2>3, ReturnKeeps
<1> QED BY <1>2, <1>3, <1>5, <1>6, <1>7

LEMMA ReadFailsKeeps ==
  ASSUME FeedInv, UNCHANGED page,
         \/ page = "player" /\ ReadFails /\ UNCHANGED moreVars
         \/ page = "listener" /\ ListenerReadFails
  PROVE  FeedInv'
<1>1. /\ pc # "done" /\ read' = Unread /\ missed' = missed \cup {pc}
      /\ UNCHANGED <<session, published, players, rounds, opened, stats, events, feed>>
      /\ UNCHANGED <<sessionId, player, round, playedRoundId, started>>
  BY DEF ReadFails, ListenerReadFails, dbVars, pageVars, moreVars
<1>2. missed' \subseteq Collections
  BY <1>1 DEF FeedInv, LinkTyped, Collections, Asking
<1>3. Asking' /\ subs' \in [Collections -> {"off", "asked", "live"}]
  BY <1>1, PlayerAsks, ListenerPageAsks DEF ReadFails, ListenerReadFails
<1>4. PageInv'
  BY <1>1, PageSame DEF FeedInv, PageInv
<1> QED BY <1>1, <1>2, <1>3, <1>4, ReturnKeeps

LEMMA SubscriptionsLiveKeeps ==
  ASSUME FeedInv, SubscriptionsLive, UNCHANGED <<page, moreVars>>
  PROVE  FeedInv'
<1>1. /\ subs' = [c \in Collections |-> IF subs[c] = "asked" THEN "live" ELSE subs[c]]
      /\ UNCHANGED <<session, published, players, rounds, opened, stats, events, page, pc, read, feed, missed>>
      /\ UNCHANGED <<sessionId, player, round, playedRoundId, started>>
  BY DEF SubscriptionsLive, dbVars, pageVars, moreVars
<1>2. subs \in [Collections -> {"off", "asked", "live"}]
  BY DEF FeedInv, LinkTyped
<1>3. /\ subs' \in [Collections -> {"off", "asked", "live"}]
      /\ \A c \in Collections : subs'[c] = "off" <=> subs[c] = "off"
      /\ subs'["player_reveals"] = "live" <=> subs["player_reveals"] \in {"asked", "live"}
      /\ subs'["rounds"] = "live" <=> subs["rounds"] \in {"asked", "live"}
  BY <1>1, <1>2 DEF Collections
<1>4. Asking'
  <2>1. \A i \in 1 .. Len(feed) : feed[i].of \in Collections
    BY EventFacts DEF FeedInv, LinkTyped
  <2>2. Followed'
    BY <1>1, <1>3, <2>1 DEF FeedInv, Asking, Followed
  <2>3. subs["player_reveals"] = subs["rounds"] => subs'["player_reveals"] = subs'["rounds"]
    BY <1>1 DEF Collections
  <2>4. \A c \in {"game_state", "players", "rounds", "player_reveals", "score_events", "live_stats"} :
          subs'[c] = "off" <=> subs[c] = "off"
    BY <1>3 DEF Collections
  <2> QED BY <1>1, <2>2, <2>3, <2>4 DEF FeedInv, Asking, Followed
<1>5. LinkTyped' /\ DbTyped' /\ ReadTyped' /\ RowsInv'
  BY <1>1, <1>3 DEF FeedInv, LinkTyped, DbTyped, ReadTyped, RowsInv
<1>6. PageInv'
  BY <1>1, PageSame DEF FeedInv, PageInv
<1>7. OrderInv'
  BY <1>1 DEF FeedInv, OrderInv, SameRow
<1> QED BY <1>4, <1>5, <1>6, <1>7 DEF FeedInv, PageInv

LEMMA ConnectionDropsKeeps ==
  ASSUME FeedInv, ConnectionDrops, UNCHANGED <<page, moreVars>>
  PROVE  FeedInv'
<1>1. /\ subs' = [c \in Collections |-> IF subs[c] = "live" THEN "asked" ELSE subs[c]]
      /\ feed' = << >> /\ missed' = missed \cup {feed[i].of : i \in DOMAIN feed}
      /\ UNCHANGED <<session, published, players, rounds, opened, stats, events, page, pc, read>>
      /\ UNCHANGED <<sessionId, player, round, playedRoundId, started>>
  BY DEF ConnectionDrops, dbVars, pageVars, moreVars
<1>2. subs \in [Collections -> {"off", "asked", "live"}] /\ feed \in Seq(Event)
  BY DEF FeedInv, LinkTyped
<1>3. /\ subs' \in [Collections -> {"off", "asked", "live"}]
      /\ \A c \in Collections : subs'[c] = "off" <=> subs[c] = "off"
  BY <1>1, <1>2
<1>4. missed' \subseteq Collections
  BY <1>1, <1>2, EventFacts DEF FeedInv, LinkTyped
<1>5. Asking'
  <2>1. Followed'
    BY <1>1 DEF Followed
  <2>2. subs["player_reveals"] = subs["rounds"] => subs'["player_reveals"] = subs'["rounds"]
    BY <1>1 DEF Collections
  <2>3. \A c \in {"game_state", "players", "rounds", "player_reveals", "score_events", "live_stats"} :
          subs'[c] = "off" <=> subs[c] = "off"
    BY <1>3 DEF Collections
  <2> QED BY <1>1, <2>1, <2>2, <2>3 DEF FeedInv, Asking, Followed
<1>6. LinkTyped' /\ DbTyped' /\ ReadTyped' /\ RowsInv'
  BY <1>1, <1>3, <1>4 DEF FeedInv, LinkTyped, DbTyped, ReadTyped, RowsInv
<1>7. PageInv'
  BY <1>1, PageSame DEF FeedInv, PageInv
<1>8. OrderInv'
  BY <1>1 DEF FeedInv, OrderInv, SameRow
<1> QED BY <1>5, <1>6, <1>7, <1>8 DEF FeedInv, PageInv

-----------------------------------------------------------------------------
(* What is under way, as the feed grows and is taken from.                 *)

LEMMA AppendPrefix ==
  ASSUME NEW f \in Seq(Event), NEW e \in Event, NEW n \in 0 .. Len(f),
         NEW c, NEW rec, NEW sid, NEW s
  PROVE  /\ LastIs(Append(f, e), n, c, rec) <=> LastIs(f, n, c, rec)
         /\ Silent(Append(f, e), n, c) <=> Silent(f, n, c)
         /\ Comes(Append(f, e), n, sid, s) <=> Comes(f, n, sid, s)
<1>1. \A i \in 1 .. n : i \in 1 .. Len(f) /\ Append(f, e)[i] = f[i]
  BY AppendFacts
<1> HIDE DEF Event
<1>2. LastIs(Append(f, e), n, c, rec) <=> LastIs(f, n, c, rec)
  BY <1>1 DEF LastIs
<1>3. Silent(Append(f, e), n, c) <=> Silent(f, n, c)
  BY <1>1 DEF Silent
<1>4. Comes(Append(f, e), n, sid, s) <=> Comes(f, n, sid, s)
  BY <1>1 DEF Comes
<1> QED BY <1>2, <1>3, <1>4

\* An event of c is the last of c; one of another collection changes nothing.
LEMMA AppendLast ==
  ASSUME NEW f \in Seq(Event), NEW e \in Event, NEW c, NEW rec
  PROVE  LET g == Append(f, e) IN
         /\ e.of = c /\ e.rec = rec => LastIs(g, Len(g), c, rec)
         /\ e.of # c /\ LastIs(f, Len(f), c, rec) => LastIs(g, Len(g), c, rec)
         /\ e.of # c /\ Silent(f, Len(f), c) => Silent(g, Len(g), c)
<1> DEFINE g == Append(f, e)
<1>1. /\ Len(f) \in Nat /\ Len(g) = Len(f) + 1
      /\ \A i \in 1 .. Len(f) : g[i] = f[i]
      /\ g[Len(f) + 1] = e
  BY AppendFacts
<1> HIDE DEF g
<1>2. ASSUME e.of = c, e.rec = rec PROVE LastIs(g, Len(g), c, rec)
  <2>1. Len(f) + 1 \in 1 .. Len(g) /\ \A j \in 1 .. Len(g) : ~(Len(f) + 1 < j)
    BY <1>1
  <2> QED BY <1>1, <1>2, <2>1 DEF LastIs
<1>3. ASSUME e.of # c, LastIs(f, Len(f), c, rec) PROVE LastIs(g, Len(g), c, rec)
  <2>1. PICK i \in 1 .. Len(f) : /\ f[i].of = c /\ f[i].rec = rec
                                 /\ \A j \in 1 .. Len(f) : i < j => f[j].of # c
    BY <1>3 DEF LastIs
  <2>2. i \in 1 .. Len(g) /\ g[i].of = c /\ g[i].rec = rec
    BY <1>1, <2>1
  <2>3. \A j \in 1 .. Len(g) : i < j => g[j].of # c
    BY <1>1, <1>3, <2>1
  <2> QED BY <2>2, <2>3 DEF LastIs
<1>4. ASSUME e.of # c, Silent(f, Len(f), c) PROVE Silent(g, Len(g), c)
  BY <1>1, <1>4 DEF Silent
<1> QED BY <1>2, <1>3, <1>4 DEF g

LEMMA AppendComes ==
  ASSUME NEW f \in Seq(Event), NEW e \in Event, NEW sid, NEW s,
         e.of # "game_state", Comes(Append(f, e), Len(Append(f, e)), sid, s)
  PROVE  Comes(f, Len(f), sid, s)
<1> DEFINE g == Append(f, e)
<1>1. /\ Len(f) \in Nat /\ Len(g) = Len(f) + 1
      /\ \A i \in 1 .. Len(f) : g[i] = f[i]
      /\ g[Len(f) + 1] = e
  BY AppendFacts
<1>2. Comes(g, Len(g), sid, s)
  OBVIOUS
<1> HIDE DEF g
<1>3. \A j \in 1 .. Len(g) : g[j].of = "game_state" => j \in 1 .. Len(f) /\ g[j] = f[j]
  BY <1>1
<1> QED BY <1>2, <1>3 DEF Comes

LEMMA TailLast ==
  ASSUME NEW f \in Seq(Event), f # << >>, NEW n \in 1 .. Len(f), NEW c, NEW rec
  PROVE  LET g == Tail(f) IN
         /\ LastIs(f, n, c, rec) =>
              \/ LastIs(g, n - 1, c, rec)
              \/ f[1].of = c /\ f[1].rec = rec /\ Silent(g, n - 1, c)
         /\ Silent(f, n, c) => Silent(g, n - 1, c) /\ f[1].of # c
<1> DEFINE g == Tail(f)
<1>1. /\ n \in Nat /\ 1 \in 1 .. n
      /\ \A i \in 1 .. n - 1 : g[i] = f[i + 1] /\ i + 1 \in 1 .. n
  BY TailFacts
<1> HIDE DEF g
<1>2. ASSUME LastIs(f, n, c, rec)
      PROVE  \/ LastIs(g, n - 1, c, rec)
             \/ f[1].of = c /\ f[1].rec = rec /\ Silent(g, n - 1, c)
  <2>1. PICK i \in 1 .. n : /\ f[i].of = c /\ f[i].rec = rec
                            /\ \A j \in 1 .. n : i < j => f[j].of # c
    BY <1>2 DEF LastIs
  <2>2. CASE i = 1
    <3>1. \A j \in 1 .. n - 1 : g[j].of # c
      BY <1>1, <2>1, <2>2
    <3> QED BY <2>1, <2>2, <3>1 DEF Silent
  <2>3. CASE i # 1
    <3>1. i - 1 \in 1 .. n - 1 /\ g[i - 1] = f[i]
      BY <1>1, <2>3
    <3>2. \A j \in 1 .. n - 1 : i - 1 < j => g[j].of # c
      <4> SUFFICES ASSUME NEW j \in 1 .. n - 1, i - 1 < j PROVE g[j].of # c
        OBVIOUS
      <4>1. g[j] = f[j + 1] /\ j + 1 \in 1 .. n /\ i < j + 1
        BY <1>1
      <4> QED BY <2>1, <4>1
    <3> QED BY <2>1, <3>1, <3>2 DEF LastIs
  <2> QED BY <2>2, <2>3
<1>3. ASSUME Silent(f, n, c) PROVE Silent(g, n - 1, c) /\ f[1].of # c
  BY <1>1, <1>3 DEF Silent
<1> QED BY <1>2, <1>3 DEF g

\* A page comes to a session after an event it applied as it would have before.
LEMMA TailComes ==
  ASSUME NEW f \in Seq(Event), f # << >>, NEW n \in 1 .. Len(f), NEW sid, NEW s, NEW next,
         IF f[1].of = "game_state" THEN next = f[1].rec ELSE next = sid,
         Comes(Tail(f), n - 1, next, s)
  PROVE  Comes(f, n, sid, s)
<1> DEFINE g == Tail(f)
<1>1. /\ n \in Nat /\ 1 \in 1 .. n /\ f[1] \in Event
      /\ \A i \in 1 .. n - 1 : g[i] = f[i + 1] /\ i + 1 \in 1 .. n
  BY TailFacts
<1>2. Comes(g, n - 1, next, s)
  OBVIOUS
<1> HIDE DEF g
<1>3. CASE \E j \in 1 .. n - 1 : g[j].of = "game_state" /\ g[j].rec = s
  BY <1>1, <1>3 DEF Comes
<1>4. CASE next \in {0, s}
  <2>1. CASE f[1].of = "game_state"
    <3>1. f[1].rec \in Sessions
      BY <1>1, <2>1, EventFacts, RecordFacts
    <3>2. f[1].rec = s
      BY <1>4, <2>1, <3>1 DEF Sessions
    <3> QED BY <1>1, <2>1, <3>2 DEF Comes
  <2>2. CASE f[1].of # "game_state"
    BY <1>4, <2>2 DEF Comes
  <2> QED BY <2>1, <2>2
<1> QED BY <1>2, <1>3, <1>4 DEF Comes

-----------------------------------------------------------------------------
(* HeardInv while the runner writes.                                       *)

\* An event told comes last.
LEMMA ToldLast ==
  ASSUME LinkTyped, NEW c \in Collections, NEW rec \in Records(c),
         feed' = Append(feed, [of |-> c, rec |-> rec])
  PROVE  /\ [of |-> c, rec |-> rec] \in Event /\ feed \in Seq(Event)
         /\ Len(feed) \in Nat /\ Len(feed') = Len(feed) + 1
         /\ \A i \in 1 .. Len(feed) : feed'[i] = feed[i]
         /\ feed'[Len(feed) + 1] = [of |-> c, rec |-> rec]
<1>1. [of |-> c, rec |-> rec] \in Event /\ feed \in Seq(Event)
  BY EventMade DEF LinkTyped
<1> QED BY <1>1, AppendFacts

\* What is written of a session names it.
LEMMA SessionOf ==
  ASSUME NEW e \in Event, e.of \in OfSession
  PROVE  e.rec.session \in Sessions
<1>1. e.rec \in Records(e.of)
  BY EventFacts
<1>2. CASE e.of = "players"
  <2>1. e.rec \in Records("players")
    BY <1>1, <1>2
  <2>2. e.rec \in [session : Sessions, state : Live]
    BY <2>1, RecordFacts
  <2> QED BY <2>2
<1>3. CASE e.of = "rounds"
  BY <1>1, <1>3, RecordFacts, ToldFacts
<1>4. CASE e.of = "player_reveals"
  <2>1. e.rec \in Records("player_reveals")
    BY <1>1, <1>4
  <2>2. e.rec \in [session : Sessions, question : Questions]
    BY <2>1, RecordFacts
  <2> QED BY <2>2
<1> QED BY <1>2, <1>3, <1>4 DEF OfSession

LEMMA AnnouncedWrite ==
  ASSUME FeedInv, AnnouncedInv, NEW c \in Collections, NEW rec \in Records(c), Tells(c, rec),
         session' \in Sessions, published' = session', session <= session',
         c \in OfSession => rec.session <= session',
         c = "game_state" =>
           \A i \in 1 .. Len(feed) : feed[i].of \in OfSession => feed[i].rec.session < rec
  PROVE  AnnouncedInv'
<1>1. \A i \in 1 .. Len(feed) : feed[i].of \in OfSession => feed[i].rec.session \in Sessions
  BY SessionOf DEF FeedInv, LinkTyped
<1>2. session \in Nat /\ session' \in Nat
  BY DEF FeedInv, DbTyped, Sessions
<1>3. \A i \in 1 .. Len(feed) : feed[i].of \in OfSession =>
        /\ feed[i].rec.session <= session'
        /\ \A j \in 1 .. Len(feed) : i < j /\ feed[j].of = "game_state" => feed[j].rec > feed[i].rec.session
  BY <1>1, <1>2 DEF AnnouncedInv, Sessions
<1>4. CASE feed' = feed
  BY <1>3, <1>4 DEF AnnouncedInv
<1>5. CASE feed' = Append(feed, [of |-> c, rec |-> rec])
  <2>1. /\ Len(feed) \in Nat /\ Len(feed') = Len(feed) + 1
        /\ \A i \in 1 .. Len(feed) : feed'[i] = feed[i]
        /\ feed'[Len(feed) + 1] = [of |-> c, rec |-> rec]
    BY <1>5, ToldLast DEF FeedInv
  <2>2. ASSUME NEW i \in 1 .. Len(feed'), feed'[i].of \in OfSession
        PROVE  feed'[i].rec.session <= session'
    <3>1. CASE i \in 1 .. Len(feed)
      BY <1>3, <2>1, <2>2, <3>1
    <3>2. CASE i = Len(feed) + 1
      <4>1. feed'[i].of = c /\ feed'[i].rec = rec
        BY <2>1, <3>2
      <4> QED BY <4>1, <2>2
    <3> QED BY <2>1, <3>1, <3>2
  <2>3. ASSUME NEW i \in 1 .. Len(feed'), feed'[i].of \in OfSession,
               NEW j \in 1 .. Len(feed'), i < j, feed'[j].of = "game_state"
        PROVE  feed'[j].rec > feed'[i].rec.session
    <3>1. i \in 1 .. Len(feed) /\ feed'[i] = feed[i]
      BY <2>1, <2>3
    <3>2. CASE j \in 1 .. Len(feed)
      BY <1>3, <2>1, <2>3, <3>1, <3>2
    <3>3. CASE j = Len(feed) + 1
      <4>1. feed'[j].of = c /\ feed'[j].rec = rec
        BY <2>1, <3>3
      <4> QED BY <4>1, <2>3, <3>1
    <3> QED BY <2>1, <3>2, <3>3
  <2> QED BY <2>2, <2>3 DEF AnnouncedInv
<1> QED BY <1>4, <1>5 DEF Tells

LEMMA SeatOther ==
  ASSUME LinkTyped, SeatInv, NEW c \in Collections \ {"players", "game_state"}, NEW rec \in Records(c),
         Tells(c, rec), UNCHANGED <<session, players, player, sessionId, pc, read, subs>>,
         "players" \in missed => "players" \in missed'
  PROVE  SeatInv'
<1> DEFINE mine == [session |-> session, state |-> players[session]]
<1>1. SeatHeard => SeatHeard'
  <2>1. CASE feed' = feed
    BY <2>1 DEF SeatHeard
  <2>2. CASE feed' = Append(feed, [of |-> c, rec |-> rec])
    <3> DEFINE e == [of |-> c, rec |-> rec]
    <3>1. e \in Event /\ feed \in Seq(Event) /\ e.of # "players" /\ e.of # "game_state"
      BY <2>2, ToldLast
    <3>2. feed' = Append(feed, e)
      BY <2>2
    <3> HIDE DEF e
    <3>3. LastIs(feed, Len(feed), "players", mine) => LastIs(feed', Len(feed'), "players", mine)
      BY <3>1, <3>2, AppendLast
    <3>4. Silent(feed, Len(feed), "players") => Silent(feed', Len(feed'), "players")
      BY <3>1, <3>2, AppendLast
    <3>5. Comes(feed', Len(feed'), sessionId, session) => Comes(feed, Len(feed), sessionId, session)
      BY <3>1, <3>2, AppendComes
    <3> QED BY <3>3, <3>4, <3>5 DEF SeatHeard
  <2> QED BY <2>1, <2>2 DEF Tells
<1> QED BY <1>1 DEF SeatInv

LEMMA RoundOther ==
  ASSUME LinkTyped, RoundInv, NEW c \in Collections \ {"rounds", "game_state"}, NEW rec \in Records(c),
         Tells(c, rec), UNCHANGED <<session, rounds, round, sessionId, pc, read, subs>>,
         "rounds" \in missed => "rounds" \in missed'
  PROVE  RoundInv'
<1>1. Newest' = Newest
  BY DEF Newest, Payload
<1>2. RoundHeard => RoundHeard'
  <2>1. CASE feed' = feed
    BY <1>1, <2>1 DEF RoundHeard
  <2>2. CASE feed' = Append(feed, [of |-> c, rec |-> rec])
    <3> DEFINE e == [of |-> c, rec |-> rec]
    <3>1. e \in Event /\ feed \in Seq(Event) /\ e.of # "rounds" /\ e.of # "game_state"
      BY <2>2, ToldLast
    <3>2. feed' = Append(feed, e)
      BY <2>2
    <3> HIDE DEF e
    <3>3. LastIs(feed, Len(feed), "rounds", Newest) => LastIs(feed', Len(feed'), "rounds", Newest)
      BY <3>1, <3>2, AppendLast
    <3>4. Silent(feed, Len(feed), "rounds") => Silent(feed', Len(feed'), "rounds")
      BY <3>1, <3>2, AppendLast
    <3>5. Comes(feed', Len(feed'), sessionId, session) => Comes(feed, Len(feed), sessionId, session)
      BY <3>1, <3>2, AppendComes
    <3> QED BY <1>1, <3>3, <3>4, <3>5 DEF RoundHeard
  <2> QED BY <2>1, <2>2 DEF Tells
<1> QED BY <1>1, <1>2 DEF RoundInv

\* The place of an answer does not change with what comes after it.
LEMMA PlacedPrefix ==
  ASSUME NEW f \in Seq(Event), NEW e \in Event, NEW n \in 0 .. Len(f), NEW a, NEW sid, NEW shown,
         Placed(f, n, a, sid, shown)
  PROVE  Placed(Append(f, e), n, a, sid, shown)
<1>1. CASE \E rec \in ToldRounds :
             rec.session = a.session /\ rec.question = a.question /\ LastIs(f, n, "rounds", rec)
  BY <1>1, AppendPrefix DEF Placed
<1>2. CASE Silent(f, n, "rounds") /\ (Comes(f, n, sid, a.session) => shown.question = a.question)
  BY <1>2, AppendPrefix DEF Placed
<1> QED BY <1>1, <1>2 DEF Placed

LEMMA AnswerOther ==
  ASSUME LinkTyped, AnswerInv, NEW c \in Collections, NEW rec \in Records(c), Tells(c, rec),
         UNCHANGED <<round, yourAnswer, sessionId, page>>, astray \subseteq astray',
         c = "player_reveals" => rec.question \in astray' \/ Placed(feed, Len(feed), rec, sessionId, round)
  PROVE  AnswerInv'
<1>1. CASE feed' = feed
  BY <1>1 DEF AnswerInv
<1>2. CASE feed' = Append(feed, [of |-> c, rec |-> rec])
  <2> DEFINE e == [of |-> c, rec |-> rec]
  <2>1. /\ e \in Event /\ feed \in Seq(Event)
        /\ Len(feed) \in Nat /\ Len(feed') = Len(feed) + 1
        /\ \A i \in 1 .. Len(feed) : feed'[i] = feed[i]
        /\ feed'[Len(feed) + 1] = e /\ e.of = c /\ e.rec = rec
    BY <1>2, ToldLast
  <2>2. feed' = Append(feed, e)
    BY <1>2
  <2> HIDE DEF e
  <2>3. ASSUME NEW i \in 1 .. Len(feed'), feed'[i].of = "player_reveals"
        PROVE  feed'[i].rec.question \in astray' \/ Placed(feed', i - 1, feed'[i].rec, sessionId, round)
    <3>1. CASE i \in 1 .. Len(feed)
      <4>1. feed'[i] = feed[i] /\ i - 1 \in 0 .. Len(feed)
        BY <2>1, <3>1
      <4>2. feed[i].rec.question \in astray \/ Placed(feed, i - 1, feed[i].rec, sessionId, round)
        BY <2>3, <3>1, <4>1 DEF AnswerInv
      <4>3. Placed(feed, i - 1, feed[i].rec, sessionId, round) => Placed(feed', i - 1, feed[i].rec, sessionId, round)
        BY <2>1, <2>2, <4>1, PlacedPrefix
      <4> QED BY <4>1, <4>2, <4>3
    <3>2. CASE i = Len(feed) + 1
      <4>1. feed'[i] = e /\ i - 1 = Len(feed) /\ i - 1 \in 0 .. Len(feed) /\ c = "player_reveals" /\ feed'[i].rec = rec
        BY <2>1, <2>3, <3>2
      <4>2. Placed(feed, Len(feed), rec, sessionId, round) => Placed(feed', Len(feed), rec, sessionId, round)
        BY <2>1, <2>2, <4>1, PlacedPrefix
      <4> QED BY <4>1, <4>2
    <3> QED BY <2>1, <3>1, <3>2
  <2>4. yourAnswer' \in {NoQuestion, round'.question} \cup astray' /\ (page' = "listener" => yourAnswer' = NoQuestion)
    BY DEF AnswerInv
  <2> QED BY <2>3, <2>4 DEF AnswerInv
<1> QED BY <1>1, <1>2 DEF Tells

\* A round is written once its session is announced.
LEMMA RoundIsAnnounced ==
  ASSUME FeedInv, AnnouncedInv, rounds[session].state # "none"
  PROVE  published = session
BY DEF AnnouncedInv, NoRound

LEMMA NewSessionHeard ==
  ASSUME FeedInv, HeardInv, Lagging = FALSE, NewSession, UNCHANGED <<page, moreVars>>
  PROVE  HeardInv'
<1>1. /\ session' = session + 1 /\ session' \in Sessions /\ session \in Sessions
      /\ UNCHANGED <<players, rounds, opened, page, pc, read, subs, astray>>
      /\ UNCHANGED <<sessionId, player, round, yourAnswer>>
      /\ published' = session'
      /\ Told("game_state", session')
  BY BoundsAssumption DEF NewSession, FeedInv, DbTyped, Sessions, pageVars, moreVars
<1>2. /\ Tells("game_state", session')
      /\ "players" \in missed <=> "players" \in missed'
      /\ "rounds" \in missed <=> "rounds" \in missed'
  BY <1>1 DEF Told, Tells
<1>3. "game_state" \in Collections /\ session' \in Records("game_state") /\ "game_state" \notin OfSession
  BY <1>1, RecordFacts DEF Collections, OfSession
<1>4. session < session' /\ session \in Nat /\ session' \in Nat
  BY <1>1 DEF Sessions
<1>5. AnnouncedInv'
  <2>1. ASSUME NEW i \in 1 .. Len(feed), feed[i].of \in OfSession PROVE feed[i].rec.session < session'
    <3>1. feed[i].rec.session \in Sessions
      BY <2>1, SessionOf DEF FeedInv, LinkTyped
    <3>2. feed[i].rec.session <= session
      BY <2>1 DEF HeardInv, AnnouncedInv
    <3> QED BY <1>4, <3>1, <3>2 DEF Sessions
  <2>2. session <= session'
    BY <1>4
  <2> QED BY <1>1, <1>2, <1>3, <2>1, <2>2, AnnouncedWrite DEF HeardInv
<1>6. rounds[session'] = NoRound /\ players[session'] = "none"
  BY <1>1, <1>4 DEF FeedInv, RowsInv
<1>7. SeatInv'
  BY <1>1, <1>2, <1>6 DEF HeardInv, SeatInv
<1>8. RoundInv'
  <2>1. rounds'[session'].row = 0
    BY <1>1, <1>6 DEF NoRound
  <2> QED BY <2>1 DEF RoundInv
<1>9. AnswerInv'
  BY <1>1, <1>2, <1>3, AnswerOther DEF HeardInv, FeedInv
<1> QED BY <1>5, <1>7, <1>8, <1>9 DEF HeardInv

LEMMA PublishHeard ==
  ASSUME FeedInv, HeardInv, Publish, UNCHANGED <<page, moreVars>>
  PROVE  HeardInv'
<1>1. /\ session' = session /\ session \in Sessions /\ published # session /\ published' = session
      /\ UNCHANGED <<players, rounds, opened, page, pc, read, subs, astray>>
      /\ UNCHANGED <<sessionId, player, round, yourAnswer>>
      /\ Told("game_state", session)
  BY DEF Publish, FeedInv, DbTyped, pageVars, moreVars
<1>2. /\ Tells("game_state", session)
      /\ "players" \in missed <=> "players" \in missed'
      /\ "rounds" \in missed <=> "rounds" \in missed'
  BY <1>1 DEF Told, Tells
<1>3. "game_state" \in Collections /\ session \in Records("game_state") /\ "game_state" \notin OfSession
  BY <1>1, RecordFacts DEF Collections, OfSession
<1>4. AnnouncedInv'
  <2>1. \A i \in 1 .. Len(feed) : feed[i].of \notin OfSession
    BY <1>1 DEF HeardInv, AnnouncedInv
  <2>2. session <= session'
    BY <1>1 DEF Sessions
  <2> QED BY <1>1, <1>2, <1>3, <2>1, <2>2, AnnouncedWrite DEF HeardInv
<1>5. rounds[session] = NoRound /\ players[session] = "none"
  BY <1>1 DEF HeardInv, AnnouncedInv
<1>6. SeatInv'
  BY <1>1, <1>2, <1>5 DEF HeardInv, SeatInv
<1>7. RoundInv'
  <2>1. rounds'[session'].row = 0
    BY <1>1, <1>5 DEF NoRound
  <2> QED BY <2>1 DEF RoundInv
<1>8. AnswerInv'
  BY <1>1, <1>2, <1>3, AnswerOther DEF HeardInv, FeedInv
<1> QED BY <1>4, <1>6, <1>7, <1>8 DEF HeardInv

LEMMA PlayerMovesHeard ==
  ASSUME FeedInv, HeardInv, Lagging = FALSE, PlayerMoves, page = "player", UNCHANGED <<page, moreVars>>
  PROVE  HeardInv'
<1>1. PICK state \in Live \ {players[session]} :
        /\ players' = [players EXCEPT ![session] = state]
        /\ Told("players", [session |-> session, state |-> state])
  BY DEF PlayerMoves
<1> DEFINE rec == [session |-> session, state |-> state]
<1>2. /\ session \in Sessions /\ published = session
      /\ UNCHANGED <<session, published, rounds, opened, page, pc, read, subs, astray>>
      /\ UNCHANGED <<sessionId, player, round, yourAnswer>>
  BY DEF PlayerMoves, Known, FeedInv, DbTyped, pageVars, moreVars
<1>3. /\ Tells("players", rec)
      /\ "rounds" \in missed <=> "rounds" \in missed'
  BY <1>1 DEF Told, Tells
<1>4. "players" \in Collections /\ rec \in Records("players") /\ rec.session = session
  BY <1>2, RecordFacts DEF Collections
<1>5. players'[session] = state
  BY <1>1, <1>2 DEF FeedInv, DbTyped
<1>8. SeatInv'
  <2>6. CASE subs["players"] = "live"
    <3>1. feed' = Append(feed, [of |-> "players", rec |-> rec])
      BY <1>1, <1>4, <2>6, AllOpen DEF Told
    <3>2. [of |-> "players", rec |-> rec] \in Event /\ feed \in Seq(Event)
      BY <1>4, <3>1, ToldLast DEF FeedInv
    <3>3. LastIs(feed', Len(feed'), "players", rec)
      BY <3>1, <3>2, AppendLast
    <3>4. SeatHeard'
      BY <1>2, <1>5, <3>3 DEF SeatHeard
    <3>5. pc # "players"
      BY <2>6 DEF FeedInv, Asking
    <3> QED BY <1>2, <3>4, <3>5 DEF SeatInv
  <2>7. CASE subs["players"] # "live"
    <3>1. subs["players"] \in {"off", "asked"}
      BY <1>4, <2>7 DEF FeedInv, LinkTyped
    <3>2. missed' = IF HasRead("players") THEN missed \cup {"players"} ELSE missed
      BY <1>1, <2>7 DEF Told
    <3>3. subs["players"] = "off" \/ "players" \in missed'
      BY <3>1, <3>2 DEF HasRead
    <3>4. pc = "players" /\ read # Unread => "players" \in missed'
      BY <3>2 DEF HasRead
    <3> QED BY <1>2, <3>3, <3>4 DEF SeatInv
  <2> QED BY <2>6, <2>7
<1> HIDE DEF rec
<1>9. AnnouncedInv'
  <2>1. session <= session' /\ "players" # "game_state" /\ published' = session'
    BY <1>2 DEF Sessions
  <2>2. rec.session <= session' /\ session' \in Sessions
    BY <1>2, <1>4, <2>1
  <2> QED BY <1>3, <1>4, <2>1, <2>2, AnnouncedWrite DEF HeardInv
<1>10. RoundInv'
  BY <1>2, <1>3, <1>4, RoundOther DEF HeardInv, FeedInv
<1>11. AnswerInv'
  BY <1>2, <1>3, <1>4, AnswerOther DEF HeardInv, FeedInv
<1> QED BY <1>8, <1>9, <1>10, <1>11 DEF HeardInv

\* A round is told, and is then the last one under way.
LEMMA RoundToldHeard ==
  ASSUME FeedInv, HeardInv, NEW rec \in ToldRounds,
         rec = Payload(rounds'[session]), rec.session = session, published = session,
         UNCHANGED <<session, published, players, page, pc, read, subs, astray>>,
         UNCHANGED <<sessionId, player, round, yourAnswer>>,
         IF subs["rounds"] = "live" THEN feed' = Append(feed, [of |-> "rounds", rec |-> rec])
         ELSE UNCHANGED feed /\ missed' = IF HasRead("rounds") THEN missed \cup {"rounds"} ELSE missed,
         "players" \in missed <=> "players" \in missed'
  PROVE  HeardInv'
<1>1. "rounds" \in Collections /\ rec \in Records("rounds") /\ session \in Sessions
  BY RecordFacts DEF Collections, FeedInv, DbTyped
<1>2. Newest' = rec
  BY DEF Newest
<1>3. Tells("rounds", rec)
  BY DEF Tells
<1>4. RoundInv'
  <2>1. CASE subs["rounds"] = "live"
    <3>1. feed' = Append(feed, [of |-> "rounds", rec |-> rec])
      BY <2>1
    <3>2. [of |-> "rounds", rec |-> rec] \in Event /\ feed \in Seq(Event)
      BY <1>1, <3>1, ToldLast DEF FeedInv
    <3>3. LastIs(feed', Len(feed'), "rounds", rec)
      BY <3>1, <3>2, AppendLast
    <3>4. RoundHeard'
      BY <1>2, <3>3 DEF RoundHeard
    <3>5. pc # "rounds"
      BY <2>1 DEF FeedInv, Asking
    <3> QED BY <3>4, <3>5 DEF RoundInv
  <2>2. CASE subs["rounds"] # "live"
    <3>1. subs["rounds"] \in {"off", "asked"}
      BY <1>1, <2>2 DEF FeedInv, LinkTyped
    <3>2. missed' = IF HasRead("rounds") THEN missed \cup {"rounds"} ELSE missed
      BY <2>2
    <3>3. subs["rounds"] = "off" \/ "rounds" \in missed'
      BY <3>1, <3>2 DEF HasRead
    <3>4. pc = "rounds" /\ read # Unread => "rounds" \in missed'
      BY <3>2 DEF HasRead
    <3> QED BY <3>3, <3>4 DEF RoundInv
  <2> QED BY <2>1, <2>2
<1>5. AnnouncedInv'
  <2>1. session <= session'
    BY <1>1 DEF Sessions
  <2>2. rec.session <= session' /\ session' \in Sessions /\ published' = session' /\ "rounds" # "game_state"
    BY <1>1, <2>1
  <2> QED BY <1>1, <1>3, <2>1, <2>2, AnnouncedWrite DEF HeardInv
<1>6. SeatInv'
  BY <1>1, <1>3, SeatOther DEF HeardInv, FeedInv
<1>7. AnswerInv'
  BY <1>1, <1>3, AnswerOther DEF HeardInv, FeedInv
<1> QED BY <1>4, <1>5, <1>6, <1>7 DEF HeardInv

LEMMA RoundOpensHeard ==
  ASSUME FeedInv, HeardInv, Lagging = FALSE, RoundOpens, UNCHANGED <<page, moreVars>>
  PROVE  HeardInv'
<1>1. PICK q \in Questions :
        LET rec == [session |-> session, row |-> opened + 1, question |-> q, state |-> "active"] IN
        /\ rounds' = [rounds EXCEPT ![session] = rec]
        /\ Told("rounds", rec)
  BY DEF RoundOpens
<1> DEFINE rec == [session |-> session, row |-> opened + 1, question |-> q, state |-> "active"]
<1>2. /\ session \in Sessions /\ published = session /\ opened \in Nat /\ opened < MaxRounds /\ MaxRounds \in Nat
      /\ UNCHANGED <<session, published, players, page, pc, read, subs, astray>>
      /\ UNCHANGED <<sessionId, player, round, yourAnswer>>
  BY BoundsAssumption DEF RoundOpens, Known, FeedInv, DbTyped, pageVars, moreVars
<1>3. rec \in ToldRounds
  BY <1>2 DEF ToldRounds, RoundsWith, Stages
<1>4. rec = Payload(rounds'[session]) /\ rec.session = session
  <2>1. rounds'[session] = rec
    BY <1>1, <1>2 DEF FeedInv, DbTyped
  <2> QED BY <2>1 DEF Payload
<1>5. Told("rounds", rec)
  BY <1>1
<1> HIDE DEF rec
<1>6. /\ IF subs["rounds"] = "live" THEN feed' = Append(feed, [of |-> "rounds", rec |-> rec])
         ELSE UNCHANGED feed /\ missed' = IF HasRead("rounds") THEN missed \cup {"rounds"} ELSE missed
      /\ "players" \in missed <=> "players" \in missed'
  BY <1>5, AllOpen DEF Told, Collections
<1> QED BY <1>2, <1>3, <1>4, <1>6, RoundToldHeard

LEMMA RoundMovesHeard ==
  ASSUME FeedInv, HeardInv, RoundMoves, UNCHANGED <<page, moreVars>>
  PROVE  HeardInv'
<1> DEFINE rec == Payload(rounds'[session])
<1>1. /\ session \in Sessions /\ rounds[session] \in Rows
      /\ rounds[session].state \in {"active", "closing", "revealed"}
      /\ UNCHANGED <<session, published, players, opened, page, pc, read, subs, astray>>
      /\ UNCHANGED <<sessionId, player, round, yourAnswer>>
      /\ rounds' = [rounds EXCEPT ![session].state = Later[@]]
      /\ Told("rounds", rec)
  BY DEF RoundMoves, FeedInv, DbTyped, pageVars, moreVars, Later
<1>2. rounds'[session] = [rounds[session] EXCEPT !.state = Later[@]]
  BY <1>1 DEF FeedInv, DbTyped
<1>3. rounds[session] \in RoundsWith(Stages)
  BY <1>1 DEF Rows, NoRound
<1>4. Later[rounds[session].state] \in Stages
  BY <1>1 DEF Later, Stages
<1>5. rounds'[session] \in RoundsWith(Stages) /\ rounds'[session].session = rounds[session].session
  BY <1>2, <1>3, <1>4 DEF RoundsWith
<1>6. rounds'[session] \in Rows /\ rounds'[session] # NoRound
  BY <1>5, BoundsAssumption DEF Rows, NoRound, RoundsWith, Sessions
<1>7. rounds[session].row # 0
  BY <1>3, BoundsAssumption DEF RoundsWith
<1>8. rec \in ToldRounds /\ rec.session = session
  BY <1>1, <1>5, <1>6, <1>7, PayloadFacts DEF FeedInv, RowsInv
<1>9. published = session
  BY <1>1, RoundIsAnnounced DEF HeardInv
<1>10. Told("rounds", rec) /\ rec = Payload(rounds'[session])
  BY <1>1
<1> HIDE DEF rec
<1>11. /\ IF subs["rounds"] = "live" THEN feed' = Append(feed, [of |-> "rounds", rec |-> rec])
          ELSE UNCHANGED feed /\ missed' = IF HasRead("rounds") THEN missed \cup {"rounds"} ELSE missed
       /\ "players" \in missed <=> "players" \in missed'
  BY <1>10, AllOpen DEF Told, Collections
<1> QED BY <1>1, <1>8, <1>9, <1>10, <1>11, RoundToldHeard

\* An answer follows its round, unless the page has missed that.
LEMMA RevealsHeard ==
  ASSUME FeedInv, HeardInv, Reveals, page = "player", UNCHANGED <<page, moreVars>>
  PROVE  HeardInv'
<1> DEFINE rec == [session |-> session, question |-> rounds[session].question]
<1>1. /\ session \in Sessions /\ rounds[session] \in Rows /\ rounds[session].state = "revealed"
      /\ UNCHANGED <<session, published, players, rounds, opened, page, pc, read, subs>>
      /\ UNCHANGED <<sessionId, player, round, yourAnswer>>
      /\ Told("player_reveals", rec)
      /\ astray' = IF subs["player_reveals"] = "live" /\ "rounds" \in missed
                   THEN astray \cup {rounds[session].question} ELSE astray
  BY DEF Reveals, FeedInv, DbTyped, pageVars, moreVars
<1>2. rounds[session].question \in Questions /\ rounds[session] # NoRound
  BY <1>1 DEF Rows, RoundsWith, NoRound
<1>3. "player_reveals" \in Collections /\ rec \in Records("player_reveals") /\ rec.session = session
  BY <1>1, <1>2, RecordFacts DEF Collections
<1>4. /\ Tells("player_reveals", rec)
      /\ "players" \in missed <=> "players" \in missed'
      /\ "rounds" \in missed <=> "rounds" \in missed'
  BY <1>1 DEF Told, Tells
<1>5. published = session
  BY <1>1, RoundIsAnnounced DEF HeardInv
<1>6. AnnouncedInv'
  <2>1. session <= session' /\ rec.session <= session' /\ session' \in Sessions /\ published' = session'
    BY <1>1, <1>5 DEF Sessions
  <2> HIDE DEF rec
  <2> QED BY <1>3, <1>4, <2>1, AnnouncedWrite DEF HeardInv
<1>7. SeatInv'
  <2> HIDE DEF rec
  <2> QED BY <1>1, <1>3, <1>4, SeatOther DEF HeardInv, FeedInv
<1>8. RoundInv'
  <2> HIDE DEF rec
  <2> QED BY <1>1, <1>3, <1>4, RoundOther DEF HeardInv, FeedInv
<1>9. CASE subs["player_reveals"] # "live"
  <2>1. UNCHANGED <<feed, astray>>
    BY <1>1, <1>9 DEF Told
  <2> QED BY <1>1, <1>6, <1>7, <1>8, <2>1 DEF HeardInv, AnswerInv
<1>10. CASE subs["player_reveals"] = "live"
  <2>1. rec.question \in astray' \/ Placed(feed, Len(feed), rec, sessionId, round)
    <3>1. CASE "rounds" \in missed
      BY <1>1, <1>10, <3>1
    <3>2. CASE "rounds" \notin missed
      <4>1. subs["rounds"] # "off" /\ rounds[session].row # 0
        BY <1>1, <1>2, <1>10, PayloadFacts DEF FeedInv, Asking
      <4>2. RoundHeard
        BY <3>2, <4>1 DEF HeardInv, RoundInv
      <4>3. /\ Newest \in ToldRounds /\ Newest.session = rec.session /\ Newest.question = rec.question
        BY <1>1, <1>2, <4>1, PayloadFacts DEF Newest, FeedInv, RowsInv
      <4>4. CASE LastIs(feed, Len(feed), "rounds", Newest)
        BY <4>3, <4>4 DEF Placed
      <4>5. CASE /\ Silent(feed, Len(feed), "rounds")
                 /\ Comes(feed, Len(feed), sessionId, session) => round = Newest
        BY <1>3, <4>3, <4>5 DEF Placed
      <4> QED BY <4>2, <4>4, <4>5 DEF RoundHeard
    <3> QED BY <3>1, <3>2
  <2>2. astray \subseteq astray'
    BY <1>1
  <2> HIDE DEF rec
  <2>3. AnswerInv'
    BY <1>1, <1>3, <1>4, <2>1, <2>2, AnswerOther DEF HeardInv, FeedInv
  <2> QED BY <1>6, <1>7, <1>8, <2>3 DEF HeardInv
<1> QED BY <1>9, <1>10

\* Scores and headcounts concern neither.
LEMMA ListenerWritesHeard ==
  ASSUME FeedInv, HeardInv, Lagging = FALSE, Scores \/ CountsPublished, UNCHANGED page
  PROVE  HeardInv'
<1>1. PICK c \in {"score_events", "live_stats"} : \E rec \in Records(c) :
        /\ Tells(c, rec) /\ published = session
        /\ "players" \in missed <=> "players" \in missed'
        /\ "rounds" \in missed <=> "rounds" \in missed'
  <2>1. CASE Scores
    <3>1. Len(events') \in Records("score_events")
      <4>1. events \in Seq(Sessions) /\ session \in Sessions /\ events' = Append(events, session)
        BY <2>1 DEF Scores, FeedInv, DbTyped
      <4>2. Len(events') \in Nat \ {0}
        BY <4>1
      <4> QED BY <4>2, RecordFacts
    <3>2. published = session
      BY <2>1, RoundIsAnnounced DEF Scores, HeardInv
    <3>3. /\ Tells("score_events", Len(events'))
          /\ "players" \in missed <=> "players" \in missed'
          /\ "rounds" \in missed <=> "rounds" \in missed'
      BY <2>1 DEF Scores, Tells
    <3> QED BY <3>1, <3>2, <3>3
  <2>2. CASE CountsPublished
    <3>1. stats' \in Records("live_stats")
      <4>1. stats' = [session |-> session, count |-> stats.count + 1]
        BY <2>2 DEF CountsPublished
      <4>2. session \in 0 .. MaxSessions /\ stats.count + 1 \in Nat
        BY BoundsAssumption DEF FeedInv, DbTyped, Sessions
      <4> QED BY <4>1, <4>2, RecordFacts
    <3>2. published = session
      BY <2>2 DEF CountsPublished, Known
    <3>3. /\ Tells("live_stats", stats')
          /\ "players" \in missed <=> "players" \in missed'
          /\ "rounds" \in missed <=> "rounds" \in missed'
      BY <2>2 DEF CountsPublished, Told, Tells
    <3> QED BY <3>1, <3>2, <3>3
  <2> QED BY <2>1, <2>2
<1>2. PICK rec \in Records(c) :
        /\ Tells(c, rec) /\ published = session
        /\ "players" \in missed <=> "players" \in missed'
        /\ "rounds" \in missed <=> "rounds" \in missed'
  BY <1>1
<1>3. /\ UNCHANGED <<session, published, players, rounds, opened, page, pc, read, subs, astray>>
      /\ UNCHANGED <<sessionId, player, round, yourAnswer>>
  BY DEF Scores, CountsPublished, dbVars, pageVars
<1>4. c \in Collections /\ c \notin {"players", "rounds", "game_state", "player_reveals"} /\ c \notin OfSession
  BY DEF Collections, OfSession
<1>5. AnnouncedInv'
  <2>1. session <= session' /\ session' \in Sessions /\ published' = session'
    BY <1>2, <1>3 DEF FeedInv, DbTyped, Sessions
  <2> QED BY <1>2, <1>4, <2>1, AnnouncedWrite DEF HeardInv
<1>6. SeatInv'
  BY <1>2, <1>3, <1>4, SeatOther DEF HeardInv, FeedInv
<1>7. RoundInv'
  BY <1>2, <1>3, <1>4, RoundOther DEF HeardInv, FeedInv
<1>8. AnswerInv'
  BY <1>2, <1>3, <1>4, AnswerOther DEF HeardInv, FeedInv
<1> QED BY <1>5, <1>6, <1>7, <1>8 DEF HeardInv

-----------------------------------------------------------------------------
(* HeardInv while the page is told.                                        *)

LEMMA AnnouncedTail ==
  ASSUME LinkTyped, AnnouncedInv, feed # << >>, feed' = Tail(feed),
         UNCHANGED <<session, published, players, rounds>>
  PROVE  AnnouncedInv'
<1>1. /\ Len(feed) \in Nat /\ Len(feed') = Len(feed) - 1
      /\ \A i \in 1 .. Len(feed') : feed'[i] = feed[i + 1] /\ i + 1 \in 1 .. Len(feed)
  BY TailFacts DEF LinkTyped
<1>2. ASSUME NEW i \in 1 .. Len(feed'), feed'[i].of \in OfSession
      PROVE  /\ published = session /\ feed'[i].rec.session <= session
             /\ \A j \in 1 .. Len(feed') :
                  i < j /\ feed'[j].of = "game_state" => feed'[j].rec > feed'[i].rec.session
  <2>1. feed'[i] = feed[i + 1] /\ i + 1 \in 1 .. Len(feed)
    BY <1>1
  <2>2. published = session /\ feed'[i].rec.session <= session
    BY <1>2, <2>1 DEF AnnouncedInv
  <2>3. ASSUME NEW j \in 1 .. Len(feed'), i < j, feed'[j].of = "game_state"
        PROVE  feed'[j].rec > feed'[i].rec.session
    <3>1. feed'[j] = feed[j + 1] /\ j + 1 \in 1 .. Len(feed) /\ i + 1 < j + 1
      BY <1>1, <2>3
    <3> QED BY <1>2, <2>1, <2>3, <3>1 DEF AnnouncedInv
  <2> QED BY <2>2, <2>3
<1> QED BY <1>2 DEF AnnouncedInv

\* A session is not announced again behind what was written of it.
LEMMA NoReturn ==
  ASSUME FeedInv, AnnouncedInv, feed # << >>, feed[1].of \in OfSession, NEW n \in 1 .. Len(feed),
         Comes(Tail(feed), n - 1, sessionId, feed[1].rec.session)
  PROVE  inSession(feed[1].rec.session)
<1>1. /\ n \in Nat /\ 1 \in 1 .. Len(feed)
      /\ \A j \in 1 .. n - 1 : Tail(feed)[j] = feed[j + 1] /\ j + 1 \in 1 .. Len(feed) /\ 1 < j + 1
  BY TailFacts DEF FeedInv, LinkTyped
<1>2. feed[1].rec.session \in Nat
  BY <1>1, SessionOf DEF FeedInv, LinkTyped, Sessions
<1>3. \A j \in 1 .. n - 1 : Tail(feed)[j].of = "game_state" => Tail(feed)[j].rec > feed[1].rec.session
  BY <1>1 DEF AnnouncedInv
<1>4. \A j \in 1 .. n - 1 : Tail(feed)[j].of = "game_state" => Tail(feed)[j].rec # feed[1].rec.session
  BY <1>2, <1>3
<1> QED BY <1>4 DEF Comes, inSession

\* What an arrival does to the session the page is in.
Moves == IF feed[1].of = "game_state" THEN sessionId' = feed[1].rec ELSE sessionId' = sessionId

LEMMA SeatArrives ==
  ASSUME FeedInv, HeardInv, feed # << >>, feed' = Tail(feed), Moves,
         UNCHANGED <<session, players, pc, read, subs, missed>>,
         IF feed[1].of = "players"
           THEN inSession(feed[1].rec.session) => player' = feed[1].rec.state
           ELSE player' = player
  PROVE  SeatInv'
<1> DEFINE rec == [session |-> session, state |-> players[session]]
<1>1. feed \in Seq(Event) /\ Len(feed) \in 1 .. Len(feed) /\ Len(feed') = Len(feed) - 1
  BY TailFacts DEF FeedInv, LinkTyped
<1>2. Comes(feed', Len(feed'), sessionId', session) => Comes(feed, Len(feed), sessionId, session)
  BY <1>1, TailComes DEF Moves
<1>3. ASSUME SeatHeard PROVE SeatHeard'
  <2>1. CASE LastIs(feed, Len(feed), "players", rec)
    <3>1. CASE LastIs(feed', Len(feed'), "players", rec)
      BY <3>1 DEF SeatHeard
    <3>2. CASE feed[1].of = "players" /\ feed[1].rec = rec /\ Silent(feed', Len(feed'), "players")
      <4>1. rec.session = session /\ rec.state = players[session]
        OBVIOUS
      <4>2. sessionId' = sessionId
        BY <3>2 DEF Moves
      <4>3. Comes(feed', Len(feed'), sessionId', session) => inSession(session)
        BY <1>1, <3>2, <4>1, <4>2, NoReturn DEF HeardInv, OfSession
      <4>4. inSession(session) => player' = players[session]
        BY <3>2, <4>1
      <4> QED BY <3>2, <4>3, <4>4 DEF SeatHeard
    <3> HIDE DEF rec
    <3> QED BY <1>1, <2>1, <3>1, <3>2, TailLast
  <2>2. CASE /\ Silent(feed, Len(feed), "players")
             /\ Comes(feed, Len(feed), sessionId, session) => player = players[session]
    <3>1. Silent(feed', Len(feed'), "players") /\ feed[1].of # "players"
      BY <1>1, <2>2, TailLast
    <3> QED BY <1>2, <2>2, <3>1 DEF SeatHeard
  <2> QED BY <1>3, <2>1, <2>2 DEF SeatHeard
<1> QED BY <1>3 DEF HeardInv, SeatInv

LEMMA RoundArrives ==
  ASSUME FeedInv, HeardInv, feed # << >>, feed' = Tail(feed), Moves,
         UNCHANGED <<session, rounds, pc, read, subs, missed>>,
         IF feed[1].of = "rounds"
           THEN inSession(feed[1].rec.session) => round' = feed[1].rec
           ELSE round' = round
  PROVE  RoundInv'
<1>1. feed \in Seq(Event) /\ Len(feed) \in 1 .. Len(feed) /\ Len(feed') = Len(feed) - 1
  BY TailFacts DEF FeedInv, LinkTyped
<1>2. Comes(feed', Len(feed'), sessionId', session) => Comes(feed, Len(feed), sessionId, session)
  BY <1>1, TailComes DEF Moves
<1>3. Newest' = Newest
  BY DEF Newest, Payload
<1>4. ASSUME RoundHeard, rounds[session].row # 0 PROVE RoundHeard'
  <2>1. CASE LastIs(feed, Len(feed), "rounds", Newest)
    <3>1. CASE LastIs(feed', Len(feed'), "rounds", Newest)
      BY <1>3, <3>1 DEF RoundHeard
    <3>2. CASE feed[1].of = "rounds" /\ feed[1].rec = Newest /\ Silent(feed', Len(feed'), "rounds")
      <4>1. Newest.session = session
        BY <1>4, PayloadFacts DEF Newest, FeedInv, RowsInv, DbTyped
      <4>2. sessionId' = sessionId
        BY <3>2 DEF Moves
      <4>3. Comes(feed', Len(feed'), sessionId', session) => inSession(session)
        BY <1>1, <3>2, <4>1, <4>2, NoReturn DEF HeardInv, OfSession
      <4>4. inSession(session) => round' = Newest
        BY <3>2, <4>1
      <4> QED BY <1>3, <3>2, <4>3, <4>4 DEF RoundHeard
    <3> QED BY <1>1, <2>1, <3>1, <3>2, TailLast
  <2>2. CASE /\ Silent(feed, Len(feed), "rounds")
             /\ Comes(feed, Len(feed), sessionId, session) => round = Newest
    <3>1. Silent(feed', Len(feed'), "rounds") /\ feed[1].of # "rounds"
      BY <1>1, <2>2, TailLast
    <3> QED BY <1>2, <1>3, <2>2, <3>1 DEF RoundHeard
  <2> QED BY <1>4, <2>1, <2>2 DEF RoundHeard
<1> QED BY <1>3, <1>4 DEF HeardInv, RoundInv

\* An answer at the head is of the round shown, or went astray.
LEMMA HeadAnswer ==
  ASSUME FeedInv, AnswerInv, feed # << >>, feed[1].of = "player_reveals", inSession(feed[1].rec.session)
  PROVE  feed[1].rec.question \in {round.question} \cup astray
<1>1. 1 \in 1 .. Len(feed) /\ 1 - 1 = 0
  BY TailFacts DEF FeedInv, LinkTyped
<1>2. feed[1].rec.question \in astray \/ Placed(feed, 0, feed[1].rec, sessionId, round)
  BY <1>1 DEF AnswerInv
<1>3. ~LastIs(feed, 0, "rounds", round) /\ \A rec \in ToldRounds : ~LastIs(feed, 0, "rounds", rec)
  BY DEF LastIs
<1>4. Comes(feed, 0, sessionId, feed[1].rec.session)
  BY DEF Comes, inSession
<1> QED BY <1>2, <1>3, <1>4 DEF Placed

LEMMA AnswerArrives ==
  ASSUME FeedInv, HeardInv, feed # << >>, feed' = Tail(feed), Moves, UNCHANGED <<page, astray>>,
         IF feed[1].of = "rounds"
           THEN inSession(feed[1].rec.session) => round' = feed[1].rec
           ELSE round' = round,
         yourAnswer' \in {NoQuestion, round'.question} \cup astray,
         page = "listener" => yourAnswer' = NoQuestion
  PROVE  AnswerInv'
<1>1. /\ feed \in Seq(Event) /\ Len(feed) \in Nat /\ Len(feed') = Len(feed) - 1
      /\ \A i \in 1 .. Len(feed') : feed'[i] = feed[i + 1] /\ i + 1 \in 1 .. Len(feed) /\ (i + 1) - 1 = i
                                    /\ i \in 1 .. Len(feed)
  BY TailFacts DEF FeedInv, LinkTyped
<1>2. ASSUME NEW i \in 1 .. Len(feed'), feed'[i].of = "player_reveals", feed'[i].rec.question \notin astray
      PROVE  Placed(feed', i - 1, feed'[i].rec, sessionId', round')
  <2> DEFINE a == feed'[i].rec
  <2>1. feed[i + 1].of = "player_reveals" /\ feed[i + 1].rec = a /\ a.question \notin astray
    BY <1>1, <1>2
  <2>2. Placed(feed, i, a, sessionId, round)
    BY <1>1, <2>1 DEF HeardInv, AnswerInv
  <2> SUFFICES Placed(feed', i - 1, a, sessionId', round')
    OBVIOUS
  <2> HIDE DEF a
  <2>3. Comes(feed', i - 1, sessionId', a.session) => Comes(feed, i, sessionId, a.session)
    BY <1>1, TailComes DEF Moves
  <2>4. CASE \E rec \in ToldRounds :
               rec.session = a.session /\ rec.question = a.question /\ LastIs(feed, i, "rounds", rec)
    <3>1. PICK rec \in ToldRounds :
               rec.session = a.session /\ rec.question = a.question /\ LastIs(feed, i, "rounds", rec)
      BY <2>4
    <3>2. CASE LastIs(feed', i - 1, "rounds", rec)
      BY <3>1, <3>2 DEF Placed
    <3>3. CASE feed[1].of = "rounds" /\ feed[1].rec = rec /\ Silent(feed', i - 1, "rounds")
      <4>1. sessionId' = sessionId
        BY <3>3 DEF Moves
      <4>2. Comes(feed', i - 1, sessionId', a.session) => inSession(a.session)
        BY <1>1, <3>1, <3>3, <4>1, NoReturn DEF HeardInv, OfSession
      <4>3. inSession(a.session) => round'.question = a.question
        BY <3>1, <3>3
      <4> QED BY <3>3, <4>2, <4>3 DEF Placed
    <3> QED BY <1>1, <3>1, <3>2, <3>3, TailLast
  <2>5. CASE /\ Silent(feed, i, "rounds")
             /\ Comes(feed, i, sessionId, a.session) => round.question = a.question
    <3>1. Silent(feed', i - 1, "rounds") /\ feed[1].of # "rounds"
      BY <1>1, <2>5, TailLast
    <3> QED BY <2>3, <2>5, <3>1 DEF Placed
  <2> QED BY <2>2, <2>4, <2>5 DEF Placed
<1> QED BY <1>2 DEF AnswerInv

LEMMA EventArrivesHeard ==
  ASSUME FeedInv, HeardInv, EventArrives, page = "player", UNCHANGED <<page, moreVars>>
  PROVE  HeardInv'
<1> DEFINE e == feed[1]
<1>1. /\ feed # << >> /\ feed' = Tail(feed)
      /\ UNCHANGED <<session, published, players, rounds, pc, read, subs, missed, astray, page>>
  BY DEF EventArrives, dbVars
<1>2. Head(feed) = e /\ e.of \in {"game_state", "players", "rounds", "player_reveals"}
  BY <1>1, HeadFacts
<1>3. AnnouncedInv'
  BY <1>1, AnnouncedTail DEF FeedInv, HeardInv
<1>4. yourAnswer \in {NoQuestion, round.question} \cup astray
  BY DEF HeardInv, AnswerInv
<1>5. CASE e.of = "game_state"
  <2>1. applyGameState(e.rec)
    BY <1>1, <1>2, <1>5 DEF EventArrives
  <2>2. e.rec # 0
    BY <1>1, <1>5, HeadFacts DEF Sessions
  <2>3. Moves /\ UNCHANGED <<player, round, yourAnswer>>
    BY <1>5, <2>1, <2>2 DEF applyGameState, Moves
  <2> QED BY <1>1, <1>3, <1>4, <1>5, <2>3, SeatArrives, RoundArrives, AnswerArrives DEF HeardInv
<1>6. CASE e.of = "players"
  <2>1. applyPlayer(e.rec)
    BY <1>1, <1>2, <1>6 DEF EventArrives
  <2>2. Moves /\ UNCHANGED <<round, yourAnswer>>
    BY <1>6, <2>1 DEF applyPlayer, Moves
  <2>3. inSession(e.rec.session) => player' = e.rec.state
    BY <2>1 DEF applyPlayer
  <2> QED BY <1>1, <1>3, <1>4, <1>6, <2>2, <2>3, SeatArrives, RoundArrives, AnswerArrives DEF HeardInv
<1>7. CASE e.of = "rounds"
  <2>1. applyRound(e.rec) /\ e.rec.row # 0
    BY <1>1, <1>2, <1>7, HeadFacts, ToldFacts DEF EventArrives
  <2>2. Moves /\ UNCHANGED player
    BY <1>7, <2>1 DEF applyRound, Moves
  <2>3. inSession(e.rec.session) => round' = e.rec
    BY <2>1 DEF applyRound
  <2>4. yourAnswer' \in {NoQuestion, round'.question} \cup astray
    BY <1>4, <2>1 DEF applyRound
  <2> QED BY <1>1, <1>3, <1>7, <2>2, <2>3, <2>4, SeatArrives, RoundArrives, AnswerArrives DEF HeardInv
<1>8. CASE e.of = "player_reveals"
  <2>1. applyReveal(e.rec)
    BY <1>1, <1>2, <1>8 DEF EventArrives
  <2>2. Moves /\ UNCHANGED <<player, round>>
    BY <1>8, <2>1 DEF applyReveal, Moves
  <2>3. yourAnswer' \in {NoQuestion, round'.question} \cup astray
    BY <1>1, <1>4, <1>8, <2>1, <2>2, HeadAnswer DEF applyReveal, HeardInv
  <2> QED BY <1>1, <1>3, <1>8, <2>2, <2>3, SeatArrives, RoundArrives, AnswerArrives DEF HeardInv
<1> QED BY <1>2, <1>5, <1>6, <1>7, <1>8

LEMMA ListenerEventHeard ==
  ASSUME FeedInv, HeardInv, ListenerEvent, page = "listener", UNCHANGED page
  PROVE  HeardInv'
<1> DEFINE e == feed[1]
<1>1. /\ feed # << >> /\ feed' = Tail(feed)
      /\ UNCHANGED <<session, published, players, rounds, pc, read, subs, missed, astray, page>>
  BY DEF ListenerEvent, dbVars
<1>2. Head(feed) = e /\ e.of \in {"game_state", "rounds", "score_events", "live_stats"}
  BY <1>1, HeadFacts
<1>3. AnnouncedInv'
  BY <1>1, AnnouncedTail DEF FeedInv, HeardInv
<1>4. yourAnswer = NoQuestion
  BY DEF HeardInv, AnswerInv
<1>5. CASE e.of = "game_state"
  <2>1. listenerSession(e.rec)
    BY <1>1, <1>2, <1>5 DEF ListenerEvent, listenerApplies
  <2>2. e.rec # 0
    BY <1>1, <1>5, HeadFacts DEF Sessions
  <2>3. Moves /\ UNCHANGED <<player, round, yourAnswer>>
    BY <1>5, <2>1, <2>2 DEF listenerSession, Moves
  <2> QED BY <1>1, <1>3, <1>4, <1>5, <2>3, SeatArrives, RoundArrives, AnswerArrives DEF HeardInv
<1>6. CASE e.of = "rounds"
  <2>1. listenerRound(e.rec) /\ e.rec.row # 0
    BY <1>1, <1>2, <1>6, HeadFacts, ToldFacts DEF ListenerEvent, listenerApplies
  <2>2. Moves /\ UNCHANGED <<player, yourAnswer>>
    BY <1>6, <2>1 DEF listenerRound, pageVars, Moves
  <2>3. inSession(e.rec.session) => round' = e.rec
    BY <2>1 DEF listenerRound
  <2> QED BY <1>1, <1>3, <1>4, <1>6, <2>2, <2>3, SeatArrives, RoundArrives, AnswerArrives DEF HeardInv
<1>7. CASE e.of \in {"score_events", "live_stats"}
  <2>1. UNCHANGED pageVars
    BY <1>1, <1>2, <1>7 DEF ListenerEvent, listenerApplies, bump, applyStats
  <2>2. Moves /\ UNCHANGED <<player, round, yourAnswer>>
    BY <1>7, <2>1 DEF pageVars, Moves
  <2> QED BY <1>1, <1>3, <1>4, <1>7, <2>2, SeatArrives, RoundArrives, AnswerArrives DEF HeardInv
<1> QED BY <1>2, <1>5, <1>6, <1>7

-----------------------------------------------------------------------------
(* HeardInv while the page reads and subscribes.                           *)

\* A page in the session, or in none, is served the newest round of all ...
LEMMA NewestFound ==
  ASSUME FeedInv, sessionId \in {0, session}, rounds[session].row # 0
  PROVE  Mine([s \in Sessions |-> Payload(rounds[s])], NoRound).is = Newest
<1>1. Mine([s \in Sessions |-> Payload(rounds[s])], NoRound) = Found(sessionId, Carried, NoRound)
  BY DEF Mine, Found, inSession, Carried
<1>2. /\ session \in Sessions /\ rounds[session] \in Rows
      /\ Carried[session] = Newest /\ Newest # NoRound
  BY PayloadFacts DEF FeedInv, DbTyped, Carried, Newest, NoRound
<1>3. \A s \in Sessions : s > session => Carried[s] = NoRound
  <2> SUFFICES ASSUME NEW s \in Sessions, s > session PROVE Carried[s] = NoRound
    OBVIOUS
  <2>1. rounds[s] = NoRound /\ Carried[s] = Payload(rounds[s]) /\ rounds[s] \in Rows
    BY DEF FeedInv, RowsInv, Carried, DbTyped
  <2> QED BY <2>1, PayloadFacts
<1>4. PICK s \in Sessions :
        /\ Found(sessionId, Carried, NoRound) = [session |-> s, is |-> Carried[s]]
        /\ Carried[s] # NoRound /\ (sessionId = 0 \/ s = sessionId)
        /\ \A t \in Sessions : Carried[t] # NoRound /\ (sessionId = 0 \/ t = sessionId) => t <= s
  BY <1>2, FoundFacts
<1>5. s = session
  BY <1>2, <1>3, <1>4 DEF Sessions
<1> QED BY <1>1, <1>2, <1>4, <1>5

\* ... and finds the player's row in it.
LEMMA SeatNewest ==
  ASSUME FeedInv, sessionId \in {0, session}, players[session] # "none"
  PROVE  Mine(players, "none") = [session |-> session, is |-> players[session]]
<1>1. Mine(players, "none") = Found(sessionId, players, "none")
  BY DEF Mine, Found, inSession
<1>2. session \in Sessions /\ \A s \in Sessions : s > session => players[s] = "none"
  BY DEF FeedInv, DbTyped, RowsInv
<1>3. PICK s \in Sessions :
        /\ Found(sessionId, players, "none") = [session |-> s, is |-> players[s]]
        /\ players[s] # "none" /\ (sessionId = 0 \/ s = sessionId)
        /\ \A t \in Sessions : players[t] # "none" /\ (sessionId = 0 \/ t = sessionId) => t <= s
  BY <1>2, FoundFacts
<1>4. s = session
  BY <1>2, <1>3 DEF Sessions
<1> QED BY <1>1, <1>3, <1>4

\* Nothing of the page or under way has changed.
LEMMA LinkHeard ==
  ASSUME HeardInv,
         UNCHANGED <<session, published, players, rounds, feed, sessionId, player, round, yourAnswer, page, astray>>,
         read' = Unread \/ UNCHANGED <<pc, read>>,
         missed \subseteq missed',
         subs["players"] = "off" => subs'["players"] = "off" \/ "players" \in missed',
         subs["rounds"] = "off" => subs'["rounds"] = "off" \/ "rounds" \in missed'
  PROVE  HeardInv'
<1>1. Newest' = Newest
  BY DEF Newest, Payload
<1>2. AnnouncedInv'
  BY DEF HeardInv, AnnouncedInv
<1>3. SeatInv'
  BY DEF HeardInv, SeatInv, SeatHeard
<1>4. RoundInv'
  BY <1>1 DEF HeardInv, RoundInv, RoundHeard
<1>5. AnswerInv'
  BY DEF HeardInv, AnswerInv
<1> QED BY <1>2, <1>3, <1>4, <1>5 DEF HeardInv

LEMMA ServedHeard ==
  ASSUME FeedInv, HeardInv, UNCHANGED page,
         \/ page = "player" /\ ReadServed
         \/ page = "listener" /\ ListenerReadServed
  PROVE  HeardInv'
<1>1. /\ UNCHANGED <<session, published, players, rounds, feed, sessionId, player, round, yourAnswer, page, astray>>
      /\ UNCHANGED <<pc, subs, missed>>
  BY DEF ReadServed, ListenerReadServed, dbVars, pageVars
<1>2. pc = "players" => read'[1] = players
  BY DEF ReadServed, ListenerReadServed, FeedInv, Asking
<1>3. pc = "rounds" => read' = <<Mine([s \in Sessions |-> Payload(rounds[s])], NoRound).is, sessionId>>
  BY DEF ReadServed, ListenerReadServed
<1>4. AnnouncedInv'
  BY <1>1 DEF HeardInv, AnnouncedInv
<1>5. SeatInv'
  BY <1>1, <1>2 DEF HeardInv, SeatInv, SeatHeard
<1>6. RoundInv'
  <2>1. Newest' = Newest
    BY <1>1 DEF Newest, Payload
  <2>2. RoundHeard' <=> RoundHeard
    BY <1>1, <2>1 DEF RoundHeard
  <2>3. pc = "rounds" /\ read'[2] \in {0, session} /\ rounds[session].row # 0 => read'[1] = Newest
    <3>1. pc = "rounds" => /\ read'[1] = Mine([s \in Sessions |-> Payload(rounds[s])], NoRound).is
                           /\ read'[2] = sessionId
      BY <1>3
    <3> QED BY <3>1, NewestFound
  <2> QED BY <1>1, <2>1, <2>2, <2>3 DEF HeardInv, RoundInv
<1>7. AnswerInv'
  BY <1>1 DEF HeardInv, AnswerInv
<1> QED BY <1>4, <1>5, <1>6, <1>7 DEF HeardInv

\* Of a collection not asked for nothing is under way.
LEMMA NothingYet ==
  ASSUME FeedInv, NEW c, subs[c] = "off"
  PROVE  Silent(feed, Len(feed), c)
BY DEF FeedInv, Asking, Silent

\* A page that has asked for its session only.
LEMMA SessionRead ==
  ASSUME FeedInv, FeedInv', HeardInv, pc = "game_state", read' = Unread,
         UNCHANGED <<session, published, players, rounds, feed, round, yourAnswer, page, astray>>,
         subs'["players"] = "off", subs'["rounds"] = "off"
  PROVE  HeardInv'
<1>1. AnnouncedInv'
  BY DEF HeardInv, AnnouncedInv
<1>2. SeatInv' /\ RoundInv'
  BY DEF SeatInv, RoundInv
<1>3. subs["player_reveals"] = "off"
  BY DEF FeedInv, Asking
<1>4. AnswerInv'
  BY <1>3, NothingYet DEF HeardInv, AnswerInv, Silent
<1> QED BY <1>1, <1>2, <1>4 DEF HeardInv

\* The round read is the newest, if it was not missed.
LEMMA RoundRead ==
  ASSUME FeedInv, HeardInv, pc = "rounds", read # Unread, read' = Unread,
         UNCHANGED <<session, published, players, rounds, feed, sessionId, player, page, astray>>,
         missed' = IF {read[2], sessionId} \subseteq {0, session} THEN missed ELSE missed \cup {pc},
         inSession(read[1].session) /\ read[1].row # 0 => round' = read[1],
         yourAnswer' \in {NoQuestion, round'.question} \cup astray,
         page = "listener" => yourAnswer' = NoQuestion,
         subs["players"] = "off" => subs'["players"] = "off"
  PROVE  HeardInv'
<1>1. subs["rounds"] = "off" /\ subs["player_reveals"] = "off"
  BY DEF FeedInv, Asking
<1>2. AnnouncedInv'
  BY DEF HeardInv, AnnouncedInv
<1>3. SeatInv'
  <2>1. "players" \notin missed' => "players" \notin missed
    OBVIOUS
  <2> QED BY <2>1 DEF HeardInv, SeatInv, SeatHeard
<1>4. RoundInv'
  <2>1. Newest' = Newest
    BY DEF Newest, Payload
  <2>2. ASSUME rounds[session].row # 0, "rounds" \notin missed' PROVE RoundHeard'
    <3>1. read[2] \in {0, session} /\ sessionId \in {0, session} /\ "rounds" \notin missed
      BY <2>2
    <3>2. read[1] = Newest
      BY <2>2, <3>1 DEF HeardInv, RoundInv
    <3>3. Newest.row # 0 /\ Newest.session = session
      BY <2>2, PayloadFacts DEF Newest, FeedInv, RowsInv, DbTyped
    <3>4. round' = Newest
      BY <3>1, <3>2, <3>3 DEF inSession
    <3>5. Silent(feed, Len(feed), "rounds")
      BY <1>1, NothingYet
    <3> QED BY <2>1, <3>4, <3>5 DEF RoundHeard
  <2> QED BY <2>2 DEF RoundInv
<1>5. AnswerInv'
  BY <1>1, NothingYet DEF AnswerInv, Silent
<1> QED BY <1>2, <1>3, <1>4, <1>5 DEF HeardInv

LEMMA ReturnsHeard ==
  ASSUME FeedInv, FeedInv', HeardInv, ReadReturns, page = "player", UNCHANGED <<page, moreVars>>
  PROVE  HeardInv'
<1>1. /\ read # Unread /\ read' = Unread /\ pc' = After(pc)
      /\ subs' = [c \in Collections |-> IF c \in Asked THEN "asked" ELSE subs[c]]
      /\ UNCHANGED <<session, published, players, rounds, feed, astray, page>>
  BY DEF ReadReturns, dbVars
<1>2. pc \in {"game_state", "players", "rounds"}
  BY <1>1 DEF FeedInv, Asking, ReadTyped
<1>3. subs["rounds"] = "off" /\ subs["player_reveals"] = "off" /\ (pc # "rounds" => subs["players"] = "off")
  BY <1>2 DEF FeedInv, Asking
<1>4. CASE pc = "game_state"
  <2>1. UNCHANGED <<round, yourAnswer>>
    BY <1>4 DEF ReadReturns, applyGameState
  <2>2. pc' = "players"
    BY <1>1, <1>4 DEF After
  <2>3. subs'["players"] = "off" /\ subs'["rounds"] = "off"
    BY <1>1, <2>2 DEF FeedInv, Asking
  <2> QED BY <1>1, <1>4, <2>1, <2>3, SessionRead
<1>5. CASE pc = "players"
  <2> DEFINE mine == Mine(read[1], "none")
  <2>1. /\ IF mine.is = "none" THEN UNCHANGED pageVars
           ELSE applyPlayer([session |-> mine.session, state |-> mine.is])
        /\ missed' = IF {sessionId, sessionId} \subseteq {0, session} THEN missed ELSE missed \cup {"players"}
    BY <1>5 DEF ReadReturns
  <2>2. UNCHANGED <<sessionId, round, yourAnswer>>
    BY <2>1 DEF pageVars, applyPlayer
  <2>3. pc' = "rounds"
    BY <1>1, <1>5 DEF After
  <2>4. subs'["rounds"] = "off"
    BY <1>1, <2>3 DEF FeedInv, Asking
  <2>5. SeatInv'
    <3>1. ASSUME players[session] # "none", "players" \notin missed' PROVE SeatHeard'
      <4>1. sessionId \in {0, session} /\ "players" \notin missed
        BY <2>1, <3>1
      <4>2. read[1] = players
        BY <1>1, <1>5, <4>1 DEF HeardInv, SeatInv
      <4>3. mine = [session |-> session, is |-> players[session]]
        BY <3>1, <4>1, <4>2, SeatNewest
      <4>4. applyPlayer([session |-> session, state |-> players[session]])
        BY <2>1, <3>1, <4>3
      <4>5. player' = players[session]
        BY <4>1, <4>4 DEF applyPlayer, inSession
      <4>6. Silent(feed, Len(feed), "players")
        BY <1>3, <1>5, NothingYet
      <4> QED BY <1>1, <4>5, <4>6 DEF SeatHeard
    <3> QED BY <1>1, <3>1 DEF SeatInv
  <2> HIDE DEF mine
  <2>6. AnnouncedInv'
    BY <1>1 DEF HeardInv, AnnouncedInv
  <2>7. RoundInv'
    BY <1>1, <2>4 DEF RoundInv
  <2>8. AnswerInv'
    BY <1>1, <1>3, <2>2, NothingYet DEF HeardInv, AnswerInv, Silent
  <2> QED BY <2>5, <2>6, <2>7, <2>8 DEF HeardInv
<1>6. CASE pc = "rounds"
  <2>1. /\ applyRound(read[1])
        /\ missed' = IF {read[2], sessionId} \subseteq {0, session} THEN missed ELSE missed \cup {pc}
    BY <1>6 DEF ReadReturns
  <2>2. UNCHANGED <<sessionId, player>>
    BY <2>1 DEF applyRound
  <2>3. inSession(read[1].session) /\ read[1].row # 0 => round' = read[1]
    BY <2>1 DEF applyRound
  <2>4. yourAnswer' \in {NoQuestion, round'.question} \cup astray
    BY <2>1 DEF applyRound, HeardInv, AnswerInv
  <2>5. subs["players"] # "off"
    BY <1>6 DEF FeedInv, Asking
  <2>6. page # "listener"
    OBVIOUS
  <2> QED BY <1>1, <1>6, <2>1, <2>2, <2>3, <2>4, <2>5, <2>6, RoundRead
<1> QED BY <1>2, <1>4, <1>5, <1>6

LEMMA ListenerReturnsHeard ==
  ASSUME FeedInv, FeedInv', HeardInv, ListenerReadReturns, page = "listener", UNCHANGED page
  PROVE  HeardInv'
<1>1. /\ read # Unread /\ read' = Unread /\ pc' = listenerAfter(pc)
      /\ UNCHANGED <<session, published, players, rounds, feed, astray, page>>
  BY DEF ListenerReadReturns, dbVars
<1>2. pc \in {"game_state", "rounds", "score_events", "live_stats"}
  BY <1>1 DEF FeedInv, Asking, ReadTyped
<1>3. yourAnswer = NoQuestion
  BY DEF HeardInv, AnswerInv
<1>4. page' = "listener" /\ subs'["players"] = "off"
  BY <1>1 DEF FeedInv, Asking
<1>5. CASE pc = "game_state"
  <2>1. UNCHANGED <<round, yourAnswer>>
    BY <1>5 DEF ListenerReadReturns, listenerApplies, listenerSession
  <2>2. pc' = "rounds"
    BY <1>1, <1>5 DEF listenerAfter
  <2>3. subs'["rounds"] = "off"
    BY <1>4, <2>2 DEF FeedInv, Asking
  <2> QED BY <1>1, <1>4, <1>5, <2>1, <2>3, SessionRead
<1>6. CASE pc = "rounds"
  <2>1. /\ listenerRound(read[1])
        /\ missed' = IF {read[2], sessionId} \subseteq {0, session} THEN missed ELSE missed \cup {pc}
    BY <1>6 DEF ListenerReadReturns, listenerApplies
  <2>2. UNCHANGED <<sessionId, player, yourAnswer>>
    BY <2>1 DEF listenerRound, pageVars
  <2>3. inSession(read[1].session) /\ read[1].row # 0 => round' = read[1]
    BY <2>1 DEF listenerRound
  <2> QED BY <1>1, <1>3, <1>4, <1>6, <2>1, <2>2, <2>3, RoundRead
<1>7. CASE pc \in {"score_events", "live_stats"}
  <2>1. UNCHANGED pageVars
    BY <1>7 DEF ListenerReadReturns, listenerApplies, applyStats
  <2>2. subs["rounds"] # "off"
    BY <1>7 DEF FeedInv, Asking
  <2>3. missed \subseteq missed'
    BY DEF ListenerReadReturns
  <2> QED BY <1>1, <1>4, <2>1, <2>2, <2>3, LinkHeard DEF pageVars
<1> QED BY <1>2, <1>5, <1>6, <1>7

LEMMA FailsHeard ==
  ASSUME FeedInv, FeedInv', HeardInv, UNCHANGED page,
         \/ page = "player" /\ ReadFails
         \/ page = "listener" /\ ListenerReadFails
  PROVE  HeardInv'
<1>1. /\ read' = Unread /\ missed' = missed \cup {pc}
      /\ UNCHANGED <<session, published, players, rounds, feed, sessionId, player, round, yourAnswer, page, astray>>
  BY DEF ReadFails, ListenerReadFails, dbVars, pageVars
<1>2. subs["players"] = "off" => subs'["players"] = "off" \/ pc = "players"
  <2>1. CASE page = "player"
    BY <2>1 DEF ReadFails, After, FeedInv, Asking
  <2>2. CASE page = "listener"
    BY <2>2 DEF FeedInv, Asking
  <2> QED BY <2>1, <2>2
<1>3. subs["rounds"] = "off" => subs'["rounds"] = "off" \/ pc = "rounds"
  <2>1. CASE page = "player"
    BY <2>1 DEF ReadFails, After, FeedInv, Asking
  <2>2. CASE page = "listener"
    BY <2>2 DEF ListenerReadFails, listenerAfter, FeedInv, Asking
  <2> QED BY <2>1, <2>2 DEF FeedInv, Asking
<1> QED BY <1>1, <1>2, <1>3, LinkHeard

LEMMA LiveHeard ==
  ASSUME FeedInv, HeardInv, SubscriptionsLive, UNCHANGED <<page, moreVars>>
  PROVE  HeardInv'
<1>1. /\ UNCHANGED <<session, published, players, rounds, feed, sessionId, player, round, yourAnswer, page, astray>>
      /\ UNCHANGED <<pc, read, missed>>
      /\ subs' = [c \in Collections |-> IF subs[c] = "asked" THEN "live" ELSE subs[c]]
  BY DEF SubscriptionsLive, dbVars, pageVars
<1>2. \A c \in Collections : subs[c] = "off" => subs'[c] = "off"
  BY <1>1
<1>3. {"players", "rounds"} \subseteq Collections
  BY DEF Collections
<1> QED BY <1>1, <1>2, <1>3, LinkHeard

\* What was under way on a connection that drops is missed.
LEMMA DropsHeard ==
  ASSUME FeedInv, HeardInv, ConnectionDrops, UNCHANGED <<page, moreVars>>
  PROVE  HeardInv'
<1>1. /\ subs' = [c \in Collections |-> IF subs[c] = "live" THEN "asked" ELSE subs[c]]
      /\ feed' = << >> /\ missed' = missed \cup {feed[i].of : i \in DOMAIN feed}
      /\ UNCHANGED <<session, published, players, rounds, sessionId, player, round, yourAnswer, page, astray>>
      /\ UNCHANGED <<pc, read>>
  BY DEF ConnectionDrops, dbVars, pageVars
<1>2. /\ Len(feed') = 0 /\ DOMAIN feed = 1 .. Len(feed)
      /\ subs'["players"] # "off" => subs["players"] # "off"
      /\ subs'["rounds"] # "off" => subs["rounds"] # "off"
  BY <1>1 DEF FeedInv, LinkTyped, Collections
<1>3. ASSUME NEW c, c \notin missed' PROVE c \notin missed /\ Silent(feed, Len(feed), c)
  BY <1>1, <1>2, <1>3 DEF Silent
<1>4. Comes(feed', Len(feed'), sessionId, session) => Comes(feed, Len(feed), sessionId, session)
  BY <1>2 DEF Comes
<1>5. ASSUME NEW c PROVE Silent(feed', Len(feed'), c)
  BY <1>2 DEF Silent
<1>6. ASSUME NEW c, NEW rec, Silent(feed, Len(feed), c) PROVE ~LastIs(feed, Len(feed), c, rec)
  BY <1>6 DEF Silent, LastIs
<1>7. AnnouncedInv'
  BY <1>1, <1>2 DEF HeardInv, AnnouncedInv
<1>8. SeatInv'
  <2>1. ASSUME players[session] # "none", subs'["players"] # "off", "players" \notin missed' PROVE SeatHeard'
    <3>1. SeatHeard /\ Silent(feed, Len(feed), "players")
      BY <1>2, <1>3, <2>1 DEF HeardInv, SeatInv
    <3>2. ~LastIs(feed, Len(feed), "players", [session |-> session, state |-> players[session]])
      BY <1>6, <3>1
    <3>3. Comes(feed, Len(feed), sessionId, session) => player = players[session]
      BY <3>1, <3>2 DEF SeatHeard
    <3>4. Silent(feed', Len(feed'), "players")
      BY <1>5
    <3> QED BY <1>1, <1>4, <3>3, <3>4 DEF SeatHeard
  <2>2. "players" \notin missed' => "players" \notin missed
    BY <1>3
  <2> QED BY <1>1, <2>1, <2>2 DEF HeardInv, SeatInv
<1>9. RoundInv'
  <2>1. Newest' = Newest
    BY <1>1 DEF Newest, Payload
  <2>2. ASSUME rounds[session].row # 0, subs'["rounds"] # "off", "rounds" \notin missed' PROVE RoundHeard'
    <3>1. RoundHeard /\ Silent(feed, Len(feed), "rounds")
      BY <1>2, <1>3, <2>2 DEF HeardInv, RoundInv
    <3>2. ~LastIs(feed, Len(feed), "rounds", Newest)
      BY <1>6, <3>1
    <3>3. Comes(feed, Len(feed), sessionId, session) => round = Newest
      BY <3>1, <3>2 DEF RoundHeard
    <3>4. Silent(feed', Len(feed'), "rounds")
      BY <1>5
    <3> QED BY <1>1, <1>4, <2>1, <3>3, <3>4 DEF RoundHeard
  <2>3. "rounds" \notin missed' => "rounds" \notin missed
    BY <1>3
  <2> QED BY <1>1, <2>1, <2>2, <2>3 DEF HeardInv, RoundInv
<1>10. AnswerInv'
  BY <1>1, <1>2 DEF HeardInv, AnswerInv
<1> QED BY <1>7, <1>8, <1>9, <1>10 DEF HeardInv

-----------------------------------------------------------------------------
(* So FeedInv holds.                                                       *)

LEMMA FeedInit == PagesInit => FeedInv
<1> SUFFICES ASSUME PagesInit PROVE FeedInv
  OBVIOUS
<1>1. /\ MaxSessions \in Nat \ {0} /\ MaxRounds \in Nat /\ 1 \in Sessions
      /\ NoRound \in Rows /\ NoRound \in Payloads
      /\ NoRound.row = 0 /\ NoRound.question = NoQuestion /\ NoRound.state = "none"
  BY BoundsAssumption DEF Sessions, Rows, Payloads, NoRound
<1>2. DbTyped
  BY <1>1 DEF PagesInit, Init, DbTyped, States
<1>3. PageTyped /\ PlayedInv /\ AskedFor
  BY <1>1 DEF PagesInit, Init, PageTyped, PlayedInv, AskedFor, States, PlayedIds
<1>4. LinkTyped /\ ReadTyped /\ Len(feed) = 0
  BY DEF PagesInit, Init, LinkTyped, ReadTyped, Unread
<1>5. Asking
  BY <1>4 DEF PagesInit, Init, Asking, Collections
<1>6. RowsInv
  BY <1>1 DEF PagesInit, Init, RowsInv, Sessions
<1>7. OrderInv
  BY <1>1, <1>4 DEF PagesInit, Init, OrderInv, SameRow, Unread
<1> QED BY <1>2, <1>3, <1>4, <1>5, <1>6, <1>7 DEF FeedInv

LEMMA FeedNext == FeedInv /\ [PagesNext]_allVars => FeedInv'
<1> SUFFICES ASSUME FeedInv, [PagesNext]_allVars PROVE FeedInv'
  OBVIOUS
<1>1. CASE BothPages /\ UNCHANGED <<page, moreVars>>
  BY <1>1, SubscriptionsLiveKeeps, NewSessionKeeps, PublishKeeps, RoundOpensKeeps, RoundMovesKeeps DEF BothPages
<1>2. CASE ConnectionDrops /\ UNCHANGED <<page, moreVars>>
  BY <1>2, ConnectionDropsKeeps
<1>3. CASE page = "player" /\ PlayerPage /\ UNCHANGED <<page, moreVars>>
  BY <1>3, EventArrivesKeeps, ReadServedKeeps, ReadReturnsKeeps, ReadFailsKeeps, PlayerMovesKeeps, RevealsKeeps
     DEF PlayerPage
<1>4. CASE page = "listener" /\ (Listener \/ Scores \/ CountsPublished) /\ UNCHANGED page
  BY <1>4, ListenerEventKeeps, ListenerReadServedKeeps, ListenerReadReturnsKeeps, ReadFailsKeeps,
     ScoresKeeps, CountsPublishedKeeps DEF Listener
<1>5. CASE UNCHANGED allVars
  BY <1>5 DEF allVars, vars, dbVars, pageVars, linkVars, moreVars, FeedInv, DbTyped, PageTyped, LinkTyped, ReadTyped,
     Asking, RowsInv, OrderInv, SameRow, PlayedInv, AskedFor
<1> QED BY <1>1, <1>2, <1>3, <1>4, <1>5 DEF PagesNext

\* Events come in the order of their writes and a page asks for a collection
\* once, after having read it: so rounds reach a page in the order of their
\* rows, and a page that has played a round has seen it before.
THEOREM FeedInvariant == PagesSpec => []FeedInv
BY FeedInit, FeedNext, PTL DEF PagesSpec

-----------------------------------------------------------------------------
(* ... and rightly so, but for a repeated round: what the page has played  *)
(* counts for the question it shows, not for the row.                      *)

HeardRow ==
  page = "player" /\ round.row # 0 /\ round.row \notin repeated /\ playedRoundId = round.question =>
    started[round.row] = 1

\* A round whose audio is started was not played before.
LEMMA FirstStart ==
  ASSUME FeedInv, NEW rec \in Payloads, Follows(rec), NEW played,
         rec.row = round.row => played = playedRoundId,
         rec.state = "active", played # rec.question,
         started' = Start(started, rec.row)
  PROVE  started'[rec.row] = 1
<1>1. /\ rec.row \in 1 .. MaxRounds /\ round.row \in 0 .. MaxRounds /\ MaxRounds \in Nat
      /\ started \in [1 .. MaxRounds -> 0 .. 1]
  BY PayloadsFacts, BoundsAssumption DEF FeedInv, PageTyped
<1>2. started[rec.row] = 0
  <2>1. CASE rec.row = round.row
    BY <1>1, <2>1 DEF Follows, SameRow, FeedInv, PlayedInv
  <2>2. CASE rec.row # round.row
    BY <1>1, <2>2 DEF Follows, FeedInv, PlayedInv
  <2> QED  BY <2>1, <2>2
<1> QED  BY <1>1, <1>2 DEF Start

LEMMA HeardRound ==
  ASSUME FeedInv, HeardRow, page = "player", page' = page,
         NEW rec \in Payloads, Follows(rec), applyRound(rec)
  PROVE  HeardRow'
<1>1. CASE ~(rec.row # 0 /\ inSession(rec.session))
  BY <1>1 DEF applyRound, HeardRow
<1>2. CASE rec.row # 0 /\ inSession(rec.session)
  <2> DEFINE played == IF rec.question # round.question THEN NoQuestion ELSE playedRoundId
  <2>1. /\ round' = rec
        /\ repeated' = IF Repeats(rec) THEN repeated \cup {rec.row} ELSE repeated
        /\ IF player = "bound" THEN playRoundOnce(rec, played)
           ELSE playedRoundId' = played /\ UNCHANGED started
    BY <1>2 DEF applyRound
  <2>2. /\ rec.row = round.row => rec.question = round.question /\ played = playedRoundId
        /\ rec.question # NoQuestion
    BY <1>2, PayloadsFacts, QuestionAssumption DEF Follows, SameRow
  <2>3. CASE played # rec.question /\ rec.state = "active" /\ started' = Start(started, rec.row)
    BY <2>1, <2>2, <2>3, FirstStart DEF HeardRow
  <2>4. CASE playedRoundId' = played /\ UNCHANGED started
    <3>1. CASE rec.row = round.row
      BY <1>2, <2>1, <2>2, <2>4, <3>1 DEF HeardRow, Repeats
    <3>2. CASE rec.row # round.row
      BY <2>1, <2>2, <2>4, <3>2 DEF HeardRow, Repeats
    <3> QED  BY <3>1, <3>2
  <2> QED  BY <2>1, <2>3, <2>4 DEF playRoundOnce, Start
<1> QED  BY <1>1, <1>2

LEMMA HeardPlayer ==
  ASSUME FeedInv, HeardRow, page = "player", page' = page, NEW rec, applyPlayer(rec)
  PROVE  HeardRow'
<1>1. UNCHANGED <<round, repeated>>
  BY DEF applyPlayer
<1>2. round \in Payloads /\ Follows(round)
  BY PayloadsFacts DEF FeedInv, PageTyped, Follows, SameRow
<1>3. CASE UNCHANGED <<playedRoundId, started>>
  BY <1>1, <1>3 DEF HeardRow
<1>4. CASE playRoundOnce(round, playedRoundId)
  <2>1. \/ UNCHANGED <<playedRoundId, started>>
        \/ /\ round.state = "active" /\ playedRoundId # round.question
           /\ started' = Start(started, round.row)
    BY <1>4 DEF playRoundOnce, Start
  <2> QED  BY <1>1, <1>2, <1>3, <2>1, FirstStart DEF HeardRow
<1> QED  BY <1>3, <1>4 DEF applyPlayer

LEMMA HeardRowInit == PagesInit => HeardRow
BY DEF PagesInit, Init, HeardRow, NoRound

LEMMA HeardRowNext == FeedInv /\ HeardRow /\ [PagesNext]_allVars => HeardRow'
<1> SUFFICES ASSUME FeedInv, HeardRow, [PagesNext]_allVars, page = "player" PROVE HeardRow'
  BY DEF HeardRow, PagesNext, allVars
<1>1. page' = page
  BY DEF PagesNext, allVars
<1>2. CASE UNCHANGED pageVars
  BY <1>1, <1>2 DEF pageVars, HeardRow
<1>3. CASE EventArrives
  <2>0. feed # << >>
    BY <1>3 DEF EventArrives
  <2>1. /\ feed # << >> /\ Head(feed) = feed[1]
        /\ feed[1].of \in {"game_state", "players", "rounds", "player_reveals"}
    BY <2>0, HeadFacts
  <2>2. CASE feed[1].of \in {"game_state", "player_reveals"}
    <3>1. applyGameState(feed[1].rec) \/ applyReveal(feed[1].rec)
      BY <1>3, <2>1, <2>2 DEF EventArrives
    <3>2. UNCHANGED <<round, playedRoundId, started, repeated>>
      BY <3>1 DEF applyGameState, applyReveal
    <3> QED  BY <1>1, <3>2 DEF HeardRow
  <2>3. CASE feed[1].of = "players"
    BY <1>1, <1>3, <2>1, <2>3, HeardPlayer DEF EventArrives
  <2>4. CASE feed[1].of = "rounds"
    <3>1. applyRound(feed[1].rec) /\ feed[1].rec \in Payloads /\ Follows(feed[1].rec)
      BY <1>3, <2>1, <2>4, HeadFacts DEF EventArrives
    <3> QED  BY <1>1, <3>1, HeardRound
  <2> QED  BY <2>1, <2>2, <2>3, <2>4
<1>4. CASE ReadReturns
  <2>1. pc \in {"game_state", "players", "rounds"} /\ read # Unread
    BY <1>4 DEF ReadReturns, FeedInv, Asking, ReadTyped
  <2>2. CASE pc = "game_state"
    BY <1>1, <1>4, <2>2 DEF ReadReturns, applyGameState, HeardRow
  <2>3. CASE pc = "players"
    <3>1. UNCHANGED pageVars \/ \E rec : applyPlayer(rec)
      BY <1>4, <2>3 DEF ReadReturns
    <3> QED  BY <1>1, <1>2, <3>1, HeardPlayer
  <2>4. CASE pc = "rounds"
    <3>1. applyRound(read[1]) /\ read[1] \in Payloads /\ Follows(read[1])
      BY <1>4, <2>1, <2>4, ReadFollows DEF ReadReturns, FeedInv
    <3> QED  BY <1>1, <3>1, HeardRound
  <2> QED  BY <2>1, <2>2, <2>3, <2>4
<1>5. CASE \/ SubscriptionsLive \/ NewSession \/ Publish \/ RoundOpens \/ RoundMoves
           \/ ConnectionDrops \/ ReadServed \/ ReadFails \/ PlayerMoves \/ Reveals
  BY <1>2, <1>5 DEF SubscriptionsLive, NewSession, Publish, RoundOpens, RoundMoves,
     ConnectionDrops, ReadServed, ReadFails, PlayerMoves, Reveals
<1>6. CASE UNCHANGED allVars
  BY <1>2, <1>6 DEF allVars, vars
<1> QED  BY <1>3, <1>4, <1>5, <1>6 DEF PagesNext, BothPages, PlayerPage

\* The code starts the audio of the very round a bound player sees as active, in
\* whichever order binding and round come (applyPlayer and applyRound of
\* Player.svelte), unless the round shown before it had the same question.
THEOREM BoundPlayersHear == PagesSpec => []BoundHears
<1>1. FeedInv /\ HeardRow => BoundHears
  <2> SUFFICES ASSUME FeedInv, HeardRow, player = "bound", round.state = "active",
                      round.row \notin repeated
               PROVE  started[round.row] = 1
    BY DEF BoundHears
  <2>1. page = "player"
    BY DEF FeedInv, Asking
  <2>2. round.row # 0 /\ playedRoundId = round.question
    BY PayloadsFacts DEF FeedInv, PageTyped, AskedFor
  <2> QED  BY <2>1, <2>2 DEF HeardRow
<1>2. PagesSpec => []HeardRow
  BY HeardRowInit, HeardRowNext, FeedInvariant, PTL DEF PagesSpec
<1> QED BY <1>1, <1>2, FeedInvariant, PTL

\* No round's audio is started a second time (playRoundOnce), on either page.
THEOREM RoundsStartOnce == PagesSpec => []StartedOnce
<1>1. FeedInv => StartedOnce
  BY DEF FeedInv, PageTyped, StartedOnce
<1> QED BY <1>1, FeedInvariant, PTL

\* At the start nothing is known and nothing is written.
LEMMA HeardInit == PagesInit => HeardInv
<1> SUFFICES ASSUME PagesInit PROVE HeardInv
  OBVIOUS
<1>1. /\ 1 \in Sessions /\ session = 1 /\ Len(feed) = 0 /\ read = Unread /\ NoRound.row = 0
      /\ players[session] = "none" /\ rounds[session] = NoRound
  BY BoundsAssumption DEF PagesInit, Init, Sessions, NoRound
<1>2. AnnouncedInv
  BY <1>1 DEF PagesInit, Init, AnnouncedInv
<1>3. SeatInv /\ RoundInv
  BY <1>1 DEF SeatInv, RoundInv
<1>4. AnswerInv
  BY <1>1 DEF PagesInit, Init, AnswerInv
<1> QED BY <1>2, <1>3, <1>4 DEF HeardInv

LEMMA HeardNext ==
  ASSUME Lagging = FALSE
  PROVE  FeedInv /\ FeedInv' /\ HeardInv /\ [PagesNext]_allVars => HeardInv'
<1> SUFFICES ASSUME FeedInv, FeedInv', HeardInv, [PagesNext]_allVars PROVE HeardInv'
  OBVIOUS
<1>1. CASE BothPages /\ UNCHANGED <<page, moreVars>>
  BY <1>1, LiveHeard, NewSessionHeard, PublishHeard, RoundOpensHeard, RoundMovesHeard DEF BothPages
<1>2. CASE ConnectionDrops /\ UNCHANGED <<page, moreVars>>
  BY <1>2, DropsHeard
<1>3. CASE page = "player" /\ PlayerPage /\ UNCHANGED <<page, moreVars>>
  BY <1>3, EventArrivesHeard, ServedHeard, ReturnsHeard, FailsHeard, PlayerMovesHeard, RevealsHeard DEF PlayerPage
<1>4. CASE page = "listener" /\ (Listener \/ Scores \/ CountsPublished) /\ UNCHANGED page
  BY <1>4, ListenerEventHeard, ServedHeard, ListenerReturnsHeard, FailsHeard, ListenerWritesHeard DEF Listener
<1>5. CASE UNCHANGED allVars
  BY <1>5, LinkHeard DEF allVars, vars, dbVars, pageVars, linkVars
<1> QED BY <1>1, <1>2, <1>3, <1>4, <1>5 DEF PagesNext

\* If a session is announced before its rows are written, the last the runner
\* said of a collection is on the page or on its way to it, whatever was read
\* before the subscription (connectPlayer and connectListener of pb.js), as
\* long as nothing of that collection was written while nobody listened.
THEOREM HeardInvariant ==
  ASSUME Lagging = FALSE
  PROVE  PagesSpec => []HeardInv
<1>1. FeedInv /\ FeedInv' /\ HeardInv /\ [PagesNext]_allVars => HeardInv'
  BY HeardNext
<1> QED BY <1>1, HeardInit, FeedInvariant, PTL DEF PagesSpec

\* If a session is announced before its rows are written, a page that has
\* heard all there is shows the session's seat and its newest round, and no
\* page ever shows an answer to another round than its own unless it was told
\* it after it had missed that answer's round (connectPlayer of pb.js and the
\* callbacks of Player.svelte).
THEOREM PagesShowTheShow ==
  ASSUME Lagging = FALSE
  PROVE  PagesSpec => []ShowsTheShow
<1>1. FeedInv /\ HeardInv => ShowsTheShow
  <2> SUFFICES ASSUME FeedInv, HeardInv PROVE ShowsTheShow
    OBVIOUS
  <2>1. ASSUME pc = "done", feed = << >>, missed = {}, sessionId = session, players[session] # "none"
        PROVE  player = players[session]
    <3>1. subs["players"] # "off"
      BY <2>1 DEF FeedInv, Asking, DbTyped
    <3>2. SeatHeard
      BY <2>1, <3>1 DEF HeardInv, SeatInv
    <3> QED BY <2>1, <3>2 DEF SeatHeard, LastIs, Comes
  <2>2. ASSUME pc = "done", feed = << >>, missed = {}, sessionId = session, rounds[session].row # 0
        PROVE  round = Payload(rounds[session])
    <3>1. subs["rounds"] # "off"
      BY <2>2 DEF FeedInv, Asking
    <3>2. RoundHeard
      BY <2>2, <3>1 DEF HeardInv, RoundInv
    <3> QED BY <2>2, <3>2 DEF RoundHeard, LastIs, Comes, Newest
  <2> QED BY <2>1, <2>2 DEF ShowsTheShow, HeardInv, AnswerInv
<1> QED BY <1>1, FeedInvariant, HeardInvariant, PTL

-----------------------------------------------------------------------------
(* The scoreboard.  Score events come in the order of their rows, and none  *)
(* that the board has counted is still under way.                           *)

\* The first b rows are of earlier sessions, the others of the session.
Split(b) ==
  /\ b \in 0 .. Len(events)
  /\ \A i \in 1 .. Len(events) : IF i <= b THEN events[i] < session ELSE events[i] = session

\* A score event of row i is under way.
OnWay(f, i) == \E j \in 1 .. Len(f) : f[j].of = "score_events" /\ f[j].rec = i

\* Those of f are of different rows, in order, after n and up to the last.
Uncounted(f, n, last) ==
  \A i \in 1 .. Len(f) : f[i].of = "score_events" =>
    /\ n < f[i].rec /\ f[i].rec <= last
    /\ \A j \in 1 .. Len(f) : i < j /\ f[j].of = "score_events" => f[i].rec < f[j].rec

CountInv ==
  /\ \E b \in Nat : Split(b)
  /\ page = "player" => events = << >>
  /\ totals \in 0 .. Len(events)
  /\ pc \in {"game_state", "rounds", "score_events"} => totals = 0
  /\ pc = "score_events" /\ read # Unread => read[1] \in 0 .. Len(events)
  /\ Uncounted(feed, totals, Len(events))

\* A session is announced after the scores of the one before, ...
ScoresFirst ==
  \A i, j \in 1 .. Len(feed) :
    i < j /\ feed[i].of = "score_events" /\ feed[j].of = "game_state" => events[feed[i].rec] < feed[j].rec

\* ... and of its own scores the i-th is counted, with all before it, or is
\* under way, if the page will be in the session by then.
Counting(b) ==
  /\ pc = "score_events" /\ read # Unread /\ read[2] \in {0, session} => read[1] >= Len(events) - b
  /\ subs["score_events"] # "off" /\ Comes(feed, Len(feed), sessionId, session) =>
       \A i \in b + 1 .. Len(events) : totals >= i - b \/ OnWay(feed, i)

ScoreInv ==
  /\ events # << >> => published = session
  /\ ScoresFirst
  /\ "score_events" \notin missed => \A b \in Nat : Split(b) => Counting(b)

LEMMA SplitFacts ==
  ASSUME DbTyped, NEW b, Split(b)
  PROVE  /\ Len(events) \in Nat /\ b \in Nat /\ b <= Len(events) /\ session \in Nat
         /\ \A i \in 1 .. Len(events) : events[i] \in Nat /\ events[i] <= session
         /\ \A i \in b + 1 .. Len(events) : i \in 1 .. Len(events) /\ events[i] = session
<1>1. /\ Len(events) \in Nat /\ b \in Nat /\ b <= Len(events) /\ session \in Nat
      /\ \A i \in 1 .. Len(events) : events[i] \in Nat
  <2>1. events \in Seq(Sessions) /\ session \in Sessions
    BY DEF DbTyped
  <2>2. Sessions \subseteq Nat
    BY BoundsAssumption DEF Sessions
  <2>3. Len(events) \in Nat /\ \A i \in 1 .. Len(events) : events[i] \in Sessions
    BY <2>1
  <2>4. b \in 0 .. Len(events)
    BY DEF Split
  <2>5. b \in Nat /\ b <= Len(events)
    BY <2>3, <2>4
  <2>6. session \in Nat /\ \A i \in 1 .. Len(events) : events[i] \in Nat
    BY <2>1, <2>2, <2>3
  <2> QED BY <2>3, <2>5, <2>6
<1>2. \A i \in 1 .. Len(events) : events[i] <= session
  BY <1>1 DEF Split
<1>3. \A i \in b + 1 .. Len(events) : i \in 1 .. Len(events) /\ ~(i <= b)
  BY <1>1
<1> QED BY <1>1, <1>2, <1>3 DEF Split

\* When a session begins all rows are of earlier ones.
LEMMA SplitAhead ==
  ASSUME DbTyped, session' \in Nat, session' > session, events' = events, \E b \in Nat : Split(b)
  PROVE  /\ Split(Len(events))'
         /\ \A b \in Nat : Split(b)' => b = Len(events)
<1>1. /\ Len(events) \in Nat
      /\ \A i \in 1 .. Len(events) : events[i] \in Nat /\ events[i] <= session
      /\ session \in Nat
  BY SplitFacts
<1>2. Split(Len(events))'
  BY <1>1 DEF Split
<1>3. ASSUME NEW b \in Nat, Split(b)', b # Len(events) PROVE FALSE
  <2>1. b < Len(events) /\ Len(events) \in 1 .. Len(events) /\ ~(Len(events) <= b)
    BY <1>1, <1>3 DEF Split
  <2>2. events[Len(events)] = session'
    BY <1>3, <2>1 DEF Split
  <2> QED BY <1>1, <2>1, <2>2
<1> QED BY <1>2, <1>3

\* Anything else is told.
LEMMA UncountedTold ==
  ASSUME LinkTyped, NEW c \in Collections \ {"score_events"}, NEW rec \in Records(c), Tells(c, rec)
  PROVE  /\ \A n, last : Uncounted(feed, n, last) => Uncounted(feed', n, last)
         /\ \A i : OnWay(feed, i) => OnWay(feed', i)
<1>1. CASE feed' = feed
  BY <1>1
<1>2. CASE feed' = Append(feed, [of |-> c, rec |-> rec])
  <2>1. /\ Len(feed) \in Nat /\ Len(feed') = Len(feed) + 1
        /\ \A i \in 1 .. Len(feed) : feed'[i] = feed[i]
        /\ feed'[Len(feed) + 1].of # "score_events"
    BY <1>2, ToldLast
  <2>2. \A i \in 1 .. Len(feed') : feed'[i].of = "score_events" => i \in 1 .. Len(feed) /\ feed'[i] = feed[i]
    BY <2>1
  <2>3. \A i \in 1 .. Len(feed) : i \in 1 .. Len(feed')
    BY <2>1
  <2> QED BY <2>1, <2>2, <2>3 DEF Uncounted, OnWay
<1> QED BY <1>1, <1>2 DEF Tells

LEMMA CountWrite ==
  ASSUME FeedInv, CountInv, NEW c \in Collections \ {"score_events"}, NEW rec \in Records(c), Tells(c, rec),
         session' \in Sessions, session' >= session, UNCHANGED <<events, totals, page, pc, read>>
  PROVE  CountInv'
<1>1. \E b \in Nat : Split(b)'
  <2>1. CASE session' = session
    BY <2>1 DEF CountInv, Split
  <2>2. CASE session' # session
    <3>1. session' > session /\ session' \in Nat /\ DbTyped
      BY <2>2 DEF FeedInv, DbTyped, Sessions
    <3>2. Len(events) \in Nat
      BY <3>1 DEF DbTyped
    <3> QED BY <3>1, <3>2, SplitAhead DEF CountInv
  <2> QED BY <2>1, <2>2
<1>2. Uncounted(feed', totals, Len(events))
  BY UncountedTold DEF CountInv, FeedInv
<1> QED BY <1>1, <1>2 DEF CountInv

LEMMA ScoreWrite ==
  ASSUME FeedInv, CountInv, ScoreInv,
         NEW c \in Collections \ {"score_events"}, NEW rec \in Records(c), Tells(c, rec),
         session' \in Sessions, session' >= session,
         UNCHANGED <<events, totals, page, pc, read, sessionId>>,
         subs'["score_events"] # "off" => subs["score_events"] # "off",
         "score_events" \in missed => "score_events" \in missed',
         events # << >> => published' = session',
         c = "game_state" /\ feed' # feed => rec = session' /\ (session' > session \/ events = << >>)
  PROVE  ScoreInv'
<1>1. DbTyped /\ LinkTyped /\ events' = events
  BY DEF FeedInv
<1>2. ScoresFirst'
  <2>1. CASE feed' = feed
    BY <2>1 DEF ScoreInv, ScoresFirst
  <2>2. CASE feed' # feed
    <3>1. /\ Len(feed) \in Nat /\ Len(feed') = Len(feed) + 1
          /\ \A i \in 1 .. Len(feed) : feed'[i] = feed[i]
          /\ feed'[Len(feed) + 1] = [of |-> c, rec |-> rec]
      BY <1>1, <2>2, ToldLast DEF Tells
    <3> SUFFICES ASSUME NEW i \in 1 .. Len(feed'), NEW j \in 1 .. Len(feed'), i < j,
                        feed'[i].of = "score_events", feed'[j].of = "game_state"
                 PROVE  events[feed'[i].rec] < feed'[j].rec
      BY DEF ScoresFirst
    <3>2. i \in 1 .. Len(feed) /\ feed'[i] = feed[i]
      BY <3>1
    <3>3. CASE j \in 1 .. Len(feed)
      BY <3>1, <3>2, <3>3 DEF ScoreInv, ScoresFirst
    <3>4. CASE j = Len(feed) + 1
      <4>1. c = "game_state" /\ feed'[j].rec = rec
        BY <3>1, <3>4
      <4>2. feed[i] \in Event /\ feed[i].rec \in Nat \ {0}
        <5>1. feed[i] \in Event /\ feed[i].rec \in Records("score_events")
          BY <1>1, <3>2, EventFacts DEF LinkTyped
        <5> QED BY <5>1, RecordFacts
      <4>3. totals \in Nat /\ Len(events) \in Nat
        BY <1>1 DEF CountInv, DbTyped
      <4>4. feed[i].rec \in 1 .. Len(events)
        BY <3>2, <4>2, <4>3 DEF CountInv, Uncounted
      <4>5. events # << >>
        BY <4>4
      <4>6. session' > session /\ rec = session' /\ session' \in Nat
        BY <2>2, <4>1, <4>5 DEF Sessions
      <4>7. events[feed[i].rec] \in Nat /\ events[feed[i].rec] <= session /\ session \in Nat
        BY <1>1, <4>4, SplitFacts DEF CountInv
      <4> QED BY <3>2, <4>1, <4>6, <4>7
    <3> QED BY <3>1, <3>3, <3>4
  <2> QED BY <2>1, <2>2
<1>3. ASSUME NEW b \in Nat, Split(b)', "score_events" \notin missed'
      PROVE  Counting(b)'
  <2>1. CASE b = Len(events)
    <3>1. Len(events) \in Nat /\ Len(events) - b = 0 /\ b + 1 .. Len(events) = {}
      BY <1>1, <2>1 DEF DbTyped
    <3>2. pc = "score_events" /\ read # Unread => read[1] >= 0
      BY DEF CountInv
    <3> QED BY <1>1, <3>1, <3>2 DEF Counting
  <2>2. CASE b # Len(events)
    <3>1. session' = session
      <4>1. session \in Nat /\ session' \in Nat
        BY <1>1 DEF DbTyped, Sessions
      <4> QED BY <1>1, <1>3, <2>2, <4>1, SplitAhead DEF CountInv
    <3>2. events # << >>
      <4>1. b \in 0 .. Len(events) /\ Len(events) \in Nat
        BY <1>1, <1>3 DEF Split, DbTyped
      <4> QED BY <2>2, <4>1
    <3>3. c # "game_state" \/ feed' = feed
      <4>1. session \in Nat
        BY <1>1 DEF DbTyped, Sessions
      <4> QED BY <3>1, <3>2, <4>1
    <3>4. Comes(feed', Len(feed'), sessionId, session) => Comes(feed, Len(feed), sessionId, session)
      <4>1. CASE feed' = feed
        BY <4>1
      <4>2. CASE feed' # feed
        <5>1. [of |-> c, rec |-> rec] \in Event /\ feed \in Seq(Event)
          BY <1>1, EventMade DEF LinkTyped
        <5> QED BY <3>3, <4>2, <5>1, AppendComes DEF Tells
      <4> QED BY <4>1, <4>2
    <3>5. Split(b) /\ Counting(b)
      BY <1>3, <3>1 DEF ScoreInv, Split
    <3>6. \A i : OnWay(feed, i) => OnWay(feed', i)
      BY <1>1, UncountedTold
    <3> QED BY <3>1, <3>4, <3>5, <3>6 DEF Counting
  <2> QED BY <2>1, <2>2
<1> QED BY <1>1, <1>2, <1>3 DEF ScoreInv

\* The connection drops: what was under way is missed.
LEMMA CountDrops ==
  ASSUME FeedInv, CountInv, ConnectionDrops, UNCHANGED <<page, moreVars>>
  PROVE  CountInv'
<1>1. feed' = << >> /\ UNCHANGED <<session, events, totals, page, pc, read>>
  BY DEF ConnectionDrops, dbVars, moreVars, listenerVars
<1>2. Uncounted(feed', totals, Len(events))
  BY <1>1 DEF Uncounted
<1> QED BY <1>1, <1>2 DEF CountInv, Split

LEMMA ScoreDrops ==
  ASSUME FeedInv, CountInv, ScoreInv, ConnectionDrops, UNCHANGED <<page, moreVars>>
  PROVE  ScoreInv'
<1>1. /\ feed' = << >> /\ missed' = missed \cup {feed[i].of : i \in DOMAIN feed}
      /\ UNCHANGED <<session, published, events, totals, page, pc, read, sessionId>>
      /\ subs' = [c \in Collections |-> IF subs[c] = "live" THEN "asked" ELSE subs[c]]
  BY DEF ConnectionDrops, dbVars, moreVars, listenerVars, pageVars
<1>2. ScoresFirst'
  BY <1>1 DEF ScoresFirst
<1>3. ASSUME "score_events" \notin missed', NEW b \in Nat, Split(b)' PROVE Counting(b)'
  <2>1. Counting(b)
    BY <1>1, <1>3 DEF ScoreInv, Split
  <2>2. subs'["score_events"] # "off" => subs["score_events"] # "off"
    BY <1>1 DEF Collections
  <2>3. Comes(feed', Len(feed'), sessionId, session) => Comes(feed, Len(feed), sessionId, session)
    BY <1>1 DEF Comes
  <2>4. \A i : ~OnWay(feed, i)
    <3>1. feed \in Seq(Event)
      BY DEF FeedInv, LinkTyped
    <3>2. DOMAIN feed = 1 .. Len(feed)
      BY <3>1
    <3> QED BY <1>1, <1>3, <3>2 DEF OnWay
  <2> QED BY <1>1, <2>1, <2>2, <2>3, <2>4 DEF Counting
<1> QED BY <1>1, <1>2, <1>3 DEF ScoreInv

-----------------------------------------------------------------------------
(* The scoreboard as the page is told.                                     *)

LEMMA CountTail ==
  ASSUME FeedInv, CountInv, page = "listener", feed # << >>, feed' = Tail(feed),
         UNCHANGED <<session, events, page, pc, read>>,
         totals' = totals \/ (feed[1].of = "score_events" /\ totals' = totals + 1)
  PROVE  CountInv'
<1>1. /\ Len(feed) \in Nat /\ Len(feed') = Len(feed) - 1 /\ 1 \in 1 .. Len(feed)
      /\ \A i \in 1 .. Len(feed') : feed'[i] = feed[i + 1] /\ i + 1 \in 1 .. Len(feed)
      /\ feed \in Seq(Event)
  BY TailFacts DEF FeedInv, LinkTyped
<1>2. \A i \in 1 .. Len(feed) : feed[i].of = "score_events" => feed[i].rec \in Nat \ {0}
  <2> SUFFICES ASSUME NEW i \in 1 .. Len(feed), feed[i].of = "score_events" PROVE feed[i].rec \in Nat \ {0}
    OBVIOUS
  <2>1. feed[i] \in Event /\ feed[i].rec \in Records("score_events")
    BY <1>1, EventFacts
  <2> QED BY <2>1, RecordFacts
<1>3. totals \in Nat /\ Len(events) \in Nat /\ totals <= Len(events)
  BY DEF CountInv, FeedInv, DbTyped
<1>4. totals' \in 0 .. Len(events) /\ totals' >= totals
  BY <1>1, <1>2, <1>3 DEF CountInv, Uncounted
<1>5. Uncounted(feed', totals', Len(events))
  <2> SUFFICES ASSUME NEW i \in 1 .. Len(feed'), feed'[i].of = "score_events"
               PROVE  /\ totals' < feed'[i].rec /\ feed'[i].rec <= Len(events)
                      /\ \A j \in 1 .. Len(feed') : i < j /\ feed'[j].of = "score_events" => feed'[i].rec < feed'[j].rec
    BY DEF Uncounted
  <2>1. feed'[i] = feed[i + 1] /\ i + 1 \in 1 .. Len(feed) /\ 1 < i + 1
    BY <1>1
  <2>2. totals < feed'[i].rec /\ feed'[i].rec <= Len(events)
    BY <2>1 DEF CountInv, Uncounted
  <2>3. CASE totals' = totals
    <3>1. totals' < feed'[i].rec
      BY <2>2, <2>3
    <3>2. ASSUME NEW j \in 1 .. Len(feed'), i < j, feed'[j].of = "score_events" PROVE feed'[i].rec < feed'[j].rec
      <4>1. feed'[j] = feed[j + 1] /\ j + 1 \in 1 .. Len(feed) /\ i + 1 < j + 1
        BY <1>1, <3>2
      <4> QED BY <2>1, <3>2, <4>1 DEF CountInv, Uncounted
    <3> QED BY <2>2, <3>1, <3>2
  <2>4. CASE feed[1].of = "score_events" /\ totals' = totals + 1
    <3>1. totals < feed[1].rec /\ feed[1].rec < feed[i + 1].rec
      BY <1>1, <2>1, <2>4 DEF CountInv, Uncounted
    <3>2. totals' < feed'[i].rec
      BY <1>1, <1>2, <1>3, <2>1, <2>4, <3>1
    <3>3. ASSUME NEW j \in 1 .. Len(feed'), i < j, feed'[j].of = "score_events" PROVE feed'[i].rec < feed'[j].rec
      <4>1. feed'[j] = feed[j + 1] /\ j + 1 \in 1 .. Len(feed) /\ i + 1 < j + 1
        BY <1>1, <3>3
      <4> QED BY <2>1, <3>3, <4>1 DEF CountInv, Uncounted
    <3> QED BY <2>2, <3>2, <3>3
  <2> QED BY <2>3, <2>4
<1>6. pc \in {"game_state", "rounds", "score_events"} => totals' = totals
  BY <1>1 DEF FeedInv, Asking
<1> QED BY <1>4, <1>5, <1>6 DEF CountInv, Split

LEMMA ScoreTail ==
  ASSUME FeedInv, CountInv, ScoreInv, feed # << >>, feed' = Tail(feed),
         UNCHANGED <<session, published, events, page, pc, read, subs, missed>>,
         totals' = totals \/ (feed[1].of = "score_events" /\ totals' = totals + 1),
         IF feed[1].of = "game_state" THEN sessionId' = feed[1].rec ELSE sessionId' = sessionId,
         feed[1].of = "score_events" /\ inSession(events[feed[1].rec]) => totals' = totals + 1
  PROVE  ScoreInv'
<1>1. /\ Len(feed) \in Nat /\ Len(feed') = Len(feed) - 1 /\ 1 \in 1 .. Len(feed)
      /\ \A i \in 1 .. Len(feed') : feed'[i] = feed[i + 1] /\ i + 1 \in 1 .. Len(feed) /\ 1 < i + 1
      /\ feed \in Seq(Event) /\ DbTyped
  BY TailFacts DEF FeedInv, LinkTyped
<1>2. ScoresFirst'
  <2> SUFFICES ASSUME NEW i \in 1 .. Len(feed'), NEW j \in 1 .. Len(feed'), i < j,
                      feed'[i].of = "score_events", feed'[j].of = "game_state"
               PROVE  events[feed'[i].rec] < feed'[j].rec
    BY DEF ScoresFirst
  <2>1. /\ feed'[i] = feed[i + 1] /\ i + 1 \in 1 .. Len(feed)
        /\ feed'[j] = feed[j + 1] /\ j + 1 \in 1 .. Len(feed) /\ i + 1 < j + 1
    BY <1>1
  <2> QED BY <2>1 DEF ScoreInv, ScoresFirst
<1>3. ASSUME "score_events" \notin missed', NEW b \in Nat, Split(b)' PROVE Counting(b)'
  <2>1. Split(b) /\ Counting(b)
    BY <1>3 DEF ScoreInv, Split
  <2>2. /\ totals \in Nat /\ Len(events) \in Nat /\ b <= Len(events) /\ session \in Nat
        /\ \A i \in b + 1 .. Len(events) : i \in 1 .. Len(events) /\ events[i] = session
    BY <1>1, <2>1, SplitFacts DEF CountInv
  <2>3. ASSUME subs["score_events"] # "off", Comes(feed', Len(feed'), sessionId', session),
               NEW i \in b + 1 .. Len(events)
        PROVE  totals' >= i - b \/ OnWay(feed', i)
    <3>1. Comes(feed, Len(feed), sessionId, session)
      BY <1>1, <2>3, TailComes
    <3>2. totals >= i - b \/ OnWay(feed, i)
      BY <2>1, <2>3, <3>1 DEF Counting
    <3>3. CASE totals >= i - b
      BY <2>2, <3>3
    <3>4. CASE OnWay(feed, i)
      <4>1. PICK j \in 1 .. Len(feed) : feed[j].of = "score_events" /\ feed[j].rec = i
        BY <3>4 DEF OnWay
      <4>2. CASE j # 1
        <5>1. j - 1 \in 1 .. Len(feed') /\ feed'[j - 1] = feed[j]
          BY <1>1, <4>2
        <5> QED BY <4>1, <5>1 DEF OnWay
      <4>3. CASE j = 1
        <5>1. sessionId' = sessionId /\ events[i] = session
          BY <2>2, <4>1, <4>3
        <5>2. sessionId \in {0, session}
          <6> SUFFICES ASSUME NEW k \in 1 .. Len(feed'), feed'[k].of = "game_state", feed'[k].rec = session
                       PROVE  FALSE
            BY <2>3, <5>1 DEF Comes
          <6>1. feed'[k] = feed[k + 1] /\ k + 1 \in 1 .. Len(feed) /\ 1 < k + 1
            BY <1>1
          <6>2. events[feed[1].rec] < feed[k + 1].rec
            BY <1>1, <4>1, <4>3, <6>1 DEF ScoreInv, ScoresFirst
          <6> QED BY <2>2, <4>1, <4>3, <5>1, <6>1, <6>2
        <5>3. totals' = totals + 1
          BY <4>1, <4>3, <5>1, <5>2 DEF inSession
        <5>4. totals >= i - 1 - b
          <6>1. CASE i = b + 1
            BY <2>2, <6>1
          <6>2. CASE i # b + 1
            <7>1. i - 1 \in b + 1 .. Len(events)
              BY <2>2, <6>2
            <7>2. ~OnWay(feed, i - 1)
              <8> SUFFICES ASSUME NEW k \in 1 .. Len(feed), feed[k].of = "score_events", feed[k].rec = i - 1
                           PROVE  FALSE
                BY DEF OnWay
              <8>1. k # 1 => feed[1].rec < feed[k].rec
                BY <1>1, <4>1, <4>3 DEF CountInv, Uncounted
              <8> QED BY <2>2, <4>1, <4>3, <8>1
            <7> QED BY <2>1, <2>3, <3>1, <7>1, <7>2 DEF Counting
          <6> QED BY <6>1, <6>2
        <5> QED BY <2>2, <5>3, <5>4
      <4> QED BY <4>2, <4>3
    <3> QED BY <3>2, <3>3, <3>4
  <2> QED BY <2>1, <2>3 DEF Counting
<1> QED BY <1>2, <1>3 DEF ScoreInv

\* What an event of each collection does to the board.
LEMMA BoardTold ==
  ASSUME FeedInv, ListenerEvent, page = "listener"
  PROVE  /\ feed # << >> /\ feed' = Tail(feed)
         /\ UNCHANGED <<session, published, events, pc, read, subs, missed>>
         /\ totals' = totals \/ (feed[1].of = "score_events" /\ totals' = totals + 1)
         /\ IF feed[1].of = "game_state" THEN sessionId' = feed[1].rec ELSE sessionId' = sessionId
         /\ feed[1].of = "score_events" /\ inSession(events[feed[1].rec]) => totals' = totals + 1
<1>1. /\ feed # << >> /\ feed' = Tail(feed) /\ listenerApplies(feed[1].of, feed[1].rec)
      /\ UNCHANGED <<session, published, events, pc, read, subs, missed>>
  <2>1. feed # << >>
    BY DEF ListenerEvent
  <2>2. Head(feed) = feed[1]
    BY <2>1, HeadFacts
  <2> QED BY <2>2 DEF ListenerEvent, dbVars
<1>2. feed[1].of \in {"game_state", "rounds", "score_events", "live_stats"}
  BY <1>1, HeadFacts
<1>3. CASE feed[1].of = "game_state"
  <2>1. feed[1].rec # 0
    BY <1>1, <1>3, HeadFacts DEF Sessions
  <2>2. listenerSession(feed[1].rec)
    BY <1>1, <1>3 DEF listenerApplies
  <2> QED BY <1>1, <1>3, <2>1, <2>2 DEF listenerSession, listenerVars
<1>4. CASE feed[1].of = "rounds"
  <2>1. listenerRound(feed[1].rec)
    BY <1>1, <1>4 DEF listenerApplies
  <2> QED BY <1>1, <1>4, <2>1 DEF listenerRound, listenerVars, pageVars
<1>5. CASE feed[1].of = "score_events"
  <2>1. bump(feed[1].rec)
    BY <1>1, <1>5 DEF listenerApplies
  <2> QED BY <1>1, <1>5, <2>1 DEF bump, pageVars
<1>6. CASE feed[1].of = "live_stats"
  <2>1. applyStats(feed[1].rec)
    BY <1>1, <1>6 DEF listenerApplies
  <2> QED BY <1>1, <1>6, <2>1 DEF applyStats, pageVars
<1> QED BY <1>2, <1>3, <1>4, <1>5, <1>6

LEMMA CountEvent ==
  ASSUME FeedInv, CountInv, ListenerEvent, page = "listener", UNCHANGED page
  PROVE  CountInv'
BY BoardTold, CountTail

LEMMA ScoreEvent ==
  ASSUME FeedInv, CountInv, ScoreInv, ListenerEvent, page = "listener", UNCHANGED page
  PROVE  ScoreInv'
BY BoardTold, ScoreTail

-----------------------------------------------------------------------------
(* The scoreboard as the page reads.                                       *)

\* The events of the session, or of all, are at least those of it.
LEMMA SummedFacts ==
  ASSUME DbTyped
  PROVE  /\ Summed \in 0 .. Len(events)
         /\ \A b \in Nat : Split(b) /\ sessionId \in {0, session} => Summed >= Len(events) - b
<1>1. Len(events) \in Nat /\ DOMAIN events = 1 .. Len(events)
  BY DEF DbTyped
<1>2. IsFiniteSet(1 .. Len(events)) /\ Cardinality(1 .. Len(events)) = Len(events)
  <2>1. 1 \in Int /\ Len(events) \in Int
    BY <1>1
  <2>2. /\ IsFiniteSet(1 .. Len(events))
        /\ Cardinality(1 .. Len(events)) = IF 1 > Len(events) THEN 0 ELSE Len(events) - 1 + 1
    BY <2>1, FS_Interval, Zenon
  <2> QED BY <1>1, <2>2
<1> DEFINE All == {i \in DOMAIN events : inSession(events[i])}
<1>3. All \in SUBSET (1 .. Len(events)) /\ Summed = Cardinality(All)
  BY <1>1 DEF Summed
<1> HIDE DEF All
<1>4. IsFiniteSet(All) /\ Cardinality(All) <= Len(events) /\ Cardinality(All) \in Nat
  BY <1>2, <1>3, FS_Subset, FS_CardinalityType
<1>5. ASSUME NEW b \in Nat, Split(b), sessionId \in {0, session} PROVE Cardinality(All) >= Len(events) - b
  <2>1. b <= Len(events) /\ \A i \in b + 1 .. Len(events) : i \in 1 .. Len(events) /\ events[i] = session
    BY <1>5, SplitFacts
  <2>2. b + 1 .. Len(events) \in SUBSET All
    BY <1>1, <1>5, <2>1 DEF All, inSession
  <2>3. Cardinality(b + 1 .. Len(events)) = IF b + 1 > Len(events) THEN 0 ELSE Len(events) - (b + 1) + 1
    <3>1. b + 1 \in Int /\ Len(events) \in Int
      BY <1>1
    <3> QED BY <3>1, FS_Interval, Zenon
  <2>4. Cardinality(b + 1 .. Len(events)) <= Cardinality(All)
    BY <1>4, <2>2, FS_Subset
  <2>5. Cardinality(b + 1 .. Len(events)) = Len(events) - b
    BY <1>1, <2>1, <2>3
  <2> QED BY <2>4, <2>5, <1>1, <1>4
<1> QED BY <1>1, <1>3, <1>4, <1>5

LEMMA CountServed ==
  ASSUME FeedInv, CountInv, ListenerReadServed, UNCHANGED page
  PROVE  CountInv'
<1>1. UNCHANGED <<session, events, totals, pc, feed>>
  BY DEF ListenerReadServed, dbVars, moreVars, listenerVars
<1>2. pc = "score_events" => read'[1] = Summed
  BY DEF ListenerReadServed
<1>3. pc = "score_events" => read'[1] \in 0 .. Len(events)
  BY <1>2, SummedFacts DEF FeedInv
<1> QED BY <1>1, <1>3 DEF CountInv, Split

LEMMA ScoreServed ==
  ASSUME FeedInv, CountInv, ScoreInv, ListenerReadServed, UNCHANGED page
  PROVE  ScoreInv'
<1>1. UNCHANGED <<session, published, events, totals, pc, feed, subs, missed, sessionId>>
  BY DEF ListenerReadServed, dbVars, moreVars, listenerVars, pageVars
<1>2. pc = "score_events" => read' = <<Summed, sessionId>>
  BY DEF ListenerReadServed
<1>3. ASSUME "score_events" \notin missed', NEW b \in Nat, Split(b)' PROVE Counting(b)'
  <2>1. Split(b) /\ Counting(b)
    BY <1>1, <1>3 DEF ScoreInv, Split
  <2>2. pc = "score_events" /\ sessionId \in {0, session} => read'[1] >= Len(events) - b
    BY <1>2, <2>1, SummedFacts DEF FeedInv
  <2>3. pc = "score_events" => read'[2] = sessionId
    BY <1>2
  <2> QED BY <1>1, <2>1, <2>2, <2>3 DEF Counting
<1> QED BY <1>1, <1>3 DEF ScoreInv, ScoresFirst

\* A page asks for the scores after it has read them, and for one collection
\* at a time.
LEMMA BoardRead ==
  ASSUME FeedInv, page = "listener", ListenerReadReturns
  PROVE  /\ UNCHANGED <<session, published, events, feed>> /\ read' = Unread /\ read # Unread
         /\ IF pc = "score_events" THEN totals' = totals + read[1] ELSE totals' = totals
         /\ pc # "game_state" => sessionId' = sessionId
         /\ subs'["score_events"] = IF pc = "score_events" THEN "asked" ELSE subs["score_events"]
         /\ pc' = listenerAfter(pc) /\ pc \in {"game_state", "rounds", "score_events", "live_stats"}
         /\ "score_events" \in missed => "score_events" \in missed'
         /\ pc = "score_events" /\ "score_events" \notin missed' => {read[2], sessionId} \subseteq {0, session}
<1>1. /\ UNCHANGED <<session, published, events, feed>> /\ read' = Unread /\ read # Unread
      /\ pc' = listenerAfter(pc) /\ Asks
      /\ IF pc = "score_events"
           THEN totals' = totals + read[1] /\ UNCHANGED <<pageVars, zoneCounts>>
           ELSE listenerApplies(pc, read[1])
  BY DEF ListenerReadReturns, dbVars
<1>2. pc \in {"game_state", "rounds", "score_events", "live_stats"}
  BY <1>1 DEF FeedInv, ReadTyped, Asking
<1>3. subs'["score_events"] = IF pc = "score_events" THEN "asked" ELSE subs["score_events"]
  BY <1>1 DEF Asks, ListenerAsks, Collections
<1>4. /\ "score_events" \in missed => "score_events" \in missed'
      /\ pc = "score_events" /\ "score_events" \notin missed' => {read[2], sessionId'} \subseteq {0, session}
  <2> DEFINE asked == IF pc \in {"rounds", "score_events"} THEN read[2] ELSE sessionId
  <2>1. missed' = IF {asked, sessionId} \subseteq {0, session} THEN missed ELSE missed \cup {pc}
    BY DEF ListenerReadReturns
  <2>2. pc = "score_events" => sessionId' = sessionId
    BY <1>1 DEF pageVars
  <2> QED BY <2>1, <2>2
<1>5. CASE pc = "score_events"
  BY <1>1, <1>2, <1>3, <1>4, <1>5 DEF pageVars
<1>6. CASE pc = "game_state"
  <2>1. listenerSession(read[1])
    BY <1>1, <1>6 DEF listenerApplies
  <2> QED BY <1>1, <1>2, <1>3, <1>4, <1>6, <2>1 DEF listenerSession, listenerVars
<1>7. CASE pc = "rounds"
  <2>1. listenerRound(read[1])
    BY <1>1, <1>7 DEF listenerApplies
  <2> QED BY <1>1, <1>2, <1>3, <1>4, <1>7, <2>1 DEF listenerRound, listenerVars, pageVars
<1>8. CASE pc = "live_stats"
  <2>1. applyStats(read[1])
    BY <1>1, <1>8 DEF listenerApplies
  <2> QED BY <1>1, <1>2, <1>3, <1>4, <1>8, <2>1 DEF applyStats, pageVars
<1> QED BY <1>2, <1>5, <1>6, <1>7, <1>8

\* No score is under way before they are asked for.
LEMMA NoneOnWay ==
  ASSUME FeedInv, subs["score_events"] = "off"
  PROVE  \A i \in 1 .. Len(feed) : feed[i].of # "score_events"
BY DEF FeedInv, Asking

LEMMA CountReturns ==
  ASSUME FeedInv, CountInv, page = "listener", ListenerReadReturns, UNCHANGED page
  PROVE  CountInv'
<1>1. /\ UNCHANGED <<session, events, feed>> /\ read' = Unread /\ read # Unread
      /\ IF pc = "score_events" THEN totals' = totals + read[1] ELSE totals' = totals
      /\ pc' = listenerAfter(pc) /\ pc \in {"game_state", "rounds", "score_events", "live_stats"}
  BY BoardRead
<1>2. CASE pc = "score_events"
  <2>1. totals = 0 /\ read[1] \in 0 .. Len(events) /\ pc' = "live_stats"
    BY <1>1, <1>2 DEF CountInv, listenerAfter
  <2>2. totals' \in 0 .. Len(events)
    BY <1>1, <1>2, <2>1
  <2>3. Uncounted(feed', totals', Len(events))
    BY <1>1, <1>2, NoneOnWay DEF Uncounted, FeedInv, Asking
  <2> QED BY <1>1, <2>1, <2>2, <2>3 DEF CountInv, Split
<1>3. CASE pc # "score_events"
  <2>1. pc' \in {"game_state", "rounds", "score_events"} => pc \in {"game_state", "rounds"}
    BY <1>1, <1>3 DEF listenerAfter
  <2> QED BY <1>1, <1>3, <2>1 DEF CountInv, Split
<1> QED BY <1>2, <1>3

LEMMA ScoreReturns ==
  ASSUME FeedInv, CountInv, ScoreInv, page = "listener", ListenerReadReturns, UNCHANGED page
  PROVE  ScoreInv'
<1>1. /\ UNCHANGED <<session, published, events, feed>> /\ read' = Unread /\ read # Unread
      /\ IF pc = "score_events" THEN totals' = totals + read[1] ELSE totals' = totals
      /\ pc # "game_state" => sessionId' = sessionId
      /\ subs'["score_events"] = IF pc = "score_events" THEN "asked" ELSE subs["score_events"]
      /\ "score_events" \in missed => "score_events" \in missed'
      /\ pc = "score_events" /\ "score_events" \notin missed' => {read[2], sessionId} \subseteq {0, session}
  BY BoardRead
<1>2. ASSUME "score_events" \notin missed', NEW b \in Nat, Split(b)' PROVE Counting(b)'
  <2>1. Split(b) /\ Counting(b)
    BY <1>1, <1>2 DEF ScoreInv, Split
  <2>2. /\ Len(events) \in Nat /\ b <= Len(events)
    BY <2>1, SplitFacts DEF FeedInv
  <2>3. CASE pc = "score_events"
    <3>1. totals = 0 /\ read[1] \in 0 .. Len(events)
      BY <1>1, <2>3 DEF CountInv
    <3>2. read[1] >= Len(events) - b
      BY <1>1, <1>2, <2>1, <2>3 DEF Counting
    <3>3. \A i \in b + 1 .. Len(events) : totals' >= i - b
      BY <1>1, <2>2, <2>3, <3>1, <3>2
    <3> QED BY <1>1, <3>3 DEF Counting
  <2>4. CASE pc = "game_state"
    <3>1. subs'["score_events"] = "off"
      BY <1>1, <2>4 DEF FeedInv, Asking
    <3> QED BY <1>1, <3>1 DEF Counting
  <2>5. CASE pc \notin {"score_events", "game_state"}
    BY <1>1, <2>1, <2>5 DEF Counting
  <2> QED BY <2>3, <2>4, <2>5
<1> QED BY <1>1, <1>2 DEF ScoreInv, ScoresFirst

LEMMA CountFails ==
  ASSUME FeedInv, CountInv, page = "listener", ListenerReadFails, UNCHANGED page
  PROVE  CountInv'
<1>1. /\ UNCHANGED <<session, events, totals, feed>> /\ read' = Unread
      /\ pc' = listenerAfter(pc) /\ pc \in {"game_state", "rounds", "score_events", "live_stats"}
  BY DEF ListenerReadFails, dbVars, moreVars, listenerVars, FeedInv, Asking
<1>2. pc' \in {"game_state", "rounds", "score_events"} => pc \in {"game_state", "rounds"}
  BY <1>1 DEF listenerAfter
<1> QED BY <1>1, <1>2 DEF CountInv, Split

LEMMA ScoreFails ==
  ASSUME FeedInv, CountInv, ScoreInv, page = "listener", ListenerReadFails, UNCHANGED page
  PROVE  ScoreInv'
<1>1. /\ UNCHANGED <<session, published, events, totals, feed, sessionId>> /\ read' = Unread
      /\ missed' = missed \cup {pc} /\ Asks
  BY DEF ListenerReadFails, dbVars, moreVars, listenerVars, pageVars
<1>2. pc # "score_events" => subs'["score_events"] = subs["score_events"]
  BY <1>1 DEF Asks, ListenerAsks, Collections
<1>3. ASSUME "score_events" \notin missed', NEW b \in Nat, Split(b)' PROVE Counting(b)'
  <2>1. Counting(b)
    BY <1>1, <1>3 DEF ScoreInv, Split
  <2> QED BY <1>1, <1>2, <1>3, <2>1 DEF Counting
<1> QED BY <1>1, <1>3 DEF ScoreInv, ScoresFirst

-----------------------------------------------------------------------------
(* The scoreboard as the runner writes.                                    *)

LEMMA RoundTold ==
  ASSUME FeedInv, RoundOpens \/ RoundMoves
  PROVE  \E rec \in ToldRounds : Told("rounds", rec)
<1>1. session \in Sessions /\ rounds[session] \in Rows /\ rounds \in [Sessions -> Rows]
  BY DEF FeedInv, DbTyped
<1>2. CASE RoundOpens
  <2>1. PICK q \in Questions :
          Told("rounds", [session |-> session, row |-> opened + 1, question |-> q, state |-> "active"])
    BY <1>2 DEF RoundOpens
  <2>2. opened + 1 \in 1 .. MaxRounds
    BY <1>2, BoundsAssumption DEF RoundOpens, FeedInv, DbTyped
  <2>3. [session |-> session, row |-> opened + 1, question |-> q, state |-> "active"] \in ToldRounds
    BY <1>1, <2>2 DEF ToldRounds, RoundsWith, Stages
  <2> QED BY <2>1, <2>3
<1>3. CASE RoundMoves
  <2>1. /\ rounds[session].state \in {"active", "closing", "revealed"}
        /\ rounds' = [rounds EXCEPT ![session].state = Later[@]]
        /\ Told("rounds", Payload(rounds'[session]))
    BY <1>3 DEF RoundMoves, Later
  <2>2. rounds'[session] = [rounds[session] EXCEPT !.state = Later[@]]
    BY <1>1, <2>1
  <2>3. rounds[session] \in RoundsWith(Stages) /\ Later[rounds[session].state] \in Stages
    BY <1>1, <2>1 DEF Rows, NoRound, Later, Stages
  <2>4. rounds'[session] \in RoundsWith(Stages)
    BY <2>2, <2>3 DEF RoundsWith
  <2>5. rounds'[session] \in Rows /\ rounds'[session] # NoRound
    BY <2>4, BoundsAssumption DEF Rows, NoRound, RoundsWith, Sessions
  <2>6. Payload(rounds'[session]) \in ToldRounds
    BY <2>5, PayloadFacts
  <2> QED BY <2>1, <2>6
<1> QED BY <1>2, <1>3

\* What is written on a listener's page but scores.
OtherWrite ==
  \/ (NewSession \/ Publish \/ RoundOpens \/ RoundMoves \/ SubscriptionsLive) /\ UNCHANGED moreVars
  \/ CountsPublished

LEMMA OtherTells ==
  ASSUME FeedInv, OtherWrite
  PROVE  \E c \in Collections \ {"score_events"} : \E rec \in Records(c) :
           /\ Tells(c, rec) /\ session' \in Sessions /\ session' >= session
           /\ UNCHANGED <<events, totals, pc, read, sessionId>>
           /\ subs'["score_events"] # "off" => subs["score_events"] # "off"
           /\ "score_events" \in missed => "score_events" \in missed'
           /\ c = "game_state" /\ feed' # feed => rec = session' /\ (session' > session \/ published # session)
           /\ published' \in {published, session'} /\ (Lagging = FALSE /\ published = session => published' = session')
<1> DEFINE Claim(c, rec) ==
      /\ Tells(c, rec) /\ session' \in Sessions /\ session' >= session
      /\ UNCHANGED <<events, totals, pc, read, sessionId>>
      /\ subs'["score_events"] # "off" => subs["score_events"] # "off"
      /\ "score_events" \in missed => "score_events" \in missed'
      /\ c = "game_state" /\ feed' # feed => rec = session' /\ (session' > session \/ published # session)
      /\ published' \in {published, session'} /\ (Lagging = FALSE /\ published = session => published' = session')
<1>1. /\ session \in Sessions /\ session \in Nat /\ Sessions = 1 .. MaxSessions /\ MaxSessions \in Nat
      /\ {"game_state", "rounds", "live_stats"} \subseteq Collections \ {"score_events"}
      /\ stats \in [session : 0 .. MaxSessions, count : Nat]
  BY BoundsAssumption DEF FeedInv, DbTyped, Sessions, Collections
<1>2. CASE NewSession /\ UNCHANGED moreVars
  <2>1. session' \in Sessions /\ session' = session + 1 /\ session' \in Records("game_state")
    BY <1>1, <1>2, RecordFacts DEF NewSession
  <2>2. Claim("game_state", session')
    BY <1>1, <1>2, <2>1 DEF NewSession, Told, Tells, moreVars, listenerVars, pageVars
  <2> QED BY <1>1, <2>1, <2>2
<1>3. CASE Publish /\ UNCHANGED moreVars
  <2>1. session' = session /\ session \in Records("game_state")
    BY <1>1, <1>3, RecordFacts DEF Publish
  <2>2. Claim("game_state", session)
    BY <1>1, <1>3, <2>1 DEF Publish, Told, Tells, moreVars, listenerVars, pageVars
  <2> QED BY <1>1, <2>1, <2>2
<1>4. CASE (RoundOpens \/ RoundMoves) /\ UNCHANGED moreVars
  <2>1. PICK rec \in ToldRounds : Told("rounds", rec)
    BY <1>4, RoundTold
  <2>2. UNCHANGED <<session, published, events, totals, pc, read, subs, sessionId>>
    BY <1>4 DEF RoundOpens, RoundMoves, moreVars, listenerVars, pageVars
  <2>3. Claim("rounds", rec)
    BY <1>1, <2>1, <2>2 DEF Told, Tells
  <2> QED BY <1>1, <2>1, <2>3, RecordFacts
<1>5. CASE SubscriptionsLive /\ UNCHANGED moreVars
  <2>1. /\ UNCHANGED <<session, published, feed, missed, events, totals, pc, read, sessionId>>
        /\ subs' = [c \in Collections |-> IF subs[c] = "asked" THEN "live" ELSE subs[c]]
    BY <1>5 DEF SubscriptionsLive, dbVars, moreVars, listenerVars, pageVars
  <2>2. subs'["score_events"] # "off" => subs["score_events"] # "off"
    BY <2>1 DEF Collections
  <2>3. Claim("game_state", session)
    BY <1>1, <2>1, <2>2 DEF Tells
  <2> QED BY <1>1, <2>3, RecordFacts
<1>6. CASE CountsPublished
  <2>1. /\ UNCHANGED <<session, published, events, totals, pc, read, subs, sessionId>>
        /\ Told("live_stats", stats') /\ stats' = [session |-> session, count |-> stats.count + 1]
    BY <1>6 DEF CountsPublished, dbVars, listenerVars, pageVars
  <2>2. stats' \in Records("live_stats")
    <3>1. session \in 0 .. MaxSessions /\ stats.count + 1 \in Nat
      BY <1>1
    <3> QED BY <2>1, <3>1, RecordFacts
  <2>3. Claim("live_stats", stats')
    BY <1>1, <2>1 DEF Told, Tells
  <2> QED BY <1>1, <2>2, <2>3
<1> QED BY <1>2, <1>3, <1>4, <1>5, <1>6 DEF OtherWrite

LEMMA CountOther ==
  ASSUME FeedInv, CountInv, OtherWrite, UNCHANGED page
  PROVE  CountInv'
BY OtherTells, CountWrite

LEMMA ScoreOther ==
  ASSUME FeedInv, CountInv, ScoreInv, Lagging = FALSE, OtherWrite, UNCHANGED page
  PROVE  ScoreInv'
<1>1. events # << >> => published = session
  BY DEF ScoreInv
<1> QED BY <1>1, OtherTells, ScoreWrite

\* A score is written.
LEMMA CountScores ==
  ASSUME FeedInv, CountInv, page = "listener", Scores, UNCHANGED page
  PROVE  CountInv'
<1>1. /\ session' = session /\ events' = Append(events, session) /\ events \in Seq(Sessions) /\ session \in Sessions
      /\ Tells("score_events", Len(events')) /\ UNCHANGED <<totals, pc, read>>
      /\ LinkTyped /\ DbTyped
  BY DEF Scores, dbVars, listenerVars, Tells, FeedInv, DbTyped
<1>2. /\ Len(events) \in Nat /\ Len(events') = Len(events) + 1
      /\ \A i \in 1 .. Len(events) : events'[i] = events[i]
      /\ events'[Len(events) + 1] = session
  BY <1>1
<1>3. \E b \in Nat : Split(b)'
  <2>1. PICK b \in Nat : Split(b)
    BY DEF CountInv
  <2>2. b <= Len(events)
    BY <2>1 DEF Split
  <2>3. Split(b)'
    BY <1>1, <1>2, <2>1, <2>2 DEF Split
  <2> QED BY <2>3
<1>4. totals \in 0 .. Len(events)
  BY DEF CountInv
<1>5. totals' \in 0 .. Len(events')
  BY <1>1, <1>2, <1>4
<1>6. Uncounted(feed', totals', Len(events'))
  <2>1. \A i \in 1 .. Len(feed) : feed[i].of = "score_events" => feed[i].rec \in Nat
    <3> SUFFICES ASSUME NEW i \in 1 .. Len(feed), feed[i].of = "score_events" PROVE feed[i].rec \in Nat
      OBVIOUS
    <3>1. feed[i] \in Event /\ feed[i].rec \in Records("score_events")
      BY <1>1, EventFacts DEF LinkTyped
    <3> QED BY <3>1, RecordFacts
  <2>2. CASE feed' = feed
    BY <1>1, <1>2, <1>4, <2>1, <2>2 DEF CountInv, Uncounted
  <2>3. CASE feed' = Append(feed, [of |-> "score_events", rec |-> Len(events')])
    <3>1. "score_events" \in Collections /\ Len(events') \in Records("score_events")
      BY <1>2, RecordFacts DEF Collections
    <3>2. /\ Len(feed) \in Nat /\ Len(feed') = Len(feed) + 1
          /\ \A i \in 1 .. Len(feed) : feed'[i] = feed[i]
          /\ feed'[Len(feed) + 1] = [of |-> "score_events", rec |-> Len(events')]
      BY <1>1, <2>3, <3>1, ToldLast
    <3> SUFFICES ASSUME NEW i \in 1 .. Len(feed'), feed'[i].of = "score_events"
                 PROVE  /\ totals' < feed'[i].rec /\ feed'[i].rec <= Len(events')
                        /\ \A j \in 1 .. Len(feed') : i < j /\ feed'[j].of = "score_events" => feed'[i].rec < feed'[j].rec
      BY DEF Uncounted
    <3>3. CASE i \in 1 .. Len(feed)
      <4>1. feed'[i] = feed[i] /\ totals < feed[i].rec /\ feed[i].rec <= Len(events) /\ feed[i].rec \in Nat
        BY <2>1, <3>2, <3>3 DEF CountInv, Uncounted
      <4>2. ASSUME NEW j \in 1 .. Len(feed'), i < j, feed'[j].of = "score_events" PROVE feed'[i].rec < feed'[j].rec
        <5>1. CASE j \in 1 .. Len(feed)
          BY <3>2, <3>3, <4>1, <4>2, <5>1 DEF CountInv, Uncounted
        <5>2. CASE j = Len(feed) + 1
          BY <1>2, <3>2, <4>1, <5>2
        <5> QED BY <3>2, <5>1, <5>2
      <4> QED BY <1>1, <1>2, <4>1, <4>2
    <3>4. CASE i = Len(feed) + 1
      <4>1. feed'[i].rec = Len(events) + 1
        BY <1>2, <3>2, <3>4
      <4> QED BY <1>1, <1>2, <1>4, <3>2, <3>4, <4>1
    <3> QED BY <3>2, <3>3, <3>4
  <2> QED BY <1>1, <2>2, <2>3 DEF Tells
<1>7. pc = "score_events" /\ read # Unread => read[1] \in 0 .. Len(events')
  BY <1>2 DEF CountInv
<1> QED BY <1>1, <1>3, <1>5, <1>6, <1>7 DEF CountInv

LEMMA ScoreScores ==
  ASSUME FeedInv, CountInv, ScoreInv, AnnouncedInv, page = "listener", Scores, UNCHANGED page
  PROVE  ScoreInv'
<1>1. /\ UNCHANGED <<session, published, totals, pc, read, subs, sessionId>>
      /\ events' = Append(events, session) /\ events \in Seq(Sessions) /\ session \in Sessions
      /\ Tells("score_events", Len(events'))
      /\ subs["score_events"] = "live" => feed' # feed
      /\ LinkTyped /\ DbTyped
  <2>1. feed \in Seq(Event) /\ "score_events" \in Collections
    BY DEF FeedInv, LinkTyped, Collections
  <2>2. subs["score_events"] = "live" => feed' = Append(feed, [of |-> "score_events", rec |-> Len(events')])
    BY DEF Scores
  <2>3. subs["score_events"] = "live" => feed' # feed
    BY <2>1, <2>2
  <2> QED BY <2>3 DEF Scores, dbVars, listenerVars, pageVars, Tells, FeedInv, DbTyped
<1>2. /\ Len(events) \in Nat /\ Len(events') = Len(events) + 1
      /\ \A i \in 1 .. Len(events) : events'[i] = events[i]
      /\ events'[Len(events) + 1] = session
  BY <1>1
<1>3. published' = session'
  <2>1. rounds[session].state # "none"
    BY DEF Scores
  <2> QED BY <1>1, <2>1, RoundIsAnnounced
<1>4. feed' # feed => /\ Len(feed) \in Nat /\ Len(feed') = Len(feed) + 1
                      /\ \A i \in 1 .. Len(feed) : feed'[i] = feed[i]
                      /\ feed'[Len(feed) + 1] = [of |-> "score_events", rec |-> Len(events')]
  <2>1. "score_events" \in Collections /\ Len(events') \in Records("score_events")
    BY <1>2, RecordFacts DEF Collections
  <2> QED BY <1>1, <2>1, ToldLast DEF Tells
<1>5. ScoresFirst'
  <2> SUFFICES ASSUME NEW i \in 1 .. Len(feed'), NEW j \in 1 .. Len(feed'), i < j,
                      feed'[i].of = "score_events", feed'[j].of = "game_state"
               PROVE  events'[feed'[i].rec] < feed'[j].rec
    BY DEF ScoresFirst
  <2>1. i \in 1 .. Len(feed) /\ j \in 1 .. Len(feed) /\ feed'[i] = feed[i] /\ feed'[j] = feed[j]
    BY <1>4
  <2>2. feed[i].rec \in 1 .. Len(events)
    <3>1. feed[i] \in Event /\ feed[i].rec \in Records("score_events")
      BY <1>1, <2>1, EventFacts DEF LinkTyped
    <3>2. feed[i].rec \in Nat \ {0} /\ feed[i].rec <= Len(events)
      BY <2>1, <3>1, RecordFacts DEF CountInv, Uncounted
    <3> QED BY <1>2, <3>2
  <2> QED BY <1>2, <2>1, <2>2 DEF ScoreInv, ScoresFirst
<1>6. ASSUME "score_events" \notin missed', NEW b \in Nat, Split(b)' PROVE Counting(b)'
  <2>1. b <= Len(events)
    <3>1. b # Len(events) + 1
      <4> SUFFICES ASSUME b = Len(events) + 1 PROVE FALSE
        OBVIOUS
      <4>1. events'[Len(events) + 1] < session
        BY <1>1, <1>2, <1>6 DEF Split
      <4> QED BY <1>2, <4>1, BoundsAssumption DEF FeedInv, DbTyped, Sessions
    <3>2. b \in 0 .. Len(events) + 1
      BY <1>2, <1>6 DEF Split
    <3> QED BY <1>2, <3>1, <3>2
  <2>2. Split(b)
    BY <1>1, <1>2, <1>6, <2>1 DEF Split
  <2>3. /\ missed' = IF subs["score_events"] # "live" /\ HasRead("score_events")
                     THEN missed \cup {"score_events"} ELSE missed
    BY DEF Scores
  <2>4. Counting(b) /\ (subs["score_events"] = "live" \/ ~HasRead("score_events"))
    BY <1>6, <2>2, <2>3 DEF ScoreInv
  <2>5. ~(pc = "score_events" /\ read # Unread)
    <3>1. pc = "score_events" => subs["score_events"] = "off"
      BY DEF FeedInv, Asking
    <3> QED BY <2>4, <3>1 DEF HasRead
  <2>6. ASSUME subs["score_events"] # "off", Comes(feed', Len(feed'), sessionId, session),
               NEW i \in b + 1 .. Len(events')
        PROVE  totals >= i - b \/ OnWay(feed', i)
    <3>1. subs["score_events"] = "live"
      BY <2>4, <2>6 DEF HasRead, FeedInv, LinkTyped, Collections
    <3>2. feed' = Append(feed, [of |-> "score_events", rec |-> Len(events')])
      BY <1>1, <3>1 DEF Tells
    <3>3. CASE i = Len(events) + 1
      <4>1. Len(feed) + 1 \in 1 .. Len(feed')
        BY <1>1, <1>4, <3>1
      <4> QED BY <1>1, <1>2, <1>4, <3>1, <3>3, <4>1 DEF OnWay
    <3>4. CASE i # Len(events) + 1
      <4>1. i \in b + 1 .. Len(events)
        BY <1>2, <3>4
      <4>2. [of |-> "score_events", rec |-> Len(events')] \in Event /\ feed \in Seq(Event)
        <5>1. "score_events" \in Collections /\ Len(events') \in Records("score_events")
          BY <1>2, RecordFacts DEF Collections
        <5> QED BY <1>1, <5>1, EventMade DEF LinkTyped
      <4>3. Comes(feed, Len(feed), sessionId, session)
        BY <2>6, <3>2, <4>2, AppendComes
      <4>4. totals >= i - b \/ OnWay(feed, i)
        BY <2>4, <2>6, <4>1, <4>3 DEF Counting
      <4>5. OnWay(feed, i) => OnWay(feed', i)
        BY <1>1, <1>4, <3>1 DEF OnWay
      <4> QED BY <4>4, <4>5
    <3> QED BY <3>3, <3>4
  <2> QED BY <1>1, <2>5, <2>6 DEF Counting
<1> QED BY <1>3, <1>5, <1>6 DEF ScoreInv

\* A player's page has no scoreboard, and no scores are written for it.
LEMMA NoBoard ==
  ASSUME FeedInv, FeedInv', CountInv, page = "player", UNCHANGED <<page, moreVars>>
  PROVE  CountInv' /\ (ScoreInv => ScoreInv')
<1>1. /\ page' = "player" /\ events = << >> /\ events' = events /\ totals' = totals /\ Len(events) = 0
      /\ pc' # "score_events" /\ subs'["score_events"] = "off"
  BY DEF CountInv, moreVars, listenerVars, FeedInv, Asking
<1>2. \A i \in 1 .. Len(feed') : feed'[i].of # "score_events"
  BY <1>1 DEF FeedInv, Asking
<1>3. totals = 0
  BY <1>1 DEF CountInv
<1>4. Split(0)' /\ Uncounted(feed', totals', Len(events'))
  BY <1>1, <1>2 DEF Split, Uncounted
<1>5. CountInv'
  BY <1>1, <1>3, <1>4 DEF CountInv
<1>6. ScoreInv'
  BY <1>1, <1>2 DEF ScoreInv, ScoresFirst, Counting
<1> QED BY <1>5, <1>6

LEMMA BoardInit == PagesInit => CountInv /\ ScoreInv
<1> SUFFICES ASSUME PagesInit PROVE CountInv /\ ScoreInv
  OBVIOUS
<1>1. Len(feed) = 0 /\ events = << >> /\ Len(events) = 0 /\ totals = 0 /\ read = Unread /\ pc # "score_events"
  BY DEF PagesInit, Init
<1>2. subs["score_events"] = "off"
  BY DEF PagesInit, Init, Collections
<1>3. Split(0) /\ Uncounted(feed, totals, Len(events))
  BY <1>1 DEF Split, Uncounted
<1>4. CountInv
  BY <1>1, <1>3 DEF CountInv
<1>5. ScoreInv
  BY <1>1, <1>2 DEF ScoreInv, ScoresFirst, Counting
<1> QED BY <1>4, <1>5

LEMMA CountNext == FeedInv /\ FeedInv' /\ CountInv /\ [PagesNext]_allVars => CountInv'
<1> SUFFICES ASSUME FeedInv, FeedInv', CountInv, [PagesNext]_allVars PROVE CountInv'
  OBVIOUS
<1>1. CASE BothPages /\ UNCHANGED <<page, moreVars>>
  BY <1>1, CountOther DEF BothPages, OtherWrite
<1>2. CASE ConnectionDrops /\ UNCHANGED <<page, moreVars>>
  BY <1>2, CountDrops
<1>3. CASE page = "player" /\ PlayerPage /\ UNCHANGED <<page, moreVars>>
  BY <1>3, NoBoard
<1>4. CASE page = "listener" /\ (Listener \/ Scores \/ CountsPublished) /\ UNCHANGED page
  BY <1>4, CountEvent, CountServed, CountReturns, CountFails, CountScores, CountOther DEF Listener, OtherWrite
<1>5. CASE UNCHANGED allVars
  BY <1>5 DEF allVars, vars, dbVars, pageVars, linkVars, moreVars, listenerVars, CountInv, Split
<1> QED BY <1>1, <1>2, <1>3, <1>4, <1>5 DEF PagesNext

LEMMA ScoreNext ==
  ASSUME Lagging = FALSE
  PROVE  FeedInv /\ FeedInv' /\ HeardInv /\ CountInv /\ ScoreInv /\ [PagesNext]_allVars => ScoreInv'
<1> SUFFICES ASSUME FeedInv, FeedInv', HeardInv, CountInv, ScoreInv, [PagesNext]_allVars PROVE ScoreInv'
  OBVIOUS
<1>1. CASE BothPages /\ UNCHANGED <<page, moreVars>>
  BY <1>1, ScoreOther DEF BothPages, OtherWrite
<1>2. CASE ConnectionDrops /\ UNCHANGED <<page, moreVars>>
  BY <1>2, ScoreDrops
<1>3. CASE page = "player" /\ PlayerPage /\ UNCHANGED <<page, moreVars>>
  BY <1>3, NoBoard
<1>4. CASE page = "listener" /\ (Listener \/ Scores \/ CountsPublished) /\ UNCHANGED page
  BY <1>4, ScoreEvent, ScoreServed, ScoreReturns, ScoreFails, ScoreScores, ScoreOther DEF Listener, OtherWrite, HeardInv
<1>5. CASE UNCHANGED allVars
  BY <1>5 DEF allVars, vars, dbVars, pageVars, linkVars, moreVars, listenerVars, ScoreInv, ScoresFirst, Counting, Split
<1> QED BY <1>1, <1>2, <1>3, <1>4, <1>5 DEF PagesNext

\* The score events under way to a listener are those its scoreboard has not
\* counted (bump of TaskListener.svelte, over the read of connectListener).
THEOREM CountInvariant == PagesSpec => []CountInv
BY BoardInit, CountNext, FeedInvariant, PTL DEF PagesSpec

\* No score event is counted twice; and if a session is announced before its
\* rows are written, a listener that has missed nothing and has all there is
\* has counted every score of the session.
THEOREM ScoresCountOnce ==
  ASSUME Lagging = FALSE
  PROVE  PagesSpec => []EachScoreOnce
<1>1. FeedInv /\ CountInv /\ ScoreInv => EachScoreOnce
  <2> SUFFICES ASSUME FeedInv, CountInv, ScoreInv, page = "listener" PROVE
        /\ totals <= Len(events)
        /\ Quiet => totals >= Cardinality({i \in DOMAIN events : events[i] = session})
    BY DEF EachScoreOnce
  <2>1. /\ DbTyped /\ Len(events) \in Nat /\ totals \in Nat /\ totals <= Len(events)
        /\ DOMAIN events = 1 .. Len(events)
    BY DEF FeedInv, DbTyped, CountInv
  <2>2. ASSUME Quiet PROVE totals >= Cardinality({i \in DOMAIN events : events[i] = session})
    <3>1. PICK b \in Nat : Split(b)
      BY DEF CountInv
    <3>2. /\ b <= Len(events)
          /\ \A i \in b + 1 .. Len(events) : i \in 1 .. Len(events) /\ events[i] = session
      BY <2>1, <3>1, SplitFacts
    <3>3. \A i \in 1 .. Len(events) : i \notin b + 1 .. Len(events) => events[i] # session
      <4> SUFFICES ASSUME NEW i \in 1 .. Len(events), i \notin b + 1 .. Len(events) PROVE events[i] # session
        OBVIOUS
      <4>1. i <= b
        BY <2>1, <3>1
      <4>2. events[i] < session /\ session \in Nat
        BY <2>1, <3>1, <4>1, SplitFacts DEF Split
      <4> QED BY <4>2
    <3>4. {i \in DOMAIN events : events[i] = session} = b + 1 .. Len(events)
      BY <2>1, <3>2, <3>3
    <3>5. Cardinality(b + 1 .. Len(events)) = IF b + 1 > Len(events) THEN 0 ELSE Len(events) - (b + 1) + 1
      <4>1. b + 1 \in Int /\ Len(events) \in Int
        BY <2>1
      <4> QED BY <4>1, FS_Interval, Zenon
    <3>6. b < Len(events) => totals >= Len(events) - b
      <4>1. subs["score_events"] # "off" /\ Len(feed) = 0 /\ "score_events" \notin missed /\ sessionId = session
        BY <2>2 DEF Quiet, FeedInv, Asking
      <4>2. Comes(feed, Len(feed), sessionId, session) /\ \A i : ~OnWay(feed, i)
        BY <4>1 DEF Comes, OnWay
      <4>3. Counting(b)
        BY <3>1, <4>1 DEF ScoreInv
      <4>4. b < Len(events) => Len(events) \in b + 1 .. Len(events)
        BY <2>1
      <4> QED BY <4>1, <4>2, <4>3, <4>4 DEF Counting
    <3>7. totals >= Cardinality(b + 1 .. Len(events))
      <4>1. CASE b < Len(events)
        <5>1. Cardinality(b + 1 .. Len(events)) = Len(events) - b
          BY <2>1, <3>5, <4>1
        <5> QED BY <3>6, <4>1, <5>1
      <4>2. CASE b = Len(events)
        <5>1. Cardinality(b + 1 .. Len(events)) = 0
          BY <2>1, <3>5, <4>2
        <5> QED BY <2>1, <5>1
      <4>3. b \in Nat /\ b <= Len(events) /\ Len(events) \in Nat
        BY <2>1, <3>1, <3>2, SplitFacts
      <4>4. b < Len(events) \/ b = Len(events)
        BY <4>3
      <4> QED BY <4>1, <4>2, <4>4
    <3> QED BY <3>4, <3>7
  <2> QED BY <2>1, <2>2
<1>2. FeedInv /\ FeedInv' /\ HeardInv /\ CountInv /\ ScoreInv /\ [PagesNext]_allVars => ScoreInv'
  BY ScoreNext
<1>3. PagesSpec => []ScoreInv
  BY <1>2, BoardInit, FeedInvariant, HeardInvariant, CountInvariant, PTL DEF PagesSpec
<1> QED BY <1>1, <1>3, FeedInvariant, CountInvariant, PTL
=============================================================================
