----------------------------- MODULE PhoneAudio -----------------------------
(***************************************************************************)
(* The sound of one page (apps/frontend/src/lib/audio.svelte.js).  A round *)
(* is heard either on the personal stream, a live channel into which the   *)
(* runner injects the same file, or from its file on the narration         *)
(* element; the browser plays nothing before a tap has unlocked it.        *)
(*                                                                         *)
(* The two media elements are modelled from their use: play() is under way *)
(* ("starting") until it plays, is refused, or fails; setting src or       *)
(* calling pause() aborts it.  The rejection of an aborted play() is       *)
(* handled in the step that aborts it.                                     *)
(***************************************************************************)
CONSTANTS Urls, NoUrl, Silence

ASSUME UrlAssumption == NoUrl \notin Urls /\ Silence \notin Urls /\ NoUrl # Silence

VARIABLES
  audio,   \* the exported state
  el,      \* the narration element, and its onended
  stream,  \* the personal stream's element
  latest,  \* latestFallbackUrl
  air,     \* the file the runner is injecting into the channel
  due      \* history: what was last asked for and not yet heard

sound == <<audio, el, stream, latest>>
asked == <<air, due>>
audioVars == <<sound, asked>>

\* The state of a page, as the functions of the module pass it on.
Page == [unlocked |-> audio.unlocked, overlayVisible |-> audio.overlayVisible,
         pendingUrl |-> audio.pendingUrl, streamUrl |-> audio.streamUrl,
         streamConnected |-> audio.streamConnected,
         src |-> el.src, el |-> el.is, onended |-> el.onended,
         stream |-> stream, latest |-> latest]

Becomes(s) ==
  /\ audio' = [unlocked |-> s.unlocked, overlayVisible |-> s.overlayVisible,
               pendingUrl |-> s.pendingUrl, streamUrl |-> s.streamUrl,
               streamConnected |-> s.streamConnected]
  /\ el' = [src |-> s.src, is |-> s.el, onended |-> s.onended]
  /\ stream' = s.stream
  /\ latest' = s.latest

\* The page is heard playing the file.
Heard(url) ==
  /\ due' = IF due = url THEN NoUrl ELSE due
  /\ UNCHANGED air

AudioInit ==
  /\ audio = [unlocked |-> FALSE, overlayVisible |-> FALSE, pendingUrl |-> NoUrl,
              streamUrl |-> FALSE, streamConnected |-> FALSE]
  /\ el = [src |-> NoUrl, is |-> "paused", onended |-> FALSE]
  /\ stream = "paused"
  /\ latest = NoUrl
  /\ air = NoUrl
  /\ due = NoUrl

-----------------------------------------------------------------------------
(* The functions of the module, as changes of the page's state.            *)

startPersonalStream(s) ==
  IF s.streamUrl /\ s.unlocked /\ s.stream = "paused"
    THEN [s EXCEPT !.stream = "starting"] ELSE s

\* Faulty variant: a locked page keeps the file but asks for no tap.
playDirectNoOverlay(s, url) ==
  IF url = NoUrl THEN s
  ELSE IF ~s.unlocked THEN [s EXCEPT !.pendingUrl = url]
  ELSE [s EXCEPT !.pendingUrl = NoUrl, !.src = url, !.el = "starting"]

playDirect(s, url) ==
  IF url = NoUrl THEN s
  ELSE IF ~s.unlocked THEN [s EXCEPT !.pendingUrl = url, !.overlayVisible = TRUE]
  ELSE [s EXCEPT !.pendingUrl = NoUrl, !.src = url, !.el = "starting"]

playAudio(s, url) ==
  LET t == [s EXCEPT !.latest = url] IN
  IF t.streamUrl /\ t.streamConnected THEN t
  ELSE IF t.streamUrl /\ t.unlocked THEN startPersonalStream(t)
  ELSE playDirect(t, url)

unlockAudio(s) ==
  LET t == [s EXCEPT !.unlocked = TRUE, !.overlayVisible = FALSE] IN
  IF s.unlocked THEN s
  ELSE IF t.streamUrl THEN startPersonalStream(t)
  ELSE IF t.pendingUrl # NoUrl THEN playAudio(t, t.pendingUrl)
  ELSE [t EXCEPT !.src = Silence, !.el = "starting"]

\* The catch of startPersonalStream's play().
streamRefused(s) ==
  [s EXCEPT !.stream = "paused", !.streamConnected = FALSE, !.overlayVisible = TRUE]


\* The stream is paused for the replay and restarted when the file has ended.
replayAudio(s, url) ==
  LET paused == IF s.stream = "starting" THEN streamRefused(s) ELSE [s EXCEPT !.stream = "paused"] IN
  [playDirect(paused, url) EXCEPT !.onended = TRUE]

-----------------------------------------------------------------------------
(* The page's steps.                                                       *)

\* A round opens for the page (playRoundOnce, or syncAudio), and the runner starts
\* to inject its file, which a stream that plays is heard to carry.
Ask(url) ==
  /\ Becomes(playAudio(Page, url))
  /\ air' = url
  /\ due' = IF stream = "playing" THEN NoUrl ELSE url

\* The runner has injected the whole file: a stream that starts now carries none of it.
AirEnds ==
  /\ air # NoUrl
  /\ air' = NoUrl
  /\ UNCHANGED <<sound, due>>

\* The claim tap, a tap on the overlay, any gesture on the listener page.
Tap == Becomes(unlockAudio(Page)) /\ UNCHANGED asked

\* The button that plays the file of the round that is shown; who asks for another
\* file than the one that is due does without that one.
Replay(url) ==
  /\ Becomes(replayAudio(Page, url))
  /\ due' = IF url = due THEN due ELSE NoUrl
  /\ UNCHANGED air

\* configurePersonalStream's answer: there is a base, and the interval starts.
StreamConfigured ==
  /\ ~audio.streamUrl
  /\ Becomes(startPersonalStream([Page EXCEPT !.streamUrl = TRUE]))
  /\ UNCHANGED asked

\* The interval of configurePersonalStream.
Reconnect ==
  /\ audio.unlocked
  /\ audio.streamUrl
  /\ ~audio.streamConnected
  /\ Becomes(startPersonalStream(Page))
  /\ UNCHANGED asked

\* Player.svelte's effect: a bound player with a stream is asked up front.
AskUpFront ==
  /\ audio.streamUrl
  /\ ~audio.unlocked
  /\ Becomes([Page EXCEPT !.overlayVisible = TRUE])
  /\ UNCHANGED asked

-----------------------------------------------------------------------------
(* The browser's answers.                                                  *)

ElementPlays ==
  /\ el.is = "starting"
  /\ Becomes([Page EXCEPT !.el = "playing"])
  /\ Heard(el.src)

\* play() is refused, or its file cannot be loaded: an explicit tap is asked
\* for, unless it was the silent file of the unlocking.
ElementRefused ==
  /\ el.is = "starting"
  /\ Becomes(IF el.src = Silence THEN [Page EXCEPT !.el = "paused"]
             ELSE [Page EXCEPT !.el = "paused", !.unlocked = FALSE,
                               !.pendingUrl = el.src, !.overlayVisible = TRUE])
  /\ UNCHANGED asked

ElementEnds ==
  LET s == [Page EXCEPT !.el = "paused"] IN
  /\ el.is = "playing"
  /\ Becomes(IF el.onended THEN startPersonalStream(s) ELSE s)
  /\ UNCHANGED asked

\* Faulty variant: the file plays on under the stream.
StreamPlaysOver ==
  /\ stream = "starting"
  /\ Becomes([Page EXCEPT !.stream = "playing", !.streamConnected = TRUE])
  /\ Heard(air)

\* The "playing" event: the narration element is silenced.
StreamPlays ==
  /\ stream = "starting"
  /\ Becomes([Page EXCEPT !.stream = "playing", !.streamConnected = TRUE, !.el = "paused"])
  /\ Heard(air)

\* play() is refused by the browser.
StreamRefused ==
  /\ stream = "starting"
  /\ Becomes(streamRefused(Page))
  /\ UNCHANGED asked

\* The "error" event: the file is played instead; a play() under way is
\* rejected after it.
StreamErrors ==
  LET s == playDirect([Page EXCEPT !.stream = "paused", !.streamConnected = FALSE], latest) IN
  /\ \/ stream = "playing" /\ Becomes(s)
     \/ stream = "starting" /\ Becomes(streamRefused(s))
  /\ UNCHANGED asked

StreamEnded ==
  /\ stream = "playing"
  /\ Becomes([Page EXCEPT !.stream = "paused", !.streamConnected = FALSE])
  /\ UNCHANGED asked

Answers == ElementPlays \/ ElementRefused \/ ElementEnds \/ StreamPlays \/ StreamRefused \/ StreamErrors

Next ==
  \/ \E url \in Urls \cup {NoUrl} : Ask(url)
  \/ \E url \in Urls : Replay(url)
  \/ AirEnds \/ Tap \/ StreamConfigured \/ Reconnect \/ AskUpFront \/ Answers \/ StreamEnded

Spec == AudioInit /\ [][Next]_audioVars

\* The browser answers every play(), a file comes to its end, the interval
\* keeps firing, and the stream is not refused for ever.
Fairness ==
  /\ WF_audioVars(ElementPlays \/ ElementRefused \/ ElementEnds)
  /\ WF_audioVars(StreamPlays \/ StreamRefused \/ StreamErrors)
  /\ WF_audioVars(Reconnect)
  /\ SF_audioVars(StreamPlays \/ StreamErrors)

FairSpec == Spec /\ Fairness

-----------------------------------------------------------------------------
(* Properties.                                                             *)

TypeOK ==
  /\ audio \in [unlocked : BOOLEAN, overlayVisible : BOOLEAN, pendingUrl : Urls \cup {NoUrl},
                streamUrl : BOOLEAN, streamConnected : BOOLEAN]
  /\ el \in [src : Urls \cup {NoUrl, Silence}, is : {"paused", "starting", "playing"},
             onended : BOOLEAN]
  /\ stream \in {"paused", "starting", "playing"}
  /\ latest \in Urls \cup {NoUrl}
  /\ {air, due} \subseteq Urls \cup {NoUrl}

\* The file and the stream, which carries the same file, are never heard over
\* each other, whatever replays, reconnects and errors come between.
OneVoice == stream = "playing" => el.is = "paused"

\* A file that waits for the page to be unlocked is waited for under the
\* overlay: there is always something to tap.
PendingAsks == audio.pendingUrl # NoUrl /\ ~audio.unlocked => audio.overlayVisible

=============================================================================
