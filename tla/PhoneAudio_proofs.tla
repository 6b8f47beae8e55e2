-------------------------- MODULE PhoneAudio_proofs --------------------------
(***************************************************************************)
(* Proofs about PhoneAudio, for any files a round may ask for.             *)
(***************************************************************************)
EXTENDS PhoneAudio, TLAPS

Media == {"paused", "starting", "playing"}

\* A page as the functions of the module pass it on.
PageType ==
  [unlocked : BOOLEAN, overlayVisible : BOOLEAN, pendingUrl : Urls \cup {NoUrl},
   streamUrl : BOOLEAN, streamConnected : BOOLEAN, src : Urls \cup {NoUrl, Silence},
   el : Media, onended : BOOLEAN, stream : Media, latest : Urls \cup {NoUrl}]

(***************************************************************************)
(* The inductive part, of a page s: the stream is touched only when it is  *)
(* configured, counts as connected while it plays, and then the file is    *)
(* silent; a page that keeps a file for later shows the overlay.           *)
(***************************************************************************)
Quietly(s) ==
  /\ s.stream # "paused" => s.streamUrl
  /\ s.stream = "playing" => s.streamConnected /\ s.el = "paused"
  /\ s.pendingUrl # NoUrl /\ ~ s.unlocked => s.overlayVisible

Sound(s) == s \in PageType /\ Quietly(s)

Inv == TypeOK /\ Quietly(Page)

LEMMA PageIsTyped == TypeOK => Page \in PageType
BY DEF TypeOK, Page, PageType, Media

\* A step that brings a sound page about keeps the invariant.
LEMMA BecomesKeeps ==
  ASSUME NEW s, Sound(s), Becomes(s), {air, due}' \subseteq Urls \cup {NoUrl}
  PROVE  Inv'
<1>1. TypeOK'
  BY DEF Sound, Becomes, PageType, Media, TypeOK
<1>2. Quietly(Page)'
  BY DEF Sound, Becomes, Quietly, Page, PageType
<1> QED  BY <1>1, <1>2 DEF Inv

-----------------------------------------------------------------------------
(* The functions of the module keep a page sound.                          *)

LEMMA StartSound ==
  ASSUME NEW s, Sound(s) PROVE Sound(startPersonalStream(s))
BY DEF Sound, PageType, Media, Quietly, startPersonalStream

\* A file is played directly only while the stream is not heard.
LEMMA PlayDirectSound ==
  ASSUME NEW s, Sound(s), NEW url \in Urls \cup {NoUrl}, s.stream # "playing" \/ ~ s.unlocked
  PROVE  Sound(playDirect(s, url))
<1>1. Sound([s EXCEPT !.pendingUrl = url, !.overlayVisible = TRUE])
  BY DEF Sound, PageType, Media, Quietly
<1>2. CASE s.unlocked
  <2> DEFINE t == [s EXCEPT !.pendingUrl = NoUrl, !.src = url, !.el = "starting"]
  <2>1. t \in PageType
    BY DEF Sound, PageType, Media
  <2>2. Quietly(t)
    BY <1>2 DEF Sound, PageType, Quietly
  <2> QED  BY <1>2, <2>1, <2>2 DEF Sound, playDirect
<1> QED  BY <1>1, <1>2 DEF playDirect

LEMMA PlaySound ==
  ASSUME NEW s, Sound(s), NEW url \in Urls \cup {NoUrl} PROVE Sound(playAudio(s, url))
<1> DEFINE t == [s EXCEPT !.latest = url]
<1>1. /\ Sound(t) /\ t.stream = s.stream /\ t.unlocked = s.unlocked
      /\ t.streamUrl = s.streamUrl /\ t.streamConnected = s.streamConnected
  BY DEF Sound, PageType, Media, Quietly
<1>2. playAudio(s, url) = IF t.streamUrl /\ t.streamConnected THEN t
                          ELSE IF t.streamUrl /\ t.unlocked THEN startPersonalStream(t)
                          ELSE playDirect(t, url)
  BY DEF playAudio
<1> HIDE DEF t
<1>3. CASE t.streamUrl /\ t.streamConnected
  BY <1>1, <1>2, <1>3
<1>4. CASE ~ (t.streamUrl /\ t.streamConnected) /\ t.streamUrl /\ t.unlocked
  BY <1>1, <1>2, <1>4, StartSound
<1>5. CASE ~ (t.streamUrl /\ t.streamConnected) /\ ~ (t.streamUrl /\ t.unlocked)
  <2>1. t.stream # "playing" \/ ~ t.unlocked
    BY <1>1, <1>5 DEF Sound, Quietly
  <2> QED  BY <1>1, <1>2, <1>5, <2>1, PlayDirectSound
<1> QED  BY <1>3, <1>4, <1>5

LEMMA UnlockSound ==
  ASSUME NEW s, Sound(s) PROVE Sound(unlockAudio(s))
<1> DEFINE t == [s EXCEPT !.unlocked = TRUE, !.overlayVisible = FALSE]
<1>1. Sound(t) /\ t.streamUrl = s.streamUrl /\ t.pendingUrl \in Urls \cup {NoUrl}
  BY DEF Sound, PageType, Media, Quietly
<1>2. unlockAudio(s) = IF s.unlocked THEN s
                       ELSE IF t.streamUrl THEN startPersonalStream(t)
                       ELSE IF t.pendingUrl # NoUrl THEN playAudio(t, t.pendingUrl)
                       ELSE [t EXCEPT !.src = Silence, !.el = "starting"]
  BY DEF unlockAudio
<1>3. ~ t.streamUrl => Sound([t EXCEPT !.src = Silence, !.el = "starting"])
  BY <1>1 DEF Sound, PageType, Media, Quietly
<1> HIDE DEF t
<1> QED  BY <1>1, <1>2, <1>3, StartSound, PlaySound

LEMMA RefusedSound ==
  ASSUME NEW s, Sound(s)
  PROVE  Sound(streamRefused(s)) /\ streamRefused(s).stream = "paused"
BY DEF Sound, PageType, Media, Quietly, streamRefused

LEMMA ReplaySound ==
  ASSUME NEW s, Sound(s), NEW url \in Urls PROVE Sound(replayAudio(s, url))
<1> DEFINE t == IF s.stream = "starting" THEN streamRefused(s) ELSE [s EXCEPT !.stream = "paused"]
<1>1. Sound(t) /\ t.stream = "paused"
  <2>1. Sound([s EXCEPT !.stream = "paused"]) /\ [s EXCEPT !.stream = "paused"].stream = "paused"
    BY DEF Sound, PageType, Media, Quietly
  <2> QED  BY <2>1, RefusedSound
<1>2. replayAudio(s, url) = [playDirect(t, url) EXCEPT !.onended = TRUE]
  BY DEF replayAudio
<1> HIDE DEF t
<1>3. Sound(playDirect(t, url))
  BY <1>1, PlayDirectSound
<1> QED  BY <1>2, <1>3 DEF Sound, PageType, Media, Quietly

-----------------------------------------------------------------------------
LEMMA InvInit == AudioInit => Inv
BY UrlAssumption DEF AudioInit, Inv, TypeOK, Quietly, Page

LEMMA InvStep == Inv /\ [Next]_audioVars => Inv'
<1> SUFFICES ASSUME Inv, [Next]_audioVars PROVE Inv'
  OBVIOUS
<1>1. Sound(Page) /\ {air, due} \subseteq Urls \cup {NoUrl}
  BY PageIsTyped DEF Inv, Sound, TypeOK
<1>p. /\ Page.stream = stream /\ Page.el = el.is /\ Page.src = el.src /\ Page.latest = latest
      /\ Page.unlocked = audio.unlocked /\ Page.streamUrl = audio.streamUrl
  BY DEF Page
<1>s. ASSUME NEW s, Sound(s), Becomes(s), UNCHANGED asked \/ \E url : Heard(url) PROVE Inv'
  <2>1. {air, due}' \subseteq Urls \cup {NoUrl}
    BY <1>1, <1>s DEF asked, Heard
  <2> QED  BY <1>s, <2>1, BecomesKeeps
<1> HIDE DEF Page, Inv
<1>2. ASSUME NEW url \in Urls \cup {NoUrl}, Ask(url) PROVE Inv'
  <2>1. {air, due}' \subseteq Urls \cup {NoUrl}
    BY <1>2 DEF Ask
  <2> QED  BY <1>1, <1>2, <2>1, PlaySound, BecomesKeeps DEF Ask
<1>16. CASE AirEnds
  <2>1. UNCHANGED sound /\ {air, due}' \subseteq Urls \cup {NoUrl}
    BY <1>1, <1>16 DEF AirEnds
  <2> QED  BY <2>1 DEF sound, Inv, TypeOK, Quietly, Page
<1>3. CASE Tap
  BY <1>1, <1>3, <1>s, UnlockSound DEF Tap
<1>4. ASSUME NEW url \in Urls, Replay(url) PROVE Inv'
  <2>1. {air, due}' \subseteq Urls \cup {NoUrl}
    BY <1>1, <1>4 DEF Replay
  <2> QED  BY <1>1, <1>4, <2>1, ReplaySound, BecomesKeeps DEF Replay
<1>5. CASE StreamConfigured
  <2>1. Sound([Page EXCEPT !.streamUrl = TRUE])
    BY <1>1 DEF Sound, PageType, Quietly
  <2> QED  BY <1>5, <2>1, <1>s, StartSound DEF StreamConfigured
<1>6. CASE Reconnect
  BY <1>1, <1>6, <1>s, StartSound DEF Reconnect
<1>7. CASE AskUpFront
  <2>1. Sound([Page EXCEPT !.overlayVisible = TRUE])
    BY <1>1 DEF Sound, PageType, Quietly
  <2> QED  BY <1>7, <2>1, <1>s DEF AskUpFront
<1>8. CASE ElementPlays
  <2>1. Sound([Page EXCEPT !.el = "playing"])
    BY <1>1, <1>8, <1>p DEF ElementPlays, Sound, PageType, Media, Quietly
  <2> QED  BY <1>8, <2>1, <1>s DEF ElementPlays
<1>9. CASE ElementRefused
  <2>1. CASE el.src = Silence
    <3>1. Sound([Page EXCEPT !.el = "paused"])
      BY <1>1 DEF Sound, PageType, Media, Quietly
    <3> QED  BY <1>9, <2>1, <3>1, <1>s DEF ElementRefused
  <2>2. CASE el.src # Silence
    <3> DEFINE s == [Page EXCEPT !.el = "paused", !.unlocked = FALSE,
                                 !.pendingUrl = el.src, !.overlayVisible = TRUE]
    <3>1. el.src \in Urls \cup {NoUrl}
      BY <1>1, <1>p, <2>2 DEF Sound, PageType
    <3>2. Sound(s)
      BY <1>1, <3>1 DEF Sound, PageType, Media, Quietly
    <3> QED  BY <1>9, <2>2, <3>2, <1>s DEF ElementRefused
  <2> QED  BY <2>1, <2>2
<1>10. CASE ElementEnds
  <2>1. Sound([Page EXCEPT !.el = "paused"])
    BY <1>1 DEF Sound, PageType, Media, Quietly
  <2> QED  BY <1>10, <2>1, <1>s, StartSound DEF ElementEnds
<1>11. CASE StreamPlays
  <2>1. Sound([Page EXCEPT !.stream = "playing", !.streamConnected = TRUE, !.el = "paused"])
    BY <1>1, <1>11, <1>p DEF StreamPlays, Sound, PageType, Media, Quietly
  <2> QED  BY <1>11, <2>1, <1>s DEF StreamPlays
<1>12. CASE StreamRefused
  BY <1>1, <1>12, <1>s, RefusedSound DEF StreamRefused
<1>13. CASE StreamErrors
  <2> DEFINE t == [Page EXCEPT !.stream = "paused", !.streamConnected = FALSE]
  <2>1. Sound(t) /\ t.stream = "paused" /\ latest \in Urls \cup {NoUrl}
    BY <1>1, <1>p DEF Sound, PageType, Media, Quietly
  <2>2. Sound(playDirect(t, latest))
    BY <2>1, PlayDirectSound
  <2>3. (Becomes(playDirect(t, latest)) \/ Becomes(streamRefused(playDirect(t, latest)))) /\ UNCHANGED asked
    BY <1>13 DEF StreamErrors
  <2> QED  BY <2>2, <2>3, <1>s, RefusedSound
<1>14. CASE StreamEnded
  <2>1. Sound([Page EXCEPT !.stream = "paused", !.streamConnected = FALSE])
    BY <1>1 DEF Sound, PageType, Media, Quietly
  <2> QED  BY <1>14, <2>1, <1>s DEF StreamEnded
<1>15. CASE UNCHANGED audioVars
  BY <1>15 DEF audioVars, asked, sound, Inv, TypeOK, Quietly, Page
<1> QED
  BY <1>2, <1>3, <1>4, <1>5, <1>6, <1>7, <1>8, <1>9, <1>10, <1>11, <1>12, <1>13, <1>14, <1>15, <1>16
     DEF Next, Answers

\* The file and the stream are never heard over each other, for any files and any
\* order of replays, refusals, errors and reconnections.
THEOREM NeverBoth == Spec => []OneVoice
<1>1. Inv => OneVoice
  BY DEF Inv, Quietly, Page, OneVoice
<1> QED  BY <1>1, InvInit, InvStep, PTL DEF Spec

\* A locked page that keeps a file asks for the tap it waits for.
THEOREM WaitingAsks == Spec => []PendingAsks
<1>1. Inv => PendingAsks
  BY DEF Inv, Quietly, Page, PendingAsks
<1> QED  BY <1>1, InvInit, InvStep, PTL DEF Spec
=============================================================================
