------------------------- MODULE AvProjectionProofs --------------------------
(***************************************************************************)
(* What the player and its output windows keep, for any playlist, any      *)
(* number of windows and any number of commands.                           *)
(***************************************************************************)
EXTENDS AvProjection, SequenceTheorems, TLAPS

-----------------------------------------------------------------------------
(* The operator's side.                                                    *)

OperatorOK ==
  /\ session \in States /\ projected \in States /\ playing \in Intents
  /\ PlaybackHasItsMedia

Moves ==
  \/ \E k \in Nat : GoToSlide(k)
  \/ \E i \in DOMAIN Playlist : GoToItem(i) \/ FollowRoom(i)
  \/ \E s \in {"blank", "blackout"} : ToggleScreen(s)
  \/ StartPlay
  \/ \E a \in Actions : IssuePlayback(a)

LEMMA SlideCount ==
  ASSUME NEW i \in DOMAIN Playlist
  PROVE  /\ Playlist[i].slides \in Nat \ {0}
         /\ Playlist[i].kind \in {"lyrics", "deck", "timed"}
         /\ 0 \in 0 .. Playlist[i].slides - 1
<1> DEFINE Items == [kind : {"lyrics", "deck", "timed"}, slides : Nat \ {0}]
<1>1. Playlist[i] \in Items
  <2>1. Playlist \in Seq(Items)
    BY PlaylistAssumption
  <2> HIDE DEF Items
  <2> QED BY <2>1, ElementOfSeq
<1> QED BY <1>1

LEMMA StateFacts ==
  ASSUME NEW s \in States
  PROVE  /\ s.item \in DOMAIN Playlist /\ s.slide \in 0 .. Playlist[s.item].slides - 1
         /\ s.screen \in Screens
         /\ s = [item |-> s.item, slide |-> s.slide, screen |-> s.screen]
BY DEF States

SlidesOf(i) == [item : {i}, slide : 0 .. Playlist[i].slides - 1, screen : Screens]

LEMMA StateRecord ==
  ASSUME NEW s \in States
  PROVE  s \in SlidesOf(s.item) /\ s.item \in DOMAIN Playlist
BY DEF States, SlidesOf

LEMMA StateOf ==
  ASSUME NEW i \in DOMAIN Playlist, NEW s \in SlidesOf(i)
  PROVE  s \in States
BY DEF States, SlidesOf

LEMMA StateMade ==
  ASSUME NEW i \in DOMAIN Playlist, NEW k \in 0 .. Playlist[i].slides - 1, NEW screen \in Screens
  PROVE  [item |-> i, slide |-> k, screen |-> screen] \in States
BY DEF States

LEMMA StateAtSlide ==
  ASSUME NEW s \in States, NEW k \in 0 .. Playlist[s.item].slides - 1
  PROVE  LET t == [s EXCEPT !.slide = k, !.screen = "live"] IN
         t \in States /\ t.item = s.item
<1> DEFINE t == [s EXCEPT !.slide = k, !.screen = "live"]
<1>1. t \in SlidesOf(s.item) /\ t.item = s.item
  BY StateRecord DEF SlidesOf, Screens
<1> QED BY <1>1, StateRecord, StateOf

LEMMA StateAtScreen ==
  ASSUME NEW s \in States, NEW screen \in Screens
  PROVE  LET t == [s EXCEPT !.screen = screen] IN
         t \in States /\ t.item = s.item
<1>1. [s EXCEPT !.screen = screen] = [item |-> s.item, slide |-> s.slide, screen |-> screen]
  BY StateFacts
<1> QED BY <1>1, StateFacts, StateMade

LEMMA StateAtItem ==
  ASSUME NEW s \in States, NEW i \in DOMAIN Playlist
  PROVE  [s EXCEPT !.item = i, !.slide = 0] \in States
<1> DEFINE t == [s EXCEPT !.item = i, !.slide = 0]
<1>1. t \in SlidesOf(i)
  BY StateRecord, SlideCount DEF SlidesOf
<1> QED BY <1>1, StateOf

LEMMA IntentTyped ==
  ASSUME playing \in Intents, NEW a \in Actions
  PROVE  Intent(a) \in Intents /\ Intent(a).action = a /\ Intent(a) # Off
BY DEF Intents, Intent, Actions, Off

LEMMA OffTyped == Off \in Intents /\ Off.action = "off"
BY DEF Off, Intents

(* Every operation keeps playback with its media.                          *)
LEMMA MovesKeep ==
  ASSUME OperatorOK, Moves
  PROVE  /\ OperatorOK'
         /\ Timed(projected') /\ playing' = Off => Timed(projected) /\ playing = Off
<1> USE DEF OperatorOK
<1> DEFINE Goal == /\ OperatorOK'
                   /\ Timed(projected') /\ playing' = Off => Timed(projected) /\ playing = Off
<1>1. ASSUME NEW k \in Nat, GoToSlide(k) PROVE Goal
  <2>1. CASE Timed(session)
    <3>1. session' = [session EXCEPT !.slide = 0, !.screen = "live"] /\ UNCHANGED <<projected, playing>>
      BY <1>1, <2>1 DEF GoToSlide
    <3>2. session' \in States
      BY <3>1, StateAtSlide, StateFacts, SlideCount
    <3> QED BY <3>1, <3>2 DEF PlaybackHasItsMedia
  <2>2. CASE ~Timed(session)
    <3>1. /\ k \in 0 .. Playlist[session.item].slides - 1
          /\ session' = [session EXCEPT !.slide = k, !.screen = "live"]
          /\ projected' = session' /\ playing' = Off
      BY <1>1, <2>2 DEF GoToSlide
    <3>2. session' \in States /\ session'.item = session.item
      BY <3>1, StateAtSlide
    <3>3. ~Timed(projected')
      BY <2>2, <3>1, <3>2 DEF Timed
    <3> QED BY <3>1, <3>2, <3>3, OffTyped DEF PlaybackHasItsMedia
  <2> QED BY <2>1, <2>2
<1>2. ASSUME NEW i \in DOMAIN Playlist, GoToItem(i) PROVE Goal
  <2>1. session' \in States
    BY <1>2, SlideCount, StateMade DEF GoToItem, Screens
  <2> QED BY <1>2, <2>1 DEF GoToItem, PlaybackHasItsMedia
<1>3. ASSUME NEW i \in DOMAIN Playlist, FollowRoom(i) PROVE Goal
  <2>1. session' \in States
    BY <1>3, StateAtItem DEF FollowRoom
  <2> QED BY <1>3, <2>1 DEF FollowRoom, PlaybackHasItsMedia
<1>4. ASSUME NEW s \in {"blank", "blackout"}, ToggleScreen(s) PROVE Goal
  <2>1. PICK screen \in Screens : /\ session' = [session EXCEPT !.screen = screen]
                                  /\ projected' = [projected EXCEPT !.screen = screen]
    BY <1>4 DEF ToggleScreen, Screens
  <2>2. session' \in States /\ projected' \in States /\ projected'.item = projected.item
    BY <2>1, StateAtScreen
  <2>3. Timed(projected') <=> Timed(projected)
    BY <2>2 DEF Timed
  <2>4. playing' = IF playing.action = "off" THEN playing ELSE Intent("pause")
    BY <1>4 DEF ToggleScreen
  <2>5. Intent("pause") \in Intents /\ Intent("pause") # Off
    BY IntentTyped DEF Actions
  <2> QED BY <2>2, <2>3, <2>4, <2>5 DEF PlaybackHasItsMedia
<1>5. CASE StartPlay
  <2>1. projected' \in States /\ projected'.item = session.item
    BY <1>5, StateFacts, SlideCount, StateMade DEF StartPlay, Screens
  <2>2. Timed(projected')
    BY <1>5, <2>1 DEF StartPlay, Timed
  <2>3. playing' \in Intents /\ playing' # Off
    BY <1>5, IntentTyped DEF StartPlay, Actions
  <2> QED BY <1>5, <2>1, <2>2, <2>3 DEF StartPlay, PlaybackHasItsMedia
<1>6. ASSUME NEW a \in Actions, IssuePlayback(a) PROVE Goal
  <2>1. playing' \in Intents /\ playing' # Off /\ UNCHANGED <<session, projected>> /\ playing.action # "off"
    BY <1>6, IntentTyped DEF IssuePlayback
  <2> QED BY <2>1 DEF PlaybackHasItsMedia
<1> QED BY <1>1, <1>2, <1>3, <1>4, <1>5, <1>6 DEF Moves

LEMMA PayloadFacts ==
  ASSUME OperatorOK
  PROVE  /\ Payload \in Payloads
         /\ Payload.item = projected.item
         /\ Payload.play = IF Timed(projected) THEN playing ELSE Off
BY OffTyped DEF Payload, Payloads, OperatorOK

LEMMA PayloadTimed == Timed(Payload) <=> Timed(projected)
BY DEF Payload, Timed

(* What the steps of the system do to the operator's side.                 *)
Sends(shows) == Issue(shows) /\ mounted /\ issued < MaxCommands /\ ToSend(shows)

Reported ==
  /\ mounted
  /\ \/ Sends(Payload')
     \/ /\ UNCHANGED linkVars
        /\ Payload' = Payload \/ ~ToSend(Payload')

OtherSteps ==
  \/ Persist \/ Tick
  \/ \E o \in Outputs : \/ Hear(o) \/ Receive(o) \/ ReceiveStored(o) \/ Draw(o) \/ Heartbeat(o)
                        \/ \E status \in {"ready", "error"} : PageOutcome(o, status)
                        \/ MediaEvent(o) \/ Open(o) \/ Close(o)
  \/ Leave \/ Die \/ Mount

LEMMA NextParts ==
  ASSUME OperatorOK, Next
  PROVE  \/ (Moves \/ UNCHANGED operatorVars) /\ Reported
         \/ OtherSteps
<1>1. ASSUME NEW k \in 0 .. Playlist[session.item].slides - 1, Operate(GoToSlide(k))
      PROVE  Moves /\ Reported
  <2>1. k \in Nat
    BY StateFacts, SlideCount DEF OperatorOK
  <2>2. GoToSlide(k)
    BY <1>1 DEF Operate
  <2> QED BY <1>1, <2>1, <2>2 DEF Operate, BroadcastEffect, Sends, Reported, Moves
<1>2. ASSUME NEW i \in DOMAIN Playlist, Operate(GoToItem(i)) \/ Operate(FollowRoom(i))
      PROVE  Moves /\ Reported
  BY <1>2 DEF Operate, BroadcastEffect, Sends, Reported, Moves
<1>3. ASSUME NEW s \in {"blank", "blackout"}, Operate(ToggleScreen(s))
      PROVE  Moves /\ Reported
  BY <1>3 DEF Operate, BroadcastEffect, Sends, Reported, Moves
<1>4. CASE Play
  BY <1>4 DEF Play, Operate, BroadcastEffect, Sends, Reported, Moves
<1>5. ASSUME NEW a \in Actions, Operate(IssuePlayback(a))
      PROVE  Moves /\ Reported
  BY <1>5 DEF Operate, BroadcastEffect, Sends, Reported, Moves
<1>6. CASE Rerun
  <2>1. UNCHANGED operatorVars /\ BroadcastEffect /\ mounted /\ issued < MaxCommands
    BY <1>6 DEF Rerun
  <2> QED BY <2>1 DEF BroadcastEffect, Sends, Reported
<1> QED BY <1>1, <1>2, <1>3, <1>4, <1>5, <1>6
        DEF Next, Link, People, OtherSteps, Slide, Browse, Follow, Toggle, Transport

-----------------------------------------------------------------------------
(* What the screens were told.  A payload that was sent is never timed     *)
(* media that was not started.                                             *)

Told ==
  mounted /\ lastSent # NoPayload =>
    /\ lastSent = Payload
    /\ ~(Timed(projected) /\ Payload.play = Off)

(* A player that is gone knows nothing.                                    *)
Gone ==
  ~mounted => /\ lastSent = NoPayload
              /\ \A o \in Outputs : registry[o] = Unknown

LEMMA GoneStep ==
  ASSUME OperatorOK, Gone, [Next]_vars
  PROVE  Gone'
<1>1. CASE Reported
  BY <1>1 DEF Reported, Sends, Issue, Gone, linkVars
<1>2. CASE Leave \/ Die
  BY <1>2 DEF Leave, Die, Unmount, Gone
<1>3. CASE OtherSteps /\ ~(Leave \/ Die)
  <2>1. mounted' = TRUE \/ UNCHANGED <<mounted, lastSent, registry>>
    BY <1>3 DEF OtherSteps, Persist, Tick, Hear, Receive, ReceiveStored, Draw, Heartbeat,
       PageOutcome, MediaEvent, Open, Close, Mount
  <2> QED BY <2>1 DEF Gone
<1>4. CASE UNCHANGED vars
  BY <1>4 DEF vars, linkVars, Gone
<1> QED BY <1>1, <1>2, <1>3, <1>4, NextParts

LEMMA ToldStep ==
  ASSUME OperatorOK, Gone, Told, [Next]_vars
  PROVE  OperatorOK' /\ Told'
<1>1. CASE (Moves \/ UNCHANGED operatorVars) /\ Reported
  <2>1. OperatorOK' /\ (Timed(projected') /\ playing' = Off => Timed(projected) /\ playing = Off)
    BY <1>1, MovesKeep DEF operatorVars, OperatorOK, PlaybackHasItsMedia, Timed
  <2>2. /\ Payload'.item = projected'.item
        /\ Payload'.play = IF Timed(projected') THEN playing' ELSE Off
    BY DEF Payload, Timed
  <2>3. Timed(Payload') <=> Timed(projected')
    BY <2>2 DEF Timed
  <2>4. CASE Sends(Payload')
    <3>1. lastSent' = Payload' /\ ToSend(Payload')
      BY <2>4 DEF Sends, Issue
    <3>2. ~(Timed(Payload') /\ Payload'.play = Off)
      BY <3>1 DEF ToSend
    <3> QED BY <2>1, <2>3, <3>1, <3>2 DEF Told, Timed
  <2>5. CASE UNCHANGED linkVars /\ (Payload' = Payload \/ ~ToSend(Payload'))
    <3>1. UNCHANGED <<mounted, lastSent>>
      BY <2>5 DEF linkVars
    <3>2. Payload.play = IF Timed(projected) THEN playing ELSE Off
      BY DEF Payload, Timed
    <3>3. SUFFICES ASSUME mounted, lastSent # NoPayload
                   PROVE  lastSent = Payload' /\ ~(Timed(projected') /\ Payload'.play = Off)
      BY <2>1, <3>1 DEF Told
    <3>4. lastSent = Payload /\ ~(Timed(projected) /\ Payload.play = Off)
      BY <3>3 DEF Told
    <3>5. ~(Timed(projected') /\ Payload'.play = Off)
      BY <2>1, <2>2, <3>2, <3>4
    <3>6. CASE ~ToSend(Payload')
      BY <2>3, <3>1, <3>4, <3>5, <3>6 DEF ToSend
    <3> QED BY <2>5, <3>4, <3>5, <3>6
  <2> QED BY <1>1, <2>4, <2>5 DEF Reported
<1>2. CASE Mount
  <2>1. PICK s \in States : session' = s /\ projected' = s /\ playing' = Off
    BY <1>2, BoundsAssumption DEF Mount, OpenAt
  <2>2. OperatorOK'
    BY <2>1, OffTyped DEF OperatorOK, PlaybackHasItsMedia
  <2> QED BY <1>2, <2>2 DEF Mount, Told, Gone
<1>3. CASE Leave \/ Die
  <2>1. UNCHANGED <<session, projected>> /\ playing' = Off /\ ~mounted'
    BY <1>3 DEF Leave, Die, Unmount
  <2> QED BY <2>1, OffTyped DEF OperatorOK, PlaybackHasItsMedia, Told
<1>4. CASE UNCHANGED <<operatorVars, mounted, lastSent>>
  BY <1>4 DEF operatorVars, OperatorOK, PlaybackHasItsMedia, Told, Payload, Timed
<1>5. CASE OtherSteps /\ ~(Mount \/ Leave \/ Die)
  BY <1>4, <1>5 DEF OtherSteps, Persist, Tick, Hear, Receive, ReceiveStored, Draw, Heartbeat,
     PageOutcome, MediaEvent, Open, Close
<1> QED BY <1>1, <1>2, <1>3, <1>4, <1>5, NextParts DEF vars, linkVars

LEMMA InitTold == Init => OperatorOK /\ Gone /\ Told
<1> SUFFICES ASSUME Init PROVE OperatorOK /\ Gone /\ Told
  OBVIOUS
<1>1. session \in States /\ projected \in States
  BY BoundsAssumption DEF Init
<1> QED BY <1>1, OffTyped DEF Init, OperatorOK, PlaybackHasItsMedia, Gone, Told

OperatorInv == OperatorOK /\ Gone /\ Told

LEMMA OperatorStep == OperatorInv /\ [Next]_vars => OperatorInv'
BY GoneStep, ToldStep DEF OperatorInv

(* Playback runs only while timed media is on the screens.                 *)
THEOREM PlaybackStopsWithItsMedia == Spec => []PlaybackHasItsMedia
<1>1. Init => OperatorInv
  BY InitTold DEF OperatorInv
<1>2. OperatorInv => PlaybackHasItsMedia
  BY DEF OperatorInv, OperatorOK
<1> QED BY <1>1, <1>2, OperatorStep, PTL DEF Spec

(* The operator's preview shows what was sent last.                        *)
THEOREM PreviewIsTrue == Spec => []PreviewIsWhatWasSent
<1>1. Init => OperatorInv
  BY InitTold DEF OperatorInv
<1>2. OperatorInv => PreviewIsWhatWasSent
  BY DEF OperatorInv, Told, PreviewIsWhatWasSent
<1> QED BY <1>1, <1>2, OperatorStep, PTL DEF Spec

-----------------------------------------------------------------------------
(* The types of the link.                                                  *)

Held == Commands \union {NoCommand}

Tracked == [status : {"unknown", "ready", "missing", "failed"}, heard : 0 .. MissingAfter + 1,
            error : BOOLEAN, playback : {"none", "playing", "paused", "ended", "failed"}]

Windows == [open : BOOLEAN, held : Held, drawn : Held,
            page : {"none", "loading", "ready", "error"},
            media : {"none", "loading", "playing", "pausing", "paused", "ended", "failed"}]

LinkTyped ==
  /\ mounted \in BOOLEAN /\ mount \in 1 .. MaxMounts
  /\ latest \in Held /\ pending \in Held /\ snapshot \in Held
  /\ lastSent \in Payloads \union {NoPayload}
  /\ registry \in [Outputs -> Tracked]
  /\ toOutput \in [Outputs -> Seq(Commands)]
  /\ storageEvent \in [Outputs -> Seq(Commands)]
  /\ toPlayer \in [Outputs -> Seq(Messages)]
  /\ window \in [Outputs -> Windows]
  /\ issued \in 0 .. MaxCommands
  /\ opens \in 0 .. MaxOpens
  /\ latest.id <= issued

LEMMA HeldFacts ==
  ASSUME NEW c \in Held
  PROVE  /\ c.id \in 0 .. MaxCommands
         /\ c \in Commands <=> c # NoCommand
         /\ c # NoCommand => c.id >= 1
BY BoundsAssumption DEF Held, Commands, NoCommand

LEMMA NoCommandHeld == NoCommand \in Held /\ NoCommand.id = 0
BY DEF Held, NoCommand

LEMMA UnknownTyped == Unknown \in Tracked
BY BoundsAssumption DEF Unknown, Tracked

LEMMA ClosedTyped ==
  /\ Closed \in Windows /\ Closed.held = NoCommand /\ Closed.drawn = NoCommand /\ Closed.media = "none"
  /\ Blank \in Windows /\ Blank.held = NoCommand /\ Blank.drawn = NoCommand /\ Blank.media = "none"
BY NoCommandHeld DEF Closed, Blank, Windows

LEMMA RefreshTyped ==
  ASSUME NEW t \in Tracked
  PROVE  Refresh(t) \in Tracked /\ Refresh(t).playback = t.playback
BY DEF Refresh, Tracked

LEMMA IssuedTyped ==
  ASSUME NEW t \in Tracked, NEW playback \in {"none", t.playback}
  PROVE  LET u == Refresh([t EXCEPT !.error = FALSE, !.playback = playback]) IN
         u \in Tracked /\ u.playback = playback
<1> DEFINE v == [t EXCEPT !.error = FALSE, !.playback = playback]
<1>1. v \in Tracked /\ v.playback = playback
  BY DEF Tracked
<1>2. Refresh(v) \in Tracked /\ Refresh(v).playback = v.playback
  BY <1>1, RefreshTyped
<1> QED BY <1>1, <1>2

Playbacks == {"none", "playing", "paused", "ended", "failed"}

LEMMA SeenTyped ==
  ASSUME NEW t \in Tracked, NEW error \in BOOLEAN, NEW playback \in Playbacks
  PROVE  LET u == [t EXCEPT !.status = "ready", !.heard = 0, !.error = error, !.playback = playback] IN
         u \in Tracked /\ u.playback = playback
<1>1. 0 \in 0 .. MissingAfter + 1
  BY BoundsAssumption
<1> QED BY <1>1 DEF Tracked, Playbacks

LEMMA HeardTyped ==
  ASSUME NEW t \in Tracked, NEW m \in Messages
  PROVE  /\ Heard(t, m) \in Tracked
         /\ \/ Heard(t, m).playback \in {"none", t.playback}
            \/ m.type = "ack" /\ m.id = latest.id /\ Heard(t, m).playback = m.playback
<1> DEFINE playback == IF m.playback = "none" THEN t.playback ELSE m.playback
           refused  == ~m.applied
           acked    == [t EXCEPT !.status = "ready", !.heard = 0, !.error = refused,
                                 !.playback = playback]
           seen     == [t EXCEPT !.status = "ready", !.heard = 0]
<1>1. acked \in Tracked /\ acked.playback = playback
  <2>1. playback \in Playbacks /\ refused \in BOOLEAN
    BY DEF Tracked, Messages, Playbacks
  <2> HIDE DEF playback, refused
  <2> QED BY <2>1, SeenTyped
<1>2. seen \in Tracked /\ seen.playback = t.playback
  <2>1. 0 \in 0 .. MissingAfter + 1
    BY BoundsAssumption
  <2> QED BY <2>1 DEF Tracked
<1>3. Unknown.playback = "none"
  BY DEF Unknown
<1>4. \/ Heard(t, m) = Unknown
      \/ Heard(t, m) = t
      \/ m.type = "ack" /\ m.id = latest.id /\ Heard(t, m) = Refresh(acked)
      \/ Heard(t, m) = Refresh(seen)
  <2>1. m.type = "ack" /\ m.id = latest.id => Heard(t, m) = Refresh(acked)
    BY DEF Heard
  <2>2. m.type = "here" => Heard(t, m) = Refresh(seen)
    BY DEF Heard
  <2> HIDE DEF acked, seen
  <2> QED BY <2>1, <2>2 DEF Heard, Messages
<1>5. acked.playback \in {"none", t.playback} \/ acked.playback = m.playback
  BY <1>1
<1> HIDE DEF acked, seen, playback
<1>6. CASE Heard(t, m) = Unknown
  BY <1>3, <1>6, UnknownTyped
<1>7. CASE Heard(t, m) = t
  BY <1>7
<1>8. CASE m.type = "ack" /\ m.id = latest.id /\ Heard(t, m) = Refresh(acked)
  BY <1>1, <1>5, <1>8, RefreshTyped
<1>9. CASE Heard(t, m) = Refresh(seen)
  BY <1>2, <1>9, RefreshTyped
<1> QED BY <1>4, <1>6, <1>7, <1>8, <1>9

LEMMA AckTyped ==
  ASSUME NEW c \in Held, NEW applied \in BOOLEAN,
         NEW status \in {"none", "playing", "paused", "ended", "failed"}
  PROVE  /\ Ack(c, applied, status) \in Messages
         /\ Ack(c, applied, status).type = "ack" /\ Ack(c, applied, status).id = c.id
         /\ Ack(c, applied, status).playback = status
BY HeldFacts DEF Ack, Messages

LEMMA PresenceTyped ==
  ASSUME NEW type \in {"here", "goodbye"}
  PROVE  Presence(type) \in Messages /\ Presence(type).playback = "none"
BY BoundsAssumption DEF Presence, Messages

LEMMA AnswerTyped ==
  ASSUME NEW w \in Windows, NEW c \in Held
  PROVE  /\ Answer(w, c) \in Seq(Messages)
         /\ \A i \in DOMAIN Answer(w, c) : Answer(w, c)[i].playback = "none"
<1>1. Ack(c, TRUE, "none") \in Messages /\ Ack(c, TRUE, "none").playback = "none"
  BY AckTyped
<1>2. Answer(w, c) = <<Ack(c, TRUE, "none")>> \/ Answer(w, c) = <<>>
  BY DEF Answer
<1>3. CASE Answer(w, c) = <<Ack(c, TRUE, "none")>>
  <2> DEFINE ack == Ack(c, TRUE, "none")
  <2>1. ack \in Messages /\ ack.playback = "none" /\ Answer(w, c) = <<ack>>
    BY <1>1, <1>3
  <2> HIDE DEF ack
  <2>2. <<ack>> \in Seq(Messages) /\ DOMAIN <<ack>> = {1} /\ <<ack>>[1] = ack
    BY <2>1
  <2> QED BY <2>1, <2>2
<1>4. CASE Answer(w, c) = <<>>
  BY <1>4
<1> QED BY <1>2, <1>3, <1>4

LEMMA TakeTyped ==
  ASSUME NEW w \in Windows, NEW c \in Held
  PROVE  /\ Take(w, c) \in Windows
         /\ Take(w, c).drawn = w.drawn /\ Take(w, c).media = w.media /\ Take(w, c).open = w.open
         /\ Take(w, c).held = c \/ Take(w, c).held = w.held
         /\ Take(w, c).held.id >= w.held.id
         /\ Take(w, c).held # w.held => Take(w, c).held # NoCommand
<1>1. w.held \in Held
  BY DEF Windows
<1>2. CASE Applies(w, c)
  <2>1. Take(w, c) = [w EXCEPT !.held = c] /\ c.id > w.held.id
    BY <1>2 DEF Take, Applies
  <2> QED BY <1>1, <2>1, HeldFacts, NoCommandHeld DEF Windows
<1>3. CASE ~Applies(w, c)
  BY <1>1, <1>3, HeldFacts DEF Take
<1> QED BY <1>2, <1>3

LEMMA DrawTyped ==
  ASSUME NEW w \in Windows
  PROVE  /\ PageAfter(w) \in {"none", "loading", "ready", "error"}
         /\ MediaAfter(w) \in {"none", "loading", "playing", "pausing", "paused", "ended", "failed"}
BY DEF PageAfter, MediaAfter, Windows

(* A window's message joins those before it, if anybody listens.           *)
LEMMA TellTyped ==
  ASSUME LinkTyped, NEW o \in Outputs, NEW ms \in Seq(Messages), TellAll(o, ms)
  PROVE  /\ toPlayer' \in [Outputs -> Seq(Messages)]
         /\ \A p \in Outputs : \A i \in DOMAIN toPlayer'[p] :
              \/ i \in DOMAIN toPlayer[p] /\ toPlayer'[p][i] = toPlayer[p][i]
              \/ \E j \in DOMAIN ms : toPlayer'[p][i] = ms[j]
<1>1. toPlayer \in [Outputs -> Seq(Messages)]
  BY DEF LinkTyped
<1>2. CASE ~mounted
  BY <1>1, <1>2 DEF TellAll
<1>3. CASE mounted
  <2> DEFINE old == toPlayer[o]
             new == old \o ms
  <2>1. toPlayer' = [toPlayer EXCEPT ![o] = new]
    BY <1>3 DEF TellAll
  <2>2. old \in Seq(Messages)
    BY <1>1
  <2>3. /\ new \in Seq(Messages)
        /\ \A i \in DOMAIN new : \/ i \in DOMAIN old /\ new[i] = old[i]
                                 \/ \E j \in DOMAIN ms : new[i] = ms[j]
    <3> HIDE DEF old
    <3>1. /\ new \in Seq(Messages) /\ Len(new) = Len(old) + Len(ms)
          /\ \A i \in 1 .. Len(new) : new[i] = IF i <= Len(old) THEN old[i] ELSE ms[i - Len(old)]
      BY <2>2, ConcatProperties
    <3>2. DOMAIN new = 1 .. Len(new) /\ DOMAIN old = 1 .. Len(old) /\ DOMAIN ms = 1 .. Len(ms)
          /\ Len(old) \in Nat /\ Len(ms) \in Nat
      BY <2>2, <3>1
    <3> HIDE DEF new
    <3>3. ASSUME NEW i \in DOMAIN new, ~(i <= Len(old))
          PROVE  i - Len(old) \in DOMAIN ms /\ new[i] = ms[i - Len(old)]
      BY <3>1, <3>2, <3>3
    <3>4. ASSUME NEW i \in DOMAIN new, i <= Len(old)
          PROVE  i \in DOMAIN old /\ new[i] = old[i]
      BY <3>1, <3>2, <3>4
    <3> QED BY <3>1, <3>3, <3>4
  <2> HIDE DEF new
  <2>4. \A p \in Outputs : toPlayer'[p] = IF p = o THEN new ELSE toPlayer[p]
    BY <1>1, <2>1
  <2> QED BY <1>1, <2>1, <2>3, <2>4
<1> QED BY <1>2, <1>3

(* A command is sent: every window that listens gets it.                   *)
LEMMA IssueTyped ==
  ASSUME OperatorOK', LinkTyped, Sends(Payload')
  PROVE  LinkTyped'
<1> DEFINE shows   == Payload'
           command == [id |-> latest.id + 1, mount |-> mount, shows |-> shows]
<1>1. shows \in Payloads
  <2>1. /\ projected' \in States /\ playing' \in Intents
    BY DEF OperatorOK
  <2> QED BY <2>1, OffTyped DEF Payload, Payloads
<1>2. /\ latest' = command /\ issued' = issued + 1 /\ lastSent' = shows /\ pending' = command
      /\ registry' = Issued(shows) /\ issued < MaxCommands
      /\ toOutput' = [o \in Outputs |-> IF window[o].open THEN Append(toOutput[o], command)
                                                          ELSE toOutput[o]]
      /\ UNCHANGED <<mounted, mount, snapshot, storageEvent, toPlayer, window, opens>>
  BY DEF Sends, Issue
<1>3. command \in Commands /\ command.id = latest.id + 1
  <2>1. latest.id \in 0 .. MaxCommands /\ latest.id <= issued /\ issued \in 0 .. MaxCommands
    BY HeldFacts DEF LinkTyped
  <2>2. latest.id + 1 \in 1 .. MaxCommands
    BY <1>2, <2>1, BoundsAssumption
  <2> HIDE DEF shows
  <2> QED BY <1>1, <2>2 DEF LinkTyped, Commands
<1> HIDE DEF command, shows
<1>4. toOutput' \in [Outputs -> Seq(Commands)]
  BY <1>2, <1>3 DEF LinkTyped
<1>5. registry' \in [Outputs -> Tracked]
  <2> DEFINE changed  == latest # NoCommand /\ Content(latest.shows) # Content(shows)
             entry(t) == Refresh([t EXCEPT !.error = FALSE, !.playback = IF changed THEN "none" ELSE t.playback])
  <2>1. registry' = [o \in Outputs |-> entry(registry[o])]
    BY <1>2 DEF Issued
  <2>2. ASSUME NEW t \in Tracked PROVE entry(t) \in Tracked
    <3>1. (IF changed THEN "none" ELSE t.playback) \in {"none", t.playback}
      OBVIOUS
    <3> HIDE DEF changed
    <3> QED BY <3>1, IssuedTyped
  <2> HIDE DEF entry
  <2> QED BY <2>1, <2>2 DEF LinkTyped
<1>6. issued' \in 0 .. MaxCommands /\ latest'.id <= issued'
  <2>1. latest.id \in Nat
    BY HeldFacts DEF LinkTyped
  <2> QED BY <1>2, <1>3, <2>1, BoundsAssumption DEF LinkTyped
<1> QED BY <1>1, <1>2, <1>3, <1>4, <1>5, <1>6 DEF LinkTyped, Held

LEMMA WriteTyped ==
  ASSUME LinkTyped, NEW command \in Commands, Write(command)
  PROVE  snapshot' \in Held /\ storageEvent' \in [Outputs -> Seq(Commands)]
BY DEF LinkTyped, Write, Held

LEMMA EmptyTyped ==
  /\ [o \in Outputs |-> <<>>] \in [Outputs -> Seq(Messages)]
  /\ [o \in Outputs |-> Unknown] \in [Outputs -> Tracked]
BY UnknownTyped

LEMMA UnmountTyped ==
  ASSUME LinkTyped, Unmount, snapshot' \in Held, storageEvent' \in [Outputs -> Seq(Commands)]
  PROVE  LinkTyped'
<1>1. /\ toPlayer' \in [Outputs -> Seq(Messages)] /\ registry' \in [Outputs -> Tracked]
  BY EmptyTyped DEF Unmount
<1>2. /\ mounted' \in BOOLEAN /\ latest' \in Held /\ pending' \in Held
      /\ lastSent' \in Payloads \union {NoPayload}
      /\ UNCHANGED <<mount, toOutput, window, issued, opens>>
  BY NoCommandHeld DEF Unmount
<1>3. latest'.id <= issued'
  BY NoCommandHeld, BoundsAssumption DEF Unmount, LinkTyped
<1> QED BY <1>1, <1>2, <1>3 DEF LinkTyped

LEMMA ControllerTyped ==
  ASSUME LinkTyped, Persist \/ Tick \/ Leave \/ Die \/ Mount
  PROVE  LinkTyped'
<1>1. CASE Persist
  <2>1. pending \in Commands
    BY <1>1, HeldFacts DEF Persist, LinkTyped
  <2>2. snapshot' \in Held /\ storageEvent' \in [Outputs -> Seq(Commands)]
    BY <1>1, <2>1, WriteTyped DEF Persist
  <2> QED BY <1>1, <2>2, NoCommandHeld DEF Persist, LinkTyped
<1>2. CASE Tick
  <2> DEFINE next(t)  == IF t.heard > MissingAfter THEN t.heard ELSE t.heard + 1
             aged(t)  == [t EXCEPT !.heard = next(t)]
             entry(t) == IF t.status = "unknown" THEN t ELSE Refresh(aged(t))
  <2>1. registry' = [o \in Outputs |-> entry(registry[o])]
    BY <1>2 DEF Tick
  <2>2. ASSUME NEW t \in Tracked PROVE entry(t) \in Tracked
    <3>1. next(t) \in 0 .. MissingAfter + 1
      BY BoundsAssumption DEF Tracked
    <3> HIDE DEF next
    <3>2. aged(t) \in Tracked
      BY <3>1 DEF Tracked
    <3> HIDE DEF aged
    <3> QED BY <3>2, RefreshTyped
  <2> HIDE DEF entry
  <2>3. registry' \in [Outputs -> Tracked]
    BY <2>1, <2>2 DEF LinkTyped
  <2> QED BY <1>2, <2>3 DEF Tick, LinkTyped
<1>3. CASE Leave
  <2>1. snapshot' \in Held /\ storageEvent' \in [Outputs -> Seq(Commands)]
    <3>1. CASE pending # NoCommand
      BY <1>3, <3>1, HeldFacts, WriteTyped DEF Leave, LinkTyped
    <3>2. CASE pending = NoCommand
      BY <1>3, <3>2 DEF Leave, LinkTyped
    <3> QED BY <3>1, <3>2
  <2> QED BY <1>3, <2>1, UnmountTyped DEF Leave
<1>4. CASE Die
  <2>1. snapshot' \in Held /\ storageEvent' \in [Outputs -> Seq(Commands)]
    BY <1>4 DEF Die, LinkTyped
  <2> QED BY <1>4, <2>1, UnmountTyped DEF Die
<1>5. CASE Mount
  <2>1. mount' \in 1 .. MaxMounts
    BY <1>5, BoundsAssumption DEF Mount, LinkTyped
  <2> QED BY <1>5, <2>1 DEF Mount, LinkTyped
<1> QED BY <1>1, <1>2, <1>3, <1>4, <1>5

-----------------------------------------------------------------------------
(* With one player, a number belongs to one command: what is under way is  *)
(* older than the latest command or is that command, and what a window     *)
(* says of playback is about media that is shown.                          *)

Fresh(c)    == c.id <= latest.id /\ (c.id = latest.id => c = latest)
Shown       == latest # NoCommand /\ Timed(latest.shows)
Truthful(m) == m.playback # "none" => m.id <= latest.id /\ (m.id = latest.id => Shown)

Numbers ==
  mounted /\ mount = 1 =>
    /\ Fresh(pending) /\ Fresh(snapshot)
    /\ \A o \in Outputs :
         /\ Fresh(window[o].held)
         /\ \A i \in DOMAIN toOutput[o] : Fresh(toOutput[o][i])
         /\ \A i \in DOMAIN storageEvent[o] : Fresh(storageEvent[o][i])
         /\ \A i \in DOMAIN toPlayer[o] : Truthful(toPlayer[o][i])
         /\ registry[o].playback # "none" => Shown

(* A window draws what it holds, and nothing before it holds a command.    *)
WindowOK(w) ==
  /\ w.held = NoCommand => w.drawn = NoCommand /\ w.media = "none"
  /\ w.drawn.id <= w.held.id

Drawing == \A o \in Outputs : WindowOK(window[o])

LinkInv == LinkTyped /\ Numbers /\ Drawing

(* What windows do to the queues of commands.                              *)
PartOf(new, old) ==
  /\ new \in [Outputs -> Seq(Commands)]
  /\ \A p \in Outputs : \A i \in DOMAIN new[p] : \E j \in DOMAIN old[p] : new[p][i] = old[p][j]

LEMMA SamePart ==
  ASSUME NEW q \in [Outputs -> Seq(Commands)]
  PROVE  PartOf(q, q)
BY DEF PartOf

LEMMA EmptyPart ==
  ASSUME NEW q \in [Outputs -> Seq(Commands)], NEW o \in Outputs
  PROVE  PartOf([q EXCEPT ![o] = <<>>], q)
BY DEF PartOf

LEMMA TailPart ==
  ASSUME NEW q \in [Outputs -> Seq(Commands)], NEW o \in Outputs, q[o] # <<>>
  PROVE  /\ PartOf([q EXCEPT ![o] = Tail(@)], q)
         /\ Head(q[o]) \in Commands
         /\ \E j \in DOMAIN q[o] : Head(q[o]) = q[o][j]
<1> DEFINE old == q[o]
           new == Tail(old)
<1>1. old \in Seq(Commands) /\ old # <<>>
  OBVIOUS
<1>2. /\ Head(old) \in Commands /\ new \in Seq(Commands) /\ Len(new) = Len(old) - 1
      /\ \A i \in 1 .. Len(new) : new[i] = old[i + 1]
  BY <1>1, HeadTailProperties
<1>3. DOMAIN old = 1 .. Len(old) /\ Len(old) \in Nat /\ Len(old) # 0 /\ Head(old) = old[1]
  BY <1>1
<1>4. DOMAIN new = 1 .. Len(new)
  BY <1>2
<1> HIDE DEF new, old
<1>5. \A i \in DOMAIN new : \E j \in DOMAIN old : new[i] = old[j]
  <2> TAKE i \in DOMAIN new
  <2>1. i + 1 \in DOMAIN old /\ new[i] = old[i + 1]
    BY <1>2, <1>3, <1>4
  <2> QED BY <2>1
<1>6. \E j \in DOMAIN old : Head(old) = old[j]
  <2>1. 1 \in DOMAIN old
    BY <1>3
  <2> QED BY <1>3, <2>1
<1>7. \A p \in Outputs : [q EXCEPT ![o] = new][p] = IF p = o THEN new ELSE q[p]
  OBVIOUS
<1>8. PartOf([q EXCEPT ![o] = new], q)
  BY <1>2, <1>5, <1>7 DEF PartOf, old
<1> QED BY <1>2, <1>6, <1>8 DEF old, new

LEMMA WindowChange ==
  ASSUME LinkInv, NEW o \in Outputs, NEW w \in Windows, NEW ms \in Seq(Messages),
         window' = [window EXCEPT ![o] = w],
         TellAll(o, ms) \/ UNCHANGED toPlayer,
         PartOf(toOutput', toOutput), PartOf(storageEvent', storageEvent),
         UNCHANGED <<mounted, mount, latest, lastSent, registry, pending, snapshot, issued>>,
         opens' \in 0 .. MaxOpens,
         WindowOK(w),
         mounted /\ mount = 1 => Fresh(w.held) /\ \A i \in DOMAIN ms : Truthful(ms[i])
  PROVE  LinkInv'
<1> USE DEF LinkInv
<1>1. /\ toPlayer' \in [Outputs -> Seq(Messages)]
      /\ \A p \in Outputs : \A i \in DOMAIN toPlayer'[p] :
           \/ i \in DOMAIN toPlayer[p] /\ toPlayer'[p][i] = toPlayer[p][i]
           \/ \E j \in DOMAIN ms : toPlayer'[p][i] = ms[j]
  <2>1. CASE TellAll(o, ms)
    BY <2>1, TellTyped
  <2>2. CASE UNCHANGED toPlayer
    BY <2>2 DEF LinkTyped
  <2> QED BY <2>1, <2>2
<1>2. /\ window' \in [Outputs -> Windows]
      /\ \A p \in Outputs : window'[p] = IF p = o THEN w ELSE window[p]
  BY DEF LinkTyped
<1>3. LinkTyped'
  BY <1>1, <1>2 DEF LinkTyped, PartOf
<1>4. Drawing'
  BY <1>2 DEF Drawing
<1>5. ASSUME mounted, mount = 1 PROVE Numbers'
  <2>1. \A p \in Outputs : Fresh(window'[p].held)
    BY <1>2, <1>5 DEF Numbers
  <2>2. \A p \in Outputs : \A i \in DOMAIN toPlayer'[p] : Truthful(toPlayer'[p][i])
    BY <1>1, <1>5 DEF Numbers
  <2>3. \A p \in Outputs : \A i \in DOMAIN toOutput'[p] : Fresh(toOutput'[p][i])
    BY <1>5 DEF Numbers, PartOf
  <2>4. \A p \in Outputs : \A i \in DOMAIN storageEvent'[p] : Fresh(storageEvent'[p][i])
    BY <1>5 DEF Numbers, PartOf
  <2> QED BY <1>5, <2>1, <2>2, <2>3, <2>4 DEF Numbers, Fresh, Truthful, Shown
<1>6. ~(mounted /\ mount = 1) => Numbers'
  BY DEF Numbers
<1> QED BY <1>3, <1>4, <1>5, <1>6

(* A command comes to a window by whatever way.                            *)
LEMMA TakeChange ==
  ASSUME NEW w \in Windows, WindowOK(w), NEW c \in Held
  PROVE  WindowOK(Take(w, c)) /\ (Take(w, c).held = c \/ Take(w, c).held = w.held)
<1> DEFINE n == Take(w, c)
<1>1. /\ n \in Windows /\ n.drawn = w.drawn /\ n.media = w.media
      /\ n.held = c \/ n.held = w.held
      /\ n.held.id >= w.held.id
      /\ n.held # w.held => n.held # NoCommand
  BY TakeTyped
<1> HIDE DEF n
<1>2. w.held \in Held /\ w.drawn \in Held /\ n.held \in Held
  BY <1>1 DEF Windows
<1>3. w.held.id \in Nat /\ w.drawn.id \in Nat /\ n.held.id \in Nat
  BY <1>2, HeldFacts
<1>4. n.drawn.id <= n.held.id
  BY <1>1, <1>3 DEF WindowOK
<1>5. n.held = NoCommand => n.drawn = NoCommand /\ n.media = "none"
  BY <1>1 DEF WindowOK
<1>6. WindowOK(n)
  BY <1>4, <1>5 DEF WindowOK
<1> QED BY <1>1, <1>6 DEF n

LEMMA QuietTruth ==
  ASSUME NEW m, m.playback = "none"
  PROVE  Truthful(m)
BY DEF Truthful

LEMMA ReceiveKeeps ==
  ASSUME LinkInv, NEW o \in Outputs, Receive(o) \/ ReceiveStored(o)
  PROVE  LinkInv'
<1> USE DEF LinkInv
<1> DEFINE w == window[o]
<1>0. w \in Windows /\ WindowOK(w)
  BY DEF LinkTyped, Drawing
<1>1. CASE Receive(o)
  <2> DEFINE c == Head(toOutput[o])
  <2>1. /\ toOutput[o] # <<>> /\ window' = [window EXCEPT ![o] = Take(w, c)]
        /\ TellAll(o, Answer(w, c)) /\ toOutput' = [toOutput EXCEPT ![o] = Tail(@)]
        /\ UNCHANGED <<mounted, mount, latest, lastSent, registry, pending, snapshot, storageEvent, issued, opens>>
    BY <1>1 DEF Receive
  <2>2. PartOf(toOutput', toOutput) /\ c \in Commands /\ \E j \in DOMAIN toOutput[o] : c = toOutput[o][j]
    BY <2>1, TailPart DEF LinkTyped
  <2>3. PartOf(storageEvent', storageEvent)
    BY <2>1, SamePart DEF LinkTyped
  <2>4. mounted /\ mount = 1 => Fresh(c)
    BY <2>2 DEF Numbers
  <2> HIDE DEF c, w
  <2>5. c \in Held
    BY <2>2 DEF Held
  <2>6. /\ Take(w, c) \in Windows /\ WindowOK(Take(w, c))
        /\ mounted /\ mount = 1 => Fresh(Take(w, c).held)
    BY <1>0, <2>4, <2>5, TakeTyped, TakeChange DEF Numbers, w
  <2>7. Answer(w, c) \in Seq(Messages) /\ \A i \in DOMAIN Answer(w, c) : Truthful(Answer(w, c)[i])
    BY <1>0, <2>5, AnswerTyped, QuietTruth
  <2> QED BY <2>1, <2>2, <2>3, <2>6, <2>7, WindowChange DEF LinkTyped
<1>2. CASE ReceiveStored(o)
  <2> DEFINE c == Head(storageEvent[o])
  <2>1. /\ storageEvent[o] # <<>> /\ window' = [window EXCEPT ![o] = Take(w, c)]
        /\ TellAll(o, Answer(w, c)) /\ storageEvent' = [storageEvent EXCEPT ![o] = Tail(@)]
        /\ UNCHANGED <<mounted, mount, latest, lastSent, registry, pending, snapshot, toOutput, issued, opens>>
    BY <1>2 DEF ReceiveStored
  <2>2. PartOf(storageEvent', storageEvent) /\ c \in Commands /\ \E j \in DOMAIN storageEvent[o] : c = storageEvent[o][j]
    BY <2>1, TailPart DEF LinkTyped
  <2>3. PartOf(toOutput', toOutput)
    BY <2>1, SamePart DEF LinkTyped
  <2>4. mounted /\ mount = 1 => Fresh(c)
    BY <2>2 DEF Numbers
  <2> HIDE DEF c, w
  <2>5. c \in Held
    BY <2>2 DEF Held
  <2>6. /\ Take(w, c) \in Windows /\ WindowOK(Take(w, c))
        /\ mounted /\ mount = 1 => Fresh(Take(w, c).held)
    BY <1>0, <2>4, <2>5, TakeTyped, TakeChange DEF Numbers, w
  <2>7. Answer(w, c) \in Seq(Messages) /\ \A i \in DOMAIN Answer(w, c) : Truthful(Answer(w, c)[i])
    BY <1>0, <2>5, AnswerTyped, QuietTruth
  <2> QED BY <2>1, <2>2, <2>3, <2>6, <2>7, WindowChange DEF LinkTyped
<1> QED BY <1>1, <1>2

LEMMA OpenKeeps ==
  ASSUME LinkInv, NEW o \in Outputs, Open(o)
  PROVE  LinkInv'
<1> USE DEF LinkInv
<1> DEFINE w  == Take(Blank, snapshot)
           ms == <<Presence("here")>> \o Answer(Blank, snapshot)
<1>1. /\ window' = [window EXCEPT ![o] = w] /\ TellAll(o, ms)
      /\ UNCHANGED <<mounted, mount, latest, lastSent, registry, pending, snapshot, toOutput, storageEvent, issued>>
      /\ opens < MaxOpens /\ opens' = opens + 1
  BY DEF Open
<1>2. Blank \in Windows /\ WindowOK(Blank) /\ Blank.held = NoCommand /\ snapshot \in Held
  BY ClosedTyped, NoCommandHeld DEF WindowOK, LinkTyped
<1>3. w \in Windows /\ WindowOK(w) /\ (w.held = snapshot \/ w.held = NoCommand)
  BY <1>2, TakeTyped, TakeChange
<1>4. mounted /\ mount = 1 => Fresh(w.held)
  <2>1. latest \in Held
    BY DEF LinkTyped
  <2>2. Fresh(NoCommand)
    BY <2>1, HeldFacts, NoCommandHeld DEF Fresh
  <2> QED BY <1>3, <2>2 DEF Numbers
<1>5. ms \in Seq(Messages) /\ \A i \in DOMAIN ms : Truthful(ms[i])
  <2> DEFINE here == Presence("here")
             rest == Answer(Blank, snapshot)
  <2>1. here \in Messages /\ here.playback = "none"
    BY PresenceTyped
  <2>2. rest \in Seq(Messages) /\ \A i \in DOMAIN rest : rest[i].playback = "none"
    BY <1>2, AnswerTyped
  <2> HIDE DEF here, rest
  <2>3. <<here>> \in Seq(Messages) /\ Len(<<here>>) = 1 /\ <<here>>[1] = here
    BY <2>1
  <2>4. /\ <<here>> \o rest \in Seq(Messages) /\ Len(<<here>> \o rest) = 1 + Len(rest)
        /\ \A i \in 1 .. Len(<<here>> \o rest) :
             (<<here>> \o rest)[i] = IF i <= 1 THEN <<here>>[i] ELSE rest[i - 1]
    BY <2>2, <2>3, ConcatProperties
  <2>5. ASSUME NEW i \in DOMAIN (<<here>> \o rest) PROVE (<<here>> \o rest)[i].playback = "none"
    <3>1. i \in 1 .. 1 + Len(rest) /\ Len(rest) \in Nat /\ DOMAIN rest = 1 .. Len(rest)
      BY <2>2, <2>4
    <3>2. CASE i <= 1
      BY <2>1, <2>3, <2>4, <3>1, <3>2
    <3>3. CASE ~(i <= 1)
      <4>1. i - 1 \in DOMAIN rest
        BY <3>1, <3>3
      <4> QED BY <2>2, <2>4, <3>1, <3>3, <4>1
    <3> QED BY <3>2, <3>3
  <2> QED BY <2>4, <2>5, QuietTruth DEF here, rest
<1>6. opens' \in 0 .. MaxOpens
  BY <1>1, BoundsAssumption DEF LinkTyped
<1>7. PartOf(toOutput', toOutput) /\ PartOf(storageEvent', storageEvent)
  BY <1>1, SamePart DEF LinkTyped
<1> HIDE DEF w, ms
<1> QED BY <1>1, <1>3, <1>4, <1>5, <1>6, <1>7, WindowChange

(* What a window does by itself.                                           *)
LEMMA NothingSaid == <<>> \in Seq(Messages) /\ \A i \in DOMAIN <<>> : Truthful(<<>>[i])
OBVIOUS

LEMMA OneSaid ==
  ASSUME NEW m \in Messages, NEW B \in BOOLEAN, B => Truthful(m)
  PROVE  <<m>> \in Seq(Messages) /\ (B => \A i \in DOMAIN <<m>> : Truthful(<<m>>[i]))
<1>1. <<m>> \in Seq(Messages) /\ DOMAIN <<m>> = {1} /\ <<m>>[1] = m
  OBVIOUS
<1> QED BY <1>1

LEMMA DrawKeeps ==
  ASSUME LinkInv, NEW o \in Outputs, Draw(o)
  PROVE  LinkInv'
<1> USE DEF LinkInv
<1> DEFINE w  == window[o]
           w2 == [w EXCEPT !.drawn = w.held, !.page = PageAfter(w), !.media = MediaAfter(w)]
<1>1. /\ w.drawn # w.held /\ window' = [window EXCEPT ![o] = w2]
      /\ UNCHANGED <<mounted, mount, latest, lastSent, registry, pending, snapshot, toOutput,
                     storageEvent, toPlayer, issued, opens>>
  BY DEF Draw
<1>2. w \in Windows /\ WindowOK(w)
  BY DEF LinkTyped, Drawing
<1>3. /\ w2 \in Windows /\ w2.held = w.held /\ w2.drawn = w.held
  <2> DEFINE page == PageAfter(w)
             media == MediaAfter(w)
  <2>1. /\ page \in {"none", "loading", "ready", "error"}
        /\ media \in {"none", "loading", "playing", "pausing", "paused", "ended", "failed"}
    BY <1>2, DrawTyped
  <2> HIDE DEF page, media, w
  <2>2. [w EXCEPT !.drawn = w.held, !.page = page, !.media = media] \in Windows
    BY <1>2, <2>1 DEF Windows
  <2> QED BY <1>2, <2>2 DEF page, media, Windows
<1>4. WindowOK(w2)
  <2>1. w.held # NoCommand
    BY <1>1, <1>2 DEF WindowOK
  <2>2. w.held.id \in Nat
    BY <1>2, HeldFacts DEF Windows
  <2> HIDE DEF w, w2
  <2> QED BY <1>3, <2>1, <2>2 DEF WindowOK
<1>5. mounted /\ mount = 1 => Fresh(w2.held)
  BY <1>3 DEF Numbers
<1>6. PartOf(toOutput', toOutput) /\ PartOf(storageEvent', storageEvent)
  BY <1>1, SamePart DEF LinkTyped
<1>7. opens' \in 0 .. MaxOpens
  BY <1>1 DEF LinkTyped
<1> HIDE DEF w, w2
<1> QED BY <1>1, <1>3, <1>4, <1>5, <1>6, <1>7, NothingSaid, WindowChange

LEMMA PageKeeps ==
  ASSUME LinkInv, NEW o \in Outputs, NEW status \in {"ready", "error"}, PageOutcome(o, status)
  PROVE  LinkInv'
<1> USE DEF LinkInv
<1> DEFINE w  == window[o]
           w2 == [w EXCEPT !.page = status]
           m  == Ack(w.held, status = "ready", "none")
           ms == IF IsDeck(w.held.shows) /\ w.held.shows.screen = "live" THEN <<m>> ELSE <<>>
<1>1. /\ window' = [window EXCEPT ![o] = w2] /\ TellAll(o, ms)
      /\ UNCHANGED <<mounted, mount, latest, lastSent, registry, pending, snapshot, toOutput,
                     storageEvent, issued, opens>>
  BY DEF PageOutcome
<1>2. w \in Windows /\ WindowOK(w)
  BY DEF LinkTyped, Drawing
<1>3. w2 \in Windows /\ WindowOK(w2) /\ w2.held = w.held
  <2> HIDE DEF w
  <2> QED BY <1>2 DEF Windows, WindowOK
<1>4. ms \in Seq(Messages) /\ \A i \in DOMAIN ms : Truthful(ms[i])
  <2>1. m \in Messages /\ m.playback = "none"
    <3>1. w.held \in Held
      BY <1>2 DEF Windows
    <3> HIDE DEF w
    <3> QED BY <3>1, AckTyped
  <2>2. Truthful(m)
    BY <2>1, QuietTruth
  <2>3. ms = <<m>> \/ ms = <<>>
    OBVIOUS
  <2> HIDE DEF m, ms
  <2> QED BY <2>1, <2>2, <2>3, OneSaid, NothingSaid
<1>5. mounted /\ mount = 1 => Fresh(w2.held)
  BY <1>3 DEF Numbers
<1>6. PartOf(toOutput', toOutput) /\ PartOf(storageEvent', storageEvent)
  BY <1>1, SamePart DEF LinkTyped
<1>7. opens' \in 0 .. MaxOpens
  BY <1>1 DEF LinkTyped
<1> HIDE DEF w, w2, m, ms
<1> QED BY <1>1, <1>3, <1>4, <1>5, <1>6, <1>7, WindowChange

(* Only a window that holds timed media speaks of playback.                *)
LEMMA PlaybackSaid ==
  ASSUME LinkInv, NEW o \in Outputs, NEW applied \in BOOLEAN,
         NEW status \in {"none", "playing", "paused", "ended", "failed"},
         Timed(window[o].held.shows), window[o].media # "none"
  PROVE  LET m == Ack(window[o].held, applied, status) IN
         m \in Messages /\ (mounted /\ mount = 1 => Truthful(m))
<1> DEFINE c == window[o].held
           m == Ack(c, applied, status)
<1>1. window[o] \in Windows /\ c \in Held /\ c # NoCommand
  BY DEF LinkInv, LinkTyped, Drawing, WindowOK, Windows
<1>2. m \in Messages /\ m.id = c.id
  <2> HIDE DEF c
  <2> QED BY <1>1, AckTyped
<1>3. ASSUME mounted, mount = 1 PROVE Truthful(m)
  <2>1. Fresh(c)
    BY <1>3 DEF LinkInv, Numbers
  <2> QED BY <1>1, <1>2, <2>1 DEF Truthful, Fresh, Shown
<1> QED BY <1>2, <1>3

LEMMA MediaKeeps ==
  ASSUME LinkInv, NEW o \in Outputs, MediaEvent(o)
  PROVE  LinkInv'
<1> USE DEF LinkInv
<1> DEFINE w == window[o]
<1>1. PICK status \in MediaOutcomes[w.media] :
        /\ window' = [window EXCEPT ![o].media = status]
        /\ TellAll(o, IF Timed(w.held.shows) THEN <<Ack(w.held, status # "failed", status)>> ELSE <<>>)
  BY DEF MediaEvent
<1>2. w.media # "none" /\ status \in {"playing", "paused", "ended", "failed"}
  BY <1>1 DEF MediaEvent, MediaOutcomes
<1> DEFINE m  == Ack(w.held, status # "failed", status)
           w2 == [w EXCEPT !.media = status]
           ms == IF Timed(w.held.shows) THEN <<m>> ELSE <<>>
<1>3. UNCHANGED <<mounted, mount, latest, lastSent, registry, pending, snapshot, toOutput,
                  storageEvent, issued, opens>>
  BY DEF MediaEvent
<1>4. w \in Windows /\ WindowOK(w) /\ w.held # NoCommand
  BY <1>2 DEF LinkTyped, Drawing, WindowOK
<1>5. w2 \in Windows /\ WindowOK(w2) /\ w2.held = w.held
  <2> HIDE DEF w
  <2> QED BY <1>2, <1>4 DEF Windows, WindowOK
<1>6. ms \in Seq(Messages) /\ (mounted /\ mount = 1 => \A i \in DOMAIN ms : Truthful(ms[i]))
  <2>1. CASE Timed(w.held.shows)
    <3>1. m \in Messages /\ (mounted /\ mount = 1 => Truthful(m))
      BY <1>2, <2>1, PlaybackSaid
    <3>2. (mounted /\ mount = 1) \in BOOLEAN
      BY DEF LinkTyped
    <3>3. ms = <<m>>
      BY <2>1
    <3> HIDE DEF m, ms
    <3> QED BY <3>1, <3>2, <3>3, OneSaid
  <2>2. CASE ~Timed(w.held.shows)
    BY <2>2, NothingSaid
  <2> QED BY <2>1, <2>2
<1>7. mounted /\ mount = 1 => Fresh(w2.held)
  BY <1>5 DEF Numbers
<1>8. PartOf(toOutput', toOutput) /\ PartOf(storageEvent', storageEvent)
  BY <1>3, SamePart DEF LinkTyped
<1>9. opens' \in 0 .. MaxOpens /\ TellAll(o, ms) /\ window' = [window EXCEPT ![o] = w2]
  BY <1>1, <1>3 DEF LinkTyped
<1> HIDE DEF w, w2, m, ms
<1> QED BY <1>3, <1>5, <1>6, <1>7, <1>8, <1>9, WindowChange

LEMMA SameWindow ==
  ASSUME LinkTyped, NEW o \in Outputs
  PROVE  window = [window EXCEPT ![o] = window[o]]
BY DEF LinkTyped

LEMMA HeartbeatKeeps ==
  ASSUME LinkInv, NEW o \in Outputs, Heartbeat(o)
  PROVE  LinkInv'
<1> USE DEF LinkInv
<1> DEFINE w == window[o]
<1>1. UNCHANGED <<mounted, mount, latest, lastSent, registry, pending, snapshot, toOutput,
                  storageEvent, window, issued, opens>>
  BY DEF Heartbeat
<1>2. w \in Windows /\ WindowOK(w) /\ (mounted /\ mount = 1 => Fresh(w.held))
  BY DEF LinkTyped, Drawing, Numbers
<1>3. PICK m : TellAll(o, <<m>>) /\ m \in Messages /\ (mounted /\ mount = 1 => Truthful(m))
  <2>1. CASE TellAll(o, <<Presence("here")>>)
    BY <2>1, PresenceTyped, QuietTruth
  <2>2. CASE /\ w.media = "playing" /\ Timed(w.held.shows)
             /\ TellAll(o, <<Ack(w.held, TRUE, "playing")>>)
    BY <2>2, PlaybackSaid
  <2> QED BY <2>1, <2>2 DEF Heartbeat
<1>4. <<m>> \in Seq(Messages) /\ (mounted /\ mount = 1 => \A i \in DOMAIN <<m>> : Truthful(<<m>>[i]))
  <2>1. (mounted /\ mount = 1) \in BOOLEAN
    BY DEF LinkTyped
  <2> QED BY <1>3, <2>1, OneSaid
<1>5. window' = [window EXCEPT ![o] = w]
  BY <1>1, SameWindow
<1>6. PartOf(toOutput', toOutput) /\ PartOf(storageEvent', storageEvent) /\ opens' \in 0 .. MaxOpens
  BY <1>1, SamePart DEF LinkTyped
<1> DEFINE ms == <<m>>
<1>7. TellAll(o, ms) /\ ms \in Seq(Messages) /\ (mounted /\ mount = 1 => \A i \in DOMAIN ms : Truthful(ms[i]))
  BY <1>3, <1>4
<1> HIDE DEF w, ms
<1> QED BY <1>1, <1>2, <1>5, <1>6, <1>7, WindowChange

LEMMA CloseKeeps ==
  ASSUME LinkInv, NEW o \in Outputs, Close(o)
  PROVE  LinkInv'
<1> USE DEF LinkInv
<1> DEFINE ms == <<Presence("goodbye")>>
<1>1. /\ window' = [window EXCEPT ![o] = Closed]
      /\ toOutput' = [toOutput EXCEPT ![o] = <<>>] /\ storageEvent' = [storageEvent EXCEPT ![o] = <<>>]
      /\ TellAll(o, ms) \/ UNCHANGED toPlayer
      /\ UNCHANGED <<mounted, mount, latest, lastSent, registry, pending, snapshot, issued, opens>>
  BY DEF Close
<1>2. ms \in Seq(Messages) /\ \A i \in DOMAIN ms : Truthful(ms[i])
  BY PresenceTyped, QuietTruth, OneSaid
<1>3. Closed \in Windows /\ WindowOK(Closed) /\ Closed.held = NoCommand
  BY ClosedTyped, NoCommandHeld DEF WindowOK
<1>4. Fresh(NoCommand)
  <2>1. latest \in Held
    BY DEF LinkTyped
  <2> QED BY <2>1, HeldFacts, NoCommandHeld DEF Fresh
<1>5. PartOf(toOutput', toOutput) /\ PartOf(storageEvent', storageEvent) /\ opens' \in 0 .. MaxOpens
  BY <1>1, EmptyPart DEF LinkTyped
<1> HIDE DEF ms
<1> QED BY <1>1, <1>2, <1>3, <1>4, <1>5, WindowChange

(* The controller hears a window: an ack of another command than the       *)
(* latest says nothing, so what it learns of playback is of what is shown. *)
LEMMA HearKeeps ==
  ASSUME LinkInv, NEW o \in Outputs, Hear(o)
  PROVE  LinkInv'
<1> USE DEF LinkInv
<1> DEFINE q == toPlayer[o]
           m == Head(q)
           t == registry[o]
<1>1. /\ mounted /\ q # <<>>
      /\ registry' = [registry EXCEPT ![o] = Heard(t, m)]
      /\ toPlayer' = [toPlayer EXCEPT ![o] = Tail(q)]
      /\ UNCHANGED <<mounted, mount, latest, lastSent, pending, snapshot, toOutput, storageEvent, window, issued, opens>>
  BY DEF Hear
<1>2. q \in Seq(Messages) /\ t \in Tracked
  BY DEF LinkTyped
<1> HIDE DEF q, t
<1>3. /\ m \in Messages /\ Tail(q) \in Seq(Messages)
      /\ \A i \in DOMAIN Tail(q) : \E j \in DOMAIN q : Tail(q)[i] = q[j]
      /\ \E j \in DOMAIN q : m = q[j]
  <2>1. /\ m \in Messages /\ Tail(q) \in Seq(Messages) /\ Len(Tail(q)) = Len(q) - 1
        /\ \A i \in 1 .. Len(Tail(q)) : Tail(q)[i] = q[i + 1]
    BY <1>1, <1>2, HeadTailProperties
  <2>2. DOMAIN q = 1 .. Len(q) /\ Len(q) \in Nat /\ Len(q) # 0 /\ m = q[1]
    BY <1>1, <1>2
  <2>3. DOMAIN Tail(q) = 1 .. Len(Tail(q))
    BY <2>1
  <2>4. ASSUME NEW i \in DOMAIN Tail(q) PROVE \E j \in DOMAIN q : Tail(q)[i] = q[j]
    <3>1. i + 1 \in DOMAIN q
      BY <2>1, <2>2, <2>3
    <3> QED BY <2>1, <2>3, <3>1
  <2>5. 1 \in DOMAIN q
    BY <2>2
  <2> HIDE DEF m
  <2> QED BY <2>1, <2>2, <2>4, <2>5
<1> DEFINE u    == Heard(t, m)
           rest == Tail(q)
<1>4. u \in Tracked /\ (\/ u.playback \in {"none", t.playback}
                        \/ m.id = latest.id /\ u.playback = m.playback)
  BY <1>2, <1>3, HeardTyped
<1>5. registry' = [registry EXCEPT ![o] = u] /\ toPlayer' = [toPlayer EXCEPT ![o] = rest]
      /\ rest \in Seq(Messages)
  BY <1>1, <1>3
<1>6. \A i \in DOMAIN rest : \E j \in DOMAIN q : rest[i] = q[j]
  BY <1>3
<1> HIDE DEF u, m, rest
<1>7. /\ registry' \in [Outputs -> Tracked] /\ toPlayer' \in [Outputs -> Seq(Messages)]
      /\ \A p \in Outputs : registry'[p] = IF p = o THEN u ELSE registry[p]
      /\ \A p \in Outputs : toPlayer'[p] = IF p = o THEN rest ELSE toPlayer[p]
  BY <1>4, <1>5 DEF LinkTyped
<1>8. LinkTyped'
  BY <1>1, <1>7 DEF LinkTyped
<1>9. Drawing'
  BY <1>1 DEF Drawing
<1>10. ASSUME mounted, mount = 1 PROVE Numbers'
  <2>1. \A j \in DOMAIN q : Truthful(q[j])
    BY <1>10 DEF Numbers, q
  <2>2. Truthful(m)
    BY <1>3, <2>1
  <2>3. u.playback # "none" => Shown
    BY <1>4, <1>10, <2>2 DEF Numbers, Truthful, t
  <2>4. \A p \in Outputs : registry'[p].playback # "none" => Shown
    BY <1>7, <1>10, <2>3 DEF Numbers
  <2>5. \A p \in Outputs : \A i \in DOMAIN toPlayer'[p] : Truthful(toPlayer'[p][i])
    BY <1>6, <1>7, <1>10, <2>1 DEF Numbers
  <2> QED BY <1>1, <1>10, <2>4, <2>5 DEF Numbers, Fresh, Truthful, Shown
<1>11. ~(mounted /\ mount = 1) => Numbers'
  BY <1>1 DEF Numbers
<1> QED BY <1>8, <1>9, <1>10, <1>11

LEMMA AppendedPart ==
  ASSUME NEW q \in Seq(Commands), NEW c \in Commands, NEW i \in DOMAIN Append(q, c)
  PROVE  Append(q, c)[i] = c \/ (i \in DOMAIN q /\ Append(q, c)[i] = q[i])
OBVIOUS

(* The rest of what the controller does.                                   *)
LEMMA PersistKeeps ==
  ASSUME LinkInv, Persist
  PROVE  LinkInv'
<1> USE DEF LinkInv
<1>1. LinkTyped'
  BY ControllerTyped
<1>2. /\ snapshot' = pending /\ pending' = NoCommand
      /\ storageEvent' = [o \in Outputs |-> IF window[o].open THEN Append(storageEvent[o], pending)
                                                              ELSE storageEvent[o]]
      /\ UNCHANGED <<mounted, mount, latest, registry, toOutput, toPlayer, window>>
  BY DEF Persist, Write
<1>3. pending \in Commands
  BY HeldFacts DEF Persist, LinkTyped
<1>4. ASSUME mounted, mount = 1 PROVE Numbers'
  <2>1. Fresh(pending) /\ Fresh(NoCommand)
    <3>1. latest \in Held
      BY DEF LinkTyped
    <3> QED BY <1>4, <3>1, HeldFacts, NoCommandHeld DEF Numbers, Fresh
  <2>2. ASSUME NEW o \in Outputs, NEW i \in DOMAIN storageEvent'[o] PROVE Fresh(storageEvent'[o][i])
    <3>1. storageEvent[o] \in Seq(Commands)
      BY DEF LinkTyped
    <3>2. storageEvent'[o] = Append(storageEvent[o], pending) \/ storageEvent'[o] = storageEvent[o]
      BY <1>2
    <3>3. storageEvent'[o][i] = pending \/ (i \in DOMAIN storageEvent[o] /\ storageEvent'[o][i] = storageEvent[o][i])
      BY <1>3, <2>2, <3>1, <3>2
    <3> QED BY <1>4, <2>1, <3>3 DEF Numbers
  <2> QED BY <1>2, <1>4, <2>1, <2>2 DEF Numbers, Fresh, Truthful, Shown
<1>5. ~(mounted /\ mount = 1) => Numbers'
  BY <1>2 DEF Numbers
<1>6. Drawing'
  BY <1>2 DEF Drawing
<1> QED BY <1>1, <1>4, <1>5, <1>6

LEMMA TickKeeps ==
  ASSUME LinkInv, Tick
  PROVE  LinkInv'
<1> USE DEF LinkInv
<1>1. LinkTyped'
  BY ControllerTyped
<1>2. UNCHANGED <<mounted, mount, latest, pending, snapshot, toOutput, storageEvent, toPlayer, window>>
  BY DEF Tick
<1>3. ASSUME NEW o \in Outputs PROVE registry'[o].playback = registry[o].playback
  <2> DEFINE t == registry[o]
             u == [t EXCEPT !.heard = IF @ > MissingAfter THEN @ ELSE @ + 1]
  <2>1. t.status # "unknown" => registry'[o] = Refresh(u)
    BY DEF Tick
  <2>2. t.status = "unknown" => registry'[o] = t
    BY DEF Tick
  <2>3. u.playback = t.playback
    BY DEF LinkTyped, Tracked
  <2>4. Refresh(u).playback = u.playback
    <3>1. u \in Tracked
      <4>1. t \in Tracked
        BY DEF LinkTyped
      <4>2. (IF t.heard > MissingAfter THEN t.heard ELSE t.heard + 1) \in 0 .. MissingAfter + 1
        BY <4>1, BoundsAssumption DEF Tracked
      <4> HIDE DEF t
      <4> QED BY <4>1, <4>2 DEF Tracked
    <3> HIDE DEF u
    <3> QED BY <3>1, RefreshTyped
  <2> HIDE DEF u
  <2> QED BY <2>1, <2>2, <2>3, <2>4
<1>4. Numbers' /\ Drawing'
  BY <1>2, <1>3 DEF Numbers, Drawing, Fresh, Truthful, Shown
<1> QED BY <1>1, <1>4

LEMMA PlayerKeeps ==
  ASSUME LinkInv, Leave \/ Die \/ Mount
  PROVE  LinkInv'
<1>1. LinkTyped'
  BY ControllerTyped DEF LinkInv
<1>2. window' = window
  BY DEF Leave, Die, Unmount, Mount
<1>3. ~(mounted' /\ mount' = 1)
  BY DEF Leave, Die, Unmount, Mount, LinkInv, LinkTyped
<1> QED BY <1>1, <1>2, <1>3 DEF LinkInv, Drawing, Numbers

(* Two commands of the same content are timed media both or neither.       *)
LEMMA ContentTimed ==
  ASSUME NEW a, NEW b, Content(a) = Content(b), Timed(a)
  PROVE  Timed(b)
<1>1. Content(a) = <<"timed", a.item>>
  BY DEF Content, Timed
<1>2. CASE Playlist[b.item].kind = "deck"
  BY <1>1, <1>2 DEF Content
<1>3. CASE Playlist[b.item].kind # "timed" /\ Playlist[b.item].kind # "deck"
  <2>1. Content(b) = <<"lyrics", b.item, b.slide>> \/ Content(b) = <<"lyrics">>
    BY <1>3 DEF Content
  <2> QED BY <1>1, <2>1
<1> QED BY <1>2, <1>3 DEF Timed

LEMMA IssueKeeps ==
  ASSUME OperatorOK', LinkInv, Sends(Payload')
  PROVE  LinkInv'
<1> USE DEF LinkInv
<1> DEFINE shows   == Payload'
           command == [id |-> latest.id + 1, mount |-> mount, shows |-> shows]
           changed == latest # NoCommand /\ Content(latest.shows) # Content(shows)
<1>1. LinkTyped'
  BY IssueTyped
<1>2. /\ latest' = command /\ pending' = command /\ registry' = Issued(shows)
      /\ toOutput' = [o \in Outputs |-> IF window[o].open THEN Append(toOutput[o], command)
                                                          ELSE toOutput[o]]
      /\ UNCHANGED <<mounted, mount, snapshot, storageEvent, toPlayer, window>>
  BY DEF Sends, Issue
<1>3. latest.id \in Nat /\ latest'.id = latest.id + 1 /\ latest'.shows = shows /\ latest' \in Commands
  <2>1. latest' \in Held /\ latest \in Held
    BY <1>1 DEF LinkTyped
  <2>2. latest.id \in Nat
    BY <2>1, HeldFacts
  <2>3. latest'.id = latest.id + 1 /\ latest'.shows = shows
    BY <1>2
  <2>4. latest'.id # 0
    BY <2>2, <2>3
  <2> QED BY <2>1, <2>2, <2>3, <2>4, HeldFacts, NoCommandHeld
<1>4. \A c \in Held : Fresh(c) => c.id < latest'.id
  BY <1>3, HeldFacts DEF Fresh
<1>5. Drawing'
  BY <1>2 DEF Drawing
<1>6. ASSUME mounted, mount = 1 PROVE Numbers'
  <2>1. \A c \in Held : Fresh(c) => Fresh(c)'
    BY <1>3, <1>4, HeldFacts DEF Fresh
  <2>2. Fresh(pending)'
    BY <1>2, <1>3 DEF Fresh
  <2>3. Fresh(snapshot)'
    BY <1>2, <1>3, <1>4, <1>6, HeldFacts DEF Fresh, Numbers, LinkTyped
  <2>4. \A o \in Outputs : Fresh(window[o].held)'
    <3> TAKE o \in Outputs
    <3>1. window[o].held \in Held /\ Fresh(window[o].held)
      BY <1>6 DEF LinkTyped, Windows, Numbers
    <3> QED BY <1>2, <1>3, <1>4, <3>1, HeldFacts DEF Fresh
  <2>5. \A o \in Outputs : \A i \in DOMAIN toOutput'[o] : Fresh(toOutput[o][i])'
    <3> TAKE o \in Outputs
    <3> TAKE i \in DOMAIN toOutput'[o]
    <3>1. toOutput[o] \in Seq(Commands)
      BY DEF LinkTyped
    <3>2. toOutput'[o] = Append(toOutput[o], latest') \/ toOutput'[o] = toOutput[o]
      BY <1>2
    <3>3. toOutput'[o][i] = latest' \/ (i \in DOMAIN toOutput[o] /\ toOutput'[o][i] = toOutput[o][i])
      <4>1. CASE toOutput'[o] = toOutput[o]
        BY <4>1
      <4>2. CASE toOutput'[o] = Append(toOutput[o], latest')
        BY <1>3, <3>1, <4>2, AppendedPart
      <4> QED BY <3>2, <4>1, <4>2
    <3>4. CASE toOutput'[o][i] = latest'
      BY <1>3, <3>4 DEF Fresh
    <3>5. CASE i \in DOMAIN toOutput[o] /\ toOutput'[o][i] = toOutput[o][i]
      <4>1. toOutput[o][i] \in Held /\ Fresh(toOutput[o][i])
        BY <1>6, <3>1, <3>5 DEF Numbers, Held
      <4> QED BY <1>3, <1>4, <3>5, <4>1, HeldFacts DEF Fresh
    <3> QED BY <3>3, <3>4, <3>5
  <2>6. \A o \in Outputs : \A i \in DOMAIN storageEvent'[o] : Fresh(storageEvent[o][i])'
    <3> TAKE o \in Outputs
    <3> TAKE i \in DOMAIN storageEvent'[o]
    <3>1. storageEvent[o][i] \in Held /\ Fresh(storageEvent[o][i]) /\ storageEvent' = storageEvent
      <4>1. storageEvent[o] \in Seq(Commands) /\ storageEvent' = storageEvent
        BY <1>2 DEF LinkTyped
      <4> QED BY <1>6, <4>1 DEF Numbers, Held
    <3> QED BY <1>3, <1>4, <3>1, HeldFacts DEF Fresh
  <2>7. \A o \in Outputs : \A i \in DOMAIN toPlayer'[o] : Truthful(toPlayer[o][i])'
    <3> TAKE o \in Outputs
    <3> TAKE i \in DOMAIN toPlayer'[o]
    <3>1. toPlayer[o][i] \in Messages /\ Truthful(toPlayer[o][i]) /\ toPlayer' = toPlayer
      <4>1. toPlayer[o] \in Seq(Messages) /\ toPlayer' = toPlayer
        BY <1>2 DEF LinkTyped
      <4> QED BY <1>6, <4>1 DEF Numbers
    <3>2. toPlayer[o][i].id \in Nat
      BY <3>1 DEF Messages
    <3> QED BY <1>3, <3>1, <3>2 DEF Truthful
  <2>8. \A o \in Outputs : registry'[o].playback # "none" => Shown'
    <3> SUFFICES ASSUME NEW o \in Outputs, registry'[o].playback # "none" PROVE Shown'
      OBVIOUS
    <3> DEFINE t        == registry[o]
               playback == IF changed THEN "none" ELSE t.playback
    <3>1. registry'[o] = Refresh([t EXCEPT !.error = FALSE, !.playback = playback])
      BY <1>2 DEF Issued
    <3>2. playback \in {"none", t.playback} /\ t \in Tracked
      BY DEF LinkTyped
    <3>3. registry'[o].playback = playback
      <4> HIDE DEF playback, t
      <4> QED BY <3>1, <3>2, IssuedTyped
    <3>4. ~changed /\ t.playback # "none"
      BY <3>3
    <3>5. latest # NoCommand /\ Timed(latest.shows)
      BY <1>6, <3>4 DEF Numbers, Shown
    <3>6. Content(latest.shows) = Content(shows)
      BY <3>4, <3>5
    <3>7. Timed(shows)
      <4> HIDE DEF shows
      <4> QED BY <3>5, <3>6, ContentTimed
    <3>8. latest' # NoCommand
      BY <1>3, HeldFacts DEF Held
    <3>9. Timed(latest'.shows)
      BY <1>3, <3>7
    <3> QED BY <3>8, <3>9 DEF Shown, Timed
  <2> QED BY <2>2, <2>3, <2>4, <2>5, <2>6, <2>7, <2>8 DEF Numbers
<1>7. ~(mounted /\ mount = 1) => Numbers'
  BY <1>2 DEF Numbers
<1> QED BY <1>1, <1>5, <1>6, <1>7

-----------------------------------------------------------------------------
Inv == OperatorInv /\ LinkInv

LEMMA InitInv == Init => Inv
<1> SUFFICES ASSUME Init PROVE LinkInv
  BY InitTold DEF Inv, OperatorInv
<1>1. LinkTyped
  <2>1. /\ registry \in [Outputs -> Tracked] /\ toPlayer \in [Outputs -> Seq(Messages)]
    BY EmptyTyped DEF Init
  <2>2. toOutput \in [Outputs -> Seq(Commands)] /\ storageEvent \in [Outputs -> Seq(Commands)]
    BY DEF Init
  <2>3. window \in [Outputs -> Windows]
    BY ClosedTyped DEF Init
  <2>4. mount \in 1 .. MaxMounts /\ issued \in 0 .. MaxCommands /\ opens \in 0 .. MaxOpens
    BY BoundsAssumption DEF Init
  <2> QED BY <2>1, <2>2, <2>3, <2>4, NoCommandHeld DEF Init, LinkTyped
<1>2. Numbers
  <2>1. Fresh(NoCommand)
    BY NoCommandHeld DEF Init, Fresh
  <2>2. \A o \in Outputs : registry[o].playback = "none" /\ window[o].held = NoCommand
    BY ClosedTyped DEF Init, Unknown
  <2> QED BY <2>1, <2>2 DEF Init, Numbers
<1>3. Drawing
  BY ClosedTyped, NoCommandHeld DEF Init, Drawing, WindowOK
<1> QED BY <1>1, <1>2, <1>3 DEF LinkInv

LEMMA InvStep == Inv /\ [Next]_vars => Inv'
<1> SUFFICES ASSUME Inv, [Next]_vars PROVE LinkInv'
  BY OperatorStep DEF Inv
<1> USE DEF Inv
<1>1. OperatorInv'
  BY OperatorStep
<1>2. CASE UNCHANGED linkVars
  BY <1>2 DEF linkVars, LinkInv, LinkTyped, Numbers, Drawing, Fresh, Truthful, Shown
<1>3. CASE Reported
  BY <1>1, <1>2, <1>3, IssueKeeps DEF Reported, OperatorInv
<1>4. CASE OtherSteps
  BY <1>4, PersistKeeps, TickKeeps, PlayerKeeps, HearKeeps, ReceiveKeeps, DrawKeeps, HeartbeatKeeps,
     PageKeeps, MediaKeeps, OpenKeeps, CloseKeeps DEF OtherSteps
<1>5. CASE Next
  BY <1>3, <1>4, <1>5, NextParts DEF OperatorInv
<1> QED BY <1>2, <1>5 DEF vars

LEMMA SpecInv == Spec => []Inv
BY InitInv, InvStep, PTL DEF Spec

(* Every variable keeps its type.                                          *)
THEOREM ProjectionTyped == Spec => []TypeOK
<1>1. Inv => TypeOK
  BY DEF Inv, OperatorInv, OperatorOK, LinkInv, LinkTyped, TypeOK, Held, Tracked, Windows
<1> QED BY <1>1, SpecInv, PTL

(* With one player, what the registry says a window plays is of the media  *)
(* that was sent last, however late an ack is and whatever was sent since. *)
THEOREM ClockIsOfWhatIsShown == Spec => []PlaybackOfWhatIsShown
<1>1. Inv => PlaybackOfWhatIsShown
  <2> SUFFICES ASSUME Inv, NEW o \in Outputs, mount = 1, registry[o].playback # "none"
               PROVE  Timed(latest.shows)
    BY DEF PlaybackOfWhatIsShown
  <2>1. mounted
    BY DEF Inv, OperatorInv, Gone, Unknown, LinkInv, LinkTyped
  <2> QED BY <2>1 DEF Inv, LinkInv, Numbers, Shown
<1> QED BY <1>1, SpecInv, PTL

(* A window never goes back to an earlier command.                         *)
THEOREM WindowsOnlyAdvance == Spec => NeverBackwards
<1> DEFINE Ahead(o) == window[o].open /\ window'[o].open => window'[o].drawn.id >= window[o].drawn.id
<1>1. ASSUME Inv, Inv', [Next]_vars, NEW o \in Outputs PROVE Ahead(o)
  <2>0. /\ window[o] \in Windows /\ window \in [Outputs -> Windows] /\ WindowOK(window[o])
        /\ snapshot \in Held
    BY <1>1 DEF Inv, LinkInv, LinkTyped, Drawing
  <2>1. window[o].drawn.id \in Nat /\ window[o].held.id \in Nat
    BY <2>0, HeldFacts DEF Windows
  <2>2. CASE window'[o].drawn = window[o].drawn \/ window'[o].drawn = window[o].held
    BY <2>0, <2>1, <2>2 DEF WindowOK
  <2>3. CASE ~window[o].open \/ ~window'[o].open
    BY <2>3
  <2>4. ASSUME NEW p \in Outputs, Receive(p) \/ ReceiveStored(p) PROVE Ahead(o)
    <3>1. PICK c \in Held : window' = [window EXCEPT ![p] = Take(@, c)]
      <4>1. CASE Receive(p)
        BY <1>1, <4>1, TailPart DEF Receive, Inv, LinkInv, LinkTyped, Held
      <4>2. CASE ReceiveStored(p)
        BY <1>1, <4>2, TailPart DEF ReceiveStored, Inv, LinkInv, LinkTyped, Held
      <4> QED BY <2>4, <4>1, <4>2
    <3>2. window'[o] = window[o] \/ window'[o] = Take(window[o], c)
      BY <2>0, <3>1
    <3> QED BY <2>0, <2>2, <3>2, TakeTyped
  <2>5. ASSUME NEW p \in Outputs, Draw(p) PROVE Ahead(o)
    <3>1. window'[o].drawn = window[o].drawn \/ window'[o].drawn = window[o].held
      BY <2>0, <2>5 DEF Draw, Windows
    <3> QED BY <2>2, <3>1
  <2>6. ASSUME NEW p \in Outputs,
               MediaEvent(p) \/ \E status \in {"ready", "error"} : PageOutcome(p, status)
        PROVE  Ahead(o)
    <3>1. PICK status : window' = [window EXCEPT ![p].media = status]
                        \/ window' = [window EXCEPT ![p].page = status]
      BY <2>6 DEF MediaEvent, PageOutcome
    <3>2. window'[o].drawn = window[o].drawn
      BY <2>0, <3>1 DEF Windows
    <3> QED BY <2>2, <3>2
  <2>7. ASSUME NEW p \in Outputs, Open(p) \/ Close(p) PROVE Ahead(o)
    <3>1. CASE p = o
      <4>1. ~window[o].open \/ ~window'[o].open
        BY <2>0, <2>7, <3>1 DEF Open, Close, Closed
      <4> QED BY <2>3, <4>1
    <3>2. CASE p # o
      <4>1. window'[o] = window[o]
        BY <2>0, <2>7, <3>2 DEF Open, Close
      <4> QED BY <2>2, <4>1
    <3> QED BY <3>1, <3>2
  <2>8. CASE UNCHANGED window
    BY <2>2, <2>8
  <2>9. ASSUME NEW p \in Outputs, Hear(p) \/ Heartbeat(p) PROVE Ahead(o)
    BY <2>8, <2>9 DEF Hear, Heartbeat
  <2>10. CASE Persist \/ Tick \/ Leave \/ Die \/ Mount
    BY <2>8, <2>10 DEF Persist, Tick, Leave, Die, Unmount, Mount
  <2>11. CASE OtherSteps
    BY <2>4, <2>5, <2>6, <2>7, <2>9, <2>10, <2>11 DEF OtherSteps
  <2>12. CASE Reported \/ UNCHANGED vars
    BY <2>8, <2>12 DEF Reported, Sends, Issue, vars, linkVars
  <2> QED BY <1>1, <2>11, <2>12, NextParts DEF Inv, OperatorInv
<1>2. Inv /\ Inv' /\ [Next]_vars =>
        [\A o \in Outputs : mount = 1 /\ window[o].open /\ window'[o].open =>
            window'[o].drawn.id >= window[o].drawn.id]_vars
  BY <1>1
<1> QED BY <1>2, SpecInv, PTL DEF Spec, NeverBackwards
=============================================================================
