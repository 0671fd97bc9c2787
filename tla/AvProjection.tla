---------------------------- MODULE AvProjection ----------------------------
(***************************************************************************)
(* The AV player and its output windows.  The player (the controller)      *)
(* numbers commands from 1 and sends each on a BroadcastChannel and, 75 ms *)
(* later, to a snapshot in localStorage; the write wakes the other windows *)
(* with a storage event.  An output window applies a command with a higher *)
(* number than the last, draws it, and acknowledges it: at once, or when   *)
(* its deck page or media has an outcome to tell.  The controller keeps a  *)
(* registry of the outputs from their presence messages and acks.          *)
(*                                                                         *)
(* Windows open, reload and vanish without a word; the player is left for  *)
(* another list, or reloaded, and starts counting anew.  The missing-      *)
(* output banner and the copy for a room are left out.                     *)
(***************************************************************************)
EXTENDS AvOperator

CONSTANTS
  Places,         \* where players are opened: saved, or named in the address
  Outputs,        \* output ids, one per window
  MissingAfter,   \* AV_OUTPUT_MISSING_AFTER_MS, in ticks of the controller
  MaxCommands,    \* bound on the commands of all players
  MaxMounts,      \* bound on how often a player is opened
  MaxOpens        \* bound on how often an output window is opened

ASSUME BoundsAssumption ==
  /\ Places \subseteq States
  /\ MissingAfter \in Nat /\ MaxCommands \in Nat /\ MaxOpens \in Nat
  /\ MaxMounts \in Nat \ {0}

VARIABLES
  mounted,     \* a player is open
  mount,       \* how many were opened (tells the commands of two apart)
  latest,      \* latestCommandId, latestCommand
  lastSent,    \* lastProjectionBroadcastRef
  registry,    \* outputs: what the controller knows of each window
  pending,     \* a command waiting for the snapshot's debounce
  snapshot,    \* wvAvProjection:shared in localStorage
  toOutput,    \* commands on the channel, per window
  storageEvent,\* commands in storage events, per window
  toPlayer,    \* messages of each window on their way to the controller
  window,      \* what each output window holds
  issued,      \* how many commands were sent
  opens        \* how often a window was opened

linkVars == <<mounted, mount, latest, lastSent, registry, pending, snapshot,
              toOutput, storageEvent, toPlayer, window, issued, opens>>
vars     == <<operatorVars, linkVars>>

NoPayload == [item |-> 0]
NoCommand == [id |-> 0, mount |-> 0, shows |-> NoPayload]
Commands  == [id : 1 .. MaxCommands, mount : 1 .. MaxMounts, shows : Payloads]

\* AvTrackedOutput.  heard is the number of ticks since lastSeenAt; nothing
\* reads lastAckCommandId.
Unknown == [status |-> "unknown", heard |-> 0, error |-> FALSE, playback |-> "none"]
New     == [Unknown EXCEPT !.status = "ready"]

\* A window: the command of stateRef (held), the one React has drawn, the
\* fetch of its deck page and the state of its media element.
Closed == [open |-> FALSE, held |-> NoCommand, drawn |-> NoCommand, page |-> "none", media |-> "none"]
Blank  == [Closed EXCEPT !.open = TRUE]

\* hello and heartbeat say the same: "here".
Presence(type)               == [type |-> type, id |-> 0, applied |-> TRUE, playback |-> "none"]
Ack(command, applied, status) ==
  [type |-> "ack", id |-> command.id, applied |-> applied, playback |-> status]

Init ==
  /\ \E s \in Places : session = s /\ projected = s
  /\ playing = Off
  /\ mounted = TRUE
  /\ mount = 1
  /\ latest = NoCommand
  /\ lastSent = NoPayload
  /\ registry = [o \in Outputs |-> Unknown]
  /\ pending = NoCommand
  /\ snapshot = NoCommand
  /\ toOutput = [o \in Outputs |-> <<>>]
  /\ storageEvent = [o \in Outputs |-> <<>>]
  /\ toPlayer = [o \in Outputs |-> <<>>]
  /\ window = [o \in Outputs |-> Closed]
  /\ issued = 0
  /\ opens = 0

-----------------------------------------------------------------------------
(* The controller.                                                         *)

\* Mutant: the tick notices errors only.
RefreshTrusting(t) ==
  [t EXCEPT !.status = CASE t.status = "unknown" -> "unknown"
                         [] t.error              -> "failed"
                         [] OTHER                -> "ready"]

\* refreshOutputStatus: silence before an error, an error before ready.
Refresh(t) ==
  [t EXCEPT !.status = CASE t.status = "unknown"    -> "unknown"
                         [] t.heard > MissingAfter -> "missing"
                         [] t.error                -> "failed"
                         [] OTHER                  -> "ready"]

HasReadyAvOutput == \E o \in Outputs : registry[o].status = "ready"

\* Mutant: what was said of playback outlives the content.
IssuedKeepingPlayback(shows) ==
  [o \in Outputs |-> Refresh([registry[o] EXCEPT !.error = FALSE])]

\* reduceControllerProjection, "issue": errors are forgotten, and so is what
\* the windows said of playback when the content is another.
Issued(shows) ==
  LET changed == latest # NoCommand /\ Content(latest.shows) # Content(shows) IN
  [o \in Outputs |->
     Refresh([registry[o] EXCEPT !.error = FALSE,
                                 !.playback = IF changed THEN "none" ELSE @])]

\* The broadcast effect: number the command, remember it, send it to every
\* window that listens, and let the snapshot wait.
Issue(shows) ==
  LET command == [id |-> latest.id + 1, mount |-> mount, shows |-> shows] IN
  /\ latest' = command
  /\ issued' = issued + 1
  /\ lastSent' = shows
  /\ registry' = Issued(shows)
  /\ pending' = command
  /\ toOutput' = [o \in Outputs |-> IF window[o].open THEN Append(toOutput[o], command)
                                                     ELSE toOutput[o]]
  /\ UNCHANGED <<mounted, mount, snapshot, storageEvent, toPlayer, window, opens>>

\* Mutant: the same content is never sent twice, whatever else has changed.
ToSendNewContent(shows) ==
  /\ ~(Timed(shows) /\ shows.play = Off)
  /\ lastSent = NoPayload \/ Content(shows) # Content(lastSent)

\* It sends nothing for timed media that was not started, and nothing that
\* equals the last command.
ToSend(shows) == ~(Timed(shows) /\ shows.play = Off) /\ shows # lastSent

BroadcastEffect ==
  IF ToSend(Payload') THEN Issue(Payload') ELSE UNCHANGED linkVars

\* The effect runs when what it depends on changes.  The operator of the
\* model stops at the last command.
Operate(step) ==
  /\ mounted /\ issued < MaxCommands
  /\ step
  /\ IF Payload' # Payload \/ playing' # playing THEN BroadcastEffect ELSE UNCHANGED linkVars

Slide    == \E k \in 0 .. Playlist[session.item].slides - 1 : Operate(GoToSlide(k))
Browse   == \E i \in DOMAIN Playlist : Operate(GoToItem(i))
Follow   == \E i \in DOMAIN Playlist : Operate(FollowRoom(i))
Toggle   == \E s \in {"blank", "blackout"} : Operate(ToggleScreen(s))
Play     == HasReadyAvOutput /\ Operate(StartPlay)
Transport == \E a \in Actions : Operate(IssuePlayback(a))

\* A callback of the room, a late title or chord data runs the effect again.
Rerun ==
  /\ mounted /\ issued < MaxCommands
  /\ UNCHANGED operatorVars
  /\ BroadcastEffect

\* Mutant: nobody listens to the storage, so only the channel delivers.
WriteUnheard(command) == snapshot' = command /\ UNCHANGED storageEvent

\* A write to localStorage wakes every other window of the profile.
Write(command) ==
  /\ snapshot' = command
  /\ storageEvent' = [o \in Outputs |-> IF window[o].open THEN Append(storageEvent[o], command)
                                                         ELSE storageEvent[o]]

\* persistIfCommand: the debounce is over.
Persist ==
  /\ pending # NoCommand
  /\ Write(pending)
  /\ pending' = NoCommand
  /\ UNCHANGED <<operatorVars, mounted, mount, latest, lastSent, registry, toOutput,
                 toPlayer, window, issued, opens>>

\* What a player knows is gone with it.
Unmount ==
  /\ mounted
  /\ mounted' = FALSE
  /\ UNCHANGED <<session, projected>>
  /\ playing' = Off
  /\ latest' = NoCommand
  /\ lastSent' = NoPayload
  /\ registry' = [o \in Outputs |-> Unknown]
  /\ pending' = NoCommand
  /\ toPlayer' = [o \in Outputs |-> <<>>]
  /\ UNCHANGED <<mount, toOutput, window, issued, opens>>

\* The player is left for another page: the channel's close flushes the snapshot.
Leave ==
  /\ Unmount
  /\ IF pending # NoCommand THEN Write(pending) ELSE UNCHANGED <<snapshot, storageEvent>>

\* The player's window is reloaded or dies: the snapshot that waits is lost.
Die == Unmount /\ UNCHANGED <<snapshot, storageEvent>>

\* A player is opened for some list, wherever the operator left that list or
\* at an item of it, with the initial controller state; its first effect
\* sends nothing.
Mount ==
  /\ ~mounted
  /\ mount < MaxMounts
  /\ \E s \in Places : OpenAt(s)
  /\ mounted' = TRUE
  /\ mount' = mount + 1
  /\ UNCHANGED <<latest, lastSent, registry, pending, snapshot, toOutput,
                 storageEvent, toPlayer, window, issued, opens>>

\* upsertPresence, applyAck: an ack of another command than the latest says
\* nothing; what a goodbye leaves behind is an unknown window.
Heard(t, m) ==
  CASE m.type = "goodbye" -> Unknown
    [] m.type = "ack" /\ m.id # latest.id -> t
    [] m.type = "ack" /\ m.id = latest.id ->
         Refresh([t EXCEPT !.status = "ready", !.heard = 0, !.error = ~m.applied,
                           !.playback = IF m.playback = "none" THEN @ ELSE m.playback])
    [] OTHER -> Refresh([t EXCEPT !.status = "ready", !.heard = 0])

Hear(o) ==
  /\ mounted
  /\ toPlayer[o] # <<>>
  /\ registry' = [registry EXCEPT ![o] = Heard(@, Head(toPlayer[o]))]
  /\ toPlayer' = [toPlayer EXCEPT ![o] = Tail(@)]
  /\ UNCHANGED <<operatorVars, mounted, mount, latest, lastSent, pending, snapshot,
                 toOutput, storageEvent, window, issued, opens>>

\* The controller's interval: time passes, silence is noticed.
Tick ==
  /\ mounted
  /\ registry' = [o \in Outputs |->
       IF registry[o].status = "unknown" THEN registry[o]
       ELSE Refresh([registry[o] EXCEPT !.heard = IF @ > MissingAfter THEN @ ELSE @ + 1])]
  /\ UNCHANGED <<operatorVars, mounted, mount, latest, lastSent, pending, snapshot,
                 toOutput, storageEvent, toPlayer, window, issued, opens>>

-----------------------------------------------------------------------------
(* The output windows.                                                     *)

\* Mutant: any other number is applied.
AppliesAny(w, command) == command.id # w.held.id

\* applyOutputCommand: a number not above the last one changes nothing.
Applies(w, command) == command.id > w.held.id

IsDeck(shows) == Playlist[shows.item].kind = "deck"

\* shouldDeferOutputAck: a live page and timed media report for themselves.
Defers(shows) == Timed(shows) \/ (IsDeck(shows) /\ shows.screen = "live")

\* What a window posts for a command that came to it.
Answer(w, command) ==
  IF Applies(w, command) /\ ~Defers(command.shows)
    THEN <<Ack(command, TRUE, "none")>> ELSE <<>>

Take(w, command) == IF Applies(w, command) THEN [w EXCEPT !.held = command] ELSE w

\* What a window posts is lost when no player listens.
TellAll(o, ms) == toPlayer' = IF mounted THEN [toPlayer EXCEPT ![o] = @ \o ms] ELSE toPlayer

\* A window opens, or opens again under the id sessionStorage kept: it says
\* hello and takes the snapshot.
Open(o) ==
  /\ ~window[o].open
  /\ opens < MaxOpens
  /\ opens' = opens + 1
  /\ window' = [window EXCEPT ![o] = Take(Blank, snapshot)]
  /\ TellAll(o, <<Presence("here")>> \o Answer(Blank, snapshot))
  /\ UNCHANGED <<operatorVars, mounted, mount, latest, lastSent, registry, pending,
                 snapshot, toOutput, storageEvent, issued>>

\* A command arrives on the channel, or in a storage event.
Receive(o) ==
  /\ toOutput[o] # <<>>
  /\ window' = [window EXCEPT ![o] = Take(@, Head(toOutput[o]))]
  /\ TellAll(o, Answer(window[o], Head(toOutput[o])))
  /\ toOutput' = [toOutput EXCEPT ![o] = Tail(@)]
  /\ UNCHANGED <<operatorVars, mounted, mount, latest, lastSent, registry, pending,
                 snapshot, storageEvent, issued, opens>>

ReceiveStored(o) ==
  /\ storageEvent[o] # <<>>
  /\ window' = [window EXCEPT ![o] = Take(@, Head(storageEvent[o]))]
  /\ TellAll(o, Answer(window[o], Head(storageEvent[o])))
  /\ storageEvent' = [storageEvent EXCEPT ![o] = Tail(@)]
  /\ UNCHANGED <<operatorVars, mounted, mount, latest, lastSent, registry, pending,
                 snapshot, toOutput, issued, opens>>

\* MediaDeckPageView: a page is fetched when its address changes or it comes
\* back on the screen.  A blank covers the page, a blackout takes it away.
PageShown(shows) == IsDeck(shows) /\ shows.screen # "blackout"

PageAfter(w) ==
  CASE ~PageShown(w.held.shows) -> "none"
    [] w.page # "none" /\ Content(w.drawn.shows) = Content(w.held.shows) -> w.page
    [] OTHER -> "loading"

\* mediaActionsForCommand and the media element's effect.  Media that ended
\* gave up its source and is loaded again.
MediaAfter(w) ==
  LET shows  == w.held.shows
      loaded == /\ w.media \notin {"none", "ended"}
                /\ Content(w.drawn.shows) = Content(shows)
      plays  == shows.screen = "live" /\ shows.play.action = "play"
      keeps  == shows.screen = "live" /\ shows.play.action = "adjust"
  IN CASE ~Timed(shows) -> "none"
       [] plays -> IF loaded /\ w.media = "playing" THEN "playing" ELSE "loading"
       [] loaded /\ (keeps \/ w.media \in {"paused", "failed"}) -> w.media
       [] OTHER -> "pausing"

\* React draws what the window holds; until then it holds more than it shows.
Draw(o) ==
  LET w == window[o] IN
  /\ w.open
  /\ w.drawn # w.held
  /\ window' = [window EXCEPT ![o] =
                  [w EXCEPT !.drawn = w.held, !.page = PageAfter(w), !.media = MediaAfter(w)]]
  /\ UNCHANGED <<operatorVars, mounted, mount, latest, lastSent, registry, pending,
                 snapshot, toOutput, storageEvent, toPlayer, issued, opens>>

\* onDeckPageStatus: the outcome is acknowledged under the command held now.
PageOutcome(o, status) ==
  LET w == window[o] IN
  /\ w.page = "loading"
  /\ window' = [window EXCEPT ![o].page = status]
  /\ TellAll(o, IF IsDeck(w.held.shows) /\ w.held.shows.screen = "live"
                  THEN <<Ack(w.held, status = "ready", "none")>> ELSE <<>>)
  /\ UNCHANGED <<operatorVars, mounted, mount, latest, lastSent, registry, pending,
                 snapshot, toOutput, storageEvent, issued, opens>>

\* The media element's events.
MediaOutcomes ==
  [loading |-> {"playing", "failed"}, playing |-> {"ended", "failed"}, pausing |-> {"paused"}]

MediaEvent(o) ==
  LET w == window[o] IN
  /\ w.media \in DOMAIN MediaOutcomes
  /\ \E status \in MediaOutcomes[w.media] :
       /\ window' = [window EXCEPT ![o].media = status]
       /\ TellAll(o, IF Timed(w.held.shows) THEN <<Ack(w.held, status # "failed", status)>> ELSE <<>>)
  /\ UNCHANGED <<operatorVars, mounted, mount, latest, lastSent, registry, pending,
                 snapshot, toOutput, storageEvent, issued, opens>>

\* What a window says by the clock: that it is there, and how far its media
\* is.  What would tell the player nothing new is left out.
Heartbeat(o) ==
  /\ window[o].open /\ mounted /\ toPlayer[o] = <<>>
  /\ \/ /\ registry[o].status = "unknown" \/ registry[o].heard > 0
        /\ TellAll(o, <<Presence("here")>>)
     \/ /\ window[o].media = "playing" /\ Timed(window[o].held.shows)
        /\ registry[o].playback # "playing"
        /\ TellAll(o, <<Ack(window[o].held, TRUE, "playing")>>)
  /\ UNCHANGED <<operatorVars, mounted, mount, latest, lastSent, registry, pending,
                 snapshot, toOutput, storageEvent, window, issued, opens>>

\* A window goes.  Its goodbye is only said when the page is left by a link;
\* a closed or reloaded window falls silent.
Close(o) ==
  /\ window[o].open
  /\ window' = [window EXCEPT ![o] = Closed]
  /\ toOutput' = [toOutput EXCEPT ![o] = <<>>]
  /\ storageEvent' = [storageEvent EXCEPT ![o] = <<>>]
  /\ \/ TellAll(o, <<Presence("goodbye")>>)
     \/ UNCHANGED toPlayer
  /\ UNCHANGED <<operatorVars, mounted, mount, latest, lastSent, registry, pending,
                 snapshot, issued, opens>>

-----------------------------------------------------------------------------
Link ==
  \/ Persist
  \/ Tick
  \/ \E o \in Outputs :
       \/ Hear(o) \/ Receive(o) \/ ReceiveStored(o) \/ Draw(o) \/ Heartbeat(o)
       \/ \E status \in {"ready", "error"} : PageOutcome(o, status)
       \/ MediaEvent(o)

People ==
  \/ Slide \/ Browse \/ Follow \/ Toggle \/ Play \/ Transport \/ Rerun
  \/ Leave \/ Die \/ Mount
  \/ \E o \in Outputs : Open(o) \/ Close(o)

Next == Link \/ People

Spec == Init /\ [][Next]_vars

\* The browser delivers what was posted, fires its timers and lets React draw;
\* nobody owes the system an action.
Fairness ==
  /\ WF_vars(Persist)
  /\ WF_vars(Tick)
  /\ \A o \in Outputs :
       /\ WF_vars(Hear(o))
       /\ WF_vars(Receive(o))
       /\ WF_vars(ReceiveStored(o))
       /\ WF_vars(Draw(o))

FairSpec == Spec /\ Fairness

-----------------------------------------------------------------------------
Messages ==
  [type : {"here", "goodbye", "ack"}, id : 0 .. MaxCommands,
   applied : BOOLEAN, playback : {"none", "playing", "paused", "ended", "failed"}]

TypeOK ==
  /\ session \in States /\ projected \in States /\ playing \in Intents
  /\ mounted \in BOOLEAN /\ mount \in 1 .. MaxMounts
  /\ {latest, pending, snapshot} \subseteq Commands \union {NoCommand}
  /\ lastSent \in Payloads \union {NoPayload}
  /\ registry \in [Outputs -> [status : {"unknown", "ready", "missing", "failed"},
                               heard : 0 .. MissingAfter + 1,
                               error : BOOLEAN,
                               playback : {"none", "playing", "paused", "ended", "failed"}]]
  /\ toOutput \in [Outputs -> Seq(Commands)]
  /\ storageEvent \in [Outputs -> Seq(Commands)]
  /\ toPlayer \in [Outputs -> Seq(Messages)]
  /\ window \in [Outputs -> [open : BOOLEAN, held : Commands \union {NoCommand},
                             drawn : Commands \union {NoCommand},
                             page : {"none", "loading", "ready", "error"},
                             media : {"none", "loading", "playing", "pausing", "paused",
                                      "ended", "failed"}]]
  /\ issued \in 0 .. MaxCommands
  /\ opens \in 0 .. MaxOpens

\* What the operator's preview calls live is what was sent last, once
\* anything was: no operation changes the projection and keeps it from the
\* screens, and none sends what the preview does not show (the memoised
\* command, the effect's early returns, the comparison with the last payload).
PreviewIsWhatWasSent == mounted /\ lastSent # NoPayload => lastSent = Payload

\* Playback belongs to the screens: it runs only while timed media is
\* projected, so leaving it for a slide stops it (goToSlide, startPlay).
PlaybackHasItsMedia == playing.action # "off" => Timed(projected)

\* With one player, what the registry says a window plays is of the content
\* sent last: a late ack cannot put a clock beside a lyric (applyAck's
\* comparison, the reset on issue, the guard in the media layer's onAck).
PlaybackOfWhatIsShown ==
  \A o \in Outputs : mount = 1 /\ registry[o].playback # "none" => Timed(latest.shows)

\* With one player, a window never goes back to an earlier command, whichever
\* of the channel, the storage event and the snapshot brings it.
NeverBackwards ==
  [][\A o \in Outputs : mount = 1 /\ window[o].open /\ window'[o].open =>
        window'[o].drawn.id >= window[o].drawn.id]_vars

\* Windows catch up: in the end every open window has drawn the player's last
\* command, or one with a number as high; with one player it is that command.
WindowsCatchUp ==
  \A o \in Outputs :
    <>[](mounted /\ window[o].open =>
           /\ window[o].drawn.id >= latest.id
           /\ mount = 1 => window[o].drawn = latest)

\* A window that vanished without a goodbye is not counted as ready for ever,
\* so the player stops believing a screen shows the slide (the tick).
GoneIsNoticed ==
  \A o \in Outputs :
    ~window[o].open ~> (registry[o].status # "ready" \/ window[o].open \/ ~mounted)
=============================================================================
