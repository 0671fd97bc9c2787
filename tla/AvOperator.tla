----------------------------- MODULE AvOperator -----------------------------
(***************************************************************************)
(* The operator's side of the AV player (components/player/av/PlayerAv.tsx *)
(* and its helpers in lib/player): what the operator looks at, what was    *)
(* put on the screens, and the playback that goes with it.                 *)
(*                                                                         *)
(* session is where the operator is; projected is what the screens are     *)
(* meant to show.  Browsing moves session only.  A playlist item is lyrics *)
(* or a deck of pages, shown slide by slide, or timed media, shown only    *)
(* once the operator presses Play.  Preferences, languages, volume, mute   *)
(* and loop, which ride along in a command, are left out; resume and       *)
(* restart count as "play", seek and configure as "adjust".                *)
(***************************************************************************)
EXTENDS Naturals, Sequences

CONSTANT Playlist       \* a sequence of [kind, slides]

ASSUME PlaylistAssumption ==
  /\ Playlist \in Seq([kind : {"lyrics", "deck", "timed"}, slides : Nat \ {0}])
  /\ Playlist # <<>>
  /\ \A i \in DOMAIN Playlist : Playlist[i].kind = "timed" => Playlist[i].slides = 1

VARIABLES
  session,      \* AvSessionState: where the operator is
  projected,    \* AvSessionState: what the screens are to show
  playing       \* livePlayback: the playback intent; "off" when there is none

operatorVars == <<session, projected, playing>>

Screens == {"live", "blank", "blackout"}
States  == UNION {[item : {i}, slide : 0 .. Playlist[i].slides - 1, screen : Screens] :
                    i \in DOMAIN Playlist}
Actions == {"play", "pause", "adjust"}
Intents == [action : Actions \union {"off"}, stamp : {0, 1}]
Off     == [action |-> "off", stamp |-> 0]

Timed(state) == Playlist[state.item].kind = "timed"

\* buildAvPlaybackIntent stamps every intent with the time, so two presses of
\* the same button differ; one bit tells a press from the one before it.
Intent(action) == [action |-> action, stamp |-> 1 - playing.stamp]

\* What a command carries: projectedCommand, less its id.
Payload ==
  [item   |-> projected.item, slide |-> projected.slide, screen |-> projected.screen,
   play   |-> IF Timed(projected) THEN playing ELSE Off]

Payloads == {[item |-> s.item, slide |-> s.slide, screen |-> s.screen,
              play |-> p] : s \in States, p \in Intents}

\* projectedContent and avProjectionContentKey: what makes two commands the
\* same content.  Lyrics are sent as text, and the text is empty unless live.
Content(p) ==
  CASE Playlist[p.item].kind = "timed" -> <<"timed", p.item>>
    [] Playlist[p.item].kind = "deck"  -> <<"deck_page", p.item, p.slide>>
    [] OTHER -> IF p.screen = "live" THEN <<"lyrics", p.item, p.slide>> ELSE <<"lyrics">>

-----------------------------------------------------------------------------
\* The player is opened: both states start at the position saved for this
\* list, or at the first slide of the item the address names.
OpenAt(state) ==
  /\ session' = state
  /\ projected' = state
  /\ playing' = Off

\* Mutants: the next slide past the last; a slide that leaves playback running.
GoToSlidePastTheEnd(k) ==
  /\ ~Timed(session)
  /\ session' = [session EXCEPT !.slide = k + 1, !.screen = "live"]
  /\ projected' = session'
  /\ playing' = Off

GoToSlideWithSound(k) ==
  IF Timed(session)
    THEN /\ session' = [session EXCEPT !.slide = 0, !.screen = "live"]
         /\ UNCHANGED <<projected, playing>>
    ELSE /\ session' = [session EXCEPT !.slide = k, !.screen = "live"]
         /\ projected' = session'
         /\ UNCHANGED playing

\* goToSlide: on a timed item only the operator's own state moves.
GoToSlide(k) ==
  IF Timed(session)
    THEN /\ session' = [session EXCEPT !.slide = 0, !.screen = "live"]
         /\ UNCHANGED <<projected, playing>>
    ELSE /\ k \in 0 .. Playlist[session.item].slides - 1
         /\ session' = [session EXCEPT !.slide = k, !.screen = "live"]
         /\ projected' = session'
         /\ playing' = Off

\* goToItem: from the table of contents or a key, no screen changes.  In a
\* room only the leader may (navBlocked); the lead changes hands at any time,
\* so either this or FollowRoom is open to every step.
GoToItem(i) ==
  /\ session' = [item |-> i, slide |-> 0, screen |-> "live"]
  /\ UNCHANGED <<projected, playing>>

\* A follower's player goes where the room's leader went.
FollowRoom(i) ==
  /\ session.item # i
  /\ session' = [session EXCEPT !.item = i, !.slide = 0]
  /\ UNCHANGED <<projected, playing>>

\* toggleBlank, toggleBlackout: both states take the toggled screen state of
\* the session, and running playback is paused.
ToggleScreen(s) ==
  LET screen == IF session.screen = s THEN "live" ELSE s IN
  /\ session' = [session EXCEPT !.screen = screen]
  /\ projected' = [projected EXCEPT !.screen = screen]
  /\ playing' = IF playing.action = "off" THEN playing ELSE Intent("pause")

\* startPlay, with an output ready: the item goes on the screens and plays.
StartPlay ==
  /\ Timed(session)
  /\ projected' = [item |-> session.item, slide |-> 0, screen |-> "live"]
  /\ playing' = Intent("play")
  /\ UNCHANGED session

\* issuePlayback: the transport's other buttons.  Volume, mute and loop act on
\* what plays even while the operator looks at another timed item.
IssuePlayback(action) ==
  /\ Timed(session)
  /\ playing.action # "off"
  /\ action # "adjust" => session.item = projected.item
  /\ playing' = Intent(action)
  /\ UNCHANGED <<session, projected>>
=============================================================================
