--------------------------- MODULE EditorAutosave ---------------------------
(***************************************************************************)
(* The editors of setlists and collections: one user edits a record, and   *)
(* hooks/useSetlistAutosave.ts (useCollectionAutosave.ts has the same      *)
(* control) saves what differs from the last record the server returned:   *)
(* 750 ms after an edit, when the page is hidden, before a picker opens,   *)
(* and with a keepalive request nobody waits for when the editor is left.  *)
(* Saving pauses offline, while a slot is broken, and behind a banner.     *)
(*                                                                         *)
(* A field's value is the number of the edit that wrote it, 0 as loaded.   *)
(* Other users, the upload of a cover and the icon are left out; so is the *)
(* song editor, which saves by the same rules but without the timer.  Two  *)
(* requests that agree in everything are one.  React commits a change      *)
(* before the next event.                                                  *)
(***************************************************************************)
EXTENDS Naturals

CONSTANTS
  Fields,       \* what a PATCH may carry: title, rows
  Rows,         \* the field with the list of slots
  MaxEdits,     \* bound on the edits
  MaxTroubles   \* bound on failed answers, lost connections and broken slots

ASSUME FieldsAssumption ==
  Rows \in Fields /\ MaxEdits \in Nat /\ MaxTroubles \in Nat

VARIABLES
  stored,     \* the record on the server
  flight,     \* PATCH requests whose answer the hook waits for
  beacons,    \* keepalive requests on their way
  baseline,   \* baselineRef: the last record the server returned
  failure,    \* saveFailure: the body that failed; NoBody without a banner
  timer,      \* debounceTimer runs
  inFlight,   \* patchInFlight
  followUp,   \* needFollowUpPatch
  draft,      \* what the editor shows
  undo,       \* undoRef and the toast's closure
  reload,     \* "Discard and reload": a request, or its answer
  editor,     \* "open", "left" for another page, or "gone" with its tab
  online,
  resume,     \* resumePrompt
  held,       \* brokenGate: a slot's song is not available
  edits,      \* how many edits were begun
  troubles,   \* how much went wrong
  sent,       \* history: what requests have carried
  smooth      \* history: no keepalive was lost, nothing was undone in flight

netVars    == <<stored, flight, beacons>>
hookVars   == <<baseline, failure, timer, inFlight, followUp>>
screenVars == <<draft, undo, reload>>
placeVars  == <<editor, online, resume, held>>
countVars  == <<edits, troubles, sent, smooth>>
vars       == <<netVars, hookVars, screenVars, placeVars, countVars>>

Versions == 0 .. MaxEdits
Records  == [Fields -> Versions]
Loaded   == [f \in Fields |-> 0]

Bodies == UNION {[S -> Versions] : S \in SUBSET Fields}
NoBody == [f \in {} |-> 0]

\* buildSetlistPatchBody: the fields that differ.
Diff(base, shown) == [f \in {g \in Fields : shown[g] # base[g]} |-> shown[f]]

Overwrite(record, body) ==
  [f \in Fields |-> IF f \in DOMAIN body THEN body[f] ELSE record[f]]

Carried(body) == {<<f, body[f]>> : f \in DOMAIN body}

\* insert is the edit the command palette makes when the request is through.
Requests ==
  [body : Bodies, by : {"flush", "follow", "retry"}, insert : Versions,
   state : {"sent", "done", "failed"}, reply : Records]

Request(body, by, insert) ==
  [body |-> body, by |-> by, insert |-> insert, state |-> "sent", reply |-> Loaded]

NoUndo   == [rows |-> Loaded, live |-> FALSE, set |-> FALSE]
NoReload == [state |-> "no", record |-> Loaded]

\* canAutosavePatch, and the condition under which the hook's closures save.
Can  == editor = "open" /\ online /\ ~held /\ ~resume
Live == Can /\ failure = NoBody

\* Mutant: the inputs stay open during a save.
BlockedByBanners == failure # NoBody \/ ~online \/ resume

\* blockingAll: the inputs are read-only.
Blocked == inFlight \/ failure # NoBody \/ ~online \/ resume

Init ==
  /\ stored = Loaded /\ flight = {} /\ beacons = {}
  /\ baseline = Loaded /\ failure = NoBody
  /\ timer = FALSE /\ inFlight = FALSE /\ followUp = FALSE
  /\ draft = Loaded /\ undo = NoUndo /\ reload = NoReload
  /\ editor = "open" /\ online = TRUE /\ resume = FALSE /\ held = FALSE
  /\ edits = 0 /\ troubles = 0 /\ sent = {} /\ smooth = TRUE

-----------------------------------------------------------------------------
(* Sending.                                                                *)

Send(body, by, insert) ==
  /\ flight' = flight \union {Request(body, by, insert)}
  /\ inFlight' = TRUE
  /\ sent' = sent \union Carried(body)

\* Mutants: a flush that sends when nothing differs; one that does not mind
\* the request in flight.
FlushAlways(insert) ==
  IF inFlight
    THEN followUp' = TRUE /\ UNCHANGED <<flight, inFlight, sent>>
    ELSE Send(Diff(baseline, draft), "flush", insert) /\ UNCHANGED followUp

FlushAtOnce(insert) ==
  LET body == Diff(baseline, draft) IN
  /\ IF body = NoBody THEN UNCHANGED <<flight, inFlight, sent>> ELSE Send(body, "flush", insert)
  /\ UNCHANGED followUp

\* flush: one request at a time; another is asked to follow.
Flush(insert) ==
  LET body == Diff(baseline, draft) IN
  CASE body = NoBody -> UNCHANGED <<flight, inFlight, followUp, sent>>
    [] body # NoBody /\ inFlight -> followUp' = TRUE /\ UNCHANGED <<flight, inFlight, sent>>
    [] body # NoBody /\ ~inFlight -> Send(body, "flush", insert) /\ UNCHANGED followUp

\* flushSyncForUnload.  It is the cleanup of an effect: React runs it when the
\* editor is left, and also whenever the hook can no longer save.
FlushSync(body) ==
  /\ beacons' = IF body = NoBody THEN beacons ELSE beacons \union {body}
  /\ sent' = sent \union Carried(body)

LetGo ==
  /\ IF Live THEN FlushSync(Diff(baseline, draft)) ELSE UNCHANGED <<beacons, sent>>
  /\ timer' = (timer /\ ~Can)

Trouble == troubles < MaxTroubles /\ troubles' = troubles + 1

-----------------------------------------------------------------------------
(* Editing.                                                                *)

NewEdit == edits < MaxEdits /\ edits' = edits + 1

Write(f) == draft' = [draft EXCEPT ![f] = edits']

\* notifyDraftEdited compares what the refs hold: the new draft if it is
\* called from a microtask, the old one if it is called beside the setter.
Notify(shown) == timer' = (Live /\ Diff(baseline, shown) # NoBody)

\* The title, the team and a row that is dragged.
Edit(f) ==
  /\ editor = "open" /\ ~Blocked
  /\ NewEdit /\ Write(f)
  /\ Notify(draft)
  /\ UNCHANGED <<netVars, baseline, failure, inFlight, followUp, undo, reload,
                 placeVars, troubles, sent, smooth>>

\* A row's key, capo, tempo, language or flow; a picked medium.
EditRow ==
  /\ editor = "open" /\ ~Blocked
  /\ NewEdit /\ Write(Rows)
  /\ Notify(draft')
  /\ UNCHANGED <<netVars, baseline, failure, inFlight, followUp, undo, reload,
                 placeVars, troubles, sent, smooth>>

\* The song picker, once open, minds the request in flight only.
PickSong ==
  /\ editor = "open" /\ ~inFlight
  /\ NewEdit /\ Write(Rows)
  /\ Notify(draft')
  /\ UNCHANGED <<netVars, baseline, failure, inFlight, followUp, undo, reload,
                 placeVars, troubles, sent, smooth>>

RemoveRow ==
  /\ editor = "open" /\ ~Blocked
  /\ NewEdit /\ Write(Rows)
  /\ undo' = [rows |-> draft, live |-> Live, set |-> TRUE]
  /\ Notify(draft)
  /\ UNCHANGED <<netVars, baseline, failure, inFlight, followUp, reload,
                 placeVars, troubles, sent, smooth>>

\* The toast's Undo is never blocked, and notifies as of the removal.
Undo ==
  /\ editor = "open" /\ undo.set
  /\ draft' = undo.rows
  /\ undo' = NoUndo
  /\ timer' = (undo.live /\ Diff(baseline, draft) # NoBody)
  /\ smooth' = (smooth /\ ~inFlight)
  /\ UNCHANGED <<netVars, baseline, failure, inFlight, followUp, reload,
                 placeVars, edits, troubles, sent>>

\* The command palette flushes, waits, and inserts a song.
PaletteInsert ==
  /\ editor = "open" /\ online /\ ~resume /\ ~inFlight
  /\ NewEdit
  /\ IF Live /\ Diff(baseline, draft) # NoBody
       THEN Flush(edits') /\ timer' = FALSE /\ UNCHANGED draft
       ELSE /\ Write(Rows)
            /\ Notify(draft) \/ Notify(draft')
            /\ UNCHANGED <<flight, inFlight, followUp, sent>>
  /\ UNCHANGED <<stored, beacons, baseline, failure, undo, reload, placeVars, troubles, smooth>>

\* The debounce is over.  The timer was set by a closure that could save.
TimerFires ==
  /\ timer
  /\ timer' = FALSE
  /\ Flush(0)
  /\ UNCHANGED <<stored, beacons, baseline, failure, screenVars, placeVars,
                 edits, troubles, smooth>>

\* The page is hidden, or a picker is opened.
FlushNow ==
  /\ editor = "open"
  /\ timer' = FALSE
  /\ IF Live THEN Flush(0) ELSE UNCHANGED <<flight, inFlight, followUp, sent>>
  /\ UNCHANGED <<stored, beacons, baseline, failure, screenVars, placeVars,
                 edits, troubles, smooth>>

-----------------------------------------------------------------------------
(* The server and the answers.                                             *)

\* The server takes a PATCH; it may be that only the answer is lost.
Apply(r) ==
  /\ r.state = "sent"
  /\ stored' = Overwrite(stored, r.body)
  /\ \/ /\ flight' = (flight \ {r}) \union {[r EXCEPT !.state = "done", !.reply = stored']}
        /\ UNCHANGED troubles
     \/ /\ flight' = (flight \ {r}) \union {[r EXCEPT !.state = "failed"]}
        /\ Trouble
  /\ UNCHANGED <<beacons, hookVars, screenVars, placeVars, edits, sent, smooth>>

Reject(r) ==
  /\ r.state = "sent"
  /\ Trouble
  /\ flight' = (flight \ {r}) \union {[r EXCEPT !.state = "failed"]}
  /\ UNCHANGED <<stored, beacons, hookVars, screenVars, placeVars, edits, sent, smooth>>

DeliverBeacon(body) ==
  /\ stored' = Overwrite(stored, body)
  /\ beacons' = beacons \ {body}
  /\ UNCHANGED <<flight, hookVars, screenVars, placeVars, countVars>>

LoseBeacon(body) ==
  /\ beacons' = beacons \ {body}
  /\ smooth' = FALSE
  /\ UNCHANGED <<stored, flight, hookVars, screenVars, placeVars, edits, troubles, sent>>

\* With its tab a request goes: the server may have had it or not.
Abandon(r) ==
  /\ editor = "gone"
  /\ flight' = flight \ {r}
  /\ UNCHANGED <<stored, beacons, hookVars, screenVars, placeVars, countVars>>

\* Mutant: nobody looks at needFollowUpPatch.
FollowForgotten(r, rest) == FALSE

\* What is still to be sent when flush finds that another was asked for.
Follow(r, rest) == r.by = "flush" /\ followUp /\ rest # NoBody

\* sendPatchInner after its await, and the rest of flush.  A banner makes
\* React run the cleanup; the palette's song comes last, with a late notice.
Respond(r) ==
  LET base    == IF r.state = "done" THEN r.reply ELSE baseline
      rest    == Diff(base, draft)
      follows == Follow(r, rest)
      lands   == r.insert # 0 /\ ~follows /\ editor = "open"
      banner  == Live /\ r.state = "failed"
  IN
  /\ editor # "gone"
  /\ r.state # "sent"
  /\ baseline' = base
  /\ failure' = IF r.state = "done" THEN NoBody ELSE r.body
  /\ followUp' = (followUp /\ r.by # "flush")
  /\ inFlight' = follows
  /\ flight' = (flight \ {r}) \union (IF follows THEN {Request(rest, "follow", r.insert)} ELSE {})
  /\ draft' = IF lands THEN [draft EXCEPT ![Rows] = r.insert] ELSE draft
  /\ timer' = CASE banner          -> FALSE
                [] ~banner /\ lands -> rest # NoBody
                [] OTHER           -> timer
  /\ beacons' = IF banner /\ rest # NoBody THEN beacons \union {rest} ELSE beacons
  /\ sent' = IF banner \/ follows THEN sent \union Carried(rest) ELSE sent
  /\ UNCHANGED <<stored, undo, reload, placeVars, edits, troubles, smooth>>

\* retrySave: the failed body again, whatever is in flight.
RetrySave ==
  /\ editor = "open" /\ failure # NoBody
  /\ failure' = NoBody
  /\ Send(failure, "retry", 0)
  /\ UNCHANGED <<stored, beacons, baseline, timer, followUp, screenVars, placeVars,
                 edits, troubles, smooth>>

DiscardFailedSave ==
  /\ editor = "open" /\ failure # NoBody
  /\ failure' = NoBody
  /\ draft' = baseline
  /\ UNCHANGED <<netVars, baseline, timer, inFlight, followUp, undo, reload, placeVars, countVars>>

-----------------------------------------------------------------------------
(* Connection, broken slots, leaving.                                      *)

GoOffline ==
  /\ editor = "open" /\ online
  /\ Trouble
  /\ online' = FALSE
  /\ LetGo
  /\ UNCHANGED <<stored, flight, baseline, failure, inFlight, followUp, screenVars,
                 editor, resume, held, edits, smooth>>

\* Back online the hook can save for one render, until the prompt shows; then
\* its cleanup runs.
GoOnline ==
  /\ editor = "open" /\ ~online
  /\ online' = TRUE
  /\ resume' = TRUE
  /\ IF failure = NoBody /\ ~held /\ ~resume
       THEN FlushSync(Diff(baseline, draft)) ELSE UNCHANGED <<beacons, sent>>
  /\ timer' = (timer /\ (held \/ resume))
  /\ UNCHANGED <<stored, flight, baseline, failure, inFlight, followUp, screenVars,
                 editor, held, edits, troubles, smooth>>

\* "Retry sync": flush refuses as long as the prompt is there.
RetrySync ==
  /\ editor = "open" /\ resume
  /\ resume' = FALSE
  /\ timer' = FALSE
  /\ UNCHANGED <<netVars, baseline, failure, inFlight, followUp, screenVars,
                 editor, online, held, countVars>>

\* discardResumeReload: the prompt closes, then the record is fetched.
DiscardReload ==
  /\ editor = "open" /\ resume
  /\ resume' = FALSE
  /\ reload' = [state |-> "asked", record |-> Loaded]
  /\ UNCHANGED <<netVars, hookVars, draft, undo, editor, online, held, countVars>>

ReloadAnswer ==
  /\ reload.state = "asked"
  /\ \/ reload' = [state |-> "answered", record |-> stored]
     \/ reload' = [state |-> "answered", record |-> baseline]    \* no answer: the cache
  /\ UNCHANGED <<netVars, hookVars, draft, undo, placeVars, countVars>>

ReloadArrives ==
  /\ editor = "open" /\ reload.state = "answered"
  /\ baseline' = reload.record
  /\ draft' = reload.record
  /\ reload' = NoReload
  /\ UNCHANGED <<netVars, failure, timer, inFlight, followUp, undo, placeVars, countVars>>

Break ==
  /\ editor = "open" /\ ~held
  /\ Trouble
  /\ held' = TRUE
  /\ LetGo
  /\ UNCHANGED <<stored, flight, baseline, failure, inFlight, followUp, screenVars,
                 editor, online, resume, edits, smooth>>

Mend ==
  /\ editor = "open" /\ held
  /\ held' = FALSE
  /\ UNCHANGED <<netVars, hookVars, screenVars, editor, online, resume, countVars>>

\* discardBrokenToBaseline, offered while saving is paused.
DiscardBroken ==
  /\ editor = "open" /\ held /\ failure = NoBody
  /\ draft' = baseline
  /\ held' \in BOOLEAN
  /\ timer' = FALSE
  /\ UNCHANGED <<netVars, baseline, failure, inFlight, followUp, undo, reload,
                 editor, online, resume, countVars>>

\* Mutant: a flush on leaving only if the timer runs.
CloseByTimer ==
  /\ editor = "open"
  /\ editor' \in {"left", "gone"}
  /\ IF timer THEN FlushSync(Diff(baseline, draft)) ELSE UNCHANGED <<beacons, sent>>
  /\ timer' = FALSE
  /\ UNCHANGED <<stored, flight, baseline, failure, inFlight, followUp, screenVars,
                 online, resume, held, edits, troubles, smooth>>

\* The editor is left for another page, where a flush under way goes on, or
\* its tab is closed, where it ends.
Close ==
  /\ editor = "open"
  /\ editor' \in {"left", "gone"}
  /\ IF Live THEN FlushSync(Diff(baseline, draft)) ELSE UNCHANGED <<beacons, sent>>
  /\ timer' = FALSE
  /\ UNCHANGED <<stored, flight, baseline, failure, inFlight, followUp, screenVars,
                 online, resume, held, edits, troubles, smooth>>

-----------------------------------------------------------------------------
User ==
  \/ \E f \in Fields : Edit(f)
  \/ EditRow \/ PickSong \/ RemoveRow \/ Undo \/ PaletteInsert \/ FlushNow
  \/ RetrySave \/ DiscardFailedSave \/ RetrySync \/ DiscardReload \/ DiscardBroken \/ Close

Network ==
  \/ \E r \in flight : Apply(r) \/ Reject(r) \/ Abandon(r) \/ Respond(r)
  \/ \E body \in beacons : DeliverBeacon(body) \/ LoseBeacon(body)
  \/ ReloadAnswer \/ ReloadArrives
  \/ GoOffline \/ GoOnline \/ Break \/ Mend

Next == User \/ Network \/ TimerFires

Spec == Init /\ [][Next]_vars

\* The browser fires its timers and hands over answers, and every request is
\* answered in the end, if only with an error.
Fairness ==
  /\ WF_vars(TimerFires)
  /\ WF_vars(\E r \in flight : Apply(r) \/ Reject(r))
  /\ WF_vars(\E r \in flight : Respond(r))

FairSpec == Spec /\ Fairness

-----------------------------------------------------------------------------
TypeOK ==
  /\ stored \in Records /\ baseline \in Records /\ draft \in Records
  /\ flight \subseteq Requests
  /\ beacons \subseteq Bodies
  /\ failure \in Bodies
  /\ {timer, inFlight, followUp, online, resume, held, smooth} \subseteq BOOLEAN
  /\ undo \in [rows : Records, live : BOOLEAN, set : BOOLEAN]
  /\ reload \in [state : {"no", "asked", "answered"}, record : Records]
  /\ editor \in {"open", "left", "gone"}
  /\ edits \in Versions
  /\ troubles \in 0 .. MaxTroubles
  /\ sent \subseteq Fields \X Versions
  \* no request is empty, and the banner's body is one that was sent
  /\ NoBody \notin beacons \union {r.body : r \in flight}

\* As long as nothing failed, one request is outstanding at a time and the
\* inputs are blocked meanwhile: patchInFlightRef, needFollowUpPatch and the
\* timer keep flushes from overtaking each other.
BlockedWhileSaving ==
  troubles = 0 => \A p, q \in flight : inFlight /\ p = q

\* Whoever leaves the editor with no banner in sight leaves nothing behind:
\* all that the screen showed was sent, whatever went wrong before - although
\* some edits never start the timer (flushSyncForUnload compares everything).
NothingDroppedOnLeave ==
  [][Live /\ editor' # "open" =>
       \A f \in Fields : draft[f] = 0 \/ <<f, draft[f]>> \in sent']_vars

\* If nothing failed and nothing is on its way any more, the server has what
\* the editor showed when it was left: the keepalive request and the PATCH in
\* flight may arrive in either order, because edits are blocked in between.
EndsAsSeen ==
  troubles = 0 /\ smooth /\ editor # "open" /\ flight = {} /\ beacons = {} => stored = draft

\* A difference for which the timer runs is stored, unless another edit takes
\* its place: the timer, the request in flight and its follow-up pass it on.
AnnouncedEditsAreSaved ==
  \A f \in Fields, v \in Versions :
    (timer /\ draft[f] = v /\ baseline[f] # v) ~>
      (stored[f] = v \/ draft[f] # v \/ troubles # 0 \/ editor # "open")
=============================================================================
