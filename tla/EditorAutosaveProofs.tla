------------------------ MODULE EditorAutosaveProofs -------------------------
(***************************************************************************)
(* What the autosave of the editors keeps, for any fields, any number of   *)
(* edits and any number of failures: one request at a time as long as      *)
(* nothing fails, nothing shown is left behind when the editor is left,    *)
(* and the server ends with what was shown.                                *)
(***************************************************************************)
EXTENDS EditorAutosave, TLAPS

(* The invariants that carry the theorems.  In a quiet time nothing paused *)
(* saving, and no request has failed.                                      *)
Quiet ==
  troubles = 0 =>
    /\ failure = NoBody /\ online /\ ~held /\ ~resume /\ reload.state = "no"
    /\ \A r \in flight : r.state # "failed"

(* Whatever the server, the baseline, a request or a banner holds was sent. *)
Known(record) == \A f \in Fields : record[f] = 0 \/ <<f, record[f]>> \in sent

AllSent ==
  /\ Known(stored) /\ Known(baseline) /\ Known(reload.record)
  /\ \A r \in flight : Carried(r.body) \subseteq sent /\ Known(r.reply)
  /\ \A body \in beacons : Carried(body) \subseteq sent
  /\ Carried(failure) \subseteq sent

(* What is on its way is what is shown, and with it the server has what is *)
(* shown; once the editor was left the keepalive requests are enough.      *)
Shows(body) == \A f \in DOMAIN body : body[f] = draft[f]

OnItsWay ==
  troubles = 0 /\ smooth =>
    /\ \A r \in flight : Shows(r.body)
    /\ \A body \in beacons : Shows(body)
    /\ editor = "open" =>
         /\ beacons = {}
         /\ flight = {} => stored = baseline
         /\ \A r \in flight :
              /\ r.state = "sent" =>
                   /\ stored = baseline
                   /\ \A f \in Fields : baseline[f] = draft[f] \/ f \in DOMAIN r.body
              /\ r.state = "done" => stored = draft /\ r.reply = draft
    /\ editor # "open" =>
         \A f \in Fields : stored[f] = draft[f] \/ \E body \in beacons : f \in DOMAIN body

NoTimer == editor # "open" => ~timer

-----------------------------------------------------------------------------
(* Records and bodies.                                                     *)

LEMMA ZeroIsAVersion == 0 \in Versions
BY FieldsAssumption DEF Versions

LEMMA LoadedTyped == Loaded \in Records /\ \A f \in Fields : Loaded[f] = 0
BY ZeroIsAVersion DEF Loaded, Records

LEMMA NoBodyTyped == NoBody \in Bodies /\ DOMAIN NoBody = {}
<1>1. NoBody \in [{} -> Versions]
  BY DEF NoBody
<1> QED BY <1>1 DEF Bodies

LEMMA BodyFacts ==
  ASSUME NEW body \in Bodies
  PROVE  DOMAIN body \subseteq Fields /\ \A f \in DOMAIN body : body[f] \in Versions
BY DEF Bodies

LEMMA DiffFacts ==
  ASSUME NEW base \in Records, NEW shown \in Records
  PROVE  /\ Diff(base, shown) \in Bodies
         /\ DOMAIN Diff(base, shown) = {f \in Fields : shown[f] # base[f]}
         /\ \A f \in DOMAIN Diff(base, shown) : Diff(base, shown)[f] = shown[f]
<1> DEFINE S == {f \in Fields : shown[f] # base[f]}
<1>1. Diff(base, shown) \in [S -> Versions]
  BY DEF Diff, Records
<1>2. S \in SUBSET Fields
  OBVIOUS
<1> QED BY <1>1, <1>2 DEF Diff, Bodies

LEMMA NothingDiffers ==
  ASSUME NEW base \in Records, NEW shown \in Records
  PROVE  base = shown => Diff(base, shown) = NoBody
BY DEF Diff, NoBody

LEMMA OverwriteFacts ==
  ASSUME NEW record \in Records, NEW body \in Bodies
  PROVE  /\ Overwrite(record, body) \in Records
         /\ \A f \in Fields : Overwrite(record, body)[f] =
                                IF f \in DOMAIN body THEN body[f] ELSE record[f]
BY BodyFacts DEF Overwrite, Records

LEMMA WrittenTyped ==
  ASSUME NEW record \in Records, NEW f \in Fields, NEW v \in Versions
  PROVE  [record EXCEPT ![f] = v] \in Records
BY DEF Records

LEMMA RequestFacts ==
  ASSUME NEW body \in Bodies, NEW by \in {"flush", "follow", "retry"}, NEW insert \in Versions
  PROVE  /\ Request(body, by, insert) \in Requests
         /\ Request(body, by, insert).body = body
         /\ Request(body, by, insert).state = "sent"
         /\ Request(body, by, insert).reply = Loaded
BY LoadedTyped DEF Request, Requests

LEMMA RequestFields ==
  ASSUME NEW r \in Requests
  PROVE  /\ r.body \in Bodies /\ r.reply \in Records /\ r.insert \in Versions
         /\ r.by \in {"flush", "follow", "retry"}
         /\ r.state \in {"sent", "done", "failed"}
BY DEF Requests

LEMMA AnsweredFacts ==
  ASSUME NEW r \in Requests, NEW record \in Records
  PROVE  LET done == [r EXCEPT !.state = "done", !.reply = record] IN
         /\ done \in Requests /\ done.body = r.body
         /\ done.state = "done" /\ done.reply = record
BY DEF Requests

LEMMA FailedFacts ==
  ASSUME NEW r \in Requests
  PROVE  LET failed == [r EXCEPT !.state = "failed"] IN
         /\ failed \in Requests /\ failed.body = r.body
         /\ failed.state = "failed" /\ failed.reply = r.reply
BY DEF Requests

LEMMA CarriedFacts ==
  ASSUME NEW body \in Bodies
  PROVE  /\ Carried(body) \subseteq Fields \X Versions
         /\ \A f \in DOMAIN body : <<f, body[f]>> \in Carried(body)
         /\ \A f, v : <<f, v>> \in Carried(body) => f \in DOMAIN body /\ v = body[f]
BY BodyFacts DEF Carried

USE DEF netVars, hookVars, screenVars, placeVars, countVars

-----------------------------------------------------------------------------
(* The types.  What Flush and the two keepalive paths do is stated once.   *)

SendTyped ==
  /\ flight' \subseteq Requests
  /\ inFlight' \in BOOLEAN /\ followUp' \in BOOLEAN
  /\ sent' \subseteq Fields \X Versions
  /\ NoBody \notin {r.body : r \in flight'}

LEMMA FlushTyped ==
  ASSUME TypeOK, NEW insert \in Versions, Flush(insert)
  PROVE  SendTyped
<1> DEFINE body == Diff(baseline, draft)
<1>1. body \in Bodies
  BY DiffFacts DEF TypeOK
<1>2. CASE body = NoBody
  BY <1>2 DEF Flush, SendTyped, TypeOK
<1>3. CASE body # NoBody /\ inFlight
  BY <1>3 DEF Flush, SendTyped, TypeOK
<1>4. CASE body # NoBody /\ ~inFlight
  <2>1. Send(body, "flush", insert) /\ UNCHANGED followUp
    BY <1>4 DEF Flush
  <2> QED BY <2>1, <1>1, <1>4, RequestFacts, CarriedFacts DEF Send, SendTyped, TypeOK
<1> QED BY <1>2, <1>3, <1>4

LEMMA FlushSyncTyped ==
  ASSUME TypeOK, FlushSync(Diff(baseline, draft))
  PROVE  /\ beacons' \subseteq Bodies /\ NoBody \notin beacons'
         /\ sent' \subseteq Fields \X Versions
<1> DEFINE body == Diff(baseline, draft)
<1>1. body \in Bodies
  BY DiffFacts DEF TypeOK
<1>2. Carried(body) \subseteq Fields \X Versions
  BY <1>1, CarriedFacts
<1> HIDE DEF body
<1>3. FlushSync(body)
  BY DEF body
<1> QED BY <1>1, <1>2, <1>3 DEF FlushSync, TypeOK

LEMMA LetGoTyped ==
  ASSUME TypeOK, LetGo
  PROVE  /\ beacons' \subseteq Bodies /\ NoBody \notin beacons'
         /\ sent' \subseteq Fields \X Versions
         /\ timer' \in BOOLEAN
<1>1. timer' \in BOOLEAN
  BY DEF LetGo, TypeOK
<1>2. CASE Live
  BY <1>1, <1>2, FlushSyncTyped DEF LetGo
<1>3. CASE ~Live
  BY <1>1, <1>3 DEF LetGo, TypeOK
<1> QED BY <1>2, <1>3

LEMMA TroubleTyped ==
  ASSUME TypeOK, Trouble
  PROVE  troubles' \in 0 .. MaxTroubles /\ troubles' # 0
BY FieldsAssumption DEF Trouble, TypeOK

LEMMA NewEditTyped ==
  ASSUME TypeOK, NewEdit
  PROVE  edits' \in Versions
BY FieldsAssumption DEF NewEdit, Versions, TypeOK

LEMMA WriteTyped ==
  ASSUME TypeOK, NewEdit, NEW f \in Fields, Write(f)
  PROVE  draft' \in Records
BY WrittenTyped, NewEditTyped DEF Write, TypeOK

(* An answer: what changed for good is the baseline; the rest follows.     *)
LEMMA RespondTyped ==
  ASSUME TypeOK, NEW r \in flight, Respond(r)
  PROVE  TypeOK'
<1> DEFINE base    == IF r.state = "done" THEN r.reply ELSE baseline
           rest    == Diff(base, draft)
           follows == Follow(r, rest)
           lands   == r.insert # 0 /\ ~follows /\ editor = "open"
           banner  == Live /\ r.state = "failed"
<1>1. r \in Requests
  BY DEF TypeOK
<1>2. base \in Records
  BY <1>1, RequestFields DEF TypeOK
<1>3. rest \in Bodies
  BY <1>2, DiffFacts DEF TypeOK
<1>4. follows \in BOOLEAN /\ (follows => rest # NoBody)
  BY DEF Follow
<1>5. Carried(rest) \subseteq Fields \X Versions
  BY <1>3, CarriedFacts
<1>6. Request(rest, "follow", r.insert) \in Requests
      /\ Request(rest, "follow", r.insert).body = rest
  BY <1>1, <1>3, RequestFields, RequestFacts
<1>7. [draft EXCEPT ![Rows] = r.insert] \in Records
  BY <1>1, RequestFields, WrittenTyped, FieldsAssumption DEF TypeOK
<1>8. /\ baseline' = base
      /\ failure' = IF r.state = "done" THEN NoBody ELSE r.body
      /\ followUp' = (followUp /\ r.by # "flush")
      /\ inFlight' = follows
      /\ flight' = (flight \ {r}) \union (IF follows THEN {Request(rest, "follow", r.insert)} ELSE {})
      /\ draft' = IF lands THEN [draft EXCEPT ![Rows] = r.insert] ELSE draft
      /\ timer' = CASE banner           -> FALSE
                    [] ~banner /\ lands -> rest # NoBody
                    [] OTHER            -> timer
      /\ beacons' = IF banner /\ rest # NoBody THEN beacons \union {rest} ELSE beacons
      /\ sent' = IF banner \/ follows THEN sent \union Carried(rest) ELSE sent
      /\ UNCHANGED <<stored, undo, reload, placeVars, edits, troubles, smooth>>
  BY DEF Respond
<1> HIDE DEF base, rest, follows, banner
<1>9. flight' \subseteq Requests /\ NoBody \notin {q.body : q \in flight'}
  BY <1>4, <1>6, <1>8 DEF TypeOK
<1>10. beacons' \subseteq Bodies /\ NoBody \notin beacons'
  BY <1>3, <1>8 DEF TypeOK
<1>11. baseline' \in Records /\ draft' \in Records /\ failure' \in Bodies
  BY <1>1, <1>2, <1>7, <1>8, RequestFields, NoBodyTyped DEF TypeOK
<1>12. timer' \in BOOLEAN /\ inFlight' \in BOOLEAN /\ followUp' \in BOOLEAN
  BY <1>4, <1>8 DEF TypeOK
<1>13. sent' \subseteq Fields \X Versions
  BY <1>5, <1>8 DEF TypeOK
<1> QED BY <1>8, <1>9, <1>10, <1>11, <1>12, <1>13 DEF TypeOK

LEMMA UserTyped ==
  ASSUME TypeOK, User
  PROVE  TypeOK'
<1>1. ASSUME NEW f \in Fields, Edit(f) PROVE TypeOK'
  BY <1>1, NewEditTyped, WriteTyped DEF Edit, Notify, TypeOK
<1>2. CASE EditRow
  BY <1>2, NewEditTyped, WriteTyped, FieldsAssumption DEF EditRow, Notify, TypeOK
<1>3. CASE PickSong
  BY <1>3, NewEditTyped, WriteTyped, FieldsAssumption DEF PickSong, Notify, TypeOK
<1>4. CASE RemoveRow
  <2>1. draft' \in Records /\ edits' \in Versions
    BY <1>4, NewEditTyped, WriteTyped, FieldsAssumption DEF RemoveRow
  <2>2. undo' \in [rows : Records, live : BOOLEAN, set : BOOLEAN]
    BY <1>4 DEF RemoveRow, Live, Can, TypeOK
  <2> QED BY <1>4, <2>1, <2>2 DEF RemoveRow, Notify, TypeOK
<1>5. CASE Undo
  <2>1. NoUndo \in [rows : Records, live : BOOLEAN, set : BOOLEAN]
    BY LoadedTyped DEF NoUndo
  <2> QED BY <1>5, <2>1 DEF Undo, TypeOK
<1>6. CASE PaletteInsert
  <2>1. edits' \in Versions
    BY <1>6, NewEditTyped DEF PaletteInsert
  <2>2. CASE Live /\ Diff(baseline, draft) # NoBody
    <3>1. Flush(edits') /\ timer' = FALSE /\ UNCHANGED draft
      BY <1>6, <2>2 DEF PaletteInsert
    <3>2. SendTyped
      BY <2>1, <3>1, FlushTyped
    <3> QED BY <1>6, <2>1, <3>1, <3>2 DEF PaletteInsert, SendTyped, TypeOK
  <2>3. CASE ~(Live /\ Diff(baseline, draft) # NoBody)
    <3>1. Write(Rows) /\ timer' \in BOOLEAN /\ UNCHANGED <<flight, inFlight, followUp, sent>>
      BY <1>6, <2>3 DEF PaletteInsert, Notify
    <3>2. draft' \in Records
      BY <1>6, <3>1, WriteTyped, FieldsAssumption DEF PaletteInsert
    <3> QED BY <1>6, <2>1, <3>1, <3>2 DEF PaletteInsert, TypeOK
  <2> QED BY <2>2, <2>3
<1>7. CASE FlushNow
  <2>1. SendTyped
    BY <1>7, FlushTyped, ZeroIsAVersion DEF FlushNow, SendTyped, TypeOK
  <2> QED BY <1>7, <2>1 DEF FlushNow, SendTyped, TypeOK
<1>8. CASE RetrySave
  <2>1. Send(failure, "retry", 0) /\ failure \in Bodies /\ failure # NoBody
    BY <1>8 DEF RetrySave, TypeOK
  <2>2. flight' \subseteq Requests /\ NoBody \notin {q.body : q \in flight'}
        /\ sent' \subseteq Fields \X Versions /\ inFlight' = TRUE
    BY <2>1, RequestFacts, CarriedFacts, ZeroIsAVersion DEF Send, TypeOK
  <2> QED BY <1>8, <2>2, NoBodyTyped DEF RetrySave, TypeOK
<1>9. CASE DiscardFailedSave
  BY <1>9, NoBodyTyped DEF DiscardFailedSave, TypeOK
<1>10. CASE RetrySync
  BY <1>10 DEF RetrySync, TypeOK
<1>11. CASE DiscardReload
  <2>1. [state |-> "asked", record |-> Loaded] \in [state : {"no", "asked", "answered"}, record : Records]
    BY LoadedTyped
  <2> QED BY <1>11, <2>1 DEF DiscardReload, TypeOK
<1>12. CASE DiscardBroken
  BY <1>12 DEF DiscardBroken, TypeOK
<1>13. CASE Close
  <2>1. /\ beacons' \subseteq Bodies /\ NoBody \notin beacons'
        /\ sent' \subseteq Fields \X Versions
    BY <1>13, FlushSyncTyped DEF Close, TypeOK
  <2> QED BY <1>13, <2>1 DEF Close, TypeOK
<1> QED BY <1>1, <1>2, <1>3, <1>4, <1>5, <1>6, <1>7, <1>8, <1>9, <1>10, <1>11, <1>12, <1>13 DEF User

LEMMA NetworkTyped ==
  ASSUME TypeOK, Network
  PROVE  TypeOK'
<1>1. ASSUME NEW r \in flight, Apply(r) PROVE TypeOK'
  <2>1. r \in Requests /\ r.body \in Bodies
    BY RequestFields DEF TypeOK
  <2>2. stored' \in Records
    BY <1>1, <2>1, OverwriteFacts DEF Apply, TypeOK
  <2>3. PICK q : q \in Requests /\ q.body = r.body /\ flight' = (flight \ {r}) \union {q}
    BY <1>1, <2>1, <2>2, AnsweredFacts, FailedFacts DEF Apply
  <2>4. flight' \subseteq Requests /\ NoBody \notin {p.body : p \in flight'}
    BY <2>3 DEF TypeOK
  <2>5. troubles' \in 0 .. MaxTroubles
    BY <1>1, TroubleTyped DEF Apply, TypeOK
  <2> QED BY <1>1, <2>2, <2>4, <2>5 DEF Apply, TypeOK
<1>2. ASSUME NEW r \in flight, Reject(r) PROVE TypeOK'
  <2>1. PICK q : q \in Requests /\ q.body = r.body /\ flight' = (flight \ {r}) \union {q}
    BY <1>2, FailedFacts DEF Reject, TypeOK
  <2>2. flight' \subseteq Requests /\ NoBody \notin {p.body : p \in flight'}
    BY <2>1 DEF TypeOK
  <2> QED BY <1>2, <2>2, TroubleTyped DEF Reject, TypeOK
<1>3. ASSUME NEW r \in flight, Abandon(r) PROVE TypeOK'
  BY <1>3 DEF Abandon, TypeOK
<1>4. ASSUME NEW r \in flight, Respond(r) PROVE TypeOK'
  BY <1>4, RespondTyped
<1>5. ASSUME NEW body \in beacons, DeliverBeacon(body) PROVE TypeOK'
  BY <1>5, OverwriteFacts DEF DeliverBeacon, TypeOK
<1>6. ASSUME NEW body \in beacons, LoseBeacon(body) PROVE TypeOK'
  BY <1>6 DEF LoseBeacon, TypeOK
<1>7. CASE ReloadAnswer
  BY <1>7 DEF ReloadAnswer, TypeOK
<1>8. CASE ReloadArrives
  <2>1. NoReload \in [state : {"no", "asked", "answered"}, record : Records]
    BY LoadedTyped DEF NoReload
  <2> QED BY <1>8, <2>1 DEF ReloadArrives, TypeOK
<1>9. CASE GoOffline
  BY <1>9, LetGoTyped, TroubleTyped DEF GoOffline, TypeOK
<1>10. CASE GoOnline
  <2>1. /\ beacons' \subseteq Bodies /\ NoBody \notin beacons'
        /\ sent' \subseteq Fields \X Versions
    BY <1>10, FlushSyncTyped DEF GoOnline, TypeOK
  <2> QED BY <1>10, <2>1 DEF GoOnline, TypeOK
<1>11. CASE Break
  BY <1>11, LetGoTyped, TroubleTyped DEF Break, TypeOK
<1>12. CASE Mend
  BY <1>12 DEF Mend, TypeOK
<1> QED BY <1>1, <1>2, <1>3, <1>4, <1>5, <1>6, <1>7, <1>8, <1>9, <1>10, <1>11, <1>12 DEF Network

LEMMA NextTyped ==
  ASSUME TypeOK, [Next]_vars
  PROVE  TypeOK'
<1>1. CASE User
  BY <1>1, UserTyped
<1>2. CASE Network
  BY <1>2, NetworkTyped
<1>3. CASE TimerFires
  <2>1. SendTyped
    BY <1>3, FlushTyped, ZeroIsAVersion DEF TimerFires
  <2> QED BY <1>3, <2>1 DEF TimerFires, SendTyped, TypeOK
<1>4. CASE UNCHANGED vars
  BY <1>4 DEF vars, TypeOK
<1> QED BY <1>1, <1>2, <1>3, <1>4 DEF Next

LEMMA InitTyped == Init => TypeOK
<1> SUFFICES ASSUME Init PROVE TypeOK
  OBVIOUS
<1>1. NoUndo \in [rows : Records, live : BOOLEAN, set : BOOLEAN]
  BY LoadedTyped DEF NoUndo
<1>2. NoReload \in [state : {"no", "asked", "answered"}, record : Records]
  BY LoadedTyped DEF NoReload
<1>3. stored \in Records /\ baseline \in Records /\ draft \in Records
  BY LoadedTyped DEF Init
<1>4. NoBody \notin beacons \union {r.body : r \in flight}
  BY DEF Init
<1>5. edits \in Versions /\ troubles \in 0 .. MaxTroubles
  BY ZeroIsAVersion, FieldsAssumption DEF Init
<1> QED BY <1>1, <1>2, <1>3, <1>4, <1>5, NoBodyTyped DEF Init, TypeOK

(* Types: every request and every record is made of values that were       *)
(* edited, and no request is empty, whatever fails.                        *)
THEOREM AutosaveTyped == Spec => []TypeOK
BY InitTyped, NextTyped, PTL DEF Spec

-----------------------------------------------------------------------------
(* One request at a time.                                                  *)

Serial == Quiet /\ BlockedWhileSaving /\ NoTimer

LEMMA FlushSerial ==
  ASSUME TypeOK, Serial, NEW insert, Flush(insert), UNCHANGED <<failure, online, held, resume, reload, troubles, editor>>,
         ~timer'
  PROVE  Serial'
<1>1. UNCHANGED <<flight, inFlight>> \/ (~inFlight /\ Send(Diff(baseline, draft), "flush", insert))
  BY DEF Flush
<1>2. CASE UNCHANGED <<flight, inFlight>>
  BY <1>2 DEF Serial, Quiet, BlockedWhileSaving, NoTimer
<1>3. CASE ~inFlight /\ Send(Diff(baseline, draft), "flush", insert)
  <2>1. troubles = 0 => flight = {}
    BY <1>3 DEF Serial, BlockedWhileSaving
  <2>2. PICK q : q.state = "sent" /\ flight' = flight \union {q} /\ inFlight' = TRUE
    BY <1>3 DEF Send, Request
  <2> QED BY <2>1, <2>2 DEF Serial, Quiet, BlockedWhileSaving, NoTimer
<1> QED BY <1>1, <1>2, <1>3

LEMMA RespondSerial ==
  ASSUME TypeOK, Serial, NEW r \in flight, Respond(r)
  PROVE  Serial'
<1> DEFINE base    == IF r.state = "done" THEN r.reply ELSE baseline
           rest    == Diff(base, draft)
           follows == Follow(r, rest)
           banner  == Live /\ r.state = "failed"
           request == Request(rest, "follow", r.insert)
<1>1. request.state = "sent"
  BY DEF Request
<1>2. /\ failure' = IF r.state = "done" THEN NoBody ELSE r.body
      /\ inFlight' = follows
      /\ flight' = (flight \ {r}) \union (IF follows THEN {request} ELSE {})
      /\ UNCHANGED <<reload, online, held, resume, editor, troubles>>
  BY DEF Respond
<1>3. timer' => timer \/ editor = "open"
  BY DEF Respond
<1> HIDE DEF request, follows
<1>4. CASE troubles = 0
  <2>1. flight = {r} /\ r.state # "failed"
    BY <1>4 DEF Serial, Quiet, BlockedWhileSaving
  <2>2. r.state = "done"
    BY <2>1, RequestFields DEF Respond, TypeOK
  <2>3. flight' = IF follows THEN {request} ELSE {}
    BY <1>2, <2>1
  <2> QED BY <1>1, <1>2, <1>3, <2>2, <2>3 DEF Serial, Quiet, BlockedWhileSaving, NoTimer
<1>5. CASE troubles # 0
  BY <1>2, <1>3, <1>5 DEF Serial, Quiet, BlockedWhileSaving, NoTimer
<1> QED BY <1>4, <1>5

LEMMA SerialStep ==
  ASSUME TypeOK, Serial, [Next]_vars
  PROVE  Serial'
<1> USE DEF Serial, Quiet, BlockedWhileSaving, NoTimer
<1>1. ASSUME NEW f \in Fields, Edit(f) PROVE Serial'
  BY <1>1 DEF Edit
<1>2. CASE EditRow
  BY <1>2 DEF EditRow
<1>3. CASE PickSong
  BY <1>3 DEF PickSong
<1>4. CASE RemoveRow
  BY <1>4 DEF RemoveRow
<1>5. CASE Undo
  BY <1>5 DEF Undo
<1>6. CASE PaletteInsert
  <2>1. CASE Live /\ Diff(baseline, draft) # NoBody
    BY <1>6, <2>1, FlushSerial DEF PaletteInsert
  <2>2. CASE ~(Live /\ Diff(baseline, draft) # NoBody)
    BY <1>6, <2>2 DEF PaletteInsert
  <2> QED BY <2>1, <2>2
<1>7. CASE FlushNow
  <2>1. CASE Live
    BY <1>7, <2>1, FlushSerial DEF FlushNow
  <2>2. CASE ~Live
    BY <1>7, <2>2 DEF FlushNow
  <2> QED BY <2>1, <2>2
<1>8. CASE RetrySave
  BY <1>8 DEF RetrySave
<1>9. CASE DiscardFailedSave
  BY <1>9 DEF DiscardFailedSave
<1>10. CASE RetrySync
  BY <1>10 DEF RetrySync
<1>11. CASE DiscardReload
  BY <1>11 DEF DiscardReload
<1>12. CASE DiscardBroken
  BY <1>12 DEF DiscardBroken
<1>13. CASE Close
  BY <1>13 DEF Close
<1>14. ASSUME NEW r \in flight, Apply(r) PROVE Serial'
  <2>1. CASE troubles' = 0
    <3>1. /\ troubles = 0
          /\ flight' = (flight \ {r}) \union {[r EXCEPT !.state = "done", !.reply = stored']}
      BY <1>14, <2>1, TroubleTyped DEF Apply
    <3>2. [r EXCEPT !.state = "done", !.reply = stored'].state = "done"
      <4>1. r \in Requests /\ stored' = Overwrite(stored, r.body) /\ stored \in Records
        BY <1>14 DEF Apply, TypeOK
      <4>2. stored' \in Records
        BY <4>1, OverwriteFacts, RequestFields
      <4> QED BY <4>1, <4>2, AnsweredFacts
    <3>3. PICK q : q.state = "done" /\ flight' = (flight \ {r}) \union {q}
      BY <3>1, <3>2
    <3>4. flight' = {q}
      BY <3>1, <3>3
    <3> QED BY <1>14, <3>1, <3>3, <3>4 DEF Apply
  <2>2. CASE troubles' # 0
    BY <1>14, <2>2 DEF Apply
  <2> QED BY <2>1, <2>2
<1>15. ASSUME NEW r \in flight, Reject(r) PROVE Serial'
  <2>1. troubles' # 0
    BY <1>15, TroubleTyped DEF Reject
  <2> QED BY <1>15, <2>1 DEF Reject
<1>16. ASSUME NEW r \in flight, Abandon(r) PROVE Serial'
  BY <1>16 DEF Abandon
<1>17. ASSUME NEW r \in flight, Respond(r) PROVE Serial'
  BY <1>17, RespondSerial
<1>18. ASSUME NEW body \in beacons, DeliverBeacon(body) PROVE Serial'
  BY <1>18 DEF DeliverBeacon
<1>19. ASSUME NEW body \in beacons, LoseBeacon(body) PROVE Serial'
  BY <1>19 DEF LoseBeacon
<1>20. CASE ReloadAnswer
  BY <1>20 DEF ReloadAnswer
<1>21. CASE ReloadArrives
  BY <1>21 DEF ReloadArrives
<1>22. CASE GoOffline
  BY <1>22, TroubleTyped DEF GoOffline
<1>23. CASE GoOnline
  BY <1>23 DEF GoOnline
<1>24. CASE Break
  BY <1>24, TroubleTyped DEF Break
<1>25. CASE Mend
  BY <1>25 DEF Mend
<1>26. CASE TimerFires
  BY <1>26, FlushSerial DEF TimerFires
<1>27. CASE UNCHANGED vars
  BY <1>27 DEF vars
<1> QED BY <1>1, <1>2, <1>3, <1>4, <1>5, <1>6, <1>7, <1>8, <1>9, <1>10, <1>11, <1>12, <1>13,
           <1>14, <1>15, <1>16, <1>17, <1>18, <1>19, <1>20, <1>21, <1>22, <1>23, <1>24, <1>25,
           <1>26, <1>27 DEF Next, User, Network

LEMMA InitSerial == Init => Serial
BY DEF Init, Serial, Quiet, BlockedWhileSaving, NoTimer, NoReload

(* As long as nothing failed, requests do not overtake each other.         *)
THEOREM OneRequestAtATime == Spec => []BlockedWhileSaving
<1>1. Init => TypeOK /\ Serial
  BY InitTyped, InitSerial
<1>2. TypeOK /\ Serial /\ [Next]_vars => (TypeOK /\ Serial)'
  BY NextTyped, SerialStep
<1>3. Serial => BlockedWhileSaving
  BY DEF Serial
<1> QED BY <1>1, <1>2, <1>3, PTL DEF Spec

-----------------------------------------------------------------------------
(* Everything was sent.                                                    *)

LEMMA SentGrows ==
  ASSUME TypeOK, [Next]_vars
  PROVE  sent \subseteq sent'
<1>1. ASSUME NEW insert, Flush(insert) PROVE sent \subseteq sent'
  BY <1>1 DEF Flush, Send
<1>2. CASE User
  BY <1>1, <1>2 DEF User, Edit, EditRow, PickSong, RemoveRow, Undo, PaletteInsert, FlushNow,
       RetrySave, DiscardFailedSave, RetrySync, DiscardReload, DiscardBroken, Close, Send, FlushSync
<1>3. ASSUME NEW r \in flight, Respond(r) PROVE sent \subseteq sent'
  BY <1>3 DEF Respond
<1>4. CASE Network
  BY <1>3, <1>4 DEF Network, Apply, Reject, Abandon, DeliverBeacon, LoseBeacon, ReloadAnswer,
       ReloadArrives, GoOffline, GoOnline, Break, Mend, LetGo, FlushSync
<1>5. CASE TimerFires
  BY <1>1, <1>5 DEF TimerFires
<1>6. CASE UNCHANGED vars
  BY <1>6 DEF vars
<1> QED BY <1>2, <1>4, <1>5, <1>6 DEF Next

(* What a step may add to the requests, the keepalives and the records.    *)
LEMMA AllSentKept ==
  ASSUME TypeOK, AllSent, sent \subseteq sent',
         Known(stored)' \/ stored' = stored,
         Known(baseline)' \/ baseline' = baseline,
         Known(reload.record)' \/ reload' = reload,
         \A r \in flight' : r \in flight \/ (Carried(r.body) \subseteq sent' /\ Known(r.reply)'),
         \A body \in beacons' : body \in beacons \/ Carried(body) \subseteq sent',
         failure' = failure \/ Carried(failure') \subseteq sent'
  PROVE  AllSent'
BY DEF AllSent, Known

LEMMA DiffKnown ==
  ASSUME NEW base \in Records, NEW shown \in Records, Carried(Diff(base, shown)) \subseteq sent'
  PROVE  \A f \in Fields : shown[f] # base[f] => <<f, shown[f]>> \in sent'
<1> DEFINE body == Diff(base, shown)
<1>1. /\ body \in Bodies /\ DOMAIN body = {f \in Fields : shown[f] # base[f]}
      /\ \A f \in DOMAIN body : body[f] = shown[f]
  BY DiffFacts
<1>2. Carried(body) \subseteq sent'
  OBVIOUS
<1> HIDE DEF body
<1> QED BY <1>1, <1>2, CarriedFacts

LEMMA FlushSent ==
  ASSUME TypeOK, AllSent, NEW insert \in Versions, Flush(insert)
  PROVE  \A r \in flight' : r \in flight \/ (Carried(r.body) \subseteq sent' /\ Known(r.reply)')
<1> DEFINE body == Diff(baseline, draft)
<1>1. body \in Bodies
  BY DiffFacts DEF TypeOK
<1>2. Request(body, "flush", insert).body = body /\ Request(body, "flush", insert).reply = Loaded
  BY <1>1, RequestFacts
<1> HIDE DEF body
<1>3. UNCHANGED flight \/ Send(body, "flush", insert)
  BY DEF Flush, body
<1> QED BY <1>2, <1>3, LoadedTyped DEF Send, Known

LEMMA AllSentStep ==
  ASSUME TypeOK, AllSent, [Next]_vars
  PROVE  AllSent'
<1>0. sent \subseteq sent'
  BY SentGrows
<1>1. CASE User
  <2>1. UNCHANGED <<stored, baseline>>
    BY <1>1 DEF User, Edit, EditRow, PickSong, RemoveRow, Undo, PaletteInsert, FlushNow,
         RetrySave, DiscardFailedSave, RetrySync, DiscardReload, DiscardBroken, Close
  <2>2. Known(reload.record)' \/ reload' = reload
    BY <1>1, LoadedTyped DEF User, Edit, EditRow, PickSong, RemoveRow, Undo, PaletteInsert, FlushNow,
         RetrySave, DiscardFailedSave, RetrySync, DiscardReload, DiscardBroken, Close, Known
  <2>3. failure' = failure \/ Carried(failure') \subseteq sent'
    BY <1>1, CarriedFacts, NoBodyTyped DEF User, Edit, EditRow, PickSong, RemoveRow, Undo, PaletteInsert, FlushNow,
         RetrySave, DiscardFailedSave, RetrySync, DiscardReload, DiscardBroken, Close, Carried
  <2>4. \A body \in beacons' : body \in beacons \/ Carried(body) \subseteq sent'
    BY <1>1 DEF User, Edit, EditRow, PickSong, RemoveRow, Undo, PaletteInsert, FlushNow,
         RetrySave, DiscardFailedSave, RetrySync, DiscardReload, DiscardBroken, Close, FlushSync
  <2>5. \A r \in flight' : r \in flight \/ (Carried(r.body) \subseteq sent' /\ Known(r.reply)')
    <3>1. CASE PaletteInsert
      BY <3>1, FlushSent, NewEditTyped DEF PaletteInsert
    <3>2. CASE FlushNow
      BY <3>2, FlushSent, ZeroIsAVersion DEF FlushNow
    <3>3. CASE RetrySave
      <4>1. Request(failure, "retry", 0).body = failure /\ Request(failure, "retry", 0).reply = Loaded
        BY RequestFacts, ZeroIsAVersion DEF TypeOK
      <4>2. flight' = flight \union {Request(failure, "retry", 0)}
        BY <3>3 DEF RetrySave, Send
      <4> QED BY <1>0, <4>1, <4>2, LoadedTyped DEF AllSent, Known
    <3>4. CASE ~PaletteInsert /\ ~FlushNow /\ ~RetrySave
      BY <1>1, <3>4 DEF User, Edit, EditRow, PickSong, RemoveRow, Undo,
           DiscardFailedSave, RetrySync, DiscardReload, DiscardBroken, Close
    <3> QED BY <3>1, <3>2, <3>3, <3>4
  <2> QED BY <1>0, <2>1, <2>2, <2>3, <2>4, <2>5, AllSentKept
<1>2. ASSUME NEW r \in flight, Apply(r) PROVE AllSent'
  <2>1. r \in Requests /\ r.body \in Bodies /\ r.reply \in Records
    BY RequestFields DEF TypeOK
  <2>2. stored' = Overwrite(stored, r.body) /\ stored' \in Records
    BY <1>2, <2>1, OverwriteFacts DEF Apply, TypeOK
  <2>3. Known(stored)'
    BY <1>0, <2>1, <2>2, OverwriteFacts, CarriedFacts DEF AllSent, Known, TypeOK
  <2>4. PICK q : /\ q.body = r.body /\ flight' = (flight \ {r}) \union {q}
                 /\ q.reply = stored' \/ q.reply = r.reply
    <3> DEFINE done   == [r EXCEPT !.state = "done", !.reply = stored']
               failed == [r EXCEPT !.state = "failed"]
    <3>1. flight' = (flight \ {r}) \union {done} \/ flight' = (flight \ {r}) \union {failed}
      BY <1>2 DEF Apply
    <3>2. done.body = r.body /\ done.reply = stored'
      BY <2>1, <2>2, AnsweredFacts
    <3>3. failed.body = r.body /\ failed.reply = r.reply
      BY <2>1, FailedFacts
    <3> HIDE DEF done, failed
    <3> QED BY <3>1, <3>2, <3>3
  <2>5. \A p \in flight' : p \in flight \/ (Carried(p.body) \subseteq sent' /\ Known(p.reply)')
    BY <1>0, <2>3, <2>4 DEF AllSent, Known
  <2>6. UNCHANGED <<baseline, reload, beacons, failure>>
    BY <1>2 DEF Apply
  <2> QED BY <1>0, <2>3, <2>5, <2>6, AllSentKept
<1>3. ASSUME NEW r \in flight, Reject(r) PROVE AllSent'
  <2>1. PICK q : q.body = r.body /\ q.reply = r.reply /\ flight' = (flight \ {r}) \union {q}
    BY <1>3, FailedFacts DEF Reject, TypeOK
  <2>2. \A p \in flight' : p \in flight \/ (Carried(p.body) \subseteq sent' /\ Known(p.reply)')
    BY <1>0, <2>1 DEF AllSent, Known
  <2>3. UNCHANGED <<stored, baseline, reload, beacons, failure>>
    BY <1>3 DEF Reject
  <2> QED BY <1>0, <2>2, <2>3, AllSentKept
<1>4. ASSUME NEW r \in flight, Respond(r) PROVE AllSent'
  <2> DEFINE base    == IF r.state = "done" THEN r.reply ELSE baseline
             rest    == Diff(base, draft)
             follows == Follow(r, rest)
             banner  == Live /\ r.state = "failed"
             request == Request(rest, "follow", r.insert)
  <2>1. r \in Requests /\ base \in Records /\ r.insert \in Versions
    BY RequestFields DEF TypeOK
  <2>2. rest \in Bodies
    BY <2>1, DiffFacts DEF TypeOK
  <2>3. request.body = rest /\ request.reply = Loaded
    BY <2>1, <2>2, RequestFacts
  <2>4. /\ baseline' = base
        /\ failure' = IF r.state = "done" THEN NoBody ELSE r.body
        /\ flight' = (flight \ {r}) \union (IF follows THEN {request} ELSE {})
        /\ beacons' = IF banner /\ rest # NoBody THEN beacons \union {rest} ELSE beacons
        /\ sent' = IF banner \/ follows THEN sent \union Carried(rest) ELSE sent
        /\ UNCHANGED <<stored, reload>>
    BY <1>4 DEF Respond
  <2>5. Known(baseline)'
    BY <1>0, <2>4 DEF AllSent, Known
  <2> HIDE DEF base, rest, follows, banner, request
  <2>6. \A p \in flight' : p \in flight \/ (Carried(p.body) \subseteq sent' /\ Known(p.reply)')
    BY <2>3, <2>4, LoadedTyped DEF Known
  <2>7. \A body \in beacons' : body \in beacons \/ Carried(body) \subseteq sent'
    BY <2>4
  <2>8. Carried(failure') \subseteq sent'
    BY <1>0, <2>4, NoBodyTyped DEF AllSent, Carried
  <2> QED BY <1>0, <2>4, <2>5, <2>6, <2>7, <2>8, AllSentKept
<1>5. CASE \E r \in flight : Abandon(r)
  BY <1>0, <1>5, AllSentKept DEF Abandon
<1>6. ASSUME NEW body \in beacons, DeliverBeacon(body) PROVE AllSent'
  <2>1. body \in Bodies /\ stored' = Overwrite(stored, body)
    BY <1>6 DEF DeliverBeacon, TypeOK
  <2>2. Known(stored)'
    BY <1>0, <2>1, OverwriteFacts, CarriedFacts DEF AllSent, Known, TypeOK
  <2> QED BY <1>0, <1>6, <2>2, AllSentKept DEF DeliverBeacon
<1>7. CASE \E body \in beacons : LoseBeacon(body)
  BY <1>0, <1>7, AllSentKept DEF LoseBeacon
<1>8. CASE ReloadAnswer
  <2>1. Known(reload.record)'
    BY <1>0, <1>8 DEF ReloadAnswer, AllSent, Known
  <2> QED BY <1>0, <1>8, <2>1, AllSentKept DEF ReloadAnswer
<1>9. CASE ReloadArrives
  <2>1. Known(reload.record)' /\ Known(baseline)'
    BY <1>0, <1>9, LoadedTyped DEF ReloadArrives, AllSent, Known, NoReload
  <2> QED BY <1>0, <1>9, <2>1, AllSentKept DEF ReloadArrives
<1>10. CASE GoOffline \/ GoOnline \/ Break \/ Mend
  <2>1. \A body \in beacons' : body \in beacons \/ Carried(body) \subseteq sent'
    BY <1>10 DEF GoOffline, GoOnline, Break, Mend, LetGo, FlushSync
  <2>2. UNCHANGED <<stored, baseline, reload, flight, failure>>
    BY <1>10 DEF GoOffline, GoOnline, Break, Mend
  <2> QED BY <1>0, <2>1, <2>2, AllSentKept
<1>11. CASE TimerFires
  BY <1>0, <1>11, FlushSent, ZeroIsAVersion, AllSentKept DEF TimerFires
<1>12. CASE UNCHANGED vars
  BY <1>0, <1>12, AllSentKept DEF vars
<1> QED BY <1>1, <1>2, <1>3, <1>4, <1>5, <1>6, <1>7, <1>8, <1>9, <1>10, <1>11, <1>12 DEF Next, Network

LEMMA InitAllSent == Init => AllSent
BY LoadedTyped, NoBodyTyped DEF Init, AllSent, Known, NoReload, Carried

(* Leaving the editor: what is shown is what is stored or was sent before, *)
(* or the keepalive request of that step carries it.                       *)
LEMMA LeaveSends ==
  ASSUME TypeOK, AllSent, [Next]_vars, Live, editor' # "open", NEW f \in Fields
  PROVE  draft[f] = 0 \/ <<f, draft[f]>> \in sent'
<1>1. Close
  BY DEF Next, User, Network, vars, Live, Can, Edit, EditRow, PickSong, RemoveRow, Undo,
     PaletteInsert, FlushNow, RetrySave, DiscardFailedSave, RetrySync, DiscardReload, DiscardBroken,
     Apply, Reject, Abandon, Respond, DeliverBeacon, LoseBeacon, ReloadAnswer, ReloadArrives,
     GoOffline, GoOnline, Break, Mend, TimerFires
<1>2. Carried(Diff(baseline, draft)) \subseteq sent' /\ sent \subseteq sent'
  BY <1>1 DEF Close, FlushSync
<1>3. draft[f] # baseline[f] => <<f, draft[f]>> \in sent'
  BY <1>2, DiffKnown DEF TypeOK
<1>4. baseline[f] = 0 \/ <<f, baseline[f]>> \in sent'
  BY <1>2 DEF AllSent, Known
<1> QED BY <1>3, <1>4

(* Nothing shown is left behind by whoever leaves without a banner in      *)
(* sight.                                                                  *)
THEOREM NothingIsLeftBehind == Spec => NothingDroppedOnLeave
<1> DEFINE Left == Live /\ editor' # "open" =>
                     \A f \in Fields : draft[f] = 0 \/ <<f, draft[f]>> \in sent'
<1>1. Init => TypeOK /\ AllSent
  BY InitTyped, InitAllSent
<1>2. TypeOK /\ AllSent /\ [Next]_vars => (TypeOK /\ AllSent)'
  BY NextTyped, AllSentStep
<1>3. TypeOK /\ AllSent /\ [Next]_vars => [Left]_vars
  BY LeaveSends
<1> QED BY <1>1, <1>2, <1>3, PTL DEF Spec, NothingDroppedOnLeave

-----------------------------------------------------------------------------
(* The server ends with what was shown.  An edit needs that nothing is in  *)
(* flight; then the baseline is what the server has.                       *)

LEMMA EditInQuiet ==
  ASSUME Serial, OnItsWay, editor = "open", ~inFlight,
         UNCHANGED <<stored, flight, beacons, baseline, editor, troubles, smooth>>
  PROVE  OnItsWay'
BY DEF OnItsWay, Shows, Serial, BlockedWhileSaving

LEMMA FlushOnItsWay ==
  ASSUME TypeOK, Serial, OnItsWay, editor = "open", NEW insert \in Versions, Flush(insert),
         UNCHANGED <<stored, beacons, baseline, draft, editor, troubles, smooth>>
  PROVE  OnItsWay'
<1> DEFINE body    == Diff(baseline, draft)
           request == Request(body, "flush", insert)
<1>1. body \in Bodies /\ DOMAIN body = {f \in Fields : draft[f] # baseline[f]}
      /\ \A f \in DOMAIN body : body[f] = draft[f]
  BY DiffFacts DEF TypeOK
<1>2. request.body = body /\ request.state = "sent"
  BY <1>1, RequestFacts
<1>3. UNCHANGED flight \/ (~inFlight /\ flight' = flight \union {request})
  BY DEF Flush, Send
<1> HIDE DEF body, request
<1>4. CASE UNCHANGED flight
  BY <1>4 DEF OnItsWay, Shows
<1>5. CASE ~inFlight /\ flight' = flight \union {request} /\ troubles = 0
  <2>1. flight = {} /\ flight' = {request}
    BY <1>5 DEF Serial, BlockedWhileSaving
  <2> QED BY <1>1, <1>2, <2>1 DEF OnItsWay, Shows
<1>6. CASE troubles # 0
  BY <1>6 DEF OnItsWay, Shows
<1> QED BY <1>3, <1>4, <1>5, <1>6

LEMMA ApplyOnItsWay ==
  ASSUME TypeOK, Serial, OnItsWay, NEW r \in flight, Apply(r)
  PROVE  OnItsWay'
<1>1. r \in Requests /\ r.body \in Bodies /\ stored \in Records /\ draft \in Records
  BY RequestFields DEF TypeOK
<1>2. r.state = "sent" /\ stored' = Overwrite(stored, r.body) /\ stored' \in Records
      /\ UNCHANGED <<beacons, baseline, draft, editor, smooth>>
  BY <1>1, OverwriteFacts DEF Apply
<1>3. SUFFICES ASSUME troubles' = 0, smooth PROVE OnItsWay'
  BY <1>2 DEF OnItsWay, Shows
<1> DEFINE done == [r EXCEPT !.state = "done", !.reply = stored']
<1>4. flight' = (flight \ {r}) \union {done} /\ troubles = 0
  BY <1>3, TroubleTyped DEF Apply
<1>5. done.body = r.body /\ done.state = "done" /\ done.reply = stored'
  BY <1>1, <1>2, AnsweredFacts
<1> HIDE DEF done
<1>6. flight = {r}
  BY <1>4 DEF Serial, BlockedWhileSaving
<1>7. \A f \in Fields : stored'[f] = IF f \in DOMAIN r.body THEN draft[f] ELSE stored[f]
  BY <1>1, <1>2, <1>3, <1>4, OverwriteFacts DEF OnItsWay, Shows
<1>8. editor = "open" => stored' = draft
  <2>1. editor = "open" => \A f \in Fields : stored'[f] = draft[f]
    BY <1>2, <1>3, <1>4, <1>7 DEF OnItsWay, Shows
  <2> QED BY <1>1, <1>2, <2>1 DEF Records
<1> QED BY <1>2, <1>3, <1>4, <1>5, <1>6, <1>7, <1>8 DEF OnItsWay, Shows

LEMMA DeliverOnItsWay ==
  ASSUME TypeOK, Serial, OnItsWay, NEW body \in beacons, DeliverBeacon(body)
  PROVE  OnItsWay'
<1>1. body \in Bodies /\ stored \in Records
  BY DEF TypeOK
<1>2. stored' = Overwrite(stored, body) /\ beacons' = beacons \ {body}
      /\ UNCHANGED <<flight, baseline, draft, editor, smooth, troubles>>
  BY DEF DeliverBeacon
<1>3. SUFFICES ASSUME troubles = 0, smooth PROVE OnItsWay'
  BY <1>2 DEF OnItsWay, Shows
<1>4. editor # "open" /\ Shows(body)
  BY <1>3 DEF OnItsWay, Shows
<1>5. \A f \in Fields : stored'[f] = IF f \in DOMAIN body THEN draft[f] ELSE stored[f]
  BY <1>1, <1>2, <1>4, OverwriteFacts DEF Shows
<1> QED BY <1>2, <1>3, <1>4, <1>5 DEF OnItsWay, Shows

LEMMA RespondOnItsWay ==
  ASSUME TypeOK, Serial, OnItsWay, NEW r \in flight, Respond(r)
  PROVE  OnItsWay'
<1>0. UNCHANGED <<stored, editor, troubles, smooth>>
  BY DEF Respond
<1>1. SUFFICES ASSUME troubles = 0, smooth PROVE OnItsWay'
  BY <1>0 DEF OnItsWay, Shows
<1>2. r \in Requests /\ r.reply \in Records /\ r.insert \in Versions /\ draft \in Records
  BY RequestFields DEF TypeOK
<1>3. flight = {r} /\ r.state = "done"
  BY <1>1, RequestFields DEF Serial, Quiet, BlockedWhileSaving, Respond, TypeOK
<1> DEFINE rest    == Diff(r.reply, draft)
           request == Request(rest, "follow", r.insert)
<1>4. rest \in Bodies /\ \A f \in DOMAIN rest : rest[f] = draft[f]
  BY <1>2, DiffFacts
<1>5. request.body = rest
  BY <1>2, <1>4, RequestFacts
<1>6. /\ baseline' = r.reply
      /\ flight' = (flight \ {r}) \union (IF Follow(r, rest) THEN {request} ELSE {})
      /\ beacons' = beacons
      /\ editor # "open" => draft' = draft
  BY <1>3 DEF Respond
<1>7. CASE editor = "open"
  <2>1. stored = draft /\ r.reply = draft /\ beacons = {}
    BY <1>1, <1>3, <1>7 DEF OnItsWay, Shows
  <2>2. rest = NoBody
    BY <1>2, <2>1, NothingDiffers
  <2>3. flight' = {}
    BY <1>3, <1>6, <2>2 DEF Follow
  <2> QED BY <1>0, <1>6, <1>7, <2>1, <2>3 DEF OnItsWay, Shows
<1>8. CASE editor # "open"
  <2> HIDE DEF rest, request
  <2>1. \A q \in flight' : q.body = rest
    BY <1>3, <1>5, <1>6
  <2> QED BY <1>0, <1>1, <1>4, <1>6, <1>8, <2>1 DEF OnItsWay, Shows
<1> QED BY <1>7, <1>8

LEMMA CloseOnItsWay ==
  ASSUME TypeOK, Serial, OnItsWay, Close
  PROVE  OnItsWay'
<1>1. editor = "open" /\ editor' # "open" /\ UNCHANGED <<stored, flight, baseline, draft, troubles, smooth>>
  BY DEF Close
<1>2. SUFFICES ASSUME troubles = 0, smooth PROVE OnItsWay'
  BY <1>1 DEF OnItsWay, Shows
<1> DEFINE body == Diff(baseline, draft)
<1>3. DOMAIN body = {f \in Fields : draft[f] # baseline[f]} /\ \A f \in DOMAIN body : body[f] = draft[f]
  BY DiffFacts DEF TypeOK
<1>4. Live
  BY <1>1, <1>2 DEF Live, Can, Serial, Quiet
<1>5. beacons = {} /\ beacons' = IF body = NoBody THEN {} ELSE {body}
  BY <1>1, <1>2, <1>4 DEF Close, FlushSync, OnItsWay, Shows
<1>6. \A f \in Fields : draft[f] = baseline[f] => stored[f] = draft[f]
  <2>1. CASE flight = {}
    BY <1>1, <1>2, <2>1 DEF OnItsWay, Shows
  <2>2. ASSUME NEW r \in flight PROVE <1>6!:
    <3>1. r.state = "sent" \/ r.state = "done"
      BY <1>2, RequestFields DEF Serial, Quiet, TypeOK
    <3> QED BY <1>1, <1>2, <3>1 DEF OnItsWay, Shows
  <2> QED BY <2>1, <2>2
<1> HIDE DEF body
<1>7. \A f \in Fields : stored[f] = draft[f] \/ \E b \in beacons' : f \in DOMAIN b
  <2>1. body = NoBody => DOMAIN body = {}
    BY NoBodyTyped
  <2> QED BY <1>3, <1>5, <1>6, <2>1
<1> QED BY <1>1, <1>2, <1>3, <1>5, <1>7 DEF OnItsWay, Shows

LEMMA OnItsWayStep ==
  ASSUME TypeOK, Serial, OnItsWay, [Next]_vars
  PROVE  OnItsWay'
<1>1. CASE (\E f \in Fields : Edit(f)) \/ EditRow \/ PickSong \/ RemoveRow
  BY <1>1, EditInQuiet DEF Edit, EditRow, PickSong, RemoveRow, Blocked
<1>2. CASE Undo
  <2>1. CASE inFlight
    BY <1>2, <2>1 DEF Undo, OnItsWay, Shows
  <2>2. CASE ~inFlight
    BY <1>2, <2>2, EditInQuiet DEF Undo, TypeOK
  <2> QED BY <2>1, <2>2
<1>3. CASE PaletteInsert
  <2>1. CASE Live /\ Diff(baseline, draft) # NoBody
    BY <1>3, <2>1, FlushOnItsWay, NewEditTyped DEF PaletteInsert
  <2>2. CASE ~(Live /\ Diff(baseline, draft) # NoBody)
    BY <1>3, <2>2, EditInQuiet DEF PaletteInsert
  <2> QED BY <2>1, <2>2
<1>4. CASE FlushNow
  <2>1. CASE Live
    BY <1>4, <2>1, FlushOnItsWay, ZeroIsAVersion DEF FlushNow
  <2>2. CASE ~Live
    BY <1>4, <2>2 DEF FlushNow, OnItsWay, Shows
  <2> QED BY <2>1, <2>2
<1>5. CASE TimerFires
  <2>1. editor = "open"
    BY <1>5 DEF TimerFires, Serial, NoTimer
  <2> QED BY <1>5, <2>1, FlushOnItsWay, ZeroIsAVersion DEF TimerFires
<1>6. CASE RetrySave \/ DiscardFailedSave \/ RetrySync \/ DiscardReload \/ DiscardBroken \/ ReloadAnswer
           \/ ReloadArrives \/ GoOnline \/ Mend
  <2>1. troubles # 0 \/ RetrySync
    BY <1>6 DEF RetrySave, DiscardFailedSave, DiscardReload, DiscardBroken, ReloadAnswer,
         ReloadArrives, GoOnline, Mend, Serial, Quiet
  <2>2. troubles # 0
    BY <2>1 DEF RetrySync, Serial, Quiet
  <2>3. UNCHANGED troubles
    BY <1>6 DEF RetrySave, DiscardFailedSave, RetrySync, DiscardReload, DiscardBroken, ReloadAnswer,
         ReloadArrives, GoOnline, Mend
  <2> QED BY <2>2, <2>3 DEF OnItsWay, Shows
<1>7. CASE GoOffline \/ Break \/ \E r \in flight : Reject(r)
  BY <1>7, TroubleTyped DEF GoOffline, Break, Reject, OnItsWay, Shows
<1>8. CASE Close
  BY <1>8, CloseOnItsWay
<1>9. CASE \E r \in flight : Apply(r) \/ Respond(r)
  BY <1>9, ApplyOnItsWay, RespondOnItsWay
<1>10. ASSUME NEW r \in flight, Abandon(r) PROVE OnItsWay'
  BY <1>10 DEF Abandon, OnItsWay, Shows
<1>11. CASE \E body \in beacons : DeliverBeacon(body)
  BY <1>11, DeliverOnItsWay
<1>12. CASE \E body \in beacons : LoseBeacon(body)
  BY <1>12 DEF LoseBeacon, OnItsWay, Shows
<1>13. CASE UNCHANGED vars
  BY <1>13 DEF vars, OnItsWay, Shows
<1> QED BY <1>1, <1>2, <1>3, <1>4, <1>5, <1>6, <1>7, <1>8, <1>9, <1>10, <1>11, <1>12, <1>13
        DEF Next, User, Network

(* If nothing failed and no keepalive was lost, the server ends with what  *)
(* was shown when the editor was left, in whatever order the PATCH in      *)
(* flight and the keepalive arrive.                                        *)
THEOREM ServerEndsAsSeen == Spec => []EndsAsSeen
<1>1. Init => TypeOK /\ Serial /\ OnItsWay
  BY InitTyped, InitSerial DEF Init, OnItsWay, Shows
<1>2. TypeOK /\ Serial /\ OnItsWay /\ [Next]_vars => (TypeOK /\ Serial /\ OnItsWay)'
  BY NextTyped, SerialStep, OnItsWayStep
<1>3. TypeOK /\ OnItsWay => EndsAsSeen
  <2> SUFFICES ASSUME TypeOK, OnItsWay, troubles = 0, smooth, editor # "open", flight = {}, beacons = {}
               PROVE  stored = draft
    BY DEF EndsAsSeen
  <2>1. \A f \in Fields : stored[f] = draft[f]
    BY DEF OnItsWay, Shows
  <2> QED BY <2>1 DEF TypeOK, Records
<1> QED BY <1>1, <1>2, <1>3, PTL DEF Spec
=============================================================================
