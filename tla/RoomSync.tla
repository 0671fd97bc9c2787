------------------------------ MODULE RoomSync ------------------------------
(***************************************************************************)
(* How what the database holds of a room reaches its clients: handlers     *)
(* write the room, some read it again, and publish an event labelled with  *)
(* a revision; each socket has a bounded broadcast queue; the client       *)
(* (applyRoomServerMessage in frontend/app/src/lib/room.ts) keeps a        *)
(* snapshot and a label and decides from labels alone what to apply.       *)
(*                                                                         *)
(* The value of a part of the room is the list of the revisions that       *)
(* changed it, so that two values are equal only if they reflect the same  *)
(* changes. "shared" stands for the musical state, the projection and the  *)
(* settings, which have one event each and the same handler code.          *)
(***************************************************************************)
EXTENDS Integers, Sequences, FiniteSets

CONSTANTS Clients, Handlers,
          Capacity,   \* of a broadcast queue (128 in the code)
          MaxWire,    \* bound: messages under way to a client
          MaxRevision \* bound: writes to the room

ASSUME SyncAssumption == /\ Capacity \in Nat \ {0} /\ MaxWire \in Nat \ {0}
                         /\ MaxRevision \in Nat \ {0}

VARIABLES db,      \* the room record: its revision and the value of each part
          handler, \* per handler in progress: its next step
          client   \* per client: its snapshot, and its socket

vars == <<db, handler, client>>

Parts  == {"shared", "queue", "content", "sessions"}
Values == [Parts -> Seq(Nat)]
Nothing == [p \in Parts |-> <<>>]

Message == [type: {"snapshot", "delta", "revision"}, label: Nat,
            fields: SUBSET Parts, values: Values]
Handler == [pc: {"idle", "promote", "refresh", "bump", "publish"},
            fields: SUBSET Parts, revision: Nat, exact: BOOLEAN,
            values: Values, opens: SUBSET Clients]
Client  == [pc: {"down", "opening", "up"}, label: Nat, values: Values,
            events: Seq(Message), lagged: BOOLEAN,   \* its broadcast queue
            wire: Seq(Message),                      \* on the way to the client
            asks: Seq(Nat)]                          \* on the way to the server

Snapshot(label, values) == [type |-> "snapshot", label |-> label, fields |-> Parts,
                            values |-> values]
Delta(label, fields, values) ==
  [type |-> "delta", label |-> label, fields |-> fields,
   values |-> [p \in Parts |-> IF p \in fields THEN values[p] ELSE <<>>]]
RevisionOnly(label) == [type |-> "revision", label |-> label, fields |-> {},
                        values |-> Nothing]

Idle == [pc |-> "idle", fields |-> {}, revision |-> 0, exact |-> FALSE,
         values |-> Nothing, opens |-> {}]
Down == [pc |-> "down", label |-> 0, values |-> Nothing, events |-> <<>>,
         lagged |-> FALSE, wire |-> <<>>, asks |-> <<>>]

Init == /\ db = [revision |-> 1, values |-> Nothing]
        /\ handler = [h \in Handlers |-> Idle]
        /\ client = [c \in Clients |-> Down]

-----------------------------------------------------------------------------
(* Handlers. A write raises the revision and changes some parts.           *)

Changed(fields) ==
  [revision |-> db.revision + 1,
   values |-> [p \in Parts |-> IF p \in fields THEN Append(db.values[p], db.revision + 1)
                               ELSE db.values[p]]]

(* content_item_added carries the new item, the other events whole parts.  *)
Carried(fields, revision, values) ==
  [p \in Parts |-> IF p \notin fields THEN <<>>
                   ELSE IF p = "content" THEN <<revision>> ELSE values[p]]

Become(h, pc, fields, revision, exact, values) ==
  handler' = [handler EXCEPT ![h] =
    [Idle EXCEPT !.pc = pc, !.fields = fields, !.revision = revision,
                 !.exact = exact, !.values = values]]

(* Musical state, projection, guest access, lock and queue access take the *)
(* label of their event from what their own UPDATE returned.               *)
WriteShared(h) ==
  /\ handler[h].pc = "idle" /\ db.revision < MaxRevision
  /\ db' = Changed({"shared"})
  /\ Become(h, "publish", {"shared"}, db'.revision, TRUE,
            Carried({"shared"}, db'.revision, db'.values))
  /\ UNCHANGED client

(* Vote, remove and reorder; add_queue_item; join, leave and disconnect:   *)
(* the event is made from a second read of the room.                       *)
WriteThenRefresh(h) ==
  /\ handler[h].pc = "idle" /\ db.revision < MaxRevision
  /\ \E fields \in {{"queue"}, {"queue", "content"}, {"sessions"}} :
       /\ db' = Changed(fields)
       /\ Become(h, "refresh", fields, db'.revision, FALSE, Nothing)
  /\ UNCHANGED client

(* promote_queue_item reads the room, writes it if its revision is still   *)
(* the same, and in either case reads it again.                            *)
PromoteLoad(h) ==
  /\ handler[h].pc = "idle"
  /\ Become(h, "promote", {"queue", "shared"}, db.revision + 1, TRUE, Nothing)
  /\ UNCHANGED <<db, client>>

PromoteCommit(h) ==
  /\ handler[h].pc = "promote"
  /\ IF db.revision + 1 = handler[h].revision
     THEN db.revision < MaxRevision /\ db' = Changed(handler[h].fields)
     ELSE UNCHANGED db
  /\ handler' = [handler EXCEPT ![h].pc = "refresh"]
  /\ UNCHANGED client

(* Only a promotion insists on the revision it expects.                    *)
Refresh(h) ==
  LET me == handler[h] IN
  /\ me.pc = "refresh"
  /\ IF me.exact /\ db.revision # me.revision
     THEN handler' = [handler EXCEPT ![h] = Idle]
     ELSE Become(h, "publish", me.fields, db.revision, me.exact,
                 Carried(me.fields, me.revision, db.values))
  /\ UNCHANGED <<db, client>>

(* consume_ticket reads the room and subscribes, marks the session         *)
(* connected, and makes snapshot and event from what it read first.        *)
ConsumeTicket(h, c) ==
  /\ handler[h].pc = "idle" /\ client[c].pc = "down"
  /\ handler' = [handler EXCEPT ![h] =
       [Idle EXCEPT !.pc = "bump", !.fields = {"sessions"}, !.revision = db.revision + 1,
                    !.values = db.values, !.opens = {c}]]
  /\ client' = [client EXCEPT ![c].pc = "opening"]
  /\ UNCHANGED db

MarkConnectedUnwritten(h) ==        \* mutant: the label is raised, the room is not
  /\ handler[h].pc = "bump" /\ db.revision < MaxRevision
  /\ handler' = [handler EXCEPT ![h].pc = "publish",
                                ![h].values["sessions"] = Append(@, db.revision + 1)]
  /\ UNCHANGED <<db, client>>

MarkConnected(h) ==
  /\ handler[h].pc = "bump" /\ db.revision < MaxRevision
  /\ db' = Changed({"sessions"})
  /\ handler' = [handler EXCEPT ![h].pc = "publish",
                                ![h].values["sessions"] = Append(@, db'.revision)]
  /\ UNCHANGED client

(* A full queue loses its oldest event, and its reader is told (Lagged).   *)
Delivered(cl, m) ==
  IF cl.pc = "down" THEN cl
  ELSE IF Len(cl.events) < Capacity THEN [cl EXCEPT !.events = Append(@, m)]
  ELSE [cl EXCEPT !.events = Append(Tail(@), m), !.lagged = TRUE]

(* A socket that opens gets its snapshot before anything else.             *)
Publish(h) ==
  LET me == handler[h] IN
  /\ me.pc = "publish"
  /\ client' = [c \in Clients |->
       LET cl == Delivered(client[c], Delta(me.revision, me.fields, me.values)) IN
       IF c \in me.opens
       THEN [cl EXCEPT !.pc = "up", !.wire = <<Snapshot(me.revision, me.values)>>]
       ELSE cl]
  /\ handler' = [handler EXCEPT ![h] = Idle]
  /\ UNCHANGED db

(* A handler stops half way, or publishes on an instance that no client of *)
(* this model is connected to.                                             *)
Cancel(h) ==
  /\ handler[h].pc # "idle"
  /\ handler' = [handler EXCEPT ![h] = Idle]
  /\ client' = [c \in Clients |-> IF c \in handler[h].opens
                                  THEN [client[c] EXCEPT !.pc = "down", !.events = <<>>,
                                                         !.lagged = FALSE]
                                  ELSE client[c]]
  /\ UNCHANGED db

-----------------------------------------------------------------------------
(* The socket task.                                                        *)

WireHasRoom(c) == Len(client[c].wire) < MaxWire

Forward(c) ==
  /\ client[c].pc = "up" /\ WireHasRoom(c)
  /\ \/ /\ client[c].lagged
        /\ client' = [client EXCEPT ![c].lagged = FALSE,
                        ![c].wire = Append(@, Snapshot(db.revision, db.values))]
     \/ /\ ~client[c].lagged /\ client[c].events # <<>>
        /\ client' = [client EXCEPT ![c].events = Tail(@),
                        ![c].wire = Append(@, Head(client[c].events))]
  /\ UNCHANGED <<db, handler>>

(* A heartbeat that names the current revision is confirmed, any other is  *)
(* answered with a snapshot; so is request_snapshot (0).                   *)
AnswerToNewer(c) ==                 \* mutant: no snapshot for an older label
  /\ client[c].pc = "up"
  /\ client[c].asks # <<>>
  /\ client' = [client EXCEPT
       ![c].asks = Tail(@),
       ![c].wire = Append(@, IF Head(client[c].asks) <= db.revision
                             THEN RevisionOnly(db.revision)
                             ELSE Snapshot(db.revision, db.values))]
  /\ UNCHANGED <<db, handler>>

Answer(c) ==
  /\ client[c].pc = "up"
  /\ client[c].asks # <<>>
  /\ client' = [client EXCEPT
       ![c].asks = Tail(@),
       ![c].wire = Append(@, IF Head(client[c].asks) = db.revision
                             THEN RevisionOnly(db.revision)
                             ELSE Snapshot(db.revision, db.values))]
  /\ UNCHANGED <<db, handler>>

-----------------------------------------------------------------------------
(* The client.                                                             *)

request_snapshot == 0

(* applyRoomServerMessage: what becomes of a client that takes m.          *)
Ask(cl)        == [cl EXCEPT !.asks = Append(@, request_snapshot)]
Replace(cl, m) == [cl EXCEPT !.label = m.label, !.values = m.values]
Patch(cl, m)   ==
  [cl EXCEPT !.label = m.label,
             !.values = [p \in Parts |-> IF p \notin m.fields THEN cl.values[p]
                                         ELSE IF p = "content"
                                         THEN cl.values[p] \o m.values[p]
                                         ELSE m.values[p]]]

applyOlder(cl, m) ==                \* mutant: an older delta is applied
  CASE m.type = "snapshot" -> IF m.label >= cl.label THEN Replace(cl, m) ELSE cl
    [] m.type = "revision" -> IF m.label > cl.label THEN Ask(cl) ELSE cl
    [] m.type = "delta"    -> IF cl.label = 0 \/ m.label > cl.label + 1 THEN Ask(cl)
                              ELSE Patch(cl, m)

applyOverGap(cl, m) ==              \* mutant: a gap of one goes unnoticed
  CASE m.type = "snapshot" -> IF m.label >= cl.label THEN Replace(cl, m) ELSE cl
    [] m.type = "revision" -> IF m.label > cl.label THEN Ask(cl) ELSE cl
    [] m.type = "delta"    -> IF m.label <= cl.label THEN cl
                              ELSE IF cl.label = 0 \/ m.label > cl.label + 2 THEN Ask(cl)
                              ELSE Patch(cl, m)

applyRoomServerMessage(cl, m) ==
  CASE m.type = "snapshot" -> IF m.label >= cl.label THEN Replace(cl, m) ELSE cl
    [] m.type = "revision" -> IF m.label > cl.label THEN Ask(cl) ELSE cl
    [] m.type = "delta"    -> IF cl.label = 0 THEN Ask(cl)
                              ELSE IF m.label <= cl.label THEN cl
                              ELSE IF m.label > cl.label + 1 THEN Ask(cl)
                              ELSE Patch(cl, m)

Receive(c) ==
  /\ client[c].pc = "up"
  /\ client[c].wire # <<>>
  /\ client' = [client EXCEPT ![c] =
       applyRoomServerMessage([client[c] EXCEPT !.wire = Tail(@)], Head(client[c].wire))]
  /\ UNCHANGED <<db, handler>>

(* Every ten seconds while the socket is open.                             *)
Heartbeat(c) ==
  /\ client[c].pc = "up"
  /\ client[c].asks = <<>> /\ WireHasRoom(c)
  /\ client' = [client EXCEPT ![c].asks = <<client[c].label>>]
  /\ UNCHANGED <<db, handler>>

(* The connection is lost; the client keeps its snapshot.                  *)
HangUp(c) ==
  /\ client[c].pc = "up"
  /\ client' = [client EXCEPT ![c] =
       [Down EXCEPT !.label = client[c].label, !.values = client[c].values]]
  /\ UNCHANGED <<db, handler>>

HandlerStep(h) == \/ PromoteCommit(h) \/ Refresh(h) \/ MarkConnected(h) \/ Publish(h)

Next ==
  \/ \E h \in Handlers : \/ WriteShared(h) \/ WriteThenRefresh(h) \/ PromoteLoad(h)
                         \/ \E c \in Clients : ConsumeTicket(h, c)
                         \/ HandlerStep(h) \/ Cancel(h)
  \/ \E c \in Clients : Forward(c) \/ Answer(c) \/ Receive(c) \/ Heartbeat(c) \/ HangUp(c)

Spec == Init /\ [][Next]_vars

(* Server tasks run, messages arrive, and clients send heartbeats.         *)
Fairness == /\ \A h \in Handlers : WF_vars(HandlerStep(h))
            /\ \A c \in Clients : /\ WF_vars(Forward(c)) /\ WF_vars(Answer(c))
                                  /\ WF_vars(Receive(c)) /\ WF_vars(Heartbeat(c))

FairSpec == Spec /\ Fairness

-----------------------------------------------------------------------------
TypeOK == /\ db \in [revision: Nat, values: Values]
          /\ handler \in [Handlers -> Handler]
          /\ client \in [Clients -> Client]

(* A revision a client sends with a request has been the room's: no label  *)
(* runs ahead of the database, although consume_ticket computes its own.   *)
(* (RoomQueue takes the revisions of its requests from this.)              *)
LabelNeverAhead ==
  \A c \in Clients : /\ client[c].label <= db.revision
                     /\ \A i \in DOMAIN client[c].asks : client[c].asks[i] <= db.revision

(* A client never goes back to an older state of the room.                 *)
LabelMonotone == [][\A c \in Clients : client'[c].label >= client[c].label]_vars

(* What a client shows under a label is what the room was at that          *)
(* revision: every part reflects the changes up to it and no other. This   *)
(* holds if no two handlers overlap.                                       *)
Reflects(shown, value, label) ==
  /\ Len(shown) <= Len(value)
  /\ \A i \in DOMAIN value : IF i <= Len(shown) THEN shown[i] = value[i] /\ value[i] <= label
                                                ELSE value[i] > label
LabelFaithful ==
  \A c \in Clients : client[c].label > 0 =>
    \A p \in Parts : Reflects(client[c].values[p], db.values[p], client[c].label)

(* "Across backend instances, clients converge from authoritative database *)
(* state on the next active-room heartbeat": once writing has stopped, an  *)
(* open client comes to show the room as it is, whichever events were      *)
(* lost. So it does if handlers do not overlap, and not otherwise.         *)
Converges ==
  <>[](\A c \in Clients : client[c].pc = "up" => client[c].values = db.values)
=============================================================================
