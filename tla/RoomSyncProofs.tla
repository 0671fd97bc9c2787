--------------------------- MODULE RoomSyncProofs ----------------------------
(***************************************************************************)
(* No label, wherever it is on its way, is ahead of the database, and no   *)
(* client's label goes back: for any number of handlers and clients, any   *)
(* capacity of the broadcast queues and any loss. If handlers do not       *)
(* overlap, a label also tells what is shown under it.                     *)
(***************************************************************************)
EXTENDS RoomSync, SequenceTheorems, TLAPS

UpToLabel(messages, top) == \A i \in DOMAIN messages : messages[i].label <= top

(* A client none of whose labels exceeds top, with all that is on its way. *)
Behind(cl, top) == /\ cl.label <= top
                   /\ UpToLabel(cl.events, top)
                   /\ UpToLabel(cl.wire, top)
                   /\ \A i \in DOMAIN cl.asks : cl.asks[i] <= top

(* consume_ticket is one revision ahead until it has marked its session.   *)
Allowed(me, top) == /\ me.pc = "publish" => me.revision <= top
                    /\ me.pc = "bump" => me.revision <= top + 1

(* The inductive invariant.                                                *)
IInv == /\ TypeOK
        /\ \A c \in Clients : Behind(client[c], db.revision)
        /\ \A h \in Handlers : Allowed(handler[h], db.revision)

-----------------------------------------------------------------------------
LEMMA NothingTyped == Nothing \in Values
BY DEF Nothing, Values

LEMMA SnapshotTyped ==
  ASSUME NEW label \in Nat, NEW values \in Values
  PROVE  Snapshot(label, values) \in Message /\ Snapshot(label, values).label = label
BY DEF Snapshot, Message

LEMMA RevisionTyped ==
  ASSUME NEW label \in Nat
  PROVE  RevisionOnly(label) \in Message /\ RevisionOnly(label).label = label
BY NothingTyped DEF RevisionOnly, Message

LEMMA DeltaTyped ==
  ASSUME NEW label \in Nat, NEW fields \in SUBSET Parts, NEW values \in Values
  PROVE  Delta(label, fields, values) \in Message /\ Delta(label, fields, values).label = label
<1>1. [p \in Parts |-> IF p \in fields THEN values[p] ELSE <<>>] \in Values
  BY DEF Values
<1> QED BY <1>1 DEF Delta, Message

LEMMA IdleTyped == Idle \in Handler /\ \A top \in Nat : Allowed(Idle, top)
BY NothingTyped DEF Idle, Handler, Allowed

LEMMA DownTyped == Down \in Client /\ \A top \in Nat : Behind(Down, top)
<1>1. Down \in Client
  BY NothingTyped DEF Down, Client
<1>2. \A top \in Nat : Behind(Down, top)
  BY DEF Down, Behind, UpToLabel
<1> QED BY <1>1, <1>2

LEMMA ChangedTyped ==
  ASSUME db \in [revision: Nat, values: Values], NEW fields
  PROVE  /\ Changed(fields) \in [revision: Nat, values: Values]
         /\ Changed(fields).revision = db.revision + 1
<1>1. db.revision + 1 \in Nat /\ db.values \in Values
  OBVIOUS
<1>2. [p \in Parts |-> IF p \in fields THEN Append(db.values[p], db.revision + 1)
                       ELSE db.values[p]] \in Values
  BY <1>1 DEF Values
<1> QED BY <1>1, <1>2 DEF Changed

LEMMA CarriedTyped ==
  ASSUME NEW fields, NEW revision \in Nat, NEW values \in Values
  PROVE  Carried(fields, revision, values) \in Values
BY DEF Carried, Values

(* Labels that were not ahead stay so when the room is written.            *)
LEMMA BehindLater ==
  ASSUME NEW cl \in Client, NEW top \in Nat, NEW more \in Nat, top <= more, Behind(cl, top)
  PROVE  Behind(cl, more)
<1>1. cl.label \in Nat /\ cl.events \in Seq(Message) /\ cl.wire \in Seq(Message)
      /\ cl.asks \in Seq(Nat)
  BY DEF Client
<1>2. ASSUME NEW messages \in Seq(Message), UpToLabel(messages, top)
      PROVE  UpToLabel(messages, more)
  <2> SUFFICES ASSUME NEW i \in DOMAIN messages PROVE messages[i].label <= more
    BY DEF UpToLabel
  <2>1. messages[i] \in Message /\ messages[i].label <= top
    BY <1>2 DEF UpToLabel
  <2> QED BY <2>1 DEF Message
<1>3. UpToLabel(cl.events, more) /\ UpToLabel(cl.wire, more)
  BY <1>1, <1>2 DEF Behind
<1>4. \A i \in DOMAIN cl.asks : cl.asks[i] <= more
  <2> SUFFICES ASSUME NEW i \in DOMAIN cl.asks PROVE cl.asks[i] <= more
    OBVIOUS
  <2>1. cl.asks[i] \in Nat /\ cl.asks[i] <= top
    BY <1>1 DEF Behind
  <2> QED BY <2>1
<1> QED BY <1>1, <1>3, <1>4 DEF Behind

LEMMA TailBehind ==
  ASSUME NEW s \in Seq(Message), NEW top, s # <<>>, UpToLabel(s, top)
  PROVE  Tail(s) \in Seq(Message) /\ UpToLabel(Tail(s), top)
         /\ Head(s) \in Message /\ Head(s).label <= top
<1>1. Len(s) \in Nat /\ Len(s) > 0 /\ DOMAIN s = 1..Len(s)
  BY EmptySeq
<1>2. Tail(s) \in Seq(Message) /\ Len(Tail(s)) = Len(s) - 1 /\ Head(s) = s[1]
      /\ \A i \in 1..(Len(s) - 1) : Tail(s)[i] = s[i + 1]
  BY <1>1
<1>3. DOMAIN Tail(s) = 1..(Len(s) - 1)
  BY <1>2
<1> QED BY <1>1, <1>2, <1>3 DEF UpToLabel

LEMMA AppendBehind ==
  ASSUME NEW s \in Seq(Message), NEW top, UpToLabel(s, top), NEW m \in Message, m.label <= top
  PROVE  Append(s, m) \in Seq(Message) /\ UpToLabel(Append(s, m), top)
BY DEF UpToLabel

(* How the fields of a client change.                                      *)
LEMMA ClientParts ==
  ASSUME NEW cl \in Client, NEW top, Behind(cl, top)
  PROVE  /\ cl.label \in Nat /\ cl.label <= top /\ cl.values \in Values
         /\ cl.events \in Seq(Message) /\ UpToLabel(cl.events, top)
         /\ cl.wire \in Seq(Message) /\ UpToLabel(cl.wire, top)
         /\ cl.asks \in Seq(Nat) /\ \A i \in DOMAIN cl.asks : cl.asks[i] <= top
BY DEF Client, Behind

LEMMA DeliveredBehind ==
  ASSUME NEW cl \in Client, NEW top, Behind(cl, top), NEW m \in Message, m.label <= top
  PROVE  Delivered(cl, m) \in Client /\ Behind(Delivered(cl, m), top)
         /\ Delivered(cl, m).label = cl.label
<1>1. CASE cl.pc = "down"
  BY <1>1 DEF Delivered
<1>2. CASE cl.pc # "down" /\ Len(cl.events) < Capacity
  <2>1. Append(cl.events, m) \in Seq(Message) /\ UpToLabel(Append(cl.events, m), top)
    BY ClientParts, AppendBehind
  <2>2. Delivered(cl, m) = [cl EXCEPT !.events = Append(cl.events, m)]
    BY <1>2 DEF Delivered
  <2> QED BY <2>1, <2>2 DEF Client, Behind
<1>3. CASE cl.pc # "down" /\ ~(Len(cl.events) < Capacity)
  <2>1. cl.events \in Seq(Message) /\ UpToLabel(cl.events, top)
    BY ClientParts
  <2>2. cl.events # <<>>
    BY <1>3, <2>1, SyncAssumption
  <2>3. Append(Tail(cl.events), m) \in Seq(Message) /\ UpToLabel(Append(Tail(cl.events), m), top)
    BY <2>1, <2>2, TailBehind, AppendBehind
  <2>4. Delivered(cl, m) = [cl EXCEPT !.events = Append(Tail(cl.events), m), !.lagged = TRUE]
    BY <1>3 DEF Delivered
  <2> QED BY <2>3, <2>4 DEF Client, Behind
<1> QED BY <1>1, <1>2, <1>3

LEMMA AskBehind ==
  ASSUME NEW cl \in Client, NEW top \in Nat, Behind(cl, top)
  PROVE  Ask(cl) \in Client /\ Behind(Ask(cl), top) /\ Ask(cl).label = cl.label
<1>1. cl.asks \in Seq(Nat) /\ \A i \in DOMAIN cl.asks : cl.asks[i] <= top
  BY ClientParts
<1>2. Append(cl.asks, 0) \in Seq(Nat)
      /\ \A i \in DOMAIN Append(cl.asks, 0) : Append(cl.asks, 0)[i] <= top
  BY <1>1
<1>3. Ask(cl) = [cl EXCEPT !.asks = Append(cl.asks, 0)]
  BY DEF Ask, request_snapshot
<1> QED BY <1>2, <1>3 DEF Client, Behind

LEMMA ApplyCases ==
  ASSUME NEW cl \in Client, NEW m \in Message
  PROVE  \/ applyRoomServerMessage(cl, m) = cl
         \/ applyRoomServerMessage(cl, m) = Ask(cl)
         \/ /\ applyRoomServerMessage(cl, m) = Replace(cl, m)
            /\ m.type = "snapshot" /\ m.label >= cl.label
         \/ /\ applyRoomServerMessage(cl, m) = Patch(cl, m)
            /\ m.type = "delta" /\ cl.label > 0 /\ m.label = cl.label + 1
<1>1. cl.label \in Nat /\ m.label \in Nat /\ m.type \in {"snapshot", "revision", "delta"}
  BY DEF Client, Message
<1> DEFINE label == cl.label
           other == m.label
           type  == m.type
           ask   == Ask(cl)
           taken == Replace(cl, m)
           patch == Patch(cl, m)
           n     == applyRoomServerMessage(cl, m)
<1>2. n = CASE type = "snapshot" -> IF other >= label THEN taken ELSE cl
            [] type = "revision" -> IF other > label THEN ask ELSE cl
            [] type = "delta"    -> IF label = 0 THEN ask
                                    ELSE IF other <= label THEN cl
                                    ELSE IF other > label + 1 THEN ask
                                    ELSE patch
  BY DEF applyRoomServerMessage
<1>3. label \in Nat /\ other \in Nat /\ type \in {"snapshot", "revision", "delta"}
  BY <1>1
<1> HIDE DEF label, other, type, ask, taken, patch, n
<1>4. \/ n = cl \/ n = ask
      \/ n = taken /\ type = "snapshot" /\ other >= label
      \/ n = patch /\ type = "delta" /\ label > 0 /\ other = label + 1
  <2>1. CASE type = "snapshot"
    BY <1>2, <1>3, <2>1
  <2>2. CASE type = "revision"
    BY <1>2, <1>3, <2>2
  <2>3. CASE type = "delta"
    BY <1>2, <1>3, <2>3
  <2> QED BY <1>3, <2>1, <2>2, <2>3
<1> QED BY <1>4 DEF label, other, type, ask, taken, patch, n

LEMMA PatchTyped ==
  ASSUME NEW cl \in Client, NEW m \in Message
  PROVE  /\ Patch(cl, m) \in Client /\ Patch(cl, m).label = m.label
         /\ Patch(cl, m).events = cl.events /\ Patch(cl, m).wire = cl.wire
         /\ Patch(cl, m).asks = cl.asks
<1> DEFINE v == [p \in Parts |-> IF p \notin m.fields THEN cl.values[p]
                                 ELSE IF p = "content" THEN cl.values[p] \o m.values[p]
                                 ELSE m.values[p]]
<1>1. m.label \in Nat /\ m.values \in Values /\ cl.values \in Values
  BY DEF Client, Message
<1>2. v \in Values
  BY <1>1 DEF Values
<1>3. Patch(cl, m) = [cl EXCEPT !.label = m.label, !.values = v]
  BY DEF Patch
<1> HIDE DEF v
<1> QED BY <1>1, <1>2, <1>3 DEF Client

(* Taking a message never lowers the label, and raises it to the message's *)
(* at most.                                                                *)
LEMMA ApplyBehind ==
  ASSUME NEW cl \in Client, NEW top \in Nat, Behind(cl, top), NEW m \in Message, m.label <= top
  PROVE  /\ applyRoomServerMessage(cl, m) \in Client
         /\ Behind(applyRoomServerMessage(cl, m), top)
         /\ applyRoomServerMessage(cl, m).label >= cl.label
<1> DEFINE n == applyRoomServerMessage(cl, m)
<1> SUFFICES n \in Client /\ Behind(n, top) /\ n.label >= cl.label
  OBVIOUS
<1>1. \/ n = cl
      \/ n = Ask(cl)
      \/ n = Replace(cl, m) /\ m.label >= cl.label
      \/ n = Patch(cl, m) /\ m.label = cl.label + 1
  BY ApplyCases
<1>2. cl.label \in Nat /\ m.label \in Nat /\ m.values \in Values
  BY DEF Client, Message
<1> HIDE DEF n
<1>3. CASE n = cl
  BY <1>2, <1>3
<1>4. CASE n = Ask(cl)
  BY <1>2, <1>4, AskBehind
<1>5. CASE n = Replace(cl, m) /\ m.label >= cl.label
  <2>1. n = [cl EXCEPT !.label = m.label, !.values = m.values]
    BY <1>5 DEF Replace
  <2>2. n \in Client /\ n.label = m.label /\ n.events = cl.events /\ n.wire = cl.wire
        /\ n.asks = cl.asks
    BY <1>2, <2>1 DEF Client
  <2> QED BY <1>5, <2>2 DEF Behind
<1>6. CASE n = Patch(cl, m) /\ m.label = cl.label + 1
  <2>1. n \in Client /\ n.label = m.label /\ n.events = cl.events /\ n.wire = cl.wire
        /\ n.asks = cl.asks
    BY <1>6, PatchTyped
  <2>2. n.label >= cl.label
    BY <1>2, <1>6, <2>1
  <2> QED BY <2>1, <2>2 DEF Behind
<1> QED BY <1>1, <1>3, <1>4, <1>5, <1>6

-----------------------------------------------------------------------------
(* The steps. Each changes either one client, or the room and one handler. *)

Later == \A c \in Clients : client'[c].label >= client[c].label

(* The room is left alone or written; handler h, or client c, changes.     *)
RoomGrows == db' \in [revision: Nat, values: Values] /\ db'.revision >= db.revision
HandlerSet(h, me) == handler' = [handler EXCEPT ![h] = me]
ClientSet(c, cl)  == client' = [client EXCEPT ![c] = cl]

LEMMA Unwritten == ASSUME IInv, db' = db PROVE RoomGrows
<1>1. db \in [revision: Nat, values: Values] /\ db.revision \in Nat
  BY DEF IInv, TypeOK
<1> QED BY <1>1 DEF RoomGrows

LEMMA Written ==
  ASSUME IInv, NEW fields, db' = Changed(fields)
  PROVE  /\ RoomGrows /\ db'.revision = db.revision + 1
         /\ db.revision \in Nat /\ db'.revision \in Nat /\ db'.values \in Values
<1>1. db \in [revision: Nat, values: Values] /\ db.revision \in Nat
  BY DEF IInv, TypeOK
<1>2. db' \in [revision: Nat, values: Values] /\ db'.revision = db.revision + 1
  BY <1>1, ChangedTyped
<1> QED BY <1>1, <1>2 DEF RoomGrows

LEMMA InvParts ==
  ASSUME IInv
  PROVE  /\ db \in [revision: Nat, values: Values] /\ db.revision \in Nat /\ db.values \in Values
         /\ \A h \in Handlers : handler[h] \in Handler /\ Allowed(handler[h], db.revision)
         /\ \A c \in Clients : /\ client[c] \in Client /\ Behind(client[c], db.revision)
                               /\ client[c].label \in Nat
         /\ handler \in [Handlers -> Handler] /\ client \in [Clients -> Client]
BY DEF IInv, TypeOK, Client

LEMMA HandlerParts ==
  ASSUME NEW me \in Handler
  PROVE  /\ me.fields \in SUBSET Parts /\ me.revision \in Nat /\ me.values \in Values
         /\ me.opens \in SUBSET Clients
BY DEF Handler

LEMMA HandlerStepInv ==
  ASSUME IInv, RoomGrows, client' = client,
         NEW h \in Handlers, NEW me \in Handler, Allowed(me, db'.revision), HandlerSet(h, me)
  PROVE  IInv' /\ Later
<1> DEFINE old == db.revision
           new == db'.revision
<1>1. old \in Nat /\ new \in Nat /\ old <= new
  BY InvParts DEF RoomGrows
<1>2. \A c \in Clients : client[c] \in Client /\ Behind(client[c], old) /\ client[c].label \in Nat
  BY InvParts
<1>3. \A g \in Handlers : handler[g] \in Handler /\ Allowed(handler[g], old)
  BY InvParts
<1>4. TypeOK'
  BY InvParts DEF TypeOK, RoomGrows, HandlerSet
<1> HIDE DEF old, new
<1>5. \A c \in Clients : Behind(client[c], new)
  BY <1>1, <1>2, BehindLater
<1>6. \A g \in Handlers : Allowed(handler[g], new)
  <2> SUFFICES ASSUME NEW g \in Handlers PROVE Allowed(handler[g], new)
    OBVIOUS
  <2>1. handler[g].revision \in Nat
    BY <1>3, HandlerParts
  <2> QED BY <1>1, <1>3, <2>1 DEF Allowed
<1>7. \A g \in Handlers : handler'[g] = me \/ handler'[g] = handler[g]
  BY InvParts DEF HandlerSet
<1>8. Allowed(me, new)
  BY DEF new
<1>9. \A g \in Handlers : Allowed(handler'[g], new)
  BY <1>6, <1>7, <1>8
<1>10. Later
  BY <1>2 DEF Later
<1> QED BY <1>4, <1>5, <1>9, <1>10 DEF IInv, new

LEMMA ClientStepInv ==
  ASSUME IInv, UNCHANGED <<db, handler>>, NEW c \in Clients, NEW cl \in Client,
         Behind(cl, db.revision), cl.label >= client[c].label, ClientSet(c, cl)
  PROVE  IInv' /\ Later
<1>1. TypeOK'
  BY InvParts DEF TypeOK, ClientSet
<1>2. \A d \in Clients : client'[d] = cl \/ client'[d] = client[d]
  BY InvParts DEF ClientSet
<1>3. \A d \in Clients : Behind(client'[d], db.revision)
  BY <1>2, InvParts
<1>4. Later
  <2> SUFFICES ASSUME NEW d \in Clients PROVE client'[d].label >= client[d].label
    BY DEF Later
  <2>1. client[d].label \in Nat
    BY InvParts
  <2>2. CASE d = c
    BY <2>2, InvParts DEF ClientSet
  <2>3. CASE d # c
    BY <2>1, <2>3, InvParts DEF ClientSet
  <2> QED BY <2>2, <2>3
<1> QED BY <1>1, <1>3, <1>4 DEF IInv

LEMMA InitInv == Init => IInv
<1> SUFFICES ASSUME Init PROVE IInv
  OBVIOUS
<1>1. TypeOK
  BY NothingTyped, IdleTyped, DownTyped DEF Init, TypeOK
<1>2. db.revision \in Nat
  BY DEF Init
<1>3. \A c \in Clients : Behind(client[c], db.revision)
  BY <1>2, DownTyped DEF Init
<1>4. \A h \in Handlers : Allowed(handler[h], db.revision)
  BY <1>2, IdleTyped DEF Init
<1> QED BY <1>1, <1>3, <1>4 DEF IInv

LEMMA BecomeInv ==
  ASSUME IInv, NEW h \in Handlers, RoomGrows, client' = client,
         NEW pc \in {"promote", "refresh", "publish"}, NEW fields \in SUBSET Parts,
         NEW revision \in Nat, NEW exact \in BOOLEAN, NEW values \in Values,
         pc = "publish" => revision <= db'.revision,
         Become(h, pc, fields, revision, exact, values)
  PROVE  IInv' /\ Later
<1> DEFINE me == [Idle EXCEPT !.pc = pc, !.fields = fields, !.revision = revision,
                              !.exact = exact, !.values = values]
<1>1. me \in Handler
  BY IdleTyped DEF Handler
<1>2. me.pc = pc /\ me.revision = revision
  BY IdleTyped DEF Handler
<1>3. HandlerSet(h, me)
  BY DEF Become, HandlerSet
<1> HIDE DEF me
<1>4. Allowed(me, db'.revision)
  BY <1>2 DEF Allowed
<1> QED BY <1>1, <1>3, <1>4, HandlerStepInv

LEMMA WriteSharedInv ==
  ASSUME IInv, NEW h \in Handlers, WriteShared(h)
  PROVE  IInv' /\ Later
<1> DEFINE values == Carried({"shared"}, db'.revision, db'.values)
<1>1. RoomGrows /\ db'.revision \in Nat /\ db'.values \in Values /\ client' = client
  BY Written DEF WriteShared
<1>2. values \in Values
  BY <1>1, CarriedTyped
<1>3. Become(h, "publish", {"shared"}, db'.revision, TRUE, values)
  BY DEF WriteShared
<1> HIDE DEF values
<1>4. /\ {"shared"} \in SUBSET Parts /\ TRUE \in BOOLEAN /\ db'.revision <= db'.revision
      /\ "publish" \in {"promote", "refresh", "publish"}
  BY <1>1 DEF Parts
<1> QED BY <1>1, <1>2, <1>3, <1>4, BecomeInv

LEMMA WriteThenRefreshInv ==
  ASSUME IInv, NEW h \in Handlers, WriteThenRefresh(h)
  PROVE  IInv' /\ Later
<1>1. PICK fields \in {{"queue"}, {"queue", "content"}, {"sessions"}} :
        /\ db' = Changed(fields)
        /\ Become(h, "refresh", fields, db'.revision, FALSE, Nothing)
  BY DEF WriteThenRefresh
<1>2. RoomGrows /\ db'.revision \in Nat /\ client' = client
  BY <1>1, Written DEF WriteThenRefresh
<1>3. /\ fields \in SUBSET Parts /\ FALSE \in BOOLEAN
      /\ "refresh" \in {"promote", "refresh", "publish"} /\ "refresh" # "publish"
  BY DEF Parts
<1> QED BY <1>1, <1>2, <1>3, NothingTyped, BecomeInv

LEMMA PromoteInv ==
  ASSUME IInv, NEW h \in Handlers, PromoteLoad(h) \/ PromoteCommit(h)
  PROVE  IInv' /\ Later
<1>1. db.revision \in Nat /\ db \in [revision: Nat, values: Values] /\ handler[h] \in Handler
  BY InvParts
<1>2. CASE PromoteLoad(h)
  <2>1. /\ {"queue", "shared"} \in SUBSET Parts /\ TRUE \in BOOLEAN /\ db.revision + 1 \in Nat
        /\ "promote" \in {"promote", "refresh", "publish"} /\ "promote" # "publish"
    BY <1>1 DEF Parts
  <2>2. Become(h, "promote", {"queue", "shared"}, db.revision + 1, TRUE, Nothing)
    BY <1>2 DEF PromoteLoad
  <2>3. RoomGrows /\ client' = client
    BY <1>2, Unwritten DEF PromoteLoad
  <2> DEFINE next == db.revision + 1
  <2>4. next \in Nat /\ Become(h, "promote", {"queue", "shared"}, next, TRUE, Nothing)
    BY <2>1, <2>2
  <2> HIDE DEF next
  <2> QED BY <2>1, <2>3, <2>4, NothingTyped, BecomeInv
<1>3. CASE PromoteCommit(h)
  <2> DEFINE me == [handler[h] EXCEPT !.pc = "refresh"]
  <2>1. me \in Handler /\ me.pc = "refresh"
    BY <1>1 DEF Handler
  <2>2. HandlerSet(h, me) /\ client' = client
    BY <1>3, InvParts DEF PromoteCommit, HandlerSet
  <2>3. RoomGrows
    BY <1>3, Written, Unwritten DEF PromoteCommit
  <2> HIDE DEF me
  <2>4. Allowed(me, db'.revision)
    BY <2>1 DEF Allowed
  <2> QED BY <2>1, <2>2, <2>3, <2>4, HandlerStepInv
<1> QED BY <1>2, <1>3

LEMMA RefreshInv ==
  ASSUME IInv, NEW h \in Handlers, Refresh(h)
  PROVE  IInv' /\ Later
<1>1. db.revision \in Nat /\ db.values \in Values /\ handler[h] \in Handler
  BY InvParts
<1>2. RoomGrows /\ client' = client /\ db' = db
  BY Unwritten DEF Refresh
<1>3. CASE handler' = [handler EXCEPT ![h] = Idle]
  <2>1. Idle \in Handler /\ Allowed(Idle, db'.revision)
    BY <1>1, <1>2, IdleTyped
  <2>2. HandlerSet(h, Idle)
    BY <1>3 DEF HandlerSet
  <2> QED BY <1>2, <2>1, <2>2, HandlerStepInv
<1> DEFINE fields == handler[h].fields
           exact  == handler[h].exact
           values == Carried(fields, handler[h].revision, db.values)
           label  == db.revision
<1>4. CASE Become(h, "publish", fields, label, exact, values)
  <2>1. fields \in SUBSET Parts /\ exact \in BOOLEAN /\ handler[h].revision \in Nat
    BY <1>1 DEF Handler
  <2>2. values \in Values
    BY <1>1, <2>1, CarriedTyped
  <2>3. label \in Nat /\ label <= db'.revision
        /\ "publish" \in {"promote", "refresh", "publish"}
    BY <1>1, <1>2
  <2> HIDE DEF fields, exact, values, label
  <2> QED BY <1>2, <1>4, <2>1, <2>2, <2>3, BecomeInv
<1> QED BY <1>3, <1>4 DEF Refresh

LEMMA MarkConnectedInv ==
  ASSUME IInv, NEW h \in Handlers, MarkConnected(h)
  PROVE  IInv' /\ Later
<1> DEFINE v == [handler[h].values EXCEPT !["sessions"] = Append(@, db'.revision)]
           me == [handler[h] EXCEPT !.pc = "publish", !.values = v]
<1>1. RoomGrows /\ db'.revision = db.revision + 1 /\ db.revision \in Nat
      /\ db'.revision \in Nat /\ client' = client
  BY Written DEF MarkConnected
<1>2. handler[h] \in Handler /\ Allowed(handler[h], db.revision)
  BY InvParts
<1>3. handler[h].values \in Values /\ handler[h].revision \in Nat
  BY <1>2, HandlerParts
<1>4. v \in Values
  BY <1>1, <1>3 DEF Values, Parts
<1>5. HandlerSet(h, me)
  BY InvParts DEF MarkConnected, Handler, HandlerSet
<1> HIDE DEF v
<1>6. me \in Handler /\ me.pc = "publish" /\ me.revision = handler[h].revision
  BY <1>2, <1>4 DEF Handler
<1> HIDE DEF me
<1>7. handler[h].revision <= db.revision + 1
  BY <1>2 DEF MarkConnected, Allowed
<1>8. Allowed(me, db'.revision)
  BY <1>1, <1>6, <1>7 DEF Allowed
<1> QED BY <1>1, <1>5, <1>6, <1>8, HandlerStepInv

(* A step that changes a handler and what the clients hold.                *)
LEMMA BothStepInv ==
  ASSUME IInv, db' = db, NEW h \in Handlers, NEW me \in Handler, Allowed(me, db.revision),
         HandlerSet(h, me), client' \in [Clients -> Client],
         \A c \in Clients : Behind(client'[c], db.revision) /\ client'[c].label >= client[c].label
  PROVE  IInv' /\ Later
<1>1. TypeOK'
  BY InvParts DEF TypeOK, HandlerSet
<1>2. \A g \in Handlers : handler'[g] = me \/ handler'[g] = handler[g]
  BY InvParts DEF HandlerSet
<1>3. \A g \in Handlers : Allowed(handler'[g], db.revision)
  BY <1>2, InvParts
<1> QED BY <1>1, <1>3 DEF IInv, Later

LEMMA TicketTyped ==
  ASSUME NEW c \in Clients, NEW revision \in Nat, NEW values \in Values
  PROVE  LET me == [Idle EXCEPT !.pc = "bump", !.fields = {"sessions"}, !.revision = revision,
                                !.values = values, !.opens = {c}]
         IN me \in Handler /\ me.pc = "bump" /\ me.revision = revision
<1>1. {"sessions"} \in SUBSET Parts /\ {c} \in SUBSET Clients
  BY DEF Parts
<1> QED BY <1>1, IdleTyped DEF Handler

(* A client whose socket opens with the message m, or closes.              *)
LEMMA OpenedBehind ==
  ASSUME NEW cl \in Client, NEW top \in Nat, Behind(cl, top), NEW m \in Message, m.label <= top
  PROVE  LET opened == [cl EXCEPT !.pc = "up", !.wire = <<m>>]
         IN opened \in Client /\ Behind(opened, top) /\ opened.label = cl.label
<1>1. <<m>> \in Seq(Message) /\ UpToLabel(<<m>>, top)
  BY DEF UpToLabel
<1> QED BY <1>1 DEF Client, Behind

LEMMA ClosedBehind ==
  ASSUME NEW cl \in Client, NEW top \in Nat, Behind(cl, top)
  PROVE  LET closed == [cl EXCEPT !.pc = "down", !.events = <<>>, !.lagged = FALSE]
         IN closed \in Client /\ Behind(closed, top) /\ closed.label = cl.label
<1>1. UpToLabel(<<>>, top) /\ <<>> \in Seq(Message)
  BY DEF UpToLabel
<1> QED BY <1>1 DEF Client, Behind

LEMMA ConsumeTicketInv ==
  ASSUME IInv, NEW h \in Handlers, NEW c \in Clients, ConsumeTicket(h, c)
  PROVE  IInv' /\ Later
<1> DEFINE me == [Idle EXCEPT !.pc = "bump", !.fields = {"sessions"},
                              !.revision = db.revision + 1, !.values = db.values, !.opens = {c}]
           cl == [client[c] EXCEPT !.pc = "opening"]
<1>1. db.revision \in Nat /\ db.values \in Values /\ client \in [Clients -> Client]
  BY InvParts
<1>2. me \in Handler /\ me.pc = "bump" /\ me.revision = db.revision + 1
  <2>1. db.revision + 1 \in Nat
    BY <1>1
  <2> QED BY <1>1, <2>1, TicketTyped
<1>3. HandlerSet(h, me) /\ client' = [client EXCEPT ![c] = cl] /\ db' = db
  BY <1>1 DEF ConsumeTicket, HandlerSet
<1> HIDE DEF me
<1>4. Allowed(me, db.revision)
  BY <1>1, <1>2 DEF Allowed
<1>5. client[c] \in Client /\ Behind(client[c], db.revision)
  BY InvParts
<1>6. cl \in Client /\ Behind(cl, db.revision) /\ cl.label = client[c].label
  BY <1>5 DEF Client, Behind
<1> HIDE DEF cl
<1>7. client' \in [Clients -> Client]
      /\ \A d \in Clients : client'[d] = IF d = c THEN cl ELSE client[d]
  BY <1>1, <1>3, <1>6
<1>8. ASSUME NEW d \in Clients
      PROVE  Behind(client'[d], db.revision) /\ client'[d].label >= client[d].label
  <2>1. client[d].label \in Nat /\ Behind(client[d], db.revision)
    BY InvParts
  <2> QED BY <1>6, <1>7, <2>1
<1> QED BY <1>2, <1>3, <1>4, <1>7, <1>8, BothStepInv

(* An event is labelled with a revision the room has had, and a socket that *)
(* opens starts from nothing it could fall back from.                      *)
LEMMA PublishInv ==
  ASSUME IInv, NEW h \in Handlers, Publish(h)
  PROVE  IInv' /\ Later
<1> DEFINE me   == handler[h]
           top  == db.revision
           m    == Delta(me.revision, me.fields, me.values)
           snap == Snapshot(me.revision, me.values)
           open(cl) == [cl EXCEPT !.pc = "up", !.wire = <<snap>>]
<1>1. me \in Handler /\ Allowed(me, top) /\ top \in Nat
  BY InvParts
<1>2. me.fields \in SUBSET Parts /\ me.revision \in Nat /\ me.values \in Values
  BY <1>1, HandlerParts
<1>3. me.revision <= top
  BY <1>1 DEF Allowed, Publish
<1>4. m \in Message /\ m.label <= top
  BY <1>2, <1>3, DeltaTyped
<1>5. snap \in Message /\ snap.label <= top
  BY <1>2, <1>3, SnapshotTyped
<1>6. /\ client' = [c \in Clients |-> IF c \in me.opens THEN open(Delivered(client[c], m))
                                      ELSE Delivered(client[c], m)]
      /\ HandlerSet(h, Idle) /\ db' = db
  BY DEF Publish, HandlerSet
<1> HIDE DEF me, m, snap, top
<1>7. ASSUME NEW c \in Clients
      PROVE  /\ client'[c] \in Client /\ Behind(client'[c], top)
             /\ client'[c].label >= client[c].label
  <2> DEFINE cl == Delivered(client[c], m)
  <2>1. client[c] \in Client /\ Behind(client[c], top) /\ client[c].label \in Nat
    BY InvParts DEF top
  <2>2. cl \in Client /\ Behind(cl, top) /\ cl.label = client[c].label
    BY <1>4, <2>1, DeliveredBehind
  <2>3. client'[c] = open(cl) \/ client'[c] = cl
    BY <1>6
  <2> HIDE DEF cl
  <2> DEFINE opened == open(cl)
  <2>4. opened \in Client /\ opened.label = cl.label /\ Behind(opened, top)
    BY <1>1, <1>5, <2>2, OpenedBehind
  <2>5. client'[c] = opened \/ client'[c] = cl
    BY <2>3
  <2> HIDE DEF opened
  <2> QED BY <2>1, <2>2, <2>4, <2>5
<1>8. client' \in [Clients -> Client]
  BY <1>6, <1>7
<1>9. Idle \in Handler /\ Allowed(Idle, db.revision)
  BY <1>1, IdleTyped DEF top
<1>10. \A c \in Clients : Behind(client'[c], db.revision) /\ client'[c].label >= client[c].label
  BY <1>7 DEF top
<1> QED BY <1>6, <1>8, <1>9, <1>10, BothStepInv

LEMMA CancelInv ==
  ASSUME IInv, NEW h \in Handlers, Cancel(h)
  PROVE  IInv' /\ Later
<1> DEFINE closed(cl) == [cl EXCEPT !.pc = "down", !.events = <<>>, !.lagged = FALSE]
<1>1. /\ client' = [c \in Clients |-> IF c \in handler[h].opens THEN closed(client[c])
                                      ELSE client[c]]
      /\ HandlerSet(h, Idle) /\ db' = db
  BY DEF Cancel, HandlerSet
<1>2. ASSUME NEW c \in Clients
      PROVE  /\ client'[c] \in Client /\ Behind(client'[c], db.revision)
             /\ client'[c].label >= client[c].label
  <2>1. client[c] \in Client /\ Behind(client[c], db.revision) /\ client[c].label \in Nat
    BY InvParts
  <2>2. client'[c] = closed(client[c]) \/ client'[c] = client[c]
    BY <1>1
  <2> DEFINE n == closed(client[c])
  <2>3. n \in Client /\ n.label = client[c].label /\ Behind(n, db.revision)
    BY <2>1, InvParts, ClosedBehind
  <2>4. client'[c] = n \/ client'[c] = client[c]
    BY <2>2
  <2> HIDE DEF n
  <2> QED BY <2>1, <2>3, <2>4
<1>3. client' \in [Clients -> Client]
  BY <1>1, <1>2
<1>4. Idle \in Handler /\ Allowed(Idle, db.revision)
  BY InvParts, IdleTyped
<1> QED BY <1>1, <1>2, <1>3, <1>4, BothStepInv

-----------------------------------------------------------------------------
(* The socket task and the client.                                         *)

LEMMA WireGrows ==
  ASSUME NEW cl \in Client, NEW top \in Nat, Behind(cl, top), NEW m \in Message, m.label <= top
  PROVE  LET sent == [cl EXCEPT !.wire = Append(cl.wire, m)]
         IN sent \in Client /\ Behind(sent, top) /\ sent.label = cl.label
<1>1. Append(cl.wire, m) \in Seq(Message) /\ UpToLabel(Append(cl.wire, m), top)
  BY ClientParts, AppendBehind
<1> QED BY <1>1 DEF Client, Behind

LEMMA ForwardInv ==
  ASSUME IInv, NEW c \in Clients, Forward(c)
  PROVE  IInv' /\ Later
<1> DEFINE old == client[c]
           top == db.revision
<1>1. old \in Client /\ Behind(old, top) /\ top \in Nat /\ old.label \in Nat
      /\ db.values \in Values /\ client \in [Clients -> Client]
  BY InvParts
<1>2. UNCHANGED <<db, handler>>
  BY DEF Forward
<1>3. CASE client' = [client EXCEPT ![c].lagged = FALSE,
                        ![c].wire = Append(@, Snapshot(db.revision, db.values))]
  <2> DEFINE m    == Snapshot(top, db.values)
             sent == [old EXCEPT !.wire = Append(old.wire, m)]
             n    == [sent EXCEPT !.lagged = FALSE]
  <2>1. m \in Message /\ m.label <= top
    BY <1>1, SnapshotTyped
  <2>2. ClientSet(c, n)
    BY <1>1, <1>3 DEF ClientSet, Client
  <2> HIDE DEF m
  <2>3. sent \in Client /\ Behind(sent, top) /\ sent.label = old.label
    BY <1>1, <2>1, WireGrows
  <2> HIDE DEF sent
  <2>4. n \in Client /\ Behind(n, top) /\ n.label = old.label
    BY <2>3 DEF Client, Behind
  <2>5. n.label >= old.label
    BY <1>1, <2>4
  <2> HIDE DEF n
  <2> QED BY <1>2, <2>2, <2>4, <2>5, ClientStepInv
<1>4. CASE /\ client[c].events # <<>>
           /\ client' = [client EXCEPT ![c].events = Tail(@),
                           ![c].wire = Append(@, Head(client[c].events))]
  <2> DEFINE m    == Head(old.events)
             rest == Tail(old.events)
             sent == [old EXCEPT !.wire = Append(old.wire, m)]
             n    == [sent EXCEPT !.events = rest]
  <2>1. old.events \in Seq(Message) /\ UpToLabel(old.events, top)
    BY <1>1, ClientParts
  <2>2. m \in Message /\ m.label <= top /\ rest \in Seq(Message) /\ UpToLabel(rest, top)
    BY <1>4, <2>1, TailBehind
  <2>3. ClientSet(c, n)
    BY <1>1, <1>4 DEF ClientSet, Client
  <2> HIDE DEF m, rest
  <2>4. sent \in Client /\ Behind(sent, top) /\ sent.label = old.label
    BY <1>1, <2>2, WireGrows
  <2> HIDE DEF sent
  <2>5. n \in Client /\ Behind(n, top) /\ n.label = old.label
    BY <2>2, <2>4 DEF Client, Behind
  <2>6. n.label >= old.label
    BY <1>1, <2>5
  <2> HIDE DEF n
  <2> QED BY <1>2, <2>3, <2>5, <2>6, ClientStepInv
<1> QED BY <1>3, <1>4 DEF Forward

LEMMA AsksShrink ==
  ASSUME NEW cl \in Client, NEW top \in Nat, Behind(cl, top), cl.asks # <<>>
  PROVE  LET read == [cl EXCEPT !.asks = Tail(cl.asks)]
         IN read \in Client /\ Behind(read, top) /\ read.label = cl.label
<1> DEFINE s == cl.asks
<1>1. s \in Seq(Nat) /\ s # <<>> /\ \A i \in DOMAIN s : s[i] <= top
  BY ClientParts
<1> HIDE DEF s
<1>2. Len(s) \in Nat /\ Len(s) > 0 /\ DOMAIN s = 1..Len(s)
  BY <1>1, EmptySeq
<1>3. Tail(s) \in Seq(Nat) /\ DOMAIN Tail(s) = 1..(Len(s) - 1)
      /\ \A i \in 1..(Len(s) - 1) : Tail(s)[i] = s[i + 1]
  BY <1>1, <1>2
<1>4. \A i \in DOMAIN Tail(s) : Tail(s)[i] <= top
  BY <1>1, <1>2, <1>3
<1> QED BY <1>3, <1>4 DEF s, Client, Behind

LEMMA AnswerInv ==
  ASSUME IInv, NEW c \in Clients, Answer(c)
  PROVE  IInv' /\ Later
<1> DEFINE old  == client[c]
           top  == db.revision
           m    == IF Head(old.asks) = top THEN RevisionOnly(top) ELSE Snapshot(top, db.values)
           read == [old EXCEPT !.asks = Tail(old.asks)]
           n    == [read EXCEPT !.wire = Append(read.wire, m)]
<1>1. old \in Client /\ Behind(old, top) /\ top \in Nat /\ old.label \in Nat
      /\ db.values \in Values /\ client \in [Clients -> Client]
  BY InvParts
<1>2. UNCHANGED <<db, handler>> /\ old.asks # <<>>
  BY DEF Answer
<1>3. ClientSet(c, n)
  BY <1>1 DEF Answer, ClientSet, Client
<1>4. m \in Message /\ m.label <= top
  BY <1>1, SnapshotTyped, RevisionTyped
<1> HIDE DEF m
<1>5. read \in Client /\ Behind(read, top) /\ read.label = old.label
  BY <1>1, <1>2, AsksShrink
<1> HIDE DEF read
<1>6. n \in Client /\ Behind(n, top) /\ n.label = read.label
  BY <1>1, <1>4, <1>5, WireGrows
<1>7. n.label >= old.label
  BY <1>1, <1>5, <1>6
<1> HIDE DEF n
<1> QED BY <1>2, <1>3, <1>6, <1>7, ClientStepInv

LEMMA ReceiveInv ==
  ASSUME IInv, NEW c \in Clients, Receive(c)
  PROVE  IInv' /\ Later
<1> DEFINE old  == client[c]
           top  == db.revision
           m    == Head(old.wire)
           rest == Tail(old.wire)
           read == [old EXCEPT !.wire = rest]
           n    == applyRoomServerMessage(read, m)
<1>1. old \in Client /\ Behind(old, top) /\ top \in Nat /\ old.label \in Nat
      /\ client \in [Clients -> Client]
  BY InvParts
<1>2. UNCHANGED <<db, handler>> /\ old.wire # <<>>
  BY DEF Receive
<1>3. ClientSet(c, n)
  BY DEF Receive, ClientSet
<1>4. old.wire \in Seq(Message) /\ UpToLabel(old.wire, top)
  BY <1>1, ClientParts
<1>5. m \in Message /\ m.label <= top /\ rest \in Seq(Message) /\ UpToLabel(rest, top)
  BY <1>2, <1>4, TailBehind
<1> HIDE DEF m, rest
<1>6. read \in Client /\ Behind(read, top) /\ read.label = old.label
  BY <1>1, <1>5 DEF Client, Behind
<1> HIDE DEF read
<1>7. n \in Client /\ Behind(n, top) /\ n.label >= read.label
  BY <1>1, <1>5, <1>6, ApplyBehind
<1>8. n.label >= old.label
  BY <1>6, <1>7
<1> HIDE DEF n
<1> QED BY <1>2, <1>3, <1>7, <1>8, ClientStepInv

LEMMA HeartbeatInv ==
  ASSUME IInv, NEW c \in Clients, Heartbeat(c)
  PROVE  IInv' /\ Later
<1> DEFINE old == client[c]
           top == db.revision
           n   == [old EXCEPT !.asks = <<old.label>>]
<1>1. old \in Client /\ Behind(old, top) /\ top \in Nat /\ old.label \in Nat /\ old.label <= top
      /\ client \in [Clients -> Client]
  BY InvParts, ClientParts
<1>2. UNCHANGED <<db, handler>> /\ ClientSet(c, n)
  BY <1>1 DEF Heartbeat, ClientSet
<1>3. <<old.label>> \in Seq(Nat) /\ \A i \in DOMAIN <<old.label>> : <<old.label>>[i] <= top
  BY <1>1
<1>4. n \in Client /\ Behind(n, top) /\ n.label = old.label
  BY <1>1, <1>3 DEF Client, Behind
<1>5. n.label >= old.label
  BY <1>1, <1>4
<1> HIDE DEF n
<1> QED BY <1>2, <1>4, <1>5, ClientStepInv

LEMMA HangUpInv ==
  ASSUME IInv, NEW c \in Clients, HangUp(c)
  PROVE  IInv' /\ Later
<1> DEFINE old == client[c]
           top == db.revision
           n   == [Down EXCEPT !.label = old.label, !.values = old.values]
<1>1. old \in Client /\ Behind(old, top) /\ top \in Nat /\ old.label \in Nat /\ old.label <= top
      /\ old.values \in Values
  BY InvParts, ClientParts
<1>2. UNCHANGED <<db, handler>> /\ ClientSet(c, n)
  BY DEF HangUp, ClientSet
<1>3. Down \in Client /\ Behind(Down, top)
  BY <1>1, DownTyped
<1>4. n \in Client /\ Behind(n, top) /\ n.label = old.label
  BY <1>1, <1>3 DEF Client, Behind
<1>5. n.label >= old.label
  BY <1>1, <1>4
<1> HIDE DEF n
<1> QED BY <1>2, <1>4, <1>5, ClientStepInv

-----------------------------------------------------------------------------
LEMMA NextInv == IInv /\ [Next]_vars => IInv' /\ Later
<1> SUFFICES ASSUME IInv, [Next]_vars PROVE IInv' /\ Later
  OBVIOUS
<1>1. ASSUME NEW h \in Handlers,
             \/ WriteShared(h) \/ WriteThenRefresh(h) \/ PromoteLoad(h)
             \/ \E c \in Clients : ConsumeTicket(h, c)
             \/ HandlerStep(h) \/ Cancel(h)
      PROVE  IInv' /\ Later
  BY <1>1, WriteSharedInv, WriteThenRefreshInv, PromoteInv, ConsumeTicketInv, RefreshInv,
     MarkConnectedInv, PublishInv, CancelInv DEF HandlerStep
<1>2. ASSUME NEW c \in Clients,
             Forward(c) \/ Answer(c) \/ Receive(c) \/ Heartbeat(c) \/ HangUp(c)
      PROVE  IInv' /\ Later
  BY <1>2, ForwardInv, AnswerInv, ReceiveInv, HeartbeatInv, HangUpInv
<1>3. CASE UNCHANGED vars
  <2>1. IInv'
    BY <1>3 DEF vars, IInv, TypeOK, Behind, Allowed, UpToLabel
  <2>2. Later
    BY <1>3, InvParts DEF vars, Later
  <2> QED BY <2>1, <2>2
<1> QED BY <1>1, <1>2, <1>3 DEF Next

(* The room's record, every handler's state and every client's snapshot,   *)
(* queue and messages have their types in every reachable state.           *)
THEOREM SyncTyped == Spec => []TypeOK
<1>1. IInv => TypeOK
  BY DEF IInv
<1> QED BY <1>1, InitInv, NextInv, PTL DEF Spec

(* Whatever handlers interleave, get cancelled or lose events, a revision  *)
(* that a client shows, or names in a heartbeat, is one the room has had:  *)
(* consume_ticket may compute its own because it writes before it sends.   *)
THEOREM LabelsNotAhead == Spec => []LabelNeverAhead
<1>1. IInv => LabelNeverAhead
  BY DEF IInv, LabelNeverAhead, Behind
<1> QED BY <1>1, InitInv, NextInv, PTL DEF Spec

(* Events that are late, doubled by a snapshot or from handlers that       *)
(* overlap never take a client back to an older revision, and neither does *)
(* losing its socket.                                                      *)
THEOREM LabelsGrow == Spec => LabelMonotone
<1>1. IInv /\ [Next]_vars => [\A c \in Clients : client'[c].label >= client[c].label]_vars
  BY NextInv DEF Later
<1> QED BY <1>1, InitInv, NextInv, PTL DEF Spec, LabelMonotone

-----------------------------------------------------------------------------
(* If handlers do not overlap, a label tells the truth.  The changes in a  *)
(* part are in the order of their revisions; a message, wherever it is,    *)
(* says what the parts were at its label, or what the write of that        *)
(* revision changed; and the one handler is at the revision it will name.  *)

Ordered(value, top) ==
  \A i \in DOMAIN value : value[i] <= top /\ \A j \in DOMAIN value : i < j => value[i] < value[j]

Touched(value, label) == \E i \in DOMAIN value : value[i] = label

Whole(shown, values, label) == \A p \in Parts : Reflects(shown[p], values[p], label)

Honest(m, values) ==
  /\ m.type = "snapshot" => Whole(m.values, values, m.label)
  /\ m.type = "delta" => \A p \in Parts :
       /\ p \notin m.fields => ~Touched(values[p], m.label)
       /\ p \in m.fields /\ p = "content" =>
            m.values[p] = <<m.label>> /\ Touched(values[p], m.label)
       /\ p \in m.fields /\ p # "content" => Reflects(m.values[p], values[p], m.label)

AllHonest(messages, values) == \A i \in DOMAIN messages : Honest(messages[i], values)

Informed(cl, values) ==
  /\ cl.label > 0 => Whole(cl.values, values, cl.label)
  /\ AllHonest(cl.events, values) /\ AllHonest(cl.wire, values)

LastWrite(fields, d) ==
  \A p \in Parts : IF p \in fields THEN Touched(d.values[p], d.revision)
                                   ELSE ~Touched(d.values[p], d.revision)

Prepared(me, d) ==
  /\ me.pc = "promote" => me.revision = d.revision + 1
  /\ me.pc = "refresh" => me.revision = d.revision /\ LastWrite(me.fields, d)
  /\ me.pc = "bump" => /\ me.revision = d.revision + 1 /\ me.fields = {"sessions"}
                       /\ me.values = d.values
  /\ me.pc = "publish" =>
       /\ Honest(Delta(me.revision, me.fields, me.values), d.values)
       /\ me.opens # {} => Whole(me.values, d.values, me.revision)

Serial == \A g, h \in Handlers : g = h

GInv == /\ IInv
        /\ \A p \in Parts : Ordered(db.values[p], db.revision)
        /\ \A c \in Clients : Informed(client[c], db.values)
        /\ \A h \in Handlers : Prepared(handler[h], db)

(* One part, before and after a write.                                     *)
LEMMA OrderedWhole ==
  ASSUME NEW value \in Seq(Nat), NEW top \in Nat, Ordered(value, top)
  PROVE  Reflects(value, value, top) /\ ~Touched(value, top + 1) /\ Ordered(value, top + 1)
<1>1. \A i \in DOMAIN value : value[i] \in Nat /\ value[i] <= top /\ i <= Len(value)
  BY DEF Ordered
<1> QED BY <1>1 DEF Ordered, Reflects, Touched

LEMMA AppendParts ==
  ASSUME NEW value \in Seq(Nat), NEW w \in Nat
  PROVE  LET longer == Append(value, w) IN
         /\ longer \in Seq(Nat) /\ Len(longer) = Len(value) + 1 /\ Len(value) \in Nat
         /\ DOMAIN value = 1 .. Len(value) /\ DOMAIN longer = 1 .. (Len(value) + 1)
         /\ \A i \in DOMAIN value : longer[i] = value[i] /\ value[i] \in Nat
         /\ longer[Len(value) + 1] = w
OBVIOUS

LEMMA OrderedAppend ==
  ASSUME NEW value \in Seq(Nat), NEW top \in Nat, Ordered(value, top)
  PROVE  Ordered(Append(value, top + 1), top + 1) /\ Touched(Append(value, top + 1), top + 1)
<1> DEFINE longer == Append(value, top + 1)
           n == Len(value)
<1>1. /\ n \in Nat /\ DOMAIN value = 1 .. n /\ DOMAIN longer = 1 .. (n + 1)
      /\ \A i \in DOMAIN value : longer[i] = value[i] /\ value[i] \in Nat
      /\ longer[n + 1] = top + 1
  BY AppendParts
<1> HIDE DEF longer, n
<1>2. \A i \in DOMAIN value : value[i] <= top
  BY DEF Ordered
<1>3. \A i \in DOMAIN longer : i \in DOMAIN value \/ i = n + 1
  BY <1>1
<1>4. \A i \in DOMAIN longer : longer[i] <= top + 1
  BY <1>1, <1>2, <1>3
<1>5. ASSUME NEW i \in DOMAIN longer, NEW j \in DOMAIN longer, i < j
      PROVE  longer[i] < longer[j]
  <2>1. i \in DOMAIN value
    BY <1>1, <1>3, <1>5
  <2>2. CASE j \in DOMAIN value
    BY <1>1, <1>5, <2>1, <2>2 DEF Ordered
  <2>3. CASE j = n + 1
    BY <1>1, <1>2, <2>1, <2>3
  <2> QED BY <1>3, <2>2, <2>3
<1>6. n + 1 \in DOMAIN longer
  BY <1>1
<1>7. Ordered(longer, top + 1)
  BY <1>4, <1>5 DEF Ordered
<1>8. Touched(longer, top + 1)
  BY <1>1, <1>6 DEF Touched
<1> QED BY <1>7, <1>8 DEF longer

LEMMA ReflectsAppend ==
  ASSUME NEW shown \in Seq(Nat), NEW value \in Seq(Nat), NEW label \in Nat, NEW w \in Nat,
         label < w, Reflects(shown, value, label)
  PROVE  Reflects(shown, Append(value, w), label)
<1> DEFINE longer == Append(value, w)
           n == Len(value)
           k == Len(shown)
<1>1. /\ n \in Nat /\ DOMAIN value = 1 .. n /\ DOMAIN longer = 1 .. (n + 1)
      /\ \A i \in DOMAIN value : longer[i] = value[i] /\ value[i] \in Nat
      /\ longer[n + 1] = w /\ Len(longer) = n + 1
  BY AppendParts
<1>2. k \in Nat /\ k <= n
  BY DEF Reflects
<1>3. \A i \in DOMAIN value : IF i <= k THEN shown[i] = value[i] /\ value[i] <= label
                                        ELSE value[i] > label
  BY DEF Reflects
<1> HIDE DEF longer, n, k
<1>4. ASSUME NEW i \in DOMAIN longer
      PROVE  IF i <= k THEN shown[i] = longer[i] /\ longer[i] <= label ELSE longer[i] > label
  <2>1. CASE i \in DOMAIN value
    <3>1. longer[i] = value[i]
      BY <1>1, <2>1
    <3> QED BY <1>3, <2>1, <3>1
  <2>2. CASE i = n + 1
    <3>1. ~(i <= k) /\ longer[i] > label
      BY <1>1, <1>2, <2>2
    <3> QED BY <3>1
  <2>3. i \in DOMAIN value \/ i = n + 1
    BY <1>1
  <2> QED BY <2>1, <2>2, <2>3
<1>5. k <= Len(longer)
  BY <1>1, <1>2
<1>6. Reflects(shown, longer, label)
  BY <1>4, <1>5 DEF Reflects, k
<1> QED BY <1>6 DEF longer

LEMMA TouchedAppend ==
  ASSUME NEW value \in Seq(Nat), NEW label \in Nat, NEW w \in Nat, label < w
  PROVE  Touched(Append(value, w), label) <=> Touched(value, label)
<1> DEFINE longer == Append(value, w)
           n == Len(value)
<1>1. /\ n \in Nat /\ DOMAIN value = 1 .. n /\ DOMAIN longer = 1 .. (n + 1)
      /\ \A i \in DOMAIN value : longer[i] = value[i] /\ value[i] \in Nat
      /\ longer[n + 1] = w
  BY AppendParts
<1> HIDE DEF longer, n
<1>2. Touched(longer, label) <=> Touched(value, label)
  BY <1>1 DEF Touched
<1> QED BY <1>2 DEF longer

(* The next label, with or without a change.                               *)
LEMMA ReflectsNext ==
  ASSUME NEW shown \in Seq(Nat), NEW value \in Seq(Nat), NEW label \in Nat,
         Reflects(shown, value, label), ~Touched(value, label + 1)
  PROVE  Reflects(shown, value, label + 1)
<1>1. Len(shown) \in Nat /\ Len(value) \in Nat /\ DOMAIN value = 1 .. Len(value)
      /\ \A i \in DOMAIN value : value[i] \in Nat /\ value[i] # label + 1
  BY DEF Touched
<1> QED BY <1>1 DEF Reflects

LEMMA ReflectsItem ==
  ASSUME NEW shown \in Seq(Nat), NEW value \in Seq(Nat), NEW label \in Nat, NEW top,
         Ordered(value, top), Reflects(shown, value, label), Touched(value, label + 1)
  PROVE  Reflects(shown \o <<label + 1>>, value, label + 1)
<1> DEFINE k == Len(shown)
           n == Len(value)
           more == shown \o <<label + 1>>
<1>1. /\ k \in Nat /\ n \in Nat /\ DOMAIN value = 1 .. n
      /\ \A i \in DOMAIN value : value[i] \in Nat
      /\ Len(more) = k + 1 /\ more[k + 1] = label + 1
      /\ \A i \in 1 .. k : more[i] = shown[i]
  OBVIOUS
<1>2. k <= n /\ \A i \in DOMAIN value : IF i <= k THEN shown[i] = value[i] /\ value[i] <= label
                                                   ELSE value[i] > label
  BY DEF Reflects
<1>3. \A i, j \in DOMAIN value : i < j => value[i] < value[j]
  BY DEF Ordered
<1>4. PICK x \in DOMAIN value : value[x] = label + 1
  BY DEF Touched
<1> HIDE DEF k, n, more
<1>5. x \in 1 .. n /\ x > k
  BY <1>1, <1>2, <1>4
<1>6. x = k + 1
  <2> SUFFICES ASSUME x # k + 1 PROVE FALSE
    OBVIOUS
  <2>1. k + 1 \in DOMAIN value /\ k + 1 < x
    BY <1>1, <1>5
  <2>2. value[k + 1] < value[x] /\ value[k + 1] \in Nat
    BY <1>1, <1>3, <1>4, <2>1
  <2>3. ~(k + 1 <= k)
    BY <1>1
  <2>4. value[k + 1] > label
    BY <1>2, <2>1, <2>3
  <2> QED BY <1>4, <2>2, <2>4
<1>7. ASSUME NEW i \in DOMAIN value
      PROVE  IF i <= k + 1 THEN more[i] = value[i] /\ value[i] <= label + 1 ELSE value[i] > label + 1
  <2>0. i \in Nat /\ value[i] \in Nat /\ i \in 1 .. n
    BY <1>1
  <2>1. CASE i <= k
    <3>1. i \in 1 .. k /\ value[i] \in Nat /\ shown[i] = value[i] /\ value[i] <= label
      BY <1>1, <1>2, <2>1
    <3> QED BY <1>1, <3>1
  <2>2. CASE i = k + 1
    BY <1>1, <1>4, <1>6, <2>2
  <2>3. CASE i > k + 1
    <3>1. value[x] < value[i]
      BY <1>3, <1>6, <2>3
    <3>2. value[i] > label + 1 /\ ~(i <= k + 1)
      BY <1>1, <1>4, <2>0, <2>3, <3>1
    <3> QED BY <3>2
  <2> QED BY <1>1, <2>0, <2>1, <2>2, <2>3
<1>8. k + 1 <= n
  BY <1>5, <1>6
<1>9. Reflects(more, value, label + 1)
  BY <1>1, <1>7, <1>8 DEF Reflects, n
<1> QED BY <1>9 DEF more

-----------------------------------------------------------------------------
(* Messages, clients and handlers.                                         *)

LEMMA ValueTyped ==
  ASSUME NEW values \in Values, NEW p \in Parts
  PROVE  values[p] \in Seq(Nat)
BY DEF Values

(* The parts after a write.                                                *)
LEMMA ChangedParts ==
  ASSUME GInv, NEW fields \in SUBSET Parts, db' = Changed(fields)
  PROVE  /\ db.revision \in Nat /\ db'.revision = db.revision + 1
         /\ db.values \in Values /\ db'.values \in Values
         /\ \A p \in Parts : db'.values[p] = IF p \in fields
                                              THEN Append(db.values[p], db.revision + 1)
                                              ELSE db.values[p]
<1>1. IInv
  BY DEF GInv
<1>2. db.revision \in Nat /\ db.values \in Values
  BY <1>1, InvParts
<1>3. db'.revision = db.revision + 1 /\ db'.values \in Values
  BY <1>1, Written
<1>4. db'.values = [p \in Parts |-> IF p \in fields THEN Append(db.values[p], db.revision + 1)
                                    ELSE db.values[p]]
  BY DEF Changed
<1> QED BY <1>2, <1>3, <1>4

LEMMA WrittenOrdered ==
  ASSUME GInv, NEW fields \in SUBSET Parts, db' = Changed(fields)
  PROVE  /\ \A p \in Parts : Ordered(db'.values[p], db'.revision)
         /\ LastWrite(fields, db')
<1>1. /\ db.revision \in Nat /\ db'.revision = db.revision + 1
      /\ db.values \in Values
      /\ \A p \in Parts : db'.values[p] = IF p \in fields
                                           THEN Append(db.values[p], db.revision + 1)
                                           ELSE db.values[p]
  BY ChangedParts
<1>2. ASSUME NEW p \in Parts
      PROVE  /\ Ordered(db'.values[p], db'.revision)
             /\ IF p \in fields THEN Touched(db'.values[p], db'.revision)
                               ELSE ~Touched(db'.values[p], db'.revision)
  <2> DEFINE value == db.values[p]
             top   == db.revision
  <2>1. value \in Seq(Nat) /\ top \in Nat /\ Ordered(value, top)
    BY <1>1, ValueTyped DEF GInv
  <2>2. /\ db'.revision = top + 1
        /\ db'.values[p] = IF p \in fields THEN Append(value, top + 1) ELSE value
    BY <1>1
  <2> HIDE DEF value, top
  <2>3. CASE p \in fields
    BY <2>1, <2>2, <2>3, OrderedAppend
  <2>4. CASE p \notin fields
    BY <2>1, <2>2, <2>4, OrderedWhole
  <2> QED BY <2>3, <2>4
<1> QED BY <1>2 DEF LastWrite

(* What was true of a label stays true when the room is written.           *)
LEMMA WholeLater ==
  ASSUME GInv, NEW fields \in SUBSET Parts, db' = Changed(fields),
         NEW shown \in Values, NEW label \in Nat, label <= db.revision,
         Whole(shown, db.values, label)
  PROVE  Whole(shown, db'.values, label)
<1>1. /\ db.revision \in Nat /\ db.values \in Values
      /\ \A p \in Parts : db'.values[p] = IF p \in fields
                                           THEN Append(db.values[p], db.revision + 1)
                                           ELSE db.values[p]
  BY ChangedParts
<1>2. db.revision + 1 \in Nat /\ label < db.revision + 1
  BY <1>1
<1>3. ASSUME NEW p \in Parts PROVE Reflects(shown[p], db'.values[p], label)
  <2>1. db.values[p] \in Seq(Nat) /\ shown[p] \in Seq(Nat) /\ Reflects(shown[p], db.values[p], label)
    BY <1>1, ValueTyped DEF Whole
  <2> QED BY <1>1, <1>2, <2>1, ReflectsAppend
<1> QED BY <1>3 DEF Whole

LEMMA HonestLater ==
  ASSUME GInv, NEW fields \in SUBSET Parts, db' = Changed(fields),
         NEW m \in Message, m.label <= db.revision, Honest(m, db.values)
  PROVE  Honest(m, db'.values)
<1>1. /\ db.revision \in Nat /\ db.values \in Values
      /\ \A p \in Parts : db'.values[p] = IF p \in fields
                                           THEN Append(db.values[p], db.revision + 1)
                                           ELSE db.values[p]
  BY ChangedParts
<1>2. m.label \in Nat /\ m.values \in Values
  BY DEF Message
<1>3. db.revision + 1 \in Nat /\ m.label < db.revision + 1
  BY <1>1, <1>2
<1>4. m.type = "snapshot" => Whole(m.values, db'.values, m.label)
  BY <1>2, WholeLater DEF Honest
<1>5. ASSUME NEW p \in Parts
      PROVE  /\ Touched(db'.values[p], m.label) <=> Touched(db.values[p], m.label)
             /\ Reflects(m.values[p], db.values[p], m.label) =>
                  Reflects(m.values[p], db'.values[p], m.label)
  <2> DEFINE value == db.values[p]
             shown == m.values[p]
             label == m.label
             w     == db.revision + 1
  <2>1. value \in Seq(Nat) /\ shown \in Seq(Nat) /\ label \in Nat /\ w \in Nat /\ label < w
    BY <1>1, <1>2, <1>3, ValueTyped
  <2>2. db'.values[p] = IF p \in fields THEN Append(value, w) ELSE value
    BY <1>1
  <2> HIDE DEF value, shown, label, w
  <2>3. /\ Touched(Append(value, w), label) <=> Touched(value, label)
        /\ Reflects(shown, value, label) => Reflects(shown, Append(value, w), label)
    BY <2>1, ReflectsAppend, TouchedAppend
  <2>4. /\ Touched(db'.values[p], label) <=> Touched(value, label)
        /\ Reflects(shown, value, label) => Reflects(shown, db'.values[p], label)
    BY <2>2, <2>3
  <2> QED BY <2>4 DEF value, shown, label
<1> QED BY <1>4, <1>5 DEF Honest

LEMMA AllHonestLater ==
  ASSUME GInv, NEW fields \in SUBSET Parts, db' = Changed(fields),
         NEW s \in Seq(Message), UpToLabel(s, db.revision), AllHonest(s, db.values)
  PROVE  AllHonest(s, db'.values)
<1> SUFFICES ASSUME NEW i \in DOMAIN s PROVE Honest(s[i], db'.values)
  BY DEF AllHonest
<1>1. s[i] \in Message /\ s[i].label <= db.revision /\ Honest(s[i], db.values)
  BY DEF UpToLabel, AllHonest
<1> QED BY <1>1, HonestLater

LEMMA InformedLater ==
  ASSUME GInv, NEW fields \in SUBSET Parts, db' = Changed(fields), NEW c \in Clients
  PROVE  Informed(client[c], db'.values)
<1> DEFINE cl == client[c]
<1>1. cl \in Client /\ Behind(cl, db.revision) /\ Informed(cl, db.values)
  BY InvParts DEF GInv
<1>2. /\ cl.label \in Nat /\ cl.label <= db.revision /\ cl.values \in Values
      /\ cl.events \in Seq(Message) /\ UpToLabel(cl.events, db.revision)
      /\ cl.wire \in Seq(Message) /\ UpToLabel(cl.wire, db.revision)
  BY <1>1, ClientParts
<1> HIDE DEF cl
<1>3. cl.label > 0 => Whole(cl.values, db'.values, cl.label)
  BY <1>1, <1>2, WholeLater DEF Informed
<1>4. AllHonest(cl.events, db'.values) /\ AllHonest(cl.wire, db'.values)
  BY <1>1, <1>2, AllHonestLater DEF Informed
<1>5. Informed(cl, db'.values)
  BY <1>3, <1>4 DEF Informed
<1> QED BY <1>5 DEF cl

(* A write by the only handler: me is what it becomes.                     *)
LEMMA WriteKeeps ==
  ASSUME Serial, GInv, IInv', NEW h \in Handlers, NEW fields \in SUBSET Parts,
         db' = Changed(fields), client' = client,
         NEW me, HandlerSet(h, me), Prepared(me, db')
  PROVE  GInv'
<1>1. \A g \in Handlers : handler'[g] = me
  BY InvParts DEF GInv, HandlerSet, Serial
<1>2. \A p \in Parts : Ordered(db'.values[p], db'.revision)
  BY WrittenOrdered
<1>3. \A c \in Clients : Informed(client'[c], db'.values)
  BY InformedLater
<1> QED BY <1>1, <1>2, <1>3 DEF GInv

LEMMA HandlerKeeps ==
  ASSUME Serial, GInv, IInv', NEW h \in Handlers, UNCHANGED <<db, client>>,
         NEW me, HandlerSet(h, me), Prepared(me, db)
  PROVE  GInv'
<1>1. \A g \in Handlers : handler'[g] = me
  BY InvParts DEF GInv, HandlerSet, Serial
<1> QED BY <1>1 DEF GInv

LEMMA ClientKeeps ==
  ASSUME GInv, IInv', UNCHANGED <<db, handler>>, NEW c \in Clients, NEW cl, ClientSet(c, cl),
         Informed(cl, db.values)
  PROVE  GInv'
<1>1. \A d \in Clients : client'[d] = cl \/ client'[d] = client[d]
  BY InvParts DEF GInv, ClientSet
<1> QED BY <1>1 DEF GInv

LEMMA IdlePrepared == ASSUME NEW d PROVE Prepared(Idle, d)
BY DEF Idle, Prepared

-----------------------------------------------------------------------------
(* The handler's steps.                                                    *)

InOrder(d) == /\ d.revision \in Nat /\ d.values \in Values
              /\ \A p \in Parts : Ordered(d.values[p], d.revision)

LEMMA DbInOrder == GInv => InOrder(db)
BY InvParts DEF GInv, InOrder

LEMMA CurrentWhole ==
  ASSUME NEW d, InOrder(d)
  PROVE  Whole(d.values, d.values, d.revision)
BY ValueTyped, OrderedWhole DEF InOrder, Whole

(* The event of the last write, made from the room as it is.               *)
LEMMA EventHonest ==
  ASSUME NEW d, InOrder(d), NEW fields \in SUBSET Parts, LastWrite(fields, d), NEW values,
         \A p \in fields : values[p] = IF p = "content" THEN <<d.revision>> ELSE d.values[p]
  PROVE  Honest(Delta(d.revision, fields, values), d.values)
<1> DEFINE m == Delta(d.revision, fields, values)
<1>1. /\ m.type = "delta" /\ m.label = d.revision /\ m.fields = fields
      /\ \A p \in fields : m.values[p] = values[p]
  BY DEF Delta
<1> HIDE DEF m
<1>2. \A p \in Parts : Reflects(d.values[p], d.values[p], d.revision)
  BY CurrentWhole DEF Whole
<1>3. Honest(m, d.values)
  BY <1>1, <1>2 DEF Honest, LastWrite
<1> QED BY <1>3 DEF m

LEMMA WriteSharedKeeps ==
  ASSUME Serial, GInv, IInv', NEW h \in Handlers, WriteShared(h)
  PROVE  GInv'
<1> DEFINE values == Carried({"shared"}, db'.revision, db'.values)
           me == [Idle EXCEPT !.pc = "publish", !.fields = {"shared"}, !.revision = db'.revision,
                              !.exact = TRUE, !.values = values]
<1>1. db' = Changed({"shared"}) /\ client' = client /\ HandlerSet(h, me)
  BY DEF WriteShared, Become, HandlerSet
<1>2. {"shared"} \in SUBSET Parts
  BY DEF Parts
<1>3. InOrder(db') /\ LastWrite({"shared"}, db')
  BY <1>1, <1>2, ChangedParts, WrittenOrdered DEF InOrder
<1>4. \A p \in {"shared"} : values[p] = IF p = "content" THEN <<db'.revision>> ELSE db'.values[p]
  BY DEF Carried, Parts
<1>5. /\ me.pc = "publish" /\ me.fields = {"shared"} /\ me.revision = db'.revision
      /\ me.values = values /\ me.opens = {}
  BY DEF Idle
<1> HIDE DEF me, values
<1>6. Honest(Delta(db'.revision, {"shared"}, values), db'.values)
  BY <1>2, <1>3, <1>4, EventHonest
<1>7. Prepared(me, db')
  BY <1>5, <1>6 DEF Prepared
<1> QED BY <1>1, <1>2, <1>7, WriteKeeps

LEMMA WriteThenRefreshKeeps ==
  ASSUME Serial, GInv, IInv', NEW h \in Handlers, WriteThenRefresh(h)
  PROVE  GInv'
<1>1. PICK fields \in {{"queue"}, {"queue", "content"}, {"sessions"}} :
        db' = Changed(fields) /\ Become(h, "refresh", fields, db'.revision, FALSE, Nothing)
  BY DEF WriteThenRefresh
<1> DEFINE me == [Idle EXCEPT !.pc = "refresh", !.fields = fields, !.revision = db'.revision,
                              !.exact = FALSE, !.values = Nothing]
<1>2. fields \in SUBSET Parts /\ client' = client /\ HandlerSet(h, me)
  BY <1>1 DEF WriteThenRefresh, Parts, Become, HandlerSet
<1>3. me.pc = "refresh" /\ me.fields = fields /\ me.revision = db'.revision
  BY DEF Idle
<1> HIDE DEF me
<1>4. LastWrite(fields, db')
  BY <1>1, <1>2, WrittenOrdered
<1>5. Prepared(me, db')
  BY <1>3, <1>4 DEF Prepared
<1> QED BY <1>1, <1>2, <1>5, WriteKeeps

LEMMA PromoteKeeps ==
  ASSUME Serial, GInv, IInv', NEW h \in Handlers, PromoteLoad(h) \/ PromoteCommit(h)
  PROVE  GInv'
<1>1. CASE PromoteLoad(h)
  <2> DEFINE me == [Idle EXCEPT !.pc = "promote", !.fields = {"queue", "shared"},
                                !.revision = db.revision + 1, !.exact = TRUE, !.values = Nothing]
  <2>1. HandlerSet(h, me) /\ UNCHANGED <<db, client>>
    BY <1>1 DEF PromoteLoad, Become, HandlerSet
  <2>2. me.pc = "promote" /\ me.revision = db.revision + 1
    BY DEF Idle
  <2> HIDE DEF me
  <2>3. Prepared(me, db)
    BY <2>2 DEF Prepared
  <2> QED BY <2>1, <2>3, HandlerKeeps
<1>2. CASE PromoteCommit(h)
  <2> DEFINE old == handler[h]
             me  == [old EXCEPT !.pc = "refresh"]
  <2>1. old \in Handler /\ Prepared(old, db) /\ old.pc = "promote"
    BY <1>2, InvParts DEF GInv, PromoteCommit
  <2>2. HandlerSet(h, me)
    BY <1>2, InvParts DEF GInv, PromoteCommit, HandlerSet
  <2>3. me.pc = "refresh" /\ me.fields = old.fields /\ me.revision = old.revision
    BY <2>1 DEF Handler
  <2>4. old.fields \in SUBSET Parts
    BY <2>1, HandlerParts
  <2>5. db' = Changed(old.fields) /\ client' = client
    BY <1>2, <2>1 DEF Prepared, PromoteCommit
  <2>6. old.revision = db'.revision
    BY <2>1, <2>4, <2>5, ChangedParts DEF Prepared
  <2> HIDE DEF old, me
  <2>7. LastWrite(old.fields, db')
    BY <2>4, <2>5, WrittenOrdered
  <2>8. Prepared(me, db')
    BY <2>3, <2>6, <2>7 DEF Prepared
  <2> QED BY <2>2, <2>4, <2>5, <2>8, WriteKeeps
<1> QED BY <1>1, <1>2

LEMMA RefreshKeeps ==
  ASSUME Serial, GInv, IInv', NEW h \in Handlers, Refresh(h)
  PROVE  GInv'
<1>1. UNCHANGED <<db, client>>
  BY DEF Refresh
<1>2. CASE handler' = [handler EXCEPT ![h] = Idle]
  BY <1>1, <1>2, IdlePrepared, HandlerKeeps DEF HandlerSet
<1> DEFINE old    == handler[h]
           values == Carried(old.fields, old.revision, db.values)
           me     == [Idle EXCEPT !.pc = "publish", !.fields = old.fields,
                        !.revision = db.revision, !.exact = old.exact, !.values = values]
<1>3. CASE Become(h, "publish", old.fields, db.revision, old.exact, values)
  <2>1. old \in Handler /\ Prepared(old, db) /\ old.pc = "refresh"
    BY InvParts DEF GInv, Refresh
  <2>2. old.fields \in SUBSET Parts /\ old.revision = db.revision /\ LastWrite(old.fields, db)
    BY <2>1, HandlerParts DEF Prepared
  <2>3. HandlerSet(h, me)
    BY <1>3 DEF Become, HandlerSet
  <2>4. /\ me.pc = "publish" /\ me.fields = old.fields /\ me.revision = db.revision
        /\ me.values = values /\ me.opens = {}
    BY DEF Idle
  <2>5. \A p \in old.fields : values[p] = IF p = "content" THEN <<db.revision>> ELSE db.values[p]
    BY <2>2 DEF Carried
  <2> HIDE DEF me, values, old
  <2>6. Honest(Delta(db.revision, old.fields, values), db.values)
    BY <2>2, <2>5, DbInOrder, EventHonest
  <2>7. Prepared(me, db)
    BY <2>4, <2>6 DEF Prepared
  <2> QED BY <1>1, <2>3, <2>7, HandlerKeeps
<1> QED BY <1>2, <1>3 DEF Refresh

LEMMA MarkConnectedKeeps ==
  ASSUME Serial, GInv, IInv', NEW h \in Handlers, MarkConnected(h)
  PROVE  GInv'
<1> DEFINE old == handler[h]
           v   == [old.values EXCEPT !["sessions"] = Append(@, db'.revision)]
           me  == [old EXCEPT !.pc = "publish", !.values = v]
<1>1. old \in Handler /\ Prepared(old, db) /\ old.pc = "bump"
  BY InvParts DEF GInv, MarkConnected
<1>2. db' = Changed({"sessions"}) /\ client' = client /\ {"sessions"} \in SUBSET Parts
  BY DEF MarkConnected, Parts
<1>3. HandlerSet(h, me)
  BY InvParts DEF GInv, MarkConnected, Handler, HandlerSet
<1>4. old.revision = db'.revision /\ old.fields = {"sessions"} /\ old.values = db.values
  BY <1>1, <1>2, ChangedParts DEF Prepared
<1>5. v = db'.values
  <2>1. /\ db.values \in Values /\ db'.values \in Values /\ db'.revision = db.revision + 1
        /\ \A p \in Parts : db'.values[p] = IF p = "sessions"
                                             THEN Append(db.values[p], db.revision + 1)
                                             ELSE db.values[p]
    BY <1>2, ChangedParts
  <2>2. "sessions" \in Parts
    BY DEF Parts
  <2> QED BY <1>4, <2>1, <2>2 DEF Values
<1>6. /\ me.pc = "publish" /\ me.fields = {"sessions"} /\ me.revision = db'.revision
      /\ me.values = v
  BY <1>1, <1>4 DEF Handler
<1> HIDE DEF v, me, old
<1>7. InOrder(db') /\ LastWrite({"sessions"}, db')
  BY <1>2, ChangedParts, WrittenOrdered DEF InOrder
<1>8. \A p \in {"sessions"} : v[p] = IF p = "content" THEN <<db'.revision>> ELSE db'.values[p]
  BY <1>5
<1>9. Honest(Delta(db'.revision, {"sessions"}, v), db'.values)
  BY <1>2, <1>7, <1>8, EventHonest
<1>10. Whole(v, db'.values, db'.revision)
  BY <1>5, <1>7, CurrentWhole
<1>11. Prepared(me, db')
  BY <1>6, <1>9, <1>10 DEF Prepared
<1> QED BY <1>2, <1>3, <1>11, WriteKeeps

LEMMA BothKeep ==
  ASSUME Serial, GInv, IInv', NEW h \in Handlers, db' = db,
         NEW me, HandlerSet(h, me), Prepared(me, db),
         \A c \in Clients : Informed(client'[c], db.values)
  PROVE  GInv'
<1>1. \A g \in Handlers : handler'[g] = me
  BY InvParts DEF GInv, HandlerSet, Serial
<1> QED BY <1>1 DEF GInv

LEMMA ConsumeTicketKeeps ==
  ASSUME Serial, GInv, IInv', NEW h \in Handlers, NEW c \in Clients, ConsumeTicket(h, c)
  PROVE  GInv'
<1> DEFINE me == [Idle EXCEPT !.pc = "bump", !.fields = {"sessions"},
                              !.revision = db.revision + 1, !.values = db.values, !.opens = {c}]
           cl == [client[c] EXCEPT !.pc = "opening"]
<1>1. /\ me.pc = "bump" /\ me.fields = {"sessions"} /\ me.revision = db.revision + 1
      /\ me.values = db.values
  BY DEF Idle
<1>2. HandlerSet(h, me) /\ client' = [client EXCEPT ![c] = cl] /\ db' = db
  BY InvParts DEF GInv, ConsumeTicket, HandlerSet
<1> HIDE DEF me
<1>3. Prepared(me, db)
  BY <1>1 DEF Prepared
<1>4. client[c] \in Client /\ Informed(client[c], db.values)
  BY InvParts DEF GInv
<1>5. Informed(cl, db.values)
  BY <1>4 DEF Informed, Client
<1> HIDE DEF cl
<1>6. \A d \in Clients : Informed(client'[d], db.values)
  BY <1>2, <1>5, InvParts DEF GInv
<1> QED BY <1>2, <1>3, <1>6, BothKeep

LEMMA AppendHonest ==
  ASSUME NEW s \in Seq(Message), NEW m, NEW values, AllHonest(s, values), Honest(m, values)
  PROVE  AllHonest(Append(s, m), values)
<1> SUFFICES ASSUME NEW i \in DOMAIN Append(s, m) PROVE Honest(Append(s, m)[i], values)
  BY DEF AllHonest
<1>1. \/ i \in DOMAIN s /\ Append(s, m)[i] = s[i]
      \/ Append(s, m)[i] = m
  OBVIOUS
<1> QED BY <1>1 DEF AllHonest

LEMMA TailHonest ==
  ASSUME NEW s \in Seq(Message), s # <<>>, NEW values, AllHonest(s, values)
  PROVE  Tail(s) \in Seq(Message) /\ AllHonest(Tail(s), values) /\ Honest(Head(s), values)
<1>1. Len(s) \in Nat /\ Len(s) > 0 /\ DOMAIN s = 1..Len(s)
  BY EmptySeq
<1>2. Tail(s) \in Seq(Message) /\ Len(Tail(s)) = Len(s) - 1 /\ Head(s) = s[1]
      /\ \A i \in 1..(Len(s) - 1) : Tail(s)[i] = s[i + 1]
  BY <1>1
<1>3. DOMAIN Tail(s) = 1..(Len(s) - 1)
  BY <1>2
<1> QED BY <1>1, <1>2, <1>3 DEF AllHonest

LEMMA DeliveredInformed ==
  ASSUME NEW cl \in Client, NEW values, Informed(cl, values), NEW m, Honest(m, values)
  PROVE  LET n == Delivered(cl, m) IN
         /\ AllHonest(n.events, values) /\ n.wire = cl.wire
         /\ n.label = cl.label /\ n.values = cl.values
         /\ DOMAIN n = DOMAIN cl
<1>1. cl.events \in Seq(Message) /\ AllHonest(cl.events, values)
  BY DEF Client, Informed
<1>2. CASE cl.pc = "down"
  BY <1>1, <1>2 DEF Delivered
<1>3. CASE cl.pc # "down" /\ Len(cl.events) < Capacity
  <2>1. Delivered(cl, m) = [cl EXCEPT !.events = Append(cl.events, m)]
    BY <1>3 DEF Delivered
  <2> QED BY <1>1, <2>1, AppendHonest DEF Client
<1>4. CASE cl.pc # "down" /\ ~(Len(cl.events) < Capacity)
  <2>1. cl.events # <<>>
    BY <1>1, <1>4, SyncAssumption
  <2>2. AllHonest(Append(Tail(cl.events), m), values)
    BY <1>1, <2>1, TailHonest, AppendHonest
  <2>3. Delivered(cl, m) = [cl EXCEPT !.events = Append(Tail(cl.events), m), !.lagged = TRUE]
    BY <1>4 DEF Delivered
  <2> QED BY <2>2, <2>3 DEF Client
<1> QED BY <1>2, <1>3, <1>4

LEMMA PublishKeeps ==
  ASSUME Serial, GInv, IInv', NEW h \in Handlers, Publish(h)
  PROVE  GInv'
<1> DEFINE me   == handler[h]
           m    == Delta(me.revision, me.fields, me.values)
           snap == Snapshot(me.revision, me.values)
           open(cl) == [cl EXCEPT !.pc = "up", !.wire = <<snap>>]
<1>1. Honest(m, db.values) /\ (me.opens # {} => Whole(me.values, db.values, me.revision))
  BY DEF GInv, Publish, Prepared
<1>2. /\ client' = [c \in Clients |-> IF c \in me.opens THEN open(Delivered(client[c], m))
                                      ELSE Delivered(client[c], m)]
      /\ HandlerSet(h, Idle) /\ db' = db
  BY DEF Publish, HandlerSet
<1>3. me.opens # {} => Honest(snap, db.values)
  BY <1>1 DEF Snapshot, Honest
<1> HIDE DEF me, m, snap
<1>4. ASSUME NEW c \in Clients PROVE Informed(client'[c], db.values)
  <2> DEFINE cl == Delivered(client[c], m)
  <2>1. client[c] \in Client /\ Informed(client[c], db.values)
    BY InvParts DEF GInv
  <2>2. /\ AllHonest(cl.events, db.values) /\ cl.wire = client[c].wire
        /\ cl.label = client[c].label /\ cl.values = client[c].values
        /\ DOMAIN cl = DOMAIN client[c]
    BY <1>1, <2>1, DeliveredInformed
  <2>3. client'[c] = IF c \in me.opens THEN open(cl) ELSE cl
    BY <1>2
  <2>4. DOMAIN client[c] = {"pc", "label", "values", "events", "lagged", "wire", "asks"}
    BY <2>1 DEF Client
  <2> HIDE DEF cl
  <2>5. Informed(cl, db.values)
    BY <2>1, <2>2 DEF Informed
  <2>6. CASE c \in me.opens
    <3> DEFINE n == open(cl)
    <3>1. n.events = cl.events /\ n.wire = <<snap>> /\ n.label = cl.label /\ n.values = cl.values
      BY <2>2, <2>4
    <3> HIDE DEF n
    <3>2. AllHonest(<<snap>>, db.values)
      BY <1>3, <2>6 DEF AllHonest
    <3>3. Informed(n, db.values)
      BY <2>5, <3>1, <3>2 DEF Informed
    <3> QED BY <2>3, <2>6, <3>3 DEF n
  <2> QED BY <2>3, <2>5, <2>6
<1> QED BY <1>2, <1>4, IdlePrepared, BothKeep

LEMMA CancelKeeps ==
  ASSUME Serial, GInv, IInv', NEW h \in Handlers, Cancel(h)
  PROVE  GInv'
<1> DEFINE closed(cl) == [cl EXCEPT !.pc = "down", !.events = <<>>, !.lagged = FALSE]
<1>1. /\ client' = [c \in Clients |-> IF c \in handler[h].opens THEN closed(client[c])
                                      ELSE client[c]]
      /\ HandlerSet(h, Idle) /\ db' = db
  BY DEF Cancel, HandlerSet
<1>2. ASSUME NEW c \in Clients PROVE Informed(client'[c], db.values)
  <2>1. client[c] \in Client /\ Informed(client[c], db.values)
    BY InvParts DEF GInv
  <2>2. Informed(closed(client[c]), db.values)
    BY <2>1 DEF Informed, AllHonest, Client
  <2> QED BY <1>1, <2>1, <2>2
<1> QED BY <1>1, <1>2, IdlePrepared, BothKeep

-----------------------------------------------------------------------------
(* The client's steps.                                                     *)

LEMMA SnapshotHonest == GInv => Honest(Snapshot(db.revision, db.values), db.values)
BY DbInOrder, CurrentWhole DEF Snapshot, Honest

LEMMA ForwardKeeps ==
  ASSUME GInv, IInv', NEW c \in Clients, Forward(c)
  PROVE  GInv'
<1> DEFINE old == client[c]
<1>1. old \in Client /\ Informed(old, db.values)
  BY InvParts DEF GInv
<1>2. /\ UNCHANGED <<db, handler>> /\ client \in [Clients -> Client]
      /\ old.events \in Seq(Message) /\ old.wire \in Seq(Message)
  BY <1>1, InvParts DEF GInv, Forward, Client
<1>3. CASE client' = [client EXCEPT ![c].lagged = FALSE,
                        ![c].wire = Append(@, Snapshot(db.revision, db.values))]
  <2> DEFINE wire == Append(old.wire, Snapshot(db.revision, db.values))
             n    == [old EXCEPT !.lagged = FALSE, !.wire = wire]
  <2>1. AllHonest(wire, db.values)
    BY <1>1, <1>2, SnapshotHonest, AppendHonest DEF Informed
  <2>2. ClientSet(c, n)
    BY <1>2, <1>3 DEF ClientSet, Client
  <2> HIDE DEF wire
  <2>3. Informed(n, db.values)
    BY <1>1, <2>1 DEF Informed, Client
  <2> HIDE DEF n
  <2> QED BY <1>2, <2>2, <2>3, ClientKeeps
<1>4. CASE /\ client[c].events # <<>>
           /\ client' = [client EXCEPT ![c].events = Tail(@),
                           ![c].wire = Append(@, Head(client[c].events))]
  <2> DEFINE rest == Tail(old.events)
             wire == Append(old.wire, Head(old.events))
             n    == [old EXCEPT !.events = rest, !.wire = wire]
  <2>1. AllHonest(rest, db.values) /\ AllHonest(wire, db.values)
    BY <1>1, <1>2, <1>4, TailHonest, AppendHonest DEF Informed
  <2>2. ClientSet(c, n)
    BY <1>2, <1>4 DEF ClientSet, Client
  <2> HIDE DEF rest, wire
  <2>3. Informed(n, db.values)
    BY <1>1, <2>1 DEF Informed, Client
  <2> HIDE DEF n
  <2> QED BY <1>2, <2>2, <2>3, ClientKeeps
<1> QED BY <1>3, <1>4 DEF Forward

LEMMA AnswerKeeps ==
  ASSUME GInv, IInv', NEW c \in Clients, Answer(c)
  PROVE  GInv'
<1> DEFINE old  == client[c]
           asks == Tail(old.asks)
           m    == IF Head(old.asks) = db.revision THEN RevisionOnly(db.revision)
                                                   ELSE Snapshot(db.revision, db.values)
           wire == Append(old.wire, m)
           n    == [old EXCEPT !.asks = asks, !.wire = wire]
<1>1. old \in Client /\ Informed(old, db.values) /\ old.wire \in Seq(Message)
      /\ client \in [Clients -> Client]
  BY InvParts DEF GInv, Client
<1>2. UNCHANGED <<db, handler>> /\ ClientSet(c, n)
  BY <1>1 DEF Answer, ClientSet, Client
<1>3. Honest(m, db.values)
  <2>1. Honest(RevisionOnly(db.revision), db.values)
    BY DEF RevisionOnly, Honest
  <2> QED BY <2>1, SnapshotHonest
<1> HIDE DEF m, asks
<1>4. AllHonest(wire, db.values)
  BY <1>1, <1>3, AppendHonest DEF Informed
<1> HIDE DEF wire
<1>5. Informed(n, db.values)
  BY <1>1, <1>4 DEF Informed, Client
<1> HIDE DEF n
<1> QED BY <1>2, <1>5, ClientKeeps

(* What the client makes of an honest message.                             *)
LEMMA PatchWhole ==
  ASSUME GInv, NEW cl \in Client, NEW m \in Message, Honest(m, db.values),
         Whole(cl.values, db.values, cl.label), m.type = "delta", m.label = cl.label + 1
  PROVE  Whole(Patch(cl, m).values, db.values, m.label)
<1> DEFINE v == [p \in Parts |-> IF p \notin m.fields THEN cl.values[p]
                                 ELSE IF p = "content" THEN cl.values[p] \o m.values[p]
                                 ELSE m.values[p]]
<1>1. /\ cl.label \in Nat /\ cl.values \in Values /\ m.values \in Values
      /\ InOrder(db)
  BY DbInOrder DEF Client, Message
<1>2. Patch(cl, m).values = v
  BY DEF Patch, Client
<1>3. ASSUME NEW p \in Parts PROVE Reflects(v[p], db.values[p], m.label)
  <2> DEFINE value == db.values[p]
             shown == cl.values[p]
             label == cl.label
  <2>1. /\ value \in Seq(Nat) /\ shown \in Seq(Nat) /\ label \in Nat
        /\ Ordered(value, db.revision) /\ Reflects(shown, value, label)
    BY <1>1, ValueTyped DEF InOrder, Whole
  <2>2. CASE p \notin m.fields
    <3>1. v[p] = shown /\ ~Touched(value, label + 1)
      BY <2>2 DEF Honest
    <3> HIDE DEF value, shown, label, v
    <3>2. Reflects(shown, value, label + 1)
      BY <2>1, <3>1, ReflectsNext
    <3> QED BY <3>1, <3>2 DEF value, label
  <2>3. CASE p \in m.fields /\ p = "content"
    <3>1. v[p] = shown \o <<label + 1>> /\ Touched(value, label + 1)
      BY <2>3 DEF Honest
    <3> HIDE DEF value, shown, label, v
    <3>2. Reflects(shown \o <<label + 1>>, value, label + 1)
      BY <2>1, <3>1, ReflectsItem
    <3> QED BY <3>1, <3>2 DEF value, label
  <2>4. CASE p \in m.fields /\ p # "content"
    BY <2>4 DEF Honest
  <2> QED BY <2>2, <2>3, <2>4
<1> QED BY <1>2, <1>3 DEF Whole

LEMMA ReceiveKeeps ==
  ASSUME GInv, IInv', NEW c \in Clients, Receive(c)
  PROVE  GInv'
<1> DEFINE old  == client[c]
           m    == Head(old.wire)
           rest == Tail(old.wire)
           read == [old EXCEPT !.wire = rest]
           n    == applyRoomServerMessage(read, m)
<1>1. old \in Client /\ Informed(old, db.values) /\ old.wire \in Seq(Message) /\ old.wire # <<>>
  BY InvParts DEF GInv, Client, Receive
<1>2. UNCHANGED <<db, handler>> /\ ClientSet(c, n)
  BY DEF Receive, ClientSet
<1>3. /\ rest \in Seq(Message) /\ AllHonest(rest, db.values)
      /\ m \in Message /\ Honest(m, db.values)
  BY <1>1, TailHonest, EmptySeq DEF Informed
<1> HIDE DEF m, rest
<1>4. read \in Client /\ Informed(read, db.values)
  BY <1>1, <1>3 DEF Informed, Client
<1> HIDE DEF read
<1>5. \/ n = read
      \/ n = Ask(read)
      \/ n = Replace(read, m) /\ m.type = "snapshot"
      \/ n = Patch(read, m) /\ m.type = "delta" /\ read.label > 0 /\ m.label = read.label + 1
  BY <1>3, <1>4, ApplyCases
<1> HIDE DEF n
<1>6. ASSUME n = Ask(read)
     PROVE  Informed(n, db.values)
  BY <1>4, <1>6 DEF Ask, Informed, Client
<1>7. ASSUME n = Replace(read, m) /\ m.type = "snapshot"
     PROVE  Informed(n, db.values)
  <2>1. /\ n.label = m.label /\ n.values = m.values
        /\ n.events = read.events /\ n.wire = read.wire
    BY <1>4, <1>7 DEF Replace, Client
  <2>2. Whole(m.values, db.values, m.label)
    BY <1>3, <1>7 DEF Honest
  <2> QED BY <1>4, <2>1, <2>2 DEF Informed
<1>8. ASSUME n = Patch(read, m) /\ m.type = "delta" /\ read.label > 0 /\ m.label = read.label + 1
     PROVE  Informed(n, db.values)
  <2>1. n.label = m.label /\ n.events = read.events /\ n.wire = read.wire
    BY <1>3, <1>4, <1>8, PatchTyped
  <2>2. Whole(read.values, db.values, read.label)
    BY <1>4, <1>8 DEF Informed
  <2>3. Whole(n.values, db.values, m.label)
    BY <1>3, <1>4, <1>8, <2>2, PatchWhole
  <2> QED BY <1>4, <2>1, <2>3 DEF Informed
<1>9. Informed(n, db.values)
  BY <1>4, <1>5, <1>6, <1>7, <1>8
<1> QED BY <1>2, <1>9, ClientKeeps

LEMMA HeartbeatKeeps ==
  ASSUME GInv, IInv', NEW c \in Clients, Heartbeat(c) \/ HangUp(c)
  PROVE  GInv'
<1> DEFINE old == client[c]
<1>1. old \in Client /\ Informed(old, db.values) /\ client \in [Clients -> Client]
  BY InvParts DEF GInv
<1>2. CASE Heartbeat(c)
  <2> DEFINE n == [old EXCEPT !.asks = <<old.label>>]
  <2>1. UNCHANGED <<db, handler>> /\ ClientSet(c, n)
    BY <1>1, <1>2 DEF Heartbeat, ClientSet
  <2>2. Informed(n, db.values)
    BY <1>1 DEF Informed, Client
  <2> HIDE DEF n
  <2> QED BY <2>1, <2>2, ClientKeeps
<1>3. CASE HangUp(c)
  <2> DEFINE n == [Down EXCEPT !.label = old.label, !.values = old.values]
  <2>1. UNCHANGED <<db, handler>> /\ ClientSet(c, n)
    BY <1>1, <1>3 DEF HangUp, ClientSet
  <2>2. n.label = old.label /\ n.values = old.values /\ n.events = <<>> /\ n.wire = <<>>
    BY DEF Down
  <2> HIDE DEF n
  <2>3. Informed(n, db.values)
    BY <1>1, <2>2 DEF Informed, AllHonest
  <2> QED BY <2>1, <2>3, ClientKeeps
<1> QED BY <1>2, <1>3

-----------------------------------------------------------------------------
LEMMA InitGInv == Init => GInv
<1> SUFFICES ASSUME Init PROVE GInv
  OBVIOUS
<1>1. IInv
  BY InitInv
<1>2. \A p \in Parts : Ordered(db.values[p], db.revision)
  BY DEF Init, Nothing, Ordered
<1>3. \A c \in Clients : Informed(client[c], db.values)
  BY DEF Init, Down, Informed, AllHonest
<1>4. \A h \in Handlers : Prepared(handler[h], db)
  BY IdlePrepared DEF Init
<1> QED BY <1>1, <1>2, <1>3, <1>4 DEF GInv

LEMMA NextGInv == Serial => (GInv /\ [Next]_vars => GInv')
<1> SUFFICES ASSUME Serial, GInv, [Next]_vars PROVE GInv'
  OBVIOUS
<1>1. IInv'
  BY NextInv DEF GInv
<1>2. ASSUME NEW h \in Handlers,
             \/ WriteShared(h) \/ WriteThenRefresh(h) \/ PromoteLoad(h)
             \/ \E c \in Clients : ConsumeTicket(h, c)
             \/ HandlerStep(h) \/ Cancel(h)
      PROVE  GInv'
  BY <1>1, <1>2, WriteSharedKeeps, WriteThenRefreshKeeps, PromoteKeeps, ConsumeTicketKeeps,
     RefreshKeeps, MarkConnectedKeeps, PublishKeeps, CancelKeeps DEF HandlerStep
<1>3. ASSUME NEW c \in Clients,
             Forward(c) \/ Answer(c) \/ Receive(c) \/ Heartbeat(c) \/ HangUp(c)
      PROVE  GInv'
  BY <1>1, <1>3, ForwardKeeps, AnswerKeeps, ReceiveKeeps, HeartbeatKeeps
<1>4. CASE UNCHANGED vars
  BY <1>1, <1>4 DEF vars, GInv
<1> QED BY <1>2, <1>3, <1>4 DEF Next

(* If handlers do not overlap, what a client shows under a label is what   *)
(* the room was at that revision, whatever events were lost and however    *)
(* often the client was cut off: an event is applied only on top of the    *)
(* revision before its own, and then it carries all that its write changed. *)
THEOREM LabelsAreTrue ==
  ASSUME \A g, h \in Handlers : g = h
  PROVE  Spec => []LabelFaithful
<1>1. GInv /\ [Next]_vars => GInv'
  BY NextGInv DEF Serial
<1>2. GInv => LabelFaithful
  BY DEF GInv, Informed, Whole, LabelFaithful
<1> QED BY <1>1, <1>2, InitGInv, PTL DEF Spec

-----------------------------------------------------------------------------
(* What converging comes down to.                                          *)

(* Clients of one revision show the same room, and a client of the room's  *)
(* own revision shows the room.                                            *)
SameLabelSameRoom ==
  \A c \in Clients : client[c].label > 0 =>
    /\ client[c].label = db.revision => client[c].values = db.values
    /\ \A d \in Clients : client[d].label = client[c].label =>
                             client[d].values = client[c].values

(* A label leaves no choice of what is shown under it.                     *)
LEMMA ReflectsOnce ==
  ASSUME NEW value \in Seq(Nat), NEW label \in Nat,
         NEW s \in Seq(Nat), Reflects(s, value, label),
         NEW t \in Seq(Nat), Reflects(t, value, label)
  PROVE  s = t
<1>1. /\ Len(s) \in Nat /\ Len(t) \in Nat /\ Len(value) \in Nat
      /\ Len(s) <= Len(value) /\ Len(t) <= Len(value)
      /\ DOMAIN value = 1..Len(value) /\ DOMAIN s = 1..Len(s) /\ DOMAIN t = 1..Len(t)
  BY DEF Reflects
<1>2. \A i \in 1..Len(value) : value[i] \in Nat /\ (i <= Len(s) <=> value[i] <= label)
                                             /\ (i <= Len(t) <=> value[i] <= label)
  <2> SUFFICES ASSUME NEW i \in 1..Len(value)
               PROVE  /\ value[i] \in Nat
                      /\ i <= Len(s) <=> value[i] <= label
                      /\ i <= Len(t) <=> value[i] <= label
    OBVIOUS
  <2>1. i \in Nat /\ i \in DOMAIN value /\ value[i] \in Nat
    BY <1>1
  <2>2. IF i <= Len(s) THEN value[i] <= label ELSE value[i] > label
    BY <2>1 DEF Reflects
  <2>3. IF i <= Len(t) THEN value[i] <= label ELSE value[i] > label
    BY <2>1 DEF Reflects
  <2>4. \A k \in Nat : (IF i <= k THEN value[i] <= label ELSE value[i] > label)
                       => (i <= k <=> value[i] <= label)
    BY <2>1
  <2> QED BY <1>1, <2>1, <2>2, <2>3, <2>4
<1>3. ~(Len(s) < Len(t))
  <2> SUFFICES ASSUME Len(s) < Len(t) PROVE FALSE
    OBVIOUS
  <2>1. Len(t) \in 1..Len(value) /\ ~(Len(t) <= Len(s))
    BY <1>1
  <2> QED BY <1>1, <1>2, <2>1
<1>4. ~(Len(t) < Len(s))
  <2> SUFFICES ASSUME Len(t) < Len(s) PROVE FALSE
    OBVIOUS
  <2>1. Len(s) \in 1..Len(value) /\ ~(Len(s) <= Len(t))
    BY <1>1
  <2> QED BY <1>1, <1>2, <2>1
<1>5. Len(s) = Len(t)
  <2>1. \A k, n \in Nat : ~(k < n) /\ ~(n < k) => k = n
    OBVIOUS
  <2> QED BY <1>1, <1>3, <1>4, <2>1, Zenon
<1>6. ASSUME NEW i \in 1..Len(s) PROVE s[i] = t[i]
  <2>1. i \in DOMAIN value /\ i <= Len(s) /\ i <= Len(t)
    BY <1>1, <1>5
  <2>2. s[i] = value[i]
    BY <2>1 DEF Reflects
  <2>3. t[i] = value[i]
    BY <2>1 DEF Reflects
  <2> QED BY <2>2, <2>3
<1> QED BY <1>5, <1>6, SeqEqual

LEMMA WholeOnce ==
  ASSUME NEW values \in Values, NEW label \in Nat,
         NEW u \in Values, Whole(u, values, label),
         NEW v \in Values, Whole(v, values, label)
  PROVE  u = v
<1>1. ASSUME NEW p \in Parts PROVE u[p] = v[p]
  <2>1. values[p] \in Seq(Nat) /\ u[p] \in Seq(Nat) /\ v[p] \in Seq(Nat)
    BY DEF Values
  <2>2. Reflects(u[p], values[p], label) /\ Reflects(v[p], values[p], label)
    BY DEF Whole
  <2> QED BY <2>1, <2>2, ReflectsOnce
<1> QED BY <1>1 DEF Values

(* If handlers do not overlap, a revision names one state of the room: two *)
(* clients that show the same revision show the same room, and a client    *)
(* that has caught up with the room's revision shows the room. So Converges *)
(* asks no more of the messages than that they bring the labels up.        *)
THEOREM LabelNamesTheRoom ==
  ASSUME \A g, h \in Handlers : g = h
  PROVE  Spec => []SameLabelSameRoom
<1>1. GInv /\ [Next]_vars => GInv'
  BY NextGInv DEF Serial
<1>2. GInv => SameLabelSameRoom
  <2> SUFFICES ASSUME GInv PROVE SameLabelSameRoom
    OBVIOUS
  <2>1. db.revision \in Nat /\ db.values \in Values
        /\ Whole(db.values, db.values, db.revision)
    BY DbInOrder, CurrentWhole DEF InOrder
  <2>2. ASSUME NEW c \in Clients
        PROVE  /\ client[c].label \in Nat /\ client[c].values \in Values
               /\ client[c].label > 0 =>
                    Whole(client[c].values, db.values, client[c].label)
    BY DEF GInv, IInv, TypeOK, Client, Informed
  <2>3. ASSUME NEW c \in Clients, client[c].label > 0, client[c].label = db.revision
        PROVE  client[c].values = db.values
    BY <2>1, <2>2, <2>3, WholeOnce
  <2>4. ASSUME NEW c \in Clients, NEW d \in Clients, client[c].label > 0,
               client[d].label = client[c].label
        PROVE  client[d].values = client[c].values
    BY <2>1, <2>2, <2>4, WholeOnce
  <2> QED BY <2>3, <2>4 DEF SameLabelSameRoom
<1> QED BY <1>1, <1>2, InitGInv, PTL DEF Spec
=============================================================================
