-------------------------- MODULE RoomPresenceProofs --------------------------
(***************************************************************************)
(* What sessions and sockets keep, for any number of them, of requests and *)
(* of tickets: one socket per ticket, projections written by their owner   *)
(* only, and records left in a closed room without effect.                 *)
(***************************************************************************)
EXTENDS RoomPresence, TLAPS

(* A socket speaks for a generation that was issued; while it is the one   *)
(* of the record, its ticket is used up.                                   *)
TicketsUsed ==
  \A c \in Sockets : socket[c].pc # "down" =>
    /\ socket[c].generation <= row[socket[c].session].generation
    /\ socket[c].generation = row[socket[c].session].generation =>
         row[socket[c].session].ticket # "unused"
    /\ \A d \in Sockets : d # c /\ socket[d].pc # "down" =>
         \/ socket[c].session # socket[d].session
         \/ socket[c].generation # socket[d].generation

(* In a closed room no socket past its check holds a current record.       *)
ClosedQuiet ==
  ~room.open => /\ \A s \in Sessions : row[s].exists => ~row[s].connected
                /\ \A c \in Sockets : socket[c].pc \notin {"down", "load"} => ~Current(c)

(* Whoever is about to write a projection owns AV, or the room moved on.   *)
AvAtWrite ==
  \A c \in Sockets :
    /\ socket[c].revision <= room.revision
    /\ socket[c].pc = "projection" /\ socket[c].revision = room.revision =>
         room.av = socket[c].session

Inv == TypeOK /\ TicketsUsed /\ ClosedQuiet /\ AvAtWrite

-----------------------------------------------------------------------------
(* What one step may do to a record, to the room and to a socket.          *)

RowMoves(s) ==
  /\ row'[s].generation >= row[s].generation
  /\ row'[s].generation = row[s].generation =>
       /\ row'[s].ticket = "unused" => row[s].ticket = "unused"
       /\ row'[s].exists => row[s].exists
  /\ ~room.open /\ row'[s].exists /\ row'[s].connected => row[s].exists /\ row[s].connected

RoomMoves ==
  /\ room'.open => room.open
  /\ room.open /\ ~room'.open => \A s \in Sessions : ~row'[s].exists
  /\ room'.revision >= room.revision
  /\ room'.av # room.av => room'.revision > room.revision

Opens(c) ==
  LET s == socket'[c].session IN
  /\ socket'[c].pc = "load" /\ socket'[c].revision = 0
  /\ s \in Sessions
  /\ socket'[c].generation = row[s].generation /\ row'[s].generation = row[s].generation
  /\ row[s].ticket = "unused" /\ row'[s].ticket # "unused"
  /\ \A d \in Sockets : d # c => socket'[d] = socket[d]

Goes(c) ==
  /\ socket[c].pc # "down"
  /\ socket'[c].session = socket[c].session /\ socket'[c].generation = socket[c].generation
  /\ ~room.open /\ socket[c].pc = "load" => socket'[c].pc = "load"
  /\ \/ /\ socket'[c].revision = socket[c].revision
        /\ socket'[c].pc = "projection" => socket[c].pc = "projection"
     \/ socket'[c].revision = 0 /\ socket'[c].pc # "projection"
     \/ /\ socket'[c].revision = room.revision /\ room' = room
        /\ socket'[c].pc = "projection" => room.av = socket[c].session

SocketMoves(c) == \/ socket'[c] = socket[c]
                  \/ socket'[c] = Down
                  \/ Opens(c)
                  \/ Goes(c)

Moves == /\ RoomMoves
         /\ \A s \in Sessions : RowMoves(s)
         /\ \A c \in Sockets : SocketMoves(c)
         /\ TypeOK'

LEMMA DownTyped == Down \in Socket /\ Idle \in Request
BY PresenceAssumption DEF Down, Idle, Socket, Request

LEMMA MovesTickets ==
  ASSUME Inv, Moves
  PROVE  TicketsUsed'
<1> USE DEF Inv
<1>1. ASSUME NEW c \in Sockets, socket'[c].pc # "down"
      PROVE  socket'[c] = socket[c] \/ Opens(c) \/ Goes(c)
  BY <1>1 DEF Moves, SocketMoves, Down
<1>2. ASSUME NEW c \in Sockets, NEW s \in Sessions, socket[c].pc # "down",
             socket'[c].session = s, socket[c].session = s,
             socket'[c].generation = socket[c].generation
      PROVE  /\ socket'[c].generation <= row'[s].generation
             /\ socket'[c].generation = row'[s].generation => row'[s].ticket # "unused"
  <2>1. /\ socket[c].generation <= row[s].generation
        /\ socket[c].generation = row[s].generation => row[s].ticket # "unused"
    BY <1>2 DEF TicketsUsed
  <2>2. socket[c].generation \in Nat /\ row[s].generation \in Nat /\ row'[s].generation \in Nat
    BY DEF TypeOK, Moves, Socket, Row
  <2> QED BY <1>2, <2>1, <2>2 DEF Moves, RowMoves
<1>3. ASSUME NEW c \in Sockets, socket'[c].pc # "down"
      PROVE  /\ socket'[c].generation <= row'[socket'[c].session].generation
             /\ socket'[c].generation = row'[socket'[c].session].generation =>
                  row'[socket'[c].session].ticket # "unused"
  <2>1. CASE socket'[c] = socket[c] \/ Goes(c)
    <3>1. socket[c].session \in Sessions
      BY DEF TypeOK, Socket
    <3> QED BY <1>2, <1>3, <2>1, <3>1 DEF Goes
  <2>2. CASE Opens(c)
    <3>1. row[socket'[c].session].generation \in Nat
      BY <2>2 DEF Opens, TypeOK, Row
    <3> QED BY <2>2, <3>1 DEF Opens
  <2> QED BY <1>1, <1>3, <2>1, <2>2
<1>4. ASSUME NEW c \in Sockets, NEW d \in Sockets, d # c,
             socket'[c].pc # "down", socket'[d].pc # "down", Opens(c)
      PROVE  \/ socket'[c].session # socket'[d].session
             \/ socket'[c].generation # socket'[d].generation
  <2>1. socket'[d] = socket[d] /\ socket[d].pc # "down"
    BY <1>4 DEF Opens
  <2> QED BY <1>4, <2>1 DEF Opens, TicketsUsed
<1>5. ASSUME NEW c \in Sockets, NEW d \in Sockets, d # c,
             socket'[c].pc # "down", socket'[d].pc # "down", ~Opens(c), ~Opens(d)
      PROVE  \/ socket'[c].session # socket'[d].session
             \/ socket'[c].generation # socket'[d].generation
  BY <1>1, <1>5 DEF Goes, TicketsUsed
<1> QED BY <1>3, <1>4, <1>5 DEF TicketsUsed

LEMMA MovesClosed ==
  ASSUME Inv, Moves
  PROVE  ClosedQuiet'
<1> USE DEF Inv
<1> SUFFICES ASSUME ~room'.open
             PROVE  /\ \A s \in Sessions : row'[s].exists => ~row'[s].connected
                    /\ \A c \in Sockets : socket'[c].pc \notin {"down", "load"} => ~Current(c)'
  BY DEF ClosedQuiet
<1>1. \A c \in Sockets : socket'[c].session \in Sessions
  BY DEF Moves, TypeOK, Socket
<1>2. CASE room.open
  <2>1. \A s \in Sessions : ~row'[s].exists
    BY <1>2 DEF Moves, RoomMoves
  <2> QED BY <1>1, <2>1 DEF Current
<1>3. CASE ~room.open
  <2>1. \A s \in Sessions : row'[s].exists => ~row'[s].connected
    BY <1>3 DEF ClosedQuiet, Moves, RowMoves
  <2>2. ASSUME NEW c \in Sockets, socket'[c].pc \notin {"down", "load"} PROVE ~Current(c)'
    <3> DEFINE s == socket[c].session
    <3>1. socket'[c] = socket[c] \/ Goes(c)
      BY <2>2 DEF Moves, SocketMoves, Opens, Down
    <3>2. /\ socket[c].pc \notin {"down", "load"}
          /\ socket'[c].session = s /\ socket'[c].generation = socket[c].generation
      BY <1>3, <2>2, <3>1 DEF Goes
    <3>3. ~row[s].exists \/ row[s].generation # socket[c].generation
      BY <1>3, <3>2 DEF ClosedQuiet, Current
    <3>4. s \in Sessions /\ socket[c].generation <= row[s].generation
      BY <3>2 DEF TicketsUsed, TypeOK, Socket
    <3>5. socket[c].generation \in Nat /\ row[s].generation \in Nat /\ row'[s].generation \in Nat
      BY <3>4 DEF TypeOK, Moves, Socket, Row
    <3>6. ~row'[s].exists \/ row'[s].generation # socket[c].generation
      BY <3>3, <3>4, <3>5 DEF Moves, RowMoves
    <3> QED BY <3>2, <3>6 DEF Current
  <2> QED BY <2>1, <2>2
<1> QED BY <1>2, <1>3

LEMMA MovesAv ==
  ASSUME Inv, Moves
  PROVE  AvAtWrite'
<1> USE DEF Inv
<1>0. room.revision \in Nat /\ room'.revision \in Nat
  BY DEF TypeOK, Room, Moves
<1>1. SUFFICES ASSUME NEW c \in Sockets
               PROVE  /\ socket'[c].revision <= room'.revision
                      /\ socket'[c].pc = "projection" /\ socket'[c].revision = room'.revision =>
                           room'.av = socket'[c].session
  BY DEF AvAtWrite
<1>2. socket[c].revision \in Nat /\ socket[c].revision <= room.revision
  BY DEF TypeOK, Socket, AvAtWrite
<1>3. room'.revision >= room.revision /\ (room'.av # room.av => room'.revision > room.revision)
  BY DEF Moves, RoomMoves
<1>4. CASE /\ socket'[c].revision = socket[c].revision /\ socket'[c].session = socket[c].session
           /\ socket'[c].pc = "projection" => socket[c].pc = "projection"
  BY <1>0, <1>2, <1>3, <1>4 DEF AvAtWrite
<1>5. CASE socket'[c].revision = 0 /\ socket'[c].pc # "projection"
  BY <1>0, <1>5
<1>6. CASE /\ socket'[c].revision = room.revision /\ room' = room
           /\ socket'[c].pc = "projection" => room.av = socket'[c].session
  BY <1>0, <1>6
<1> QED BY <1>4, <1>5, <1>6 DEF Moves, SocketMoves, Opens, Goes, Down

LEMMA MovesInv == ASSUME Inv, Moves PROVE Inv'
BY MovesTickets, MovesClosed, MovesAv DEF Inv, Moves

-----------------------------------------------------------------------------
(* The statements the handlers are made of.                                *)

SocketsMove == (\A c \in Sockets : SocketMoves(c)) /\ socket' \in [Sockets -> Socket]
RowsMove    == (\A s \in Sessions : RowMoves(s)) /\ row' \in [Sessions -> Row]

LEMMA SameSockets == TypeOK /\ UNCHANGED socket => SocketsMove
BY DEF TypeOK, SocketsMove, SocketMoves

LEMMA SameRow ==
  ASSUME TypeOK, NEW s \in Sessions, row'[s] = row[s]
  PROVE  RowMoves(s)
BY DEF TypeOK, Row, RowMoves

LEMMA SameRows == TypeOK /\ UNCHANGED row => RowsMove
BY SameRow DEF TypeOK, RowsMove

LEMMA SameRoom == TypeOK /\ UNCHANGED room => RoomMoves /\ room' \in Room
BY DEF TypeOK, Room, RoomMoves

LEMMA UpdateRoomMoves ==
  ASSUME TypeOK, NEW changed \in Room, room.open => changed.open, UpdateRoom(changed)
  PROVE  RoomMoves /\ room' \in Room
<1>1. CASE room.open
  <2>1. room' = [changed EXCEPT !.revision = room.revision + 1]
    BY <1>1 DEF UpdateRoom
  <2>2. room' \in Room /\ room'.revision = room.revision + 1 /\ room'.open
    BY <1>1, <2>1 DEF Room, TypeOK
  <2> QED BY <1>1, <2>2 DEF RoomMoves, TypeOK, Room
<1>2. CASE ~room.open
  BY <1>2, SameRoom DEF UpdateRoom
<1> QED BY <1>1, <1>2

LEMMA ChangeRow ==
  ASSUME TypeOK, NEW s \in Sessions, NEW r \in Row, row' = [row EXCEPT ![s] = r],
         r.generation >= row[s].generation,
         r.generation = row[s].generation =>
            (r.ticket = "unused" => row[s].ticket = "unused") /\ (r.exists => row[s].exists),
         ~room.open /\ r.exists /\ r.connected => row[s].exists /\ row[s].connected
  PROVE  RowsMove
<1>1. row' \in [Sessions -> Row] /\ \A t \in Sessions : row'[t] = IF t = s THEN r ELSE row[t]
  BY DEF TypeOK
<1>2. ASSUME NEW t \in Sessions PROVE RowMoves(t)
  <2>1. CASE t = s
    BY <1>1, <2>1 DEF RowMoves
  <2>2. CASE t # s
    BY <1>1, <2>2, SameRow
  <2> QED BY <2>1, <2>2
<1> QED BY <1>1, <1>2 DEF RowsMove

LEMMA RowFacts ==
  ASSUME NEW r \in Row, NEW connected \in BOOLEAN
  PROVE  /\ Renewed(r, connected) \in Row
         /\ Renewed(r, connected).generation = r.generation
         /\ Renewed(r, connected).ticket = r.ticket /\ Renewed(r, connected).exists = r.exists
         /\ Renewed(r, connected).connected = connected
         /\ Issued(r) \in Row /\ Issued(r).generation = r.generation + 1
         /\ Issued(r).connected = r.connected /\ Issued(r).exists = r.exists
         /\ Departed(r) \in Row /\ Departed(r).generation = r.generation
         /\ Departed(r).ticket = r.ticket /\ Departed(r).exists = r.exists
         /\ ~Departed(r).connected
<1>1. Renewed(r, connected) \in Row /\ Departed(r) \in Row /\ Issued(r) \in Row
  <2>1. Renewed(r, connected) \in Row
    BY DEF Row, Renewed
  <2>2. Departed(r) \in Row
    BY DEF Row, Departed
  <2>3. Issued(r) \in Row
    <3>1. r.generation + 1 \in Nat
      BY DEF Row
    <3>2. [r EXCEPT !.generation = r.generation + 1, !.ticket = "unused"] \in Row
      BY <3>1 DEF Row
    <3> QED BY <3>2 DEF Issued
  <2> QED BY <2>1, <2>2, <2>3
<1>2. /\ Renewed(r, connected).generation = r.generation
      /\ Renewed(r, connected).ticket = r.ticket /\ Renewed(r, connected).exists = r.exists
      /\ Renewed(r, connected).connected = connected
  BY DEF Row, Renewed
<1>3. /\ Issued(r).generation = r.generation + 1
      /\ Issued(r).connected = r.connected /\ Issued(r).exists = r.exists
  BY DEF Row, Issued
<1>4. /\ Departed(r).generation = r.generation
      /\ Departed(r).ticket = r.ticket /\ Departed(r).exists = r.exists
      /\ ~Departed(r).connected
  BY DEF Row, Departed
<1> QED BY <1>1, <1>2, <1>3, <1>4

LEMMA UpdateRowMoves ==
  ASSUME TypeOK, NEW s \in Sessions, NEW r \in Row, UpdateRow(s, r),
         r.generation >= row[s].generation,
         r.generation = row[s].generation =>
            (r.ticket = "unused" => row[s].ticket = "unused") /\ (r.exists => row[s].exists),
         r.connected => row[s].connected
  PROVE  RowsMove
<1>1. CASE row[s].exists
  BY <1>1, ChangeRow DEF UpdateRow
<1>2. CASE ~row[s].exists
  BY <1>2, SameRows DEF UpdateRow
<1> QED BY <1>1, <1>2

LEMMA UpdateOwnMoves ==
  ASSUME Inv, NEW c \in Sockets, socket[c].pc \notin {"down", "load"},
         NEW r \in Row, UpdateOwn(c, r),
         r.generation = row[socket[c].session].generation,
         r.ticket = row[socket[c].session].ticket, r.exists = row[socket[c].session].exists
  PROVE  RowsMove
<1> DEFINE s == socket[c].session
<1>1. TypeOK /\ s \in Sessions /\ row[s].generation \in Nat
  BY DEF Inv, TypeOK, Socket, Row
<1>2. CASE Current(c)
  <2>1. room.open
    BY <1>2 DEF Inv, ClosedQuiet
  <2>2. row' = [row EXCEPT ![s] = r]
    BY <1>2 DEF UpdateOwn
  <2>3. /\ r.generation = row[s].generation /\ r.ticket = row[s].ticket /\ r.exists = row[s].exists
        /\ r.generation >= row[s].generation
    BY <1>1
  <2> HIDE DEF s
  <2> QED BY <1>1, <2>1, <2>2, <2>3, ChangeRow
<1>3. CASE ~Current(c)
  BY <1>1, <1>3, SameRows DEF UpdateOwn
<1> QED BY <1>2, <1>3

LEMMA ChangeSocket ==
  ASSUME TypeOK, NEW c \in Sockets, NEW x \in Socket, socket' = [socket EXCEPT ![c] = x],
         SocketMoves(c)
  PROVE  SocketsMove
BY DEF TypeOK, SocketsMove, SocketMoves

LEMMA EndMoves ==
  ASSUME TypeOK, NEW c \in Sockets, socket' = [socket EXCEPT ![c] = Down]
  PROVE  SocketsMove
<1>1. socket'[c] = Down
  BY DEF TypeOK
<1> QED BY <1>1, ChangeSocket, DownTyped DEF SocketMoves

LEMMA GoMoves ==
  ASSUME TypeOK, NEW c \in Sockets,
         NEW pc \in (Loop \ {"projection"}) \union
                    {"open", "opened", "left", "check", "disconnect", "disconnected"},
         Go(c, pc), socket[c].pc # "down", socket[c].pc = "load" => room.open
  PROVE  SocketsMove
<1> DEFINE x == [socket[c] EXCEPT !.pc = pc]
<1>1. socket[c] \in Socket
  BY DEF TypeOK
<1>2. x \in Socket /\ x.pc = pc /\ x.session = socket[c].session
      /\ x.generation = socket[c].generation /\ x.revision = socket[c].revision
  BY <1>1 DEF Socket, Loop
<1>3. socket' = [socket EXCEPT ![c] = x] /\ socket'[c] = x
  BY DEF Go, TypeOK
<1> HIDE DEF x
<1>4. Goes(c)
  BY <1>2, <1>3 DEF Goes
<1> QED BY <1>2, <1>3, <1>4, ChangeSocket DEF SocketMoves

LEMMA QuietRequest ==
  ASSUME TypeOK, NEW q \in Requests, NEW r \in Request, request' = [request EXCEPT ![q] = r]
  PROVE  request' \in [Requests -> Request]
BY DEF TypeOK

LEMMA Parts ==
  ASSUME RoomMoves, room' \in Room, RowsMove, SocketsMove, request' \in [Requests -> Request]
  PROVE  Moves
BY DEF Moves, RowsMove, SocketsMove, TypeOK

-----------------------------------------------------------------------------
(* The requests.                                                           *)

LEMMA RequestTyped ==
  ASSUME TypeOK, NEW q \in Requests
  PROVE  request[q] \in Request /\ request[q].session \in Sessions
BY DEF TypeOK, Request

LEMMA LoadMoves ==
  ASSUME Inv, NEW q \in Requests,
         \/ \E s \in Sessions : JoinLoad(q, s) \/ ReconnectLoad(q, s)
         \/ CloseLoad(q) \/ Cancel(q)
  PROVE  Moves
<1> USE DEF Inv
<1>1. UNCHANGED <<room, row, socket>>
  BY DEF JoinLoad, ReconnectLoad, CloseLoad, Cancel
<1>2. request' \in [Requests -> Request]
  <2>1. ASSUME NEW s \in Sessions, JoinLoad(q, s) PROVE request' \in [Requests -> Request]
    <3>1. row[s].exists \in BOOLEAN
      BY DEF TypeOK, Row
    <3> QED BY <2>1, <3>1, QuietRequest DEF JoinLoad, Request
  <2>2. ASSUME NEW s \in Sessions, ReconnectLoad(q, s) PROVE request' \in [Requests -> Request]
    BY <2>2, QuietRequest DEF ReconnectLoad, Request
  <2>3. CASE CloseLoad(q)
    BY <2>3 DEF CloseLoad, TypeOK, Request
  <2>4. CASE Cancel(q)
    BY <2>4, DownTyped, QuietRequest DEF Cancel
  <2> QED BY <2>1, <2>2, <2>3, <2>4
<1> QED BY <1>1, <1>2, Parts, SameRoom, SameRows, SameSockets

LEMMA JoinMoves ==
  ASSUME Inv, NEW q \in Requests, JoinCommit(q)
  PROVE  Moves
<1> USE DEF Inv
<1> DEFINE s    == request[q].session
           old  == row[s]
           here == [old EXCEPT !.exists = TRUE]
<1>1. s \in Sessions /\ old \in Row
  BY RequestTyped DEF TypeOK
<1>2. RowsMove
  <2>1. CASE request[q].is_new
    <3> DEFINE r == Issued(Renewed(here, FALSE))
    <3>1. row' = [row EXCEPT ![s] = r]
      BY <2>1 DEF JoinCommit
    <3>2. here \in Row /\ here.generation = old.generation
      BY <1>1 DEF Row
    <3> HIDE DEF here
    <3>3. Renewed(here, FALSE) \in Row /\ Renewed(here, FALSE).generation = old.generation
          /\ Renewed(here, FALSE).connected = FALSE
      BY <3>2, RowFacts
    <3>4. r \in Row /\ r.generation = old.generation + 1 /\ ~r.connected
      BY <3>3, RowFacts
    <3>5. old.generation \in Nat
      BY <1>1 DEF Row
    <3> HIDE DEF r
    <3>6. /\ r.generation >= row[s].generation /\ r.generation # row[s].generation
          /\ TypeOK
      BY <3>4, <3>5
    <3> HIDE DEF s, old
    <3> QED BY <1>1, <3>1, <3>4, <3>6, ChangeRow
  <2>2. CASE ~request[q].is_new
    <3> DEFINE r == Issued(Renewed(old, FALSE))
    <3>1. UpdateRow(s, r)
      BY <2>2 DEF JoinCommit
    <3>2. Renewed(old, FALSE) \in Row /\ Renewed(old, FALSE).generation = old.generation
          /\ Renewed(old, FALSE).connected = FALSE
      BY <1>1, RowFacts
    <3>3. r \in Row /\ r.generation = old.generation + 1 /\ ~r.connected
      BY <3>2, RowFacts
    <3>4. old.generation \in Nat
      BY <1>1 DEF Row
    <3> HIDE DEF r
    <3>5. r.generation >= row[s].generation /\ r.generation # row[s].generation /\ TypeOK
      BY <3>3, <3>4
    <3> HIDE DEF s, old
    <3> QED BY <1>1, <3>1, <3>3, <3>5, UpdateRowMoves
  <2> QED BY <2>1, <2>2
<1>3. ClaimAv(s) \in Room /\ ClaimAv(s).open = room.open
  BY <1>1 DEF ClaimAv, TypeOK, Room
<1>4. UpdateRoom(ClaimAv(s)) /\ UNCHANGED socket /\ request' = [request EXCEPT ![q] = Idle]
  BY DEF JoinCommit
<1>5. RoomMoves /\ room' \in Room
  BY <1>3, <1>4, UpdateRoomMoves
<1>6. request' \in [Requests -> Request]
  BY <1>4, DownTyped, QuietRequest
<1> QED BY <1>2, <1>4, <1>5, <1>6, Parts, SameSockets

LEMMA ReconnectMoves ==
  ASSUME Inv, NEW q \in Requests, ReconnectTouch(q) \/ IssueTicket(q)
  PROVE  Moves
<1> USE DEF Inv
<1> DEFINE s   == request[q].session
           old == row[s]
<1>1. s \in Sessions /\ old \in Row /\ old.generation \in Nat
  BY RequestTyped DEF TypeOK, Row
<1>2. CASE ReconnectTouch(q)
  <2> DEFINE r == Renewed(old, FALSE)
  <2>1. UpdateRow(s, r) /\ UNCHANGED <<room, socket>> /\ request' = [request EXCEPT ![q].pc = "issue"]
    BY <1>2 DEF ReconnectTouch
  <2>2. r \in Row /\ r.generation = old.generation /\ r.ticket = old.ticket
        /\ r.exists = old.exists /\ ~r.connected
    BY <1>1, RowFacts
  <2>3. RowsMove
    <3> HIDE DEF r, s, old
    <3> QED BY <1>1, <2>1, <2>2, UpdateRowMoves DEF old
  <2>4. request' \in [Requests -> Request]
    BY <2>1 DEF TypeOK, Request
  <2> QED BY <2>1, <2>3, <2>4, Parts, SameRoom, SameSockets
<1>3. CASE IssueTicket(q)
  <2> DEFINE r == Issued(old)
  <2>1. UpdateRow(s, r) /\ UNCHANGED <<room, socket>> /\ request' = [request EXCEPT ![q] = Idle]
    BY <1>3 DEF IssueTicket
  <2>2. r \in Row /\ r.generation = old.generation + 1 /\ r.connected = old.connected
    BY <1>1, RowFacts
  <2>3. RowsMove
    <3> HIDE DEF r, s, old
    <3> QED BY <1>1, <2>1, <2>2, UpdateRowMoves DEF old
  <2>4. request' \in [Requests -> Request]
    BY <2>1, DownTyped, QuietRequest
  <2> QED BY <2>1, <2>3, <2>4, Parts, SameRoom, SameSockets
<1> QED BY <1>2, <1>3

LEMMA CloseMoves ==
  ASSUME Inv, NEW q \in Requests, CloseDelete(q) \/ CloseAnnounce(q)
  PROVE  Moves
<1> USE DEF Inv
<1>1. CASE CloseDelete(q)
  <2>1. /\ row' = [s \in Sessions |-> [Absent EXCEPT !.generation = row[s].generation]]
        /\ room' = [room EXCEPT !.open = FALSE] /\ UNCHANGED socket
    BY <1>1 DEF CloseDelete
  <2>2. ASSUME NEW s \in Sessions
        PROVE  /\ row'[s] \in Row /\ row'[s].generation = row[s].generation
               /\ ~row'[s].exists /\ row'[s].ticket = "expired" /\ row[s].generation \in Nat
    BY <2>1 DEF TypeOK, Row, Absent
  <2>3. RowsMove
    BY <2>1, <2>2 DEF RowsMove, RowMoves
  <2>4. room' \in Room /\ RoomMoves
    <3>1. room \in Room
      BY DEF TypeOK
    <3>2. /\ room' \in Room /\ ~room'.open /\ room'.revision = room.revision /\ room'.av = room.av
          /\ room.revision \in Nat
      BY <2>1, <3>1 DEF Room
    <3> QED BY <2>2, <3>2 DEF RoomMoves
  <2>5. request' \in [Requests -> Request]
    <3>1. request[q] \in Request /\ [request[q] EXCEPT !.pc = "announce"] \in Request
      BY RequestTyped DEF Request
    <3>2. request' = [request EXCEPT ![q] = IF room.open THEN [request[q] EXCEPT !.pc = "announce"]
                                                         ELSE Idle]
      BY <1>1 DEF CloseDelete
    <3> QED BY <3>1, <3>2, DownTyped, QuietRequest
  <2> QED BY <2>1, <2>3, <2>4, <2>5, Parts, SameSockets
<1>2. CASE CloseAnnounce(q)
  <2>1. UNCHANGED <<room, row>> /\ request' = [request EXCEPT ![q] = Idle]
    BY <1>2 DEF CloseAnnounce
  <2>2. ASSUME NEW c \in Sockets PROVE SocketMoves(c) /\ socket'[c] \in Socket
    <3>1. socket[c] \in Socket
      BY DEF TypeOK
    <3>2. socket'[c] = socket[c] \/ (c \in Subscribed /\ socket'[c] = [socket[c] EXCEPT !.ended = TRUE])
      BY <1>2 DEF CloseAnnounce
    <3>3. CASE socket'[c] = socket[c]
      BY <3>1, <3>3 DEF SocketMoves
    <3>4. CASE c \in Subscribed /\ socket'[c] = [socket[c] EXCEPT !.ended = TRUE]
      <4>1. socket[c].pc # "down"
        BY <3>4 DEF Subscribed, Loop
      <4>2. socket'[c] \in Socket /\ socket'[c].pc = socket[c].pc
            /\ socket'[c].session = socket[c].session /\ socket'[c].revision = socket[c].revision
            /\ socket'[c].generation = socket[c].generation
        BY <3>1, <3>4 DEF Socket
      <4> QED BY <4>1, <4>2 DEF SocketMoves, Goes
    <3> QED BY <3>2, <3>3, <3>4
  <2>3. SocketsMove
    BY <1>2, <2>2 DEF CloseAnnounce, SocketsMove
  <2>4. request' \in [Requests -> Request]
    BY <2>1, DownTyped, QuietRequest
  <2> QED BY <2>1, <2>3, <2>4, Parts, SameRoom, SameRows
<1> QED BY <1>1, <1>2

-----------------------------------------------------------------------------
(* The sockets.                                                            *)

LEMMA SocketTyped ==
  ASSUME TypeOK, NEW c \in Sockets
  PROVE  socket[c] \in Socket /\ socket[c].session \in Sessions /\ row[socket[c].session] \in Row
BY DEF TypeOK, Socket

LEMMA SameRequests == TypeOK /\ UNCHANGED request => request' \in [Requests -> Request]
BY DEF TypeOK

LEMMA ConsumeMoves ==
  ASSUME Inv, NEW c \in Sockets, NEW s \in Sessions, ConsumeTicket(c, s)
  PROVE  Moves
<1> USE DEF Inv
<1> DEFINE x == [Down EXCEPT !.pc = "load", !.session = s, !.generation = row[s].generation]
           r == [row[s] EXCEPT !.ticket = "consumed"]
<1>1. /\ row' = [row EXCEPT ![s] = r] /\ row[s].ticket = "unused"
      /\ socket' = [socket EXCEPT ![c] = x] /\ UNCHANGED <<room, request>>
  BY DEF ConsumeTicket
<1>2. row[s] \in Row /\ row[s].generation \in Nat
  BY DEF TypeOK, Row
<1>3. /\ r \in Row /\ r.generation = row[s].generation /\ r.exists = row[s].exists
      /\ r.connected = row[s].connected /\ r.ticket = "consumed"
  BY <1>2 DEF Row
<1>4. /\ x \in Socket /\ x.pc = "load" /\ x.session = s /\ x.revision = 0
      /\ x.generation = row[s].generation
  BY <1>2, PresenceAssumption DEF Socket, Down
<1> HIDE DEF x, r
<1>5. RowsMove
  <2>1. r.generation >= row[s].generation /\ r.ticket # "unused" /\ TypeOK
    BY <1>2, <1>3
  <2> QED BY <1>1, <1>3, <2>1, ChangeRow
<1>6. Opens(c)
  BY <1>1, <1>3, <1>4 DEF Opens, TypeOK
<1>7. SocketsMove
  BY <1>1, <1>4, <1>6, ChangeSocket DEF SocketMoves
<1> QED BY <1>1, <1>5, <1>7, Parts, SameRoom, SameRequests

LEMMA OpeningMoves ==
  ASSUME Inv, NEW c \in Sockets, SocketLoad(c) \/ SocketOpen(c) \/ Bump(c)
  PROVE  Moves
<1> USE DEF Inv
<1>1. CASE SocketLoad(c)
  <2>1. SocketsMove
    <3>1. CASE room.open /\ row[socket[c].session].exists
      <4>1. Go(c, "open")
        BY <1>1, <3>1 DEF SocketLoad
      <4> QED BY <1>1, <3>1, <4>1, GoMoves DEF SocketLoad
    <3>2. CASE ~(room.open /\ row[socket[c].session].exists)
      BY <1>1, <3>2, EndMoves DEF SocketLoad
    <3> QED BY <3>1, <3>2
  <2> QED BY <1>1, <2>1, Parts, SameRoom, SameRows, SameRequests DEF SocketLoad
<1>2. CASE SocketOpen(c)
  <2>1. RowsMove
    <3> DEFINE old == row[socket[c].session]
               r   == Renewed(old, TRUE)
    <3>1. old \in Row /\ UpdateOwn(c, r) /\ socket[c].pc = "open"
      BY <1>2, SocketTyped DEF SocketOpen
    <3>2. r \in Row /\ r.generation = old.generation /\ r.ticket = old.ticket /\ r.exists = old.exists
      BY <3>1, RowFacts
    <3> HIDE DEF r
    <3> QED BY <3>1, <3>2, UpdateOwnMoves
  <2>2. SocketsMove
    BY <1>2, GoMoves DEF SocketOpen
  <2> QED BY <1>2, <2>1, <2>2, Parts, SameRoom, SameRequests DEF SocketOpen
<1>3. CASE Bump(c)
  <2>1. room \in Room /\ UpdateRoom(room)
    BY <1>3 DEF Bump, TypeOK
  <2>2. SocketsMove
    <3>1. \/ Go(c, "up") \/ Go(c, "check")
          \/ socket' = [socket EXCEPT ![c] = Down]
      BY <1>3 DEF Bump, Go
    <3>2. socket[c].pc \notin {"down", "load"}
      BY <1>3 DEF Bump
    <3>3. CASE Go(c, "up")
      BY <3>2, <3>3, GoMoves DEF Loop
    <3>4. CASE Go(c, "check")
      BY <3>2, <3>4, GoMoves
    <3>5. CASE socket' = [socket EXCEPT ![c] = Down]
      BY <3>5, EndMoves
    <3> QED BY <3>1, <3>3, <3>4, <3>5
  <2> QED BY <1>3, <2>1, <2>2, Parts, UpdateRoomMoves, SameRows, SameRequests DEF Bump
<1> QED BY <1>1, <1>2, <1>3

LEMMA HeartbeatMoves ==
  ASSUME Inv, NEW c \in Sockets, Heartbeat(c)
  PROVE  Moves
<1> USE DEF Inv
<1> DEFINE old == row[socket[c].session]
           r   == Renewed(old, TRUE)
<1>1. old \in Row /\ UpdateOwn(c, r) /\ socket[c].pc = "up"
  BY SocketTyped DEF Heartbeat
<1>2. r \in Row /\ r.generation = old.generation /\ r.ticket = old.ticket /\ r.exists = old.exists
  BY <1>1, RowFacts
<1>3. RowsMove
  <2> HIDE DEF r
  <2> QED BY <1>1, <1>2, UpdateOwnMoves
<1>4. Go(c, "check") \/ UNCHANGED socket
  BY DEF Heartbeat
<1>5. SocketsMove
  BY <1>1, <1>4, GoMoves, SameSockets
<1> QED BY <1>3, <1>5, Parts, SameRoom, SameRequests DEF Heartbeat

LEMMA CommandMoves ==
  ASSUME Inv, NEW c \in Sockets, CommandLoad(c) \/ CommandCommit(c)
  PROVE  Moves
<1> USE DEF Inv
<1>0. socket[c] \in Socket /\ socket[c].session \in Sessions
  BY SocketTyped
<1>1. CASE CommandLoad(c)
  <2>1. UNCHANGED <<room, row, request>> /\ socket[c].pc = "up"
    BY <1>1 DEF CommandLoad
  <2>2. CASE Go(c, "check")
    BY <2>1, <2>2, GoMoves, Parts, SameRoom, SameRows, SameRequests
  <2>3. ASSUME NEW kind \in Loop \ {"up"}, Permitted(c, kind),
               socket' = [socket EXCEPT ![c].pc = kind, ![c].revision = room.revision]
        PROVE  Moves
    <3> DEFINE x == [socket[c] EXCEPT !.pc = kind, !.revision = room.revision]
    <3>1. /\ x \in Socket /\ x.pc = kind /\ x.revision = room.revision
          /\ x.session = socket[c].session /\ x.generation = socket[c].generation
      <4>1. room.revision \in Nat
        BY DEF TypeOK, Room
      <4> QED BY <1>0, <4>1 DEF Socket, Loop
    <3>2. socket' = [socket EXCEPT ![c] = x] /\ socket'[c] = x
      BY <2>3 DEF TypeOK
    <3> HIDE DEF x
    <3>3. kind = "projection" => room.av = socket[c].session
      BY <2>3 DEF Permitted
    <3>4. Goes(c)
      BY <2>1, <3>1, <3>2, <3>3 DEF Goes
    <3>5. SocketsMove
      BY <3>1, <3>2, <3>4, ChangeSocket DEF SocketMoves
    <3> QED BY <2>1, <3>5, Parts, SameRoom, SameRows, SameRequests
  <2> QED BY <1>1, <2>2, <2>3 DEF CommandLoad
<1>2. CASE CommandCommit(c)
  <2> DEFINE x == [socket[c] EXCEPT !.pc = "up", !.revision = 0]
  <2>1. /\ socket' = [socket EXCEPT ![c] = x] /\ socket'[c] = x
        /\ UNCHANGED <<row, request>> /\ socket[c].pc \in {"projection", "guests", "lock"}
    BY <1>2 DEF CommandCommit, TypeOK
  <2>2. /\ x \in Socket /\ x.pc = "up" /\ x.revision = 0
        /\ x.session = socket[c].session /\ x.generation = socket[c].generation
    BY <1>0 DEF Socket, Loop
  <2> HIDE DEF x
  <2>3. Goes(c)
    BY <2>1, <2>2 DEF Goes
  <2>4. SocketsMove
    BY <2>1, <2>2, <2>3, ChangeSocket DEF SocketMoves
  <2>5. RoomMoves /\ room' \in Room
    <3>1. \/ UNCHANGED room
          \/ UpdateRoom([room EXCEPT !.projection = socket[c].session])
          \/ UpdateRoom([room EXCEPT !.guest_access_allowed = ~@])
          \/ UpdateRoom([room EXCEPT !.new_joins_locked = ~@])
      BY <1>2 DEF CommandCommit
    <3>2. room \in Room
      BY DEF TypeOK
    <3>3. /\ [room EXCEPT !.projection = socket[c].session] \in Room
          /\ [room EXCEPT !.projection = socket[c].session].open = room.open
      BY <1>0, <3>2 DEF Room
    <3>4. /\ [room EXCEPT !.guest_access_allowed = ~@] \in Room
          /\ [room EXCEPT !.guest_access_allowed = ~@].open = room.open
      <4>1. (~room.guest_access_allowed) \in BOOLEAN
        OBVIOUS
      <4> QED BY <3>2, <4>1 DEF Room
    <3>5. /\ [room EXCEPT !.new_joins_locked = ~@] \in Room
          /\ [room EXCEPT !.new_joins_locked = ~@].open = room.open
      <4>1. (~room.new_joins_locked) \in BOOLEAN
        OBVIOUS
      <4> QED BY <3>2, <4>1 DEF Room
    <3>6. CASE UNCHANGED room
      BY <3>6, SameRoom
    <3>7. CASE UpdateRoom([room EXCEPT !.projection = socket[c].session])
      BY <3>3, <3>7, UpdateRoomMoves
    <3>8. CASE UpdateRoom([room EXCEPT !.guest_access_allowed = ~@])
      BY <3>4, <3>8, UpdateRoomMoves
    <3>9. CASE UpdateRoom([room EXCEPT !.new_joins_locked = ~@])
      BY <3>5, <3>9, UpdateRoomMoves
    <3> QED BY <3>1, <3>6, <3>7, <3>8, <3>9
  <2> QED BY <2>1, <2>4, <2>5, Parts, SameRows, SameRequests
<1> QED BY <1>1, <1>2

LEMMA LeavingMoves ==
  ASSUME Inv, NEW c \in Sockets,
         \/ Leave(c) \/ ForwardEnd(c) \/ HangUp(c) \/ DisconnectLoad(c) \/ Disconnect(c) \/ Crash(c)
  PROVE  Moves
<1> USE DEF Inv
<1> DEFINE old == row[socket[c].session]
           r   == Departed(old)
<1>0. old \in Row
  BY SocketTyped
<1>1. /\ r \in Row /\ r.generation = old.generation /\ r.ticket = old.ticket /\ r.exists = old.exists
  BY <1>0, RowFacts
<1> HIDE DEF r
<1>2. CASE Leave(c)
  <2> DEFINE x == [socket[c] EXCEPT !.pc = "left", !.revision = 0]
  <2>1. /\ UpdateOwn(c, r) /\ socket[c].pc = "leave" /\ UNCHANGED <<room, request>>
        /\ socket' = [socket EXCEPT ![c] = x] /\ socket'[c] = x
    BY <1>2 DEF Leave, TypeOK, r
  <2>2. RowsMove
    BY <1>1, <2>1, UpdateOwnMoves
  <2>3. /\ x \in Socket /\ x.pc = "left" /\ x.revision = 0
        /\ x.session = socket[c].session /\ x.generation = socket[c].generation
    BY SocketTyped DEF Socket
  <2> HIDE DEF x
  <2>4. Goes(c)
    BY <2>1, <2>3 DEF Goes
  <2>5. SocketsMove
    BY <2>1, <2>3, <2>4, ChangeSocket DEF SocketMoves
  <2> QED BY <2>1, <2>2, <2>5, Parts, SameRoom, SameRequests
<1>3. CASE ForwardEnd(c) \/ HangUp(c)
  <2>1. Go(c, "check") /\ socket[c].pc = "up" /\ UNCHANGED <<room, row, request>>
    BY <1>3 DEF ForwardEnd, HangUp
  <2> QED BY <2>1, GoMoves, Parts, SameRoom, SameRows, SameRequests
<1>4. CASE DisconnectLoad(c)
  <2>1. /\ Go(c, "disconnect") \/ socket' = [socket EXCEPT ![c] = Down]
        /\ socket[c].pc = "check" /\ UNCHANGED <<room, row, request>>
    BY <1>4 DEF DisconnectLoad
  <2>2. SocketsMove
    BY <2>1, GoMoves, EndMoves
  <2> QED BY <2>1, <2>2, Parts, SameRoom, SameRows, SameRequests
<1>5. CASE Disconnect(c)
  <2>1. /\ UpdateOwn(c, r) /\ socket[c].pc = "disconnect" /\ Go(c, "disconnected")
        /\ UNCHANGED <<room, request>>
    BY <1>5 DEF Disconnect, r
  <2>2. RowsMove
    BY <1>1, <2>1, UpdateOwnMoves
  <2>3. SocketsMove
    BY <2>1, GoMoves
  <2> QED BY <2>1, <2>2, <2>3, Parts, SameRoom, SameRequests
<1>6. CASE Crash(c)
  <2>1. socket' = [socket EXCEPT ![c] = Down] /\ UNCHANGED <<room, row, request>>
    BY <1>6 DEF Crash
  <2> QED BY <2>1, EndMoves, Parts, SameRoom, SameRows, SameRequests
<1> QED BY <1>2, <1>3, <1>4, <1>5, <1>6

LEMMA ExpiryMoves ==
  ASSUME Inv, NEW s \in Sessions, LeaseExpires(s) \/ TicketExpires(s)
  PROVE  Moves
<1> USE DEF Inv
<1>0. row[s] \in Row /\ row[s].generation \in Nat
  BY DEF TypeOK, Row
<1>1. PICK r \in Row : /\ row' = [row EXCEPT ![s] = r] /\ r.generation = row[s].generation
                       /\ r.exists = row[s].exists /\ r.connected = row[s].connected
                       /\ r.ticket = row[s].ticket \/ r.ticket = "expired"
  <2>1. CASE LeaseExpires(s)
    <3> DEFINE r == [row[s] EXCEPT !.live = FALSE]
    <3>1. /\ r \in Row /\ r.generation = row[s].generation
          /\ r.exists = row[s].exists /\ r.connected = row[s].connected /\ r.ticket = row[s].ticket
      BY <1>0 DEF Row
    <3>2. row' = [row EXCEPT ![s] = r]
      BY <2>1 DEF LeaseExpires
    <3> QED BY <3>1, <3>2
  <2>2. CASE TicketExpires(s)
    <3> DEFINE r == [row[s] EXCEPT !.ticket = "expired"]
    <3>1. /\ r \in Row /\ r.generation = row[s].generation
          /\ r.exists = row[s].exists /\ r.connected = row[s].connected /\ r.ticket = "expired"
      BY <1>0 DEF Row
    <3>2. row' = [row EXCEPT ![s] = r]
      BY <2>2 DEF TicketExpires
    <3> QED BY <3>1, <3>2
  <2> QED BY <2>1, <2>2
<1>2. RowsMove
  <2>1. r.generation >= row[s].generation
    BY <1>0, <1>1
  <2> QED BY <1>1, <2>1, ChangeRow
<1>3. UNCHANGED <<room, request, socket>>
  BY DEF LeaseExpires, TicketExpires
<1> QED BY <1>2, <1>3, Parts, SameRoom, SameSockets, SameRequests

-----------------------------------------------------------------------------
LEMMA NextMoves == ASSUME Inv, Next PROVE Moves
BY LoadMoves, JoinMoves, ReconnectMoves, CloseMoves, ConsumeMoves, OpeningMoves, HeartbeatMoves,
   CommandMoves, LeavingMoves, ExpiryMoves DEF Next, ServerStep

LEMMA InitInv == Init => Inv
<1> SUFFICES ASSUME Init PROVE Inv
  OBVIOUS
<1>1. /\ \A c \in Sockets : socket[c] = Down /\ Down.pc = "down" /\ Down.revision = 0
      /\ room.open /\ room.revision = 1
  BY DEF Init, Down
<1>2. TypeOK
  <2>1. row \in [Sessions -> Row]
    <3>1. Absent \in Row
      BY DEF Absent, Row
    <3> DEFINE here == [Absent EXCEPT !.exists = TRUE]
    <3>2. here \in Row
      BY <3>1 DEF Row
    <3> HIDE DEF here
    <3>3. Issued(Renewed(here, FALSE)) \in Row
      BY <3>2, RowFacts
    <3> QED BY <3>1, <3>3 DEF Init, here
  <2>2. room \in Room
    BY PresenceAssumption DEF Init, Room
  <2> QED BY <2>1, <2>2, DownTyped DEF Init, TypeOK
<1>3. TicketsUsed /\ ClosedQuiet /\ AvAtWrite
  BY <1>1 DEF TicketsUsed, ClosedQuiet, AvAtWrite
<1> QED BY <1>2, <1>3 DEF Inv

LEMMA NextInv == Inv /\ [Next]_vars => Inv'
<1>1. ASSUME Inv, Next PROVE Inv'
  BY <1>1, NextMoves, MovesInv
<1>2. ASSUME Inv, UNCHANGED vars PROVE Inv'
  BY <1>2 DEF Inv, TypeOK, TicketsUsed, ClosedQuiet, AvAtWrite, Current, vars
<1> QED BY <1>1, <1>2

LEMMA SpecInv == Spec => []Inv
BY InitInv, NextInv, PTL DEF Spec

(* Rooms, sessions, requests and sockets keep their types.                 *)
THEOREM PresenceTyped == Spec => []TypeOK
<1>1. Inv => TypeOK
  BY DEF Inv
<1> QED BY <1>1, SpecInv, PTL

(* A ticket opens one socket, for any number of tickets and sockets.       *)
THEOREM TicketOpensOneSocket == Spec => []OneSocketPerTicket
<1>1. Inv => OneSocketPerTicket
  BY DEF Inv, TicketsUsed, OneSocketPerTicket
<1> QED BY <1>1, SpecInv, PTL

(* A record that a late join leaves in a closed room is never connected.   *)
THEOREM LateJoinsStayOut == Spec => []OrphansStayOut
<1>1. Inv => OrphansStayOut
  BY DEF Inv, ClosedQuiet, OrphansStayOut, Loop
<1> QED BY <1>1, SpecInv, PTL

(* A projection is written by the session that owns AV at that moment.     *)
THEOREM ProjectionsAreTheOwners == Spec => ProjectionByAv
<1>1. ASSUME Inv, [Next]_vars, room'.projection # room.projection
      PROVE  room'.projection = room.av
  <2>1. ASSUME NEW changed, changed.projection = room.projection, changed \in Room, UpdateRoom(changed)
        PROVE  FALSE
    <3>1. room' = [changed EXCEPT !.revision = room.revision + 1]
      BY <1>1, <2>1 DEF UpdateRoom
    <3> QED BY <1>1, <2>1, <3>1 DEF Room
  <2>2. room \in Room
    BY <1>1 DEF Inv, TypeOK
  <2>3. ASSUME NEW q \in Requests, JoinCommit(q) PROVE FALSE
    <3>1. request[q].session \in Sessions
      BY <1>1 DEF Inv, TypeOK, Request
    <3>2. /\ ClaimAv(request[q].session) \in Room
          /\ ClaimAv(request[q].session).projection = room.projection
      BY <2>2, <3>1 DEF ClaimAv, Room
    <3> QED BY <2>1, <2>3, <3>2 DEF JoinCommit
  <2>4. ASSUME NEW c \in Sockets, Bump(c) PROVE FALSE
    BY <2>1, <2>2, <2>4 DEF Bump
  <2>5. ASSUME NEW c \in Sockets, CommandCommit(c) PROVE room'.projection = room.av
    <3>1. socket[c].revision = room.revision
      BY <1>1, <2>5 DEF CommandCommit
    <3>2. CASE socket[c].pc = "projection"
      <4>1. room.av = socket[c].session
        BY <1>1, <3>1, <3>2 DEF Inv, AvAtWrite
      <4>2. UpdateRoom([room EXCEPT !.projection = socket[c].session])
        BY <2>5, <3>1, <3>2 DEF CommandCommit
      <4>3. room' = [[room EXCEPT !.projection = socket[c].session] EXCEPT !.revision = room.revision + 1]
        BY <1>1, <4>2 DEF UpdateRoom
      <4>4. room'.projection = socket[c].session
        BY <2>2, <4>3 DEF Room
      <4> QED BY <4>1, <4>4
    <3>3. CASE socket[c].pc = "guests"
      <4>1. UpdateRoom([room EXCEPT !.guest_access_allowed = ~@])
        BY <2>5, <3>1, <3>3 DEF CommandCommit
      <4>2. /\ [room EXCEPT !.guest_access_allowed = ~@] \in Room
            /\ [room EXCEPT !.guest_access_allowed = ~@].projection = room.projection
        <5>1. (~room.guest_access_allowed) \in BOOLEAN
          OBVIOUS
        <5> QED BY <2>2, <5>1 DEF Room
      <4> QED BY <2>1, <4>1, <4>2
    <3>4. CASE socket[c].pc = "lock"
      <4>1. UpdateRoom([room EXCEPT !.new_joins_locked = ~@])
        BY <2>5, <3>1, <3>4 DEF CommandCommit
      <4>2. /\ [room EXCEPT !.new_joins_locked = ~@] \in Room
            /\ [room EXCEPT !.new_joins_locked = ~@].projection = room.projection
        <5>1. (~room.new_joins_locked) \in BOOLEAN
          OBVIOUS
        <5> QED BY <2>2, <5>1 DEF Room
      <4> QED BY <2>1, <4>1, <4>2
    <3> QED BY <2>5, <3>2, <3>3, <3>4 DEF CommandCommit
  <2>6. ASSUME NEW q \in Requests, CloseDelete(q) PROVE FALSE
    BY <1>1, <2>2, <2>6 DEF CloseDelete, Room
  <2>7. room' # room
    BY <1>1
  <2>8. CASE Next
    BY <2>3, <2>4, <2>5, <2>6, <2>7, <2>8
       DEF Next, ServerStep, JoinLoad, ReconnectLoad, ReconnectTouch, IssueTicket, CloseLoad,
           CloseAnnounce, Cancel, ConsumeTicket, SocketLoad, SocketOpen, Heartbeat, CommandLoad,
           Leave, ForwardEnd, HangUp, DisconnectLoad, Disconnect, Crash, LeaseExpires, TicketExpires
  <2> QED BY <1>1, <2>7, <2>8 DEF vars
<1>2. Inv /\ [Next]_vars => [room'.projection # room.projection => room'.projection = room.av]_vars
  BY <1>1
<1> QED BY <1>2, SpecInv, PTL DEF Spec, ProjectionByAv

(* A session is marked disconnected by the socket that speaks for it now,  *)
(* or by its own join or reconnect, never by a superseded socket.          *)
THEOREM SupersededAreHarmless == Spec => OnlyOwnDisconnects
<1> DEFINE ByRequest(s) == \E q \in Requests : request[q].session = s /\ request[q].pc \in {"join", "touch"}
           BySocket(s)  == \E c \in Sockets : /\ socket[c].session = s
                                              /\ socket[c].generation = row[s].generation
                                              /\ socket[c].pc \in {"leave", "disconnect"}
           Own(s)       == row[s].connected /\ row'[s].exists /\ ~row'[s].connected =>
                             ByRequest(s) \/ BySocket(s)
<1>1. ASSUME Inv, [Next]_vars, NEW s \in Sessions PROVE Own(s)
  <2>0. row \in [Sessions -> Row] /\ row[s] \in Row
    BY <1>1 DEF Inv, TypeOK
  <2>1. CASE row'[s] = row[s] \/ row'[s].connected = row[s].connected \/ row'[s].connected \/ ~row'[s].exists
    BY <2>1
  <2>2. ASSUME NEW q \in Requests, JoinCommit(q) PROVE Own(s)
    <3>1. request[q].session # s => row'[s] = row[s]
      BY <2>0, <2>2 DEF JoinCommit, UpdateRow
    <3> QED BY <2>1, <2>2, <3>1 DEF JoinCommit
  <2>3. ASSUME NEW q \in Requests, ReconnectTouch(q) PROVE Own(s)
    <3>1. request[q].session # s => row'[s] = row[s]
      BY <2>0, <2>3 DEF ReconnectTouch, UpdateRow
    <3> QED BY <2>1, <2>3, <3>1 DEF ReconnectTouch
  <2>4. ASSUME NEW q \in Requests, IssueTicket(q) PROVE Own(s)
    <3> DEFINE t == request[q].session
    <3>1. UpdateRow(t, Issued(row[t]))
      BY <2>4 DEF IssueTicket
    <3>2. row'[s] = row[s] \/ row'[s] = Issued(row[s])
      BY <2>0, <3>1 DEF UpdateRow
    <3>3. Issued(row[s]).connected = row[s].connected
      BY <2>0, RowFacts
    <3> QED BY <2>1, <3>2, <3>3
  <2>5. ASSUME NEW q \in Requests, CloseDelete(q) PROVE Own(s)
    <3>1. ~row'[s].exists
      BY <2>5 DEF CloseDelete, Absent
    <3> QED BY <2>1, <3>1
  <2>6. ASSUME NEW c \in Sockets, NEW t \in Sessions, ConsumeTicket(c, t) PROVE Own(s)
    <3>1. row'[s] = row[s] \/ row'[s] = [row[s] EXCEPT !.ticket = "consumed"]
      BY <2>0, <2>6 DEF ConsumeTicket
    <3>2. [row[s] EXCEPT !.ticket = "consumed"].connected = row[s].connected
      BY <2>0 DEF Row
    <3> QED BY <2>1, <3>1, <3>2
  <2>7. ASSUME NEW c \in Sockets, SocketOpen(c) \/ Heartbeat(c) PROVE Own(s)
    <3>1. UpdateOwn(c, Renewed(row[socket[c].session], TRUE))
      BY <2>7 DEF SocketOpen, Heartbeat
    <3>2. row'[s] = row[s] \/ row'[s] = Renewed(row[s], TRUE)
      BY <2>0, <3>1 DEF UpdateOwn
    <3>3. Renewed(row[s], TRUE).connected
      BY <2>0, RowFacts
    <3> QED BY <2>1, <3>2, <3>3
  <2>8. ASSUME NEW c \in Sockets, Leave(c) \/ Disconnect(c) PROVE Own(s)
    <3>1. UpdateOwn(c, Departed(row[socket[c].session])) /\ socket[c].pc \in {"leave", "disconnect"}
      BY <2>8 DEF Leave, Disconnect
    <3>2. CASE Current(c) /\ socket[c].session = s
      BY <3>1, <3>2 DEF Current
    <3>3. CASE ~(Current(c) /\ socket[c].session = s)
      <4>1. row'[s] = row[s]
        BY <2>0, <3>1, <3>3 DEF UpdateOwn
      <4> QED BY <2>1, <4>1
    <3> QED BY <3>2, <3>3
  <2>9. ASSUME NEW t \in Sessions, LeaseExpires(t) \/ TicketExpires(t) PROVE Own(s)
    <3>1. \/ row'[s] = row[s]
          \/ row'[s] = [row[s] EXCEPT !.live = FALSE]
          \/ row'[s] = [row[s] EXCEPT !.ticket = "expired"]
      BY <2>0, <2>9 DEF LeaseExpires, TicketExpires
    <3>2. /\ [row[s] EXCEPT !.live = FALSE].connected = row[s].connected
          /\ [row[s] EXCEPT !.ticket = "expired"].connected = row[s].connected
      BY <2>0 DEF Row
    <3> QED BY <2>1, <3>1, <3>2
  <2>10. CASE UNCHANGED row
    BY <2>1, <2>10
  <2> HIDE DEF Own
  <2>11. CASE Next
    BY <2>2, <2>3, <2>4, <2>5, <2>6, <2>7, <2>8, <2>9, <2>10, <2>11
       DEF Next, ServerStep, JoinLoad, ReconnectLoad, CloseLoad, CloseAnnounce, Cancel, SocketLoad,
           Bump, CommandLoad, CommandCommit, ForwardEnd, HangUp, DisconnectLoad, Crash
  <2> QED BY <1>1, <2>10, <2>11 DEF vars
<1>2. Inv /\ [Next]_vars =>
        [\A s \in Sessions :
           row[s].connected /\ row'[s].exists /\ ~row'[s].connected =>
             \/ \E q \in Requests : request[q].session = s /\ request[q].pc \in {"join", "touch"}
             \/ \E c \in Sockets : /\ socket[c].session = s
                                   /\ socket[c].generation = row[s].generation
                                   /\ socket[c].pc \in {"leave", "disconnect"}]_vars
  BY <1>1
<1> QED BY <1>2, SpecInv, PTL DEF Spec, OnlyOwnDisconnects
=============================================================================
