---------------------------- MODULE RoomPresence ----------------------------
(***************************************************************************)
(* The sessions of a room and the connections that speak for them: join,   *)
(* reconnect, connection tickets, heartbeats, leave, disconnect and close, *)
(* and the commands whose authority depends on who a session is.           *)
(*                                                                         *)
(* A request is an HTTP handler, a socket the server task of a WebSocket;  *)
(* both run database statements one at a time and everything else may run  *)
(* between two of them. The tables room and room_session are shared by all *)
(* instances of the backend; broadcasts reach one instance only.           *)
(*                                                                         *)
(* A ticket and a connection generation are always made together, so the   *)
(* ticket of generation g is identified with g. Time is left out: a lease  *)
(* or an unused ticket may run out at any moment.                          *)
(***************************************************************************)
EXTENDS Integers, FiniteSets

CONSTANTS Sessions,      \* the room_session records that may come to exist
          Host,          \* the session of the room's creator
          AvSessions,    \* sessions that join in AV mode; a mode never changes
          Guests,        \* sessions that join without an account
          Requests, Sockets,
          Instance,      \* the instance each request and socket runs on
          NoSession,
          MaxGeneration, \* bound: connection tickets issued per session
          MaxRevision    \* bound: revisions of the room

ASSUME PresenceAssumption ==
  /\ Host \in Sessions \ Guests
  /\ NoSession \notin Sessions
  /\ Guests \subseteq Sessions /\ AvSessions \subseteq Sessions
  /\ MaxGeneration \in Nat /\ MaxRevision \in Nat

VARIABLES room,     \* the room record
          row,      \* the room_session records
          request,  \* per request: its next statement and what it has decided
          socket    \* per socket: its next statement and who it speaks for

vars == <<room, row, request, socket>>

Room == [open: BOOLEAN, revision: Nat, av: Sessions \union {NoSession},
         guest_access_allowed: BOOLEAN, new_joins_locked: BOOLEAN,
         projection: Sessions \union {NoSession}]   \* whose projection it shows
Row  == [exists: BOOLEAN, connected: BOOLEAN, live: BOOLEAN, generation: Nat,
         ticket: {"unused", "consumed", "expired"}]
Request == [pc: {"idle", "join", "touch", "issue", "delete", "announce"},
            session: Sessions, is_new: BOOLEAN]
Loop   == {"up", "projection", "guests", "lock", "leave"}
Socket == [pc: Loop \union {"down", "load", "open", "opened", "left", "check",
                            "disconnect", "disconnected"},
           session: Sessions, generation: Nat,
           revision: Nat,       \* read by the command in progress
           ended: BOOLEAN]      \* RoomEnded waits in its broadcast queue

Absent  == [exists |-> FALSE, connected |-> FALSE, live |-> FALSE, generation |-> 0,
            ticket |-> "expired"]
Idle    == [pc |-> "idle", session |-> Host, is_new |-> FALSE]
Down    == [pc |-> "down", session |-> Host, generation |-> 0, revision |-> 0,
            ended |-> FALSE]
Renewed(r, connected) == [r EXCEPT !.connected = connected, !.live = TRUE]
Issued(r) == [r EXCEPT !.generation = @ + 1, !.ticket = "unused"]

(* RoomService::create: the host's session, with its first ticket.         *)
Init ==
  /\ room = [open |-> TRUE, revision |-> 1,
             av |-> IF Host \in AvSessions THEN Host ELSE NoSession,
             guest_access_allowed |-> FALSE, new_joins_locked |-> FALSE,
             projection |-> NoSession]
  /\ row = [s \in Sessions |-> IF s = Host
                               THEN Issued(Renewed([Absent EXCEPT !.exists = TRUE], FALSE))
                               ELSE Absent]
  /\ request = [q \in Requests |-> Idle]
  /\ socket = [c \in Sockets |-> Down]

(* UPDATE room SET revision += 1 [, ...]: no record, no effect.            *)
UpdateRoomSilently(changed) ==      \* mutant: the revision stays
  IF room.open THEN room' = changed ELSE UNCHANGED room
UpdateRoom(changed) ==
  IF room.open
  THEN /\ room.revision < MaxRevision
       /\ room' = [changed EXCEPT !.revision = room.revision + 1]
  ELSE UNCHANGED room

UpdateRow(s, changed) ==
  row' = IF row[s].exists THEN [row EXCEPT ![s] = changed] ELSE row

-----------------------------------------------------------------------------
(* join: the checks are made on what was read, the transaction repeats     *)
(* none of them.                                                           *)

AvOccupied(s) == /\ room.av \notin {s, NoSession}
                 /\ row[room.av].exists /\ row[room.av].live

(* A session that joins anew has an id nobody has used.                    *)
Unheard(s) == /\ row[s].generation = 0
              /\ \A q \in Requests : request[q].pc = "join" => request[q].session # s

JoinLoad(q, s) ==
  /\ request[q].pc = "idle"
  /\ room.open
  /\ row[s].exists \/ Unheard(s)
  /\ s \in Guests => room.guest_access_allowed
  /\ room.new_joins_locked => row[s].exists
  /\ s \in AvSessions => ~AvOccupied(s)
  /\ request' = [request EXCEPT ![q] = [pc |-> "join", session |-> s,
                                        is_new |-> ~row[s].exists]]
  /\ UNCHANGED <<room, row, socket>>

ClaimAvByRow(s) ==                  \* mutant: the record, not its id
  IF s \in AvSessions THEN [room EXCEPT !.av = row[s]] ELSE room
ClaimAv(s) == IF s \in AvSessions THEN [room EXCEPT !.av = s] ELSE room

JoinCommit(q) ==
  LET s == request[q].session IN
  /\ request[q].pc = "join"
  /\ row[s].generation < MaxGeneration
  /\ IF request[q].is_new
     THEN row' = [row EXCEPT ![s] = Issued(Renewed([@ EXCEPT !.exists = TRUE], FALSE))]
     ELSE UpdateRow(s, Issued(Renewed(row[s], FALSE)))
  /\ UpdateRoom(ClaimAv(s))
  /\ request' = [request EXCEPT ![q] = Idle]
  /\ UNCHANGED socket

-----------------------------------------------------------------------------
(* reconnect marks the session disconnected and then issues a ticket.      *)

ReconnectLoad(q, s) ==
  /\ request[q].pc = "idle"
  /\ room.open /\ row[s].exists
  /\ request' = [request EXCEPT ![q] = [pc |-> "touch", session |-> s, is_new |-> FALSE]]
  /\ UNCHANGED <<room, row, socket>>

ReconnectTouch(q) ==
  LET s == request[q].session IN
  /\ request[q].pc = "touch"
  /\ UpdateRow(s, Renewed(row[s], FALSE))
  /\ request' = [request EXCEPT ![q].pc = "issue"]
  /\ UNCHANGED <<room, socket>>

IssueTicket(q) ==
  LET s == request[q].session IN
  /\ request[q].pc = "issue"
  /\ row[s].generation < MaxGeneration
  /\ UpdateRow(s, Issued(row[s]))
  /\ request' = [request EXCEPT ![q] = Idle]
  /\ UNCHANGED <<room, socket>>

-----------------------------------------------------------------------------
(* close                                                                   *)

CloseLoad(q) ==
  /\ request[q].pc = "idle"
  /\ room.open
  /\ request' = [request EXCEPT ![q].pc = "delete"]
  /\ UNCHANGED <<room, row, socket>>

CloseDelete(q) ==
  /\ request[q].pc = "delete"
  /\ row' = [s \in Sessions |-> [Absent EXCEPT !.generation = row[s].generation]]
  /\ room' = [room EXCEPT !.open = FALSE]
  /\ request' = [request EXCEPT ![q] = IF room.open THEN [@ EXCEPT !.pc = "announce"]
                                                    ELSE Idle]
  /\ UNCHANGED socket

Subscribed == {c \in Sockets : socket[c].pc \in Loop \union {"open", "opened"}}

CloseAnnounce(q) ==
  /\ request[q].pc = "announce"
  /\ socket' = [c \in Sockets |->
                  IF c \in Subscribed /\ Instance[c] = Instance[q]
                  THEN [socket[c] EXCEPT !.ended = TRUE] ELSE socket[c]]
  /\ request' = [request EXCEPT ![q] = Idle]
  /\ UNCHANGED <<room, row>>

(* A handler stops between two statements: its client hung up, or its      *)
(* instance went away.                                                     *)
Cancel(q) ==
  /\ request[q].pc # "idle"
  /\ request' = [request EXCEPT ![q] = Idle]
  /\ UNCHANGED <<room, row, socket>>

-----------------------------------------------------------------------------
(* A socket opens: consume_ticket.                                         *)

Go(c, pc) == socket' = [socket EXCEPT ![c].pc = pc]

ConsumeTicketTwice(c, s) ==         \* mutant: consumed_at is not set
  /\ socket[c].pc = "down"
  /\ row[s].exists /\ row[s].ticket = "unused"
  /\ socket' = [socket EXCEPT ![c] = [Down EXCEPT !.pc = "load", !.session = s,
                                        !.generation = row[s].generation]]
  /\ UNCHANGED <<room, row, request>>

ConsumeTicket(c, s) ==
  /\ socket[c].pc = "down"
  /\ row[s].exists /\ row[s].ticket = "unused"
  /\ row' = [row EXCEPT ![s].ticket = "consumed"]
  /\ socket' = [socket EXCEPT ![c] = [Down EXCEPT !.pc = "load", !.session = s,
                                        !.generation = row[s].generation]]
  /\ UNCHANGED <<room, request>>

SocketLoadUnchecked(c) ==           \* mutant: an ended room is not noticed
  /\ socket[c].pc = "load"
  /\ Go(c, "open")
  /\ UNCHANGED <<room, row, request>>

SocketLoad(c) ==
  /\ socket[c].pc = "load"
  /\ IF room.open /\ row[socket[c].session].exists
     THEN Go(c, "open")
     ELSE socket' = [socket EXCEPT ![c] = Down]
  /\ UNCHANGED <<room, row, request>>

Current(c) == LET r == row[socket[c].session] IN
              r.exists /\ r.generation = socket[c].generation

(* UPDATE room_session ... WHERE connection_generation = ...               *)
UpdateAnyGeneration(c, changed) ==  \* mutant: WHERE connection_generation is dropped
  row' = IF row[socket[c].session].exists
         THEN [row EXCEPT ![socket[c].session] = changed] ELSE row
UpdateOwn(c, changed) ==
  row' = IF Current(c) THEN [row EXCEPT ![socket[c].session] = changed] ELSE row

SocketOpen(c) ==
  /\ socket[c].pc = "open"
  /\ UpdateOwn(c, Renewed(row[socket[c].session], TRUE))
  /\ Go(c, "opened")
  /\ UNCHANGED <<room, request>>

(* The revision is raised by a statement of its own.                       *)
Bump(c) ==
  /\ socket[c].pc \in {"opened", "left", "disconnected"}
  /\ UpdateRoom(room)
  /\ socket' = [socket EXCEPT ![c] =
       CASE @.pc = "opened" -> [@ EXCEPT !.pc = "up"]
         [] @.pc = "left" -> [@ EXCEPT !.pc = "check"]
         [] @.pc = "disconnected" -> Down]
  /\ UNCHANGED <<row, request>>

-----------------------------------------------------------------------------
(* The loop of an open socket, one message or event at a time. A heartbeat *)
(* that fails is not answered; RoomEnded makes the client hang up.         *)

HeartbeatRenewsOnly(c) ==           \* mutant: the lease, but not connected = true
  /\ socket[c].pc = "up"
  /\ UpdateOwn(c, Renewed(row[socket[c].session], row[socket[c].session].connected))
  /\ IF Current(c) /\ ~room.open THEN Go(c, "check") ELSE UNCHANGED socket
  /\ UNCHANGED <<room, request>>

Heartbeat(c) ==
  /\ socket[c].pc = "up"
  /\ UpdateOwn(c, Renewed(row[socket[c].session], TRUE))
  /\ IF Current(c) /\ ~room.open THEN Go(c, "check") ELSE UNCHANGED socket
  /\ UNCHANGED <<room, request>>

Permitted(c, kind) ==
  LET s == socket[c].session IN
  CASE kind = "projection" -> room.av = s /\ room.projection # s
    [] kind \in {"guests", "lock"} -> s = Host
    [] kind = "leave" -> TRUE

CommandLoad(c) ==
  /\ socket[c].pc = "up"
  /\ \/ ~room.open /\ Go(c, "check")
     \/ /\ room.open /\ Current(c) /\ row[socket[c].session].live
        /\ \E kind \in Loop \ {"up"} :
             /\ Permitted(c, kind)
             /\ socket' = [socket EXCEPT ![c].pc = kind, ![c].revision = room.revision]
  /\ UNCHANGED <<room, row, request>>

(* UpdateProjection, UpdateGuestsAllowed and UpdateRoomLocked, with        *)
(* UPDATE ... WHERE revision = $revision.                                  *)
CommandCommit(c) ==
  LET kind == socket[c].pc IN
  /\ kind \in {"projection", "guests", "lock"}
  /\ IF room.revision = socket[c].revision
     THEN UpdateRoom(CASE kind = "projection" -> [room EXCEPT !.projection = socket[c].session]
                       [] kind = "guests" -> [room EXCEPT !.guest_access_allowed = ~@]
                       [] kind = "lock" -> [room EXCEPT !.new_joins_locked = ~@])
     ELSE UNCHANGED room
  /\ socket' = [socket EXCEPT ![c].pc = "up", ![c].revision = 0]
  /\ UNCHANGED <<row, request>>

Departed(r) == [r EXCEPT !.connected = FALSE, !.live = FALSE]

Leave(c) ==
  /\ socket[c].pc = "leave"
  /\ UpdateOwn(c, Departed(row[socket[c].session]))
  /\ socket' = [socket EXCEPT ![c].pc = "left", ![c].revision = 0]
  /\ UNCHANGED <<room, request>>

(* The event RoomEnded is forwarded; or the connection is lost.            *)
ForwardEnd(c) ==
  /\ socket[c].pc = "up" /\ socket[c].ended
  /\ Go(c, "check")
  /\ UNCHANGED <<room, row, request>>

HangUp(c) ==
  /\ socket[c].pc = "up"
  /\ Go(c, "check")
  /\ UNCHANGED <<room, row, request>>

(* disconnect, when the loop is over.                                      *)
DisconnectLoad(c) ==
  /\ socket[c].pc = "check"
  /\ IF room.open /\ Current(c) /\ row[socket[c].session].connected
     THEN Go(c, "disconnect")
     ELSE socket' = [socket EXCEPT ![c] = Down]
  /\ UNCHANGED <<room, row, request>>

Disconnect(c) ==
  /\ socket[c].pc = "disconnect"
  /\ UpdateOwn(c, Departed(row[socket[c].session]))
  /\ Go(c, "disconnected")
  /\ UNCHANGED <<room, request>>

(* The instance of a socket goes away: nobody calls disconnect.            *)
Crash(c) ==
  /\ socket[c].pc # "down"
  /\ socket' = [socket EXCEPT ![c] = Down]
  /\ UNCHANGED <<room, row, request>>

-----------------------------------------------------------------------------
LeaseExpires(s) ==
  /\ row[s].exists /\ row[s].live
  /\ row' = [row EXCEPT ![s].live = FALSE]
  /\ UNCHANGED <<room, request, socket>>

TicketExpires(s) ==
  /\ row[s].exists /\ row[s].ticket = "unused"
  /\ row' = [row EXCEPT ![s].ticket = "expired"]
  /\ UNCHANGED <<room, request, socket>>

ServerStep(c) == \/ SocketLoad(c) \/ SocketOpen(c) \/ Bump(c) \/ CommandCommit(c)
                 \/ Leave(c) \/ DisconnectLoad(c) \/ Disconnect(c)

Next ==
  \/ \E q \in Requests :
       \/ \E s \in Sessions : JoinLoad(q, s) \/ ReconnectLoad(q, s)
       \/ JoinCommit(q) \/ ReconnectTouch(q) \/ IssueTicket(q)
       \/ CloseLoad(q) \/ CloseDelete(q) \/ CloseAnnounce(q) \/ Cancel(q)
  \/ \E c \in Sockets :
       \/ \E s \in Sessions : ConsumeTicket(c, s)
       \/ ServerStep(c) \/ Heartbeat(c) \/ CommandLoad(c)
       \/ ForwardEnd(c) \/ HangUp(c) \/ Crash(c)
  \/ \E s \in Sessions : LeaseExpires(s) \/ TicketExpires(s)

Spec == Init /\ [][Next]_vars

(* The server runs its tasks, clients send a heartbeat every ten seconds   *)
(* as long as the socket is open, and leases run out.                      *)
Fairness == /\ \A c \in Sockets : /\ WF_vars(ServerStep(c))
                                  /\ WF_vars(Heartbeat(c))
                                  /\ WF_vars(ForwardEnd(c))
            /\ \A q \in Requests : WF_vars(CloseAnnounce(q))
            /\ \A s \in Sessions : WF_vars(LeaseExpires(s))

FairSpec == Spec /\ Fairness

-----------------------------------------------------------------------------
TypeOK == /\ room \in Room
          /\ row \in [Sessions -> Row]
          /\ request \in [Requests -> Request]
          /\ socket \in [Sockets -> Socket]

(* A ticket opens one socket: no two sockets speak for the same session    *)
(* and generation, whatever joins and reconnects happen in between.        *)
OneSocketPerTicket ==
  \A c, d \in Sockets :
    c # d /\ socket[c].pc # "down" /\ socket[d].pc # "down" =>
      \/ socket[c].session # socket[d].session
      \/ socket[c].generation # socket[d].generation

(* A projection is only ever written by the session that owns AV at that   *)
(* moment, although ownership is checked one statement earlier.            *)
ProjectionByAv ==
  [][room'.projection # room.projection => room'.projection = room.av]_vars

(* A session is marked disconnected by the socket that speaks for it now   *)
(* or by its owner's reconnect or join, never by a superseded socket.      *)
OnlyOwnDisconnects ==
  [][\A s \in Sessions :
       row[s].connected /\ row'[s].exists /\ ~row'[s].connected =>
         \/ \E q \in Requests : request[q].session = s /\ request[q].pc \in {"join", "touch"}
         \/ \E c \in Sockets : /\ socket[c].session = s
                               /\ socket[c].generation = row[s].generation
                               /\ socket[c].pc \in {"leave", "disconnect"}]_vars

(* A session record that a late join leaves behind in a closed room is     *)
(* never connected, and no socket comes to speak for it.                   *)
OrphansStayOut ==
  ~room.open => /\ \A s \in Sessions : row[s].exists => ~row[s].connected
                /\ \A c \in Sockets : socket[c].pc \in Loop => ~Current(c)

(* Presence recovers: a socket that holds the current generation ends up   *)
(* shown as connected, or gives way to another or ends.                    *)
HeartbeatHeals ==
  \A c \in Sockets :
    socket[c].pc = "up" /\ Current(c) ~>
      \/ row[socket[c].session].connected
      \/ socket[c].pc # "up" \/ ~Current(c)

(* A session that nobody speaks for any more, because its instance crashed *)
(* or its connection was lost, stops being shown as connected for good:    *)
(* sockets that were superseded do not keep it alive.                      *)
Shown(s)  == row[s].exists /\ row[s].connected /\ row[s].live
Spoken(s) == \/ \E q \in Requests : request[q].pc # "idle" /\ request[q].session = s
             \/ \E c \in Sockets : /\ socket[c].pc # "down" /\ socket[c].session = s
                                   /\ Current(c)
GhostsFade == \A s \in Sessions : <>[]~Spoken(s) => <>[]~Shown(s)

-----------------------------------------------------------------------------
(* What the documentation says of rooms and the code does not always keep. *)

(* "Across backend instances, clients converge from authoritative database *)
(* state on the next active-room heartbeat": an open socket of a room that *)
(* is gone does not stay as it is.                                         *)
EndIsNoticed == \A c \in Sockets : ~room.open /\ socket[c].pc = "up" ~> socket[c].pc # "up"
=============================================================================
