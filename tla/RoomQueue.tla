----------------------------- MODULE RoomQueue ------------------------------
(***************************************************************************)
(* The queue handlers of RoomService as they run. Every handler reads the  *)
(* room (load_active_aggregate), computes the columns it will write from   *)
(* that copy, and writes them with UPDATE ... WHERE revision = $revision.  *)
(* Other handlers, on this or another instance, run in between. $revision  *)
(* is the revision the client sent with its request, or the one read for   *)
(* the commands that carry none.                                           *)
(*                                                                         *)
(* The two SELECTs of a load are one step. Events are in RoomSync, the     *)
(* sessions themselves in RoomPresence; here a session is live or not, and *)
(* what presence does to the room is to raise its revision.                *)
(***************************************************************************)
EXTENDS Integers, Sequences, FiniteSets

CONSTANTS Songs, Sessions, Sources, MaxRevision,
          Members,    \* sessions of signed-in members of the owning team
          Host,       \* the session that created the room
          Handlers    \* requests in progress at the same time

ASSUME QueueAssumption == /\ IsFiniteSet(Sessions)
                          /\ Sources \subseteq Seq(Songs)
                          /\ MaxRevision \in Nat
                          /\ Members \subseteq Sessions
                          /\ Host \in Members

VARIABLES room,     \* the room record
          live,     \* sessions whose lease has not expired
          handler,  \* per request: where it is and what it computed
          reply     \* the answer sent to a client in the last step, if any

vars == <<room, live, handler, reply>>

\* The refinement mapping: the record as it is stored; handlers, leases and
\* replies are hidden.
Atomic == INSTANCE RoomAtomic
            WITH Songs <- Songs, Sessions <- Sessions, Sources <- Sources,
                 MaxRevision <- MaxRevision, room <- room

Kinds   == {"add", "vote", "host", "promote", "musical", "access"}
Steps   == {"idle", "recheck", "commit", "refresh"}
Answers == {"none", "ok", "revision_conflict", "not_found", "panic"}

Handler == [pc: Steps, kind: Kinds, revision: Nat,
            next: Atomic!Room,      \* the columns to write, as a whole room
            wrote: BOOLEAN]         \* its UPDATE changed the row
Reply   == [answer: Answers, wrote: BOOLEAN]

NoRoom == [Atomic!NewRoom(<<>>, <<>>) EXCEPT !.open = FALSE]
Idle   == [pc |-> "idle", kind |-> "host", revision |-> 0, next |-> NoRoom,
           wrote |-> FALSE]
NoReply == [answer |-> "none", wrote |-> FALSE]

Init == /\ Atomic!Init
        /\ live = {Host}
        /\ handler = [h \in Handlers |-> Idle]
        /\ reply = NoReply

-----------------------------------------------------------------------------
(* Reading the room and computing what to write.                           *)

Begin(h, pc, kind, revision, next) ==
  /\ handler' = [handler EXCEPT ![h] = [Idle EXCEPT !.pc = pc, !.kind = kind,
                                          !.revision = revision, !.next = next]]
  /\ reply' = NoReply
  /\ UNCHANGED <<room, live>>

(* The request of h is over and its client is told.                        *)
Answer(h, answer, wrote) ==
  /\ handler' = [handler EXCEPT ![h] = Idle]
  /\ reply' = [answer |-> answer, wrote |-> wrote]

CanLoad(h) == handler[h].pc = "idle" /\ room.open

(* A client sends a revision it was told of, so one the room has had.      *)
KnownRevisions == 1..room.revision

(* add_queue_item compares the client's revision only in its UPDATE.       *)
AddLoad(h) ==
  /\ CanLoad(h)
  /\ Members \intersect live # {}
  /\ \E revision \in KnownRevisions, n \in Atomic!AddResults(room) :
       Begin(h, "commit", "add", revision, n)

VoteLoad(h) ==
  /\ CanLoad(h)
  /\ \E s \in live : \E n \in Atomic!VoteResults(room, s) :
       Begin(h, "commit", "vote", room.revision, n)

(* remove_queue_item and reorder_queue read the room without looking at    *)
(* the revision; update_queue_for_host reads it again and compares.        *)
HostQueueLoad(h) ==
  /\ CanLoad(h)
  /\ \E revision \in KnownRevisions,
        q \in Atomic!Removals(room.queue) \union Atomic!Reorderings(room.queue) :
       Begin(h, "recheck", "host", revision, [room EXCEPT !.queue = q])

Recheck(h) ==
  LET me == handler[h] IN
  /\ me.pc = "recheck"
  /\ \/ ~room.open /\ Answer(h, "not_found", FALSE)
     \/ room.open /\ room.revision # me.revision /\ Answer(h, "revision_conflict", FALSE)
     \/ /\ room.open /\ room.revision = me.revision
        /\ handler' = [handler EXCEPT
             ![h].pc = "commit", ![h].next = Atomic!HostQueueResult(room, me.next.queue)]
        /\ reply' = NoReply
  /\ UNCHANGED <<room, live>>

(* reorder_queue accepts a list of the right length whose ids all exist;   *)
(* a list that repeats an id passes and fails in expect().                 *)
ReorderRepeated(h) ==
  /\ CanLoad(h)
  /\ Len(room.queue) > 1
  /\ Answer(h, "panic", FALSE)
  /\ UNCHANGED <<room, live>>

PromoteLoad(h) ==
  /\ CanLoad(h)
  /\ \E n \in Atomic!PromoteResults(room) : Begin(h, "commit", "promote", room.revision, n)

MusicalLoad(h) ==
  /\ CanLoad(h)
  /\ Host \in live
  /\ \E n \in Atomic!MusicalResults(room) : Begin(h, "commit", "musical", room.revision, n)

AccessLoad(h) ==
  /\ CanLoad(h)
  /\ Begin(h, "commit", "access", room.revision, Atomic!AccessResult(room))

-----------------------------------------------------------------------------
(* The conditional UPDATE: only the columns a request owns are written.    *)

MatchesAny(h) == room.open          \* mutant: WHERE revision = ... is dropped
Matches(h) == room.open /\ room.revision = handler[h].revision

Written(r, n, kind) ==
  CASE kind = "add"     -> [r EXCEPT !.content = n.content, !.queue = n.queue]
    [] kind = "vote"    -> [r EXCEPT !.queue = n.queue, !.votes = n.votes]
    [] kind = "host"    -> [r EXCEPT !.queue = n.queue, !.votes = n.votes]
    [] kind = "promote" -> [r EXCEPT !.queue = n.queue, !.votes = n.votes,
                                     !.musical = n.musical]
    [] kind = "musical" -> [r EXCEPT !.musical = n.musical]
    [] kind = "access"  -> [r EXCEPT !.additions = n.additions]

(* activate_song_from_aggregate does not look at what its UPDATE returned. *)
Finish(h, answer, wrote) ==
  IF handler[h].kind = "promote"
  THEN /\ handler' = [handler EXCEPT ![h] =
                        [@ EXCEPT !.pc = "refresh", !.next = NoRoom, !.wrote = wrote]]
       /\ reply' = NoReply
  ELSE Answer(h, answer, wrote)

CommitWrites(h) ==
  /\ handler[h].pc = "commit"
  /\ Matches(h)
  /\ room.revision < MaxRevision
  /\ room' = [Written(room, handler[h].next, handler[h].kind) EXCEPT
                !.revision = room.revision + 1]
  /\ Finish(h, "ok", TRUE)
  /\ UNCHANGED live

CommitConflicts(h) ==
  /\ handler[h].pc = "commit"
  /\ ~Matches(h)
  /\ Finish(h, "revision_conflict", FALSE)
  /\ UNCHANGED <<room, live>>

(* It reads the room again and takes the revision it finds for the answer. *)
PromoteRefresh(h) ==
  LET me == handler[h] IN
  /\ me.pc = "refresh"
  /\ \/ ~room.open /\ Answer(h, "not_found", me.wrote)
     \/ room.open /\ room.revision = me.revision + 1 /\ Answer(h, "ok", me.wrote)
     \/ room.open /\ room.revision # me.revision + 1 /\ Answer(h, "revision_conflict", me.wrote)
  /\ UNCHANGED <<room, live>>

-----------------------------------------------------------------------------
(* The rest of the service, as far as these handlers can tell.             *)

(* Joins, connections, leaves and the other shared fields: a new revision. *)
OtherWrite ==
  /\ room.open
  /\ room.revision < MaxRevision
  /\ room' = [room EXCEPT !.revision = @ + 1]
  /\ reply' = NoReply
  /\ UNCHANGED <<live, handler>>

(* A lease starts, is renewed or runs out.                                 *)
LeaseChange(s) ==
  /\ live' = IF s \in live THEN live \ {s} ELSE live \union {s}
  /\ reply' = NoReply
  /\ UNCHANGED <<room, handler>>

Close ==
  /\ room.open
  /\ room' = [room EXCEPT !.open = FALSE]
  /\ reply' = NoReply
  /\ UNCHANGED <<live, handler>>

Next ==
  \/ \E h \in Handlers :
       \/ AddLoad(h) \/ VoteLoad(h) \/ HostQueueLoad(h) \/ ReorderRepeated(h)
       \/ PromoteLoad(h) \/ MusicalLoad(h) \/ AccessLoad(h)
       \/ Recheck(h) \/ CommitWrites(h) \/ CommitConflicts(h) \/ PromoteRefresh(h)
  \/ OtherWrite
  \/ \E s \in Sessions : LeaseChange(s)
  \/ Close

Spec == Init /\ [][Next]_vars

-----------------------------------------------------------------------------
TypeOK == /\ room \in Atomic!Room
          /\ live \subseteq Sessions
          /\ handler \in [Handlers -> Handler]
          /\ reply \in Reply

(* No update is lost or applied to a room it was not computed from: the    *)
(* loads and conditional updates of concurrent handlers amount to atomic   *)
(* requests on the room as it is.                                          *)
ImplementsAtomic == Atomic!Spec

(* Activating a queue row "makes the selected song current": a promotion   *)
(* that is answered with success has written the room.                     *)
SuccessMeansWritten == reply.answer = "ok" => reply.wrote
=============================================================================
