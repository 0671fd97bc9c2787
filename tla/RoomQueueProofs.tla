--------------------------- MODULE RoomQueueProofs ----------------------------
(***************************************************************************)
(* RoomQueue implements RoomAtomic, for any number of concurrent requests, *)
(* sessions and songs. What a request is about to write was computed from  *)
(* the room as it is, or the room's revision has moved past the one its    *)
(* conditional UPDATE asks for and it will never be written.               *)
(***************************************************************************)
EXTENDS RoomQueue, TLAPS

Fields == {"open", "revision", "content", "queue", "votes", "musical", "additions"}

IsRoom(r) == DOMAIN r = Fields /\ r.revision \in Nat

Due(me, r) == r.open /\ r.revision = me.revision

(* A room the request me may write over r.                                 *)
Computed(me, r) ==
  \/ me.kind = "add" /\ me.next \in Atomic!AddResults(r)
  \/ me.kind = "vote" /\ \E s \in Sessions : me.next \in Atomic!VoteResults(r, s)
  \/ /\ me.kind = "host"
     /\ \E q \in Atomic!Removals(r.queue) \union Atomic!Reorderings(r.queue) :
          me.next = Atomic!HostQueueResult(r, q)
  \/ me.kind = "promote" /\ me.next \in Atomic!PromoteResults(r)
  \/ me.kind = "musical" /\ me.next \in Atomic!MusicalResults(r)
  \/ me.kind = "access" /\ me.next = Atomic!AccessResult(r)

Current(me, r) ==
  /\ DOMAIN me = {"pc", "kind", "revision", "next", "wrote"}
  /\ me.revision \in Nat /\ me.revision <= r.revision
  /\ me.pc = "commit" /\ Due(me, r) => Computed(me, r)
  /\ me.pc = "recheck" /\ Due(me, r) =>
       /\ me.kind = "host"
       /\ me.next.queue \in Atomic!Removals(r.queue) \union Atomic!Reorderings(r.queue)

(* The inductive invariant.                                                *)
IInv == /\ IsRoom(room)
        /\ DOMAIN handler = Handlers
        /\ live \subseteq Sessions
        /\ \A h \in Handlers : Current(handler[h], room)

(* A room that moved on, or was closed, makes no request's result current. *)
LEMMA CurrentLater ==
  ASSUME NEW me, NEW r, IsRoom(r), NEW s, IsRoom(s), Current(me, r),
         s.revision > r.revision \/ (s.revision = r.revision /\ ~s.open)
  PROVE  Current(me, s)
BY DEF Current, Due, IsRoom

LEMMA IdleCurrent ==
  ASSUME NEW r, IsRoom(r), NEW me, me.pc \in {"idle", "refresh"},
         DOMAIN me = {"pc", "kind", "revision", "next", "wrote"},
         me.revision \in Nat, me.revision <= r.revision
  PROVE  Current(me, r)
BY DEF Current, IsRoom

LEMMA InitInv == Init => IInv
<1> SUFFICES ASSUME Init PROVE IInv
  OBVIOUS
<1>1. IsRoom(room)
  BY DEF Init, Atomic!Init, Atomic!NewRoom, IsRoom, Fields
<1>2. \A h \in Handlers : Current(handler[h], room)
  BY <1>1 DEF Init, Idle, Current, IsRoom
<1> QED BY <1>1, <1>2, QueueAssumption DEF Init, IInv

(* A step that changes one request, and nothing else of the state.         *)
LEMMA RequestStep ==
  ASSUME IInv, NEW h \in Handlers, NEW me, Current(me, room),
         handler' = [handler EXCEPT ![h] = me], UNCHANGED <<room, live>>
  PROVE  IInv'
BY DEF IInv

Requested(pc, kind, revision, next) ==
  [Idle EXCEPT !.pc = pc, !.kind = kind, !.revision = revision, !.next = next]

LEMMA RequestedParts ==
  ASSUME NEW pc, NEW kind, NEW revision, NEW next
  PROVE  LET me == Requested(pc, kind, revision, next) IN
         /\ DOMAIN me = {"pc", "kind", "revision", "next", "wrote"}
         /\ me.pc = pc /\ me.kind = kind /\ me.revision = revision /\ me.next = next
BY DEF Requested, Idle

LEMMA BeginStep ==
  ASSUME IInv, NEW h \in Handlers, NEW pc, NEW kind, NEW revision, NEW next,
         Begin(h, pc, kind, revision, next),
         Current(Requested(pc, kind, revision, next), room)
  PROVE  IInv'
BY RequestStep DEF Begin, Requested

LEMMA CommitCurrent ==
  ASSUME IInv, NEW kind, NEW revision, revision \in Nat, revision <= room.revision, NEW next,
         room.revision = revision => Computed(Requested("commit", kind, revision, next), room)
  PROVE  Current(Requested("commit", kind, revision, next), room)
BY RequestedParts DEF Current, Due

LEMMA RecheckCurrent ==
  ASSUME IInv, NEW revision, revision \in Nat, revision <= room.revision, NEW next,
         next.queue \in Atomic!Removals(room.queue) \union Atomic!Reorderings(room.queue)
  PROVE  Current(Requested("recheck", "host", revision, next), room)
BY RequestedParts DEF Current, Due

LEMMA LoadInv ==
  ASSUME IInv, NEW h \in Handlers,
         \/ AddLoad(h) \/ VoteLoad(h) \/ HostQueueLoad(h)
         \/ PromoteLoad(h) \/ MusicalLoad(h) \/ AccessLoad(h)
  PROVE  IInv'
<1>0. room.revision \in Nat /\ DOMAIN room = Fields /\ live \subseteq Sessions
  BY DEF IInv, IsRoom
<1>1. CASE AddLoad(h)
  <2>1. PICK revision \in KnownRevisions, n \in Atomic!AddResults(room) :
          Begin(h, "commit", "add", revision, n)
    BY <1>1 DEF AddLoad
  <2>2. Computed(Requested("commit", "add", revision, n), room)
    BY RequestedParts DEF Computed
  <2>3. revision \in Nat /\ revision <= room.revision
    BY <1>0 DEF KnownRevisions
  <2> QED BY <2>1, <2>2, <2>3, CommitCurrent, BeginStep
<1>2. CASE VoteLoad(h)
  <2>1. PICK s \in live : \E n \in Atomic!VoteResults(room, s) :
          Begin(h, "commit", "vote", room.revision, n)
    BY <1>2 DEF VoteLoad
  <2>2. PICK n \in Atomic!VoteResults(room, s) : Begin(h, "commit", "vote", room.revision, n)
    BY <2>1
  <2>3. Computed(Requested("commit", "vote", room.revision, n), room)
    BY <1>0, <2>2, RequestedParts DEF Computed
  <2> QED BY <1>0, <2>2, <2>3, CommitCurrent, BeginStep
<1>3. CASE HostQueueLoad(h)
  <2>1. PICK revision \in KnownRevisions,
             q \in Atomic!Removals(room.queue) \union Atomic!Reorderings(room.queue) :
          Begin(h, "recheck", "host", revision, [room EXCEPT !.queue = q])
    BY <1>3 DEF HostQueueLoad
  <2> DEFINE next == [room EXCEPT !.queue = q]
  <2>2. next.queue = q
    BY <1>0 DEF Fields
  <2>3. revision \in Nat /\ revision <= room.revision
    BY <1>0 DEF KnownRevisions
  <2>4. Begin(h, "recheck", "host", revision, next)
    BY <2>1
  <2> HIDE DEF next
  <2>5. Current(Requested("recheck", "host", revision, next), room)
    BY <2>2, <2>3, RecheckCurrent
  <2> QED BY <2>4, <2>5, BeginStep
<1>4. CASE PromoteLoad(h)
  <2>1. PICK n \in Atomic!PromoteResults(room) : Begin(h, "commit", "promote", room.revision, n)
    BY <1>4 DEF PromoteLoad
  <2>2. Computed(Requested("commit", "promote", room.revision, n), room)
    BY RequestedParts DEF Computed
  <2> QED BY <1>0, <2>1, <2>2, CommitCurrent, BeginStep
<1>5. CASE MusicalLoad(h)
  <2>1. PICK n \in Atomic!MusicalResults(room) : Begin(h, "commit", "musical", room.revision, n)
    BY <1>5 DEF MusicalLoad
  <2>2. Computed(Requested("commit", "musical", room.revision, n), room)
    BY RequestedParts DEF Computed
  <2> QED BY <1>0, <2>1, <2>2, CommitCurrent, BeginStep
<1>6. CASE AccessLoad(h)
  <2> DEFINE n == Atomic!AccessResult(room)
  <2>1. Begin(h, "commit", "access", room.revision, n)
    BY <1>6 DEF AccessLoad
  <2>2. Computed(Requested("commit", "access", room.revision, n), room)
    BY RequestedParts DEF Computed
  <2> HIDE DEF n
  <2> QED BY <1>0, <2>1, <2>2, CommitCurrent, BeginStep
<1> QED BY <1>1, <1>2, <1>3, <1>4, <1>5, <1>6

-----------------------------------------------------------------------------
(* The steps of a request after its load.                                  *)

LEMMA AnswerStep ==
  ASSUME IInv, NEW h \in Handlers, NEW answer, NEW wrote, Answer(h, answer, wrote),
         UNCHANGED <<room, live>>
  PROVE  IInv'
<1>1. Current(Idle, room)
  BY IdleCurrent DEF Idle, IInv, IsRoom
<1> QED BY <1>1, RequestStep DEF Answer

LEMMA RecheckInv ==
  ASSUME IInv, NEW h \in Handlers, Recheck(h)
  PROVE  IInv'
<1>1. CASE \E answer \in Answers : Answer(h, answer, FALSE)
  BY <1>1, AnswerStep DEF Recheck
<1>2. CASE /\ room.open /\ room.revision = handler[h].revision
           /\ handler' = [handler EXCEPT
                ![h].pc = "commit",
                ![h].next = Atomic!HostQueueResult(room, handler[h].next.queue)]
  <2> DEFINE old == handler[h]
             next == Atomic!HostQueueResult(room, old.next.queue)
             me == [old EXCEPT !.pc = "commit", !.next = next]
  <2>1. Current(old, room) /\ old.pc = "recheck"
    BY DEF IInv, Recheck
  <2>2. /\ old.kind = "host"
        /\ old.next.queue \in Atomic!Removals(room.queue) \union Atomic!Reorderings(room.queue)
    BY <1>2, <2>1 DEF Current, Due
  <2>3. PICK q \in Atomic!Removals(room.queue) \union Atomic!Reorderings(room.queue) :
          next = Atomic!HostQueueResult(room, q)
    BY <2>2
  <2> HIDE DEF next
  <2>4. handler' = [handler EXCEPT ![h] = me]
    BY <1>2 DEF next
  <2>5. /\ DOMAIN me = DOMAIN old
        /\ me.pc = "commit" /\ me.kind = "host" /\ me.revision = old.revision /\ me.next = next
    BY <2>1, <2>2 DEF Current
  <2> HIDE DEF me, old
  <2>6. Computed(me, room)
    BY <2>3, <2>5 DEF Computed
  <2>7. Current(me, room)
    BY <2>1, <2>5, <2>6 DEF Current
  <2> QED BY <2>4, <2>7, RequestStep DEF Recheck
<1> QED BY <1>1, <1>2 DEF Recheck, Answers

(* A step that replaces the room by a later one, or closes it.             *)
LEMMA RoomStep ==
  ASSUME IInv, IsRoom(room'), live' \subseteq Sessions,
         room'.revision > room.revision \/ (room'.revision = room.revision /\ ~room'.open),
         DOMAIN handler' = Handlers,
         \A g \in Handlers : handler'[g] = handler[g] \/
           /\ handler'[g].pc \in {"idle", "refresh"}
           /\ DOMAIN handler'[g] = {"pc", "kind", "revision", "next", "wrote"}
           /\ handler'[g].revision \in {0, handler[g].revision}
  PROVE  IInv'
<1> SUFFICES ASSUME NEW g \in Handlers PROVE Current(handler'[g], room')
  BY DEF IInv
<1>1. IsRoom(room) /\ Current(handler[g], room)
  BY DEF IInv
<1>2. CASE handler'[g] = handler[g]
  BY <1>1, <1>2, CurrentLater
<1>3. CASE handler'[g] # handler[g]
  <2>1. handler'[g].revision \in Nat /\ handler'[g].revision <= room'.revision
    BY <1>1, <1>3 DEF Current, IsRoom
  <2> QED BY <1>3, <2>1, IdleCurrent
<1> QED BY <1>2, <1>3

(* What Finish makes of a request.                                         *)
LEMMA FinishParts ==
  ASSUME IInv, NEW h \in Handlers, NEW answer, NEW wrote, Finish(h, answer, wrote)
  PROVE  /\ DOMAIN handler' = Handlers
         /\ \A g \in Handlers : g # h => handler'[g] = handler[g]
         /\ handler'[h].pc \in {"idle", "refresh"}
         /\ DOMAIN handler'[h] = {"pc", "kind", "revision", "next", "wrote"}
         /\ handler'[h].revision \in {0, handler[h].revision}
<1>1. DOMAIN handler = Handlers /\ DOMAIN handler[h] = {"pc", "kind", "revision", "next", "wrote"}
  BY DEF IInv, Current
<1>2. CASE handler[h].kind = "promote"
  BY <1>1, <1>2 DEF Finish
<1>3. CASE handler[h].kind # "promote"
  BY <1>1, <1>3 DEF Finish, Answer, Idle
<1> QED BY <1>2, <1>3

(* The columns a request writes are all it computed: the room becomes the  *)
(* one that was computed from it.                                          *)
LEMMA WrittenIsComputed ==
  ASSUME NEW r, IsRoom(r), NEW me, Computed(me, r)
  PROVE  Written(r, me.next, me.kind) = me.next /\ DOMAIN me.next = DOMAIN r
<1>0. DOMAIN r = Fields
  BY DEF IsRoom
<1>1. CASE me.kind = "add" /\ me.next \in Atomic!AddResults(r)
  <2>1. PICK content, queue : me.next = [r EXCEPT !.content = content, !.queue = queue]
    BY <1>1 DEF Atomic!AddResults
  <2>2. Written(r, me.next, "add") = [r EXCEPT !.content = me.next.content, !.queue = me.next.queue]
    BY DEF Written
  <2>3. me.next.content = content /\ me.next.queue = queue /\ DOMAIN me.next = DOMAIN r
    BY <1>0, <2>1 DEF Fields
  <2> QED BY <1>1, <2>1, <2>2, <2>3
<1>2. CASE /\ me.kind \in {"vote", "host"}
           /\ \E queue, votes : me.next = [r EXCEPT !.queue = queue, !.votes = votes]
  <2>1. PICK queue, votes : me.next = [r EXCEPT !.queue = queue, !.votes = votes]
    BY <1>2
  <2>2. Written(r, me.next, me.kind) = [r EXCEPT !.queue = me.next.queue, !.votes = me.next.votes]
    BY <1>2 DEF Written
  <2>3. me.next.queue = queue /\ me.next.votes = votes /\ DOMAIN me.next = DOMAIN r
    BY <1>0, <2>1 DEF Fields
  <2> QED BY <2>1, <2>2, <2>3
<1>3. CASE me.kind = "promote" /\ me.next \in Atomic!PromoteResults(r)
  <2>1. PICK i \in DOMAIN r.queue : me.next = Atomic!PromoteResult(r, r.queue[i])
    BY <1>3 DEF Atomic!PromoteResults
  <2>2. \E queue, votes, musical :
          me.next = [r EXCEPT !.queue = queue, !.votes = votes, !.musical = musical]
    BY <2>1 DEF Atomic!PromoteResult
  <2>3. PICK queue, votes, musical :
          me.next = [r EXCEPT !.queue = queue, !.votes = votes, !.musical = musical]
    BY <2>2
  <2>4. Written(r, me.next, "promote") =
          [r EXCEPT !.queue = me.next.queue, !.votes = me.next.votes, !.musical = me.next.musical]
    BY DEF Written
  <2>5. /\ me.next.queue = queue /\ me.next.votes = votes /\ me.next.musical = musical
        /\ DOMAIN me.next = DOMAIN r
    BY <1>0, <2>3 DEF Fields
  <2> QED BY <1>3, <2>3, <2>4, <2>5
<1>4. CASE me.kind = "musical" /\ me.next \in Atomic!MusicalResults(r)
  <2>1. PICK musical : me.next = [r EXCEPT !.musical = musical]
    BY <1>4 DEF Atomic!MusicalResults
  <2>2. Written(r, me.next, "musical") = [r EXCEPT !.musical = me.next.musical]
    BY DEF Written
  <2>3. me.next.musical = musical /\ DOMAIN me.next = DOMAIN r
    BY <1>0, <2>1 DEF Fields
  <2> QED BY <1>4, <2>1, <2>2, <2>3
<1>5. CASE me.kind = "access" /\ me.next = Atomic!AccessResult(r)
  <2>1. Written(r, me.next, "access") = [r EXCEPT !.additions = me.next.additions]
    BY DEF Written
  <2>2. me.next.additions = ~r.additions /\ DOMAIN me.next = DOMAIN r
    BY <1>0, <1>5 DEF Fields, Atomic!AccessResult
  <2> QED BY <1>5, <2>1, <2>2 DEF Atomic!AccessResult
<1>6. ASSUME me.kind = "vote", NEW s, me.next \in Atomic!VoteResults(r, s)
      PROVE  \E queue, votes : me.next = [r EXCEPT !.queue = queue, !.votes = votes]
  <2>1. PICK id \in Atomic!QueueIds(r.queue), up \in BOOLEAN : me.next = Atomic!VoteResult(r, id, s, up)
    BY <1>6 DEF Atomic!VoteResults
  <2> QED BY <2>1 DEF Atomic!VoteResult
<1>7. ASSUME me.kind = "host", NEW q, me.next = Atomic!HostQueueResult(r, q)
      PROVE  \E queue, votes : me.next = [r EXCEPT !.queue = queue, !.votes = votes]
  BY <1>7 DEF Atomic!HostQueueResult
<1> QED BY <1>1, <1>2, <1>3, <1>4, <1>5, <1>6, <1>7 DEF Computed

(* A commit stores what was computed from the room it finds.               *)
LEMMA CommitStores ==
  ASSUME IInv, NEW h \in Handlers, CommitWrites(h)
  PROVE  /\ Computed(handler[h], room)
         /\ Atomic!Store(handler[h].next)
         /\ IsRoom(room') /\ room'.revision = room.revision + 1
<1> DEFINE n == handler[h].next
<1>1. IsRoom(room) /\ Computed(handler[h], room)
  BY DEF IInv, Current, Due, CommitWrites, Matches
<1>2. Written(room, n, handler[h].kind) = n /\ DOMAIN n = Fields
  BY <1>1, WrittenIsComputed DEF IsRoom
<1>3. /\ room.open /\ room.revision < MaxRevision
      /\ room' = [n EXCEPT !.revision = room.revision + 1]
  BY <1>2 DEF CommitWrites, Matches
<1> HIDE DEF n
<1>4. room.revision + 1 \in Nat /\ "revision" \in DOMAIN n
  BY <1>1, <1>2 DEF IsRoom, Fields
<1>5. DOMAIN room' = Fields /\ room'.revision = room.revision + 1
  BY <1>2, <1>3, <1>4
<1> QED BY <1>1, <1>3, <1>4, <1>5 DEF Atomic!Store, IsRoom, n

LEMMA NextInv == IInv /\ [Next]_vars => IInv'
<1> SUFFICES ASSUME IInv, [Next]_vars PROVE IInv'
  OBVIOUS
<1>0. IsRoom(room) /\ live \subseteq Sessions /\ DOMAIN handler = Handlers
  BY DEF IInv
<1>1. ASSUME NEW h \in Handlers, CommitWrites(h) PROVE IInv'
  <2>1. IsRoom(room') /\ room'.revision > room.revision
    BY <1>0, <1>1, CommitStores DEF IsRoom
  <2>2. Finish(h, "ok", TRUE) /\ live' = live
    BY <1>1 DEF CommitWrites
  <2> QED BY <1>0, <2>1, <2>2, FinishParts, RoomStep
<1>2. ASSUME NEW h \in Handlers, CommitConflicts(h) PROVE IInv'
  <2>0. Finish(h, "revision_conflict", FALSE) /\ UNCHANGED <<room, live>>
    BY <1>2 DEF CommitConflicts
  <2>1. /\ DOMAIN handler' = Handlers
        /\ \A g \in Handlers : g # h => handler'[g] = handler[g]
        /\ handler'[h].pc \in {"idle", "refresh"}
        /\ DOMAIN handler'[h] = {"pc", "kind", "revision", "next", "wrote"}
        /\ handler'[h].revision \in {0, handler[h].revision}
    BY <2>0, FinishParts
  <2>2. handler[h].revision \in Nat /\ handler[h].revision <= room.revision
    BY DEF IInv, Current
  <2>3. handler'[h].revision \in Nat /\ handler'[h].revision <= room.revision
    BY <1>0, <2>1, <2>2 DEF IsRoom
  <2>4. Current(handler'[h], room)
    BY <1>0, <2>1, <2>3, IdleCurrent
  <2> QED BY <2>0, <2>1, <2>4 DEF IInv
<1>3. ASSUME NEW h \in Handlers, PromoteRefresh(h) PROVE IInv'
  <2>1. \E answer \in Answers : Answer(h, answer, handler[h].wrote)
    BY <1>3 DEF PromoteRefresh, Answers
  <2> QED BY <1>3, <2>1, AnswerStep DEF PromoteRefresh
<1>4. CASE OtherWrite \/ Close
  <2>1. /\ IsRoom(room')
        /\ room'.revision > room.revision \/ (room'.revision = room.revision /\ ~room'.open)
    BY <1>0, <1>4 DEF OtherWrite, Close, IsRoom, Fields
  <2> QED BY <1>0, <1>4, <2>1, RoomStep DEF OtherWrite, Close
<1>5. ASSUME NEW s \in Sessions, LeaseChange(s) PROVE IInv'
  BY <1>0, <1>5 DEF LeaseChange, IInv
<1>6. ASSUME NEW h \in Handlers, ReorderRepeated(h) PROVE IInv'
  BY <1>6, AnswerStep DEF ReorderRepeated
<1>7. CASE UNCHANGED vars
  BY <1>7 DEF vars, IInv
<1> QED BY <1>1, <1>2, <1>3, <1>4, <1>5, <1>6, <1>7, LoadInv, RecheckInv DEF Next

-----------------------------------------------------------------------------
LEMMA AlwaysCurrent == Spec => []IInv
<1>1. Init => IInv
  BY InitInv
<1>2. IInv /\ [Next]_vars => IInv'
  BY NextInv
<1> QED BY <1>1, <1>2, PTL DEF Spec

(* A committing request is one of the atomic requests, on the room it      *)
(* finds.                                                                  *)
LEMMA CommitRefines ==
  ASSUME IInv, NEW h \in Handlers, CommitWrites(h)
  PROVE  Atomic!Next
<1> DEFINE me == handler[h]
<1>1. Computed(me, room) /\ Atomic!Store(me.next)
  BY CommitStores
<1> HIDE DEF me
<1>2. CASE me.kind = "add" /\ me.next \in Atomic!AddResults(room)
  BY <1>1, <1>2 DEF Atomic!Next, Atomic!Add
<1>3. CASE me.kind = "vote" /\ \E s \in Sessions : me.next \in Atomic!VoteResults(room, s)
  BY <1>1, <1>3 DEF Atomic!Next, Atomic!Vote
<1>4. CASE /\ me.kind = "host"
           /\ \E q \in Atomic!Removals(room.queue) \union Atomic!Reorderings(room.queue) :
                me.next = Atomic!HostQueueResult(room, q)
  BY <1>1, <1>4 DEF Atomic!Next, Atomic!Remove, Atomic!Reorder
<1>5. CASE me.kind = "promote" /\ me.next \in Atomic!PromoteResults(room)
  BY <1>1, <1>5 DEF Atomic!Next, Atomic!Promote
<1>6. CASE me.kind = "musical" /\ me.next \in Atomic!MusicalResults(room)
  BY <1>1, <1>6 DEF Atomic!Next, Atomic!SetMusicalState
<1>7. CASE me.kind = "access" /\ me.next = Atomic!AccessResult(room)
  BY <1>1, <1>7 DEF Atomic!Next, Atomic!SetQueueAccess
<1> QED BY <1>1, <1>2, <1>3, <1>4, <1>5, <1>6, <1>7 DEF Computed

(* The queue handlers implement the atomic requests: no interleaving of    *)
(* loads and conditional updates loses an update or applies one to a room  *)
(* it was not computed from.                                               *)
THEOREM QueueIsAtomic == Spec => ImplementsAtomic
<1>1. Init => Atomic!Init
  BY DEF Init
<1>2. IInv /\ [Next]_vars => [Atomic!Next]_room
  <2> SUFFICES ASSUME IInv, [Next]_vars PROVE [Atomic!Next]_room
    OBVIOUS
  <2>1. ASSUME NEW h \in Handlers, CommitWrites(h) PROVE Atomic!Next
    BY <2>1, CommitRefines
  <2>2. ASSUME NEW h \in Handlers,
               \/ AddLoad(h) \/ VoteLoad(h) \/ HostQueueLoad(h) \/ ReorderRepeated(h)
               \/ PromoteLoad(h) \/ MusicalLoad(h) \/ AccessLoad(h)
               \/ Recheck(h) \/ CommitConflicts(h) \/ PromoteRefresh(h)
        PROVE  UNCHANGED room
    BY <2>2 DEF AddLoad, VoteLoad, HostQueueLoad, ReorderRepeated, PromoteLoad, MusicalLoad,
         AccessLoad, Recheck, CommitConflicts, PromoteRefresh, Begin
  <2>3. CASE OtherWrite
    BY <2>3 DEF OtherWrite, Atomic!Next, Atomic!Other, Atomic!Store
  <2>4. CASE Close
    BY <2>4 DEF Close, Atomic!Next, Atomic!Close
  <2>5. ASSUME NEW s \in Sessions, LeaseChange(s) PROVE UNCHANGED room
    BY <2>5 DEF LeaseChange
  <2>6. CASE UNCHANGED vars
    BY <2>6 DEF vars
  <2> QED BY <2>1, <2>2, <2>3, <2>4, <2>5, <2>6 DEF Next
<1> QED BY <1>1, <1>2, AlwaysCurrent, PTL DEF Spec, ImplementsAtomic, Atomic!Spec

-----------------------------------------------------------------------------
(* The service therefore keeps every invariant proved of RoomAtomic.       *)

Of == INSTANCE RoomAtomicProofs
        WITH Songs <- Songs, Sessions <- Sessions, Sources <- Sources,
             MaxRevision <- MaxRevision, room <- room

QueueSound == Atomic!Resolvable /\ Atomic!RowsDistinct /\ Atomic!VotesCount
              /\ Atomic!ServedAsStored

(* The module is instantiated twice, and both instances say the same.      *)
LEMMA SameRanking ==
  /\ \A S, R : Atomic!Enumerate(S, R) = Of!Enumerate(S, R)
  /\ \A q, S : Atomic!Subqueue(q, S) = Of!Subqueue(q, S)
  /\ \A q, votes : Atomic!WithVoteCounts(q, votes) = Of!WithVoteCounts(q, votes)
  /\ \A q : Atomic!RankQueue(q) = Of!RankQueue(q)
  /\ \A q, votes : Atomic!RankedQueue(q, votes) = Of!RankedQueue(q, votes)
  /\ \A q : Atomic!QueueIds(q) = Of!QueueIds(q) /\ Atomic!QueueSongs(q) = Of!QueueSongs(q)
<1>0. \A S : Atomic!Cardinality(S) = Of!Cardinality(S)
  BY DEF Atomic!Cardinality, Of!Cardinality
<1>1. \A S, R : Atomic!Enumerate(S, R) = Of!Enumerate(S, R)
  <2>1. \A S, R, i : Atomic!Position(S, R, i) = Of!Position(S, R, i)
    BY <1>0 DEF Atomic!Position, Of!Position, Atomic!Before, Of!Before
  <2> TAKE S, R
  <2> DEFINE at(k)   == CHOOSE i \in S : Atomic!Position(S, R, i) = k
             ofAt(k) == CHOOSE i \in S : Of!Position(S, R, i) = k
  <2>2. \A k : at(k) = ofAt(k)
    BY <2>1
  <2>3. Atomic!Enumerate(S, R) = [k \in 1..Atomic!Cardinality(S) |-> at(k)]
    BY DEF Atomic!Enumerate
  <2>4. Of!Enumerate(S, R) = [k \in 1..Of!Cardinality(S) |-> ofAt(k)]
    BY DEF Of!Enumerate
  <2> HIDE DEF at, ofAt
  <2> QED BY <1>0, <2>2, <2>3, <2>4
<1>2. \A S : Atomic!IndexOrder(S) = Of!IndexOrder(S)
  BY DEF Atomic!IndexOrder, Of!IndexOrder
<1>3. \A q, S : Atomic!Subqueue(q, S) = Of!Subqueue(q, S)
  BY <1>0, <1>1, <1>2 DEF Atomic!Subqueue, Of!Subqueue
<1>4. \A q, votes : Atomic!WithVoteCounts(q, votes) = Of!WithVoteCounts(q, votes)
  BY <1>0 DEF Atomic!WithVoteCounts, Of!WithVoteCounts, Atomic!Voters, Of!Voters
<1>5. \A q : Atomic!RankOrder(q) = Of!RankOrder(q)
  BY DEF Atomic!RankOrder, Of!RankOrder, Atomic!Above, Of!Above
<1>6. \A q : Atomic!RankQueue(q) = Of!RankQueue(q)
  BY <1>1, <1>5 DEF Atomic!RankQueue, Of!RankQueue
<1>7. \A q, votes : Atomic!RankedQueue(q, votes) = Of!RankedQueue(q, votes)
  BY <1>4, <1>6 DEF Atomic!RankedQueue, Of!RankedQueue
<1>8. \A q : Atomic!QueueIds(q) = Of!QueueIds(q)
  BY DEF Atomic!QueueIds, Of!QueueIds
<1>9. \A q : Atomic!QueueSongs(q) = Of!QueueSongs(q)
  BY DEF Atomic!QueueSongs, Of!QueueSongs
<1> QED BY <1>1, <1>3, <1>4, <1>6, <1>7, <1>8, <1>9

LEMMA SameInit == Atomic!Init => Of!Init
<1>1. \A content : Atomic!queue_from_content(content) = Of!queue_from_content(content)
  BY SameRanking DEF Atomic!queue_from_content, Of!queue_from_content, Atomic!FirstOccurrences, Of!FirstOccurrences
<1>2. \A content, queue : Atomic!NewRoom(content, queue) = Of!NewRoom(content, queue)
  BY DEF Atomic!NewRoom, Of!NewRoom
<1> QED BY <1>1, <1>2 DEF Atomic!Init, Of!Init

LEMMA SameResults ==
  /\ \A r : Atomic!AddResults(r) = Of!AddResults(r)
  /\ \A r, s : Atomic!VoteResults(r, s) = Of!VoteResults(r, s)
  /\ \A q : Atomic!Removals(q) = Of!Removals(q) /\ Atomic!Reorderings(q) = Of!Reorderings(q)
  /\ \A r, q : Atomic!HostQueueResult(r, q) = Of!HostQueueResult(r, q)
  /\ \A r : Atomic!PromoteResults(r) = Of!PromoteResults(r)
  /\ \A r : Atomic!MusicalResults(r) = Of!MusicalResults(r)
  /\ \A r : Atomic!AccessResult(r) = Of!AccessResult(r)
<1>1. \A r : Atomic!FreshId(r) = Of!FreshId(r)
  BY DEF Atomic!FreshId, Of!FreshId
<1>2. \A content, song : Atomic!content_index(content, song) = Of!content_index(content, song)
  BY DEF Atomic!content_index, Of!content_index
<1>3. \A content, song : Atomic!AddedContent(content, song) = Of!AddedContent(content, song)
  BY DEF Atomic!AddedContent, Of!AddedContent, Atomic!InContent, Of!InContent
<1>4. \A r, song : Atomic!AddedQueue(r, song) = Of!AddedQueue(r, song)
  BY SameRanking, <1>1 DEF Atomic!AddedQueue, Of!AddedQueue
<1>5. \A r : Atomic!AddResults(r) = Of!AddResults(r)
  BY SameRanking, <1>3, <1>4 DEF Atomic!AddResults, Of!AddResults
<1>6. \A votes, id, s, up : Atomic!CastVotes(votes, id, s, up) = Of!CastVotes(votes, id, s, up)
  BY DEF Atomic!CastVotes, Of!CastVotes
<1>7. \A q, id : Atomic!Unplayed(q, id) = Of!Unplayed(q, id)
  BY DEF Atomic!Unplayed, Of!Unplayed
<1>8. \A r, id, s, up : Atomic!VotedQueue(r, id, s, up) = Of!VotedQueue(r, id, s, up)
  BY SameRanking, <1>6, <1>7 DEF Atomic!VotedQueue, Of!VotedQueue
<1>9. \A r, id, s, up : Atomic!VoteResult(r, id, s, up) = Of!VoteResult(r, id, s, up)
  BY <1>6, <1>8 DEF Atomic!VoteResult, Of!VoteResult
<1>10. \A r, s : Atomic!VoteResults(r, s) = Of!VoteResults(r, s)
  BY SameRanking, <1>9 DEF Atomic!VoteResults, Of!VoteResults
<1>11. \A q, id : Atomic!WithoutRow(q, id) = Of!WithoutRow(q, id)
  BY SameRanking DEF Atomic!WithoutRow, Of!WithoutRow
<1>12. \A q : Atomic!Removals(q) = Of!Removals(q)
  BY SameRanking, <1>11 DEF Atomic!Removals, Of!Removals
<1>13. \A q : Atomic!Orders(q) = Of!Orders(q)
  BY DEF Atomic!Orders, Of!Orders
<1>14. \A q : Atomic!Reorderings(q) = Of!Reorderings(q)
  BY <1>13 DEF Atomic!Reorderings, Of!Reorderings
<1>15. \A r, q : Atomic!HostQueueResult(r, q) = Of!HostQueueResult(r, q)
  BY SameRanking DEF Atomic!HostQueueResult, Of!HostQueueResult
<1>16. \A r : Atomic!CurrentSong(r) = Of!CurrentSong(r)
  BY DEF Atomic!CurrentSong, Of!CurrentSong
<1>17. \A q, songs : Atomic!Shown(q, songs) = Of!Shown(q, songs)
  BY DEF Atomic!Shown, Of!Shown
<1>18. \A q, songs : Atomic!ShownIds(q, songs) = Of!ShownIds(q, songs)
  BY DEF Atomic!ShownIds, Of!ShownIds
<1>19. \A r, row : Atomic!PromoteResult(r, row) = Of!PromoteResult(r, row)
  BY SameRanking, <1>1, <1>2, <1>11, <1>16, <1>17, <1>18 DEF Atomic!PromoteResult, Of!PromoteResult
<1>20. \A r : Atomic!PromoteResults(r) = Of!PromoteResults(r)
  BY <1>19 DEF Atomic!PromoteResults, Of!PromoteResults
<1>21. \A r : Atomic!MusicalResults(r) = Of!MusicalResults(r)
  BY DEF Atomic!MusicalResults, Of!MusicalResults
<1>22. \A r : Atomic!AccessResult(r) = Of!AccessResult(r)
  BY DEF Atomic!AccessResult, Of!AccessResult
<1> QED BY <1>5, <1>10, <1>12, <1>14, <1>15, <1>20, <1>21, <1>22

LEMMA SameNext == Atomic!Next => Of!Next
<1>1. \A n : Atomic!Store(n) <=> Of!Store(n)
  BY DEF Atomic!Store, Of!Store
<1> QED BY <1>1, SameResults
        DEF Atomic!Next, Atomic!Add, Atomic!Vote, Atomic!Remove, Atomic!Reorder, Atomic!Promote,
            Atomic!SetMusicalState, Atomic!SetQueueAccess, Atomic!Other, Atomic!Close,
            Of!Next, Of!Add, Of!Vote, Of!Remove, Of!Reorder, Of!Promote,
            Of!SetMusicalState, Of!SetQueueAccess, Of!Other, Of!Close

LEMMA OfAssumption == Of!AtomicAssumption
BY QueueAssumption DEF QueueAssumption, Of!AtomicAssumption, Of!IsFiniteSet, IsFiniteSet

(* However requests interleave, a room can be loaded, no song or id has    *)
(* two rows, votes are for unplayed rows, and the stored order is served.  *)
THEOREM ServiceKeepsQueueSound == Spec => []QueueSound
<1>1. Of!Spec => [](Of!Resolvable /\ Of!RowsDistinct /\ Of!VotesCount /\ Of!ServedAsStored)
  BY OfAssumption, Of!QueueResolvable, Of!QueueDistinct, Of!VotesAreCurrent, Of!StoredIsServed, PTL
<1>2. Of!Resolvable /\ Of!RowsDistinct /\ Of!VotesCount /\ Of!ServedAsStored => QueueSound
  BY SameRanking
     DEF QueueSound, Atomic!Resolvable, Of!Resolvable, Atomic!RowsDistinct, Of!RowsDistinct,
         Atomic!VotesCount, Of!VotesCount, Atomic!ServedAsStored, Of!ServedAsStored
<1> QED BY <1>1, <1>2, SameInit, SameNext, QueueIsAtomic, PTL
        DEF ImplementsAtomic, Atomic!Spec, Of!Spec

-----------------------------------------------------------------------------
(* The service's own types: what a request holds between its load and its  *)
(* UPDATE is a room, because it was computed from one that is sound.       *)

LEMMA AlwaysSound == Spec => []Of!Sound(room)
<1>1. Of!Spec => []Of!Sound(room)
  BY OfAssumption, Of!AlwaysSound DEF Of!IInv
<1> QED BY <1>1, SameInit, SameNext, QueueIsAtomic, PTL
        DEF ImplementsAtomic, Atomic!Spec, Of!Spec

LEMMA SameRoom == Atomic!Room = Of!Room
BY DEF Atomic!Room, Of!Room, Atomic!Row, Of!Row, Atomic!Musical, Of!Musical

LEMMA SoundIsRoom ==
  ASSUME NEW r, Of!Sound(r)
  PROVE  r \in Atomic!Room /\ IsRoom(r)
<1>1. r \in Of!Room
  BY DEF Of!Sound
<1> QED BY <1>1, SameRoom DEF Of!Room, IsRoom, Fields

(* A room that differs from one that is stored in its revision.            *)
LEMMA UnstoredTyped ==
  ASSUME NEW r, r.revision \in Nat, NEW n, DOMAIN n = Fields, n.revision = r.revision,
         n = [x \in DOMAIN n |-> n[x]], Of!Sound(Of!Stored(n, r.revision))
  PROVE  n \in Atomic!Room
<1> DEFINE m == Of!Stored(n, r.revision)
<1>1. /\ m.open = n.open /\ m.content = n.content /\ m.queue = n.queue /\ m.votes = n.votes
      /\ m.musical = n.musical /\ m.additions = n.additions
  BY DEF Of!Stored, Fields
<1> HIDE DEF m
<1>2. m \in Of!Room
  BY DEF Of!Sound, m
<1>3. /\ n.open \in BOOLEAN /\ n.content \in Seq(Songs) /\ n.queue \in Seq(Of!Row)
      /\ n.votes \in SUBSET (Int \X Sessions) /\ n.musical \in Of!Musical
      /\ n.additions \in BOOLEAN
  BY <1>1, <1>2 DEF Of!Room
<1>4. n \in Of!Room
  BY <1>3 DEF Of!Room, Fields
<1> QED BY <1>4, SameRoom

LEMMA ComputedTyped ==
  ASSUME NEW r, Of!Sound(r), NEW me, Computed(me, r)
  PROVE  me.next \in Atomic!Room
<1>0. IsRoom(r) /\ r.revision \in Nat
  BY SoundIsRoom DEF IsRoom
<1>1. Written(r, me.next, me.kind) = me.next /\ DOMAIN me.next = Fields
  BY <1>0, WrittenIsComputed DEF IsRoom
<1>2. me.kind \in Kinds
  BY DEF Computed, Kinds
<1>3. LET w == Written(r, me.next, me.kind) IN
      w.revision = r.revision /\ w = [x \in DOMAIN w |-> w[x]]
  BY <1>0, <1>2 DEF Written, Kinds, IsRoom, Fields
<1>4. Of!Sound(Of!Stored(me.next, r.revision))
  <2>1. CASE me.next \in Of!AddResults(r)
    BY <2>1, OfAssumption, Of!AddSound
  <2>2. CASE \E s \in Sessions : me.next \in Of!VoteResults(r, s)
    BY <2>2, OfAssumption, Of!VoteSound
  <2>3. CASE \E q \in Of!Removals(r.queue) \union Of!Reorderings(r.queue) :
               me.next = Of!HostQueueResult(r, q)
    BY <2>3, OfAssumption, Of!HostQueueSound
  <2>4. CASE me.next \in Of!PromoteResults(r)
    BY <2>4, OfAssumption, Of!PromoteSound
  <2>5. CASE me.next \in Of!MusicalResults(r) \union {Of!AccessResult(r), r}
    BY <2>5, OfAssumption, Of!SettingsSound
  <2> QED BY <2>1, <2>2, <2>3, <2>4, <2>5, SameResults DEF Computed
<1> QED BY <1>0, <1>1, <1>3, <1>4, UnstoredTyped

LEMMA ArrangedTyped ==
  ASSUME NEW r, Of!Sound(r),
         NEW q \in Atomic!Removals(r.queue) \union Atomic!Reorderings(r.queue)
  PROVE  [r EXCEPT !.queue = q] \in Atomic!Room
<1> DEFINE songs == Of!ContentSongs(r.content)
<1>1. r \in Of!Room /\ r.revision \in Int /\ Of!Proper(r.queue, songs, r.revision)
  BY OfAssumption, Of!SoundParts
<1>2. r.queue \in Seq(Of!Rows(Songs))
  BY <1>1 DEF Of!Proper
<1>3. \E S \in SUBSET (DOMAIN r.queue) : Of!Selects(q, r.queue, S)
  <2>1. CASE q \in Of!Removals(r.queue)
    <3>1. PICK id : q = Of!WithoutRow(r.queue, id)
      BY <2>1 DEF Of!Removals
    <3> QED BY <1>2, <3>1, OfAssumption, Of!WithoutRowSelects
  <2>2. CASE q \in Of!Reorderings(r.queue)
    BY <1>2, <2>2, OfAssumption, Of!ReorderingSelects
  <2> QED BY <2>1, <2>2, SameResults
<1> HIDE DEF songs
<1>4. Of!Proper(q, songs, r.revision)
  BY <1>1, <1>3, OfAssumption, Of!SelectionProper
<1>5. q \in Seq(Of!Row)
  BY <1>4, OfAssumption, Of!RowIsRows DEF Of!Proper
<1>6. [r EXCEPT !.queue = q] \in Of!Room
  BY <1>1, <1>5 DEF Of!Room
<1> QED BY <1>6, SameRoom

ServiceTyped == handler \in [Handlers -> Handler] /\ reply \in Reply

LEMMA IdleTyped == Idle \in Handler /\ NoRoom \in Atomic!Room
<1> DEFINE r == Atomic!NewRoom(<<>>, <<>>)
<1>1. r \in Atomic!Room
  <2>1. [index |-> 1, started |-> FALSE] \in Atomic!Musical
    BY DEF Atomic!Musical
  <2>2. <<>> \in Seq(Songs) /\ <<>> \in Seq(Atomic!Row) /\ {} \in SUBSET (Int \X Sessions)
    OBVIOUS
  <2> QED BY <2>1, <2>2 DEF Atomic!NewRoom, Atomic!Room
<1> HIDE DEF r
<1>2. NoRoom \in Atomic!Room
  BY <1>1 DEF NoRoom, r, Atomic!Room
<1> QED BY <1>2 DEF Idle, Handler, Steps, Kinds

LEMMA AnswerTyped ==
  ASSUME ServiceTyped, NEW h \in Handlers, NEW answer \in Answers, NEW wrote \in BOOLEAN,
         Answer(h, answer, wrote)
  PROVE  ServiceTyped'
BY IdleTyped DEF ServiceTyped, Answer, Reply

LEMMA BeginTyped ==
  ASSUME ServiceTyped, NEW h \in Handlers, NEW pc \in Steps, NEW kind \in Kinds,
         NEW revision \in Nat, NEW next \in Atomic!Room, Begin(h, pc, kind, revision, next)
  PROVE  ServiceTyped'
<1> DEFINE me == [Idle EXCEPT !.pc = pc, !.kind = kind, !.revision = revision, !.next = next]
<1>1. me \in Handler
  BY IdleTyped DEF Handler
<1>2. handler' = [handler EXCEPT ![h] = me] /\ reply' = NoReply
  BY DEF Begin
<1> HIDE DEF me
<1> QED BY <1>1, <1>2 DEF ServiceTyped, NoReply, Reply, Answers

LEMMA FinishTyped ==
  ASSUME ServiceTyped, NEW h \in Handlers, NEW answer \in Answers, NEW wrote \in BOOLEAN,
         Finish(h, answer, wrote)
  PROVE  ServiceTyped'
<1>1. CASE handler[h].kind = "promote"
  <2> DEFINE me == [handler[h] EXCEPT !.pc = "refresh", !.next = NoRoom, !.wrote = wrote]
  <2>1. handler' = [handler EXCEPT ![h] = me] /\ reply' = NoReply
    BY <1>1 DEF Finish, ServiceTyped
  <2>2. me \in Handler
    BY IdleTyped DEF ServiceTyped, Handler, Steps
  <2> HIDE DEF me
  <2> QED BY <2>1, <2>2 DEF ServiceTyped, NoReply, Reply, Answers
<1>2. CASE handler[h].kind # "promote"
  BY <1>2, AnswerTyped DEF Finish
<1> QED BY <1>1, <1>2

LEMMA LoadTyped ==
  ASSUME IInv, Of!Sound(room), ServiceTyped, NEW h \in Handlers,
         \/ AddLoad(h) \/ VoteLoad(h) \/ HostQueueLoad(h)
         \/ PromoteLoad(h) \/ MusicalLoad(h) \/ AccessLoad(h)
  PROVE  ServiceTyped'
<1>0. room.revision \in Nat /\ live \subseteq Sessions
  BY DEF IInv, IsRoom
<1>1. ASSUME NEW kind, NEW next, Computed(Requested("commit", kind, room.revision, next), room)
      PROVE  next \in Atomic!Room /\ kind \in Kinds
  <2>1. Requested("commit", kind, room.revision, next).next \in Atomic!Room
    BY <1>1, ComputedTyped
  <2>2. Requested("commit", kind, room.revision, next).kind \in Kinds
    BY <1>1 DEF Computed, Kinds
  <2> QED BY <2>1, <2>2, RequestedParts
<1>2. ASSUME NEW kind, NEW revision \in Nat, NEW next, Begin(h, "commit", kind, revision, next),
             Computed(Requested("commit", kind, room.revision, next), room)
      PROVE  ServiceTyped'
  BY <1>1, <1>2, BeginTyped DEF Steps
<1>3. CASE AddLoad(h)
  <2>1. PICK revision \in KnownRevisions, n \in Atomic!AddResults(room) :
          Begin(h, "commit", "add", revision, n)
    BY <1>3 DEF AddLoad
  <2>2. Computed(Requested("commit", "add", room.revision, n), room)
    BY RequestedParts DEF Computed
  <2> QED BY <1>0, <1>2, <2>1, <2>2 DEF KnownRevisions
<1>4. CASE VoteLoad(h)
  <2>1. PICK s \in live : \E n \in Atomic!VoteResults(room, s) :
          Begin(h, "commit", "vote", room.revision, n)
    BY <1>4 DEF VoteLoad
  <2>2. PICK n \in Atomic!VoteResults(room, s) : Begin(h, "commit", "vote", room.revision, n)
    BY <2>1
  <2>3. Computed(Requested("commit", "vote", room.revision, n), room)
    BY <1>0, RequestedParts DEF Computed
  <2> QED BY <1>0, <1>2, <2>2, <2>3
<1>5. CASE HostQueueLoad(h)
  <2>1. PICK revision \in KnownRevisions,
             q \in Atomic!Removals(room.queue) \union Atomic!Reorderings(room.queue) :
          Begin(h, "recheck", "host", revision, [room EXCEPT !.queue = q])
    BY <1>5 DEF HostQueueLoad
  <2>2. [room EXCEPT !.queue = q] \in Atomic!Room
    BY ArrangedTyped
  <2> QED BY <1>0, <2>1, <2>2, BeginTyped DEF KnownRevisions, Steps, Kinds
<1>6. CASE PromoteLoad(h)
  <2>1. PICK n \in Atomic!PromoteResults(room) : Begin(h, "commit", "promote", room.revision, n)
    BY <1>6 DEF PromoteLoad
  <2>2. Computed(Requested("commit", "promote", room.revision, n), room)
    BY RequestedParts DEF Computed
  <2> QED BY <1>0, <1>2, <2>1, <2>2
<1>7. CASE MusicalLoad(h)
  <2>1. PICK n \in Atomic!MusicalResults(room) : Begin(h, "commit", "musical", room.revision, n)
    BY <1>7 DEF MusicalLoad
  <2>2. Computed(Requested("commit", "musical", room.revision, n), room)
    BY RequestedParts DEF Computed
  <2> QED BY <1>0, <1>2, <2>1, <2>2
<1>8. CASE AccessLoad(h)
  <2> DEFINE n == Atomic!AccessResult(room)
  <2>1. Begin(h, "commit", "access", room.revision, n)
    BY <1>8 DEF AccessLoad
  <2>2. Computed(Requested("commit", "access", room.revision, n), room)
    BY RequestedParts DEF Computed
  <2> HIDE DEF n
  <2> QED BY <1>0, <1>2, <2>1, <2>2
<1> QED BY <1>3, <1>4, <1>5, <1>6, <1>7, <1>8

LEMMA RecheckTyped ==
  ASSUME IInv, Of!Sound(room), ServiceTyped, NEW h \in Handlers, Recheck(h)
  PROVE  ServiceTyped'
<1>1. CASE \E answer \in Answers : Answer(h, answer, FALSE)
  BY <1>1, AnswerTyped
<1>2. CASE /\ room.open /\ room.revision = handler[h].revision
           /\ handler' = [handler EXCEPT
                ![h].pc = "commit",
                ![h].next = Atomic!HostQueueResult(room, handler[h].next.queue)]
           /\ reply' = NoReply
  <2> DEFINE old == handler[h]
             next == Atomic!HostQueueResult(room, old.next.queue)
             me == [old EXCEPT !.pc = "commit", !.next = next]
  <2>1. old \in Handler /\ Current(old, room) /\ old.pc = "recheck"
    BY DEF IInv, Recheck, ServiceTyped
  <2>2. /\ old.kind = "host"
        /\ old.next.queue \in Atomic!Removals(room.queue) \union Atomic!Reorderings(room.queue)
    BY <1>2, <2>1 DEF Current, Due
  <2>3. PICK q \in Atomic!Removals(room.queue) \union Atomic!Reorderings(room.queue) :
          next = Atomic!HostQueueResult(room, q)
    BY <2>2
  <2> HIDE DEF next
  <2>4. handler' = [handler EXCEPT ![h] = me]
    BY <1>2 DEF next
  <2>5. me.kind = "host" /\ me.next = next
    BY <2>1, <2>2 DEF Handler
  <2>6. Computed(me, room)
    BY <2>3, <2>5 DEF Computed
  <2>7. me.next \in Atomic!Room
    BY <2>6, ComputedTyped
  <2>8. me \in Handler
    BY <2>1, <2>5, <2>7 DEF Handler, Steps
  <2> HIDE DEF me, old
  <2> QED BY <1>2, <2>4, <2>8 DEF ServiceTyped, NoReply, Reply, Answers
<1> QED BY <1>1, <1>2 DEF Recheck, Answers

LEMMA NextTyped == IInv /\ Of!Sound(room) /\ ServiceTyped /\ [Next]_vars => ServiceTyped'
<1> SUFFICES ASSUME IInv, Of!Sound(room), ServiceTyped, [Next]_vars PROVE ServiceTyped'
  OBVIOUS
<1>1. ASSUME NEW h \in Handlers, CommitWrites(h) \/ CommitConflicts(h) PROVE ServiceTyped'
  BY <1>1, FinishTyped DEF CommitWrites, CommitConflicts, Answers
<1>2. ASSUME NEW h \in Handlers, PromoteRefresh(h) PROVE ServiceTyped'
  <2>1. handler[h].wrote \in BOOLEAN
    BY DEF ServiceTyped, Handler
  <2>2. \E answer \in Answers : Answer(h, answer, handler[h].wrote)
    BY <1>2 DEF PromoteRefresh, Answers
  <2> QED BY <2>1, <2>2, AnswerTyped
<1>3. ASSUME NEW h \in Handlers, ReorderRepeated(h) PROVE ServiceTyped'
  BY <1>3, AnswerTyped DEF ReorderRepeated, Answers
<1>4. ASSUME handler' = handler, reply' \in {reply, NoReply} PROVE ServiceTyped'
  <2>1. NoReply \in Reply
    BY DEF NoReply, Reply, Answers
  <2>2. reply' \in Reply /\ handler' \in [Handlers -> Handler]
    BY <1>4, <2>1 DEF ServiceTyped
  <2> QED BY <2>2 DEF ServiceTyped
<1>5. CASE OtherWrite \/ Close \/ \E s \in Sessions : LeaseChange(s)
  BY <1>4, <1>5 DEF OtherWrite, Close, LeaseChange
<1>6. CASE UNCHANGED vars
  BY <1>4, <1>6 DEF vars
<1> QED BY <1>1, <1>2, <1>3, <1>5, <1>6, LoadTyped, RecheckTyped DEF Next

(* The room, the leases, the requests in progress and the replies keep     *)
(* their types: what a request carries to its UPDATE is always a room.     *)
THEOREM QueueTyped == Spec => []TypeOK
<1>1. Init => ServiceTyped
  BY IdleTyped DEF Init, ServiceTyped, NoReply, Reply, Answers
<1>2. Of!Sound(room) /\ IInv /\ ServiceTyped => TypeOK
  BY SoundIsRoom DEF IInv, ServiceTyped, TypeOK
<1> QED BY <1>1, <1>2, NextTyped, AlwaysCurrent, AlwaysSound, PTL DEF Spec
=============================================================================
