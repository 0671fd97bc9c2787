----------------------------- MODULE RoomAtomic -----------------------------
(***************************************************************************)
(* What the room service promises about a room's content, queue, votes and *)
(* musical state: every successful request acts on the room as it is, in   *)
(* one indivisible step that takes the revision up by one. RoomQueue       *)
(* models the service as it runs, reading the room and writing it back in  *)
(* separate database queries, and is shown to implement this module.       *)
(*                                                                         *)
(* For every kind of request, <Kind>Results(r) is the set of rooms the     *)
(* handler may compute when it has read the room r; both modules use it.   *)
(***************************************************************************)
EXTENDS QueueRanking

CONSTANTS Songs,      \* songs in the libraries of the room's members
          Sessions,   \* room_session records, those of guests included
          Sources,    \* contents a room can be created with: sequences of songs
          MaxRevision \* bound: no request succeeds beyond it

ASSUME AtomicAssumption == /\ IsFiniteSet(Sessions)
                           /\ Sources \subseteq Seq(Songs)
                           /\ MaxRevision \in Nat

VARIABLE room

Row     == [id: Int, song: Songs, upvotes: Nat, played: BOOLEAN]
Musical == [index: Nat, started: BOOLEAN]
Room    == [open: BOOLEAN, revision: Nat, content: Seq(Songs), queue: Seq(Row),
            votes: SUBSET (Int \X Sessions), musical: Musical, additions: BOOLEAN]

-----------------------------------------------------------------------------
(* Creation. Row ids are opaque and never used twice: the rows seeded from *)
(* a collection or setlist take negative ids, a row made later takes the   *)
(* revision its creation produces. The player view starts at the first     *)
(* content item (index 0 in the code, 1 here) without having started.      *)

FirstOccurrences(content) ==
  {i \in DOMAIN content : \A j \in DOMAIN content : j < i => content[j] # content[i]}

queue_from_content(content) ==
  Subqueue([i \in DOMAIN content |->
              [id |-> -i, song |-> content[i], upvotes |-> 0, played |-> FALSE]],
           FirstOccurrences(content))

NewRoom(content, queue) ==
  [open |-> TRUE, revision |-> 1, content |-> content, queue |-> queue,
   votes |-> {}, musical |-> [index |-> 1, started |-> FALSE], additions |-> FALSE]

Init == \E content \in Sources :
          \/ room = NewRoom(content, queue_from_content(content))
          \/ /\ Len(content) <= 1       \* made from one song, or from nothing
             /\ room = NewRoom(content, <<>>)

-----------------------------------------------------------------------------
(* The requests.                                                           *)

FreshId(r) == r.revision + 1

content_index(content, song) ==
  CHOOSE i \in DOMAIN content :
    content[i] = song /\ \A j \in DOMAIN content : j < i => content[j] # song

InContent(content, song) == \E i \in DOMAIN content : content[i] = song

(* Mutants: a new song is left out, or put in front. *)
AddedContentForgotten(content, song) == content
AddedContentFront(content, song) ==
  IF InContent(content, song) THEN content ELSE <<song>> \o content

AddedContent(content, song) ==
  IF InContent(content, song) THEN content ELSE Append(content, song)

(* add_queue_item: a song that has no row in the queue gets one.           *)
AddedQueueUncounted(r, song) ==     \* mutant: no vote count yet
  RankQueue(Append(RankedQueue(r.queue, r.votes),
                   [id |-> FreshId(r), song |-> song, upvotes |-> -1, played |-> FALSE]))
AddedQueue(r, song) ==
  RankQueue(Append(RankedQueue(r.queue, r.votes),
                   [id |-> FreshId(r), song |-> song, upvotes |-> 0, played |-> FALSE]))
AddResultsTwice(r) ==               \* mutant: a queued song is not rejected
  {[r EXCEPT !.content = AddedContent(r.content, song), !.queue = AddedQueue(r, song)] :
     song \in {x \in Songs : r.additions}}
AddResults(r) ==
  {[r EXCEPT !.content = AddedContent(r.content, song), !.queue = AddedQueue(r, song)] :
     song \in {x \in Songs : r.additions /\ x \notin QueueSongs(r.queue)}}

(* update_queue_vote: session s votes for a row or takes its vote back; an *)
(* upvote makes a played row unplayed.                                     *)
CastVotes(votes, id, s, up) ==
  IF up THEN votes \union {<<id, s>>} ELSE votes \ {<<id, s>>}
Unplayed(q, id) ==
  [i \in DOMAIN q |-> IF q[i].id = id THEN [q[i] EXCEPT !.played = FALSE] ELSE q[i]]
VotedQueueUncounted(r, id, s, up) ==  \* mutant: ranked by the old counts
  RankQueue(IF up THEN Unplayed(r.queue, id) ELSE r.queue)
VotedQueue(r, id, s, up) ==
  RankedQueue(IF up THEN Unplayed(r.queue, id) ELSE r.queue, CastVotes(r.votes, id, s, up))
VoteResult(r, id, s, up) ==
  [r EXCEPT !.queue = VotedQueue(r, id, s, up), !.votes = CastVotes(r.votes, id, s, up)]
VoteResults(r, s) == UNION {{VoteResult(r, id, s, up) : up \in BOOLEAN} : id \in QueueIds(r.queue)}

(* remove_queue_item and reorder_queue compute a new list of rows and hand *)
(* it to update_queue_for_host, which ranks it and drops the votes of rows *)
(* that are gone.                                                          *)
WithoutRow(q, id) == Subqueue(q, {i \in DOMAIN q : q[i].id # id})
Removals(q)    == {WithoutRow(q, id) : id \in QueueIds(q)}
Orders(q) == {p \in [DOMAIN q -> DOMAIN q] : \A i \in DOMAIN q : \E j \in DOMAIN q : p[j] = i}
Reorderings(q) == {[k \in DOMAIN q |-> q[p[k]]] : p \in Orders(q)}
HostQueueResultKeepsVotes(r, q) ==  \* mutant: votes of removed rows stay
  [r EXCEPT !.queue = RankedQueue(q, r.votes)]
HostQueueResult(r, q) ==
  [r EXCEPT !.queue = RankedQueue(q, r.votes),
            !.votes = {v \in r.votes : v[1] \in QueueIds(q)}]

(* promote_queue_item: the row's song becomes the current one and a fresh  *)
(* row of it ends the played section; rows of the song that was being      *)
(* shown become played and lose their votes. The rows are ranked by the    *)
(* upvotes stored with them, which are not recounted here.                 *)
CurrentSong(r) ==
  {r.content[i] : i \in {j \in DOMAIN r.content : r.musical.started /\ j = r.musical.index}}
Shown(q, songs) ==
  [i \in DOMAIN q |-> IF q[i].song \in songs THEN [q[i] EXCEPT !.played = TRUE] ELSE q[i]]
ShownIds(q, songs) == {q[i].id : i \in {j \in DOMAIN q : q[j].song \in songs}}
PromoteResult(r, row) ==
  [r EXCEPT
     !.queue = RankQueue(Append(Shown(WithoutRow(r.queue, row.id), CurrentSong(r)),
                                [id |-> FreshId(r), song |-> row.song, upvotes |-> 0,
                                 played |-> TRUE])),
     !.votes = {v \in r.votes : v[1] # row.id /\ v[1] \notin ShownIds(r.queue, CurrentSong(r))},
     !.musical = [index |-> content_index(r.content, row.song), started |-> TRUE]]
PromoteResults(r) == {PromoteResult(r, r.queue[i]) : i \in DOMAIN r.queue}

(* UpdateMusicalState and set_queue_access: a different, valid value.      *)
MusicalResults(r) ==
  {[r EXCEPT !.musical = m] :
     m \in [index: DOMAIN r.content, started: BOOLEAN] \ {r.musical}}
AccessResult(r) == [r EXCEPT !.additions = ~@]

-----------------------------------------------------------------------------
(* n, computed by a request, becomes the room.                             *)
Store(n) == /\ room.open
            /\ room.revision < MaxRevision
            /\ room' = [n EXCEPT !.revision = room.revision + 1]

Add     == \E n \in AddResults(room) : Store(n)
Vote    == \E s \in Sessions : \E n \in VoteResults(room, s) : Store(n)
Remove  == \E q \in Removals(room.queue) : Store(HostQueueResult(room, q))
Reorder == \E q \in Reorderings(room.queue) : Store(HostQueueResult(room, q))
Promote == \E n \in PromoteResults(room) : Store(n)
SetMusicalState == \E n \in MusicalResults(room) : Store(n)
SetQueueAccess  == Store(AccessResult(room))
Other   == Store(room)     \* presence, projection, guest access, lock
Close   == room.open /\ room' = [room EXCEPT !.open = FALSE]

Next == Add \/ Vote \/ Remove \/ Reorder \/ Promote \/ SetMusicalState
        \/ SetQueueAccess \/ Other \/ Close

Spec == Init /\ [][Next]_room

-----------------------------------------------------------------------------
TypeOK == room \in Room

(* Every row of the queue can be resolved to a captured song (a room for   *)
(* which this fails cannot be loaded any more), and so can the item shown. *)
Resolvable == /\ QueueSongs(room.queue) \subseteq {room.content[i] : i \in DOMAIN room.content}
              /\ room.musical.started => room.musical.index \in DOMAIN room.content

(* No song has two rows and no id names two rows, so that "a song is       *)
(* rejected while it is queued" and "the row with this id" mean something. *)
RowsDistinct == \A i, j \in DOMAIN room.queue :
                  i # j => /\ room.queue[i].song # room.queue[j].song
                           /\ room.queue[i].id # room.queue[j].id

(* A vote is for a row in the queue, and never for one that was played:    *)
(* promotion clears the votes of what it marks played, and an upvote makes *)
(* a played row unplayed.                                                  *)
VotesCount == \A v \in room.votes :
                \E i \in DOMAIN room.queue : /\ room.queue[i].id = v[1]
                                             /\ ~room.queue[i].played

(* The queue served to clients is recounted and ranked again at every      *)
(* load, the stored one only when it is written, and promotion ranks       *)
(* without recounting: the stored order is nevertheless the served one.    *)
ServedAsStored ==
  LET served == RankedQueue(room.queue, room.votes) IN
  [i \in DOMAIN served |-> served[i].id] = [i \in DOMAIN room.queue |-> room.queue[i].id]

(* Content is only ever appended to: an index handed out in a musical      *)
(* state or a table of contents keeps naming the same song.                *)
ContentGrows ==
  [][/\ Len(room.content) <= Len(room'.content)
     /\ \A i \in DOMAIN room.content : room'.content[i] = room.content[i]]_room
=============================================================================
