---------------------------- MODULE QueueRanking ----------------------------
(***************************************************************************)
(* How the next-song queue of a room is put in order: the stable sort of   *)
(* rank_queue (backend/src/resources/room/service.rs) and the recount of   *)
(* the votes that precedes it. A queue is a sequence of rows               *)
(* [id, song, upvotes, played]; the votes of a room are a set of pairs     *)
(* <<row id, session>>: the vote map, whose voter lists are never empty    *)
(* and hold no session twice, flattened.                                   *)
(***************************************************************************)
EXTENDS Integers, Sequences, FiniteSets

QueueIds(q)   == {q[i].id : i \in DOMAIN q}
QueueSongs(q) == {q[i].song : i \in DOMAIN q}

-----------------------------------------------------------------------------
(* A finite set S listed in the strict total order R, a set of pairs.      *)

Before(S, R, i)   == {j \in S : <<j, i>> \in R}
Position(S, R, i) == Cardinality(Before(S, R, i)) + 1
Enumerate(S, R) ==
  [k \in 1..Cardinality(S) |-> CHOOSE i \in S : Position(S, R, i) = k]

IndexOrder(S) == {p \in S \X S : p[1] < p[2]}

(* The elements of q at the indices S, in the order they have in q.        *)
Subqueue(q, S) ==
  [k \in 1..Cardinality(S) |-> q[Enumerate(S, IndexOrder(S))[k]]]

-----------------------------------------------------------------------------
Voters(votes, id) == {v \in votes : v[1] = id}

(* The upvotes stored with a row are replaced by the number of its voters. *)
WithVoteCounts(q, votes) ==
  [i \in DOMAIN q |-> [q[i] EXCEPT !.upvotes = Cardinality(Voters(votes, q[i].id))]]

(* The comparison of rank_queue: unplayed rows first, then more upvotes.   *)
Above(a, b) == \/ ~a.played /\ b.played
               \/ a.played = b.played /\ a.upvotes > b.upvotes

(* sort_by is stable: rows that compare equal keep their order.            *)
RankOrder(q) ==
  {p \in (DOMAIN q) \X (DOMAIN q) :
     \/ Above(q[p[1]], q[p[2]])
     \/ ~Above(q[p[2]], q[p[1]]) /\ p[1] < p[2]}

RankQueue(q) ==
  [k \in DOMAIN q |-> q[Enumerate(DOMAIN q, RankOrder(q))[k]]]

RankedQueue(q, votes) == RankQueue(WithVoteCounts(q, votes))

(* What rank_queue promises of the order it returns.                       *)
IsRanked(q) == \A i, j \in DOMAIN q : i < j => ~Above(q[j], q[i])
=============================================================================
