--------------------------- MODULE RoomAtomicProofs ---------------------------
(***************************************************************************)
(* The invariants of RoomAtomic, for any number of songs and sessions and  *)
(* any contents. Sound is the inductive invariant. Beyond the properties   *)
(* the model states it says that ids above the revision are unused (a new  *)
(* row's id is fresh), that the stored queue is ranked, and that the       *)
(* upvotes stored with an unplayed row are its votes: without the last one *)
(* promotion, which ranks by the stored upvotes, would disorder the queue. *)
(***************************************************************************)
EXTENDS RoomAtomic, FiniteSetTheorems, TLAPS

-----------------------------------------------------------------------------
(* Ranking a queue permutes its rows and sorts them, for queues of any     *)
(* length; taking a subqueue keeps the chosen rows and no other.           *)

StrictTotalOrder(S, R) ==
  /\ \A i \in S : <<i, i>> \notin R
  /\ \A i, j, k \in S : <<i, j>> \in R /\ <<j, k>> \in R => <<i, k>> \in R
  /\ \A i, j \in S : i # j => <<i, j>> \in R \/ <<j, i>> \in R

(* e lists S in the order R, each element once.                            *)
Lists(e, S, R) ==
  /\ e \in [1..Cardinality(S) -> S]
  /\ \A a, b \in 1..Cardinality(S) : a < b => <<e[a], e[b]>> \in R
  /\ \A a, b \in 1..Cardinality(S) : a # b => e[a] # e[b]
  /\ \A i \in S : \E a \in 1..Cardinality(S) : e[a] = i

(* Elements take different positions, in the order R.                      *)
LEMMA PositionOrder ==
  ASSUME NEW S, IsFiniteSet(S), NEW R, StrictTotalOrder(S, R)
  PROVE  /\ \A i \in S : Position(S, R, i) \in 1..Cardinality(S)
         /\ \A i, j \in S : <<i, j>> \in R => Position(S, R, i) < Position(S, R, j)
<1>1. ASSUME NEW i \in S
      PROVE  /\ IsFiniteSet(Before(S, R, i))
             /\ Cardinality(Before(S, R, i)) \in Nat
             /\ Position(S, R, i) \in 1..Cardinality(S)
  <2>1. Before(S, R, i) \in SUBSET (S \ {i})
    BY DEF Before, StrictTotalOrder
  <2>2. IsFiniteSet(S \ {i}) /\ Cardinality(S \ {i}) = Cardinality(S) - 1
    BY FS_RemoveElement
  <2>3. /\ IsFiniteSet(Before(S, R, i))
        /\ Cardinality(Before(S, R, i)) <= Cardinality(S \ {i})
    BY <2>1, <2>2, FS_Subset
  <2>4. Cardinality(Before(S, R, i)) \in Nat /\ Cardinality(S) \in Nat
    BY <2>3, FS_CardinalityType
  <2> QED BY <2>2, <2>3, <2>4 DEF Position
<1>2. ASSUME NEW i \in S, NEW j \in S, <<i, j>> \in R
      PROVE  Position(S, R, i) < Position(S, R, j)
  <2>1. Before(S, R, i) \union {i} \in SUBSET Before(S, R, j)
    BY <1>2 DEF Before, StrictTotalOrder
  <2>2. i \notin Before(S, R, i)
    BY DEF Before, StrictTotalOrder
  <2>3. Cardinality(Before(S, R, i) \union {i}) = Cardinality(Before(S, R, i)) + 1
    BY <1>1, <2>2, FS_AddElement
  <2>4. Cardinality(Before(S, R, i) \union {i}) <= Cardinality(Before(S, R, j))
    BY <1>1, <2>1, FS_Subset
  <2> QED BY <1>1, <2>3, <2>4 DEF Position
<1> QED BY <1>1, <1>2

(* Enumerate lists a finite set in the given order.                        *)
LEMMA EnumerateLists ==
  ASSUME NEW S, IsFiniteSet(S), NEW R, StrictTotalOrder(S, R)
  PROVE  Lists(Enumerate(S, R), S, R)
<1> DEFINE n == Cardinality(S)
           P == [i \in S |-> Position(S, R, i)]
           e == Enumerate(S, R)
<1>0. /\ \A i \in S : Position(S, R, i) \in 1..n
      /\ \A i, j \in S : <<i, j>> \in R => Position(S, R, i) < Position(S, R, j)
  BY PositionOrder
<1>1. n \in Nat
  BY FS_CardinalityType
<1> HIDE DEF n, e
<1>2. \A i, j \in S : i # j => Position(S, R, i) # Position(S, R, j)
  <2> SUFFICES ASSUME NEW i \in S, NEW j \in S, i # j
               PROVE  Position(S, R, i) # Position(S, R, j)
    OBVIOUS
  <2>1. <<i, j>> \in R \/ <<j, i>> \in R
    BY DEF StrictTotalOrder
  <2>2. /\ Position(S, R, i) \in Int /\ Position(S, R, j) \in Int
        /\ \/ Position(S, R, i) < Position(S, R, j)
           \/ Position(S, R, j) < Position(S, R, i)
    BY <1>0, <1>1, <2>1
  <2> QED BY <2>2
<1>3. P \in Injection(S, 1..n)
  BY <1>0, <1>2 DEF Injection, IsInjective
<1>4. IsFiniteSet(1..n) /\ Cardinality(1..n) = n
  BY <1>1, FS_Interval
<1>5. P \in Surjection(S, 1..n)
  <2>1. Cardinality(S) = Cardinality(1..n)
    BY <1>4 DEF n
  <2> QED BY <1>3, <1>4, <2>1, FS_Injection
<1>6. \A k \in 1..n : \E i \in S : Position(S, R, i) = k
  BY <1>5 DEF Surjection
<1>7. \A k \in 1..n : e[k] \in S /\ Position(S, R, e[k]) = k
  BY <1>6 DEF Enumerate, e, n
<1>8. e \in [1..n -> S]
  BY <1>7 DEF Enumerate, e, n
<1>9. \A a, b \in 1..n : a # b => e[a] # e[b]
  BY <1>7
<1>10. \A a, b \in 1..n : a < b => <<e[a], e[b]>> \in R
  <2> SUFFICES ASSUME NEW a \in 1..n, NEW b \in 1..n, a < b
               PROVE  <<e[a], e[b]>> \in R
    OBVIOUS
  <2>1. e[a] # e[b] /\ e[a] \in S /\ e[b] \in S
    BY <1>1, <1>7, <1>9
  <2>2. CASE <<e[b], e[a]>> \in R
    <3>1. Position(S, R, e[b]) < Position(S, R, e[a])
      BY <1>0, <2>1, <2>2
    <3> QED BY <1>1, <1>7, <3>1
  <2> QED BY <2>1, <2>2 DEF StrictTotalOrder
<1>11. \A i \in S : \E a \in 1..n : e[a] = i
  <2> SUFFICES ASSUME NEW i \in S PROVE e[Position(S, R, i)] = i
    BY <1>0
  <2>1. Position(S, R, i) \in 1..n
    BY <1>0
  <2> QED BY <1>2, <1>7, <2>1
<1> QED BY <1>8, <1>9, <1>10, <1>11 DEF Lists, e, n

-----------------------------------------------------------------------------
Rows(T) == [id: Int, song: T, upvotes: Nat, played: BOOLEAN]

(* r is made of the elements of q at the indices S, each taken once.       *)
Selects(r, q, S) ==
  \E e \in [1..Cardinality(S) -> S] :
     /\ \A a, b \in 1..Cardinality(S) : a # b => e[a] # e[b]
     /\ \A i \in S : \E a \in 1..Cardinality(S) : e[a] = i
     /\ r = [k \in 1..Cardinality(S) |-> q[e[k]]]

(* The indices of a queue are a finite set.                                *)
LEMMA Indices ==
  ASSUME NEW X, NEW q \in Seq(X)
  PROVE  /\ DOMAIN q = 1..Len(q) /\ Len(q) \in Nat
         /\ IsFiniteSet(DOMAIN q) /\ Cardinality(DOMAIN q) = Len(q)
<1>1. DOMAIN q = 1..Len(q) /\ Len(q) \in Nat
  OBVIOUS
<1>2. IsFiniteSet(1..Len(q)) /\ Cardinality(1..Len(q)) = Len(q)
  BY <1>1, FS_Interval
<1> QED BY <1>1, <1>2

LEMMA RowTypes ==
  ASSUME NEW T, NEW q \in Seq(Rows(T))
  PROVE  \A i \in DOMAIN q :
           /\ i \in Nat /\ q[i] \in Rows(T)
           /\ q[i].id \in Int /\ q[i].song \in T
           /\ q[i].upvotes \in Nat /\ q[i].played \in BOOLEAN
<1>1. \A i \in DOMAIN q : i \in Nat /\ q[i] \in Rows(T)
  OBVIOUS
<1> QED BY <1>1 DEF Rows

(* The same, without the function that chooses the indices.                *)
RowsOf(r, q, S) ==
  /\ \A k \in DOMAIN r : \E i \in S : r[k] = q[i]
  /\ \A i \in S : \E k \in DOMAIN r : r[k] = q[i]
  /\ \A k, l \in DOMAIN r : k # l => \E i, j \in S : i # j /\ r[k] = q[i] /\ r[l] = q[j]

(* A selection from a queue is a queue of rows of that queue.              *)
LEMMA SelectionIsQueue ==
  ASSUME NEW X, NEW q \in Seq(X), NEW S, S \subseteq DOMAIN q, NEW r, Selects(r, q, S)
  PROVE  r \in Seq(X) /\ RowsOf(r, q, S)
<1>1. IsFiniteSet(S) /\ Cardinality(S) \in Nat
  BY Indices, FS_Subset, FS_CardinalityType
<1>2. PICK e \in [1..Cardinality(S) -> S] :
         /\ \A a, b \in 1..Cardinality(S) : a # b => e[a] # e[b]
         /\ \A i \in S : \E a \in 1..Cardinality(S) : e[a] = i
         /\ r = [k \in 1..Cardinality(S) |-> q[e[k]]]
  BY DEF Selects
<1> HIDE DEF Selects
<1>3. \A k \in 1..Cardinality(S) : e[k] \in S /\ r[k] = q[e[k]]
  BY <1>2
<1>4. DOMAIN r = 1..Cardinality(S)
  BY <1>2
<1>5. r \in [1..Cardinality(S) -> X]
  BY <1>2
<1> QED BY <1>1, <1>2, <1>3, <1>4, <1>5 DEF RowsOf

LEMMA IndexOrderTotal ==
  ASSUME NEW S \in SUBSET Nat
  PROVE  StrictTotalOrder(S, IndexOrder(S))
BY DEF StrictTotalOrder, IndexOrder

LEMMA SubqueueSelects ==
  ASSUME NEW X, NEW q \in Seq(X), NEW S \in SUBSET DOMAIN q
  PROVE  Selects(Subqueue(q, S), q, S)
<1> DEFINE e == Enumerate(S, IndexOrder(S))
<1>1. IsFiniteSet(S) /\ S \in SUBSET Nat
  BY Indices, FS_Subset
<1>2. Lists(e, S, IndexOrder(S))
  BY <1>1, IndexOrderTotal, EnumerateLists
<1>3. Subqueue(q, S) = [k \in 1..Cardinality(S) |-> q[e[k]]]
  BY DEF Subqueue
<1> HIDE DEF e
<1> QED BY <1>2, <1>3 DEF Selects, Lists

LEMMA RankOrderTotal ==
  ASSUME NEW T, NEW q \in Seq(Rows(T))
  PROVE  StrictTotalOrder(DOMAIN q, RankOrder(q))
<1>1. \A i \in DOMAIN q : q[i].played \in BOOLEAN /\ q[i].upvotes \in Int /\ i \in Int
  BY RowTypes
<1> QED BY <1>1 DEF StrictTotalOrder, RankOrder, Above

(* rank_queue permutes the rows and leaves them sorted.                    *)
LEMMA RankQueueSorts ==
  ASSUME NEW T, NEW q \in Seq(Rows(T))
  PROVE  Selects(RankQueue(q), q, DOMAIN q) /\ IsRanked(RankQueue(q))
<1> DEFINE e == Enumerate(DOMAIN q, RankOrder(q))
<1>1. Lists(e, DOMAIN q, RankOrder(q))
  BY Indices, RankOrderTotal, EnumerateLists
<1>2. RankQueue(q) = [k \in DOMAIN q |-> q[e[k]]]
  BY DEF RankQueue
<1>3. DOMAIN q = 1..Cardinality(DOMAIN q) /\ DOMAIN q \subseteq Nat
  BY Indices
<1> HIDE DEF e
<1>4. Selects(RankQueue(q), q, DOMAIN q)
  BY <1>1, <1>2, <1>3 DEF Selects, Lists
<1>5. IsRanked(RankQueue(q))
  <2> SUFFICES ASSUME NEW i \in DOMAIN q, NEW j \in DOMAIN q, i < j
               PROVE  ~Above(q[e[j]], q[e[i]])
    BY <1>2 DEF IsRanked
  <2>1. <<e[i], e[j]>> \in RankOrder(q)
    BY <1>1, <1>3 DEF Lists
  <2>2. e[i] \in DOMAIN q /\ e[j] \in DOMAIN q
    BY <1>1, <1>3 DEF Lists
  <2>3. /\ q[e[i]].played \in BOOLEAN /\ q[e[i]].upvotes \in Int
        /\ q[e[j]].played \in BOOLEAN /\ q[e[j]].upvotes \in Int
    BY <2>2, RowTypes
  <2> QED BY <2>1, <2>3 DEF RankOrder, Above
<1> QED BY <1>4, <1>5

(* The sort is stable: it leaves a sorted queue as it is.                  *)
LEMMA RankQueueStable ==
  ASSUME NEW T, NEW q \in Seq(Rows(T)), IsRanked(q)
  PROVE  RankQueue(q) = q
<1> DEFINE n == Len(q)
           e == Enumerate(DOMAIN q, RankOrder(q))
<1>1. n \in Nat /\ DOMAIN q = 1..n /\ Cardinality(DOMAIN q) = n /\ IsFiniteSet(DOMAIN q)
  BY Indices
<1> HIDE DEF n
<1>2. \A i \in 1..n : Before(DOMAIN q, RankOrder(q), i) = 1..(i - 1)
  <2>1. \A i, j \in 1..n : <<j, i>> \in RankOrder(q) <=> j < i
    <3> SUFFICES ASSUME NEW i \in 1..n, NEW j \in 1..n
                 PROVE  <<j, i>> \in RankOrder(q) <=> j < i
      OBVIOUS
    <3>1. /\ i < j => ~Above(q[j], q[i])
          /\ j < i => ~Above(q[i], q[j])
      BY <1>1 DEF IsRanked
    <3>2. i = j => ~Above(q[i], q[j])
      BY <1>1, RowTypes DEF Above
    <3>3. <<j, i>> \in RankOrder(q) <=>
            Above(q[j], q[i]) \/ (~Above(q[i], q[j]) /\ j < i)
      BY <1>1 DEF RankOrder
    <3> QED BY <1>1, <3>1, <3>2, <3>3
  <2> QED BY <1>1, <2>1 DEF Before
<1>3. \A i \in 1..n : Position(DOMAIN q, RankOrder(q), i) = i
  <2> SUFFICES ASSUME NEW i \in 1..n
               PROVE  Position(DOMAIN q, RankOrder(q), i) = i
    OBVIOUS
  <2>1. Cardinality(1..(i - 1)) = i - 1
    BY <1>1, FS_Interval
  <2> QED BY <1>1, <1>2, <2>1 DEF Position
<1>4. \A k \in 1..n : e[k] = k
  BY <1>1, <1>3 DEF Enumerate
<1> HIDE DEF e
<1>5. \A k \in DOMAIN q : q[e[k]] = q[k]
  BY <1>1, <1>4
<1> QED BY <1>5 DEF RankQueue, e

-----------------------------------------------------------------------------
(* Rooms.                                                                  *)

Distinct(q) == \A i, j \in DOMAIN q : i # j => q[i].song # q[j].song /\ q[i].id # q[j].id

ContentSongs(content) == {content[i] : i \in DOMAIN content}

Proper(q, songs, top) ==
  /\ q \in Seq(Rows(Songs))
  /\ Distinct(q)
  /\ \A i \in DOMAIN q : q[i].id <= top /\ q[i].song \in songs

VotesOn(votes, q) ==
  /\ votes \in SUBSET (Int \X Sessions)
  /\ \A v \in votes : \E i \in DOMAIN q : q[i].id = v[1] /\ ~q[i].played

Counted(q, votes) ==
  \A i \in DOMAIN q : ~q[i].played => q[i].upvotes = Cardinality(Voters(votes, q[i].id))

Sound(r) ==
  /\ r \in Room
  /\ Proper(r.queue, ContentSongs(r.content), r.revision)
  /\ VotesOn(r.votes, r.queue)
  /\ Counted(r.queue, r.votes)
  /\ IsRanked(r.queue)
  /\ r.musical.started => r.musical.index \in DOMAIN r.content

-----------------------------------------------------------------------------
(* What the operations on queues keep.                                     *)

LEMMA RowIsRows == Row = Rows(Songs)
BY DEF Row, Rows

LEMMA ProperTypes ==
  ASSUME NEW q, NEW songs, NEW top \in Int, Proper(q, songs, top)
  PROVE  /\ q \in Seq(Rows(Songs))
         /\ DOMAIN q = 1..Len(q) /\ Len(q) \in Nat
         /\ \A i \in DOMAIN q :
              /\ i \in Nat /\ q[i] \in Rows(Songs)
              /\ q[i].id \in Int /\ q[i].song \in Songs
              /\ q[i].upvotes \in Nat /\ q[i].played \in BOOLEAN
BY RowTypes, Indices DEF Proper

LEMMA SelectionProper ==
  ASSUME NEW q, NEW songs, NEW top \in Int, Proper(q, songs, top),
         NEW S, S \subseteq DOMAIN q, NEW p, Selects(p, q, S)
  PROVE  Proper(p, songs, top)
<1>1. q \in Seq(Rows(Songs))
  BY DEF Proper
<1>2. p \in Seq(Rows(Songs)) /\ RowsOf(p, q, S)
  BY <1>1, SelectionIsQueue
<1>3. Distinct(p)
  <2> SUFFICES ASSUME NEW k \in DOMAIN p, NEW l \in DOMAIN p, k # l
               PROVE  p[k].song # p[l].song /\ p[k].id # p[l].id
    BY DEF Distinct
  <2>1. PICK i \in S, j \in S : i # j /\ p[k] = q[i] /\ p[l] = q[j]
    BY <1>2 DEF RowsOf
  <2> QED BY <2>1 DEF Proper, Distinct
<1> QED BY <1>2, <1>3 DEF Proper, RowsOf

LEMMA SelectionCounted ==
  ASSUME NEW q \in Seq(Rows(Songs)), NEW votes, Counted(q, votes),
         NEW S, S \subseteq DOMAIN q, NEW p, Selects(p, q, S)
  PROVE  Counted(p, votes)
<1>1. RowsOf(p, q, S)
  BY SelectionIsQueue
<1> QED BY <1>1 DEF Counted, RowsOf

(* The votes of rows that were selected are votes for rows of the result.  *)
LEMMA SelectionVotes ==
  ASSUME NEW q \in Seq(Rows(Songs)), NEW votes, VotesOn(votes, q),
         NEW S, S \subseteq DOMAIN q, NEW p, Selects(p, q, S),
         \A v \in votes : \A i \in DOMAIN q : q[i].id = v[1] => i \in S
  PROVE  VotesOn(votes, p)
<1>1. RowsOf(p, q, S)
  BY SelectionIsQueue
<1> QED BY <1>1 DEF VotesOn, RowsOf

LEMMA RankKeeps ==
  ASSUME NEW q, NEW songs, NEW top \in Int, Proper(q, songs, top), NEW votes
  PROVE  /\ Proper(RankQueue(q), songs, top)
         /\ IsRanked(RankQueue(q))
         /\ QueueSongs(RankQueue(q)) = QueueSongs(q)
         /\ VotesOn(votes, q) => VotesOn(votes, RankQueue(q))
         /\ Counted(q, votes) => Counted(RankQueue(q), votes)
<1>1. q \in Seq(Rows(Songs))
  BY DEF Proper
<1>2. Selects(RankQueue(q), q, DOMAIN q) /\ IsRanked(RankQueue(q))
  BY <1>1, RankQueueSorts
<1>3. Proper(RankQueue(q), songs, top)
  BY <1>2, SelectionProper
<1>4. VotesOn(votes, q) => VotesOn(votes, RankQueue(q))
  BY <1>1, <1>2, SelectionVotes
<1>5. Counted(q, votes) => Counted(RankQueue(q), votes)
  BY <1>1, <1>2, SelectionCounted
<1>6. QueueSongs(RankQueue(q)) = QueueSongs(q)
  <2>1. RowsOf(RankQueue(q), q, DOMAIN q)
    BY <1>1, <1>2, SelectionIsQueue
  <2> QED BY <2>1 DEF QueueSongs, RowsOf
<1> QED BY <1>2, <1>3, <1>4, <1>5, <1>6

LEMMA VotersFinite ==
  ASSUME NEW votes \in SUBSET (Int \X Sessions), NEW id
  PROVE  IsFiniteSet(Voters(votes, id)) /\ Cardinality(Voters(votes, id)) \in Nat
<1>1. IsFiniteSet({id}) /\ IsFiniteSet(Sessions)
  BY FS_Singleton, AtomicAssumption
<1>2. IsFiniteSet({id} \X Sessions)
  BY <1>1, FS_Product
<1>3. Voters(votes, id) \in SUBSET ({id} \X Sessions)
  BY DEF Voters
<1> QED BY <1>2, <1>3, FS_Subset, FS_CardinalityType

LEMMA RecountKeeps ==
  ASSUME NEW q, NEW songs, NEW top \in Int, Proper(q, songs, top),
         NEW votes, VotesOn(votes, q)
  PROVE  LET c == WithVoteCounts(q, votes) IN
         /\ Proper(c, songs, top)
         /\ QueueSongs(c) = QueueSongs(q)
         /\ VotesOn(votes, c)
         /\ Counted(c, votes)
<1> DEFINE c == WithVoteCounts(q, votes)
<1>0. votes \in SUBSET (Int \X Sessions)
  BY DEF VotesOn
<1>1. \A i \in DOMAIN q : /\ q[i] \in Rows(Songs)
                          /\ Cardinality(Voters(votes, q[i].id)) \in Nat
  BY <1>0, ProperTypes, VotersFinite
<1>2. /\ DOMAIN c = DOMAIN q
      /\ \A i \in DOMAIN q : c[i] = [q[i] EXCEPT !.upvotes = Cardinality(Voters(votes, q[i].id))]
  BY DEF WithVoteCounts
<1>3. \A i \in DOMAIN q :
        /\ c[i] \in Rows(Songs)
        /\ c[i].id = q[i].id /\ c[i].song = q[i].song /\ c[i].played = q[i].played
        /\ c[i].upvotes = Cardinality(Voters(votes, c[i].id))
  BY <1>1, <1>2 DEF Rows
<1>4. c \in Seq(Rows(Songs))
  <2>1. DOMAIN q = 1..Len(q) /\ Len(q) \in Nat
    BY ProperTypes
  <2>2. c \in [1..Len(q) -> Rows(Songs)]
    BY <1>3, <2>1 DEF WithVoteCounts
  <2> QED BY <2>1, <2>2
<1> HIDE DEF c
<1>5. Proper(c, songs, top)
  BY <1>2, <1>3, <1>4 DEF Proper, Distinct
<1>6. VotesOn(votes, c) /\ Counted(c, votes)
  BY <1>2, <1>3 DEF VotesOn, Counted
<1>7. QueueSongs(c) = QueueSongs(q)
  BY <1>2, <1>3 DEF QueueSongs
<1> QED BY <1>5, <1>6, <1>7 DEF c

LEMMA RankedKeeps ==
  ASSUME NEW q, NEW songs, NEW top \in Int, Proper(q, songs, top),
         NEW votes, VotesOn(votes, q)
  PROVE  /\ Proper(RankedQueue(q, votes), songs, top)
         /\ QueueSongs(RankedQueue(q, votes)) = QueueSongs(q)
         /\ VotesOn(votes, RankedQueue(q, votes))
         /\ Counted(RankedQueue(q, votes), votes)
         /\ IsRanked(RankedQueue(q, votes))
BY RankKeeps, RecountKeeps DEF RankedQueue

(* A row of a song that is not queued can be appended under a fresh id.    *)
LEMMA AppendKeeps ==
  ASSUME NEW q, NEW songs, NEW top \in Int, Proper(q, songs, top),
         NEW more, songs \subseteq more,
         NEW row \in Rows(Songs), row.id = top + 1, row.song \in more,
         row.song \notin QueueSongs(q),
         NEW votes, VotesOn(votes, q), Counted(q, votes),
         row.upvotes = 0 \/ row.played
  PROVE  /\ Proper(Append(q, row), more, top + 1)
         /\ VotesOn(votes, Append(q, row))
         /\ Counted(Append(q, row), votes)
<1> DEFINE a == Append(q, row)
<1>1. /\ a \in Seq(Rows(Songs))
      /\ DOMAIN a = 1..(Len(q) + 1) /\ DOMAIN q = 1..Len(q) /\ Len(q) \in Nat
      /\ \A i \in DOMAIN q : a[i] = q[i]
      /\ a[Len(q) + 1] = row
  BY ProperTypes
<1> HIDE DEF a
<1>2. \A i \in DOMAIN a : i \in DOMAIN q \/ i = Len(q) + 1
  BY <1>1
<1>3. \A i \in DOMAIN q : q[i].id \in Int /\ q[i].id < row.id /\ q[i].song # row.song
  <2>1. \A i \in DOMAIN q : q[i].id \in Int /\ q[i].id <= top
    BY ProperTypes DEF Proper
  <2>2. \A i \in DOMAIN q : q[i].song # row.song
    BY DEF QueueSongs
  <2> QED BY <2>1, <2>2
<1>4. Distinct(a)
  <2> SUFFICES ASSUME NEW i \in DOMAIN a, NEW j \in DOMAIN a, i # j
               PROVE  a[i].song # a[j].song /\ a[i].id # a[j].id
    BY DEF Distinct
  <2>1. CASE i \in DOMAIN q /\ j \in DOMAIN q
    BY <1>1, <2>1 DEF Proper, Distinct
  <2>2. CASE i \in DOMAIN q /\ j = Len(q) + 1
    BY <1>1, <1>3, <2>2
  <2>3. CASE j \in DOMAIN q /\ i = Len(q) + 1
    BY <1>1, <1>3, <2>3
  <2> QED BY <1>2, <2>1, <2>2, <2>3
<1>5. Proper(a, more, top + 1)
  <2>1. \A i \in DOMAIN q : a[i].id <= top + 1 /\ a[i].song \in more
    BY <1>1, <1>3 DEF Proper
  <2> QED BY <1>1, <1>2, <1>4, <2>1 DEF Proper
<1>6. VotesOn(votes, a)
  <2>1. DOMAIN q \subseteq DOMAIN a
    BY <1>1
  <2> QED BY <1>1, <2>1 DEF VotesOn
<1>7. Voters(votes, row.id) = {}
  BY <1>3 DEF VotesOn, Voters
<1>8. Counted(a, votes)
  BY <1>1, <1>2, <1>7, FS_EmptySet DEF Counted
<1> QED BY <1>5, <1>6, <1>8 DEF a

-----------------------------------------------------------------------------
(* The requests take a sound room to a sound room.                         *)

Stored(n, revision) == [n EXCEPT !.revision = revision + 1]

LEMMA SoundParts ==
  ASSUME NEW r, Sound(r)
  PROVE  /\ r \in Room /\ r.revision \in Nat /\ r.revision \in Int
         /\ r.content \in Seq(Songs)
         /\ Proper(r.queue, ContentSongs(r.content), r.revision)
         /\ VotesOn(r.votes, r.queue) /\ Counted(r.queue, r.votes) /\ IsRanked(r.queue)
         /\ r.votes \in SUBSET (Int \X Sessions)
         /\ r.musical \in Musical
BY DEF Sound, Room

(* What makes the stored room sound when a request changed these parts.    *)
LEMMA StoredSound ==
  ASSUME NEW r, Sound(r), NEW content \in Seq(Songs), NEW queue, NEW votes,
         NEW musical \in Musical, NEW additions \in BOOLEAN,
         Proper(queue, ContentSongs(content), r.revision + 1),
         VotesOn(votes, queue), Counted(queue, votes), IsRanked(queue),
         musical.started => musical.index \in DOMAIN content
  PROVE  Sound([r EXCEPT !.content = content, !.queue = queue, !.votes = votes,
                         !.musical = musical, !.additions = additions,
                         !.revision = r.revision + 1])
<1> DEFINE n == [r EXCEPT !.content = content, !.queue = queue, !.votes = votes,
                          !.musical = musical, !.additions = additions,
                          !.revision = r.revision + 1]
<1>1. r \in Room
  BY DEF Sound
<1>2. queue \in Seq(Row) /\ votes \in SUBSET (Int \X Sessions)
  BY RowIsRows DEF Proper, VotesOn
<1>3. /\ n \in Room
      /\ n.content = content /\ n.queue = queue /\ n.votes = votes
      /\ n.musical = musical /\ n.revision = r.revision + 1
  <2>1. r.revision + 1 \in Nat
    BY <1>1 DEF Room
  <2> DEFINE new == r.revision + 1
  <2> HIDE DEF new
  <2>2. /\ [r EXCEPT !.content = content, !.queue = queue, !.votes = votes,
                     !.musical = musical, !.additions = additions, !.revision = new] \in Room
        /\ DOMAIN r = {"open", "revision", "content", "queue", "votes", "musical", "additions"}
    BY <1>1, <1>2, <2>1 DEF Room, new
  <2> QED BY <2>2 DEF new
<1> HIDE DEF n
<1>4. Sound(n)
  BY <1>3 DEF Sound
<1> QED BY <1>4 DEF n

LEMMA ProperLater ==
  ASSUME NEW q, NEW songs, NEW top \in Int, Proper(q, songs, top)
  PROVE  Proper(q, songs, top + 1)
<1>1. \A i \in DOMAIN q : q[i].id \in Int
  BY ProperTypes
<1> QED BY <1>1 DEF Proper

LEMMA AddedContentGrows ==
  ASSUME NEW content \in Seq(Songs), NEW song \in Songs
  PROVE  /\ AddedContent(content, song) \in Seq(Songs)
         /\ ContentSongs(content) \subseteq ContentSongs(AddedContent(content, song))
         /\ song \in ContentSongs(AddedContent(content, song))
         /\ DOMAIN content \subseteq DOMAIN AddedContent(content, song)
         /\ Len(content) <= Len(AddedContent(content, song))
         /\ \A i \in DOMAIN content : AddedContent(content, song)[i] = content[i]
<1>1. CASE InContent(content, song)
  BY <1>1 DEF AddedContent, InContent, ContentSongs
<1>2. CASE ~InContent(content, song)
  <2> DEFINE a == Append(content, song)
  <2>1. /\ a \in Seq(Songs) /\ Len(content) \in Nat /\ Len(a) = Len(content) + 1
        /\ DOMAIN a = 1..(Len(content) + 1) /\ DOMAIN content = 1..Len(content)
        /\ \A i \in DOMAIN content : a[i] = content[i]
        /\ a[Len(content) + 1] = song
    OBVIOUS
  <2>2. AddedContent(content, song) = a
    BY <1>2 DEF AddedContent
  <2> HIDE DEF a
  <2>3. DOMAIN content \subseteq DOMAIN a /\ Len(content) + 1 \in DOMAIN a
    BY <2>1
  <2>4. song \in ContentSongs(a)
    BY <2>1, <2>3 DEF ContentSongs
  <2>5. ContentSongs(content) \subseteq ContentSongs(a)
    BY <2>1, <2>3 DEF ContentSongs
  <2> QED BY <2>1, <2>2, <2>3, <2>4, <2>5
<1> QED BY <1>1, <1>2

LEMMA AddSound ==
  ASSUME NEW r, Sound(r), NEW n \in AddResults(r)
  PROVE  Sound(Stored(n, r.revision))
<1>1. PICK song \in Songs :
        /\ song \notin QueueSongs(r.queue)
        /\ n = [r EXCEPT !.content = AddedContent(r.content, song),
                         !.queue = AddedQueue(r, song)]
  BY DEF AddResults
<1> DEFINE old == RankedQueue(r.queue, r.votes)
           row == [id |-> FreshId(r), song |-> song, upvotes |-> 0, played |-> FALSE]
           content == AddedContent(r.content, song)
<1>2. /\ r.revision \in Int /\ r.content \in Seq(Songs) /\ r \in Room
      /\ Proper(old, ContentSongs(r.content), r.revision)
      /\ QueueSongs(old) = QueueSongs(r.queue)
      /\ VotesOn(r.votes, old) /\ Counted(old, r.votes)
  BY SoundParts, RankedKeeps
<1>3. /\ content \in Seq(Songs) /\ song \in ContentSongs(content)
      /\ ContentSongs(r.content) \subseteq ContentSongs(content)
      /\ DOMAIN r.content \subseteq DOMAIN content
  BY <1>2, AddedContentGrows
<1>4. /\ row \in Rows(Songs) /\ row.id = r.revision + 1 /\ row.song = song
      /\ row.upvotes = 0
  BY <1>2 DEF Rows, FreshId
<1> HIDE DEF old, row, content
<1>5. /\ Proper(Append(old, row), ContentSongs(content), r.revision + 1)
      /\ VotesOn(r.votes, Append(old, row))
      /\ Counted(Append(old, row), r.votes)
  BY <1>1, <1>2, <1>3, <1>4, AppendKeeps
<1>6. AddedQueue(r, song) = RankQueue(Append(old, row))
  BY DEF AddedQueue, old, row
<1>7. /\ Proper(AddedQueue(r, song), ContentSongs(content), r.revision + 1)
      /\ VotesOn(r.votes, AddedQueue(r, song))
      /\ Counted(AddedQueue(r, song), r.votes)
      /\ IsRanked(AddedQueue(r, song))
  BY <1>2, <1>5, <1>6, RankKeeps
<1>8. /\ r.musical \in Musical /\ r.additions \in BOOLEAN
      /\ r.musical.started => r.musical.index \in DOMAIN content
  BY <1>3 DEF Sound, Room
<1>9. Sound([r EXCEPT !.content = content, !.queue = AddedQueue(r, song), !.votes = r.votes,
                      !.musical = r.musical, !.additions = r.additions,
                      !.revision = r.revision + 1])
  BY <1>3, <1>7, <1>8, StoredSound
<1>10. Stored(n, r.revision) =
         [r EXCEPT !.content = content, !.queue = AddedQueue(r, song), !.votes = r.votes,
                   !.musical = r.musical, !.additions = r.additions,
                   !.revision = r.revision + 1]
  BY <1>1, <1>2 DEF Stored, content, Room
<1> QED BY <1>9, <1>10

(* Rows that keep id and song stay proper.                                 *)
LEMMA SameRowsProper ==
  ASSUME NEW q, NEW songs, NEW top \in Int, Proper(q, songs, top),
         NEW p, p \in [DOMAIN q -> Rows(Songs)],
         \A i \in DOMAIN q : p[i].id = q[i].id /\ p[i].song = q[i].song
  PROVE  Proper(p, songs, top)
<1>1. DOMAIN q = 1..Len(q) /\ Len(q) \in Nat
  BY ProperTypes
<1>2. p \in Seq(Rows(Songs))
  BY <1>1
<1> QED BY <1>2 DEF Proper, Distinct

LEMMA VoteSound ==
  ASSUME NEW r, Sound(r), NEW s \in Sessions, NEW n \in VoteResults(r, s)
  PROVE  Sound(Stored(n, r.revision))
<1>1. PICK id \in QueueIds(r.queue), up \in BOOLEAN :
        n = VoteResult(r, id, s, up)
  BY DEF VoteResults
<1> DEFINE q == IF up THEN Unplayed(r.queue, id) ELSE r.queue
           votes == CastVotes(r.votes, id, s, up)
           songs == ContentSongs(r.content)
<1>2. /\ r.revision \in Int /\ r.content \in Seq(Songs) /\ r \in Room
      /\ Proper(r.queue, songs, r.revision)
      /\ VotesOn(r.votes, r.queue)
  BY SoundParts
<1>3. PICK k \in DOMAIN r.queue : r.queue[k].id = id
  BY DEF QueueIds
<1>4. id \in Int
  BY <1>2, <1>3, ProperTypes
<1>5. Proper(q, songs, r.revision) /\ VotesOn(votes, q)
  <2>1. CASE up
    <3> DEFINE u == Unplayed(r.queue, id)
    <3>1. /\ DOMAIN u = DOMAIN r.queue
          /\ \A i \in DOMAIN r.queue :
               u[i] = IF r.queue[i].id = id THEN [r.queue[i] EXCEPT !.played = FALSE]
                                            ELSE r.queue[i]
      BY DEF Unplayed
    <3>2. \A i \in DOMAIN r.queue :
            /\ u[i] \in Rows(Songs) /\ u[i].id = r.queue[i].id /\ u[i].song = r.queue[i].song
            /\ r.queue[i].id = id => ~u[i].played
            /\ ~r.queue[i].played => ~u[i].played
      <4>1. \A i \in DOMAIN r.queue : r.queue[i] \in Rows(Songs)
        BY <1>2, ProperTypes
      <4> QED BY <3>1, <4>1 DEF Rows
    <3>3. u \in [DOMAIN r.queue -> Rows(Songs)]
      BY <3>2 DEF Unplayed
    <3> HIDE DEF u
    <3>4. Proper(u, songs, r.revision)
      <4> HIDE DEF songs
      <4> QED BY <1>2, <3>2, <3>3, SameRowsProper
    <3>5. votes = r.votes \union {<<id, s>>}
      BY <2>1 DEF CastVotes
    <3>6. VotesOn(votes, u)
      <4>1. votes \in SUBSET (Int \X Sessions)
        BY <1>2, <1>4, <3>5 DEF VotesOn
      <4>2. ASSUME NEW v \in r.votes PROVE \E i \in DOMAIN u : u[i].id = v[1] /\ ~u[i].played
        BY <1>2, <3>1, <3>2 DEF VotesOn
      <4>3. \E i \in DOMAIN u : u[i].id = id /\ ~u[i].played
        BY <1>3, <3>1, <3>2
      <4> QED BY <3>5, <4>1, <4>2, <4>3 DEF VotesOn
    <3> QED BY <2>1, <3>4, <3>6 DEF u
  <2>2. CASE ~up
    BY <1>2, <2>2 DEF VotesOn, CastVotes
  <2> QED BY <2>1, <2>2
<1>6. VotedQueue(r, id, s, up) = RankedQueue(q, votes)
  BY DEF VotedQueue
<1> HIDE DEF q, votes, songs
<1> DEFINE v == RankedQueue(q, votes)
<1>7. Proper(v, songs, r.revision) /\ VotesOn(votes, v) /\ Counted(v, votes) /\ IsRanked(v)
  BY <1>2, <1>5, RankedKeeps
<1> HIDE DEF v
<1>8. Proper(v, songs, r.revision + 1)
  BY <1>2, <1>7, ProperLater
<1>9. /\ r.musical \in Musical /\ r.additions \in BOOLEAN
      /\ r.musical.started => r.musical.index \in DOMAIN r.content
  BY DEF Sound, Room
<1>10. Sound([r EXCEPT !.content = r.content, !.queue = v, !.votes = votes,
                       !.musical = r.musical, !.additions = r.additions,
                       !.revision = r.revision + 1])
  BY <1>2, <1>7, <1>8, <1>9, StoredSound DEF songs
<1>11. Stored(n, r.revision) =
         [r EXCEPT !.content = r.content, !.queue = v, !.votes = votes,
                   !.musical = r.musical, !.additions = r.additions,
                   !.revision = r.revision + 1]
  BY <1>1, <1>2, <1>6 DEF Stored, Room, VoteResult, v, votes
<1> QED BY <1>10, <1>11

LEMMA WithoutRowSelects ==
  ASSUME NEW q \in Seq(Rows(Songs)), NEW id
  PROVE  Selects(WithoutRow(q, id), q, {i \in DOMAIN q : q[i].id # id})
BY SubqueueSelects DEF WithoutRow

LEMMA ReorderingSelects ==
  ASSUME NEW q \in Seq(Rows(Songs)), NEW p \in Reorderings(q)
  PROVE  Selects(p, q, DOMAIN q)
<1>1. PICK o \in Orders(q) : p = [k \in DOMAIN q |-> q[o[k]]]
  BY DEF Reorderings
<1>2. IsFiniteSet(DOMAIN q) /\ DOMAIN q = 1..Cardinality(DOMAIN q)
  BY Indices
<1>3. o \in Surjection(DOMAIN q, DOMAIN q)
  BY DEF Orders, Surjection
<1>4. o \in Injection(DOMAIN q, DOMAIN q)
  BY <1>2, <1>3, FS_Surjection
<1>5. \A a, b \in DOMAIN q : a # b => o[a] # o[b]
  BY <1>4 DEF Injection, IsInjective
<1>6. /\ o \in [1..Cardinality(DOMAIN q) -> DOMAIN q]
      /\ \A i \in DOMAIN q : \E a \in 1..Cardinality(DOMAIN q) : o[a] = i
      /\ p = [k \in 1..Cardinality(DOMAIN q) |-> q[o[k]]]
  BY <1>1, <1>2 DEF Orders
<1>7. \A a, b \in 1..Cardinality(DOMAIN q) : a # b => o[a] # o[b]
  BY <1>2, <1>5
<1> QED BY <1>6, <1>7 DEF Selects

LEMMA HostQueueSound ==
  ASSUME NEW r, Sound(r), NEW q \in Removals(r.queue) \union Reorderings(r.queue)
  PROVE  Sound(Stored(HostQueueResult(r, q), r.revision))
<1> DEFINE songs == ContentSongs(r.content)
           votes == {v \in r.votes : v[1] \in QueueIds(q)}
<1>1. /\ r.revision \in Int /\ r.content \in Seq(Songs) /\ r \in Room
      /\ Proper(r.queue, songs, r.revision) /\ r.queue \in Seq(Rows(Songs))
      /\ VotesOn(r.votes, r.queue)
  BY SoundParts DEF Proper
<1> HIDE DEF songs
<1>2. \E S : S \subseteq DOMAIN r.queue /\ Selects(q, r.queue, S)
  <2>1. CASE q \in Removals(r.queue)
    <3>1. PICK id \in QueueIds(r.queue) : q = WithoutRow(r.queue, id)
      BY <2>1 DEF Removals
    <3> QED BY <1>1, <3>1, WithoutRowSelects
  <2>2. CASE q \in Reorderings(r.queue)
    BY <1>1, <2>2, ReorderingSelects
  <2> QED BY <2>1, <2>2
<1>3. PICK S : S \subseteq DOMAIN r.queue /\ Selects(q, r.queue, S)
  BY <1>2
<1>4. Proper(q, songs, r.revision)
  BY <1>1, <1>3, SelectionProper
<1>5. RowsOf(q, r.queue, S)
  BY <1>1, <1>3, SelectionIsQueue
<1>6. VotesOn(votes, q)
  <2>1. votes \in SUBSET (Int \X Sessions)
    BY <1>1 DEF VotesOn
  <2>2. ASSUME NEW v \in votes PROVE \E k \in DOMAIN q : q[k].id = v[1] /\ ~q[k].played
    <3>1. PICK k \in DOMAIN q : q[k].id = v[1]
      BY DEF QueueIds
    <3>2. PICK i \in DOMAIN r.queue : q[k] = r.queue[i]
      BY <1>3, <1>5 DEF RowsOf
    <3>3. PICK j \in DOMAIN r.queue : r.queue[j].id = v[1] /\ ~r.queue[j].played
      BY <1>1 DEF VotesOn
    <3>4. i = j
      BY <1>1, <3>1, <3>2, <3>3 DEF Proper, Distinct
    <3> QED BY <3>1, <3>2, <3>3, <3>4
  <2> QED BY <2>1, <2>2 DEF VotesOn
<1> HIDE DEF votes
<1> DEFINE new == RankedQueue(q, votes)
<1>7. Proper(new, songs, r.revision) /\ VotesOn(votes, new) /\ Counted(new, votes) /\ IsRanked(new)
  BY <1>1, <1>4, <1>6, RankedKeeps
<1>8. RankedQueue(q, r.votes) = new
  <2>1. \A i \in DOMAIN q : Voters(votes, q[i].id) = Voters(r.votes, q[i].id)
    BY DEF Voters, votes, QueueIds
  <2> QED BY <2>1 DEF RankedQueue, WithVoteCounts
<1> HIDE DEF new
<1>9. Proper(new, songs, r.revision + 1)
  BY <1>1, <1>7, ProperLater
<1>10. /\ r.musical \in Musical /\ r.additions \in BOOLEAN
       /\ r.musical.started => r.musical.index \in DOMAIN r.content
  BY DEF Sound, Room
<1>11. Sound([r EXCEPT !.content = r.content, !.queue = new, !.votes = votes,
                       !.musical = r.musical, !.additions = r.additions,
                       !.revision = r.revision + 1])
  BY <1>1, <1>7, <1>9, <1>10, StoredSound DEF songs
<1>12. Stored(HostQueueResult(r, q), r.revision) =
         [r EXCEPT !.content = r.content, !.queue = new, !.votes = votes,
                   !.musical = r.musical, !.additions = r.additions,
                   !.revision = r.revision + 1]
  BY <1>1, <1>8 DEF Stored, Room, HostQueueResult, votes
<1> QED BY <1>11, <1>12

(* The first index of a song that is in the content exists.                *)
LEMMA ContentIndexIn ==
  ASSUME NEW content \in Seq(Songs), NEW song \in ContentSongs(content)
  PROVE  content_index(content, song) \in DOMAIN content
<1> DEFINE S == {i \in DOMAIN content : content[i] = song}
           e == Enumerate(S, IndexOrder(S))
<1>1. S \subseteq DOMAIN content /\ S \in SUBSET Nat /\ S # {}
  BY DEF ContentSongs
<1>2. IsFiniteSet(S) /\ Cardinality(S) \in Nat /\ Cardinality(S) # 0
  BY <1>1, Indices, FS_Subset, FS_CardinalityType, FS_EmptySet
<1>3. Lists(e, S, IndexOrder(S))
  BY <1>1, <1>2, IndexOrderTotal, EnumerateLists
<1> HIDE DEF e
<1>4. 1 \in 1..Cardinality(S) /\ e[1] \in S
  BY <1>2, <1>3 DEF Lists
<1>5. \A j \in S : ~(j < e[1])
  <2> SUFFICES ASSUME NEW j \in S, j < e[1] PROVE FALSE
    OBVIOUS
  <2>1. PICK a \in 1..Cardinality(S) : e[a] = j
    BY <1>3 DEF Lists
  <2>2. a # 1 /\ e[1] \in Nat /\ j \in Nat
    BY <1>1, <1>4, <2>1
  <2>3. <<e[1], e[a]>> \in IndexOrder(S)
    BY <1>2, <1>3, <1>4, <2>2 DEF Lists
  <2> QED BY <2>1, <2>2, <2>3 DEF IndexOrder
<1>6. /\ e[1] \in DOMAIN content /\ content[e[1]] = song
      /\ \A j \in DOMAIN content : j < e[1] => content[j] # song
  BY <1>4, <1>5
<1> QED BY <1>6 DEF content_index

LEMMA PromoteSound ==
  ASSUME NEW r, Sound(r), NEW n \in PromoteResults(r)
  PROVE  Sound(Stored(n, r.revision))
<1> DEFINE songs == ContentSongs(r.content)
           current == CurrentSong(r)
<1>1. PICK at \in DOMAIN r.queue : n = PromoteResult(r, r.queue[at])
  BY DEF PromoteResults
<1> DEFINE row == r.queue[at]
           rest == WithoutRow(r.queue, row.id)
           shown == Shown(rest, current)
           fresh == [id |-> FreshId(r), song |-> row.song, upvotes |-> 0, played |-> TRUE]
           votes == {v \in r.votes : v[1] # row.id /\ v[1] \notin ShownIds(r.queue, current)}
           musical == [index |-> content_index(r.content, row.song), started |-> TRUE]
           S == {i \in DOMAIN r.queue : r.queue[i].id # row.id}
           queue == RankQueue(Append(shown, fresh))
<1>2. /\ r.revision \in Int /\ r.revision \in Nat /\ r.content \in Seq(Songs) /\ r \in Room
      /\ Proper(r.queue, songs, r.revision) /\ r.queue \in Seq(Rows(Songs))
      /\ VotesOn(r.votes, r.queue) /\ Counted(r.queue, r.votes)
  BY SoundParts DEF Proper
<1>3. row \in Rows(Songs) /\ row.song \in songs /\ row.song \in Songs
  BY <1>2, ProperTypes DEF Proper
<1>4. /\ fresh \in Rows(Songs) /\ fresh.id = r.revision + 1 /\ fresh.song = row.song
      /\ fresh.played
  BY <1>2, <1>3 DEF Rows, FreshId
<1>5. musical \in Musical /\ musical.index \in DOMAIN r.content
  <2>1. content_index(r.content, row.song) \in DOMAIN r.content
    BY <1>2, <1>3, ContentIndexIn
  <2> QED BY <1>2, <2>1 DEF Musical
<1>6. Selects(rest, r.queue, S) /\ S \subseteq DOMAIN r.queue
  BY <1>2, WithoutRowSelects
<1>7. n = [r EXCEPT !.queue = queue, !.votes = votes, !.musical = musical]
  BY <1>1 DEF PromoteResult
<1> HIDE DEF songs, current, row, rest, fresh, votes, musical, queue, S
<1>8. Proper(rest, songs, r.revision) /\ RowsOf(rest, r.queue, S)
  BY <1>2, <1>6, SelectionProper, SelectionIsQueue
<1>9. \A k \in DOMAIN rest : \E i \in DOMAIN r.queue : rest[k] = r.queue[i] /\ i # at
  BY <1>8 DEF RowsOf, S, row
<1>10. /\ DOMAIN shown = DOMAIN rest
       /\ \A k \in DOMAIN rest :
            /\ shown[k] \in Rows(Songs)
            /\ shown[k].id = rest[k].id /\ shown[k].song = rest[k].song
            /\ rest[k].song \in current => shown[k].played
            /\ rest[k].song \notin current => shown[k] = rest[k]
  <2>1. \A k \in DOMAIN rest : rest[k] \in Rows(Songs)
    BY <1>2, <1>8, ProperTypes
  <2> QED BY <2>1 DEF Shown, Rows
<1>11. shown \in [DOMAIN rest -> Rows(Songs)]
  BY <1>10 DEF Shown
<1> HIDE DEF shown
<1>12. Proper(shown, songs, r.revision)
  BY <1>2, <1>8, <1>10, <1>11, SameRowsProper
<1>13. row.song \notin QueueSongs(shown)
  <2> SUFFICES ASSUME NEW k \in DOMAIN shown PROVE shown[k].song # row.song
    BY DEF QueueSongs
  <2>1. PICK i \in DOMAIN r.queue : rest[k] = r.queue[i] /\ i # at
    BY <1>9, <1>10
  <2>2. r.queue[i].song # r.queue[at].song
    BY <1>2, <2>1 DEF Proper, Distinct
  <2> QED BY <1>10, <2>1, <2>2 DEF row
<1>14. votes \in SUBSET (Int \X Sessions)
  BY <1>2 DEF votes, VotesOn
<1>15. VotesOn(votes, shown)
  <2> SUFFICES ASSUME NEW v \in votes
               PROVE  \E k \in DOMAIN shown : shown[k].id = v[1] /\ ~shown[k].played
    BY <1>14 DEF VotesOn
  <2>1. /\ v \in r.votes /\ v[1] # row.id /\ v[1] \notin ShownIds(r.queue, current)
    BY DEF votes
  <2>2. PICK i \in DOMAIN r.queue : r.queue[i].id = v[1] /\ ~r.queue[i].played
    BY <1>2, <2>1 DEF VotesOn
  <2>3. r.queue[i].song \notin current
    BY <2>1, <2>2 DEF ShownIds
  <2>4. PICK k \in DOMAIN rest : rest[k] = r.queue[i]
    BY <1>8, <2>1, <2>2 DEF RowsOf, S
  <2> QED BY <1>10, <2>2, <2>3, <2>4
<1>16. Counted(shown, votes)
  <2> SUFFICES ASSUME NEW k \in DOMAIN shown, ~shown[k].played
               PROVE  shown[k].upvotes = Cardinality(Voters(votes, shown[k].id))
    BY DEF Counted
  <2>1. shown[k] = rest[k] /\ rest[k].song \notin current
    BY <1>10
  <2>2. PICK i \in DOMAIN r.queue : rest[k] = r.queue[i] /\ i # at
    BY <1>9, <1>10
  <2>3. r.queue[i].upvotes = Cardinality(Voters(r.votes, r.queue[i].id))
    BY <1>2, <2>1, <2>2 DEF Counted
  <2>4. r.queue[i].id # row.id /\ r.queue[i].id \notin ShownIds(r.queue, current)
    <3>1. r.queue[i].id # row.id
      BY <1>2, <2>2 DEF Proper, Distinct, row
    <3>2. r.queue[i].song \notin current
      BY <2>1, <2>2
    <3>3. \A j \in DOMAIN r.queue : r.queue[j].id = r.queue[i].id => j = i
      BY <1>2 DEF Proper, Distinct
    <3>4. r.queue[i].id \notin ShownIds(r.queue, current)
      BY <3>2, <3>3 DEF ShownIds
    <3> QED BY <3>1, <3>4
  <2>5. Voters(votes, r.queue[i].id) = Voters(r.votes, r.queue[i].id)
    BY <2>4 DEF Voters, votes
  <2> QED BY <2>1, <2>2, <2>3, <2>5
<1>17. /\ Proper(Append(shown, fresh), songs, r.revision + 1)
       /\ VotesOn(votes, Append(shown, fresh))
       /\ Counted(Append(shown, fresh), votes)
  BY <1>2, <1>3, <1>4, <1>12, <1>13, <1>15, <1>16, AppendKeeps
<1>18. /\ Proper(queue, songs, r.revision + 1) /\ VotesOn(votes, queue)
       /\ Counted(queue, votes) /\ IsRanked(queue)
  <2>1. r.revision + 1 \in Int
    BY <1>2
  <2> QED BY <1>17, <2>1, RankKeeps DEF queue
<1>19. r.additions \in BOOLEAN
  BY <1>2 DEF Room
<1>20. Sound([r EXCEPT !.content = r.content, !.queue = queue, !.votes = votes,
                       !.musical = musical, !.additions = r.additions,
                       !.revision = r.revision + 1])
  BY <1>2, <1>5, <1>18, <1>19, StoredSound DEF songs
<1>21. Stored(n, r.revision) =
         [r EXCEPT !.content = r.content, !.queue = queue, !.votes = votes,
                   !.musical = musical, !.additions = r.additions,
                   !.revision = r.revision + 1]
  BY <1>2, <1>7 DEF Stored, Room
<1> QED BY <1>20, <1>21

LEMMA SettingsSound ==
  ASSUME NEW r, Sound(r), NEW n \in MusicalResults(r) \union {AccessResult(r), r}
  PROVE  Sound(Stored(n, r.revision))
<1>1. /\ r.revision \in Int /\ r.content \in Seq(Songs) /\ r \in Room
      /\ Proper(r.queue, ContentSongs(r.content), r.revision)
      /\ VotesOn(r.votes, r.queue) /\ Counted(r.queue, r.votes) /\ IsRanked(r.queue)
  BY SoundParts
<1>2. Proper(r.queue, ContentSongs(r.content), r.revision + 1)
  BY <1>1, ProperLater
<1>3. PICK musical \in Musical, additions \in BOOLEAN :
        /\ n = [r EXCEPT !.musical = musical, !.additions = additions]
        /\ musical.started => musical.index \in DOMAIN r.content
  <2>1. CASE n \in MusicalResults(r)
    <3>1. PICK m \in [index: DOMAIN r.content, started: BOOLEAN] : n = [r EXCEPT !.musical = m]
      BY <2>1 DEF MusicalResults
    <3>2. m \in Musical /\ m.index \in DOMAIN r.content
      BY <1>1, <3>1 DEF Musical
    <3>3. n = [r EXCEPT !.musical = m, !.additions = r.additions] /\ r.additions \in BOOLEAN
      BY <1>1, <3>1 DEF Room
    <3> QED BY <3>2, <3>3
  <2>2. CASE n = AccessResult(r)
    <3>1. n = [r EXCEPT !.musical = r.musical, !.additions = ~r.additions]
      BY <1>1, <2>2 DEF AccessResult, Room
    <3>2. r.musical \in Musical /\ (~r.additions) \in BOOLEAN
      BY <1>1 DEF Room
    <3> QED BY <3>1, <3>2 DEF Sound
  <2>3. CASE n = r
    <3>1. n = [r EXCEPT !.musical = r.musical, !.additions = r.additions]
      BY <1>1, <2>3 DEF Room
    <3>2. r.musical \in Musical /\ r.additions \in BOOLEAN
      BY <1>1 DEF Room
    <3> QED BY <3>1, <3>2 DEF Sound
  <2> QED BY <2>1, <2>2, <2>3
<1>4. Sound([r EXCEPT !.content = r.content, !.queue = r.queue, !.votes = r.votes,
                      !.musical = musical, !.additions = additions,
                      !.revision = r.revision + 1])
  BY <1>1, <1>2, <1>3, StoredSound
<1>5. Stored(n, r.revision) =
        [r EXCEPT !.content = r.content, !.queue = r.queue, !.votes = r.votes,
                  !.musical = musical, !.additions = additions, !.revision = r.revision + 1]
  BY <1>1, <1>3 DEF Stored, Room
<1> QED BY <1>4, <1>5

-----------------------------------------------------------------------------
(* A room is made sound.                                                   *)

LEMMA SeedsProper ==
  ASSUME NEW content \in Seq(Songs)
  PROVE  LET q == queue_from_content(content) IN
         /\ Proper(q, ContentSongs(content), 1)
         /\ \A k \in DOMAIN q : ~q[k].played /\ q[k].upvotes = 0
<1> DEFINE seeds == [i \in DOMAIN content |->
                       [id |-> -i, song |-> content[i], upvotes |-> 0, played |-> FALSE]]
           S == FirstOccurrences(content)
           q == Subqueue(seeds, S)
<1>1. DOMAIN content = 1..Len(content) /\ Len(content) \in Nat
  OBVIOUS
<1>2. \A i \in DOMAIN content :
        /\ seeds[i] \in Rows(Songs) /\ seeds[i].id = -i /\ seeds[i].song = content[i]
        /\ seeds[i].upvotes = 0 /\ ~seeds[i].played
  BY <1>1 DEF Rows
<1>3. seeds \in Seq(Rows(Songs)) /\ DOMAIN seeds = DOMAIN content
  BY <1>1, <1>2
<1> HIDE DEF seeds
<1>4. S \subseteq DOMAIN seeds
  BY <1>3 DEF FirstOccurrences
<1>5. Selects(q, seeds, S)
  BY <1>3, <1>4, SubqueueSelects
<1> HIDE DEF q
<1>6. q \in Seq(Rows(Songs)) /\ RowsOf(q, seeds, S)
  BY <1>3, <1>4, <1>5, SelectionIsQueue
<1>7. Distinct(q)
  <2> SUFFICES ASSUME NEW k \in DOMAIN q, NEW l \in DOMAIN q, k # l
               PROVE  q[k].song # q[l].song /\ q[k].id # q[l].id
    BY DEF Distinct
  <2>1. PICK i \in S, j \in S : i # j /\ q[k] = seeds[i] /\ q[l] = seeds[j]
    BY <1>6 DEF RowsOf
  <2>2. i \in DOMAIN content /\ j \in DOMAIN content /\ i \in Int /\ j \in Int
    BY <1>1, <1>3, <1>4
  <2>3. content[i] # content[j]
    BY <2>1, <2>2 DEF FirstOccurrences
  <2> QED BY <1>2, <2>1, <2>2, <2>3
<1>8. \A k \in DOMAIN q : /\ q[k].id <= 1 /\ q[k].song \in ContentSongs(content)
                          /\ ~q[k].played /\ q[k].upvotes = 0
  <2> SUFFICES ASSUME NEW k \in DOMAIN q
               PROVE  /\ q[k].id <= 1 /\ q[k].song \in ContentSongs(content)
                      /\ ~q[k].played /\ q[k].upvotes = 0
    OBVIOUS
  <2>1. PICK i \in DOMAIN content : q[k] = seeds[i]
    BY <1>3, <1>4, <1>6 DEF RowsOf
  <2>2. i \in Nat /\ -i <= 1
    BY <1>1
  <2> QED BY <1>2, <2>1, <2>2 DEF ContentSongs
<1>9. queue_from_content(content) = q
  BY DEF queue_from_content, q, seeds
<1> QED BY <1>6, <1>7, <1>8, <1>9 DEF Proper

LEMMA NewRoomSound ==
  ASSUME NEW content \in Seq(Songs), NEW q, Proper(q, ContentSongs(content), 1),
         \A k \in DOMAIN q : ~q[k].played /\ q[k].upvotes = 0
  PROVE  Sound(NewRoom(content, q))
<1> DEFINE r == NewRoom(content, q)
<1>1. q \in Seq(Row)
  BY RowIsRows DEF Proper
<1>2. /\ r \in Room /\ r.queue = q /\ r.content = content /\ r.votes = {}
      /\ r.revision = 1 /\ ~r.musical.started
  BY <1>1 DEF Room, NewRoom, Musical
<1> HIDE DEF r
<1>3. VotesOn({}, q)
  BY DEF VotesOn
<1>4. Counted(q, {})
  <2>1. \A id : Voters({}, id) = {}
    BY DEF Voters
  <2> QED BY <2>1, FS_EmptySet DEF Counted
<1>5. IsRanked(q)
  BY DEF IsRanked, Above
<1> QED BY <1>2, <1>3, <1>4, <1>5 DEF Sound, r

LEMMA InitSound == Init => Sound(room)
<1> SUFFICES ASSUME Init PROVE Sound(room)
  OBVIOUS
<1>1. PICK content \in Sources : \/ room = NewRoom(content, queue_from_content(content))
                                 \/ room = NewRoom(content, <<>>)
  BY DEF Init
<1>2. content \in Seq(Songs)
  BY AtomicAssumption
<1>3. CASE room = NewRoom(content, queue_from_content(content))
  BY <1>2, <1>3, SeedsProper, NewRoomSound
<1>4. CASE room = NewRoom(content, <<>>)
  <2>1. Proper(<<>>, ContentSongs(content), 1)
    BY DEF Proper, Distinct
  <2> QED BY <1>2, <1>4, <2>1, NewRoomSound
<1> QED BY <1>1, <1>3, <1>4

LEMMA NextSound == Sound(room) /\ [Next]_room => Sound(room')
<1> SUFFICES ASSUME Sound(room), [Next]_room PROVE Sound(room')
  OBVIOUS
<1>0. ASSUME NEW n, Store(n) PROVE room' = Stored(n, room.revision)
  BY <1>0 DEF Store, Stored
<1>1. CASE Add
  BY <1>0, <1>1, AddSound DEF Add
<1>2. CASE Vote
  BY <1>0, <1>2, VoteSound DEF Vote
<1>3. CASE Remove
  BY <1>0, <1>3, HostQueueSound DEF Remove
<1>4. CASE Reorder
  BY <1>0, <1>4, HostQueueSound DEF Reorder
<1>5. CASE Promote
  BY <1>0, <1>5, PromoteSound DEF Promote
<1>6. CASE SetMusicalState
  BY <1>0, <1>6, SettingsSound DEF SetMusicalState
<1>7. CASE SetQueueAccess
  BY <1>0, <1>7, SettingsSound DEF SetQueueAccess
<1>8. CASE Other
  BY <1>0, <1>8, SettingsSound DEF Other
<1>9. CASE Close
  <2>1. room \in Room /\ room' = [room EXCEPT !.open = FALSE]
    BY <1>9 DEF Close, Sound
  <2>2. /\ room' \in Room /\ room'.content = room.content /\ room'.queue = room.queue
        /\ room'.votes = room.votes /\ room'.musical = room.musical
        /\ room'.revision = room.revision
    BY <2>1 DEF Room
  <2> QED BY <2>2 DEF Sound
<1>10. CASE UNCHANGED room
  BY <1>10
<1> QED BY <1>1, <1>2, <1>3, <1>4, <1>5, <1>6, <1>7, <1>8, <1>9, <1>10 DEF Next

-----------------------------------------------------------------------------
(* The inductive invariant.                                                *)
IInv == Sound(room)

LEMMA AlwaysSound == Spec => []IInv
<1>1. Init => IInv
  BY InitSound DEF IInv
<1>2. IInv /\ [Next]_room => IInv'
  BY NextSound DEF IInv
<1> QED BY <1>1, <1>2, PTL DEF Spec

(* The room record keeps its shape whatever requests it serves.            *)
THEOREM RoomTyped == Spec => []TypeOK
<1>1. IInv => TypeOK
  BY DEF IInv, Sound, TypeOK
<1> QED BY <1>1, AlwaysSound, PTL

(* A room can always be loaded: every queued song has been captured.       *)
THEOREM QueueResolvable == Spec => []Resolvable
<1>1. IInv => Resolvable
  BY DEF IInv, Sound, Resolvable, Proper, QueueSongs, ContentSongs
<1> QED BY <1>1, AlwaysSound, PTL

(* No song is queued twice and no row id is used twice.                    *)
THEOREM QueueDistinct == Spec => []RowsDistinct
<1>1. IInv => RowsDistinct
  BY DEF IInv, Sound, RowsDistinct, Proper, Distinct
<1> QED BY <1>1, AlwaysSound, PTL

(* Votes are for queued rows that were not played.                         *)
THEOREM VotesAreCurrent == Spec => []VotesCount
<1>1. IInv => VotesCount
  BY DEF IInv, Sound, VotesCount, VotesOn
<1> QED BY <1>1, AlwaysSound, PTL

(* Recounting and ranking the stored queue again does not reorder it.      *)
LEMMA SoundServed ==
  ASSUME NEW r, Sound(r)
  PROVE  RankedQueue(r.queue, r.votes) = WithVoteCounts(r.queue, r.votes)
<1> DEFINE q == r.queue
           votes == r.votes
           c == WithVoteCounts(q, votes)
           songs == ContentSongs(r.content)
<1>1. /\ r.revision \in Int /\ Proper(q, songs, r.revision)
      /\ VotesOn(votes, q) /\ Counted(q, votes) /\ IsRanked(q)
  BY SoundParts
<1> HIDE DEF q, votes, songs
<1>2. Proper(c, songs, r.revision)
  BY <1>1, RecountKeeps
<1>3. DOMAIN q \subseteq Nat /\ DOMAIN c = DOMAIN q
  BY <1>1, ProperTypes DEF WithVoteCounts
<1>4. \A i \in DOMAIN q : /\ c[i].played = q[i].played
                          /\ c[i].upvotes = Cardinality(Voters(votes, q[i].id))
                          /\ ~q[i].played => c[i].upvotes = q[i].upvotes
                          /\ q[i].played => c[i].upvotes = 0
  <2> SUFFICES ASSUME NEW i \in DOMAIN q
               PROVE  /\ c[i].played = q[i].played
                      /\ c[i].upvotes = Cardinality(Voters(votes, q[i].id))
                      /\ ~q[i].played => c[i].upvotes = q[i].upvotes
                      /\ q[i].played => c[i].upvotes = 0
    OBVIOUS
  <2> DEFINE count == Cardinality(Voters(votes, q[i].id))
  <2>1. c[i] = [q[i] EXCEPT !.upvotes = count]
    BY DEF WithVoteCounts
  <2> HIDE DEF count
  <2>2. q[i] \in Rows(Songs)
    BY <1>1, ProperTypes
  <2>3. c[i].played = q[i].played /\ c[i].upvotes = count
    BY <2>1, <2>2 DEF Rows
  <2>4. q[i].played => Voters(votes, q[i].id) = {}
    BY <1>1 DEF VotesOn, Proper, Distinct, Voters
  <2> QED BY <1>1, <2>3, <2>4, FS_EmptySet DEF Counted, count
<1> HIDE DEF c
<1>5. IsRanked(c)
  <2> SUFFICES ASSUME NEW i \in DOMAIN q, NEW j \in DOMAIN q, i < j
               PROVE  ~Above(c[j], c[i])
    BY <1>3 DEF IsRanked
  <2>1. ~Above(q[j], q[i])
    BY <1>1 DEF IsRanked
  <2> QED BY <1>4, <2>1 DEF Above
<1>6. RankQueue(c) = c
  BY <1>2, <1>5, RankQueueStable DEF Proper
<1> QED BY <1>6 DEF RankedQueue, c, q, votes

(* The stored queue and the one every load serves name the same rows in    *)
(* the same order.                                                         *)
THEOREM StoredIsServed == Spec => []ServedAsStored
<1>1. IInv => ServedAsStored
  <2> SUFFICES ASSUME Sound(room) PROVE ServedAsStored
    BY DEF IInv
  <2> DEFINE served == RankedQueue(room.queue, room.votes)
  <2>1. /\ served = WithVoteCounts(room.queue, room.votes)
        /\ \A i \in DOMAIN room.queue : room.queue[i] \in Rows(Songs)
    BY SoundServed, SoundParts, ProperTypes
  <2>2. /\ DOMAIN served = DOMAIN room.queue
        /\ \A i \in DOMAIN room.queue : served[i].id = room.queue[i].id
    BY <2>1 DEF WithVoteCounts, Rows
  <2> HIDE DEF served
  <2>3. [i \in DOMAIN served |-> served[i].id] = [i \in DOMAIN room.queue |-> room.queue[i].id]
    BY <2>2
  <2> QED BY <2>3 DEF ServedAsStored, served
<1> QED BY <1>1, AlwaysSound, PTL

(* No request shortens the content or replaces an item of it.              *)
THEOREM ContentOnlyGrows == Spec => ContentGrows
<1> DEFINE Grows == /\ Len(room.content) <= Len(room'.content)
                    /\ \A i \in DOMAIN room.content : room'.content[i] = room.content[i]
<1>1. IInv /\ [Next]_room => [Grows]_room
  <2> SUFFICES ASSUME Sound(room), Next PROVE Grows
    BY DEF IInv
  <2>0. room \in Room /\ room.content \in Seq(Songs)
    BY SoundParts
  <2>2. CASE Add
    <3>1. PICK n \in AddResults(room) : Store(n)
      BY <2>2 DEF Add
    <3>2. PICK song \in Songs :
            n = [room EXCEPT !.content = AddedContent(room.content, song),
                             !.queue = AddedQueue(room, song)]
      BY DEF AddResults
    <3>3. room'.content = AddedContent(room.content, song)
      BY <2>0, <3>1, <3>2 DEF Store, Room
    <3> QED BY <2>0, <3>3, AddedContentGrows
  <2>3. CASE Close
    BY <2>0, <2>3 DEF Close, Room
  <2>4. CASE Vote \/ Remove \/ Reorder \/ Promote \/ SetMusicalState \/ SetQueueAccess \/ Other
    <3> SUFFICES room'.content = room.content
      BY <2>0
    <3>1. ASSUME NEW n, Store(n), n.content = room.content, DOMAIN n = DOMAIN room
          PROVE  room'.content = room.content
      BY <2>0, <3>1 DEF Store, Room
    <3>2. CASE Vote
      <4>1. PICK s \in Sessions : \E n \in VoteResults(room, s) : Store(n)
        BY <3>2 DEF Vote
      <4> PICK n \in VoteResults(room, s) : Store(n)
        BY <4>1
      <4>2. PICK id \in QueueIds(room.queue), up \in BOOLEAN : n = VoteResult(room, id, s, up)
        BY DEF VoteResults
      <4>3. n.content = room.content /\ DOMAIN n = DOMAIN room
        BY <2>0, <4>2 DEF VoteResult, Room
      <4> QED BY <3>1, <4>3
    <3>3. CASE Remove \/ Reorder
      <4>1. PICK q : Store(HostQueueResult(room, q))
        BY <3>3 DEF Remove, Reorder
      <4>2. /\ HostQueueResult(room, q).content = room.content
            /\ DOMAIN HostQueueResult(room, q) = DOMAIN room
        BY <2>0 DEF HostQueueResult, Room
      <4> QED BY <3>1, <4>1, <4>2
    <3>4. CASE Promote
      <4>1. PICK i \in DOMAIN room.queue : Store(PromoteResult(room, room.queue[i]))
        BY <3>4 DEF Promote, PromoteResults
      <4>2. /\ PromoteResult(room, room.queue[i]).content = room.content
            /\ DOMAIN PromoteResult(room, room.queue[i]) = DOMAIN room
        BY <2>0 DEF PromoteResult, Room
      <4> QED BY <3>1, <4>1, <4>2
    <3>5. CASE SetMusicalState
      <4>1. PICK m : Store([room EXCEPT !.musical = m])
        BY <3>5 DEF SetMusicalState, MusicalResults
      <4>2. /\ [room EXCEPT !.musical = m].content = room.content
            /\ DOMAIN [room EXCEPT !.musical = m] = DOMAIN room
        BY <2>0 DEF Room
      <4> QED BY <3>1, <4>1, <4>2
    <3>6. CASE SetQueueAccess \/ Other
      <4>1. Store(AccessResult(room)) \/ Store(room)
        BY <3>6 DEF SetQueueAccess, Other
      <4>2. /\ AccessResult(room).content = room.content
            /\ DOMAIN AccessResult(room) = DOMAIN room
        BY <2>0 DEF AccessResult, Room
      <4> QED BY <3>1, <4>1, <4>2
    <3> QED BY <2>4, <3>2, <3>3, <3>4, <3>5, <3>6
  <2> QED BY <2>2, <2>3, <2>4 DEF Next
<1> QED BY <1>1, AlwaysSound, PTL DEF Spec, ContentGrows
=============================================================================
