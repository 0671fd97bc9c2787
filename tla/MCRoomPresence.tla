--------------------------- MODULE MCRoomPresence ---------------------------
(***************************************************************************)
(* RoomPresence on small instances: a host alone with two sockets, or a    *)
(* host and two sessions that want AV, one of them a guest.                *)
(***************************************************************************)
EXTENDS RoomPresence, TLC

CONSTANTS host, av1, av2, q1, q2, c1, c2, east, west

JustHost     == {host}
HostAndTwoAv == {host, av1, av2}
OneAv        == {av1}
TwoAv        == {av1, av2}
Nobody       == {}

TwoRequests == {q1, q2}
OneRequest  == {q1}
TwoSockets  == {c1, c2}
OneSocket   == {c1}

OneInstance == [x \in {q1, q2, c1, c2} |-> east]
Apart       == [x \in {q1, q2, c1, c2} |-> IF x \in Requests THEN east ELSE west]

Interchangeable == Permutations(Requests) \union Permutations(Sockets)
=============================================================================
