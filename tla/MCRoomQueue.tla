---------------------------- MODULE MCRoomQueue -----------------------------
(***************************************************************************)
(* RoomQueue on a small instance: a room made from a setlist or from       *)
(* nothing, a host, a guest who may vote, and two requests at a time.      *)
(***************************************************************************)
EXTENDS RoomQueue, TLC

CONSTANTS amazing, be, host, guest, r1, r2

MCSongs    == {amazing, be}
MCSessions == {host, guest}
MCMembers  == {host}
MCHandlers == {r1, r2}
MCSources  == {<<be>>}
Requests   == Permutations(MCHandlers)
=============================================================================
