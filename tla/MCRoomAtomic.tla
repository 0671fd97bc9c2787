---------------------------- MODULE MCRoomAtomic ----------------------------
(***************************************************************************)
(* RoomAtomic on a small instance: three songs, two voting sessions, rooms *)
(* made from nothing, from a song and from setlists that repeat a song.    *)
(***************************************************************************)
EXTENDS RoomAtomic, TLC

CONSTANTS amazing, be, cornerstone, host, guest

MCSongs    == {amazing, be, cornerstone}
MCSessions == {host, guest}
MCSources  == {<<>>, <<be>>, <<amazing, be, amazing>>, <<amazing, be, cornerstone>>}
=============================================================================
