----------------------------- MODULE MCRoomSync -----------------------------
(***************************************************************************)
(* RoomSync on small instances: handlers one at a time, or two at a time.  *)
(***************************************************************************)
EXTENDS RoomSync, TLC

CONSTANTS h1, h2, c1, c2

OneAtATime  == {h1}
TwoAtATime  == {h1, h2}
OneClient   == {c1}
TwoClients  == {c1, c2}
Interchangeable == Permutations(Handlers)
=============================================================================
