--------------------------- MODULE MCMediaAssets ---------------------------
(***************************************************************************)
(* MediaAssets with one media in the library and a few requests.           *)
(***************************************************************************)
EXTENDS MediaAssets, TLC

CONSTANTS none, song, r1, r2, r3, here, there, plain

OneMedia      == {song}
TwoRequests   == {r1, r2}
ThreeRequests == {r1, r2, r3}
TwoTeams      == {here, there}
OneTitle      == {plain}

Interchangeable == Permutations(Requests) \union Permutations(Teams)
=============================================================================
