--------------------------- MODULE MCAvProjection ---------------------------
(***************************************************************************)
(* AvProjection with a song, a deck of two pages and a video on the list.  *)
(***************************************************************************)
EXTENDS AvProjection

CONSTANT left

SongDeckVideo ==
  << [kind |-> "lyrics", slides |-> 1],
     [kind |-> "deck",   slides |-> 2],
     [kind |-> "timed",  slides |-> 1] >>

FirstSlide == {[item |-> 1, slide |-> 0, screen |-> "live"]}
OneWindow  == {left}
=============================================================================
