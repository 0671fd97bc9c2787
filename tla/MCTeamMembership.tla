-------------------------- MODULE MCTeamMembership --------------------------
(***************************************************************************)
(* TeamMembership with three people, a song and a setlist.                 *)
(***************************************************************************)
EXTENDS TeamMembership, TLC

CONSTANTS ann, bob, cai, nobody, theTeam, h1, h2, letter, song, setlist

People     == {ann, bob, cai}
TwoAtOnce  == {h1, h2}
Letters    == {letter}
Library    == {song, setlist}
LibraryTables == song :> 2 @@ setlist :> 4

\* bob is admin, alone or beside ann or cai; ann is, beside a guest; nobody is.
Lists == { bob :> "guest", bob :> "admin", ann :> "admin" @@ bob :> "admin",
           ann :> "admin" @@ bob :> "guest", ann :> "guest" @@ cai :> "admin" }
=============================================================================
