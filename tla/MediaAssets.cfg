SPECIFICATION Spec
CONSTANTS
  none = none
  song = song
  r1 = r1
  r2 = r2
  r3 = r3
  here = here
  there = there
  plain = plain
  Requests <- TwoRequests
  Library <- OneMedia
  Teams <- TwoTeams
  Titles <- OneTitle
  MaxPages = 2
  None = none
INVARIANTS
  TypeOK
  PublishedIsReadable
  OwnersAgree
  
SYMMETRY Interchangeable
CHECK_DEADLOCK FALSE
