SPECIFICATION Spec
CONSTANTS
  amazing = amazing
  be = be
  cornerstone = cornerstone
  host = host
  guest = guest
  Songs <- MCSongs
  Sessions <- MCSessions
  Sources <- MCSources
  MaxRevision = 6
INVARIANTS
  TypeOK
  Resolvable
  
  VotesCount
  ServedAsStored
PROPERTY
  ContentGrows
CHECK_DEADLOCK FALSE
