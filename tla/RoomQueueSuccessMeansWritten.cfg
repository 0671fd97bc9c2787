SPECIFICATION Spec
CONSTANTS
  amazing = amazing
  be = be
  host = host
  guest = guest
  r1 = r1
  r2 = r2
  Songs <- MCSongs
  Sessions <- MCSessions
  Members <- MCMembers
  Handlers <- MCHandlers
  Sources <- MCSources
  Host = host
  MaxRevision = 3
INVARIANT SuccessMeansWritten

SYMMETRY Requests
CHECK_DEADLOCK FALSE
