SPECIFICATION Spec
CONSTANTS
  host = host
  av1 = av1
  av2 = av2
  q1 = q1
  q2 = q2
  c1 = c1
  c2 = c2
  east = east
  west = west
  NoSession = NoSession
  Host = host
  Sessions <- HostAndTwoAv
  AvSessions <- TwoAv
  Guests <- OneAv
  Requests <- TwoRequests
  Sockets <- OneSocket
  Instance <- OneInstance
  MaxGeneration = 1
  MaxRevision = 6
INVARIANTS
  TypeOK
  OrphansStayOut
PROPERTY
  ProjectionByAv
SYMMETRY Interchangeable
CHECK_DEADLOCK FALSE
