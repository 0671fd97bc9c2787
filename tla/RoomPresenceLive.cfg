SPECIFICATION FairSpec
CONSTANTS
  host = host
  av1 = av1
  av2 = av2
  q1 = q1
  q2 = q2
  c1 = c1
  c2 = c2
  east = east
  west = west
  NoSession = NoSession
  Host = host
  Sessions <- JustHost
  AvSessions <- Nobody
  Guests <- Nobody
  Requests <- OneRequest
  Sockets <- TwoSockets
  Instance <- OneInstance
  MaxGeneration = 3
  MaxRevision = 3
INVARIANT
  OneSocketPerTicket
PROPERTIES
  OnlyOwnDisconnects
  HeartbeatHeals
  GhostsFade
CHECK_DEADLOCK FALSE
