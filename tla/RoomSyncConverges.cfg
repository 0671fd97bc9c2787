SPECIFICATION FairSpec
CONSTANTS
  h1 = h1
  h2 = h2
  c1 = c1
  c2 = c2
  Handlers <- TwoAtATime
  Clients <- OneClient
  Capacity = 1
  MaxWire = 1
  MaxRevision = 4
PROPERTY Converges
CHECK_DEADLOCK FALSE
