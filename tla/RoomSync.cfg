SPECIFICATION FairSpec
CONSTANTS
  h1 = h1
  h2 = h2
  c1 = c1
  c2 = c2
  Handlers <- OneAtATime
  Clients <- OneClient
  Capacity = 1
  MaxWire = 2
  MaxRevision = 4
INVARIANTS
  LabelNeverAhead
  
PROPERTIES
  LabelMonotone
  
CHECK_DEADLOCK FALSE
