SPECIFICATION Spec
CONSTANTS
  ann = ann
  bob = bob
  cai = cai
  nobody = nobody
  theTeam = theTeam
  h1 = h1
  h2 = h2
  letter = letter
  song = song
  setlist = setlist
  Users <- People
  Nobody = nobody
  Handlers <- TwoAtOnce
  Invitations <- Letters
  Items <- Library
  TheTeam = theTeam
  TableOf <- LibraryTables
  Payloads <- Lists
  MaxRequests = 4
INVARIANTS
  TypeOK
  KeepsAnAdmin
  OwnerStaysOutside
  RolesWereGranted
  NothingLeftBehind
PROPERTY DeletedStaysDeleted
CHECK_DEADLOCK FALSE
