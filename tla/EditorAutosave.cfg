SPECIFICATION FairSpec
CONSTANTS
  Fields <- TitleAndRows
  Rows <- RowsField
  MaxEdits = 2
  MaxTroubles = 1
INVARIANTS
  TypeOK
  
  
PROPERTIES
  NothingDroppedOnLeave
  
CHECK_DEADLOCK FALSE
