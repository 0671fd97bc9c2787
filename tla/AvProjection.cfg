SPECIFICATION FairSpec
CONSTANTS
  left = left
  Playlist <- SongDeckVideo
  Places <- FirstSlide
  Outputs <- OneWindow
  MissingAfter = 0
  MaxCommands = 2
  MaxMounts = 2
  MaxOpens = 1
INVARIANTS
  TypeOK
  PreviewIsWhatWasSent
  PlaybackHasItsMedia
  PlaybackOfWhatIsShown
PROPERTIES
  NeverBackwards
  WindowsCatchUp
  GoneIsNoticed
CHECK_DEADLOCK FALSE
