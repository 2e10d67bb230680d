SPECIFICATION BFairSpec
CONSTANTS
  Drives      = {0}
  Tracks      = 1
  SecPerTrk   = 1
  BytesPerSec = 1
  MaxUnits    = 2
  OnCount     = 2
  MaxSectors  = 2
  Commands    = {"read", "write", "recal", "sense"}
  Events      = {"hold", "media"}
INVARIANTS
  BTypeOK
  CommandsAreTaken
  HaltsOnlyPastTrack
PROPERTIES
  SuccessMovesAll
  NothingMovesLater
  CallsReturn
CHECK_DEADLOCK FALSE
