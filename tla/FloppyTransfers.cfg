SPECIFICATION FairSpec
CONSTANTS
  Drives      = {0}
  Tracks      = 2
  SecPerTrk   = 2
  BytesPerSec = 2
  MaxUnits    = 3
  Commands    = {"read", "write"}
  Events      = {"toggle"}
INVARIANTS
  SectorsInOrder
  NormalEndIsComplete
PROPERTIES
  CommandsEnd
