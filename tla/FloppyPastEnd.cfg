SPECIFICATION Spec
CONSTANTS
  Drives      = {0}
  Tracks      = 1
  SecPerTrk   = 2
  BytesPerSec = 2
  MaxUnits    = 4
  Commands    = {"write"}
  Events      = {"toggle"}
INVARIANTS
  WritesInBounds
