SPECIFICATION Spec
CONSTANTS
  Drives      = {0, 1}
  Tracks      = 2
  SecPerTrk   = 2
  BytesPerSec = 2
  MaxUnits    = 0
  Commands    = {"specify", "getstatus", "recal", "sense", "seek", "readid", "version", "invalid"}
  Events      = {"motors", "toggle", "hold", "dsr", "power", "media", "early"}
INVARIANTS
  StatusTellsTruth
  SomebodyMovesOn
  SenseExplainsInterrupt
  ChangeLineTellsAbsence
