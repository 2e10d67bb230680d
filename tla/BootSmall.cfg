CONSTANTS
  SecPerTrk = 18
  BytesPerSec = 8
  RootStart = 3
  RootSectors = 2
  FatStart = 1
  SectorBalance = 1
  EntriesPerSec = 2
  SegSize = 24
  TotSec = 10
  BadSectors <- MCBad
  LoaderFileName <- MCName
  Disks <- MCDisks
SPECIFICATION Spec
INVARIANTS TypeOK RunsTheWholeFile HaltsOnlyIfAbsent EntryOfLoadedCluster
  NoDivideError
PROPERTIES ImplementsContract BootEnds
