CONSTANTS
  SecPerTrk = 18
  BytesPerSec = 512
  RootStart = 19
  RootSectors = 14
  FatStart = 1
  SectorBalance = 17
  EntriesPerSec = 16
  SegSize = 65536
  TotSec = 2880
  BadSectors = {}
  LoaderFileName <- MCName
  Disks <- MCDisks
SPECIFICATION Spec
PROPERTIES BootableBoots
