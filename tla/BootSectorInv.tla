---------------------------- MODULE BootSectorInv ----------------------------
(***************************************************************************)
(* The inductive invariant of BootSector, as named parts: what has been     *)
(* searched so far, what each read is for, and what the segment holds.      *)
(***************************************************************************)
EXTENDS BootSector

Reading(from) == pc \in {"ReadOneSector", "GoOnReading"} /\ ret = from

(* No directory entry before the n-th is the loader's.                      *)
Cleared(n) == \A e \in RootDir : e < n => ~Matches(disk, e)

Base    == (sectorNumber - RootStart) * EntriesPerSec  \* first entry of the sector
Current == EntriesPerSec - dx - 1                      \* entry compared, in its sector

InSector ==
  \/ Reading("SectorRead")
  \/ pc \in {"SectorRead", "SearchForLoaderBin", "CompareFileName",
             "Different", "GoToNextSector", "FileNameFound"}

SectorsInv ==
  /\ pc = "Reset" => rootLoop = RootSectors
  /\ pc = "SearchInRootDirectoryBegin" =>
       /\ sectorNumber \in RootStart..(RootStart + RootSectors)
       /\ rootLoop = (RootStart + RootSectors) - sectorNumber
       /\ Cleared(Base)
  /\ InSector =>
       /\ sectorNumber \in RootStart..(RootStart + RootSectors - 1)
       /\ rootLoop = (RootStart + RootSectors) - (sectorNumber + 1)
       /\ Cleared(Base)
  /\ Reading("SectorRead") => es = Low /\ bx = 0 /\ cl = 1 /\ ax = sectorNumber
  /\ InSector /\ ~Reading("SectorRead") => buf[0] = sectorNumber

SameUpTo(e, n) ==
  \A i \in 1..n : i \in DOMAIN disk.dir[e].name /\ disk.dir[e].name[i] = LoaderFileName[i]

EntriesInv ==
  /\ pc = "SearchForLoaderBin" =>
       /\ dx \in 0..EntriesPerSec /\ si = 0
       /\ di = EntrySize * (EntriesPerSec - dx)
       /\ Cleared(Base + (EntriesPerSec - dx))
  /\ pc \in {"CompareFileName", "Different", "FileNameFound"} =>
       /\ dx \in 0..(EntriesPerSec - 1)
       /\ Cleared(Base + Current)
  /\ pc = "CompareFileName" =>
       /\ cx \in 0..NameLen /\ si = NameLen - cx
       /\ di = EntrySize * Current + si
       /\ SameUpTo(Base + Current, si)
  /\ pc = "Different" =>
       /\ di \in (EntrySize * Current)..(EntrySize * Current + 11)
       /\ ~Matches(disk, Base + Current)
  /\ pc = "GoToNextSector" => Cleared(Base + EntriesPerSec)
  /\ pc = "FileNameFound" =>
       /\ di = EntrySize * Current + NameLen
       /\ Matches(disk, Base + Current)
  /\ pc \in {"NoLoaderBin", "Halted"} => Cleared(RootSectors * EntriesPerSec)

(* What each pending read is for, and what the stack keeps across it.       *)
InLoad == pc \in {"GoOnLoadingFile", "ClusterRead"} \/ Reading("ClusterRead")

TheEntry == FatEntry(disk.fat, ClusterOf(loader[LoadPage]))

ReadsInv ==
  /\ pc \in {"Reset", "SearchInRootDirectoryBegin", "NoLoaderBin"} \/ InSector
       => sp = 0
  /\ pc = "GoOnReading" => chs = ToChs(ax)
  /\ pc \in {"ReadOneSector", "GoOnReading"} =>
       ret \in {"SectorRead", "ClusterRead", "FATRead"}
  /\ InLoad => es = BaseOfLoader /\ sp = 1 /\ ax = DataSector(stk[0])
  /\ Reading("ClusterRead") => cl = 1
  /\ pc = "ClusterRead" => loader[LoadPage] = ax
  /\ Reading("FATRead") \/ pc = "FATRead" =>
       LET c == ClusterOf(loader[LoadPage]) IN
         /\ sp = 3 /\ es = Low /\ bx = 0 /\ cl = 2
         /\ stk[0] = BaseOfLoader /\ stk[2] = FatIndex(c)
         /\ odd = FatOdd(c) /\ ax = FatSector(c) + FatStart
  /\ pc = "FATRead" => buf[0] = ax /\ buf[1] = ax + 1
  /\ pc = "GotFATEntry" => es = BaseOfLoader /\ sp = 0 /\ ax = TheEntry
  /\ pc = "FileLoaded" => es = BaseOfLoader /\ TheEntry = 4095

(* The pages of the segment hold the chain, as long as bx has not wrapped.  *)
Loading ==
  InLoad \/ Reading("FATRead") \/ pc \in {"FATRead", "GotFATEntry", "FileLoaded"}

Arrived == ~(pc = "GoOnLoadingFile" \/ Reading("ClusterRead"))

Expected(p) ==   \* what the chain says page p holds
  IF p = 0 THEN {DataSector(disk.dir[e].first) : e \in {f \in RootDir : IsFirstMatch(f)}}
           ELSE {NextSector(disk, loader[p - 1])}

ChainLoaded ==
  /\ \A p \in 0..(LoadPage - 1) : loader[p] \in Expected(p)
  /\ IF Arrived THEN loader[LoadPage] \in Expected(LoadPage)
                ELSE DataSector(stk[0]) \in Expected(LoadPage)

PagesInv ==
  /\ InSearch => \A p \in DOMAIN loader : loader[p] = NoSector
  /\ Loading =>
       /\ LoadPage \in DOMAIN loader /\ LoadOffset = LoadPage * BytesPerSec
       /\ ~overrun => ChainLoaded

(* The end mark is never taken for a cluster.  Page 0 is left out: its       *)
(* cluster comes from the directory, or the pages have been overrun.        *)
NoMarkFollowed == InLoad /\ LoadPage > 0 => stk[0] # 4095

(* With 12-bit first clusters in the directory all clusters have 12 bits,   *)
(* and their table entries are in sectors that ReadOneSector can reach.     *)
FitsInv ==
  (\A e \in RootDir : disk.dir[e].first \in Entry) =>
    /\ pc # "DivideError"
    /\ InLoad => stk[0] \in Entry
    /\ Reading("FATRead") => ~DivFaults(ax)

IInv == TypeOK /\ SectorsInv /\ EntriesInv /\ ReadsInv /\ PagesInv
=============================================================================
