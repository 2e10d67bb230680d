----------------------------- MODULE BootSector -----------------------------
(***************************************************************************)
(* Chapters/Chapter03/boot.asm: the boot sector that looks for the loader  *)
(* in the root directory of a FAT12 diskette, loads its cluster chain at   *)
(* 1000:0000 and jumps there.                                              *)
(*                                                                         *)
(* One action per labelled block.  Registers and memory hold integers; a   *)
(* CALL leaves its return label in `ret`, PUSH and POP of data use         *)
(* `stk`.  A 512-byte page of memory holds the number of the disk sector *)
(* last read into it.  INT 10h (the screen) is left out; INT 13h is an     *)
(* environment that delivers the sectors, or fails with the carry flag set *)
(* after having overwritten part of the destination.  What ReadOneSector   *)
(* leaves in ax, cx and dx is never read by its callers and is not kept.   *)
(* The sectors of the table are taken as one table: the two copies a       *)
(* diskette has are equal.  A definition whose name ends in _off is the    *)
(* mutated form of the next one and is used by no other.                   *)
(***************************************************************************)
EXTENDS Geometry, Sequences

CONSTANTS
  RootStart,        \* SectorNumberOfRootDirectoryStart (19)
  RootSectors,      \* RootDirectorySectors (14)
  FatStart,         \* SectorNumberOfFAT1Start (1)
  SectorBalance,    \* SectorBalance (17)
  EntriesPerSec,    \* directory entries searched per sector (dx = 10h)
  SegSize,          \* bytes a 16-bit offset can address (65536)
  TotSec,           \* BPB_TotSec16: sectors of the diskette (2880)
  BadSectors,       \* sectors the drive never delivers
  LoaderFileName,   \* the name looked for, a sequence of NameLen bytes
  Disks             \* the diskettes to boot from: records [dir, fat]

NameLen  == Len(LoaderFileName)      \* cx = 11
Pages    == SegSize \div BytesPerSec
RootDir  == 0..(RootSectors * EntriesPerSec - 1)
NoSector == -1
EntrySize == 32                      \* ADD di, 20h
Low          == 0                    \* the segment of the buffer at 8000h
BaseOfLoader == 4096

NumbersAssumption ==
  /\ RootStart \in Word /\ RootSectors \in 1..255 /\ FatStart \in Word
  /\ SectorBalance \in Word /\ EntriesPerSec \in 1..255 /\ TotSec \in Word
  /\ SegSize \in Nat /\ BytesPerSec <= SegSize /\ SegSize <= WordSize
  /\ SegSize % BytesPerSec = 0
  /\ RootStart + RootSectors < WordSize
  /\ FatStart + (WordSize \div BytesPerSec) < WordSize

DisksAssumption ==
  \A d \in Disks :
    /\ DOMAIN d.dir = RootDir
    /\ \A e \in RootDir : d.dir[e].first \in Word
    /\ \A c \in DOMAIN d.fat : c \in Nat /\ d.fat[c] \in Entry

ASSUME BootAssumption ==
  /\ NumbersAssumption
  /\ Len(LoaderFileName) \in 1..11
  /\ \A i \in 1..Len(LoaderFileName) : LoaderFileName[i] # "other"
  /\ BadSectors \subseteq Nat
  /\ DisksAssumption

VARIABLES
  disk,         \* the diskette in drive 0; never written
  pc,           \* label of the block to run next
  ret,          \* where ReadOneSector returns to
  ax, bx, cx, dx, si, di,
  es,           \* Low or BaseOfLoader
  cl,           \* sectors ReadOneSector is asked for, then [bp-2]
  chs,          \* ch, dh, cl as INT 13h receives them
  stk, sp,      \* the words the program has pushed: stk[0], ..., stk[sp - 1]
  sectorNumber, \* [SectorNumber]
  rootLoop,     \* [RootDirectorySizeForLoop]
  odd,          \* [Odd]: the entry starts in the middle of a byte
  buf,          \* the two pages at 0000:8000
  loader,       \* the pages of segment 1000h
  overrun       \* history: ADD bx, 512 has carried; the program never looks

regs == <<ax, bx, cx, dx, si, di, es>>
mem  == <<sectorNumber, rootLoop, odd, buf, loader, overrun>>
vars == <<disk, pc, ret, ax, bx, cx, dx, si, di, es, cl, chs, stk, sp,
          sectorNumber, rootLoop, odd, buf, loader, overrun>>

Labels == {"Reset", "SearchInRootDirectoryBegin", "SectorRead",
           "SearchForLoaderBin", "CompareFileName", "Different",
           "GoToNextSector", "NoLoaderBin", "FileNameFound",
           "GoOnLoadingFile", "ClusterRead", "FATRead", "GotFATEntry",
           "ReadOneSector", "GoOnReading",
           "FileLoaded", "Halted", "DivideError"}

Bx(page) == page * BytesPerSec
DataSector(cluster) == (cluster + RootSectors + SectorBalance) % WordSize
ClusterOf(sector)   == (sector - RootSectors - SectorBalance) % WordSize

(* ReadOneSector can divide the number of every sector of the directory, of *)
(* the clusters a 12-bit entry can name, and of the table for these.        *)
ASSUME ReachAssumption ==
  /\ RootStart + RootSectors <= 256 * SecPerTrk
  /\ \A c \in Entry : {DataSector(c), FatSector(c) + FatStart} \subseteq 0..(256 * SecPerTrk - 1)

(* What the drive finds at a sector number: a directory entry, a byte of    *)
(* the table.  Sectors of neither kind hold no entry and no name.           *)
DirEntry(sector, e) ==
  disk.dir[(sector - RootStart) * EntriesPerSec + e]

IsRootSector(sector) == sector \in RootStart..(RootStart + RootSectors - 1)

NameByte(sector, offset) ==
  LET name == DirEntry(sector, offset \div EntrySize).name
      i    == (offset % EntrySize) + 1
  IN  IF IsRootSector(sector) /\ i \in DOMAIN name THEN name[i] ELSE "other"

FirstCluster(sector, offset) ==
  IF IsRootSector(sector) THEN DirEntry(sector, offset \div EntrySize).first
                          ELSE 0

TableByte(page, i) ==
  FatByte(disk.fat, (buf[page] - FatStart) * BytesPerSec + i)

WordAt(i) ==     \* MOV ax, [es:bx], the two bytes at offset i of the buffer
  LET at(j) == TableByte(j \div BytesPerSec, j % BytesPerSec)
  IN  [lo |-> at(i), hi |-> at(i + 1)]

-----------------------------------------------------------------------------
RootLoopInit == RootSectors

Init ==
  /\ disk \in Disks
  /\ pc = "Reset" /\ ret = "Reset"
  /\ ax = 0 /\ bx = 0 /\ cx = 0 /\ dx = 0 /\ si = 0 /\ di = 0
  /\ es = Low /\ cl = 0
  /\ chs = [cyl |-> 0, head |-> 0, sec |-> 1]
  /\ stk = [i \in 0..2 |-> 0] /\ sp = 0
  /\ sectorNumber = 0
  /\ rootLoop = RootLoopInit /\ odd = FALSE
  /\ buf = [p \in {0, 1} |-> NoSector]
  /\ loader = [p \in 0..(Pages - 1) |-> NoSector]
  /\ overrun = FALSE

(* INT 13h, function 0, then MOV [SectorNumber], 19.                        *)
Reset ==
  /\ pc = "Reset"
  /\ pc' = "SearchInRootDirectoryBegin"
  /\ sectorNumber' = RootStart
  /\ UNCHANGED <<disk, ret, regs, cl, chs, stk, sp, rootLoop, odd, buf, loader, overrun>>

CallReadOneSector(from, count) ==
  pc' = "ReadOneSector" /\ ret' = from /\ cl' = count /\ UNCHANGED chs

SectorsLeft_off == rootLoop >= 0
SectorsLeft     == rootLoop # 0

LoopAfter     == rootLoop - 1            \* DEC

SearchInRootDirectoryBegin ==
  /\ pc = "SearchInRootDirectoryBegin"
  /\ SectorsLeft
  /\ rootLoop' = LoopAfter
  /\ es' = Low /\ bx' = 0 /\ ax' = sectorNumber
  /\ CallReadOneSector("SectorRead", 1)
  /\ UNCHANGED <<disk, cx, dx, si, di, stk, sp, sectorNumber, odd, buf, loader, overrun>>

RootDirectoryExhausted ==
  /\ pc = "SearchInRootDirectoryBegin"
  /\ rootLoop = 0
  /\ pc' = "NoLoaderBin"
  /\ UNCHANGED <<disk, ret, regs, cl, chs, stk, sp, mem>>

SectorRead ==
  /\ pc = "SectorRead"
  /\ si' = 0 /\ di' = 0 /\ dx' = EntriesPerSec
  /\ pc' = "SearchForLoaderBin"
  /\ UNCHANGED <<disk, ret, ax, bx, cx, es, cl, chs, stk, sp, mem>>

SectorSearched_off == dx <= 1
SectorSearched     == dx = 0

SearchForLoaderBin ==
  /\ pc = "SearchForLoaderBin"
  /\ IF SectorSearched
     THEN pc' = "GoToNextSector" /\ UNCHANGED <<cx, dx>>
     ELSE pc' = "CompareFileName" /\ dx' = dx - 1 /\ cx' = NameLen
  /\ UNCHANGED <<disk, ret, ax, bx, si, di, es, cl, chs, stk, sp, mem>>

NameByteAt(i) == IF i < NameLen THEN LoaderFileName[i + 1] ELSE "end"

NameMatched_off == cx <= 1
NameMatched     == cx = 0

(* CMP cx, 0 / LODSB / CMP al, [es:di], and GoOn when the bytes agree.      *)
CompareFileName ==
  /\ pc = "CompareFileName"
  /\ IF NameMatched
     THEN pc' = "FileNameFound" /\ UNCHANGED <<cx, si, di>>
     ELSE /\ cx' = cx - 1
          /\ si' = si + 1
          /\ IF NameByteAt(si) = NameByte(buf[0], di)
             THEN di' = di + 1 /\ UNCHANGED pc
             ELSE pc' = "Different" /\ UNCHANGED di
  /\ UNCHANGED <<disk, ret, ax, bx, dx, es, cl, chs, stk, sp, mem>>

EntryStart(offset) == offset - (offset % EntrySize)    \* AND di, 0ffe0h

NameAgain_off == si
NameAgain     == 0                       \* MOV si, LoaderFileName

Different ==
  /\ pc = "Different"
  /\ di' = EntryStart(di) + EntrySize
  /\ si' = NameAgain
  /\ pc' = "SearchForLoaderBin"
  /\ UNCHANGED <<disk, ret, ax, bx, cx, dx, es, cl, chs, stk, sp, mem>>

GoToNextSector ==
  /\ pc = "GoToNextSector"
  /\ sectorNumber' = (sectorNumber + 1) % WordSize
  /\ pc' = "SearchInRootDirectoryBegin"
  /\ UNCHANGED <<disk, ret, regs, cl, chs, stk, sp, rootLoop, odd, buf, loader, overrun>>

NoLoaderBin ==
  /\ pc = "NoLoaderBin"
  /\ pc' = "Halted"
  /\ UNCHANGED <<disk, ret, regs, cl, chs, stk, sp, mem>>

FileNameFound ==
  /\ pc = "FileNameFound"
  /\ LET first == FirstCluster(buf[0], di) IN
       /\ stk' = [stk EXCEPT ![sp] = first] /\ sp' = sp + 1
       /\ ax' = DataSector(first)
       /\ cx' = DataSector(first)
  /\ di' = EntryStart(di) + 26       \* ADD di, 01ah
  /\ es' = BaseOfLoader /\ bx' = 0
  /\ pc' = "GoOnLoadingFile"
  /\ UNCHANGED <<disk, ret, dx, si, cl, chs, mem>>

GoOnLoadingFile ==
  /\ pc = "GoOnLoadingFile"
  /\ CallReadOneSector("ClusterRead", 1)
  /\ UNCHANGED <<disk, regs, stk, sp, mem>>

TableSectors_off == 1
TableSectors     == 2                    \* MOV cl, 2

TableSegment == Low                \* MOV ax, 00 / MOV es, ax

(* POP ax, then GetFATEntry up to its own read: the sector it needs, with   *)
(* es, bx and the byte index kept on the stack.                             *)
ClusterRead ==
  /\ pc = "ClusterRead"
  /\ LET c == stk[sp - 1] IN
       IF FatFaults(c)
       THEN /\ pc' = "DivideError"
            /\ UNCHANGED <<ret, ax, bx, dx, es, cl, chs, stk, sp, odd>>
       ELSE /\ odd' = FatOdd(c)
            /\ ax' = FatSector(c) + FatStart
            /\ dx' = FatIndex(c)
            /\ stk' = [stk EXCEPT ![sp - 1] = es, ![sp] = bx, ![sp + 1] = FatIndex(c)]
            /\ sp' = sp + 2
            /\ es' = TableSegment /\ bx' = 0
            /\ CallReadOneSector("FATRead", TableSectors)
  /\ UNCHANGED <<disk, cx, si, di, sectorNumber, rootLoop, buf, loader, overrun>>

(* The rest of GetFATEntry, from POP dx on.                                 *)
FATRead ==
  /\ pc = "FATRead"
  /\ LET word == WordAt(stk[sp - 1])
     IN  ax' = FatDecode(odd, word.lo, word.hi)
  /\ dx' = stk[sp - 1] /\ bx' = stk[sp - 2] /\ es' = stk[sp - 3]
  /\ sp' = sp - 3
  /\ pc' = "GotFATEntry"
  /\ UNCHANGED <<disk, ret, cx, si, di, cl, chs, stk, mem>>

NextPage == (bx + BytesPerSec) % SegSize

EndOfChain_off == ax >= 2048
EndOfChain     == ax = 4095

(* CMP ax, 0fffh: either the chain ends, or ax is the next cluster.         *)
GotFATEntry ==
  /\ pc = "GotFATEntry"
  /\ IF EndOfChain
     THEN pc' = "FileLoaded" /\ UNCHANGED <<ax, bx, dx, stk, sp, overrun>>
     ELSE /\ stk' = [stk EXCEPT ![sp] = ax] /\ sp' = sp + 1
          /\ ax' = DataSector(ax)
          /\ dx' = RootSectors
          /\ bx' = NextPage
          /\ overrun' = (overrun \/ bx + BytesPerSec >= SegSize)
          /\ pc' = "GoOnLoadingFile"
  /\ UNCHANGED <<disk, ret, cx, si, di, es, cl, chs, sectorNumber, rootLoop, odd, buf, loader>>

-----------------------------------------------------------------------------
(* ReadOneSector up to the label GoOnReading.                               *)
ReadOneSector ==
  /\ pc = "ReadOneSector"
  /\ IF DivFaults(ax)
     THEN pc' = "DivideError" /\ UNCHANGED chs
     ELSE pc' = "GoOnReading" /\ chs' = ToChs(ax)
  /\ UNCHANGED <<disk, ret, regs, cl, stk, sp, mem>>

(* The first n sectors of a transfer to es:bx have arrived.                 *)
Requested == LogicalSector(chs, NumHeads, SecPerTrk)

Transfer(n) ==
  LET at == bx \div BytesPerSec
      Into(pages, size) ==
        [p \in DOMAIN pages |->
           IF (p - at) % size < n THEN Requested + ((p - at) % size) ELSE pages[p]]
  IN  IF es = Low THEN buf' = Into(buf, WordSize) /\ UNCHANGED loader
                    ELSE loader' = Into(loader, Pages) /\ UNCHANGED buf

Deliverable ==
  /\ Requested + cl <= TotSec
  /\ (Requested..(Requested + cl - 1)) \cap BadSectors = {}

(* INT 13h returns with the carry clear: on with the caller.                *)
ReadSucceeds ==
  /\ pc = "GoOnReading"
  /\ Deliverable
  /\ Transfer(cl)
  /\ pc' = ret
  /\ UNCHANGED <<disk, ret, regs, cl, chs, stk, sp, sectorNumber, rootLoop, odd, overrun>>

OnCarry == "GoOnReading"

(* JC GoOnReading: the same request again, at once and for ever.            *)
ReadFails ==
  /\ pc = "GoOnReading"
  /\ \E n \in 0..cl : (n > 0 => Requested + n <= TotSec) /\ Transfer(n)
  /\ pc' = OnCarry
  /\ UNCHANGED <<disk, ret, regs, cl, chs, stk, sp, sectorNumber, rootLoop, odd, overrun>>

(* JMP $ of NoLoaderBin; the divide error that returns to its own DIV; the  *)
(* loader, which is not this program any more.                              *)
Spin ==
  /\ pc \in {"Halted", "DivideError", "FileLoaded"}
  /\ UNCHANGED vars

Program ==
  \/ Reset
  \/ SearchInRootDirectoryBegin \/ RootDirectoryExhausted
  \/ SectorRead \/ SearchForLoaderBin \/ CompareFileName \/ Different
  \/ GoToNextSector \/ NoLoaderBin
  \/ FileNameFound \/ GoOnLoadingFile \/ ClusterRead \/ FATRead \/ GotFATEntry
  \/ ReadOneSector \/ ReadSucceeds

Next == Program \/ ReadFails \/ Spin

(* The processor runs; the drive does not fail for ever on a sector it can  *)
(* deliver at all.                                                          *)
Fairness == WF_vars(Program) /\ SF_vars(ReadSucceeds)

Spec == Init /\ [][Next]_vars /\ Fairness

-----------------------------------------------------------------------------
(* Properties.                                                              *)

Sectors == Word \cup {NoSector}

TypeOK ==
  /\ disk \in Disks
  /\ pc \in Labels
  /\ ret \in {"Reset", "SectorRead", "ClusterRead", "FATRead"}
  /\ ax \in Word /\ bx \in Word /\ cx \in Word /\ dx \in Word
  /\ si \in Word /\ di \in Word /\ sectorNumber \in Word /\ rootLoop \in Word
  /\ es \in {Low, BaseOfLoader} /\ cl \in 0..2
  /\ odd \in BOOLEAN /\ overrun \in BOOLEAN
  /\ chs \in [cyl : 0..127, head : {0, 1}, sec : 1..SecPerTrk]
  /\ buf \in [{0, 1} -> Sectors]
  /\ loader \in [0..(Pages - 1) -> Sectors]
  /\ stk \in [0..2 -> Word] /\ sp \in 0..3

Matches(d, e) ==
  \A i \in 1..NameLen :
    i \in DOMAIN d.dir[e].name /\ d.dir[e].name[i] = LoaderFileName[i]

IsFirstMatch(e) ==
  /\ e \in RootDir /\ Matches(disk, e)
  /\ \A f \in 0..(e - 1) : ~Matches(disk, f)

NextSector(d, sector) == DataSector(FatEntry(d.fat, ClusterOf(sector)))

(* The page the loader is being read to; GetFATEntry keeps bx on the stack. *)
LoadOffset == IF es = Low THEN stk[1] ELSE bx
LoadPage   == LoadOffset \div BytesPerSec

(* Control reaches 1000:0000 only with the whole chain of the first entry   *)
(* named LOADER  BIN in memory, in chain order and from offset 0 on, its    *)
(* last cluster marked 0FFFh (boot.asm 183-240), for a file that fits the   *)
(* 64K segment.  The buffer at 8000h is shared by directory and table and   *)
(* the cluster travels through the stack: any slip there breaks the chain.  *)
RunsTheWholeFile ==
  pc = "FileLoaded" /\ ~overrun =>
    /\ \E e \in RootDir : IsFirstMatch(e) /\ loader[0] = DataSector(disk.dir[e].first)
    /\ \A p \in 1..LoadPage : loader[p] = NextSector(disk, loader[p - 1])
    /\ FatEntry(disk.fat, ClusterOf(loader[LoadPage])) = 4095

(* "No Loader Found" (boot.asm 93-113, 152-160) is said only of a diskette  *)
(* none of whose root directory entries has the name: no entry is skipped   *)
(* when a sector ends, when a name matches in part, or after a failed read. *)
HaltsOnlyIfAbsent ==
  pc \in {"NoLoaderBin", "Halted"} => \A e \in RootDir : ~Matches(disk, e)

(* What GetFATEntry returns is the entry of the cluster loaded last, for    *)
(* even and odd entries and for those cut by the end of a sector            *)
(* (boot.asm 288-347: the two-sector read, [Odd], and es, bx, dx saved).    *)
EntryOfLoadedCluster ==
  pc = "GotFATEntry" =>
    ax = FatEntry(disk.fat, ClusterOf(loader[LoadPage]))

(* The divisions of boot.asm (259, 305-307) cannot overflow when the        *)
(* directory holds a 12-bit first cluster, whatever the table says.         *)
NoDivideError ==
  (\A e \in RootDir : disk.dir[e].first \in Entry) => pc # "DivideError"

-----------------------------------------------------------------------------
(* The boot sector implements LoaderContract.                               *)

Searching == {"Reset", "SearchInRootDirectoryBegin", "SectorRead",
              "SearchForLoaderBin", "CompareFileName", "Different",
              "GoToNextSector", "FileNameFound"}

InSearch ==
  \/ pc \in Searching
  \/ pc \in {"ReadOneSector", "GoOnReading"} /\ ret = "SectorRead"

phase ==
  IF overrun THEN "stuck"
  ELSE CASE pc = "DivideError"              -> "stuck"
         [] pc = "FileLoaded"               -> "run"
         [] pc \in {"NoLoaderBin", "Halted"} -> "none"
         [] InSearch                        -> "search"
         [] OTHER                           -> "load"

(* The page at bx counts once INT 13h has returned without the carry.       *)
PageDelivered ==
  ~ \/ pc = "GoOnLoadingFile"
    \/ pc \in {"ReadOneSector", "GoOnReading"} /\ ret = "ClusterRead"

image ==
  IF phase \in {"search", "none", "stuck"} THEN <<>>
  ELSE [i \in 1..(LoadPage + (IF PageDelivered THEN 1 ELSE 0)) |-> loader[i - 1]]

Contract == INSTANCE LoaderContract WITH
  First      <- LAMBDA d, e : d.dir[e].first,
  SectorOf   <- DataSector,
  EntryOf    <- LAMBDA d, s : FatEntry(d.fat, ClusterOf(s)),
  EndOfChain <- 4095

(* Every step of the program is a step of the contract or leaves it         *)
(* unchanged, up to the point where the chain overruns the segment.         *)
ImplementsContract == Contract!Spec
=============================================================================
