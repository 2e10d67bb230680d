------------------------- MODULE BootSector_proofs -------------------------
(***************************************************************************)
(* The boot sector, for every diskette, every geometry and every loader     *)
(* name the assumptions allow: IInv of BootSectorInv is inductive.          *)
(***************************************************************************)
EXTENDS BootSectorInv, Geometry_proofs

(* The assumptions on the numbers, where the provers find them.             *)
LEMMA Numbers ==
  /\ BytesPerSec \in Nat \ {0} /\ SegSize \in Nat /\ BytesPerSec <= SegSize
  /\ SegSize <= WordSize
  /\ RootStart \in Word /\ RootSectors \in 1..255
  /\ RootStart + RootSectors < WordSize
  /\ FatStart \in Word /\ SectorBalance \in Word /\ TotSec \in Word
  /\ EntriesPerSec \in 1..255 /\ NameLen \in 1..11
  BY BootAssumption, GeometryAssumption, Zenon DEF NumbersAssumption, NameLen

(* The segment is a whole number of pages.                                  *)
LEMMA PageSize ==
  Pages \in Nat \ {0} /\ SegSize = BytesPerSec * Pages
<1>1. SegSize % BytesPerSec = 0
  BY BootAssumption, Zenon DEF NumbersAssumption
<1>2. SegSize \in Nat /\ SegSize # 0 /\ BytesPerSec \in Nat \ {0}
  BY Numbers
<1>3. /\ SegSize \div BytesPerSec \in Nat
      /\ SegSize = BytesPerSec * (SegSize \div BytesPerSec) + (SegSize % BytesPerSec)
  BY <1>2, DivMod, Zenon
<1>4. Pages \in Nat /\ SegSize = BytesPerSec * Pages
  <2>1. BytesPerSec * (SegSize \div BytesPerSec) + 0 = BytesPerSec * (SegSize \div BytesPerSec)
    BY <1>2, <1>3
  <2> QED
    BY <1>1, <1>3, <2>1, Zenon DEF Pages
<1>5. Pages # 0
  BY <1>2, <1>4
<1> QED
  BY <1>4, <1>5

(* Every table holds 12-bit entries, every directory 16-bit first clusters. *)
LEMMA DiskFacts ==
  ASSUME NEW d \in Disks
  PROVE  /\ \A e \in RootDir : d.dir[e].first \in Word
         /\ \A c \in Nat : FatEntry(d.fat, c) \in Entry
<1>1. /\ \A e \in RootDir : d.dir[e].first \in Word
      /\ \A c \in DOMAIN d.fat : d.fat[c] \in Entry
  BY BootAssumption, Zenon DEF DisksAssumption
<1>2. ASSUME NEW c \in Nat PROVE FatEntry(d.fat, c) \in Entry
  <2>1. CASE c \in DOMAIN d.fat
    BY <1>1, <2>1, Zenon DEF FatEntry
  <2>2. CASE c \notin DOMAIN d.fat
    <3>1. FatEntry(d.fat, c) = 0
      BY <2>2, Zenon DEF FatEntry
    <3> QED
      BY <3>1 DEF Entry
  <2> QED
    BY <2>1, <2>2
<1> QED
  BY <1>1, <1>2, Zenon

LEMMA EntryIsWord == \A x \in Entry : x \in Word
  BY DEF Entry, Word, WordSize

(* The sector a cluster is kept in names the cluster.                       *)
LEMMA SectorOfCluster ==
  ASSUME NEW c \in Word
  PROVE  DataSector(c) \in Word /\ ClusterOf(DataSector(c)) = c
<1> DEFINE k == RootSectors + SectorBalance
           s == (c + k) % WordSize
<1>1. /\ k \in Nat /\ c \in Nat /\ c < WordSize
      /\ (c + RootSectors) + SectorBalance = c + k
      /\ \A x \in Int : (x - RootSectors) - SectorBalance = x - k
  BY Numbers DEF Word
<1>2. DataSector(c) = s
  BY <1>1, Zenon DEF DataSector
<1> HIDE DEF k
<1>3. s \in Nat /\ s < WordSize /\ (s - k) % WordSize = c
  BY <1>1 DEF WordSize
<1> HIDE DEF s
<1>4. ClusterOf(s) = (s - k) % WordSize
  <2>1. (s - RootSectors) - SectorBalance = s - k
    BY <1>1, <1>3
  <2> QED
    BY <2>1, Zenon DEF ClusterOf
<1> QED
  BY <1>2, <1>3, <1>4, Zenon DEF Word

(* Quotients the buffer of two pages leads to.                              *)
LEMMA QuotientZero ==
  ASSUME NEW d \in Nat \ {0}, NEW n \in 0..(d - 1)
  PROVE  n \div d = 0 /\ n % d = n
<1>0. n \in Nat
  OBVIOUS
<1>1. /\ n \div d \in Nat /\ n % d \in 0..(d - 1) /\ n = d * (n \div d) + (n % d)
  BY <1>0, DivMod, Zenon
<1>2. n \div d = 0
  <2>1. SUFFICES ASSUME n \div d >= 1 PROVE FALSE
    BY <1>1
  <2> DEFINE q == n \div d
             r == n % d
  <2>2. q \in Nat /\ q >= 1 /\ r \in Nat /\ n = d * q + r
    BY <1>1, <2>1
  <2> HIDE DEF q, r
  <2>3. d * q = d + d * (q - 1) /\ d * (q - 1) \in Nat
    BY <2>2
  <2> QED
    BY <2>2, <2>3
<1> DEFINE r == n % d
<1>3. r \in 0..(d - 1) /\ n = d * 0 + r
  BY <1>1, <1>2, Zenon
<1> HIDE DEF r
<1>4. n = r
  BY <1>0, <1>3
<1> QED
  BY <1>2, <1>4, Zenon DEF r

LEMMA QuotientOne ==
  ASSUME NEW d \in Nat \ {0}
  PROVE  d \div d = 1 /\ d % d = 0
<1> DEFINE q == d \div d
           r == d % d
<1>1. q \in Nat /\ r \in 0..(d - 1) /\ d = d * q + r
  BY DivMod
<1> HIDE DEF q, r
<1>2. q # 0
  BY <1>1
<1>3. ~(q >= 2)
  <2>1. SUFFICES ASSUME q >= 2 PROVE FALSE
    OBVIOUS
  <2>2. d * q = d + d + d * (q - 2) /\ d * (q - 2) \in Nat
    BY <1>1, <2>1
  <2> QED
    BY <1>1, <2>2
<1>4. q = 1 /\ r = 0
  BY <1>1, <1>2, <1>3
<1> QED
  BY <1>4, Zenon DEF q, r

(* What GetFATEntry computes before it reads: the place of an entry.        *)
LEMMA FatSplit ==
  ASSUME NEW c \in Word
  PROVE  /\ FatOffset(c) \in Nat
         /\ FatSector(c) \in Nat /\ FatIndex(c) \in 0..(BytesPerSec - 1)
         /\ FatOffset(c) = BytesPerSec * FatSector(c) + FatIndex(c)
<1>1. FatOffset(c) \in Nat
  BY DEF FatOffset, Word
<1>2. BytesPerSec \in Nat \ {0}
  BY Numbers
<1> QED
  BY <1>1, <1>2, DivMod, Zenon DEF FatSector, FatIndex

(* When the division does not fault, everything fits a word.                *)
LEMMA FatPlace ==
  ASSUME NEW c \in Word, ~FatFaults(c)
  PROVE  /\ FatOffset(c) \in Nat /\ FatIndex(c) \in 0..(BytesPerSec - 1)
         /\ FatIndex(c) \in Word
         /\ FatSector(c) \in Nat /\ FatSector(c) + FatStart < WordSize
         /\ FatOffset(c) = BytesPerSec * FatSector(c) + FatIndex(c)
<1> DEFINE q == WordSize \div BytesPerSec
           r == WordSize % BytesPerSec
<1>1. FatOffset(c) \in Nat /\ FatOffset(c) < WordSize
  BY DEF FatOffset, FatFaults, Word, WordSize
<1>2. BytesPerSec \in Nat \ {0} /\ FatOffset(c) \in Nat /\ WordSize \in Nat
  BY <1>1, Numbers DEF WordSize
<1>3. /\ FatSector(c) \in Nat /\ FatIndex(c) \in 0..(BytesPerSec - 1)
      /\ FatOffset(c) = BytesPerSec * FatSector(c) + FatIndex(c)
  BY FatSplit, Zenon
<1>4. q \in Nat /\ r \in 0..(BytesPerSec - 1) /\ WordSize = BytesPerSec * q + r
  BY <1>2, DivMod, Zenon
<1>5. FatStart + q < WordSize
  BY BootAssumption, Zenon DEF NumbersAssumption
<1> HIDE DEF q, r
<1>6. FatSector(c) <= q
  <2>1. SUFFICES ASSUME FatSector(c) >= q + 1 PROVE FALSE
    BY <1>3, <1>4
  <2>2. PICK e \in Nat : FatSector(c) = q + 1 + e
    <3>1. FatSector(c) - (q + 1) \in Nat /\ FatSector(c) = q + 1 + (FatSector(c) - (q + 1))
      BY <1>3, <1>4, <2>1
    <3> QED
      BY <3>1, Zenon
  <2>3. BytesPerSec * (q + 1 + e) = BytesPerSec * q + BytesPerSec + BytesPerSec * e
        /\ BytesPerSec * e >= 0 /\ BytesPerSec * q \in Nat
    BY <1>2, <1>4
  <2>4. FatOffset(c) = BytesPerSec * (q + 1 + e) + FatIndex(c)
    BY <1>3, <2>2, Zenon
  <2> DEFINE m == BytesPerSec * q
             n == BytesPerSec * e
  <2>5. m \in Nat /\ n >= 0 /\ FatOffset(c) = m + BytesPerSec + n + FatIndex(c)
        /\ WordSize = m + r
    BY <1>4, <2>3, <2>4, Zenon
  <2>6. n \in Nat
    BY <1>2
  <2> HIDE DEF m, n
  <2> QED
    BY <1>1, <1>2, <1>3, <1>4, <2>5, <2>6
<1>7. FatSector(c) + FatStart < WordSize /\ FatIndex(c) \in Nat /\ FatIndex(c) < WordSize
  BY <1>3, <1>4, <1>5, <1>6, Numbers DEF Word
<1> QED
  BY <1>2, <1>3, <1>7, Zenon DEF Word
(* What INT 13h receives is in range for it.                                *)
LEMMA ChsRange ==
  ASSUME NEW lba \in Nat, ~DivFaults(lba)
  PROVE  ToChs(lba) \in [cyl : 0..127, head : {0, 1}, sec : 1..SecPerTrk]
<1> DEFINE track == lba \div SecPerTrk
           r == lba % SecPerTrk
<1>1. SecPerTrk \in Nat \ {0}
  BY GeometryAssumption
<1>2. track \in Nat /\ r \in 0..(SecPerTrk - 1)
  BY <1>1, DivMod, Zenon
<1>3. ~(track > 255)
  BY Zenon DEF DivFaults
<1>4. ToChs(lba) = [cyl |-> track \div 2, head |-> track % 2, sec |-> r + 1]
  BY DEF ToChs
<1> HIDE DEF track, r
<1>5. track \div 2 \in 0..127 /\ track % 2 \in {0, 1} /\ r + 1 \in 1..SecPerTrk
  BY <1>1, <1>2, <1>3
<1> QED
  BY <1>4, <1>5

(* The two bytes GetFATEntry takes out of the buffer are those of the entry.*)
LEMMA WordOfEntry ==
  ASSUME TypeOK, NEW c \in Word,
         buf[0] = FatSector(c) + FatStart, buf[1] = (FatSector(c) + FatStart) + 1
  PROVE  FatDecode(FatOdd(c), WordAt(FatIndex(c)).lo, WordAt(FatIndex(c)).hi)
           = FatEntry(disk.fat, c)
<1> DEFINE B == BytesPerSec
           s == FatSector(c)
           i == FatIndex(c)
           byte(j) == TableByte(j \div B, j % B)
<1>1. /\ B \in Nat \ {0} /\ s \in Nat /\ i \in 0..(B - 1) /\ FatOffset(c) = B * s + i
      /\ FatStart \in Nat
  BY FatSplit, Numbers DEF Word
<1>2. /\ WordAt(i).lo = byte(i) /\ WordAt(i).hi = byte(i + 1)
  BY DEF WordAt
<1>3. byte(i) = FatByte(disk.fat, FatOffset(c))
  <2>1. i \div B = 0 /\ i % B = i
    BY <1>1, QuotientZero, Zenon
  <2>2. (buf[0] - FatStart) * B + i = FatOffset(c)
    <3>1. (s + FatStart) - FatStart = s /\ s * B = B * s
      BY <1>1
    <3> QED
      BY <1>1, <3>1, Zenon
  <2> QED
    BY <2>1, <2>2, Zenon DEF TableByte
<1>4. byte(i + 1) = FatByte(disk.fat, FatOffset(c) + 1)
  <2>1. CASE i + 1 = B
    <3>1. B \div B = 1 /\ B % B = 0
      BY <1>1, QuotientOne, Zenon
    <3>2. (buf[1] - FatStart) * B + 0 = FatOffset(c) + 1
      <4>1. ((s + FatStart) + 1) - FatStart = s + 1 /\ (s + 1) * B = B * s + B
            /\ B * s \in Nat
        BY <1>1
      <4>2. (buf[1] - FatStart) * B = B * s + B
        BY <4>1, Zenon
      <4> DEFINE m == B * s
                 n == (buf[1] - FatStart) * B
      <4>3. m \in Nat /\ n = m + B /\ FatOffset(c) = m + i
        BY <1>1, <4>1, <4>2, Zenon
      <4> HIDE DEF m, n
      <4>4. n + 0 = FatOffset(c) + 1
        BY <1>1, <2>1, <4>3
      <4> QED
        BY <4>4, Zenon DEF n
    <3> QED
      BY <2>1, <3>1, <3>2, Zenon DEF TableByte
  <2>2. CASE i + 1 # B
    <3>0. B \in Nat /\ i \in 0..(B - 1)
      BY <1>1, Zenon
    <3>1. i + 1 \in 0..(B - 1)
      BY <2>2, <3>0
    <3>2. (i + 1) \div B = 0 /\ (i + 1) % B = i + 1
      BY <1>1, <3>1, QuotientZero, Zenon
    <3>3. (buf[0] - FatStart) * B + (i + 1) = FatOffset(c) + 1
      <4>1. (s + FatStart) - FatStart = s /\ s * B = B * s /\ B * s \in Nat
        BY <1>1
      <4>2. (B * s) + (i + 1) = (B * s + i) + 1
        BY <1>1, <4>1
      <4> QED
        BY <1>1, <4>1, <4>2, Zenon
    <3> QED
      BY <3>2, <3>3, Zenon DEF TableByte
  <2> QED
    BY <2>1, <2>2
<1>5. disk \in Disks /\ c \in Nat
  BY DEF TypeOK, Word
<1>6. FatDecode(FatOdd(c), FatByte(disk.fat, FatOffset(c)), FatByte(disk.fat, FatOffset(c) + 1))
        = FatEntry(disk.fat, c)
  BY <1>5, DiskFacts, FatRoundTrip, Zenon
<1> QED
  BY <1>2, <1>3, <1>4, <1>6, Zenon

(* Directory entries are numbered sector by sector.                         *)
LEMMA RootIndex ==
  ASSUME NEW s \in RootStart..(RootStart + RootSectors - 1), NEW e \in 0..(EntriesPerSec - 1)
  PROVE  /\ (s - RootStart) * EntriesPerSec \in Nat
         /\ (s - RootStart) * EntriesPerSec + e \in RootDir
         /\ ((s + 1) - RootStart) * EntriesPerSec
              = (s - RootStart) * EntriesPerSec + EntriesPerSec
<1> DEFINE k == s - RootStart
           f == (RootSectors - 1) - k
           E == EntriesPerSec
<1>1. /\ k \in Nat /\ f \in Nat /\ RootSectors = (k + 1) + f /\ (s + 1) - RootStart = k + 1
      /\ E \in Nat /\ e \in 0..(E - 1)
  BY Numbers DEF Word
<1> HIDE DEF k, f, E
<1>2. /\ k * E \in Nat /\ f * E \in Nat
      /\ ((k + 1) + f) * E = k * E + E + f * E
      /\ (k + 1) * E = k * E + E
  BY <1>1
<1>3. RootSectors * E = k * E + E + f * E
  BY <1>1, <1>2, Zenon
<1> DEFINE m == k * E
           n == f * E
           t == RootSectors * E
<1>4. m \in Nat /\ n \in Nat /\ t = m + E + n
  BY <1>2, <1>3, Zenon
<1> HIDE DEF m, n, t
<1>5. m + e \in 0..(t - 1)
  BY <1>1, <1>4
<1> QED
  BY <1>1, <1>2, <1>5, Zenon DEF k, E, m, t, RootDir

(* Page arithmetic: the offsets the loader is read to.                      *)
LEMMA PageAt ==
  ASSUME NEW p \in Nat
  PROVE  (p * BytesPerSec) \div BytesPerSec = p
<1>1. BytesPerSec \in Nat \ {0}
  BY Numbers
<1> DEFINE n == p * BytesPerSec
           q == n \div BytesPerSec
           r == n % BytesPerSec
<1>2. n \in Nat
  BY <1>1
<1>3. q \in Nat /\ r \in 0..(BytesPerSec - 1) /\ n = BytesPerSec * q + r
  BY <1>1, <1>2, DivMod, Zenon
<1>4. BytesPerSec * q + r = p * BytesPerSec
  BY <1>3, Zenon
<1> HIDE DEF q, r, n
<1>5. q = p
  <2>1. CASE q < p
    <3>1. p - q - 1 \in Nat /\ p = (q + 1) + (p - q - 1)
      BY <1>3, <2>1
    <3> DEFINE e == p - q - 1
    <3>2. p * BytesPerSec = BytesPerSec * q + BytesPerSec + e * BytesPerSec
          /\ e * BytesPerSec \in Nat /\ BytesPerSec * q \in Nat
      BY <1>1, <1>3, <3>1
    <3> HIDE DEF e
    <3> QED
      BY <1>1, <1>3, <1>4, <3>2
  <2>2. CASE q > p
    <3>1. q - p - 1 \in Nat /\ q = (p + 1) + (q - p - 1)
      BY <1>3, <2>2
    <3> DEFINE e == q - p - 1
    <3>2. BytesPerSec * q = p * BytesPerSec + BytesPerSec + e * BytesPerSec
          /\ e * BytesPerSec \in Nat /\ p * BytesPerSec \in Nat
      BY <1>1, <1>3, <3>1
    <3> HIDE DEF e
    <3> QED
      BY <1>1, <1>3, <1>4, <3>2
  <2> QED
    BY <1>3, <2>1, <2>2
<1> QED
  BY <1>5, Zenon DEF q, n

(* What the chain demands of the pages survives a step that leaves the      *)
(* diskette, the pages and the load offset alone.                           *)
LEMMA PagesKept ==
  ASSUME PagesInv, disk' = disk, loader' = loader, overrun' = overrun,
         InSearch' => InSearch,
         Loading' => /\ Loading /\ LoadOffset' = LoadOffset /\ (Arrived' <=> Arrived)
                     /\ Arrived \/ stk'[0] = stk[0]
  PROVE  PagesInv'
<1>1. \A p : Expected(p)' = Expected(p)
  BY DEF Expected, IsFirstMatch, NextSector
<1>2. Loading' => LoadPage' = LoadPage
  BY DEF LoadPage
<1>3. Loading' /\ ChainLoaded => ChainLoaded'
  BY <1>1, <1>2 DEF ChainLoaded
<1>4. (InSearch => \A p \in DOMAIN loader : loader[p] = NoSector)'
  BY DEF PagesInv
<1>5. Loading' => /\ (LoadPage \in DOMAIN loader /\ LoadOffset = LoadPage * BytesPerSec)'
                  /\ (~overrun => ChainLoaded)'
  BY <1>2, <1>3 DEF PagesInv
<1> QED
  BY <1>4, <1>5 DEF PagesInv

(* One page on, or back at the start of the segment.                        *)
LEMMA NextPageAt ==
  ASSUME NEW p \in 0..(Pages - 1)
  PROVE  LET n == p * BytesPerSec + BytesPerSec IN
         /\ n \in Nat
         /\ n < SegSize => n % SegSize = n /\ n = (p + 1) * BytesPerSec /\ p + 1 \in 0..(Pages - 1)
         /\ n >= SegSize => n % SegSize = 0
<1> DEFINE B == BytesPerSec
           n == p * B + B
<1>1. B \in Nat \ {0} /\ Pages \in Nat /\ p \in Nat /\ p < Pages /\ SegSize = B * Pages
      /\ SegSize \in Nat \ {0}
  BY Numbers, PageSize
<1>2. n \in Nat /\ n = (p + 1) * B
  BY <1>1
<1>3. CASE p + 1 = Pages
  <2>1. (p + 1) * B = B * (p + 1)
    BY <1>1
  <2>2. n = SegSize
    BY <1>1, <1>2, <1>3, <2>1, Zenon
  <2>3. SegSize % SegSize = 0
    BY <1>1, QuotientOne, Zenon
  <2>4. ~(n < SegSize)
    BY <1>1, <2>2
  <2> QED
    BY <1>2, <2>2, <2>3, <2>4, Zenon
<1>4. CASE p + 1 # Pages
  <2> DEFINE e == Pages - p - 2
  <2>1. e \in Nat /\ Pages = (p + 1) + (e + 1) /\ p + 1 \in 0..(Pages - 1)
    BY <1>1, <1>4
  <2> HIDE DEF e
  <2>2. B * ((p + 1) + (e + 1)) = p * B + B + B * e + B /\ B * e \in Nat /\ p * B \in Nat
    BY <1>1, <2>1
  <2>3. SegSize = p * B + B + B * e + B
    BY <1>1, <2>1, <2>2, Zenon
  <2> HIDE DEF n
  <2> DEFINE m == B * e
             k == p * B
  <2>4. m \in Nat /\ k \in Nat /\ SegSize = k + B + m + B /\ n = k + B
    BY <2>2, <2>3, Zenon DEF n
  <2> HIDE DEF m, k
  <2>5. n \in 0..(SegSize - 1)
    BY <1>1, <2>4
  <2>6. n % SegSize = n
    BY <1>1, <2>5, QuotientZero, Zenon
  <2>7. ~(n >= SegSize)
    BY <1>1, <2>5
  <2> QED
    BY <1>2, <2>1, <2>6, <2>7, Zenon DEF n
<1> QED
  BY <1>3, <1>4

-----------------------------------------------------------------------------
(* The steps.                                                               *)

LEMMA ResetStep == IInv /\ Reset => IInv'
<1> SUFFICES ASSUME IInv, Reset PROVE IInv'
  OBVIOUS
<1>1. TypeOK'
  BY Numbers DEF IInv, TypeOK, Reset, regs, Labels
<1>2. SectorsInv'
  <2>1. (RootStart - RootStart) * EntriesPerSec = 0
    BY Numbers DEF Word
  <2>2. Base' = 0 /\ \A e \in RootDir : e \in Nat
    BY <2>1 DEF Reset, Base, RootDir
  <2> QED
    BY <2>2, Numbers DEF IInv, SectorsInv, InSector, Reading, Cleared, Reset, Word
<1>3. EntriesInv'
  BY DEF EntriesInv, Reset
<1>4. ReadsInv'
  BY DEF IInv, ReadsInv, InLoad, Reading, Reset
<1>5. PagesInv'
  <2>1. UNCHANGED <<disk, loader, overrun>> /\ ~Loading' /\ (InSearch' => InSearch)
    BY DEF Reset, regs, mem, InSearch, Searching, Loading, InLoad, Reading
  <2> QED
    BY <2>1, PagesKept DEF IInv
<1> QED
  BY <1>1, <1>2, <1>3, <1>4, <1>5 DEF IInv

LEMMA SearchInRootDirectoryBeginStep == IInv /\ SearchInRootDirectoryBegin => IInv'
<1> SUFFICES ASSUME IInv, SearchInRootDirectoryBegin PROVE IInv'
  OBVIOUS
<1>1. TypeOK'
  BY DEF IInv, TypeOK, SearchInRootDirectoryBegin, CallReadOneSector, SectorsLeft, LoopAfter, Word, WordSize, Labels
<1>2. SectorsInv'
  BY Numbers DEF IInv, SectorsInv, Reading, Cleared, Base, SearchInRootDirectoryBegin, CallReadOneSector, SectorsLeft, LoopAfter, Word
<1>3. EntriesInv'
  BY DEF EntriesInv, SearchInRootDirectoryBegin, CallReadOneSector
<1>4. ReadsInv'
  BY DEF IInv, ReadsInv, InLoad, Reading, SearchInRootDirectoryBegin, CallReadOneSector
<1>5. PagesInv'
  <2>1. UNCHANGED <<disk, loader, overrun>> /\ ~Loading' /\ (InSearch' => InSearch)
    BY DEF SearchInRootDirectoryBegin, regs, mem, CallReadOneSector, InSearch, Searching, Loading, InLoad, Reading
  <2> QED
    BY <2>1, PagesKept DEF IInv
<1> QED
  BY <1>1, <1>2, <1>3, <1>4, <1>5 DEF IInv

LEMMA RootDirectoryExhaustedStep == IInv /\ RootDirectoryExhausted => IInv'
<1> SUFFICES ASSUME IInv, RootDirectoryExhausted PROVE IInv'
  OBVIOUS
<1>1. TypeOK'
  BY DEF IInv, TypeOK, RootDirectoryExhausted, regs, mem, Labels
<1>2. SectorsInv'
  BY DEF SectorsInv, InSector, Reading, RootDirectoryExhausted
<1>3. EntriesInv'
  BY Numbers DEF IInv, SectorsInv, EntriesInv, Cleared, Base, RootDirectoryExhausted, Word
<1>4. ReadsInv'
  BY DEF IInv, ReadsInv, InLoad, Reading, RootDirectoryExhausted
<1>5. PagesInv'
  <2>1. UNCHANGED <<disk, loader, overrun>> /\ ~Loading' /\ (InSearch' => InSearch)
    BY DEF RootDirectoryExhausted, regs, mem, InSearch, Searching, Loading, InLoad, Reading
  <2> QED
    BY <2>1, PagesKept DEF IInv
<1> QED
  BY <1>1, <1>2, <1>3, <1>4, <1>5 DEF IInv

LEMMA SectorReadStep == IInv /\ SectorRead => IInv'
<1> SUFFICES ASSUME IInv, SectorRead PROVE IInv'
  OBVIOUS
<1>1. TypeOK'
  BY Numbers DEF IInv, TypeOK, SectorRead, mem, Word, WordSize, Labels
<1>2. SectorsInv'
  BY DEF IInv, SectorsInv, InSector, Reading, Cleared, Base, SectorRead, mem
<1>3. EntriesInv'
  <2>1. InSector
    BY DEF SectorRead, InSector
  <2>2. Base \in Nat /\ Base' = Base
    BY <2>1, RootIndex, Numbers DEF IInv, SectorsInv, Base, SectorRead, mem
  <2> QED
    BY <2>1, <2>2, Numbers DEF IInv, SectorsInv, EntriesInv, Cleared, SectorRead, mem, EntrySize
<1>4. ReadsInv'
  BY DEF IInv, ReadsInv, InSector, InLoad, Reading, SectorRead
<1>5. PagesInv'
  <2>1. UNCHANGED <<disk, loader, overrun>> /\ ~Loading' /\ (InSearch' => InSearch)
    BY DEF SectorRead, regs, mem, InSearch, Searching, Loading, InLoad, Reading
  <2> QED
    BY <2>1, PagesKept DEF IInv
<1> QED
  BY <1>1, <1>2, <1>3, <1>4, <1>5 DEF IInv

LEMMA SearchForLoaderBinStep == IInv /\ SearchForLoaderBin => IInv'
<1> SUFFICES ASSUME IInv, SearchForLoaderBin PROVE IInv'
  OBVIOUS
<1>1. TypeOK'
  BY Numbers DEF IInv, TypeOK, SearchForLoaderBin, mem, SectorSearched, Word, WordSize, Labels
<1>2. SectorsInv'
  BY DEF IInv, SectorsInv, InSector, Reading, Cleared, Base, SearchForLoaderBin, mem
<1>3. EntriesInv'
  BY Numbers DEF IInv, EntriesInv, Cleared, Base, Current, SameUpTo, SearchForLoaderBin, mem, SectorSearched, EntrySize
<1>4. ReadsInv'
  BY DEF IInv, ReadsInv, InSector, InLoad, Reading, SearchForLoaderBin
<1>5. PagesInv'
  <2>1. UNCHANGED <<disk, loader, overrun>> /\ ~Loading' /\ (InSearch' => InSearch)
    BY DEF SearchForLoaderBin, regs, mem, InSearch, Searching, Loading, InLoad, Reading
  <2> QED
    BY <2>1, PagesKept DEF IInv
<1> QED
  BY <1>1, <1>2, <1>3, <1>4, <1>5 DEF IInv

LEMMA CompareFileNameStep == IInv /\ CompareFileName => IInv'
<1> SUFFICES ASSUME IInv, CompareFileName PROVE IInv'
  OBVIOUS
<1>1. TypeOK'
  <2>1. /\ dx \in 0..(EntriesPerSec - 1) /\ cx \in 0..NameLen /\ si = NameLen - cx
        /\ di = EntrySize * Current + si
    BY DEF IInv, EntriesInv, CompareFileName
  <2>2. EntriesPerSec \in 1..255 /\ NameLen \in 1..11
    BY Numbers
  <2>3. Current \in 0..254 /\ si \in 0..11
    BY <2>1, <2>2 DEF Current
  <2>4. ASSUME ~NameMatched PROVE cx - 1 \in Word /\ si + 1 \in Word /\ di + 1 \in Word
    <3>1. cx \in 1..11
      BY <2>1, <2>2, <2>4 DEF NameMatched
    <3>2. di \in 0..8200
      BY <2>1, <2>3 DEF EntrySize
    <3> QED
      BY <2>3, <3>1, <3>2 DEF Word, WordSize
  <2>5. TypeOK
    BY DEF IInv
  <2> QED
    BY <2>4, <2>5 DEF TypeOK, CompareFileName, mem, Labels
<1>2. SectorsInv'
  BY DEF IInv, SectorsInv, InSector, Reading, Cleared, Base, CompareFileName, mem
<1> DEFINE e == Base + Current
<1>a. /\ InSector /\ buf[0] = sectorNumber
      /\ sectorNumber \in RootStart..(RootStart + RootSectors - 1)
      /\ dx \in 0..(EntriesPerSec - 1) /\ cx \in 0..NameLen /\ si = NameLen - cx
      /\ di = EntrySize * Current + si
      /\ Cleared(e) /\ SameUpTo(e, si)
  BY DEF IInv, SectorsInv, EntriesInv, CompareFileName, InSector, Reading
<1>b. Base \in Nat /\ Current \in 0..(EntriesPerSec - 1) /\ Base' = Base
  BY <1>a, RootIndex, Numbers DEF Base, Current, CompareFileName, mem
<1>c. Current' = Current
  BY DEF CompareFileName, Current
<1>3. EntriesInv'
  <2> HIDE DEF e
  <2>1. Cleared(e)' /\ (disk' = disk) /\ e' = e
    BY <1>a, <1>b, <1>c DEF e, Cleared, CompareFileName
  <2>2. CASE cx = 0
    <3>1. si = NameLen /\ UNCHANGED <<cx, dx, si, di>> /\ pc' = "FileNameFound"
      BY <1>a, <2>2, Numbers DEF CompareFileName, NameMatched
    <3>2. Matches(disk, e)
      BY <1>a, <3>1 DEF SameUpTo, Matches
    <3> QED
      BY <1>a, <1>b, <1>c, <2>1, <3>1, <3>2 DEF EntriesInv, e
  <2>3. CASE cx # 0
    <3>1. /\ si \in 0..(NameLen - 1) /\ cx' = cx - 1 /\ si' = si + 1 /\ dx' = dx
          /\ di \div EntrySize = Current /\ (di % EntrySize) + 1 = si + 1
      BY <1>a, <1>b, <2>3, Numbers DEF CompareFileName, NameMatched, EntrySize
    <3>2. DirEntry(buf[0], di \div EntrySize) = disk.dir[e]
      BY <1>a, <3>1, Zenon DEF DirEntry, Base, e
    <3>3. NameByteAt(si) = LoaderFileName[si + 1] /\ LoaderFileName[si + 1] # "other"
      BY <3>1, Numbers, BootAssumption DEF NameByteAt, NameLen
    <3>4. IsRootSector(buf[0])
      BY <1>a, Zenon DEF IsRootSector
    <3>5. NameByte(buf[0], di) = IF si + 1 \in DOMAIN disk.dir[e].name
                                 THEN disk.dir[e].name[si + 1] ELSE "other"
      BY <3>1, <3>2, <3>4, Zenon DEF NameByte
    <3>6. CASE NameByteAt(si) = NameByte(buf[0], di)
      <4>1. SameUpTo(e, si + 1)
        <5>1. si + 1 \in DOMAIN disk.dir[e].name /\ disk.dir[e].name[si + 1] = LoaderFileName[si + 1]
          BY <3>3, <3>5, <3>6
        <5>2. \A i \in 1..(si + 1) : i \in 1..si \/ i = si + 1
          BY <3>1
        <5> QED
          BY <1>a, <5>1, <5>2, Zenon DEF SameUpTo
      <4>2. pc' = "CompareFileName" /\ di' = di + 1
        BY <2>3, <3>6 DEF CompareFileName, NameMatched
      <4>3. SameUpTo(e, si)'
        BY <2>1, <3>1, <4>1 DEF SameUpTo
      <4> QED
        BY <1>a, <1>b, <1>c, <2>1, <3>1, <4>2, <4>3, Numbers DEF EntriesInv, e, EntrySize
    <3>7. CASE NameByteAt(si) # NameByte(buf[0], di)
      <4>1. ~Matches(disk, e)
        BY <3>1, <3>3, <3>5, <3>7, Numbers DEF Matches
      <4>2. pc' = "Different" /\ di' = di
        BY <2>3, <3>7 DEF CompareFileName, NameMatched
      <4> QED
        BY <1>a, <1>b, <1>c, <2>1, <3>1, <4>1, <4>2, Numbers DEF EntriesInv, e, EntrySize
    <3> QED
      BY <3>6, <3>7
  <2> QED
    BY <2>2, <2>3
<1>4. ReadsInv'
  BY DEF IInv, ReadsInv, InSector, InLoad, Reading, CompareFileName
<1>5. PagesInv'
  <2>1. UNCHANGED <<disk, loader, overrun>> /\ ~Loading' /\ (InSearch' => InSearch)
    BY DEF CompareFileName, regs, mem, InSearch, Searching, Loading, InLoad, Reading
  <2> QED
    BY <2>1, PagesKept DEF IInv
<1> QED
  BY <1>1, <1>2, <1>3, <1>4, <1>5 DEF IInv

LEMMA DifferentStep == IInv /\ Different => IInv'
<1> SUFFICES ASSUME IInv, Different PROVE IInv'
  OBVIOUS
<1>1. TypeOK'
  BY Numbers DEF IInv, TypeOK, EntriesInv, Different, mem, NameAgain, EntryStart, Word, WordSize, Labels, EntrySize, Current
<1>2. SectorsInv'
  BY DEF IInv, SectorsInv, InSector, Reading, Cleared, Base, Different, mem
<1>3. EntriesInv'
  <2>1. /\ InSector /\ sectorNumber \in RootStart..(RootStart + RootSectors - 1)
        /\ dx \in 0..(EntriesPerSec - 1) /\ Cleared(Base + Current)
        /\ di \in (EntrySize * Current)..(EntrySize * Current + 11)
        /\ ~Matches(disk, Base + Current)
    BY DEF IInv, SectorsInv, EntriesInv, Different, InSector
  <2>2. Base \in Nat /\ Base' = Base /\ Current \in Nat /\ Current + 1 = EntriesPerSec - dx
    BY <2>1, RootIndex, Numbers DEF Base, Current, Different, mem
  <2>3. di' = EntrySize * (Current + 1)
    BY <2>1, <2>2 DEF Different, EntryStart, EntrySize
  <2>4. \A f \in RootDir : f \in Nat
    BY DEF RootDir
  <2>5. Cleared(Base + (EntriesPerSec - dx))
    BY <2>1, <2>2, <2>4, Numbers DEF Cleared
  <2> QED
    BY <2>1, <2>2, <2>3, <2>5, Numbers DEF EntriesInv, Different, NameAgain, Cleared
<1>4. ReadsInv'
  BY DEF IInv, ReadsInv, InSector, InLoad, Reading, Different
<1>5. PagesInv'
  <2>1. UNCHANGED <<disk, loader, overrun>> /\ ~Loading' /\ (InSearch' => InSearch)
    BY DEF Different, regs, mem, InSearch, Searching, Loading, InLoad, Reading
  <2> QED
    BY <2>1, PagesKept DEF IInv
<1> QED
  BY <1>1, <1>2, <1>3, <1>4, <1>5 DEF IInv

LEMMA GoToNextSectorStep == IInv /\ GoToNextSector => IInv'
<1> SUFFICES ASSUME IInv, GoToNextSector PROVE IInv'
  OBVIOUS
<1>1. TypeOK'
  BY DEF IInv, TypeOK, GoToNextSector, regs, Word, WordSize, Labels
<1>2. SectorsInv'
  <2>1. /\ sectorNumber \in RootStart..(RootStart + RootSectors - 1)
        /\ rootLoop = (RootStart + RootSectors) - (sectorNumber + 1)
        /\ Cleared(Base + EntriesPerSec)
    BY DEF IInv, SectorsInv, EntriesInv, GoToNextSector, InSector
  <2>2. sectorNumber' = sectorNumber + 1
    BY <2>1, Numbers DEF GoToNextSector, Word, WordSize
  <2>3. Base' = Base + EntriesPerSec
    <3>1. 0 \in 0..(EntriesPerSec - 1)
      BY Numbers
    <3> QED
      BY <2>1, <2>2, <3>1, RootIndex, Zenon DEF Base
  <2> QED
    BY <2>1, <2>2, <2>3, Numbers DEF SectorsInv, InSector, Reading, Cleared, GoToNextSector, Word
<1>3. EntriesInv'
  BY DEF EntriesInv, GoToNextSector
<1>4. ReadsInv'
  BY DEF IInv, ReadsInv, InSector, InLoad, Reading, GoToNextSector
<1>5. PagesInv'
  <2>1. UNCHANGED <<disk, loader, overrun>> /\ ~Loading' /\ (InSearch' => InSearch)
    BY DEF GoToNextSector, regs, mem, InSearch, Searching, Loading, InLoad, Reading
  <2> QED
    BY <2>1, PagesKept DEF IInv
<1> QED
  BY <1>1, <1>2, <1>3, <1>4, <1>5 DEF IInv

LEMMA NoLoaderBinStep == IInv /\ NoLoaderBin => IInv'
<1> SUFFICES ASSUME IInv, NoLoaderBin PROVE IInv'
  OBVIOUS
<1>1. TypeOK'
  BY DEF IInv, TypeOK, NoLoaderBin, regs, mem, Labels
<1>2. SectorsInv'
  BY DEF SectorsInv, InSector, Reading, NoLoaderBin
<1>3. EntriesInv'
  BY DEF IInv, EntriesInv, Cleared, NoLoaderBin
<1>4. ReadsInv'
  BY DEF ReadsInv, InSector, InLoad, Reading, NoLoaderBin
<1>5. PagesInv'
  <2>1. UNCHANGED <<disk, loader, overrun>> /\ ~Loading' /\ (InSearch' => InSearch)
    BY DEF NoLoaderBin, regs, mem, InSearch, Searching, Loading, InLoad, Reading
  <2> QED
    BY <2>1, PagesKept DEF IInv
<1> QED
  BY <1>1, <1>2, <1>3, <1>4, <1>5 DEF IInv

(* The entry that is found, and what is made of it.                         *)
LEMMA FoundEntry ==
  ASSUME IInv, FileNameFound
  PROVE  LET e     == Base + Current
             first == disk.dir[e].first
         IN  /\ Cleared(e) /\ Matches(disk, e) /\ e \in RootDir
             /\ Current \in 0..(EntriesPerSec - 1)
             /\ di = EntrySize * Current + NameLen /\ EntryStart(di) = EntrySize * Current
             /\ first \in Word /\ DataSector(first) \in Word
             /\ stk' = [stk EXCEPT ![0] = first] /\ sp' = 1
             /\ ax' = DataSector(first) /\ cx' = DataSector(first)
             /\ di' = EntryStart(di) + 26
<1> DEFINE e == Base + Current
           first == disk.dir[e].first
<1>a. /\ InSector /\ buf[0] = sectorNumber /\ disk \in Disks
      /\ sectorNumber \in RootStart..(RootStart + RootSectors - 1)
      /\ dx \in 0..(EntriesPerSec - 1) /\ di = EntrySize * Current + NameLen
      /\ Cleared(e) /\ Matches(disk, e) /\ sp = 0
  BY DEF IInv, TypeOK, SectorsInv, EntriesInv, ReadsInv, FileNameFound, InSector, Reading
<1>b. Current \in 0..(EntriesPerSec - 1)
  BY <1>a, Numbers DEF Current
<1>c. e \in RootDir
  BY <1>a, <1>b, RootIndex, Zenon DEF Base
<1>d. first \in Word /\ DataSector(first) \in Word
  BY <1>a, <1>c, DiskFacts, SectorOfCluster, Zenon
<1>e. /\ di \div EntrySize = Current /\ EntryStart(di) = EntrySize * Current
      /\ di + EntrySize \in Word
  BY <1>a, <1>b, Numbers DEF EntrySize, EntryStart, Word, WordSize
<1>f. FirstCluster(buf[0], di) = first
  BY <1>a, <1>e, Zenon DEF FirstCluster, IsRootSector, DirEntry, Base
<1> HIDE DEF first, e
<1>g. /\ stk' = [stk EXCEPT ![0] = first] /\ sp' = 1
      /\ ax' = DataSector(first) /\ cx' = DataSector(first)
      /\ di' = EntryStart(di) + 26
  <2>1. sp = 0 /\ FirstCluster(buf[0], di) = first
    BY <1>a, <1>f, Zenon
  <2> QED
    BY <2>1 DEF FileNameFound
<1> QED
  BY <1>a, <1>b, <1>c, <1>d, <1>e, <1>g DEF first, e

LEMMA FileNameFoundStep == IInv /\ FileNameFound => IInv'
<1> SUFFICES ASSUME IInv, FileNameFound PROVE IInv'
  OBVIOUS
<1> DEFINE e == Base + Current
           first == disk.dir[e].first
<1>a. /\ Cleared(e) /\ Matches(disk, e) /\ e \in RootDir
      /\ Current \in 0..(EntriesPerSec - 1)
      /\ di = EntrySize * Current + NameLen /\ EntryStart(di) = EntrySize * Current
      /\ first \in Word /\ DataSector(first) \in Word
      /\ stk' = [stk EXCEPT ![0] = first] /\ sp' = 1
      /\ ax' = DataSector(first) /\ cx' = DataSector(first)
      /\ di' = EntryStart(di) + 26
  BY FoundEntry
<1> HIDE DEF first, e
<1>1. TypeOK'
  <2>1. di' \in Word
    BY <1>a, Numbers DEF EntrySize, Word, WordSize
  <2> QED
    BY <1>a, <2>1 DEF IInv, TypeOK, FileNameFound, mem, Labels, Word, WordSize
<1>2. SectorsInv'
  BY DEF SectorsInv, InSector, Reading, FileNameFound
<1>3. EntriesInv'
  BY DEF EntriesInv, FileNameFound
<1>4. ReadsInv'
  BY <1>a DEF IInv, TypeOK, ReadsInv, InSector, InLoad, Reading, FileNameFound, mem
<1>5. PagesInv'
  <2>1. LoadOffset' = 0 /\ LoadPage' = 0
    BY Numbers, PageAt DEF LoadOffset, LoadPage, FileNameFound, Low, BaseOfLoader
  <2>a. e' = e /\ disk' = disk
    BY DEF FileNameFound, mem, e, Base, Current
  <2>b. \A f \in 0..(e - 1) : f \in RootDir /\ f < e
    <3> DEFINE t == RootSectors * EntriesPerSec
    <3>1. t \in Nat
      BY Numbers
    <3>2. RootDir = 0..(t - 1)
      BY Zenon DEF RootDir
    <3> HIDE DEF t
    <3> QED
      BY <1>a, <3>1, <3>2
  <2>2. IsFirstMatch(e)'
    BY <1>a, <2>a, <2>b DEF IsFirstMatch, Cleared
  <2>3. first' = first /\ stk'[0] = first
    BY <1>a DEF IInv, TypeOK, FileNameFound, first, e, Base, Current, mem
  <2>4. (DataSector(stk[0]) \in Expected(0))'
    BY <1>a, <2>a, <2>2, <2>3 DEF Expected, first
  <2>5. LoadPage' \in DOMAIN loader'
    BY <2>1, PageSize DEF IInv, TypeOK, FileNameFound, mem
  <2>6. ChainLoaded'
    BY <2>1, <2>4 DEF ChainLoaded, Arrived, FileNameFound
  <2> QED
    BY <2>1, <2>5, <2>6, Numbers DEF PagesInv, InSearch, Searching, FileNameFound
<1> QED
  BY <1>1, <1>2, <1>3, <1>4, <1>5 DEF IInv

LEMMA GoOnLoadingFileStep == IInv /\ GoOnLoadingFile => IInv'
<1> SUFFICES ASSUME IInv, GoOnLoadingFile PROVE IInv'
  OBVIOUS
<1>1. TypeOK'
  BY DEF IInv, TypeOK, GoOnLoadingFile, regs, mem, CallReadOneSector, Labels
<1>2. SectorsInv'
  BY DEF SectorsInv, InSector, Reading, GoOnLoadingFile, CallReadOneSector
<1>3. EntriesInv'
  BY DEF EntriesInv, GoOnLoadingFile, CallReadOneSector
<1>4. ReadsInv'
  BY DEF IInv, ReadsInv, InSector, InLoad, Reading, GoOnLoadingFile, regs, CallReadOneSector
<1>5. PagesInv'
  <2>1. UNCHANGED <<disk, loader, overrun, stk>> /\ LoadOffset' = LoadOffset
    BY DEF GoOnLoadingFile, regs, mem, LoadOffset
  <2>2. /\ ~InSearch' /\ Loading /\ ~Arrived /\ ~Arrived'
    BY DEF GoOnLoadingFile, CallReadOneSector, InSearch, Searching, Loading, InLoad, Arrived, Reading
  <2> QED
    BY <2>1, <2>2, PagesKept DEF IInv
<1> QED
  BY <1>1, <1>2, <1>3, <1>4, <1>5 DEF IInv

LEMMA ClusterReadStep == IInv /\ ClusterRead => IInv'
<1> SUFFICES ASSUME IInv, ClusterRead PROVE IInv'
  OBVIOUS
<1> DEFINE c == stk[0]
<1>a. /\ pc = "ClusterRead" /\ sp = 1 /\ es = BaseOfLoader /\ ax = DataSector(c)
      /\ loader[LoadPage] = ax /\ c \in Word /\ Loading /\ Arrived /\ ~InSearch
  BY DEF IInv, TypeOK, ReadsInv, ClusterRead, InLoad, Reading, Loading, Arrived, InSearch, Searching
<1>b. ClusterOf(loader[LoadPage]) = c
  BY <1>a, SectorOfCluster, Zenon
<1>c. UNCHANGED <<disk, loader, overrun, buf, cx, si, di, sectorNumber, rootLoop>>
  BY DEF ClusterRead
<1>d. \/ pc' = "DivideError" /\ UNCHANGED <<ret, ax, bx, dx, es, cl, chs, stk, sp, odd>>
      \/ /\ ~FatFaults(c) /\ pc' = "ReadOneSector" /\ ret' = "FATRead" /\ cl' = 2
         /\ odd' = FatOdd(c) /\ ax' = FatSector(c) + FatStart /\ dx' = FatIndex(c)
         /\ stk' = [stk EXCEPT ![0] = BaseOfLoader, ![1] = bx, ![2] = FatIndex(c)]
         /\ sp' = 3 /\ es' = Low /\ bx' = 0 /\ UNCHANGED chs
  BY <1>a DEF ClusterRead, CallReadOneSector, TableSectors, TableSegment
<1>e. ~FatFaults(c) => /\ FatIndex(c) \in Word /\ FatSector(c) + FatStart \in Word
  BY <1>a, FatPlace, Numbers DEF Word
<1>f. LoadOffset' = LoadOffset /\ LoadPage' = LoadPage
  BY <1>a, <1>d DEF IInv, TypeOK, LoadOffset, LoadPage, Low, BaseOfLoader
<1>g. ClusterOf(loader[LoadPage])' = c
  BY <1>b, <1>c, <1>f, Zenon
<1> HIDE DEF c
<1>1. TypeOK'
  <2>1. CASE pc' = "DivideError"
    BY <1>c, <1>d, <2>1 DEF IInv, TypeOK, Labels
  <2>2. CASE pc' # "DivideError"
    <3>1. BaseOfLoader \in Word /\ 0 \in Word
      BY DEF BaseOfLoader, Word, WordSize
    <3>2. stk' \in [0..2 -> Word]
      BY <1>d, <1>e, <2>2, <3>1 DEF IInv, TypeOK
    <3> QED
      <4>0. /\ ~FatFaults(c) /\ pc' = "ReadOneSector" /\ ret' = "FATRead" /\ cl' = 2
            /\ odd' = FatOdd(c) /\ ax' = FatSector(c) + FatStart /\ dx' = FatIndex(c)
            /\ sp' = 3 /\ es' = Low /\ bx' = 0 /\ chs' = chs
        BY <1>d, <2>2
      <4>1. /\ ax' \in Word /\ bx' \in Word /\ dx' \in Word
            /\ pc' \in Labels /\ sp' \in 0..3 /\ cl' \in 0..2 /\ ret' = "FATRead"
            /\ es' \in {Low, BaseOfLoader} /\ chs' = chs
        BY <1>e, <3>1, <4>0 DEF Labels
      <4>2. odd' \in BOOLEAN
        BY <4>0, Zenon DEF FatOdd
      <4> QED
        BY <1>c, <3>2, <4>1, <4>2 DEF IInv, TypeOK
  <2> QED
    BY <2>1, <2>2
<1>2. SectorsInv'
  BY DEF SectorsInv, InSector, Reading, ClusterRead, CallReadOneSector
<1>3. EntriesInv'
  BY DEF EntriesInv, ClusterRead, CallReadOneSector
<1>4. ReadsInv'
  <2>1. CASE pc' = "DivideError"
    BY <2>1 DEF ReadsInv, InSector, InLoad, Reading
  <2>2. CASE pc' # "DivideError"
    BY <1>d, <1>g, <2>2 DEF IInv, TypeOK, ReadsInv, InSector, InLoad, Reading
  <2> QED
    BY <2>1, <2>2
<1>5. PagesInv'
  <2>1. ~InSearch' /\ (Loading' => Arrived')
    BY <1>d DEF InSearch, Searching, Loading, Arrived, InLoad, Reading
  <2> QED
    BY <1>a, <1>c, <1>f, <2>1, PagesKept DEF IInv
<1> QED
  BY <1>1, <1>2, <1>3, <1>4, <1>5 DEF IInv

(* The cluster in a page, as far as the registers know.                     *)
LEMMA ClusterIsWord ==
  ASSUME IInv, NEW p \in DOMAIN loader PROVE ClusterOf(loader[p]) \in Word
<1>1. loader[p] \in Int
  <2>1. loader \in [DOMAIN loader -> Sectors]
    BY DEF IInv, TypeOK
  <2>2. loader[p] \in Sectors
    BY <2>1
  <2> QED
    BY <2>2 DEF Sectors, NoSector, Word
<1> QED
  BY <1>1, Numbers DEF ClusterOf, Word, WordSize

LEMMA FATReadStep == IInv /\ FATRead => IInv'
<1> SUFFICES ASSUME IInv, FATRead PROVE IInv'
  OBVIOUS
<1> DEFINE c == ClusterOf(loader[LoadPage])
<1>a. /\ pc = "FATRead" /\ sp = 3 /\ es = Low /\ stk[0] = BaseOfLoader /\ stk[2] = FatIndex(c)
      /\ odd = FatOdd(c) /\ buf[0] = FatSector(c) + FatStart
      /\ buf[1] = (FatSector(c) + FatStart) + 1 /\ LoadPage \in DOMAIN loader
  BY DEF IInv, ReadsInv, PagesInv, FATRead, Reading, Loading
<1>b. c \in Word
  BY <1>a, ClusterIsWord
<1> HIDE DEF c
<1>c. ax' = FatEntry(disk.fat, c)
  <2>1. ax' = FatDecode(odd, WordAt(stk[2]).lo, WordAt(stk[2]).hi)
    BY <1>a DEF FATRead
  <2> QED
    BY <1>a, <1>b, <2>1, WordOfEntry, Zenon DEF IInv
<1>d. /\ pc' = "GotFATEntry" /\ sp' = 0 /\ dx' = stk[2] /\ bx' = stk[1] /\ es' = BaseOfLoader
      /\ UNCHANGED <<disk, ret, cx, si, di, cl, chs, stk, mem>>
  BY <1>a DEF FATRead
<1>e. ax' \in Word
  <2>1. disk \in Disks /\ c \in Nat
    BY <1>b DEF IInv, TypeOK, Word
  <2> QED
    BY <1>c, <2>1, DiskFacts, EntryIsWord, Zenon
<1>f. LoadOffset' = LoadOffset /\ LoadPage' = LoadPage
  BY <1>a, <1>d DEF LoadOffset, LoadPage, Low, BaseOfLoader
<1>1. TypeOK'
  BY <1>d, <1>e DEF IInv, TypeOK, Labels, mem
<1>2. SectorsInv'
  BY DEF SectorsInv, InSector, Reading, FATRead
<1>3. EntriesInv'
  BY DEF EntriesInv, FATRead
<1>4. ReadsInv'
  <2>1. TheEntry' = FatEntry(disk.fat, c)
    BY <1>d, <1>f, Zenon DEF TheEntry, mem, c
  <2> QED
    BY <1>c, <1>d, <2>1 DEF ReadsInv, InSector, InLoad, Reading
<1>5. PagesInv'
  <2>1. ~InSearch' /\ Loading /\ Arrived /\ Arrived'
    BY <1>a, <1>d DEF InSearch, Searching, Loading, Arrived, InLoad, Reading
  <2> QED
    BY <1>d, <1>f, <2>1, PagesKept DEF IInv, mem
<1> QED
  BY <1>1, <1>2, <1>3, <1>4, <1>5 DEF IInv

LEMMA GotFATEntryStep == IInv /\ GotFATEntry => IInv'
<1> SUFFICES ASSUME IInv, GotFATEntry PROVE IInv'
  OBVIOUS
<1>a. /\ pc = "GotFATEntry" /\ es = BaseOfLoader /\ sp = 0 /\ ax = TheEntry /\ ax \in Word
      /\ DataSector(ax) \in Word /\ Loading /\ Arrived
      /\ UNCHANGED <<disk, ret, cx, si, di, es, cl, chs, sectorNumber, rootLoop, odd, buf, loader>>
  BY SectorOfCluster DEF IInv, TypeOK, ReadsInv, GotFATEntry, Loading, Arrived, InLoad, Reading
<1>b. \/ EndOfChain /\ pc' = "FileLoaded" /\ UNCHANGED <<ax, bx, dx, stk, sp, overrun>>
      \/ /\ pc' = "GoOnLoadingFile" /\ stk' = [stk EXCEPT ![0] = ax] /\ sp' = 1
         /\ ax' = DataSector(ax) /\ dx' = RootSectors /\ bx' = NextPage
         /\ overrun' = (overrun \/ bx + BytesPerSec >= SegSize)
  BY <1>a DEF GotFATEntry
<1>c. /\ LoadOffset = bx /\ LoadOffset' = bx' /\ bx = LoadPage * BytesPerSec
      /\ LoadPage \in 0..(Pages - 1) /\ (~overrun => ChainLoaded)
  BY <1>a DEF IInv, TypeOK, PagesInv, LoadOffset, Low, BaseOfLoader
<1>d. NextPage \in Word
  <2>1. /\ bx + BytesPerSec \in Nat
        /\ (bx + BytesPerSec) % SegSize \in 0..(SegSize - 1)
    <3>1. bx + BytesPerSec \in Nat
      BY <1>c, NextPageAt, Zenon
    <3>2. SegSize \in Nat \ {0}
      BY Numbers
    <3> QED
      BY <3>1, <3>2, DivMod, Zenon
  <2> QED
    BY <2>1, Numbers DEF NextPage, Word, WordSize
<1>1. TypeOK'
  <2>1. CASE pc' = "FileLoaded"
    BY <1>a, <1>b, <2>1 DEF IInv, TypeOK, Labels
  <2>2. CASE pc' = "GoOnLoadingFile"
    BY <1>a, <1>b, <1>d, <2>2, Numbers DEF IInv, TypeOK, Labels, Word, WordSize
  <2> QED
    BY <1>b, <2>1, <2>2
<1>2. SectorsInv'
  BY DEF SectorsInv, InSector, Reading, GotFATEntry
<1>3. EntriesInv'
  BY DEF EntriesInv, GotFATEntry
<1>4. ReadsInv'
  <2>1. CASE pc' = "FileLoaded"
    <3>1. es' = BaseOfLoader /\ LoadPage' = LoadPage /\ ax = 4095
      BY <1>a, <1>b, <1>c, <2>1 DEF LoadPage, EndOfChain
    <3>2. TheEntry' = 4095
      BY <1>a, <3>1 DEF TheEntry
    <3> QED
      BY <2>1, <3>1, <3>2 DEF ReadsInv, InSector, InLoad, Reading
  <2>2. CASE pc' = "GoOnLoadingFile"
    BY <1>a, <1>b, <2>2 DEF IInv, TypeOK, ReadsInv, InSector, InLoad, Reading
  <2> QED
    BY <1>b, <2>1, <2>2
<1>5. PagesInv'
  <2>1. ~InSearch'
    BY <1>b DEF InSearch, Searching
  <2>2. CASE pc' = "FileLoaded"
    <3>1. /\ UNCHANGED <<disk, loader, overrun, stk>> /\ LoadOffset' = LoadOffset /\ Arrived'
      BY <1>a, <1>b, <1>c, <2>2 DEF Arrived, Reading
    <3> QED
      BY <1>a, <2>1, <3>1, PagesKept DEF IInv
  <2>3. CASE pc' = "GoOnLoadingFile" /\ bx + BytesPerSec < SegSize
    <3>1. /\ bx' = (LoadPage + 1) * BytesPerSec /\ LoadPage + 1 \in 0..(Pages - 1)
      BY <1>b, <1>c, <2>3, NextPageAt DEF NextPage
    <3>2. LoadPage' = LoadPage + 1
      <4>1. LoadPage + 1 \in Nat
        BY <3>1
      <4> QED
        BY <1>c, <3>1, <4>1, PageAt, Zenon DEF LoadPage
    <3>3. \A p : Expected(p)' = Expected(p)
      BY <1>a DEF Expected, IsFirstMatch, NextSector
    <3>4. overrun' = overrun
      BY <1>b, <1>c, <2>3, Numbers, NextPageAt DEF IInv, TypeOK
    <3>5. ChainLoaded => ChainLoaded'
      <4>1. ~Arrived' /\ stk'[0] = ax
        BY <1>b, <2>3 DEF IInv, TypeOK, Arrived
      <4>2. DataSector(ax) \in Expected(LoadPage + 1)
        <5>1. LoadPage + 1 # 0 /\ (LoadPage + 1) - 1 = LoadPage
          BY <1>c, PageSize
        <5> QED
          BY <1>a, <5>1, Zenon DEF Expected, NextSector, TheEntry
      <4>3. ChainLoaded => \A p \in 0..((LoadPage + 1) - 1) : loader[p] \in Expected(p)
        <5>1. \A p \in 0..((LoadPage + 1) - 1) : p \in 0..(LoadPage - 1) \/ p = LoadPage
          BY <1>c, PageSize
        <5> QED
          BY <1>a, <5>1, Zenon DEF ChainLoaded
      <4> QED
        BY <1>a, <3>2, <3>3, <4>1, <4>2, <4>3 DEF ChainLoaded
    <3>6. LoadPage' \in DOMAIN loader'
      BY <1>a, <3>1, <3>2 DEF IInv, TypeOK
    <3> QED
      BY <1>c, <2>1, <3>1, <3>2, <3>4, <3>5, <3>6 DEF PagesInv
  <2>4. CASE pc' = "GoOnLoadingFile" /\ ~(bx + BytesPerSec < SegSize)
    <3>1. bx + BytesPerSec \in Nat /\ bx + BytesPerSec >= SegSize
      BY <1>c, <2>4, NextPageAt, Numbers
    <3>2. bx' = 0 /\ overrun'
      <4>1. (bx + BytesPerSec) % SegSize = 0
        BY <1>c, <3>1, NextPageAt, Zenon
      <4> QED
        <5>1. bx' = NextPage /\ overrun' = (overrun \/ bx + BytesPerSec >= SegSize)
          <6>1. pc' # "FileLoaded"
            BY <2>4
          <6> QED
            BY <1>b, <6>1, Zenon
        <5> QED
          BY <3>1, <4>1, <5>1, Zenon DEF NextPage
    <3>3. LoadPage' = 0 /\ 0 * BytesPerSec = 0
      BY <1>c, <3>2, PageAt, Numbers DEF LoadPage
    <3>4. 0 \in DOMAIN loader'
      BY <1>a, PageSize DEF IInv, TypeOK
    <3> QED
      BY <1>c, <2>1, <3>2, <3>3, <3>4 DEF PagesInv
  <2> QED
    BY <1>b, <2>2, <2>3, <2>4
<1> QED
  BY <1>1, <1>2, <1>3, <1>4, <1>5 DEF IInv

LEMMA ReadOneSectorStep == IInv /\ ReadOneSector => IInv'
<1> SUFFICES ASSUME IInv, ReadOneSector PROVE IInv'
  OBVIOUS
<1>1. TypeOK'
  <2>1. /\ UNCHANGED <<disk, ret, regs, cl, stk, sp, mem>>
        /\ \/ pc' = "DivideError" /\ chs' = chs
           \/ ~DivFaults(ax) /\ pc' = "GoOnReading" /\ chs' = ToChs(ax)
    BY DEF ReadOneSector
  <2>2. ~DivFaults(ax) => ToChs(ax) \in [cyl : 0..127, head : {0, 1}, sec : 1..SecPerTrk]
    BY ChsRange DEF IInv, TypeOK, Word
  <2>3. chs' \in [cyl : 0..127, head : {0, 1}, sec : 1..SecPerTrk]
    BY <2>1, <2>2 DEF IInv, TypeOK
  <2> QED
    BY <2>1, <2>3 DEF IInv, TypeOK, Labels, regs, mem
<1>2. SectorsInv'
  BY DEF IInv, SectorsInv, InSector, Reading, Cleared, Base, ReadOneSector, regs, mem
<1>3. EntriesInv'
  BY DEF EntriesInv, ReadOneSector
<1>4. ReadsInv'
  <2>1. /\ UNCHANGED <<disk, ret, ax, bx, es, cl, stk, sp, odd, buf, loader>>
        /\ \/ pc' = "DivideError"
           \/ pc' = "GoOnReading" /\ chs' = ToChs(ax)
        /\ pc = "ReadOneSector"
    BY DEF ReadOneSector, regs, mem
  <2>2. LoadPage' = LoadPage
    BY <2>1 DEF LoadPage, LoadOffset
  <2> QED
    BY <2>1, <2>2 DEF IInv, ReadsInv, InSector, InLoad, Reading
<1>5. PagesInv'
  <2>1. UNCHANGED <<disk, loader, overrun, stk>> /\ LoadOffset' = LoadOffset
    BY DEF ReadOneSector, regs, mem, LoadOffset
  <2>2. /\ InSearch' => InSearch
        /\ Loading' => Loading /\ (Arrived' <=> Arrived)
    BY DEF ReadOneSector, InSearch, Searching, Loading, InLoad, Arrived, Reading
  <2> QED
    BY <2>1, <2>2, PagesKept DEF IInv
<1> QED
  BY <1>1, <1>2, <1>3, <1>4, <1>5 DEF IInv

(* A transfer to the buffer at 0000:8000.                                   *)
LEMMA LowTransfer ==
  ASSUME TypeOK, es = Low, bx = 0, chs = ToChs(ax),
         NEW n \in 0..2, n > 0 => ax + n <= TotSec, Transfer(n)
  PROVE  /\ loader' = loader /\ buf' \in [{0, 1} -> Sectors]
         /\ n >= 1 => buf'[0] = ax
         /\ n = 2 => buf'[1] = ax + 1
<1>1. ax \in Nat /\ Requested = ax
  BY ChsRoundTrip, Zenon DEF TypeOK, Word, Requested
<1>2. bx \div BytesPerSec = 0
  <2>1. 0 \in 0..(BytesPerSec - 1) /\ BytesPerSec \in Nat \ {0}
    BY Numbers
  <2> QED
    BY <2>1, QuotientZero, Zenon
<1>3. /\ loader' = loader
      /\ buf' = [p \in DOMAIN buf |->
           IF (p - 0) % WordSize < n THEN ax + ((p - 0) % WordSize) ELSE buf[p]]
  BY <1>1, <1>2, Zenon DEF Transfer
<1>4. (0 - 0) % WordSize = 0 /\ (1 - 0) % WordSize = 1
  BY DEF WordSize
<1>5. DOMAIN buf = {0, 1}
  BY DEF TypeOK
<1>6. /\ DOMAIN buf' = {0, 1} /\ buf' = [p \in {0, 1} |-> buf'[p]]
      /\ buf'[0] = IF 0 < n THEN ax + 0 ELSE buf[0]
      /\ buf'[1] = IF 1 < n THEN ax + 1 ELSE buf[1]
  BY <1>3, <1>4, <1>5
<1>7. buf'[0] \in Sectors /\ buf'[1] \in Sectors
  <2>1. /\ 0 < n => ax + 0 \in Word
        /\ 1 < n => ax + 1 \in Word
    BY <1>1, Numbers DEF Word, WordSize
  <2>2. buf[0] \in Sectors /\ buf[1] \in Sectors
    BY DEF TypeOK
  <2> QED
    BY <1>6, <2>1, <2>2 DEF Sectors
<1> QED
  BY <1>1, <1>3, <1>6, <1>7

(* Two pages of a segment are the same when their distance, around the      *)
(* segment, is zero.                                                        *)
LEMMA PageDistance ==
  ASSUME NEW m \in Nat \ {0}, NEW a \in 0..(m - 1), NEW b \in 0..(m - 1)
  PROVE  (a - b) % m \in Nat /\ ((a - b) % m = 0 <=> a = b)
<1>1. CASE a >= b
  <2>1. a - b \in 0..(m - 1)
    BY <1>1
  <2>2. (a - b) % m = a - b
    BY <2>1, QuotientZero, Zenon
  <2> QED
    BY <1>1, <2>2
<1>2. CASE a < b
  <2> DEFINE q == (a - b) \div m
             r == (a - b) % m
  <2>1. q \in Int /\ r \in 0..(m - 1) /\ a - b = m * q + r
    BY SMT
  <2> HIDE DEF q, r
  <2>2. r # 0
    <3>1. SUFFICES ASSUME r = 0 PROVE FALSE
      OBVIOUS
    <3>2. m * q = a - b
      BY <2>1, <3>1
    <3>3. CASE q >= 0
      BY <1>2, <3>2, <3>3, <2>1
    <3>4. CASE q <= -1
      <4>1. m * q = -m + m * (q + 1) /\ m * (q + 1) <= 0
        BY <2>1, <3>4
      <4> DEFINE x == m * q
                 y == m * (q + 1)
      <4>2. x = a - b /\ x = -m + y /\ y <= 0 /\ y \in Int
        BY <2>1, <3>2, <4>1
      <4> HIDE DEF x, y
      <4> QED
        BY <4>2
    <3> QED
      BY <2>1, <3>3, <3>4
  <2> QED
    BY <1>2, <2>1, <2>2 DEF r
<1> QED
  BY <1>1, <1>2

(* A transfer of one sector to a page of the loader.                        *)
LEMMA LoaderTransfer ==
  ASSUME TypeOK, es = BaseOfLoader, chs = ToChs(ax), bx = LoadPage * BytesPerSec,
         LoadPage \in 0..(Pages - 1),
         NEW n \in 0..1, n > 0 => ax + n <= TotSec, Transfer(n)
  PROVE  /\ buf' = buf
         /\ loader' = IF n = 1 THEN [loader EXCEPT ![LoadPage] = ax] ELSE loader
<1>1. ax \in Nat /\ Requested = ax
  BY ChsRoundTrip, Zenon DEF TypeOK, Word, Requested
<1>2. bx \div BytesPerSec = LoadPage
  <2>1. LoadPage \in Nat
    OBVIOUS
  <2> QED
    BY <2>1, PageAt, Zenon
<1>3. /\ buf' = buf
      /\ loader' = [p \in DOMAIN loader |->
           IF (p - LoadPage) % Pages < n THEN ax + ((p - LoadPage) % Pages) ELSE loader[p]]
  <2>1. es # Low
    BY DEF Low, BaseOfLoader
  <2> QED
    BY <1>1, <1>2, <2>1, Zenon DEF Transfer
<1>4. DOMAIN loader = 0..(Pages - 1) /\ Pages \in Nat \ {0}
  BY PageSize DEF TypeOK
<1>5. \A p \in 0..(Pages - 1) :
        /\ (p - LoadPage) % Pages \in Nat
        /\ (p - LoadPage) % Pages = 0 <=> p = LoadPage
  BY <1>4, PageDistance
<1>6. CASE n = 0
  <2>1. loader' = [p \in DOMAIN loader |-> loader[p]]
    BY <1>3, <1>4, <1>5, <1>6
  <2> QED
    BY <1>3, <1>6, <2>1 DEF TypeOK
<1>7. CASE n = 1
  <2>1. \A p \in DOMAIN loader :
          loader'[p] = IF p = LoadPage THEN ax ELSE loader[p]
    <3> TAKE p \in DOMAIN loader
    <3> DEFINE d == (p - LoadPage) % Pages
    <3>1. d \in Nat /\ (d = 0 <=> p = LoadPage)
      BY <1>4, <1>5, Zenon
    <3>2. loader'[p] = IF d < n THEN ax + d ELSE loader[p]
      BY <1>3, Zenon
    <3> HIDE DEF d
    <3> QED
      BY <1>1, <1>7, <3>1, <3>2
  <2>2. /\ loader' = [p \in DOMAIN loader |-> loader'[p]]
        /\ loader = [p \in DOMAIN loader |-> loader[p]]
    BY <1>3 DEF TypeOK
  <2>3. loader' = [loader EXCEPT ![LoadPage] = ax]
    BY <1>4, <2>1, <2>2
  <2> QED
    BY <1>3, <1>7, <2>3
<1> QED
  BY <1>6, <1>7

(* What every read has in common: the type of memory, and what it leaves.   *)
LEMMA ReadEffect ==
  ASSUME IInv, pc = "GoOnReading", NEW n \in 0..cl, n > 0 => Requested + n <= TotSec,
         Transfer(n)
  PROVE  /\ buf' \in [{0, 1} -> Sectors]
         /\ loader' \in [0..(Pages - 1) -> Sectors]
         /\ ret = "SectorRead" =>
              /\ loader' = loader
              /\ n = 1 => buf'[0] = sectorNumber
         /\ ret = "ClusterRead" =>
              /\ LoadPage \in 0..(Pages - 1) /\ ax \in Word
              /\ loader' = IF n = 1 THEN [loader EXCEPT ![LoadPage] = ax] ELSE loader
         /\ ret = "FATRead" =>
              /\ loader' = loader
              /\ n = 2 => buf'[0] = ax /\ buf'[1] = ax + 1
<1>1. /\ chs = ToChs(ax) /\ ax \in Word /\ ax \in Nat
      /\ ret \in {"SectorRead", "ClusterRead", "FATRead"} /\ cl \in 0..2
  BY DEF IInv, TypeOK, ReadsInv, Word
<1>2. Requested = ax
  BY <1>1, ChsRoundTrip, Zenon DEF Requested
<1>3. n \in Nat /\ n <= cl /\ (n > 0 => ax + n <= TotSec)
  BY <1>1, <1>2
<1>4. CASE ret = "SectorRead"
  <2>1. es = Low /\ bx = 0 /\ cl = 1 /\ ax = sectorNumber
    BY <1>4 DEF IInv, SectorsInv, Reading
  <2>2. n \in 0..2
    BY <1>3, <2>1
  <2>3. /\ loader' = loader /\ buf' \in [{0, 1} -> Sectors]
        /\ n >= 1 => buf'[0] = ax
    BY <1>1, <1>3, <2>1, <2>2, LowTransfer, Zenon DEF IInv
  <2> QED
    BY <1>4, <2>1, <2>3 DEF IInv, TypeOK
<1>5. CASE ret = "ClusterRead"
  <2>1. es = BaseOfLoader /\ cl = 1
    BY <1>5 DEF IInv, ReadsInv, InLoad, Reading
  <2>2. LoadPage \in 0..(Pages - 1) /\ bx = LoadPage * BytesPerSec
    BY <1>5, <2>1 DEF IInv, TypeOK, PagesInv, Loading, InLoad, Reading, LoadOffset, Low, BaseOfLoader
  <2>3. n \in 0..1
    BY <1>3, <2>1
  <2>4. /\ buf' = buf
        /\ loader' = IF n = 1 THEN [loader EXCEPT ![LoadPage] = ax] ELSE loader
    BY <1>1, <1>3, <2>1, <2>2, <2>3, LoaderTransfer, Zenon DEF IInv
  <2>5. ax \in Sectors
    BY <1>1 DEF Sectors
  <2> QED
    BY <1>1, <1>5, <2>2, <2>4, <2>5 DEF IInv, TypeOK
<1>6. CASE ret = "FATRead"
  <2>1. es = Low /\ bx = 0 /\ cl = 2
    BY <1>6 DEF IInv, ReadsInv, Reading
  <2>2. n \in 0..2
    BY <1>3, <2>1
  <2>3. /\ loader' = loader /\ buf' \in [{0, 1} -> Sectors]
        /\ n >= 1 => buf'[0] = ax
        /\ n = 2 => buf'[1] = ax + 1
    BY <1>1, <1>3, <2>1, <2>2, LowTransfer, Zenon DEF IInv
  <2> QED
    BY <1>6, <2>3 DEF IInv, TypeOK
<1> QED
  BY <1>1, <1>4, <1>5, <1>6

(* A read into the page the chain is at leaves the pages before it alone.   *)
LEMMA PagesRead ==
  ASSUME IInv, pc = "GoOnReading", ret = "ClusterRead",
         UNCHANGED <<disk, overrun, bx, es, stk, ret>>,
         LoadPage \in 0..(Pages - 1), ax = DataSector(stk[0]),
         \/ pc' = "GoOnReading"
            /\ (loader' = loader \/ loader' = [loader EXCEPT ![LoadPage] = ax])
         \/ pc' = "ClusterRead" /\ loader' = [loader EXCEPT ![LoadPage] = ax]
  PROVE  PagesInv'
<1>1. Loading /\ ~Arrived /\ ~InSearch' /\ (Arrived' => pc' = "ClusterRead")
      /\ (pc' = "ClusterRead" => Arrived')
  BY DEF Loading, InLoad, Reading, Arrived, InSearch, Searching
<1>2. LoadPage' = LoadPage /\ LoadOffset' = LoadOffset
  BY DEF LoadPage, LoadOffset
<1>3. /\ loader \in [0..(Pages - 1) -> Sectors] /\ DOMAIN loader' = DOMAIN loader
      /\ LoadOffset = LoadPage * BytesPerSec /\ (~overrun => ChainLoaded)
      /\ \A p \in 0..(LoadPage - 1) : p \in DOMAIN loader /\ loader'[p] = loader[p]
      /\ pc' = "ClusterRead" => loader'[LoadPage] = ax
  <2>1. /\ loader \in [0..(Pages - 1) -> Sectors]
        /\ LoadOffset = LoadPage * BytesPerSec /\ (~overrun => ChainLoaded)
    BY <1>1 DEF IInv, TypeOK, PagesInv
  <2>2. \A p \in 0..(LoadPage - 1) : p \in 0..(Pages - 1) /\ p # LoadPage
    BY PageSize
  <2> QED
    BY <2>1, <2>2
<1>4. \A p \in 0..LoadPage : Expected(p)' = Expected(p)
  <2> TAKE p \in 0..LoadPage
  <2>1. CASE p = 0
    BY <2>1 DEF Expected, IsFirstMatch
  <2>2. CASE p # 0
    <3>1. p - 1 \in 0..(LoadPage - 1)
      BY <2>2
    <3> QED
      BY <1>3, <2>2, <3>1 DEF Expected, NextSector
  <2> QED
    BY <2>1, <2>2
<1>5. ChainLoaded => ChainLoaded'
  <2>1. \A p \in 0..(LoadPage - 1) : p \in 0..LoadPage
    OBVIOUS
  <2>2. LoadPage \in 0..LoadPage
    OBVIOUS
  <2> QED
    BY <1>1, <1>2, <1>3, <1>4, <2>1, <2>2 DEF ChainLoaded
<1> QED
  BY <1>1, <1>2, <1>3, <1>5 DEF PagesInv

LEMMA ReadSucceedsStep == IInv /\ ReadSucceeds => IInv'
<1> SUFFICES ASSUME IInv, ReadSucceeds PROVE IInv'
  OBVIOUS
<1>a. /\ pc = "GoOnReading" /\ pc' = ret /\ Transfer(cl) /\ Requested + cl <= TotSec
      /\ UNCHANGED <<disk, ret, regs, cl, chs, stk, sp, sectorNumber, rootLoop, odd, overrun>>
      /\ ret \in {"SectorRead", "ClusterRead", "FATRead"} /\ cl \in 0..2
  BY DEF IInv, TypeOK, ReadsInv, ReadSucceeds, Deliverable
<1>b. cl \in 0..cl
  BY <1>a
<1> DEFINE n == cl
<1>c. /\ buf' \in [{0, 1} -> Sectors]
      /\ loader' \in [0..(Pages - 1) -> Sectors]
      /\ ret = "SectorRead" =>
           /\ loader' = loader
           /\ n = 1 => buf'[0] = sectorNumber
      /\ ret = "ClusterRead" =>
           /\ LoadPage \in 0..(Pages - 1) /\ ax \in Word
           /\ loader' = IF n = 1 THEN [loader EXCEPT ![LoadPage] = ax] ELSE loader
      /\ ret = "FATRead" =>
           /\ loader' = loader
           /\ n = 2 => buf'[0] = ax /\ buf'[1] = ax + 1
  BY <1>a, <1>b, ReadEffect, Zenon
<1>1. TypeOK'
  BY <1>a, <1>c DEF IInv, TypeOK, Labels, regs
<1>2. SectorsInv'
  BY <1>a, <1>c DEF IInv, SectorsInv, InSector, Reading, Cleared, Base, regs
<1>3. EntriesInv'
  BY <1>a DEF IInv, EntriesInv
<1>4. ReadsInv'
  <2>1. LoadPage' = LoadPage
    BY <1>a DEF LoadPage, LoadOffset, regs
  <2>2. CASE ret = "SectorRead"
    BY <1>a, <2>2 DEF IInv, ReadsInv, InSector, InLoad, Reading, regs
  <2>3. CASE ret = "ClusterRead"
    <3>1. pc' = "ClusterRead" => loader'[LoadPage] = ax
      BY <1>a, <1>c, <2>3 DEF IInv, TypeOK, ReadsInv, InLoad, Reading
    <3> QED
      BY <1>a, <2>1, <2>3, <3>1 DEF IInv, ReadsInv, InSector, InLoad, Reading, regs
  <2>4. CASE ret = "FATRead"
    BY <1>a, <1>c, <2>1, <2>4 DEF IInv, ReadsInv, InSector, InLoad, Reading, regs
  <2> QED
    BY <1>a, <2>2, <2>3, <2>4
<1>5. PagesInv'
  <2>1. CASE ret = "ClusterRead"
    <3>1. ax = DataSector(stk[0]) /\ cl = 1
      BY <1>a, <2>1 DEF IInv, ReadsInv, InLoad, Reading
    <3> QED
      BY <1>a, <1>c, <2>1, <3>1, PagesRead DEF regs
  <2>2. CASE ret # "ClusterRead"
    <3>1. UNCHANGED <<disk, loader, overrun>> /\ LoadOffset' = LoadOffset
      BY <1>a, <1>c, <2>2 DEF LoadOffset, regs
    <3>2. /\ InSearch' => InSearch
          /\ Loading' => Loading /\ Arrived /\ Arrived'
      BY <1>a, <2>2 DEF InSearch, Searching, Loading, InLoad, Arrived, Reading
    <3> QED
      BY <3>1, <3>2, PagesKept DEF IInv
  <2> QED
    BY <2>1, <2>2
<1> QED
  BY <1>1, <1>2, <1>3, <1>4, <1>5 DEF IInv

LEMMA ReadFailsStep == IInv /\ ReadFails => IInv'
<1> SUFFICES ASSUME IInv, ReadFails PROVE IInv'
  OBVIOUS
<1>a. /\ pc = "GoOnReading" /\ pc' = "GoOnReading"
      /\ UNCHANGED <<disk, ret, regs, cl, chs, stk, sp, sectorNumber, rootLoop, odd, overrun>>
      /\ ret \in {"SectorRead", "ClusterRead", "FATRead"} /\ cl \in 0..2
  BY DEF IInv, TypeOK, ReadsInv, ReadFails, OnCarry
<1>b. PICK n \in 0..cl : (n > 0 => Requested + n <= TotSec) /\ Transfer(n)
  BY Zenon DEF ReadFails
<1>c. /\ buf' \in [{0, 1} -> Sectors]
      /\ loader' \in [0..(Pages - 1) -> Sectors]
      /\ ret = "SectorRead" =>
           /\ loader' = loader
           /\ n = 1 => buf'[0] = sectorNumber
      /\ ret = "ClusterRead" =>
           /\ LoadPage \in 0..(Pages - 1) /\ ax \in Word
           /\ loader' = IF n = 1 THEN [loader EXCEPT ![LoadPage] = ax] ELSE loader
      /\ ret = "FATRead" =>
           /\ loader' = loader
           /\ n = 2 => buf'[0] = ax /\ buf'[1] = ax + 1
  BY <1>a, <1>b, ReadEffect, Zenon
<1>1. TypeOK'
  BY <1>a, <1>c DEF IInv, TypeOK, Labels, regs
<1>2. SectorsInv'
  BY <1>a, <1>c DEF IInv, SectorsInv, InSector, Reading, Cleared, Base, regs
<1>3. EntriesInv'
  BY <1>a DEF IInv, EntriesInv
<1>4. ReadsInv'
  <2>1. LoadPage' = LoadPage
    BY <1>a DEF LoadPage, LoadOffset, regs
  <2>2. CASE ret = "SectorRead"
    BY <1>a, <2>2 DEF IInv, ReadsInv, InSector, InLoad, Reading, regs
  <2>3. CASE ret = "ClusterRead"
    <3>1. pc' = "ClusterRead" => loader'[LoadPage] = ax
      BY <1>a, <1>c, <2>3 DEF IInv, TypeOK, ReadsInv, InLoad, Reading
    <3> QED
      BY <1>a, <2>1, <2>3, <3>1 DEF IInv, ReadsInv, InSector, InLoad, Reading, regs
  <2>4. CASE ret = "FATRead"
    BY <1>a, <1>c, <2>1, <2>4 DEF IInv, ReadsInv, InSector, InLoad, Reading, regs
  <2> QED
    BY <1>a, <2>2, <2>3, <2>4
<1>5. PagesInv'
  <2>1. CASE ret = "ClusterRead"
    <3>1. ax = DataSector(stk[0]) /\ cl = 1
      BY <1>a, <2>1 DEF IInv, ReadsInv, InLoad, Reading
    <3> QED
      BY <1>a, <1>c, <2>1, <3>1, PagesRead DEF regs
  <2>2. CASE ret # "ClusterRead"
    <3>1. UNCHANGED <<disk, loader, overrun>> /\ LoadOffset' = LoadOffset
      BY <1>a, <1>c, <2>2 DEF LoadOffset, regs
    <3>2. /\ InSearch' => InSearch
          /\ Loading' => Loading /\ Arrived /\ Arrived'
      BY <1>a, <2>2 DEF InSearch, Searching, Loading, InLoad, Arrived, Reading
    <3> QED
      BY <3>1, <3>2, PagesKept DEF IInv
  <2> QED
    BY <2>1, <2>2
<1> QED
  BY <1>1, <1>2, <1>3, <1>4, <1>5 DEF IInv

-----------------------------------------------------------------------------
(* The theorems.                                                            *)

(* A freshly reset machine satisfies the invariant.                         *)
LEMMA InitInv == Init => IInv
<1> SUFFICES ASSUME Init PROVE IInv
  OBVIOUS
<1>1. /\ 0 \in Word /\ RootSectors \in Word /\ NoSector \in Sectors
      /\ 1 \in 1..SecPerTrk
  BY Numbers, GeometryAssumption DEF Word, WordSize, Sectors
<1>2. chs \in [cyl : 0..127, head : {0, 1}, sec : 1..SecPerTrk]
  BY <1>1 DEF Init
<1>3. TypeOK
  <2>1. /\ stk \in [0..2 -> Word] /\ buf \in [{0, 1} -> Sectors]
        /\ loader \in [0..(Pages - 1) -> Sectors]
    BY <1>1 DEF Init
  <2>2. /\ disk \in Disks /\ pc \in Labels /\ ret = "Reset" /\ es = Low /\ cl = 0 /\ sp = 0
        /\ odd \in BOOLEAN /\ overrun \in BOOLEAN
        /\ ax = 0 /\ bx = 0 /\ cx = 0 /\ dx = 0 /\ si = 0 /\ di = 0
        /\ sectorNumber = 0 /\ rootLoop = RootSectors
    BY DEF Init, Labels, RootLoopInit
  <2> QED
    BY <1>1, <1>2, <2>1, <2>2 DEF TypeOK
<1>4. SectorsInv
  BY DEF Init, SectorsInv, InSector, Reading, RootLoopInit
<1>5. EntriesInv
  BY DEF Init, EntriesInv
<1>6. ReadsInv
  BY DEF Init, ReadsInv, InSector, InLoad, Reading
<1>7. PagesInv
  BY DEF Init, PagesInv, Loading, InLoad, Reading
<1> QED
  BY <1>3, <1>4, <1>5, <1>6, <1>7 DEF IInv

(* The invariant survives a step that changes nothing.                      *)
LEMMA StutterStep == IInv /\ UNCHANGED vars => IInv'
<1> SUFFICES ASSUME IInv, UNCHANGED vars PROVE IInv'
  OBVIOUS
<1>1. TypeOK'
  BY DEF IInv, TypeOK, vars
<1>2. SectorsInv'
  BY DEF IInv, SectorsInv, InSector, Reading, Cleared, Base, vars
<1>3. EntriesInv'
  BY DEF IInv, EntriesInv, Cleared, Base, Current, SameUpTo, vars
<1>4. ReadsInv'
  BY DEF IInv, ReadsInv, InSector, InLoad, Reading, TheEntry, LoadPage, LoadOffset, vars
<1>5. PagesInv'
  BY PagesKept DEF IInv, InSearch, Searching, Loading, InLoad, Arrived, Reading, LoadOffset, vars
<1> QED
  BY <1>1, <1>2, <1>3, <1>4, <1>5 DEF IInv

(* IInv is inductive: it holds in every state the boot sector can reach,    *)
(* on every diskette.                                                       *)
THEOREM Invariance == Spec => []IInv
<1>1. IInv /\ [Next]_vars => IInv'
  <2> SUFFICES ASSUME IInv, [Next]_vars PROVE IInv'
    OBVIOUS
  <2>1. CASE Reset
    BY <2>1, ResetStep
  <2>2. CASE SearchInRootDirectoryBegin
    BY <2>2, SearchInRootDirectoryBeginStep
  <2>3. CASE RootDirectoryExhausted
    BY <2>3, RootDirectoryExhaustedStep
  <2>4. CASE SectorRead
    BY <2>4, SectorReadStep
  <2>5. CASE SearchForLoaderBin
    BY <2>5, SearchForLoaderBinStep
  <2>6. CASE CompareFileName
    BY <2>6, CompareFileNameStep
  <2>7. CASE Different
    BY <2>7, DifferentStep
  <2>8. CASE GoToNextSector
    BY <2>8, GoToNextSectorStep
  <2>9. CASE NoLoaderBin
    BY <2>9, NoLoaderBinStep
  <2>10. CASE FileNameFound
    BY <2>10, FileNameFoundStep
  <2>11. CASE GoOnLoadingFile
    BY <2>11, GoOnLoadingFileStep
  <2>12. CASE ClusterRead
    BY <2>12, ClusterReadStep
  <2>13. CASE FATRead
    BY <2>13, FATReadStep
  <2>14. CASE GotFATEntry
    BY <2>14, GotFATEntryStep
  <2>15. CASE ReadOneSector
    BY <2>15, ReadOneSectorStep
  <2>16. CASE ReadSucceeds
    BY <2>16, ReadSucceedsStep
  <2>17. CASE ReadFails
    BY <2>17, ReadFailsStep
  <2>18. CASE Spin \/ UNCHANGED vars
    BY <2>18, StutterStep DEF Spin
  <2> QED
    BY <2>1, <2>2, <2>3, <2>4, <2>5, <2>6, <2>7, <2>8, <2>9, <2>10, <2>11, <2>12, <2>13, <2>14, <2>15, <2>16, <2>17, <2>18 DEF Next, Program
<1> QED
  BY InitInv, <1>1, PTL DEF Spec

(* Registers and memory keep their widths (boot.asm 39-347).                *)
THEOREM TypeCorrect == Spec => []TypeOK
<1>1. IInv => TypeOK
  BY DEF IInv
<1> QED
  BY Invariance, <1>1, PTL

(* Every entry has been searched when the sectors have run out.             *)
LEMMA AllSearched == \A e \in RootDir : e < RootSectors * EntriesPerSec
<1> DEFINE t == RootSectors * EntriesPerSec
<1>1. t \in Nat
  BY Numbers
<1>2. RootDir = 0..(t - 1)
  BY Zenon DEF RootDir
<1> HIDE DEF t
<1>3. \A e \in RootDir : e < t
  BY <1>1, <1>2
<1> QED
  BY <1>3, Zenon DEF t

(* On every diskette, "No Loader Found" (boot.asm 158-178) is said only     *)
(* when no root directory entry has the loader's name: the search over      *)
(* sectors, entries and bytes (95-155) skips nothing.                       *)
THEOREM NeverHaltsInVain == Spec => []HaltsOnlyIfAbsent
<1>1. IInv => HaltsOnlyIfAbsent
  BY AllSearched, Zenon DEF IInv, EntriesInv, HaltsOnlyIfAbsent, Cleared
<1> QED
  BY Invariance, <1>1, PTL

(* On every diskette and for every cluster, GetFATEntry (boot.asm 288-347)  *)
(* returns the entry of the cluster loaded last, whether its twelve bits    *)
(* start on a byte or in one, and when two sectors share them.              *)
THEOREM EntriesAreRead == Spec => []EntryOfLoadedCluster
<1>1. IInv => EntryOfLoadedCluster
  BY DEF IInv, ReadsInv, EntryOfLoadedCluster, TheEntry
<1> QED
  BY Invariance, <1>1, PTL

(* Whatever the geometry, the directory and the table: when control reaches *)
(* the loader and its file fits the segment, the segment holds the whole    *)
(* chain of the first entry with its name, in order (boot.asm 183-240).     *)
THEOREM LoaderIsWhole == Spec => []RunsTheWholeFile
<1>1. IInv => RunsTheWholeFile
  <2> SUFFICES ASSUME IInv, pc = "FileLoaded", ~overrun
               PROVE  /\ \E e \in RootDir : IsFirstMatch(e) /\ loader[0] = DataSector(disk.dir[e].first)
                      /\ \A p \in 1..LoadPage : loader[p] = NextSector(disk, loader[p - 1])
                      /\ FatEntry(disk.fat, ClusterOf(loader[LoadPage])) = 4095
    BY DEF RunsTheWholeFile
  <2>1. LoadPage \in 0..(Pages - 1) /\ ChainLoaded
    BY DEF IInv, TypeOK, PagesInv, Loading
  <2>2. \A p \in 0..LoadPage : loader[p] \in Expected(p)
    <3>1. Arrived
      BY DEF Arrived, Reading
    <3>2. \A p \in 0..LoadPage : p \in 0..(LoadPage - 1) \/ p = LoadPage
      BY <2>1
    <3> QED
      BY <2>1, <3>1, <3>2, Zenon DEF ChainLoaded
  <2>3. \E e \in RootDir : IsFirstMatch(e) /\ loader[0] = DataSector(disk.dir[e].first)
    <3>1. loader[0] \in Expected(0)
      BY <2>1, <2>2
    <3> QED
      BY <3>1 DEF Expected
  <2>4. \A p \in 1..LoadPage : loader[p] = NextSector(disk, loader[p - 1])
    <3>1. \A p \in 1..LoadPage : p \in 0..LoadPage /\ p # 0
      BY <2>1
    <3> QED
      BY <2>2, <3>1 DEF Expected
  <2> QED
    BY <2>3, <2>4 DEF IInv, ReadsInv, TheEntry
<1> QED
  BY Invariance, <1>1, PTL

-----------------------------------------------------------------------------
(***************************************************************************)
(* On every diskette the boot sector does what LoaderContract promises, and *)
(* none of its divisions overflows when the directory is a FAT12 one.       *)
(***************************************************************************)
(* Divisions.                                                               *)

(* A quotient fits al when the dividend is less than 256 tracks.            *)
LEMMA Reach ==
  ASSUME NEW n \in Nat, n < 256 * SecPerTrk PROVE ~DivFaults(n)
<1> DEFINE q == n \div SecPerTrk
           r == n % SecPerTrk
<1>1. SecPerTrk \in Nat \ {0}
  BY GeometryAssumption
<1>2. q \in Nat /\ r \in Nat /\ n = SecPerTrk * q + r
  BY <1>1, DivMod
<1>3. CASE q > 255
  <2> DEFINE e == q - 256
  <2>1. e \in Nat /\ q = 256 + e
    BY <1>2, <1>3
  <2> HIDE DEF e
  <2>2. SecPerTrk * (256 + e) = 256 * SecPerTrk + SecPerTrk * e /\ SecPerTrk * e \in Nat
    BY <1>1, <2>1
  <2> HIDE DEF q, r
  <2>3. SecPerTrk * q = 256 * SecPerTrk + SecPerTrk * e
    BY <2>1, <2>2, Zenon
  <2> QED
    BY <1>1, <1>2, <2>2, <2>3
<1>4. CASE ~(q > 255)
  BY <1>4 DEF DivFaults
<1> QED
  BY <1>3, <1>4

(* What a 12-bit entry names is within reach, and so is its own entry.      *)
LEMMA EntryInReach ==
  ASSUME NEW c \in Entry
  PROVE  ~DivFaults(DataSector(c)) /\ ~FatFaults(c) /\ ~DivFaults(FatSector(c) + FatStart)
<1>1. {DataSector(c), FatSector(c) + FatStart} \subseteq 0..(256 * SecPerTrk - 1)
  BY ReachAssumption
<1>2. SecPerTrk \in Nat
  BY GeometryAssumption
<1>3. ~DivFaults(DataSector(c)) /\ ~DivFaults(FatSector(c) + FatStart)
  BY <1>1, <1>2, Reach
<1>4. ~FatFaults(c)
  BY DEF Entry, FatFaults, FatOffset, WordSize
<1> QED
  BY <1>3, <1>4

(* The search for the loader does not fault.                                *)
LEMMA DirectoryInReach ==
  ASSUME IInv, Reading("SectorRead") PROVE ~DivFaults(ax)
<1>1. ax \in Nat /\ ax < RootStart + RootSectors
  BY Numbers DEF IInv, SectorsInv, InSector, Word
<1>2. ax < 256 * SecPerTrk
  BY <1>1, ReachAssumption, GeometryAssumption, Numbers DEF Word
<1> QED
  BY <1>1, <1>2, Reach

(* What GetFATEntry has found in the table is an entry of it.               *)
LEMMA EntryRead ==
  ASSUME IInv, pc = "GotFATEntry" PROVE ax = TheEntry /\ ax \in Entry
<1>1. LoadPage \in DOMAIN loader /\ ax = TheEntry /\ disk \in Disks
  BY DEF IInv, TypeOK, PagesInv, Loading, ReadsInv
<1>2. ClusterOf(loader[LoadPage]) \in Nat
  BY <1>1, ClusterIsWord DEF Word
<1>3. FatEntry(disk.fat, ClusterOf(loader[LoadPage])) \in Entry
  BY <1>1, <1>2, DiskFacts
<1> QED
  BY <1>1, <1>3 DEF TheEntry

(* The steps that neither read a cluster nor follow the chain.              *)
LEMMA FitsElsewhere ==
  ASSUME IInv, FitsInv,
         \/ Reset \/ SearchInRootDirectoryBegin \/ RootDirectoryExhausted
         \/ SectorRead \/ SearchForLoaderBin \/ CompareFileName \/ Different
         \/ GoToNextSector \/ NoLoaderBin \/ GoOnLoadingFile \/ FATRead
         \/ Spin \/ UNCHANGED vars
  PROVE  FitsInv'
<1>1. disk' = disk
  BY DEF Reset, SearchInRootDirectoryBegin, RootDirectoryExhausted, SectorRead, SearchForLoaderBin,
         CompareFileName, Different, GoToNextSector, NoLoaderBin, GoOnLoadingFile, FATRead, Spin,
         vars
<1>2. /\ pc' = "DivideError" => pc = "DivideError"
      /\ InLoad' => InLoad /\ stk' = stk
      /\ Reading("FATRead")' => Reading("FATRead") /\ ax' = ax
  <2>1. CASE \/ Reset \/ SearchInRootDirectoryBegin \/ RootDirectoryExhausted
             \/ SectorRead \/ SearchForLoaderBin \/ CompareFileName \/ Different
             \/ GoToNextSector \/ NoLoaderBin \/ FATRead
    BY <2>1 DEF InLoad, Reading, CallReadOneSector, Reset, SearchInRootDirectoryBegin,
         RootDirectoryExhausted, SectorRead, SearchForLoaderBin,
         CompareFileName, Different, GoToNextSector, NoLoaderBin, FATRead
  <2>2. CASE GoOnLoadingFile \/ Spin \/ UNCHANGED vars
    BY <2>2 DEF InLoad, Reading, CallReadOneSector, GoOnLoadingFile, Spin, vars
  <2> QED
    BY <2>1, <2>2
<1> QED
  BY <1>1, <1>2 DEF FitsInv

LEMMA FitsKept == ASSUME IInv, FitsInv, [Next]_vars PROVE FitsInv'
<1> DEFINE Fat12 == \A e \in RootDir : disk.dir[e].first \in Entry
<1>1. CASE FileNameFound
  <2>1. disk' = disk /\ pc' = "GoOnLoadingFile"
    BY <1>1 DEF FileNameFound, mem
  <2>2. Fat12 => stk'[0] \in Entry
    BY <1>1, FoundEntry DEF IInv, TypeOK
  <2> QED
    BY <2>1, <2>2 DEF FitsInv, Reading
<1>2. CASE ClusterRead
  <2>1. /\ disk' = disk /\ sp = 1 /\ InLoad
        /\ IF FatFaults(stk[0]) THEN pc' = "DivideError"
           ELSE pc' = "ReadOneSector" /\ ret' = "FATRead" /\ ax' = FatSector(stk[0]) + FatStart
    BY <1>2 DEF ClusterRead, CallReadOneSector, IInv, ReadsInv, InLoad
  <2>2. Fat12 => ~FatFaults(stk[0]) /\ ~DivFaults(FatSector(stk[0]) + FatStart)
    BY <2>1, EntryInReach DEF FitsInv
  <2> QED
    BY <2>1, <2>2 DEF FitsInv, InLoad, Reading
<1>3. CASE GotFATEntry
  <2>1. /\ disk' = disk /\ pc' \in {"FileLoaded", "GoOnLoadingFile"}
        /\ pc' = "GoOnLoadingFile" => stk'[0] = ax
    BY <1>3 DEF GotFATEntry, IInv, TypeOK, ReadsInv
  <2>2. ax \in Entry
    BY <1>3, EntryRead DEF GotFATEntry
  <2> QED
    BY <2>1, <2>2 DEF FitsInv, InLoad, Reading
<1>4. CASE ReadOneSector
  <2>1. /\ pc = "ReadOneSector" /\ UNCHANGED <<disk, ret, stk, ax>>
        /\ IF DivFaults(ax) THEN pc' = "DivideError" ELSE pc' = "GoOnReading"
    BY <1>4 DEF ReadOneSector, regs
  <2>2. ret \in {"SectorRead", "ClusterRead", "FATRead"}
    BY <2>1 DEF IInv, ReadsInv
  <2>3. Fat12 => ~DivFaults(ax)
    <3>1. CASE ret = "SectorRead"
      BY <2>1, <3>1, DirectoryInReach DEF Reading
    <3>2. CASE ret = "ClusterRead"
      BY <2>1, <3>2, EntryInReach DEF FitsInv, IInv, ReadsInv, InLoad, Reading
    <3>3. CASE ret = "FATRead"
      BY <2>1, <3>3 DEF FitsInv, Reading
    <3> QED
      BY <2>2, <3>1, <3>2, <3>3
  <2> QED
    BY <2>1, <2>3 DEF FitsInv, InLoad, Reading
<1>5. CASE ReadSucceeds \/ ReadFails
  <2>1. /\ pc = "GoOnReading" /\ pc' \in {ret, "GoOnReading"} /\ UNCHANGED <<disk, ret, stk, ax>>
    BY <1>5 DEF ReadSucceeds, ReadFails, OnCarry, regs
  <2>2. ret \in {"SectorRead", "ClusterRead", "FATRead"}
    BY <2>1 DEF IInv, ReadsInv
  <2> QED
    BY <2>1, <2>2 DEF FitsInv, InLoad, Reading
<1> QED
  BY <1>1, <1>2, <1>3, <1>4, <1>5, FitsElsewhere DEF Next, Program

(* For every diskette whose directory has 12-bit first clusters, and        *)
(* whatever its table says, no division of boot.asm overflows (259,         *)
(* 305-307).                                                                *)
THEOREM NeverDividesInVain == Spec => []NoDivideError
<1>1. Init => FitsInv
  BY DEF Init, FitsInv, InLoad, Reading
<1>2. FitsInv => NoDivideError
  BY DEF FitsInv, NoDivideError
<1>3. IInv /\ FitsInv /\ [Next]_vars => FitsInv'
  BY FitsKept
<1> QED
  BY <1>1, <1>2, <1>3, Invariance, PTL DEF Spec

-----------------------------------------------------------------------------
(* The contract.  How many pages of the chain it sees.                      *)
PagesSeen == LoadPage + (IF PageDelivered THEN 1 ELSE 0)

LEMMA PagesSeenRange ==
  ASSUME IInv, Loading
  PROVE  LoadPage \in 0..(Pages - 1) /\ PagesSeen \in Nat
<1>1. LoadPage \in 0..(Pages - 1)
  BY DEF IInv, TypeOK, PagesInv
<1>2. LoadPage \in Nat
  BY <1>1
<1> QED
  BY <1>1, <1>2 DEF PagesSeen

(* phase and image case by case, before and after a step.                   *)
Ended == pc \in {"DivideError", "FileLoaded", "NoLoaderBin", "Halted"}

PhaseTable ==
  /\ overrun => phase = "stuck"
  /\ pc = "DivideError" => phase = "stuck"
  /\ ~overrun /\ pc = "FileLoaded" => phase = "run"
  /\ ~overrun /\ pc \in {"NoLoaderBin", "Halted"} => phase = "none"
  /\ ~overrun /\ InSearch => phase = "search"
  /\ ~overrun /\ ~InSearch /\ ~Ended => phase = "load"

ImageTable ==
  /\ phase \in {"search", "none", "stuck"} => image = <<>>
  /\ phase \in {"load", "run"} => image = [i \in 1..PagesSeen |-> loader[i - 1]]

LEMMA PhaseFacts == PhaseTable
<1>1. /\ pc = "DivideError" => pc # "FileLoaded" /\ pc \notin {"NoLoaderBin", "Halted"} /\ ~InSearch
      /\ pc = "FileLoaded" => pc \notin {"NoLoaderBin", "Halted"} /\ ~InSearch
      /\ pc \in {"NoLoaderBin", "Halted"} => ~InSearch
  BY DEF InSearch, Searching
<1>2. overrun => phase = "stuck"
  BY DEF phase
<1>3. pc = "DivideError" => phase = "stuck"
  BY <1>1 DEF phase
<1>4. ~overrun /\ pc = "FileLoaded" => phase = "run"
  BY <1>1 DEF phase
<1>5. ~overrun /\ pc \in {"NoLoaderBin", "Halted"} => phase = "none"
  BY <1>1 DEF phase
<1>6. ~overrun /\ InSearch => phase = "search"
  BY <1>1 DEF phase
<1>7. ~overrun /\ ~InSearch /\ ~Ended => phase = "load"
  BY DEF phase, Ended
<1> QED
  BY <1>2, <1>3, <1>4, <1>5, <1>6, <1>7 DEF PhaseTable

LEMMA ImageFacts == ImageTable
BY DEF ImageTable, image, PagesSeen

LEMMA Phases == PhaseTable /\ PhaseTable' /\ ImageTable /\ ImageTable'
BY PhaseFacts, ImageFacts, PTL

(* The sequences the image goes through.                                    *)
LEMMA EmptyImage == ASSUME NEW f PROVE [i \in 1..0 |-> f[i - 1]] = <<>>
  OBVIOUS

LEMMA LongerImage ==
  ASSUME NEW f, NEW g, NEW n \in Nat, \A p \in 0..(n - 1) : g[p] = f[p]
  PROVE  [i \in 1..(n + 1) |-> g[i - 1]] = Append([i \in 1..n |-> f[i - 1]], g[n])
<1> DEFINE s == [i \in 1..n |-> f[i - 1]]
           t == [i \in 1..(n + 1) |-> g[i - 1]]
<1>1. \A i \in 1..n : i - 1 \in 0..(n - 1)
  OBVIOUS
<1>2. \A i \in 1..n : t[i] = s[i]
  BY <1>1
<1>3. t[n + 1] = g[n]
  OBVIOUS
<1> QED
  BY <1>2, <1>3

(* Steps the contract does not see: in the search, ...                      *)
LEMMA SearchUnseen ==
  ASSUME disk' = disk, ~overrun, ~overrun', InSearch, InSearch'
  PROVE  UNCHANGED Contract!avars
BY Phases DEF PhaseTable, ImageTable, Contract!avars

(* ... after the end of the segment, ...                                    *)
LEMMA StuckUnseen ==
  ASSUME disk' = disk, overrun, overrun'
  PROVE  UNCHANGED Contract!avars
BY Phases DEF PhaseTable, ImageTable, Contract!avars

(* ... and while a cluster or its entry is being read.                      *)
LEMMA LoadUnseen ==
  ASSUME disk' = disk, ~overrun, ~overrun', ~InSearch, ~InSearch',
         ~Ended,
         ~Ended',
         PagesSeen \in Nat, PagesSeen' = PagesSeen,
         \A p \in 0..(PagesSeen - 1) : loader'[p] = loader[p]
  PROVE  UNCHANGED Contract!avars
<1>1. phase = "load" /\ phase' = "load"
  BY Phases DEF PhaseTable
<1>2. \A i \in 1..PagesSeen : i - 1 \in 0..(PagesSeen - 1)
  OBVIOUS
<1>3. image' = image
  BY <1>1, <1>2, Phases DEF ImageTable
<1> QED
  BY <1>1, <1>3 DEF Contract!avars

LEMMA EntriesAreNat == RootDir \subseteq Nat
<1>1. RootSectors * EntriesPerSec \in Nat
  BY Numbers
<1> QED
  BY <1>1 DEF RootDir

(* Giving up, finding the file, a division too large.                       *)
LEMMA Faults ==
  ASSUME disk' = disk, ~overrun, ~InSearch, overrun' \/ pc' = "DivideError",
         ~Ended
  PROVE  Contract!Fault
BY Phases DEF PhaseTable, ImageTable, Contract!Fault

LEMMA GivesUp ==
  ASSUME IInv, IInv', ~overrun, RootDirectoryExhausted
  PROVE  Contract!GiveUp
<1>1. disk' = disk /\ ~overrun' /\ pc = "SearchInRootDirectoryBegin" /\ pc' = "NoLoaderBin"
  BY DEF RootDirectoryExhausted, mem
<1>2. Cleared(RootSectors * EntriesPerSec)'
  BY <1>1 DEF IInv, EntriesInv
<1>3. \A e \in RootDir : ~Matches(disk, e)
  BY <1>1, <1>2, AllSearched, Zenon DEF Cleared
<1>4. phase = "search" /\ phase' = "none"
  BY <1>1, Phases DEF PhaseTable, InSearch, Searching
<1> QED
  BY <1>1, <1>3, <1>4, Phases DEF ImageTable, Contract!GiveUp

LEMMA Finds ==
  ASSUME IInv, ~overrun, FileNameFound PROVE Contract!Find
<1> DEFINE e == Base + Current
<1>1. /\ disk' = disk /\ ~overrun' /\ pc = "FileNameFound" /\ pc' = "GoOnLoadingFile"
      /\ bx' = 0 /\ es' = BaseOfLoader
  BY DEF FileNameFound, mem
<1>2. e \in RootDir /\ Matches(disk, e) /\ \A f \in RootDir : f < e => ~Matches(disk, f)
  BY FoundEntry DEF Cleared
<1>3. phase = "search" /\ phase' = "load"
  BY <1>1, Phases DEF PhaseTable, Ended, InSearch, Searching
<1>4. LoadPage' = 0
  BY <1>1, PageAt, Numbers DEF LoadPage, LoadOffset, BaseOfLoader, Low
<1>5. PagesSeen' = 0
  BY <1>1, <1>4 DEF PagesSeen, PageDelivered
<1>6. image' = <<>> /\ image = <<>>
  BY <1>3, <1>5, EmptyImage, Phases DEF ImageTable
<1> QED
  BY <1>1, <1>2, <1>3, <1>6 DEF Contract!Find, Contract!IsFirstMatch

(* A cluster has arrived: its sector is the first, or the one that the      *)
(* entry of the last sector names.                                          *)
LEMMA Loads ==
  ASSUME IInv, NoMarkFollowed, ~overrun, ReadSucceeds, ret = "ClusterRead"
  PROVE  Contract!LoadFirst \/ Contract!LoadNext
<1> DEFINE n == LoadPage
<1>1. /\ pc = "GoOnReading" /\ pc' = "ClusterRead" /\ UNCHANGED <<disk, ret, bx, es, stk, overrun>>
      /\ cl = 1 /\ Requested + cl <= TotSec /\ Transfer(cl)
      /\ InLoad /\ Loading /\ ~Arrived /\ ax = DataSector(stk[0])
  BY DEF ReadSucceeds, regs, Deliverable, IInv, ReadsInv, InLoad, Loading, Arrived, Reading
<1>2. n \in 0..(Pages - 1) /\ n \in Nat /\ n \in DOMAIN loader
  BY <1>1, PagesSeenRange DEF IInv, TypeOK
<1>3. loader' = [loader EXCEPT ![n] = ax]
  BY <1>1, ReadEffect
<1>4. ChainLoaded /\ DataSector(stk[0]) \in Expected(n)
  BY <1>1 DEF IInv, PagesInv, ChainLoaded
<1>5. n' = n /\ PagesSeen = n /\ PagesSeen' = n + 1
  BY <1>1, <1>2 DEF LoadPage, LoadOffset, PagesSeen, PageDelivered
<1>6. /\ phase = "load" /\ phase' = "load"
      /\ image = [i \in 1..n |-> loader[i - 1]] /\ image' = [i \in 1..(n + 1) |-> loader'[i - 1]]
  BY <1>1, <1>5, Phases DEF PhaseTable, ImageTable, Ended, InSearch, Searching
<1>7. image' = Append(image, ax)
  <2>1. \A p \in 0..(n - 1) : loader'[p] = loader[p]
    BY <1>2, <1>3 DEF IInv, TypeOK
  <2>2. loader'[n] = ax
    BY <1>2, <1>3
  <2> QED
    BY <1>2, <1>6, <2>1, <2>2, LongerImage
<1>8. CASE n = 0
  <2>1. image = <<>> /\ image' = <<ax>>
    BY <1>6, <1>7, <1>8, EmptyImage
  <2>2. PICK e \in RootDir : IsFirstMatch(e) /\ ax = DataSector(disk.dir[e].first)
    BY <1>1, <1>4, <1>8 DEF Expected
  <2>3. Contract!IsFirstMatch(e)
    BY <2>2, EntriesAreNat DEF IsFirstMatch, Contract!IsFirstMatch
  <2> QED
    BY <1>1, <1>6, <2>1, <2>2, <2>3 DEF Contract!LoadFirst
<1>9. CASE n > 0
  <2> DEFINE last == loader[n - 1]
             entry == FatEntry(disk.fat, ClusterOf(last))
  <2>1. n - 1 \in 0..(n - 1) /\ n - 1 \in DOMAIN loader /\ (n - 1) + 1 = n
    BY <1>2, <1>9, PageSize DEF IInv, TypeOK
  <2>2. Contract!Last = last /\ image # <<>>
    <3>1. Len(image) = n
      BY <1>2, <1>6
    <3>2. image[n] = last
      BY <1>2, <1>6, <1>9
    <3> QED
      BY <1>9, <3>1, <3>2 DEF Contract!Last
  <2>3. ax = DataSector(entry)
    BY <1>1, <1>4, <1>9 DEF Expected, NextSector
  <2>4. entry \in Word
    <3>1. ClusterOf(last) \in Nat
      BY <2>1, ClusterIsWord DEF Word
    <3> QED
      BY <3>1, DiskFacts, EntryIsWord DEF IInv, TypeOK
  <2>5. entry = stk[0]
    <3>1. stk[0] \in Word
      BY DEF IInv, TypeOK
    <3>2. ClusterOf(ax) = stk[0]
      BY <1>1, <3>1, SectorOfCluster
    <3>3. ClusterOf(ax) = entry
      BY <2>3, <2>4, SectorOfCluster
    <3> QED
      BY <3>2, <3>3
  <2>6. entry # 4095
    BY <1>1, <1>9, <2>5 DEF NoMarkFollowed
  <2> QED
    <3> HIDE DEF last, entry
    <3>1. entry = FatEntry(disk.fat, ClusterOf(Contract!Last))
      BY <2>2 DEF entry
    <3>2. image' = Append(image, DataSector(FatEntry(disk.fat, ClusterOf(Contract!Last))))
      BY <1>7, <2>3, <3>1
    <3> QED
      BY <1>1, <1>6, <2>2, <2>6, <3>1, <3>2 DEF Contract!LoadNext
<1> QED
  BY <1>2, <1>8, <1>9

(* The entry of the last cluster has been read: the end mark, or another    *)
(* cluster to come, or more of them than the segment holds.                 *)
LEMMA GoesOn ==
  ASSUME IInv, ~overrun, GotFATEntry
  PROVE  Contract!Run \/ Contract!Fault \/ UNCHANGED Contract!avars
<1> DEFINE n == LoadPage
<1>1. /\ pc = "GotFATEntry" /\ es = BaseOfLoader /\ es' = es /\ disk' = disk /\ loader' = loader
      /\ Loading /\ ~InSearch /\ ~Ended /\ PageDelivered
  BY DEF GotFATEntry, IInv, ReadsInv, Loading, InSearch, Searching, Ended, PageDelivered
<1>2. n \in 0..(Pages - 1) /\ n \in Nat /\ PagesSeen = n + 1 /\ bx = n * BytesPerSec
  BY <1>1, PagesSeenRange DEF IInv, PagesInv, PagesSeen, LoadOffset, Low, BaseOfLoader
<1>3. phase = "load" /\ image = [i \in 1..(n + 1) |-> loader[i - 1]]
  BY <1>1, <1>2, Phases DEF PhaseTable, ImageTable
<1>4. CASE EndOfChain
  <2>1. pc' = "FileLoaded" /\ UNCHANGED <<bx, overrun>> /\ ax = 4095
    BY <1>4 DEF GotFATEntry, EndOfChain
  <2>2. n' = n /\ PagesSeen' = n + 1
    BY <1>1, <1>2, <2>1 DEF LoadPage, LoadOffset, Low, BaseOfLoader, PagesSeen, PageDelivered
  <2>3. phase' = "run" /\ image' = image
    BY <1>1, <1>3, <2>1, <2>2, Phases DEF PhaseTable, ImageTable
  <2>4. image # <<>> /\ Contract!Last = loader[n]
    <3>1. Len(image) = n + 1
      BY <1>2, <1>3
    <3>2. image[n + 1] = loader[n]
      BY <1>2, <1>3
    <3> QED
      BY <1>2, <3>1, <3>2 DEF Contract!Last
  <2>5. FatEntry(disk.fat, ClusterOf(Contract!Last)) = 4095
    BY <1>1, <2>1, <2>4, EntryRead DEF TheEntry
  <2> QED
    BY <1>1, <1>3, <2>3, <2>4, <2>5 DEF Contract!Run
<1>5. CASE ~EndOfChain /\ overrun'
  BY <1>1, <1>5, Faults
<1>6. CASE ~EndOfChain /\ ~overrun'
  <2>1. /\ pc' = "GoOnLoadingFile" /\ bx' = NextPage
        /\ overrun' = (overrun \/ bx + BytesPerSec >= SegSize)
    BY <1>6 DEF GotFATEntry
  <2>2. ~(bx + BytesPerSec >= SegSize)
    BY <1>6, <2>1, Zenon
  <2>3. bx + BytesPerSec < SegSize
    BY <1>2, <2>2, NextPageAt, Numbers
  <2>4. bx' = (n + 1) * BytesPerSec /\ n + 1 \in Nat
    BY <1>2, <2>1, <2>3, NextPageAt DEF NextPage
  <2>5. n' = n + 1
    BY <1>1, <2>4, PageAt DEF LoadPage, LoadOffset, Low, BaseOfLoader
  <2>6. PagesSeen' = PagesSeen
    BY <1>2, <2>1, <2>4, <2>5 DEF PagesSeen, PageDelivered
  <2>7. ~InSearch' /\ ~Ended'
    BY <2>1 DEF InSearch, Searching, Ended
  <2>8. PagesSeen \in Nat
    BY <1>2
  <2> QED
    BY <1>1, <1>6, <2>6, <2>7, <2>8, LoadUnseen
<1> QED
  BY <1>4, <1>5, <1>6

(* Calling for a sector, turning its number into an address, and what a     *)
(* failed read or one of the table leaves in memory.                        *)
LEMMA ReadsUnseen ==
  ASSUME IInv, ~overrun, pc \in {"ReadOneSector", "GoOnReading"}, ret # "SectorRead",
         UNCHANGED <<disk, overrun, ret, bx, es, stk>>,
         \/ pc' \in {"ReadOneSector", "GoOnReading"}
         \/ ret = "FATRead" /\ pc' = "FATRead",
         \/ loader' = loader
         \/ ret = "ClusterRead" /\ \E x : loader' = [loader EXCEPT ![LoadPage] = x]
  PROVE  UNCHANGED Contract!avars
<1>1. ret \in {"ClusterRead", "FATRead"}
  BY DEF IInv, ReadsInv
<1>2. Loading /\ ~InSearch /\ ~InSearch' /\ ~Ended /\ ~Ended'
  BY <1>1 DEF Loading, InLoad, Reading, InSearch, Searching, Ended
<1>3. LoadPage' = LoadPage /\ LoadPage \in 0..(Pages - 1) /\ PagesSeen \in Nat
  BY <1>2, PagesSeenRange DEF LoadPage, LoadOffset
<1>4. PagesSeen' = PagesSeen /\ (ret = "ClusterRead" => PagesSeen = LoadPage)
  BY <1>1, <1>3 DEF PagesSeen, PageDelivered
<1>5. \A p \in 0..(PagesSeen - 1) : loader'[p] = loader[p]
  BY <1>3, <1>4, PageSize DEF IInv, TypeOK
<1> QED
  BY <1>2, <1>3, <1>4, <1>5, LoadUnseen

LEMMA MarkKept ==
  ASSUME IInv, NoMarkFollowed, [Next]_vars PROVE NoMarkFollowed'
<1>1. CASE FileNameFound
  <2>1. bx' = 0 /\ es' = BaseOfLoader
    BY <1>1 DEF FileNameFound
  <2>2. LoadPage' = 0
    BY <2>1, PageAt, Numbers DEF LoadPage, LoadOffset, BaseOfLoader, Low
  <2> QED
    BY <2>2 DEF NoMarkFollowed
<1>2. CASE GotFATEntry
  <2>1. pc' = "FileLoaded" \/ (ax # 4095 /\ stk' = [stk EXCEPT ![0] = ax])
    <3>1. sp = 0 /\ (pc' = "FileLoaded" \/ (ax # 4095 /\ stk' = [stk EXCEPT ![sp] = ax]))
      BY <1>2 DEF GotFATEntry, EndOfChain, IInv, ReadsInv
    <3> QED
      BY <3>1
  <2>2. stk' = [stk EXCEPT ![0] = ax] => stk'[0] = ax
    BY DEF IInv, TypeOK
  <2>3. pc' = "FileLoaded" => ~InLoad'
    BY DEF InLoad, Reading
  <2> QED
    BY <2>1, <2>2, <2>3 DEF NoMarkFollowed
<1>3. CASE \/ Reset \/ SearchInRootDirectoryBegin \/ RootDirectoryExhausted
           \/ SectorRead \/ SearchForLoaderBin \/ CompareFileName \/ Different
           \/ GoToNextSector \/ NoLoaderBin \/ ClusterRead \/ FATRead
  <2>1. ~InLoad'
    BY <1>3 DEF InLoad, Reading, CallReadOneSector, Reset, SearchInRootDirectoryBegin,
         RootDirectoryExhausted, SectorRead, SearchForLoaderBin, CompareFileName, Different,
         GoToNextSector, NoLoaderBin, ClusterRead, FATRead
  <2> QED
    BY <2>1 DEF NoMarkFollowed
<1>4. CASE GoOnLoadingFile \/ ReadOneSector \/ ReadSucceeds \/ ReadFails \/ Spin \/ UNCHANGED vars
  <2>1. UNCHANGED <<es, bx, stk>>
    BY <1>4 DEF GoOnLoadingFile, ReadOneSector, ReadSucceeds, ReadFails, Spin, vars, regs
  <2>2. LoadPage' = LoadPage /\ stk' = stk
    BY <2>1 DEF LoadPage, LoadOffset
  <2>3. InLoad' => InLoad
    BY <1>4, <2>1 DEF GoOnLoadingFile, ReadOneSector, ReadSucceeds, ReadFails, OnCarry, Spin, vars,
         InLoad, Reading, IInv, ReadsInv
  <2> QED
    BY <2>2, <2>3 DEF NoMarkFollowed
<1> QED
  BY <1>1, <1>2, <1>3, <1>4 DEF Next, Program

(* Reading, step by step.                                                   *)
LEMMA ReadStep ==
  ASSUME IInv, NoMarkFollowed, ~overrun, ReadOneSector \/ ReadSucceeds \/ ReadFails
  PROVE  [Contract!Next]_(Contract!avars)
<1>1. /\ pc \in {"ReadOneSector", "GoOnReading"} /\ UNCHANGED <<disk, overrun, ret, bx, es, stk, ax>>
      /\ ret \in {"SectorRead", "ClusterRead", "FATRead"}
  BY DEF ReadOneSector, ReadSucceeds, ReadFails, regs, mem, IInv, ReadsInv
<1>2. CASE ret = "SectorRead"
  <2>1. ~DivFaults(ax)
    BY <1>1, <1>2, DirectoryInReach DEF Reading
  <2>2. InSearch /\ InSearch'
    BY <1>1, <1>2, <2>1 DEF ReadOneSector, ReadSucceeds, ReadFails, OnCarry, InSearch, Searching
  <2> QED
    BY <1>1, <2>2, SearchUnseen
<1>3. CASE ret # "SectorRead" /\ ReadOneSector
  <2>1. CASE DivFaults(ax)
    <3>1. pc' = "DivideError" /\ ~InSearch /\ ~Ended
      BY <1>1, <1>3, <2>1 DEF ReadOneSector, InSearch, Searching, Ended
    <3> QED
      BY <1>1, <3>1, Faults DEF Contract!Next
  <2>2. CASE ~DivFaults(ax)
    <3>1. pc' = "GoOnReading" /\ loader' = loader
      BY <1>3, <2>2 DEF ReadOneSector, mem
    <3> QED
      BY <1>1, <1>3, <3>1, ReadsUnseen
  <2> QED
    BY <2>1, <2>2
<1>4. CASE ret # "SectorRead" /\ ReadFails
  <2>1. pc = "GoOnReading" /\ pc' = "GoOnReading"
    BY <1>4 DEF ReadFails, OnCarry
  <2>2. PICK m \in 0..cl : (m > 0 => Requested + m <= TotSec) /\ Transfer(m)
    BY <1>4 DEF ReadFails
  <2>3. \/ loader' = loader
        \/ ret = "ClusterRead" /\ \E x : loader' = [loader EXCEPT ![LoadPage] = x]
    BY <1>1, <1>4, <2>1, <2>2, ReadEffect
  <2> QED
    BY <1>1, <1>4, <2>1, <2>3, ReadsUnseen
<1>5. CASE ret = "ClusterRead" /\ ReadSucceeds
  BY <1>5, Loads DEF Contract!Next
<1>6. CASE ret = "FATRead" /\ ReadSucceeds
  <2>1. pc = "GoOnReading" /\ pc' = "FATRead" /\ Transfer(cl) /\ Requested + cl <= TotSec
    BY <1>6 DEF ReadSucceeds, Deliverable
  <2>2. cl \in 0..cl
    BY DEF IInv, TypeOK
  <2>3. loader' = loader
    BY <1>6, <2>1, <2>2, ReadEffect
  <2> QED
    BY <1>1, <1>6, <2>1, <2>3, ReadsUnseen
<1> QED
  BY <1>1, <1>2, <1>3, <1>4, <1>5, <1>6

(* GetFATEntry keeps the segment and the offset of the page on the stack.   *)
LEMMA ClusterReadStepSeen ==
  ASSUME IInv, ~overrun, ClusterRead
  PROVE  [Contract!Next]_(Contract!avars)
<1>1. /\ pc = "ClusterRead" /\ UNCHANGED <<disk, loader, overrun>> /\ sp = 1 /\ es = BaseOfLoader
      /\ Loading /\ ~InSearch /\ ~Ended
  BY DEF ClusterRead, IInv, ReadsInv, InLoad, Loading, InSearch, Searching, Ended
<1>2. CASE pc' = "DivideError"
  BY <1>1, <1>2, Faults DEF Contract!Next
<1>3. CASE pc' # "DivideError"
  <2>1. /\ pc' = "ReadOneSector" /\ ret' = "FATRead" /\ es' = Low
        /\ stk' = [stk EXCEPT ![0] = es, ![1] = bx, ![2] = FatIndex(stk[0])]
    BY <1>1, <1>3 DEF ClusterRead, CallReadOneSector, TableSegment
  <2>2. LoadPage' = LoadPage
    BY <1>1, <2>1 DEF LoadPage, LoadOffset, Low, BaseOfLoader, IInv, TypeOK
  <2>3. PagesSeen' = PagesSeen /\ PagesSeen \in Nat
    BY <1>1, <2>1, <2>2, PagesSeenRange DEF PagesSeen, PageDelivered
  <2>4. ~InSearch' /\ ~Ended'
    BY <2>1 DEF InSearch, Searching, Ended
  <2> QED
    BY <1>1, <2>3, <2>4, LoadUnseen
<1> QED
  BY <1>2, <1>3

LEMMA FATReadStepSeen ==
  ASSUME IInv, ~overrun, FATRead
  PROVE  UNCHANGED Contract!avars
<1>1. /\ pc = "FATRead" /\ pc' = "GotFATEntry" /\ UNCHANGED <<disk, loader, overrun>>
      /\ sp = 3 /\ es = Low /\ stk[0] = BaseOfLoader /\ bx' = stk[1] /\ es' = stk[0]
      /\ Loading
  BY DEF FATRead, mem, IInv, ReadsInv, Loading
<1>2. LoadPage' = LoadPage
  BY <1>1 DEF LoadPage, LoadOffset, Low, BaseOfLoader
<1>3. PagesSeen' = PagesSeen /\ PagesSeen \in Nat
  BY <1>1, <1>2, PagesSeenRange DEF PagesSeen, PageDelivered
<1>4. ~InSearch /\ ~InSearch' /\ ~Ended /\ ~Ended'
  BY <1>1 DEF InSearch, Searching, Ended
<1> QED
  BY <1>1, <1>3, <1>4, LoadUnseen

LEMMA GoOnLoadingFileStepSeen ==
  ASSUME IInv, ~overrun, GoOnLoadingFile
  PROVE  UNCHANGED Contract!avars
<1>1. /\ pc = "GoOnLoadingFile" /\ pc' = "ReadOneSector" /\ ret' = "ClusterRead"
      /\ UNCHANGED <<disk, loader, overrun, es, bx, stk>> /\ Loading
  BY DEF GoOnLoadingFile, CallReadOneSector, regs, mem, Loading, InLoad
<1>2. LoadPage' = LoadPage
  BY <1>1 DEF LoadPage, LoadOffset
<1>3. PagesSeen' = PagesSeen /\ PagesSeen \in Nat
  BY <1>1, <1>2, PagesSeenRange DEF PagesSeen, PageDelivered
<1>4. ~InSearch /\ ~InSearch' /\ ~Ended /\ ~Ended'
  BY <1>1 DEF InSearch, Searching, Ended
<1> QED
  BY <1>1, <1>3, <1>4, LoadUnseen

LEMMA ContractSteps ==
  ASSUME IInv, NoMarkFollowed, [Next]_vars
  PROVE  [Contract!Next]_(Contract!avars)
<1>1. disk' = disk
  BY DEF Next, Program, Reset, SearchInRootDirectoryBegin, RootDirectoryExhausted, SectorRead,
         SearchForLoaderBin, CompareFileName, Different, GoToNextSector, NoLoaderBin,
         FileNameFound, GoOnLoadingFile, ClusterRead, FATRead, GotFATEntry, ReadOneSector,
         ReadSucceeds, ReadFails, Spin, vars
<1>2. CASE overrun
  <2>1. overrun' = overrun \/ overrun' = (overrun \/ bx + BytesPerSec >= SegSize)
    BY DEF Next, Program, Reset, SearchInRootDirectoryBegin, RootDirectoryExhausted, SectorRead,
         SearchForLoaderBin, CompareFileName, Different, GoToNextSector, NoLoaderBin,
         FileNameFound, GoOnLoadingFile, ClusterRead, FATRead, GotFATEntry, ReadOneSector,
         ReadSucceeds, ReadFails, Spin, vars, mem
  <2>2. overrun'
    BY <1>2, <2>1, Zenon
  <2> QED
    BY <1>1, <1>2, <2>2, StuckUnseen
<1>3. CASE ~overrun
  <2>1. CASE \/ Reset \/ SearchInRootDirectoryBegin \/ SectorRead \/ SearchForLoaderBin
             \/ CompareFileName \/ Different \/ GoToNextSector
    <3>1. InSearch /\ InSearch' /\ overrun' = overrun
      BY <2>1 DEF Reset, SearchInRootDirectoryBegin, CallReadOneSector, SectorRead,
           SearchForLoaderBin, CompareFileName, Different, GoToNextSector, mem,
           InSearch, Searching
    <3> QED
      BY <1>1, <1>3, <3>1, SearchUnseen
  <2>2. CASE RootDirectoryExhausted
    BY <1>3, <2>2, GivesUp, RootDirectoryExhaustedStep DEF Contract!Next
  <2>3. CASE NoLoaderBin
    <3>1. pc = "NoLoaderBin" /\ pc' = "Halted" /\ ~overrun'
      BY <1>3, <2>3 DEF NoLoaderBin, mem
    <3> QED
      BY <1>1, <1>3, <3>1, Phases DEF PhaseTable, ImageTable, Contract!avars
  <2>4. CASE FileNameFound
    BY <1>3, <2>4, Finds DEF Contract!Next
  <2>5. CASE GoOnLoadingFile
    BY <1>3, <2>5, GoOnLoadingFileStepSeen
  <2>6. CASE ClusterRead
    BY <1>3, <2>6, ClusterReadStepSeen
  <2>7. CASE FATRead
    BY <1>3, <2>7, FATReadStepSeen
  <2>8. CASE GotFATEntry
    BY <1>3, <2>8, GoesOn DEF Contract!Next
  <2>9. CASE ReadOneSector \/ ReadSucceeds \/ ReadFails
    BY <1>3, <2>9, ReadStep
  <2>10. CASE Spin \/ UNCHANGED vars
    <3>1. UNCHANGED vars
      BY <2>10 DEF Spin
    <3>2. UNCHANGED <<disk, loader, overrun, PagesSeen>> /\ (InSearch' <=> InSearch)
      BY <3>1 DEF vars, InSearch, PagesSeen, PageDelivered, LoadPage, LoadOffset
    <3>3. UNCHANGED phase
      BY <1>3, <3>1, <3>2, Phases DEF PhaseTable, Ended, vars
    <3>4. UNCHANGED image
      BY <3>2, <3>3, Phases DEF ImageTable, PhaseTable, Ended
    <3> QED
      BY <3>2, <3>3, <3>4 DEF Contract!avars
  <2> QED
    BY <2>1, <2>2, <2>3, <2>4, <2>5, <2>6, <2>7, <2>8, <2>9, <2>10 DEF Next, Program
<1> QED
  BY <1>2, <1>3

(* For every diskette, geometry and loader name: each step of boot.asm is a *)
(* step of LoaderContract or invisible to it. The file found is the first   *)
(* of that name, its sectors arrive in chain order, and control passes to   *)
(* the loader exactly at the end mark (183-240), failed reads and the use   *)
(* of one buffer for directory and table notwithstanding.                   *)
THEOREM KeepsContract == Spec => ImplementsContract
<1>1. Init => Contract!Init /\ NoMarkFollowed
  <2> SUFFICES ASSUME Init PROVE Contract!Init /\ NoMarkFollowed
    OBVIOUS
  <2>1. pc = "Reset" /\ ~overrun
    BY DEF Init
  <2>2. phase = "search" /\ image = <<>>
    BY <2>1, Phases DEF PhaseTable, ImageTable, InSearch, Searching
  <2> QED
    BY <2>1, <2>2 DEF Contract!Init, NoMarkFollowed, InLoad, Reading
<1>2. IInv /\ NoMarkFollowed /\ [Next]_vars => NoMarkFollowed' /\ [Contract!Next]_(Contract!avars)
  BY MarkKept, ContractSteps
<1> QED
  BY <1>1, <1>2, Invariance, PTL DEF Spec, ImplementsContract, Contract!Spec
=============================================================================
