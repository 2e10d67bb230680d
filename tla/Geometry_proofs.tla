-------------------------- MODULE Geometry_proofs --------------------------
(* The arithmetic of the boot path, for every sector and every table.       *)
EXTENDS Geometry, TLAPS

(* Division with remainder, in the form the provers need it.                *)
LEMMA DivMod ==
  ASSUME NEW n \in Nat, NEW d \in Nat \ {0}
  PROVE  /\ n \div d \in Nat
         /\ n % d \in 0..(d - 1)
         /\ n = d * (n \div d) + (n % d)
  BY SMT

(* Multiples of a number lie that number apart.                             *)
LEMMA ProductGrows ==
  ASSUME NEW a \in Nat, NEW b \in Nat, NEW d \in Nat, a < b
  PROVE  /\ d * a + d <= d * b
         /\ a * d + d <= b * d
<1>1. PICK k \in Nat : b = a + 1 + k
  <2>1. b - a - 1 \in Nat /\ b = a + 1 + (b - a - 1)
    OBVIOUS
  <2> QED
    BY <2>1
<1>2. /\ d * b = d * a + d + d * k
      /\ b * d = a * d + d + d * k
  BY <1>1
<1>3. d * k \in Nat /\ d * a \in Nat /\ a * d \in Nat
  OBVIOUS
<1> QED
  BY <1>2, <1>3

(* Quotient and remainder are the only ones.                                *)
LEMMA QuotientIs ==
  ASSUME NEW n \in Nat, NEW d \in Nat \ {0}, NEW q \in Nat, NEW r \in 0..(d - 1), n = d * q + r
  PROVE  n \div d = q /\ n % d = r
<1> DEFINE p == n \div d
           s == n % d
<1>1. p \in Nat /\ s \in 0..(d - 1) /\ n = d * p + s
  BY DivMod
<1> HIDE DEF p, s
<1>2. d * p \in Nat /\ d * q \in Nat
  BY <1>1
<1>3. ~(p < q)
  <2>1. ASSUME p < q PROVE d * p + d <= d * q
    BY <1>1, <2>1, ProductGrows
  <2> QED
    BY <1>1, <1>2, <2>1
<1>4. ~(q < p)
  <2>1. ASSUME q < p PROVE d * q + d <= d * p
    BY <1>1, <2>1, ProductGrows
  <2> QED
    BY <1>1, <1>2, <2>1
<1>5. p = q
  BY <1>1, <1>3, <1>4
<1>6. s = r
  BY <1>1, <1>2, <1>5
<1> QED
  BY <1>5, <1>6 DEF p, s

(* Counting on by one: the quotient grows where the remainder is the last.  *)
LEMMA NextQuotient ==
  ASSUME NEW n \in Nat, NEW d \in Nat \ {0}
  PROVE  /\ n % d = d - 1 => (n + 1) % d = 0 /\ (n + 1) \div d = (n \div d) + 1
         /\ n % d # d - 1 => (n + 1) % d = (n % d) + 1 /\ (n + 1) \div d = n \div d
<1> DEFINE q == n \div d
           r == n % d
<1>1. q \in Nat /\ r \in 0..(d - 1) /\ n = d * q + r
  BY DivMod
<1> HIDE DEF q, r
<1>2. CASE r = d - 1
  <2>1. n + 1 = d * (q + 1) + 0
    <3>1. d * (q + 1) = d * q + d
      BY <1>1
    <3>2. d * q \in Nat
      BY <1>1
    <3> QED
      BY <1>1, <1>2, <3>1, <3>2
  <2>2. q + 1 \in Nat /\ 0 \in 0..(d - 1) /\ n + 1 \in Nat
    BY <1>1
  <2>3. (n + 1) \div d = q + 1 /\ (n + 1) % d = 0
    BY <2>1, <2>2, QuotientIs
  <2> QED
    BY <1>2, <2>3 DEF q, r
<1>3. CASE r # d - 1
  <2>1. n + 1 = d * q + (r + 1) /\ r + 1 \in 0..(d - 1) /\ n + 1 \in Nat
    <3>1. d * q \in Nat
      BY <1>1
    <3> QED
      BY <1>1, <1>3, <3>1
  <2>2. (n + 1) \div d = q /\ (n + 1) % d = r + 1
    BY <1>1, <2>1, QuotientIs
  <2> QED
    BY <1>3, <2>2 DEF q, r
<1> QED
  BY <1>2, <1>3

(* The cylinder, head and sector ReadOneSector computes (boot.asm 256-266)  *)
(* name, to a controller with two heads and the same sectors per track,     *)
(* exactly the sector that was asked for, and are in range for INT 13h.     *)
THEOREM ChsRoundTrip ==
  ASSUME NEW lba \in Nat
  PROVE  /\ ToChs(lba).cyl \in Nat
         /\ ToChs(lba).head \in {0, 1}
         /\ ToChs(lba).sec \in 1..SecPerTrk
         /\ LogicalSector(ToChs(lba), NumHeads, SecPerTrk) = lba
<1> DEFINE track == lba \div SecPerTrk
<1>0. SecPerTrk \in Nat \ {0}
  BY GeometryAssumption
<1>1. /\ track \in Nat
      /\ lba % SecPerTrk \in 0..(SecPerTrk - 1)
      /\ lba = SecPerTrk * track + (lba % SecPerTrk)
  BY <1>0, DivMod
<1>2. /\ track \div 2 \in Nat /\ track % 2 \in {0, 1}
      /\ track = 2 * (track \div 2) + (track % 2)
  BY <1>1
<1>3. ToChs(lba) = [cyl |-> track \div 2, head |-> track % 2, sec |-> (lba % SecPerTrk) + 1]
  BY DEF ToChs
<1>4. LogicalSector(ToChs(lba), NumHeads, SecPerTrk) = track * SecPerTrk + (lba % SecPerTrk)
  <2>1. (track \div 2) * 2 + (track % 2) = track
    BY <1>2
  <2>2. ((lba % SecPerTrk) + 1) - 1 = lba % SecPerTrk
    BY <1>1
  <2>3. /\ ToChs(lba).cyl = track \div 2
        /\ ToChs(lba).head = track % 2
        /\ ToChs(lba).sec = (lba % SecPerTrk) + 1
    BY <1>3
  <2>4. LogicalSector(ToChs(lba), NumHeads, SecPerTrk)
          = (ToChs(lba).cyl * 2 + ToChs(lba).head) * SecPerTrk + (ToChs(lba).sec - 1)
    BY Zenon DEF LogicalSector, NumHeads
  <2>5. (ToChs(lba).cyl * 2 + ToChs(lba).head) = track
    BY <2>1, <2>3, Zenon
  <2>6. ToChs(lba).sec - 1 = lba % SecPerTrk
    BY <2>2, <2>3, Zenon
  <2> QED
    BY <2>4, <2>5, <2>6, Zenon
<1>5. track * SecPerTrk = SecPerTrk * track
  BY <1>0, <1>1
<1> HIDE DEF track
<1> QED
  BY <1>0, <1>1, <1>2, <1>3, <1>4, <1>5

(* Two 12-bit numbers taken apart into three bytes and put together again.  *)
LEMMA NibbleCarry ==
  ASSUME NEW v \in Entry, NEW w \in Entry
  PROVE  /\ ((v % 256) + 256 * ((v \div 256) + 16 * (w % 16))) % 4096 = v
         /\ ((((v \div 256) + 16 * (w % 16)) + 256 * (w \div 16)) \div 16) % 4096 = w
<1> DEFINE a == v \div 256
           b == v % 256
           p == w \div 16
           q == w % 16
<1>1. a \in 0..15 /\ b \in 0..255 /\ v = 256 * a + b
  BY DEF Entry
<1>2. p \in 0..255 /\ q \in 0..15 /\ w = 16 * p + q
  BY DEF Entry
<1> HIDE DEF a, b, p, q
<1>3. b + 256 * (a + 16 * q) = v + 4096 * q
  BY <1>1, <1>2
<1>4. (v + 4096 * q) % 4096 = v
  BY <1>2 DEF Entry
<1>5. (a + 16 * q) + 256 * p = 16 * w + a
  BY <1>1, <1>2
<1>6. (16 * w + a) \div 16 = w /\ w % 4096 = w
  BY <1>1 DEF Entry
<1> QED
  BY <1>3, <1>4, <1>5, <1>6 DEF a, b, p, q

(* GetFATEntry (boot.asm 288-347) is the inverse of the packing of two      *)
(* 12-bit entries in three bytes, for every table and every cluster.        *)
THEOREM FatRoundTrip ==
  ASSUME NEW fat, NEW c \in Nat, \A e \in Nat : FatEntry(fat, e) \in Entry
  PROVE  FatDecode(FatOdd(c), FatByte(fat, FatOffset(c)), FatByte(fat, FatOffset(c) + 1))
           = FatEntry(fat, c)
<1> DEFINE k == c \div 2
<1>1. k \in Nat /\ (c = 2 * k \/ c = 2 * k + 1)
  BY SMT
<1>2. CASE c = 2 * k
  <2>1. FatOffset(c) = 3 * k /\ ~FatOdd(c)
    BY <1>1, <1>2 DEF FatOffset, FatOdd
  <2>2. /\ (3 * k) % 3 = 0 /\ (3 * k) \div 3 = k
        /\ (3 * k + 1) % 3 = 1 /\ (3 * k + 1) \div 3 = k
    BY <1>1
  <2>3. PICK v \in Entry : v = FatEntry(fat, 2 * k)
    BY <1>1
  <2>4. PICK w \in Entry : w = FatEntry(fat, 2 * k + 1)
    BY <1>1
  <2>5. /\ FatByte(fat, 3 * k) = v % 256
        /\ FatByte(fat, 3 * k + 1) = (v \div 256) + 16 * (w % 16)
    BY <2>2, <2>3, <2>4 DEF FatByte
  <2>6. ((v % 256) + 256 * ((v \div 256) + 16 * (w % 16))) % 4096 = v
    BY NibbleCarry
  <2> QED
    BY <1>2, <2>1, <2>3, <2>5, <2>6 DEF FatDecode
<1>3. CASE c = 2 * k + 1
  <2>1. FatOffset(c) = 3 * k + 1 /\ FatOdd(c) /\ 3 * k + 1 + 1 = 3 * k + 2
    BY <1>1, <1>3 DEF FatOffset, FatOdd
  <2>2. /\ (3 * k + 2) % 3 = 2 /\ (3 * k + 2) \div 3 = k
        /\ (3 * k + 1) % 3 = 1 /\ (3 * k + 1) \div 3 = k
    BY <1>1
  <2>3. PICK v \in Entry : v = FatEntry(fat, 2 * k)
    BY <1>1
  <2>4. PICK w \in Entry : w = FatEntry(fat, 2 * k + 1)
    BY <1>1
  <2>5. /\ FatByte(fat, 3 * k + 1) = (v \div 256) + 16 * (w % 16)
        /\ FatByte(fat, 3 * k + 2) = w \div 16
    BY <2>2, <2>3, <2>4 DEF FatByte
  <2>6. ((((v \div 256) + 16 * (w % 16)) + 256 * (w \div 16)) \div 16) % 4096 = w
    BY NibbleCarry
  <2> QED
    BY <1>3, <2>1, <2>4, <2>5, <2>6 DEF FatDecode
<1> QED
  BY <1>1, <1>2, <1>3
=============================================================================
