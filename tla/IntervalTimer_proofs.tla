----------------------- MODULE IntervalTimer_proofs -----------------------
(***************************************************************************)
(* The interval timer with bytes of any width, any programs, counts and     *)
(* portions of clocks.                                                      *)
(*                                                                         *)
(* The three invariants are about numbers of clocks: the first two say what *)
(* loops do, so the loops are treated as orbits of their bodies, and what   *)
(* holds of every number of clocks is shown by induction over the numbers   *)
(* of which it holds.                                                       *)
(***************************************************************************)
EXTENDS IntervalTimer, WellFoundedInduction, SequenceTheorems, FiniteSetTheorems, TLAPS

Word == 0 .. Top - 1

CounterType ==
  [gate : BOOLEAN, out : BOOLEAN, count : Word, outlatch : Word, inlatch : Word, mode : 0..7,
   null : BOOLEAN, lsbLatched : BOOLEAN, msbLatched : BOOLEAN, statusLatched : BOOLEAN,
   trigger : BOOLEAN, write : {"LSB", "MSB", "LSB_multiple", "MSB_multiple"},
   read : {"LSB", "MSB", "LSB_multiple", "MSB_multiple"}, written : BOOLEAN,
   firstPass : BOOLEAN, odd : BOOLEAN, reload : BOOLEAN, next : Word]

TypeOK ==
  /\ counter \in [Counters -> CounterType]
  /\ owed \in [Counters -> Seq(0 .. Byte - 1)]

Even(n) == n % 2 = 0

(* What the announced time says of the counter, mode by mode: with more     *)
(* than one clock to go, that the event is that far away by the count; with *)
(* none announced, that the counter has nothing to do.  What a write, the   *)
(* gate or the control word changes is looked at in the next clock: one to  *)
(* go says nothing.                                                         *)
Told0(c) ==
  c.written /\ ~Half(c) =>
    /\ c.null => c.next = 1
    /\ c.next > 1 => c.gate /\ (~c.out => c.count = c.next)
    /\ c.next = 0 => c.out \/ ~c.gate

Told1(c) ==
  ~c.null =>
    /\ c.written
    /\ c.next > 1 => ~c.trigger /\ ~c.out /\ c.count = c.next
    /\ c.next = 0 => ~c.trigger /\ c.out

Told2(c) ==
  c.written /\ ~Half(c) /\ c.gate /\ c.inlatch # 1 =>
    /\ c.next # 0
    /\ c.next > 1 => ~c.trigger /\ ~c.firstPass /\ Minus(c.count, 1) = c.next

Told3(c) ==
  c.written /\ ~Half(c) /\ c.inlatch # 0 /\ Even(c.inlatch) =>
    /\ Even(c.count)
    /\ c.gate => c.next # 0
    /\ c.next > 1 => /\ c.gate /\ ~c.trigger /\ ~c.firstPass /\ ~c.reload
                     /\ c.count = IF Longer(c) THEN 2 * c.next ELSE 2 * c.next + 2

Told4(c) ==
  c.written /\ ~Half(c) =>
    /\ c.null => c.next = 1
    /\ c.next > 1 => c.gate /\ c.out /\ c.firstPass /\ c.count = c.next
    /\ c.next = 0 => c.out /\ (c.gate => ~c.firstPass)

Told5(c) ==
  ~c.null =>
    /\ c.written
    /\ c.next > 1 => ~c.trigger /\ c.out /\ c.firstPass /\ c.count = c.next
    /\ c.next = 0 => ~c.trigger /\ c.out /\ ~c.firstPass

Told(c) ==
  /\ ~c.written /\ ~Half(c) => c.next \in {0, 1}
  /\ c.mode = 0 => Told0(c)
  /\ c.mode = 1 => Told1(c)
  /\ c.mode = 2 => Told2(c)
  /\ c.mode = 3 => Told3(c)
  /\ c.mode = 4 => Told4(c)
  /\ c.mode = 5 => Told5(c)

(* Where a running counter can be in its period.                            *)
Paced2(c) ==
  Oscillates(c) =>
    IF c.firstPass THEN c.count = 1 /\ ~c.out
    ELSE c.out /\ c.count # 1 /\ (c.inlatch # 0 => c.count \in 2 .. c.inlatch)

Paced3(c) ==
  Oscillates(c) =>
    /\ ~c.firstPass /\ ~c.odd /\ c.count \in 2 .. c.inlatch
    /\ c.reload <=> c.count = 2

Paced(c) ==
  /\ c.mode = 2 => Paced2(c)
  /\ c.mode = 3 => Paced3(c)

(* The bytes a latched count still owes, and where the read of it stands.   *)
Owes(c, bytes) ==
  bytes # <<>> =>
    \/ c.read = "LSB" /\ c.lsbLatched /\ bytes = <<Low(c.outlatch)>>
    \/ c.read = "MSB" /\ ~c.lsbLatched /\ c.msbLatched /\ bytes = <<High(c.outlatch)>>
    \/ c.read = "LSB_multiple" /\ c.lsbLatched /\ c.msbLatched /\ bytes = <<Low(c.outlatch), High(c.outlatch)>>
    \/ c.read = "MSB_multiple" /\ ~c.lsbLatched /\ c.msbLatched /\ bytes = <<High(c.outlatch)>>

(* The inductive invariant.                                                 *)
IInv ==
  /\ TypeOK
  /\ \A i \in Counters : Told(counter[i]) /\ Paced(counter[i]) /\ Owes(counter[i], owed[i])

-----------------------------------------------------------------------------
(* Numbers.                                                                 *)
LEMMA Least ==
  ASSUME NEW S \in SUBSET Nat, NEW s \in S
  PROVE  \E x \in S : \A y \in S : x <= y
<1> DEFINE Below == OpToRel(<, Nat)
<1>1. IsWellFoundedOn(Below, Nat)
  BY NatLessThanWellFounded
<1> HIDE DEF Below
<1>2. PICK x \in S : \A y \in S : ~(<<y, x>> \in Below)
  BY <1>1, WFMin, Zenon
<1>3. ASSUME NEW y \in S PROVE x <= y
  <2>1. <<y, x>> \notin Below
    BY <1>2
  <2>2. ~(y < x)
    BY <2>1 DEF Below, OpToRel
  <2> QED
    BY <2>2
<1> QED
  BY <1>3

(* Induction, over the set of the numbers of which something holds.         *)
LEMMA Induction ==
  ASSUME NEW T, 0 \in T, \A k \in Nat : k \in T => k + 1 \in T
  PROVE  \A n \in Nat : n \in T
<1> SUFFICES ASSUME NEW n \in Nat, n \notin T PROVE FALSE
  OBVIOUS
<1> DEFINE S == {k \in Nat : k \notin T}
<1>1. PICK x \in S : \A y \in S : x <= y
  BY Least
<1>2. CASE x = 0
  BY <1>2
<1>3. CASE x # 0
  <2>1. x - 1 \in Nat /\ (x - 1) + 1 = x
    BY <1>3
  <2>2. x - 1 \in T
    BY <1>1, <2>1
  <2> QED
    BY <2>1, <2>2
<1> QED
  BY <1>2, <1>3

-----------------------------------------------------------------------------
(* A count of two bytes, and what is taken off it modulo 2^16.              *)
LEMMA TopFacts == Top \in Nat /\ Top >= 4 /\ Top % 2 = 0 /\ Byte \in Nat /\ Byte > 1
<1>1. Byte \in Nat /\ Byte > 1 /\ Byte % 2 = 0
  BY IntervalTimerAssumption
<1>2. PICK k \in Nat : Byte = 2 * k
  <2>1. Byte \div 2 \in Nat /\ Byte = 2 * (Byte \div 2)
    BY <1>1
  <2> QED
    BY <2>1
<1>3. Byte * Byte = 2 * (k * Byte) /\ k * Byte \in Nat
  BY <1>1, <1>2
<1>4. k >= 1 /\ Byte >= 2
  BY <1>1, <1>2
<1>5. k * Byte >= 2
  <2>1. PICK j \in Nat : k = 1 + j
    <3>1. k - 1 \in Nat /\ k = 1 + (k - 1)
      BY <1>4
    <3> QED
      BY <3>1
  <2>2. k * Byte = Byte + j * Byte /\ j * Byte \in Nat
    BY <1>1, <2>1
  <2> QED
    BY <1>1, <1>4, <2>2
<1> DEFINE h == k * Byte
<1>6. h \in Nat /\ h >= 2 /\ Top = 2 * h
  BY <1>3, <1>5 DEF Top
<1> HIDE DEF h
<1> QED
  BY <1>1, <1>6

LEMMA DivMod ==
  ASSUME NEW n \in Int, NEW d \in Nat \ {0}
  PROVE  /\ n \div d \in Int
         /\ n % d \in 0..(d - 1)
         /\ n = d * (n \div d) + (n % d)
  BY SMT

(* A remainder is unique.                                                   *)
LEMMA ModUnique ==
  ASSUME NEW d \in Nat \ {0}, NEW q \in Int, NEW r \in 0..(d - 1)
  PROVE  (d * q + r) % d = r
<1> DEFINE n == d * q + r
           p == n \div d
           s == n % d
<1>1. n \in Int
  OBVIOUS
<1>2. p \in Int /\ s \in 0..(d - 1) /\ n = d * p + s
  BY <1>1, DivMod
<1> HIDE DEF p, s
<1>3. d * (q - p) = s - r
  <2>1. d * (q - p) = d * q - d * p
    BY <1>2
  <2> QED
    BY <1>2, <2>1
<1>4. q - p = 0
  <2> DEFINE e == q - p
  <2>1. e \in Int /\ d * e = s - r
    BY <1>2, <1>3
  <2> HIDE DEF e
  <2>2. ASSUME e >= 1 PROVE FALSE
    <3>1. PICK j \in Nat : e = 1 + j
      <4>1. e - 1 \in Nat /\ e = 1 + (e - 1)
        BY <2>1, <2>2
      <4> QED
        BY <4>1
    <3>2. d * e = d + d * j /\ d * j \in Nat
      BY <3>1
    <3> QED
      BY <1>2, <2>1, <3>2
  <2>3. ASSUME e < 0 PROVE FALSE
    <3>1. PICK j \in Nat : e = 0 - 1 - j
      <4>1. 0 - 1 - e \in Nat /\ e = 0 - 1 - (0 - 1 - e)
        BY <2>1, <2>3
      <4> QED
        BY <4>1
    <3>2. d * e = 0 - d - d * j /\ d * j \in Nat
      BY <3>1
    <3> QED
      BY <1>2, <2>1, <3>2
  <2>4. e = 0
    BY <2>1, <2>2, <2>3
  <2> QED
    BY <2>4 DEF e
<1>5. d * (q - p) = 0
  BY <1>4
<1> QED
  BY <1>2, <1>3, <1>5 DEF s

LEMMA MinusType ==
  ASSUME NEW a \in Int, NEW n \in Int
  PROVE  Minus(a, n) \in Word
  BY TopFacts, DivMod DEF Minus, Word

LEMMA MinusSmall ==
  ASSUME NEW a \in Word, NEW n \in Nat, n <= a
  PROVE  Minus(a, n) = a - n
<1>1. a - n \in 0..(Top - 1)
  BY TopFacts DEF Word
<1>2. (Top * 0 + (a - n)) % Top = a - n
  BY <1>1, TopFacts, ModUnique
<1>3. Top * 0 + (a - n) = a - n
  BY <1>1, TopFacts
<1> QED
  BY <1>2, <1>3 DEF Minus

LEMMA MinusWraps ==
  ASSUME NEW a \in Word, NEW n \in Nat, a < n, n <= Top
  PROVE  Minus(a, n) = a - n + Top
<1>1. a - n + Top \in 0..(Top - 1)
  BY TopFacts DEF Word
<1>2. (Top * (0 - 1) + (a - n + Top)) % Top = a - n + Top
  BY <1>1, TopFacts, ModUnique
<1>3. Top * (0 - 1) = 0 - Top
  BY TopFacts
<1>4. Top * (0 - 1) + (a - n + Top) = a - n
  BY <1>1, <1>3, TopFacts DEF Word
<1> QED
  BY <1>2, <1>4 DEF Minus

LEMMA MinusMinus ==
  ASSUME NEW a \in Word, NEW m \in Nat, NEW n \in Nat
  PROVE  Minus(Minus(a, m), n) = Minus(a, m + n)
<1> DEFINE t == Top
           p == (a - m) \div t
           q == (a - (m + n)) \div t
           r == (a - m) % t
           s == (a - (m + n)) % t
<1>0. t \in Nat \ {0} /\ a \in Int
  BY TopFacts DEF Word
<1>1. p \in Int /\ r \in 0..(t - 1) /\ a - m = t * p + r
  <2> HIDE DEF t
  <2>1. a - m \in Int
    BY <1>0
  <2> QED
    BY <1>0, <2>1, DivMod
<1>2. q \in Int /\ s \in 0..(t - 1) /\ a - (m + n) = t * q + s
  <2> HIDE DEF t
  <2>1. a - (m + n) \in Int
    BY <1>0
  <2> QED
    BY <1>0, <2>1, DivMod
<1>3. (t * (q - p) + s) % t = s
  <2> HIDE DEF p, q, s, t
  <2>1. q - p \in Int
    BY <1>1, <1>2
  <2> QED
    BY <1>0, <1>2, <2>1, ModUnique
<1>4. r - n = t * (q - p) + s
  <2> HIDE DEF p, q, r, s, t
  <2>1. t * (q - p) = t * q - t * p
    BY <1>0, <1>1, <1>2
  <2>2. t * q \in Int /\ t * p \in Int
    BY <1>0, <1>1, <1>2
  <2> QED
    BY <1>0, <1>1, <1>2, <2>1, <2>2
<1>5. (r - n) % t = s
  BY <1>3, <1>4
<1> QED
  BY <1>5 DEF Minus

-----------------------------------------------------------------------------
(* Iteration of a function, and the loops of the module as iterations.      *)
Goes(f, n, G, s) == f[0] = s /\ \A k \in 0..(n - 1) : f[k + 1] = G[f[k]]

IsOrbit(f, S, G, s) == f \in [Nat -> S] /\ f[0] = s /\ \A k \in Nat : f[k + 1] = G[f[k]]

Orbit(S, G, s) == CHOOSE f : IsOrbit(f, S, G, s)

LEMMA GoesOneWay ==
  ASSUME NEW G, NEW s, NEW m \in Nat, NEW f, Goes(f, m, G, s), NEW n \in Nat, NEW g, Goes(g, n, G, s)
  PROVE  \A k \in Nat : k <= m /\ k <= n => f[k] = g[k]
<1> DEFINE T == {k \in Nat : k <= m /\ k <= n => f[k] = g[k]}
<1>1. 0 \in T
  BY DEF Goes
<1>2. ASSUME NEW k \in Nat, k \in T PROVE k + 1 \in T
  BY <1>2 DEF Goes
<1>3. \A k \in Nat : k \in T
  <2> HIDE DEF T
  <2> QED
    BY <1>1, <1>2, Induction
<1> QED
  BY <1>3

LEMMA GoesOn ==
  ASSUME NEW S, NEW G \in [S -> S], NEW s \in S
  PROVE  \A n \in Nat : \E f \in [0..n -> S] : Goes(f, n, G, s)
<1> DEFINE T == {n \in Nat : \E f \in [0..n -> S] : Goes(f, n, G, s)}
<1>1. 0 \in T
  <2> DEFINE f == [k \in 0..0 |-> s]
  <2>1. f \in [0..0 -> S] /\ Goes(f, 0, G, s)
    BY DEF Goes
  <2> QED
    BY <2>1
<1>2. ASSUME NEW n \in Nat, n \in T PROVE n + 1 \in T
  <2>1. PICK f \in [0..n -> S] : Goes(f, n, G, s)
    BY <1>2
  <2> DEFINE g == [k \in 0..(n + 1) |-> IF k <= n THEN f[k] ELSE G[f[n]]]
  <2>2. g \in [0..(n + 1) -> S]
    BY <2>1
  <2>3. Goes(g, n + 1, G, s)
    BY <2>1 DEF Goes
  <2> QED
    BY <2>2, <2>3
<1>3. \A n \in Nat : n \in T
  <2> HIDE DEF T
  <2> QED
    BY <1>1, <1>2, Induction
<1> QED
  BY <1>3

LEMMA OrbitLaws ==
  ASSUME NEW S, NEW G, G \in [S -> S], NEW s \in S
  PROVE  IsOrbit(Orbit(S, G, s), S, G, s)
<1> DEFINE upTo(n) == CHOOSE f \in [0..n -> S] : Goes(f, n, G, s)
           h == [n \in Nat |-> upTo(n)[n]]
<1>1. \A n \in Nat : upTo(n) \in [0..n -> S] /\ Goes(upTo(n), n, G, s)
  BY GoesOn, Zenon
<1> HIDE DEF upTo
<1>2. h \in [Nat -> S]
  BY <1>1
<1>3. h[0] = s
  BY <1>1 DEF Goes
<1>4. ASSUME NEW k \in Nat PROVE h[k + 1] = G[h[k]]
  <2>1. k \in 0..((k + 1) - 1) /\ k + 1 \in Nat /\ k <= k + 1
    OBVIOUS
  <2>2. upTo(k + 1)[k + 1] = G[upTo(k + 1)[k]]
    BY <1>1, <2>1 DEF Goes
  <2>3. upTo(k + 1)[k] = upTo(k)[k]
    BY <1>1, <2>1, GoesOneWay
  <2> QED
    BY <2>1, <2>2, <2>3
<1> HIDE DEF h
<1>5. IsOrbit(h, S, G, s)
  BY <1>2, <1>3, <1>4 DEF IsOrbit
<1> QED
  BY <1>5, Zenon DEF Orbit

(* A function that goes as the orbit does, for as long as it is in S.       *)
LEMMA OrbitOnly ==
  ASSUME NEW S, NEW G, NEW s, NEW o, IsOrbit(o, S, G, s), NEW n \in Nat, NEW f,
         f[0] = s, \A k \in 0..(n - 1) : f[k] \in S => f[k + 1] = G[f[k]]
  PROVE  \A k \in 0..n : f[k] = o[k]
<1> DEFINE T == {k \in Nat : k <= n => f[k] = o[k]}
<1>1. 0 \in T
  BY DEF IsOrbit
<1>2. ASSUME NEW k \in Nat, k \in T PROVE k + 1 \in T
  <2>1. SUFFICES ASSUME k + 1 <= n PROVE f[k + 1] = o[k + 1]
    OBVIOUS
  <2>2. k \in 0..(n - 1) /\ f[k] = o[k]
    BY <1>2, <2>1
  <2> QED
    BY <2>2 DEF IsOrbit
<1>3. \A k \in Nat : k \in T
  <2> HIDE DEF T
  <2> QED
    BY <1>1, <1>2, Induction
<1> QED
  BY <1>3

LEMMA OrbitFront ==
  ASSUME NEW S, NEW G, NEW s, NEW o, IsOrbit(o, S, G, s),
         NEW p, IsOrbit(p, S, G, G[s]), NEW n \in Nat
  PROVE  o[n + 1] = p[n]
<1> DEFINE f == [k \in Nat |-> o[k + 1]]
<1>1. f[0] = G[s] /\ \A k \in 0..(n - 1) : f[k] \in S => f[k + 1] = G[f[k]]
  <2>1. f[0] = o[1] /\ o[1] = G[o[0]]
    BY DEF IsOrbit
  <2>2. ASSUME NEW k \in 0..(n - 1) PROVE f[k + 1] = G[f[k]]
    <3>1. k \in Nat /\ k + 1 \in Nat
      OBVIOUS
    <3>2. f[k] = o[k + 1] /\ f[k + 1] = o[(k + 1) + 1]
      BY <3>1
    <3> QED
      BY <3>1, <3>2 DEF IsOrbit
  <2>3. o[0] = s
    BY DEF IsOrbit
  <2> QED
    BY <2>1, <2>2, <2>3
<1>2. f[n] = o[n + 1]
  OBVIOUS
<1> HIDE DEF f
<1>3. f[n] = p[n]
  BY <1>1, OrbitOnly
<1> QED
  BY <1>2, <1>3

ClockFunction == [c \in CounterType |-> Clock(c)]

LEMMA ClockedIsOrbit ==
  ASSUME \A c \in CounterType : Clock(c) \in CounterType,
         NEW c \in CounterType, NEW n \in Nat
  PROVE  Clocked(c, n) = Orbit(CounterType, ClockFunction, c)[n]
<1> DEFINE o == Orbit(CounterType, ClockFunction, c)
           f == CHOOSE turn : turn = [k \in 0..n |-> IF k = 0 THEN c ELSE Clock(turn[k - 1])]
           g == [k \in 0..n |-> o[k]]
<1>1. ClockFunction \in [CounterType -> CounterType]
  BY DEF ClockFunction
<1>2. /\ o \in [Nat -> CounterType] /\ o[0] = c
      /\ \A k \in Nat : o[k + 1] = Clock(o[k])
  <2>1. IsOrbit(o, CounterType, ClockFunction, c)
    BY <1>1, OrbitLaws
  <2> HIDE DEF o
  <2> QED
    BY <2>1 DEF IsOrbit, ClockFunction
<1>3. g = [k \in 0..n |-> IF k = 0 THEN c ELSE Clock(g[k - 1])]
  <2> HIDE DEF o
  <2>1. ASSUME NEW k \in 0..n PROVE o[k] = IF k = 0 THEN c ELSE Clock(g[k - 1])
    <3>1. CASE k = 0
      BY <1>2, <3>1
    <3>2. CASE k # 0
      <4>1. k - 1 \in Nat /\ k - 1 \in 0..n /\ (k - 1) + 1 = k
        BY <3>2
      <4>2. g[k - 1] = o[k - 1]
        BY <4>1
      <4> HIDE DEF g
      <4> QED
        BY <1>2, <3>2, <4>1, <4>2
    <3> QED
      BY <3>1, <3>2
  <2> QED
    BY <2>1, Zenon
<1>4. f = [k \in 0..n |-> IF k = 0 THEN c ELSE Clock(f[k - 1])]
  <2> HIDE DEF g
  <2> QED
    BY <1>3, Zenon
<1>5. Clocked(c, n) = f[n]
  BY DEF Clocked, Iterate
<1> HIDE DEF f
<1>6. f[0] = c /\ \A k \in 0..(n - 1) : f[k] \in CounterType => f[k + 1] = ClockFunction[f[k]]
  <2>1. f[0] = c
    BY <1>4
  <2>2. ASSUME NEW k \in 0..(n - 1) PROVE f[k + 1] = Clock(f[k])
    <3>1. k + 1 \in 0..n /\ k + 1 # 0 /\ (k + 1) - 1 = k
      OBVIOUS
    <3> QED
      BY <1>4, <3>1, Zenon
  <2> QED
    BY <2>1, <2>2 DEF ClockFunction
<1> QED
  <2>1. IsOrbit(o, CounterType, ClockFunction, c)
    BY <1>1, OrbitLaws
  <2> HIDE DEF o
  <2>2. f[n] = o[n]
    BY <1>6, <2>1, OrbitOnly
  <2> QED
    BY <1>5, <2>2 DEF o

-----------------------------------------------------------------------------
(* One clock.                                                               *)
(* What no clock changes.                                                   *)
Alike(c, d) ==
  /\ d.gate = c.gate /\ d.mode = c.mode /\ d.written = c.written /\ d.inlatch = c.inlatch
  /\ d.write = c.write /\ d.read = c.read /\ d.outlatch = c.outlatch
  /\ d.lsbLatched = c.lsbLatched /\ d.msbLatched = c.msbLatched
  /\ d.statusLatched = c.statusLatched

LEMMA AlikeTransitive ==
  ASSUME NEW a, NEW b, NEW c, Alike(a, b), Alike(b, c)
  PROVE  Alike(a, c)
  BY Zenon DEF Alike

LEMMA Words ==
  /\ 0 \in Word /\ 1 \in Word
  /\ \A n \in Word : n \in Nat /\ Positive(n) \in Word
  /\ \A n \in Word : Minus(n, 1) \in Word /\ Minus(n, 2) \in Word
<1>1. 0 \in Word /\ 1 \in Word
  BY TopFacts DEF Word
<1>2. ASSUME NEW n \in Word
      PROVE  n \in Nat /\ Positive(n) \in Word /\ Minus(n, 1) \in Word /\ Minus(n, 2) \in Word
  <2>1. n \in Int
    BY TopFacts DEF Word
  <2>2. n \in Nat /\ Positive(n) \in Word
    BY <1>1, <2>1, TopFacts DEF Word, Positive
  <2> QED
    BY <2>1, <2>2, MinusType
<1> QED
  BY <1>1, <1>2

LEMMA Clock0Type ==
  ASSUME NEW c \in CounterType
  PROVE  Clock0(c) \in CounterType /\ Alike(c, Clock0(c))
  BY Words DEF CounterType, Alike, Clock0

LEMMA Clock1Type ==
  ASSUME NEW c \in CounterType
  PROVE  Clock1(c) \in CounterType /\ Alike(c, Clock1(c))
  BY Words DEF CounterType, Alike, Clock1

LEMMA Clock2Type ==
  ASSUME NEW c \in CounterType
  PROVE  Clock2(c) \in CounterType /\ Alike(c, Clock2(c))
  BY Words, ZenonT(40) DEF CounterType, Alike, Clock2

LEMMA Halves ==
  ASSUME NEW n \in Word
  PROVE  /\ n \div 2 \in Nat /\ n % 2 \in {0, 1}
         /\ n = 2 * (n \div 2) + (n % 2)
         /\ n - (n % 2) \in Word
         /\ (n - (n % 2)) \div 2 = n \div 2
<1>1. n \in Nat
  BY Words
<1>2. n \div 2 \in Nat /\ n % 2 \in {0, 1} /\ n = 2 * (n \div 2) + (n % 2)
  BY <1>1
<1>3. (n - (n % 2)) \div 2 = n \div 2
  BY <1>1, <1>2
<1> QED
  BY <1>1, <1>2, <1>3, TopFacts DEF Word

LEMMA ModTop == \A n \in Int : n % Top \in Word
  BY TopFacts, DivMod DEF Word

LEMMA Load3Type ==
  ASSUME NEW c \in CounterType
  PROVE  Load3(c) \in CounterType /\ Alike(c, Load3(c))
<1> DEFINE n == c.inlatch - (c.inlatch % 2)
           b == c.inlatch % 2 = 1
           half == IF ~c.out \/ ~b THEN (n \div 2) - 1 ELSE n \div 2
           x == IF half = 0 THEN 1 ELSE half % Top
           o == IF c.out THEN c.firstPass ELSE TRUE
<1>1. c.inlatch \in Word /\ b \in BOOLEAN /\ o \in BOOLEAN
  BY DEF CounterType
<1>2. n \in Word /\ n \div 2 \in Nat
  BY <1>1, Halves
<1>3. half \in Int
  BY <1>2
<1>4. x \in Word
  <2> HIDE DEF half
  <2> QED
    BY <1>3, ModTop, Words
<1>5. Load3(c) = [c EXCEPT !.count = n, !.odd = b, !.null = FALSE, !.next = x, !.out = o,
                           !.reload = FALSE, !.firstPass = FALSE]
  BY DEF Load3
<1> HIDE DEF n, half, x, o, b
<1>6. Load3(c) \in CounterType
  BY <1>1, <1>2, <1>4, <1>5, ZenonT(40) DEF CounterType
<1>7. Alike(c, Load3(c))
  BY <1>5 DEF CounterType, Alike
<1> QED
  BY <1>6, <1>7

LEMMA Count3Type ==
  ASSUME NEW c \in CounterType
  PROVE  Count3(c) \in CounterType /\ Alike(c, Count3(c))
<1> DEFINE n == Minus(c.count, 2)
           last == n = 0 \/ (n = 2 /\ ~Longer(c))
           half == IF Longer(c) THEN n \div 2 ELSE (n \div 2) - 1
<1>1. c.count \in Word
  BY DEF CounterType
<1>2. n \in Word /\ n \div 2 \in Nat
  BY <1>1, Words, Halves
<1>3. half \in Int
  BY <1>2
<1>4. half % Top \in Word /\ 1 \in Word
  BY <1>3, ModTop, Words
<1>5. Count3(c) = [c EXCEPT !.count = n, !.next = IF last THEN 1 ELSE half % Top, !.reload = @ \/ last]
  BY DEF Count3
<1>6. last \in BOOLEAN
  OBVIOUS
<1> HIDE DEF n, half, last
<1> QED
  BY <1>2, <1>4, <1>5, <1>6 DEF CounterType, Alike

LEMMA Clock3Type ==
  ASSUME NEW c \in CounterType
  PROVE  Clock3(c) \in CounterType /\ Alike(c, Clock3(c))
<1>1. CASE (c.trigger \/ c.firstPass \/ c.reload) /\ c.gate
  BY <1>1, Load3Type DEF Clock3
<1>2. CASE ~(c.trigger \/ c.firstPass \/ c.reload) /\ c.gate
  <2>1. Clock3(c) = Count3(c)
    BY <1>2 DEF Clock3
  <2> QED
    BY <2>1, Count3Type
<1>3. CASE ~c.gate
  <2>1. Clock3(c) = [c EXCEPT !.next = 0]
    BY <1>3 DEF Clock3
  <2> QED
    BY <2>1, Words DEF CounterType, Alike
<1> QED
  BY <1>1, <1>2, <1>3

LEMMA StrobeType ==
  ASSUME NEW c \in CounterType
  PROVE  Strobe(c) \in CounterType /\ Alike(c, Strobe(c))
  BY Words DEF CounterType, Alike, Strobe

LEMMA OutType ==
  ASSUME NEW c \in CounterType
  PROVE  [c EXCEPT !.out = TRUE] \in CounterType /\ Alike(c, [c EXCEPT !.out = TRUE])
  BY DEF CounterType, Alike

LEMMA Clock4Type ==
  ASSUME NEW c \in CounterType
  PROVE  Clock4(c) \in CounterType /\ Alike(c, Clock4(c))
<1> DEFINE h == [c EXCEPT !.out = TRUE]
<1>1. h \in CounterType /\ Alike(c, h) /\ Strobe(h) \in CounterType /\ Alike(h, Strobe(h))
  BY OutType, StrobeType
<1>2. CASE ~c.null /\ c.gate
  <2>1. Clock4(c) = Strobe(h)
    BY <1>2 DEF Clock4
  <2> HIDE DEF h
  <2> QED
    BY <1>1, <2>1, AlikeTransitive, Zenon
<1>3. CASE ~c.null /\ ~c.gate
  <2>1. Clock4(c) = [h EXCEPT !.next = 0]
    BY <1>3 DEF Clock4
  <2> HIDE DEF h
  <2>2. Clock4(c) \in CounterType /\ Alike(h, Clock4(c))
    BY <1>1, <2>1, Words DEF CounterType, Alike
  <2> QED
    BY <1>1, <2>2, AlikeTransitive, Zenon
<1>4. CASE c.null
  <2> DEFINE e == IF c.gate THEN Positive(c.inlatch) ELSE 0
  <2>1. Clock4(c) = [h EXCEPT !.count = c.inlatch, !.null = FALSE, !.firstPass = TRUE, !.next = e]
    BY <1>4 DEF Clock4
  <2>2. c.inlatch \in Word /\ e \in Word
    BY Words DEF CounterType
  <2> HIDE DEF h, e
  <2>3. Clock4(c) \in CounterType /\ Alike(h, Clock4(c))
    BY <1>1, <2>1, <2>2, ZenonT(40) DEF CounterType, Alike
  <2> QED
    BY <1>1, <2>3, AlikeTransitive, Zenon
<1> QED
  BY <1>2, <1>3, <1>4

LEMMA Clock5Type ==
  ASSUME NEW c \in CounterType
  PROVE  Clock5(c) \in CounterType /\ Alike(c, Clock5(c))
<1> DEFINE h == [c EXCEPT !.out = TRUE]
<1>1. h \in CounterType /\ Alike(c, h) /\ Strobe(h) \in CounterType /\ Alike(h, Strobe(h))
  BY OutType, StrobeType
<1>2. Clock5(c) = IF c.trigger THEN [h EXCEPT !.count = c.inlatch, !.next = Positive(c.inlatch), !.null = FALSE,
                 !.firstPass = TRUE] ELSE Strobe(h)
  BY DEF Clock5
<1>3. CASE c.trigger
  <2>1. Clock5(c) = [h EXCEPT !.count = c.inlatch, !.next = Positive(c.inlatch), !.null = FALSE,
                              !.firstPass = TRUE]
    BY <1>2, <1>3
  <2> HIDE DEF h
  <2>2. c.inlatch \in Word /\ Positive(c.inlatch) \in Word
    BY Words DEF CounterType
  <2>3. Clock5(c) \in CounterType /\ Alike(h, Clock5(c))
    BY <1>1, <2>1, <2>2, ZenonT(40) DEF CounterType, Alike
  <2> QED
    BY <1>1, <2>3, AlikeTransitive, Zenon
<1>4. CASE ~c.trigger
  <2>1. Clock5(c) = Strobe(h)
    BY <1>2, <1>4
  <2> HIDE DEF h
  <2> QED
    BY <1>1, <2>1, AlikeTransitive, Zenon
<1> QED
  BY <1>3, <1>4

(* The mode decides what a clock does.                                      *)
ByMode(c) ==
  IF ~c.written THEN [c EXCEPT !.next = 0]
  ELSE CASE c.mode = 0 -> Clock0(c) [] c.mode = 1 -> Clock1(c)
         [] c.mode = 2 -> Clock2(c) [] c.mode = 3 -> Clock3(c)
         [] c.mode = 4 -> Clock4(c) [] c.mode = 5 -> Clock5(c)
         [] OTHER -> [c EXCEPT !.next = 0]

LEMMA ClockByMode ==
  ASSUME NEW c
  PROVE  /\ Clock(c) = [ByMode(c) EXCEPT !.trigger = FALSE]
         /\ ~c.written => ByMode(c) = [c EXCEPT !.next = 0]
         /\ c.written /\ c.mode = 0 => ByMode(c) = Clock0(c)
         /\ c.written /\ c.mode = 1 => ByMode(c) = Clock1(c)
         /\ c.written /\ c.mode = 2 => ByMode(c) = Clock2(c)
         /\ c.written /\ c.mode = 3 => ByMode(c) = Clock3(c)
         /\ c.written /\ c.mode = 4 => ByMode(c) = Clock4(c)
         /\ c.written /\ c.mode = 5 => ByMode(c) = Clock5(c)
         /\ c.written /\ c.mode \in {6, 7} => ByMode(c) = [c EXCEPT !.next = 0]
  BY DEF Clock, ByMode

LEMMA ClockType ==
  ASSUME NEW c \in CounterType
  PROVE  Clock(c) \in CounterType /\ Alike(c, Clock(c)) /\ ~Clock(c).trigger
<1>1. ByMode(c) \in CounterType /\ Alike(c, ByMode(c))
  <2>1. c.mode \in 0..7
    BY DEF CounterType
  <2>2. [c EXCEPT !.next = 0] \in CounterType /\ Alike(c, [c EXCEPT !.next = 0])
    BY Words DEF CounterType, Alike
  <2>3. CASE ~c.written \/ c.mode \in {6, 7}
    BY <2>2, <2>3, ClockByMode
  <2>4. CASE c.written /\ c.mode \in 0..5
    <3> HIDE DEF ByMode
    <3>1. \/ ByMode(c) = Clock0(c) \/ ByMode(c) = Clock1(c) \/ ByMode(c) = Clock2(c)
          \/ ByMode(c) = Clock3(c) \/ ByMode(c) = Clock4(c) \/ ByMode(c) = Clock5(c)
      <4>1. \/ c.mode = 0 \/ c.mode = 1 \/ c.mode = 2 \/ c.mode = 3 \/ c.mode = 4 \/ c.mode = 5
        BY <2>4
      <4> QED
        BY <2>4, <4>1, ClockByMode, Zenon
    <3> QED
      BY <3>1, Clock0Type, Clock1Type, Clock2Type, Clock3Type, Clock4Type, Clock5Type, Zenon
  <2> QED
    BY <2>1, <2>3, <2>4
<1>2. Clock(c) = [ByMode(c) EXCEPT !.trigger = FALSE]
  BY ClockByMode
<1> DEFINE d == ByMode(c)
<1>3. d \in CounterType /\ Alike(c, d) /\ Clock(c) = [d EXCEPT !.trigger = FALSE]
  BY <1>1, <1>2
<1> HIDE DEF d
<1>4. Clock(c) \in CounterType /\ Alike(d, Clock(c)) /\ ~Clock(c).trigger
  BY <1>3 DEF CounterType, Alike
<1> QED
  BY <1>3, <1>4, AlikeTransitive, Zenon
-----------------------------------------------------------------------------
(* What the announced time says holds after any clock.                      *)
LEMMA MinusOne ==
  ASSUME NEW n \in Word
  PROVE  Minus(n, 1) = IF n = 0 THEN Top - 1 ELSE n - 1
<1>1. n \in Nat /\ n < Top
  BY TopFacts DEF Word
<1>2. CASE n = 0
  <2>1. Minus(n, 1) = n - 1 + Top
    BY <1>2, TopFacts, MinusWraps
  <2> QED
    BY <1>2, <2>1, TopFacts
<1>3. CASE n # 0
  BY <1>1, <1>3, MinusSmall
<1> QED
  BY <1>2, <1>3

LEMMA MinusTwo ==
  ASSUME NEW n \in Word
  PROVE  Minus(n, 2) = IF n < 2 THEN n - 2 + Top ELSE n - 2
<1>1. n \in Nat /\ n < Top
  BY TopFacts DEF Word
<1>2. CASE n < 2
  BY <1>2, TopFacts, MinusWraps
<1>3. CASE ~(n < 2)
  BY <1>1, <1>3, MinusSmall
<1> QED
  BY <1>2, <1>3

LEMMA Clock0Told ==
  ASSUME NEW c \in CounterType, c.mode = 0, c.written
  PROVE  Told0(Clock(c))
<1>1. Clock(c) = [Clock0(c) EXCEPT !.trigger = FALSE]
  BY ClockByMode
<1>2. c.count \in Word /\ c.inlatch \in Word
  BY DEF CounterType
<1>3. Minus(c.count, 1) \in Word
  BY <1>2, Words
<1> QED
  BY <1>1, <1>2, <1>3, Words, TopFacts DEF CounterType, Told0, Clock0, Half, Positive, Word

LEMMA Clock1Told ==
  ASSUME NEW c \in CounterType, c.mode = 1, c.written
  PROVE  Told1(Clock(c))
<1>1. Clock(c) = [Clock1(c) EXCEPT !.trigger = FALSE]
  BY ClockByMode
<1>2. c.count \in Word /\ c.inlatch \in Word
  BY DEF CounterType
<1>3. Minus(c.count, 1) \in Word
  BY <1>2, Words
<1> QED
  BY <1>1, <1>2, <1>3, Words, TopFacts DEF CounterType, Told1, Clock1, Half, Positive, Word

LEMMA Clock2Told ==
  ASSUME NEW c \in CounterType, c.mode = 2, c.written
  PROVE  Told2(Clock(c))
<1>1. Clock(c) = [Clock2(c) EXCEPT !.trigger = FALSE]
  BY ClockByMode
<1> DEFINE n == Minus(c.count, 1)
<1>2. c.count \in Word /\ c.inlatch \in Word
  BY DEF CounterType
<1>3. n \in Word /\ Minus(n, 1) \in Word /\ Minus(c.inlatch, 1) \in Word
  BY <1>2, Words
<1>4. /\ n # 1 => Minus(n, 1) # 0
      /\ c.inlatch # 1 => Minus(c.inlatch, 1) # 0
  BY <1>2, <1>3, MinusOne, TopFacts DEF Word
<1> QED
  BY <1>1, <1>2, <1>3, <1>4, Words, TopFacts DEF CounterType, Told2, Clock2, Half, Word

LEMMA Clock4Told ==
  ASSUME NEW c \in CounterType, c.mode = 4, c.written
  PROVE  Told4(Clock(c))
<1>1. Clock(c) = [Clock4(c) EXCEPT !.trigger = FALSE]
  BY ClockByMode
<1>2. c.count \in Word /\ c.inlatch \in Word
  BY DEF CounterType
<1>3. Minus(c.count, 1) \in Word
  BY <1>2, Words
<1> QED
  BY <1>1, <1>2, <1>3, Words, TopFacts DEF CounterType, Told4, Clock4, Strobe, Half, Positive, Word

LEMMA Clock5Told ==
  ASSUME NEW c \in CounterType, c.mode = 5, c.written
  PROVE  Told5(Clock(c))
<1>1. Clock(c) = [Clock5(c) EXCEPT !.trigger = FALSE]
  BY ClockByMode
<1>2. c.count \in Word /\ c.inlatch \in Word
  BY DEF CounterType
<1>3. Minus(c.count, 1) \in Word
  BY <1>2, Words
<1> QED
  BY <1>1, <1>2, <1>3, Words, TopFacts DEF CounterType, Told5, Clock5, Strobe, Half, Positive, Word
(* The halves of an even count.                                             *)
LEMMA EvenHalves ==
  ASSUME NEW n \in Word, Even(n)
  PROVE  /\ n \div 2 \in Nat /\ n = 2 * (n \div 2)
         /\ n > 0 => n >= 2 /\ ((n \div 2) - 1) % Top = (n \div 2) - 1
         /\ n \div 2 < Top /\ (n \div 2) % Top = n \div 2
         /\ Even(Minus(n, 2))
<1> DEFINE h == n \div 2
<1>1. n \in Nat /\ n < Top /\ n \div 2 \in Nat /\ n = 2 * (n \div 2)
  BY TopFacts DEF Word, Even
<1>2. \A k \in Word : k % Top = k
  <2> SUFFICES ASSUME NEW k \in Word PROVE k % Top = k
    OBVIOUS
  <2>1. k \in 0..(Top - 1) /\ Top * 0 + k = k
    BY TopFacts DEF Word
  <2> QED
    BY <2>1, TopFacts, ModUnique
<1>3. n \div 2 \in Word /\ (n > 0 => (n \div 2) - 1 \in Word)
  BY <1>1, TopFacts DEF Word
<1>4. Even(Minus(n, 2))
  <2>1. Top \in Nat /\ Top % 2 = 0 /\ n % 2 = 0
    BY TopFacts DEF Even
  <2>2. Minus(n, 2) = n - 2 + Top \/ Minus(n, 2) = n - 2
    BY MinusTwo
  <2> QED
    BY <1>1, <2>1, <2>2 DEF Even
<1>5. h % Top = h /\ (n > 0 => (h - 1) % Top = h - 1)
  BY <1>2, <1>3
<1>6. h \in Nat /\ n = 2 * h
  BY <1>1
<1> HIDE DEF h
<1>7. h < Top /\ (n > 0 => n >= 2)
  BY <1>1, <1>6, TopFacts
<1> QED
  BY <1>4, <1>5, <1>6, <1>7 DEF h

LEMMA Load3Even ==
  ASSUME NEW c \in CounterType, c.inlatch # 0, Even(c.inlatch)
  PROVE  Load3(c) = [c EXCEPT !.count = c.inlatch, !.odd = FALSE, !.null = FALSE,
                       !.next = IF c.inlatch = 2 THEN 1 ELSE (c.inlatch \div 2) - 1,
                       !.out = IF c.out THEN c.firstPass ELSE TRUE,
                       !.reload = FALSE, !.firstPass = FALSE]
<1> DEFINE h == c.inlatch \div 2
           e == IF h - 1 = 0 THEN 1 ELSE (h - 1) % Top
<1>1. c.inlatch \in Word /\ c.inlatch \in Nat
  BY Words DEF CounterType
<1>2. h \in Nat /\ c.inlatch = 2 * h /\ (h - 1) % Top = h - 1
  BY <1>1, EvenHalves
<1>3. c.inlatch % 2 = 0 /\ c.inlatch - (c.inlatch % 2) = c.inlatch
  BY <1>1 DEF Even
<1>4. Load3(c) = [c EXCEPT !.count = c.inlatch, !.odd = FALSE, !.null = FALSE,
                       !.next = e,
                       !.out = IF c.out THEN c.firstPass ELSE TRUE,
                       !.reload = FALSE, !.firstPass = FALSE]
  <2>1. (c.inlatch % 2 = 1) = FALSE
    BY <1>3
  <2> QED
    BY <1>3, <2>1 DEF Load3
<1>5. e = IF c.inlatch = 2 THEN 1 ELSE h - 1
  <2> HIDE DEF h
  <2> QED
    BY <1>2
<1> HIDE DEF e
<1> QED
  BY <1>4, <1>5

LEMMA Count3Even ==
  ASSUME NEW c \in CounterType, Even(c.count)
  PROVE  \E n \in Word, next \in Word, last \in BOOLEAN :
           /\ n = Minus(c.count, 2) /\ Even(n)
           /\ last <=> n = 0 \/ (n = 2 /\ ~Longer(c))
           /\ ~last => n = IF Longer(c) THEN 2 * next ELSE 2 * next + 2
           /\ last => next = 1
           /\ next # 0
           /\ Count3(c) = [c EXCEPT !.count = n, !.next = next, !.reload = c.reload \/ last]
<1> DEFINE n == Minus(c.count, 2)
           last == n = 0 \/ (n = 2 /\ ~Longer(c))
           h == n \div 2
           half == IF Longer(c) THEN h ELSE h - 1
           next == IF last THEN 1 ELSE half % Top
<1>1. c.count \in Word
  BY DEF CounterType
<1>2. n \in Word /\ Even(n)
  BY <1>1, Words, EvenHalves
<1>3. n \in Nat /\ h \in Nat /\ n = 2 * h /\ h < Top /\ h % Top = h /\ (n > 0 => (h - 1) % Top = h - 1)
  BY <1>2, Words, EvenHalves
<1>4. Count3(c) = [c EXCEPT !.count = n, !.next = next, !.reload = c.reload \/ last]
  BY DEF Count3
<1>5. last \in BOOLEAN
  OBVIOUS
<1>6. last <=> n = 0 \/ (n = 2 /\ ~Longer(c))
  OBVIOUS
<1> HIDE DEF n, h
<1>7. /\ next \in Word /\ next # 0
      /\ ~last => n = IF Longer(c) THEN 2 * next ELSE 2 * next + 2
      /\ last => next = 1
  BY <1>3, TopFacts DEF Word
<1> HIDE DEF last, next
<1> QED
  BY <1>2, <1>4, <1>5, <1>6, <1>7 DEF n

LEMMA Clock3Told ==
  ASSUME NEW c \in CounterType, c.mode = 3, c.written, Told3(c)
  PROVE  Told3(Clock(c))
<1> SUFFICES ASSUME ~Half(Clock(c)), Clock(c).inlatch # 0, Even(Clock(c).inlatch)
             PROVE  Told3(Clock(c))
  BY DEF Told3
<1>1. Clock(c) = [Clock3(c) EXCEPT !.trigger = FALSE] /\ Clock(c) \in CounterType
  BY ClockByMode, ClockType
<1>2. ~Half(c) /\ c.inlatch # 0 /\ Even(c.inlatch)
  <2>1. Clock(c).inlatch = c.inlatch /\ Clock(c).write = c.write
    BY ClockType DEF Alike
  <2> QED
    BY <2>1 DEF Half
<1>3. Even(c.count)
  BY <1>2 DEF Told3
<1>4. CASE (c.trigger \/ c.firstPass \/ c.reload) /\ c.gate
  <2> DEFINE h == c.inlatch \div 2
  <2>1. Clock3(c) = Load3(c)
    BY <1>4 DEF Clock3
  <2>2. c.inlatch \in Nat /\ c.inlatch = 2 * h /\ h \in Nat
    BY <1>2, EvenHalves, Words DEF CounterType
  <2> HIDE DEF h
  <2>3. Clock3(c) = [c EXCEPT !.count = c.inlatch, !.odd = FALSE, !.null = FALSE,
                       !.next = IF c.inlatch = 2 THEN 1 ELSE h - 1,
                       !.out = IF c.out THEN c.firstPass ELSE TRUE,
                       !.reload = FALSE, !.firstPass = FALSE]
    BY <1>2, <2>1, Load3Even DEF h
  <2> QED
    BY <1>1, <1>2, <1>4, <2>2, <2>3 DEF CounterType, Told3, Longer
<1>5. CASE ~(c.trigger \/ c.firstPass \/ c.reload) /\ c.gate
  <2>1. Clock3(c) = Count3(c)
    BY <1>5 DEF Clock3
  <2>2. PICK n \in Word, next \in Word, last \in BOOLEAN :
           /\ n = Minus(c.count, 2) /\ Even(n)
           /\ last <=> n = 0 \/ (n = 2 /\ ~Longer(c))
           /\ ~last => n = IF Longer(c) THEN 2 * next ELSE 2 * next + 2
           /\ last => next = 1
           /\ next # 0
           /\ Count3(c) = [c EXCEPT !.count = n, !.next = next, !.reload = c.reload \/ last]
    BY <1>3, Count3Even
  <2> QED
    BY <1>1, <1>2, <1>5, <2>1, <2>2 DEF CounterType, Told3, Longer
<1>6. CASE ~c.gate
  <2>1. Clock3(c) = [c EXCEPT !.next = 0]
    BY <1>6 DEF Clock3
  <2> QED
    BY <1>1, <1>2, <1>3, <1>6, <2>1 DEF CounterType, Told3
<1> QED
  BY <1>4, <1>5, <1>6

LEMMA ClockTold ==
  ASSUME NEW c \in CounterType, Told(c)
  PROVE  Told(Clock(c))
<1>1. /\ Clock(c) \in CounterType
      /\ Clock(c).written = c.written /\ Clock(c).mode = c.mode /\ Clock(c).write = c.write
  BY ClockType DEF Alike
<1>2. CASE ~c.written
  <2>1. Clock(c) = [[c EXCEPT !.next = 0] EXCEPT !.trigger = FALSE]
    BY <1>2, ClockByMode
  <2> QED
    BY <1>2, <2>1 DEF CounterType, Told, Told0, Told1, Told2, Told3, Told4, Told5, Half
<1>3. CASE c.written
  BY <1>1, <1>3, Clock0Told, Clock1Told, Clock2Told, Clock3Told, Clock4Told, Clock5Told DEF Told
<1> QED
  BY <1>2, <1>3 DEF CounterType
-----------------------------------------------------------------------------
(* A running counter stays in its period.                                   *)
LEMMA PeriodFacts ==
  ASSUME NEW c \in CounterType
  PROVE  /\ c.mode = 2 => (Oscillates(c) <=> /\ c.written /\ c.gate /\ ~c.null /\ ~c.trigger /\ ~Half(c)
                                             /\ c.inlatch # 1)
         /\ c.mode = 3 => (Oscillates(c) <=> /\ c.written /\ c.gate /\ ~c.null /\ ~c.trigger /\ ~Half(c)
                                             /\ c.inlatch > 2 /\ Even(c.inlatch))
         /\ Oscillates(c) => c.mode \in {2, 3}
  BY DEF Oscillates, Even

LEMMA Clock2Paced ==
  ASSUME NEW c \in CounterType, c.mode = 2, c.written, Paced2(c)
  PROVE  Paced2(Clock(c))
<1>1. Clock(c) = [Clock2(c) EXCEPT !.trigger = FALSE] /\ Clock(c) \in CounterType
  BY ClockByMode, ClockType
<1> DEFINE n == Minus(c.count, 1)
<1>2. c.count \in Word /\ c.inlatch \in Word
  BY DEF CounterType
<1>3. n \in Word /\ n = IF c.count = 0 THEN Top - 1 ELSE c.count - 1
  BY <1>2, Words, MinusOne
<1>4. Clock(c).mode = 2
  BY ClockType DEF Alike
<1>5. SUFFICES ASSUME Clock(c).gate, ~Clock(c).null, ~Half(Clock(c)), Clock(c).inlatch # 1
               PROVE  Paced2(Clock(c))
  BY <1>1, <1>4, PeriodFacts DEF Paced2
<1>6. c.gate /\ ~Half(c) /\ c.inlatch # 1
  BY <1>5, ClockType DEF Alike, Half
<1>7. CASE c.trigger \/ c.firstPass
  BY <1>1, <1>2, <1>6, <1>7, TopFacts DEF CounterType, Paced2, Clock2, Word
<1>8. CASE ~(c.trigger \/ c.firstPass)
  <2>1. Clock2(c).null = c.null
    BY <1>6, <1>8 DEF Clock2, CounterType
  <2>2. ~c.null
    BY <1>1, <1>5, <2>1, Clock2Type DEF CounterType
  <2>3. Oscillates(c)
    BY <1>6, <1>8, <2>2, PeriodFacts
  <2>4. c.out /\ c.count # 1 /\ (c.inlatch # 0 => c.count \in 2 .. c.inlatch)
    BY <1>8, <2>3 DEF Paced2
  <2> HIDE DEF n
  <2>5. Clock2(c) = IF n = 1 THEN [c EXCEPT !.count = 1, !.next = 1, !.out = FALSE, !.firstPass = TRUE]
                    ELSE [c EXCEPT !.count = n, !.next = Minus(n, 1)]
    BY <1>6, <1>8 DEF Clock2, n
  <2> QED
    BY <1>1, <1>2, <1>3, <1>8, <2>4, <2>5, TopFacts DEF CounterType, Paced2, Word
<1> QED
  BY <1>7, <1>8

LEMMA Clock3Paced ==
  ASSUME NEW c \in CounterType, c.mode = 3, c.written, Told3(c), Paced3(c)
  PROVE  Paced3(Clock(c))
<1>1. Clock(c) = [Clock3(c) EXCEPT !.trigger = FALSE] /\ Clock(c) \in CounterType
  BY ClockByMode, ClockType
<1>2. Clock(c).mode = 3
  BY ClockType DEF Alike
<1>3. SUFFICES ASSUME Clock(c).gate, ~Clock(c).null, ~Half(Clock(c)),
                      Clock(c).inlatch > 2, Even(Clock(c).inlatch)
               PROVE  Paced3(Clock(c))
  BY <1>1, <1>2, PeriodFacts DEF Paced3
<1>4. c.gate /\ ~Half(c) /\ c.inlatch > 2 /\ Even(c.inlatch) /\ c.inlatch \in Nat
  <2>1. c.inlatch \in Nat
    BY Words DEF CounterType
  <2> QED
    BY <1>3, <2>1, ClockType DEF Alike, Half
<1>5. Even(c.count)
  BY <1>4 DEF Told3
<1>6. CASE c.trigger \/ c.firstPass \/ c.reload
  <2> DEFINE h == c.inlatch \div 2
             e == IF c.inlatch = 2 THEN 1 ELSE h - 1
  <2>1. Clock3(c) = Load3(c)
    BY <1>4, <1>6 DEF Clock3
  <2>2. Clock3(c) = [c EXCEPT !.count = c.inlatch, !.odd = FALSE, !.null = FALSE,
                       !.next = e,
                       !.out = IF c.out THEN c.firstPass ELSE TRUE,
                       !.reload = FALSE, !.firstPass = FALSE]
    <3>1. c.inlatch # 0 /\ Even(c.inlatch)
      BY <1>4
    <3> QED
      BY <2>1, <3>1, Load3Even, Zenon
  <2> HIDE DEF e
  <2> QED
    BY <1>1, <1>4, <2>2 DEF CounterType, Paced3
<1>7. CASE ~(c.trigger \/ c.firstPass \/ c.reload)
  <2>1. Clock3(c) = Count3(c)
    BY <1>4, <1>7 DEF Clock3
  <2>2. PICK n \in Word, next \in Word, last \in BOOLEAN :
           /\ n = Minus(c.count, 2) /\ Even(n)
           /\ last <=> n = 0 \/ (n = 2 /\ ~Longer(c))
           /\ ~last => n = IF Longer(c) THEN 2 * next ELSE 2 * next + 2
           /\ last => next = 1
           /\ next # 0
           /\ Count3(c) = [c EXCEPT !.count = n, !.next = next, !.reload = c.reload \/ last]
    BY <1>5, Count3Even
  <2>3. ~c.null
    BY <1>1, <1>3, <2>1, <2>2 DEF CounterType
  <2>4. Oscillates(c)
    BY <1>4, <1>7, <2>3, PeriodFacts
  <2>5. ~c.odd /\ c.count \in 2 .. c.inlatch /\ c.count # 2
    BY <1>7, <2>4 DEF Paced3
  <2>6. n = c.count - 2 /\ n >= 2
    <3>1. c.count \in Word /\ c.count \in Nat /\ c.count >= 4
      BY <1>4, <1>5, <2>5 DEF CounterType, Even
    <3> QED
      BY <2>2, <3>1, MinusTwo
  <2>7. last <=> n = 2
    BY <2>2, <2>5, <2>6 DEF Longer
  <2> QED
    BY <1>1, <1>4, <1>7, <2>1, <2>2, <2>5, <2>6, <2>7 DEF CounterType, Paced3
<1> QED
  BY <1>6, <1>7

LEMMA ClockPaced ==
  ASSUME NEW c \in CounterType, Told(c), Paced(c)
  PROVE  Paced(Clock(c))
<1>1. Clock(c) \in CounterType /\ Clock(c).written = c.written /\ Clock(c).mode = c.mode
  BY ClockType DEF Alike
<1>2. CASE ~c.written
  BY <1>1, <1>2, PeriodFacts DEF Paced, Paced2, Paced3, Oscillates
<1>3. CASE c.written
  BY <1>1, <1>3, Clock2Paced, Clock3Paced DEF Paced, Told
<1> QED
  BY <1>2, <1>3 DEF CounterType
-----------------------------------------------------------------------------
(* The clocks that only lower the count.                                    *)
Waits(c, k) == [Lower(c, Step(c) * k) EXCEPT !.next = @ - k]

LEMMA Steps ==
  ASSUME NEW c, NEW k \in Nat
  PROVE  /\ Step(c) \in {1, 2} /\ (c.mode = 3 => Step(c) = 2) /\ (c.mode # 3 => Step(c) = 1)
         /\ Step(c) * k \in Nat
         /\ Step(c) = 1 => Step(c) * k = k
         /\ Step(c) = 2 => Step(c) * k = 2 * k
<1>1. Step(c) \in {1, 2} /\ (c.mode = 3 => Step(c) = 2) /\ (c.mode # 3 => Step(c) = 1)
  BY DEF Step
<1>2. /\ Step(c) * k \in Nat
      /\ Step(c) = 1 => Step(c) * k = k
      /\ Step(c) = 2 => Step(c) * k = 2 * k
  <2> DEFINE s == Step(c)
  <2> HIDE DEF s
  <2>1. s \in {1, 2}
    BY <1>1 DEF s
  <2>2. CASE s = 1
    BY <2>2 DEF s
  <2>3. CASE s = 2
    BY <2>3 DEF s
  <2> QED
    BY <2>1, <2>2, <2>3
<1> QED
  BY <1>1, <1>2

LEMMA LowerType ==
  ASSUME NEW c \in CounterType, NEW n \in Int
  PROVE  /\ Lower(c, n) \in CounterType
         /\ Lower(c, n) = [c EXCEPT !.count = Minus(c.count, n)]
         /\ Minus(c.count, n) \in Word
<1>1. c.count \in Int
  BY Words DEF CounterType
<1>2. Minus(c.count, n) \in Word
  BY <1>1, MinusType
<1>3. Lower(c, n) = [c EXCEPT !.count = Minus(c.count, n)]
  BY DEF Lower
<1> QED
  BY <1>2, <1>3 DEF CounterType

LEMMA MinusZero ==
  ASSUME NEW n \in Word PROVE Minus(n, 0) = n
<1>1. n \in Nat /\ 0 <= n /\ n - 0 = n
  BY Words
<1> QED
  BY <1>1, MinusSmall

LEMMA WaitsType ==
  ASSUME NEW c \in CounterType, NEW k \in Nat, k < c.next
  PROVE  /\ Waits(c, k) = [c EXCEPT !.count = Minus(c.count, Step(c) * k), !.next = c.next - k]
         /\ Waits(c, k) \in CounterType
         /\ Minus(c.count, Step(c) * k) \in Word
         /\ c.next - k \in Word
<1>1. Step(c) * k \in Nat
  BY Steps
<1>2. /\ Lower(c, Step(c) * k) = [c EXCEPT !.count = Minus(c.count, Step(c) * k)]
      /\ Minus(c.count, Step(c) * k) \in Word
  BY <1>1, LowerType
<1>3. c.next - k \in Word
  BY TopFacts DEF CounterType, Word
<1>4. Waits(c, k) = [c EXCEPT !.count = Minus(c.count, Step(c) * k), !.next = c.next - k]
  BY <1>2 DEF Waits, CounterType
<1> QED
  BY <1>2, <1>3, <1>4 DEF CounterType

LEMMA WaitsNone ==
  ASSUME NEW c \in CounterType, 0 < c.next
  PROVE  Waits(c, 0) = c /\ Lower(c, Step(c) * 0) = c
<1>1. Step(c) * 0 = 0
  BY Steps
<1>2. Minus(c.count, Step(c) * 0) = c.count /\ c.next - 0 = c.next
  <2>1. c.count \in Word /\ c.next \in Nat
    BY Words DEF CounterType
  <2>2. c.next - 0 = c.next
    BY <2>1
  <2> QED
    BY <1>1, <2>1, <2>2, MinusZero
<1>3. Waits(c, 0) = [c EXCEPT !.count = Minus(c.count, Step(c) * 0), !.next = c.next - 0]
  BY WaitsType
<1>4. Lower(c, Step(c) * 0) = [c EXCEPT !.count = Minus(c.count, Step(c) * 0)]
  BY <1>1, LowerType
<1>5. Waits(c, 0) = [c EXCEPT !.count = c.count, !.next = c.next]
  BY <1>2, <1>3
<1>6. Lower(c, Step(c) * 0) = [c EXCEPT !.count = c.count]
  BY <1>2, <1>4
<1>7. [c EXCEPT !.count = c.count, !.next = c.next] = c /\ [c EXCEPT !.count = c.count] = c
  BY DEF CounterType
<1> QED
  BY <1>5, <1>6, <1>7

LEMMA WaitsTold ==
  ASSUME NEW c \in CounterType, Told(c), NEW k \in Nat, k < c.next
  PROVE  Told(Waits(c, k))
<1>1. CASE k = 0
  BY <1>1, WaitsNone
<1>2. CASE k # 0
  <2> DEFINE m == Minus(c.count, Step(c) * k)
             d == Waits(c, k)
  <2>1. d = [c EXCEPT !.count = m, !.next = c.next - k] /\ m \in Word /\ d \in CounterType
    BY WaitsType
  <2>2. c.next > 1 /\ c.next \in Nat /\ c.count \in Word /\ c.count \in Nat
    BY <1>2, Words DEF CounterType
  <2>3. c.mode # 3 => m = Minus(c.count, k)
    BY Steps
  <2>4. c.mode # 3 /\ c.count = c.next => m = c.count - k
    BY <2>2, <2>3, MinusSmall
  <2>5. c.mode = 2 /\ Minus(c.count, 1) = c.next => Minus(m, 1) = c.next - k
    <3>1. Minus(Minus(c.count, k), 1) = Minus(c.count, k + 1)
      BY <2>2, MinusMinus
    <3>2. Minus(Minus(c.count, 1), k) = Minus(c.count, 1 + k)
      BY <2>2, MinusMinus
    <3>3. c.next \in Word
      BY DEF CounterType
    <3>4. Minus(c.next, k) = c.next - k
      BY <2>2, <3>3, MinusSmall
    <3>5. k + 1 = 1 + k
      OBVIOUS
    <3> QED
      BY <2>3, <3>1, <3>2, <3>4, <3>5
  <2>6. c.mode = 3 /\ c.count >= 2 * c.next => m = c.count - 2 * k
    <3>1. c.mode = 3 => m = Minus(c.count, 2 * k)
      BY Steps
    <3>2. c.count >= 2 * c.next => 2 * k <= c.count /\ 2 * k \in Nat
      BY <2>2
    <3> QED
      BY <2>2, <3>1, <3>2, MinusSmall
  <2> HIDE DEF m
  <2>7. Told0(c) /\ c.mode = 0 => Told0(d)
    BY <2>1, <2>2, <2>4 DEF CounterType, Told0, Half
  <2>8. Told1(c) /\ c.mode = 1 => Told1(d)
    BY <2>1, <2>2, <2>4 DEF CounterType, Told1
  <2>9. Told2(c) /\ c.mode = 2 => Told2(d)
    BY <2>1, <2>2, <2>5 DEF CounterType, Told2, Half
  <2>10. Told3(c) /\ c.mode = 3 => Told3(d)
    BY <2>1, <2>2, <2>6 DEF CounterType, Told3, Half, Longer, Even
  <2>11. Told4(c) /\ c.mode = 4 => Told4(d)
    BY <2>1, <2>2, <2>4 DEF CounterType, Told4, Half
  <2>12. Told5(c) /\ c.mode = 5 => Told5(d)
    BY <2>1, <2>2, <2>4 DEF CounterType, Told5
  <2>13. d.mode = c.mode /\ d.written = c.written /\ (Half(d) <=> Half(c))
    BY <2>1 DEF CounterType, Half
  <2>14. c.written \/ Half(c)
    BY <2>2 DEF Told
  <2> SUFFICES Told(d)
    OBVIOUS
  <2> HIDE DEF d
  <2> QED
    BY <2>7, <2>8, <2>9, <2>10, <2>11, <2>12, <2>13, <2>14, Zenon DEF Told
<1> QED
  BY <1>1, <1>2

LEMMA WaitsPaced ==
  ASSUME NEW c \in CounterType, Told(c), Paced(c), NEW k \in Nat, k < c.next
  PROVE  Paced(Waits(c, k))
<1>1. CASE k = 0
  BY <1>1, WaitsNone
<1>2. CASE k # 0
  <2> DEFINE m == Minus(c.count, Step(c) * k)
             d == Waits(c, k)
  <2>1. d = [c EXCEPT !.count = m, !.next = c.next - k] /\ m \in Word /\ d \in CounterType
    BY WaitsType
  <2>2. /\ c.next > 1 /\ c.next \in Nat /\ c.next \in Word
        /\ c.count \in Word /\ c.count \in Nat /\ c.inlatch \in Word /\ c.inlatch \in Nat
    BY <1>2, Words DEF CounterType
  <2> SUFFICES Paced(d)
    OBVIOUS
  <2>3. Oscillates(d) <=> Oscillates(c)
    BY <2>1 DEF CounterType, Oscillates, Half
  <2>7. /\ d.count = m /\ d.out = c.out /\ d.firstPass = c.firstPass /\ d.inlatch = c.inlatch
        /\ d.odd = c.odd /\ d.reload = c.reload
    BY <2>1 DEF CounterType
  <2>4. ASSUME c.mode = 2, Oscillates(c) PROVE Paced2(d)
    <3>1. ~c.firstPass /\ Minus(c.count, 1) = c.next
      BY <2>2, <2>4, PeriodFacts DEF Told, Told2
    <3>2. c.out /\ c.count # 1 /\ (c.inlatch # 0 => c.count \in 2 .. c.inlatch)
      BY <2>4, <3>1 DEF Paced, Paced2
    <3>3. m = Minus(c.count, k)
      BY <2>4, Steps
    <3>4. CASE c.count = 0
      <4>1. c.next = Top - 1
        BY <2>2, <3>1, <3>4, MinusOne
      <4>2. m = Top - k
        <5>1. m = c.count - k + Top
          BY <1>2, <2>2, <3>3, <3>4, <4>1, TopFacts, MinusWraps
        <5> QED
          BY <3>4, <5>1, TopFacts
      <4>3. m # 1 /\ c.inlatch = 0
        BY <3>2, <3>4, <4>1, <4>2, TopFacts
      <4> HIDE DEF m
      <4> QED
        BY <2>1, <3>1, <3>2, <4>3 DEF CounterType, Paced2
    <3>5. CASE c.count # 0
      <4>1. c.count = c.next + 1
        BY <2>2, <3>1, <3>5, MinusOne
      <4>2. m = c.count - k
        BY <2>2, <3>3, <4>1, MinusSmall
      <4>3. m \in Nat /\ m >= 2 /\ m <= c.count
        BY <2>2, <4>1, <4>2
      <4> HIDE DEF m, d
      <4> QED
        BY <2>2, <2>7, <3>1, <3>2, <4>3 DEF Paced2
    <3> QED
      BY <3>4, <3>5
  <2>5. ASSUME c.mode = 3, Oscillates(c) PROVE Paced3(d)
    <3>1. ~c.firstPass /\ ~c.odd /\ c.count \in 2 .. c.inlatch
      BY <2>5 DEF Paced, Paced3
    <3>2. ~c.reload /\ c.count = 2 * c.next + 2
      <4>1. /\ c.written /\ ~Half(c) /\ c.inlatch # 0 /\ Even(c.inlatch)
        BY <2>2, <2>5, PeriodFacts
      <4> QED
        BY <2>2, <2>5, <3>1, <4>1 DEF Told, Told3, Longer
    <3>3. m = Minus(c.count, 2 * k)
      BY <2>5, Steps
    <3>4. m = c.count - 2 * k
      BY <2>2, <3>2, <3>3, MinusSmall
    <3>5. m \in Nat /\ m > 2 /\ m <= c.count
      BY <2>2, <3>2, <3>4
    <3> HIDE DEF m, d
    <3>6. m \in 2 .. c.inlatch /\ m # 2
      BY <2>1, <2>2, <3>1, <3>5
    <3> QED
      BY <2>7, <3>1, <3>2, <3>6, Zenon DEF Paced3
  <2>6. d.mode = c.mode
    BY <2>1 DEF CounterType
  <2> HIDE DEF d
  <2> QED
    BY <2>3, <2>4, <2>5, <2>6, Zenon DEF Paced, Paced2, Paced3
<1> QED
  BY <1>1, <1>2

(* A counter that waits for nothing.                                        *)
LEMMA IdleTold ==
  ASSUME NEW c \in CounterType, Told(c), Paced(c), c.next = 0, Runs(c), NEW n \in Nat
  PROVE  /\ Lower(c, Step(c) * n) \in CounterType
         /\ Told(Lower(c, Step(c) * n)) /\ Paced(Lower(c, Step(c) * n))
<1> DEFINE m == Minus(c.count, Step(c) * n)
           d == Lower(c, Step(c) * n)
<1>1. d = [c EXCEPT !.count = m] /\ m \in Word /\ d \in CounterType
  BY Steps, LowerType
<1> HIDE DEF m
<1>2. Told0(c) /\ c.mode = 0 => Told0(d)
  BY <1>1 DEF CounterType, Told0, Half
<1>3. Told1(c) /\ c.mode = 1 => Told1(d)
  BY <1>1 DEF CounterType, Told1
<1>4. Told2(c) /\ c.mode = 2 => Told2(d)
  BY <1>1 DEF CounterType, Told2, Half
<1>5. Told3(c) /\ c.mode = 3 => Told3(d)
  BY <1>1 DEF CounterType, Told3, Half, Runs
<1>6. Told4(c) /\ c.mode = 4 => Told4(d)
  BY <1>1 DEF CounterType, Told4, Half
<1>7. Told5(c) /\ c.mode = 5 => Told5(d)
  BY <1>1 DEF CounterType, Told5
<1>8. d.mode = c.mode /\ d.written = c.written /\ (Half(d) <=> Half(c)) /\ d.next = c.next
  BY <1>1 DEF CounterType, Half
<1>9. Oscillates(d) => Oscillates(c)
  BY <1>1 DEF CounterType, Oscillates, Half
<1>10. ~Oscillates(c)
  <2>1. c.inlatch \in Nat
    BY Words DEF CounterType
  <2> QED
    BY <2>1, PeriodFacts DEF Told, Told2, Told3
<1> SUFFICES d \in CounterType /\ Told(d) /\ Paced(d)
  OBVIOUS
<1> HIDE DEF d
<1>11. Told(d)
  BY <1>2, <1>3, <1>4, <1>5, <1>6, <1>7, <1>8, Zenon DEF Told
<1> QED
  BY <1>1, <1>9, <1>10, <1>11, Zenon DEF Paced, Paced2, Paced3
-----------------------------------------------------------------------------
(* The turns of the loop of clock_multiple.  A clock does not look at the   *)
(* announced time.                                                          *)
LEMMA ClockTimeless ==
  ASSUME NEW c \in CounterType, NEW e \in Word
  PROVE  Clock([c EXCEPT !.next = e]) = Clock(c)
<1> DEFINE d == [c EXCEPT !.next = e]
           h == [c EXCEPT !.out = TRUE]
           g == [d EXCEPT !.out = TRUE]
<1>0. d \in CounterType /\ d.mode = c.mode /\ d.written = c.written
  BY DEF CounterType
<1>1. [d EXCEPT !.next = 0] = [c EXCEPT !.next = 0]
  BY DEF CounterType
<1>2. Clock0(d) = Clock0(c)
  BY DEF CounterType, Clock0, Half
<1>3. Clock1(d) = Clock1(c)
  BY DEF CounterType, Clock1
<1>4. Clock2(d) = Clock2(c)
  BY DEF CounterType, Clock2
<1>5. Clock3(d) = Clock3(c)
  <2>1. Load3(d) = Load3(c)
    BY ZenonT(40) DEF CounterType, Load3
  <2>2. Count3(d) = Count3(c)
    BY DEF CounterType, Count3, Longer
  <2>3. d.trigger = c.trigger /\ d.firstPass = c.firstPass /\ d.reload = c.reload /\ d.gate = c.gate
    BY DEF CounterType
  <2> HIDE DEF d
  <2> QED
    BY <1>1, <2>1, <2>2, <2>3 DEF Clock3
<1>6. Strobe(g) = Strobe(h)
  BY DEF CounterType, Strobe
<1>7. Clock4(d) = Clock4(c)
  BY <1>6 DEF CounterType, Clock4
<1>8. Clock5(d) = Clock5(c)
  BY <1>6 DEF CounterType, Clock5
<1> SUFFICES Clock(d) = Clock(c)
  OBVIOUS
<1> HIDE DEF d
<1>9. ByMode(d) = ByMode(c)
  <2> HIDE DEF h, g
  <2>1. c.mode \in 0..7
    BY DEF CounterType
  <2>2. CASE ~c.written
    BY <1>0, <1>1, <2>2, ClockByMode, ZenonT(30)
  <2>3. CASE c.written /\ c.mode \in {6, 7}
    BY <1>0, <1>1, <2>3, ClockByMode, ZenonT(30)
  <2>4. CASE c.written /\ c.mode \in 0..5
    <3>1. c.mode = 0 \/ c.mode = 1 \/ c.mode = 2 \/ c.mode = 3 \/ c.mode = 4 \/ c.mode = 5
      BY <2>4
    <3>2. CASE c.mode = 0
      <4>1. c.written /\ d.written /\ d.mode = 0
        BY <1>0, <2>4, <3>2, Zenon
      <4>2. ByMode(c) = Clock0(c)
        BY <3>2, <4>1, ClockByMode
      <4>3. ByMode(d) = Clock0(d)
        BY <4>1, ClockByMode
      <4> QED
        BY <1>2, <4>2, <4>3, Zenon
    <3>3. CASE c.mode = 1
      <4>1. c.written /\ d.written /\ d.mode = 1
        BY <1>0, <2>4, <3>3, Zenon
      <4>2. ByMode(c) = Clock1(c)
        BY <3>3, <4>1, ClockByMode
      <4>3. ByMode(d) = Clock1(d)
        BY <4>1, ClockByMode
      <4> QED
        BY <1>3, <4>2, <4>3, Zenon
    <3>4. CASE c.mode = 2
      <4>1. c.written /\ d.written /\ d.mode = 2
        BY <1>0, <2>4, <3>4, Zenon
      <4>2. ByMode(c) = Clock2(c)
        BY <3>4, <4>1, ClockByMode
      <4>3. ByMode(d) = Clock2(d)
        BY <4>1, ClockByMode
      <4> QED
        BY <1>4, <4>2, <4>3, Zenon
    <3>5. CASE c.mode = 3
      <4>1. c.written /\ d.written /\ d.mode = 3
        BY <1>0, <2>4, <3>5, Zenon
      <4>2. ByMode(c) = Clock3(c)
        BY <3>5, <4>1, ClockByMode
      <4>3. ByMode(d) = Clock3(d)
        BY <4>1, ClockByMode
      <4> QED
        BY <1>5, <4>2, <4>3, Zenon
    <3>6. CASE c.mode = 4
      <4>1. c.written /\ d.written /\ d.mode = 4
        BY <1>0, <2>4, <3>6, Zenon
      <4>2. ByMode(c) = Clock4(c)
        BY <3>6, <4>1, ClockByMode
      <4>3. ByMode(d) = Clock4(d)
        BY <4>1, ClockByMode
      <4> QED
        BY <1>7, <4>2, <4>3, Zenon
    <3>7. CASE c.mode = 5
      <4>1. c.written /\ d.written /\ d.mode = 5
        BY <1>0, <2>4, <3>7, Zenon
      <4>2. ByMode(c) = Clock5(c)
        BY <3>7, <4>1, ClockByMode
      <4>3. ByMode(d) = Clock5(d)
        BY <4>1, ClockByMode
      <4> QED
        BY <1>8, <4>2, <4>3, Zenon
    <3> QED
      BY <3>1, <3>2, <3>3, <3>4, <3>5, <3>6, <3>7, Zenon
  <2> QED
    BY <2>1, <2>2, <2>3, <2>4
<1>10. Clock(d) = [ByMode(d) EXCEPT !.trigger = FALSE] /\ Clock(c) = [ByMode(c) EXCEPT !.trigger = FALSE]
  BY ClockByMode, Zenon
<1> QED
  BY <1>9, <1>10, Zenon

Left(c, n) == [counter |-> c, clocks |-> n]

LEMMA TurnCases ==
  ASSUME NEW c \in CounterType, NEW n \in Nat
  PROVE  /\ n = 0 => Turn(Left(c, n)) = Left(c, n)
         /\ n > 0 /\ c.next = 0 =>
              Turn(Left(c, n)) = Left(IF Runs(c) THEN Lower(c, Step(c) * n) ELSE c, 0)
         /\ n > 0 /\ c.next > 0 /\ c.mode > 5 => Turn(Left(c, n)) = Left(c, 0)
         /\ n > 0 /\ c.next > n /\ c.mode <= 5 => Turn(Left(c, n)) = Left(Waits(c, n), 0)
         /\ n > 0 /\ c.next > 0 /\ c.next <= n /\ c.mode <= 5 =>
              Turn(Left(c, n)) = Left(Clock(Waits(c, c.next - 1)), n - c.next)
<1>1. c.next \in Nat /\ c.mode \in Nat
  BY Words DEF CounterType
<1>2. CASE n = 0
  BY <1>2 DEF Turn, Left
<1>3. CASE n > 0 /\ c.next = 0
  BY <1>1, <1>3 DEF Turn, Left
<1>4. CASE n > 0 /\ c.next > 0 /\ c.mode > 5
  BY <1>1, <1>4 DEF Turn, Left
<1>5. CASE n > 0 /\ c.next > n /\ c.mode <= 5
  BY <1>1, <1>5 DEF Turn, Waits, Left
<1>6. CASE n > 0 /\ c.next > 0 /\ c.next <= n /\ c.mode <= 5
  <2> DEFINE l == Lower(c, Step(c) * (c.next - 1))
  <2>1. Turn(Left(c, n)) = Left(Clock(l), n - c.next)
    BY <1>1, <1>6 DEF Turn, Left
  <2>2. c.next - 1 \in Nat /\ c.next - 1 < c.next
    BY <1>1, <1>6
  <2>3. l \in CounterType
    BY <2>2, Steps, LowerType
  <2>4. Waits(c, c.next - 1) = [l EXCEPT !.next = c.next - (c.next - 1)]
    <3>1. l.next = c.next
      BY DEF Lower, CounterType
    <3> QED
      BY <3>1 DEF Waits
  <2>5. c.next - (c.next - 1) \in Word
    BY <2>2, WaitsType
  <2> HIDE DEF l
  <2>6. Clock(Waits(c, c.next - 1)) = Clock(l)
    BY <2>3, <2>4, <2>5, ClockTimeless
  <2> QED
    BY <1>1, <1>6, <2>1, <2>6
<1> QED
  BY <1>1, <1>2, <1>3, <1>4, <1>5, <1>6

(* The loop of clock_multiple as an orbit, within any set that a turn does  *)
(* not leave.                                                               *)
Turns(K) == [counter : K, clocks : Nat]

Closed(K) == \A t \in Turns(K) : Turn(t) \in Turns(K)

TurnFunction(K) == [t \in Turns(K) |-> Turn(t)]

LEMMA MultipleIsOrbit ==
  ASSUME NEW K, Closed(K), NEW c \in K, NEW n \in Nat, NEW o,
         IsOrbit(o, Turns(K), TurnFunction(K), Left(c, n))
  PROVE  ClockMultiple(c, n) = o[n].counter /\ o[n] \in Turns(K)
<1> DEFINE s == Left(c, n)
           f == CHOOSE turn : turn = [k \in 0..n |-> IF k = 0 THEN s ELSE Turn(turn[k - 1])]
           g == [k \in 0..n |-> o[k]]
<1>2. /\ o \in [Nat -> Turns(K)] /\ o[0] = s
      /\ \A k \in Nat : o[k + 1] = Turn(o[k])
  BY DEF IsOrbit, TurnFunction
<1>3. g = [k \in 0..n |-> IF k = 0 THEN s ELSE Turn(g[k - 1])]
  <2>1. ASSUME NEW k \in 0..n PROVE o[k] = IF k = 0 THEN s ELSE Turn(g[k - 1])
    <3>1. CASE k = 0
      BY <1>2, <3>1
    <3>2. CASE k # 0
      <4>1. k - 1 \in Nat /\ k - 1 \in 0..n /\ (k - 1) + 1 = k
        BY <3>2
      <4>2. g[k - 1] = o[k - 1]
        BY <4>1
      <4> HIDE DEF g
      <4> QED
        BY <1>2, <3>2, <4>1, <4>2
    <3> QED
      BY <3>1, <3>2
  <2> QED
    BY <2>1, Zenon
<1>4. f = [k \in 0..n |-> IF k = 0 THEN s ELSE Turn(f[k - 1])]
  <2> HIDE DEF g
  <2> QED
    BY <1>3, Zenon
<1>5. ClockMultiple(c, n) = f[n].counter
  BY DEF ClockMultiple, Iterate, Left
<1> HIDE DEF f
<1>6. f[0] = s /\ \A k \in 0..(n - 1) : f[k] \in Turns(K) => f[k + 1] = TurnFunction(K)[f[k]]
  <2>1. f[0] = s
    BY <1>4
  <2>2. ASSUME NEW k \in 0..(n - 1) PROVE f[k + 1] = Turn(f[k])
    <3>1. k + 1 \in 0..n /\ k + 1 # 0 /\ (k + 1) - 1 = k
      OBVIOUS
    <3> QED
      BY <1>4, <3>1, Zenon
  <2> QED
    BY <2>1, <2>2 DEF TurnFunction
<1> HIDE DEF s
<1>7. f[n] = o[n]
  BY <1>6, OrbitOnly DEF s
<1> QED
  BY <1>2, <1>5, <1>7

LEMMA TurnOrbit ==
  ASSUME NEW K, Closed(K), NEW c \in K, NEW n \in Nat
  PROVE  IsOrbit(Orbit(Turns(K), TurnFunction(K), Left(c, n)),
                 Turns(K), TurnFunction(K), Left(c, n))
<1>1. TurnFunction(K) \in [Turns(K) -> Turns(K)]
  BY DEF TurnFunction, Closed
<1>2. Left(c, n) \in Turns(K)
  BY DEF Turns, Left
<1> QED
  BY <1>1, <1>2, OrbitLaws

LEMMA MultipleStays ==
  ASSUME NEW K, Closed(K), NEW c \in K, NEW n \in Nat
  PROVE  ClockMultiple(c, n) \in K
<1> DEFINE o == Orbit(Turns(K), TurnFunction(K), Left(c, n))
<1>1. IsOrbit(o, Turns(K), TurnFunction(K), Left(c, n))
  BY TurnOrbit
<1> HIDE DEF o
<1> QED
  BY <1>1, MultipleIsOrbit DEF Turns

(* The counters whose announced time is right, and that any number of       *)
(* clocks may have made of c.                                               *)
Right == {c \in CounterType : Told(c) /\ Paced(c)}

Clockings(c) == {d \in Right : Alike(c, d)}

LEMMA RightClosed ==
  ASSUME NEW c \in Right, NEW n \in Nat, NEW t, t = Turn(Left(c, n))
  PROVE  /\ t \in Turns(Right) /\ Alike(c, t.counter)
         /\ n > 0 => t.clocks < n
         /\ t.clocks <= n
<1>1. c \in CounterType /\ Told(c) /\ Paced(c) /\ c.next \in Nat /\ c.mode \in Nat
  BY Words DEF Right, CounterType
<1>2. Alike(c, c)
  BY DEF Alike
<1>3. ASSUME NEW d \in Right, Alike(c, d), NEW m \in Nat, m <= n, n > 0 => m < n, t = Left(d, m)
      PROVE  t \in Turns(Right) /\ Alike(c, t.counter) /\ (n > 0 => t.clocks < n) /\ t.clocks <= n
  BY <1>3 DEF Turns, Left
<1>4. CASE n = 0
  <2>1. t = Left(c, n)
    BY <1>1, <1>4, TurnCases
  <2> QED
    BY <1>2, <1>3, <1>4, <2>1
<1>5. CASE n > 0 /\ c.next = 0
  <2>2. CASE Runs(c)
    <3> DEFINE l == Lower(c, Step(c) * n)
    <3>1. l \in Right
      BY <1>1, <1>5, <2>2, IdleTold DEF Right
    <3>2. Alike(c, l)
      BY <1>1 DEF Alike, Lower, CounterType
    <3>3. t = Left(l, 0)
      BY <1>1, <1>5, <2>2, TurnCases
    <3> HIDE DEF l
    <3> QED
      BY <1>3, <1>5, <3>1, <3>2, <3>3
  <2>3. CASE ~Runs(c)
    <3>1. t = Left(c, 0)
      BY <1>1, <1>5, <2>3, TurnCases
    <3> QED
      BY <1>2, <1>3, <1>5, <3>1
  <2> QED
    BY <2>2, <2>3
<1>6. CASE n > 0 /\ c.next > 0 /\ c.mode > 5
  <2>1. t = Left(c, 0)
    BY <1>1, <1>6, TurnCases
  <2> QED
    BY <1>2, <1>3, <1>6, <2>1
<1>7. CASE n > 0 /\ c.next > n /\ c.mode <= 5
  <2> DEFINE w == Waits(c, n)
  <2>1. t = Left(w, 0)
    BY <1>1, <1>7, TurnCases
  <2>2. w \in Right
    BY <1>1, <1>7, WaitsType, WaitsTold, WaitsPaced DEF Right
  <2>3. Alike(c, w)
    BY <1>1 DEF Alike, Waits, Lower, CounterType
  <2> HIDE DEF w
  <2> QED
    BY <1>3, <1>7, <2>1, <2>2, <2>3
<1>8. CASE n > 0 /\ c.next > 0 /\ c.next <= n /\ c.mode <= 5
  <2> DEFINE w == Waits(c, c.next - 1)
             x == Clock(w)
  <2>1. t = Left(x, n - c.next)
    BY <1>1, <1>8, TurnCases
  <2>2. w \in CounterType /\ Told(w) /\ Paced(w)
    <3>1. c.next - 1 \in Nat /\ c.next - 1 < c.next
      BY <1>1, <1>8
    <3> QED
      BY <1>1, <3>1, WaitsType, WaitsTold, WaitsPaced
  <2>3. Alike(c, w)
    BY <1>1 DEF Alike, Waits, Lower, CounterType
  <2> HIDE DEF w
  <2>4. x \in Right /\ Alike(c, x)
    BY <2>2, <2>3, ClockType, ClockTold, ClockPaced, AlikeTransitive DEF Right
  <2>5. n - c.next \in Nat /\ n - c.next < n /\ n - c.next <= n
    BY <1>1, <1>8
  <2> HIDE DEF x
  <2> QED
    BY <1>3, <2>1, <2>4, <2>5
<1> QED
  BY <1>1, <1>4, <1>5, <1>6, <1>7, <1>8

LEMMA ClockingsClosed ==
  ASSUME NEW c \in Right PROVE Closed(Clockings(c)) /\ c \in Clockings(c)
<1>1. c \in Clockings(c)
  BY DEF Clockings, Alike
<1>2. ASSUME NEW t \in Turns(Clockings(c)) PROVE Turn(t) \in Turns(Clockings(c))
  <2> DEFINE d == t.counter
             n == t.clocks
  <2>1. t = Left(d, n) /\ d \in Right /\ Alike(c, d) /\ n \in Nat
    BY DEF Turns, Clockings, Left
  <2> HIDE DEF d, n
  <2>2. Turn(t) \in Turns(Right) /\ Alike(d, Turn(t).counter)
    BY <2>1, RightClosed
  <2>3. Alike(c, Turn(t).counter)
    BY <2>1, <2>2, AlikeTransitive
  <2> QED
    BY <2>2, <2>3 DEF Turns, Clockings
<1> QED
  BY <1>1, <1>2 DEF Closed

(* clock_multiple keeps what is told and paced, and what no clock touches.  *)
LEMMA MultipleRight ==
  ASSUME NEW c \in Right, NEW n \in Nat
  PROVE  ClockMultiple(c, n) \in Right /\ Alike(c, ClockMultiple(c, n))
<1>1. Closed(Clockings(c)) /\ c \in Clockings(c)
  BY ClockingsClosed
<1>2. ClockMultiple(c, n) \in Clockings(c)
  BY <1>1, MultipleStays
<1> QED
  BY <1>2 DEF Clockings
-----------------------------------------------------------------------------
(* The loop of periodic, over all counters at once.                         *)
Likewise(cs, ds) == \A i \in Counters : Alike(cs[i], ds[i])

LEMMA NextEventNat ==
  ASSUME NEW cs \in [Counters -> CounterType]
  PROVE  /\ NextEvent(cs) \in Nat
         /\ \A i \in Counters : NextEvent(cs) # 0 /\ cs[i].next # 0 => NextEvent(cs) <= cs[i].next
<1> DEFINE time(i) == IF i \in Counters THEN cs[i].next ELSE 0
           nearer  == {time(i) : i \in {j \in 1..2 : time(j) # 0 /\ time(j) < time(0)}}
<1>1. \A i : time(i) \in Nat
  BY Words DEF CounterType
<1>2. NextEvent(cs) = IF nearer = {} THEN time(0) ELSE CHOOSE t \in nearer : \A u \in nearer : t <= u
  BY DEF NextEvent
<1>3. \A i \in Counters : i \in 0..2 /\ time(i) = cs[i].next
  BY IntervalTimerAssumption
<1>4. \A i \in 1..2 : time(i) # 0 /\ time(i) < time(0) => time(i) \in nearer
  OBVIOUS
<1>5. \A t \in nearer : t \in Nat /\ t < time(0) /\ t # 0
  BY <1>1
<1> HIDE DEF time, nearer
<1>6. CASE nearer = {}
  BY <1>1, <1>2, <1>3, <1>4, <1>6
<1>7. CASE nearer # {}
  <2>1. \E t \in nearer : \A u \in nearer : t <= u
    BY <1>5, <1>7, Least
  <2>2. NextEvent(cs) \in nearer /\ \A u \in nearer : NextEvent(cs) <= u
    BY <1>2, <1>7, <2>1, Zenon
  <2> QED
    BY <1>1, <1>3, <1>4, <1>5, <2>2
<1> QED
  BY <1>6, <1>7
Spans(cs) == [counters : {ds \in [Counters -> Right] : Likewise(cs, ds)}, clocks : Nat]

SpanFunction(cs) == [t \in Spans(cs) |-> Portion(t)]

LEMMA PortionStays ==
  ASSUME NEW cs \in [Counters -> Right], NEW t \in Spans(cs)
  PROVE  Portion(t) \in Spans(cs)
<1> DEFINE event == NextEvent(t.counters)
           n     == IF event = 0 \/ event > t.clocks THEN t.clocks ELSE event
           ds    == [i \in Counters |-> ClockMultiple(t.counters[i], n)]
<1>1. /\ t.counters \in [Counters -> Right] /\ t.clocks \in Nat
      /\ \A i \in Counters : Alike(cs[i], t.counters[i])
  BY DEF Spans, Likewise
<1>2. t.counters \in [Counters -> CounterType]
  BY <1>1 DEF Right
<1>3. event \in Nat
  BY <1>2, NextEventNat
<1>4. Portion(t) = [counters |-> ds, clocks |-> t.clocks - n]
  BY DEF Portion
<1> HIDE DEF event
<1>5. n \in Nat /\ t.clocks - n \in Nat
  BY <1>1, <1>3
<1> HIDE DEF n
<1>6. ASSUME NEW i \in Counters PROVE ds[i] \in Right /\ Alike(cs[i], ds[i])
  <2>1. t.counters[i] \in Right
    BY <1>1
  <2>2. ds[i] = ClockMultiple(t.counters[i], n)
    OBVIOUS
  <2>3. ds[i] \in Right /\ Alike(t.counters[i], ds[i])
    BY <1>5, <2>1, <2>2, MultipleRight, Zenon
  <2> QED
    BY <1>1, <2>3, AlikeTransitive, Zenon
<1>7. ds \in [Counters -> Right] /\ Likewise(cs, ds)
  BY <1>6 DEF Likewise
<1> HIDE DEF ds
<1> QED
  BY <1>4, <1>5, <1>7 DEF Spans

(* Whatever the clocks, periodic leaves every counter with what is told and *)
(* paced, and with what no clock touches.                                   *)
LEMMA PeriodicRight ==
  ASSUME NEW cs \in [Counters -> Right], NEW n \in Nat
  PROVE  Periodic(cs, n) \in [Counters -> Right] /\ Likewise(cs, Periodic(cs, n))
<1> DEFINE s == [counters |-> cs, clocks |-> n]
           o == Orbit(Spans(cs), SpanFunction(cs), s)
           f == CHOOSE turn : turn = [k \in 0..n |-> IF k = 0 THEN s ELSE Portion(turn[k - 1])]
           g == [k \in 0..n |-> o[k]]
<1>1. IsOrbit(o, Spans(cs), SpanFunction(cs), s)
  <2>1. s \in Spans(cs)
    BY DEF Spans, Likewise, Alike
  <2>2. SpanFunction(cs) \in [Spans(cs) -> Spans(cs)]
    BY PortionStays DEF SpanFunction
  <2> HIDE DEF s
  <2> QED
    BY <2>1, <2>2, OrbitLaws
<1> HIDE DEF o
<1>2. /\ o \in [Nat -> Spans(cs)] /\ o[0] = s
      /\ \A k \in Nat : o[k + 1] = Portion(o[k])
  BY <1>1 DEF IsOrbit, SpanFunction
<1>3. g = [k \in 0..n |-> IF k = 0 THEN s ELSE Portion(g[k - 1])]
  <2>1. ASSUME NEW k \in 0..n PROVE o[k] = IF k = 0 THEN s ELSE Portion(g[k - 1])
    <3>1. CASE k = 0
      BY <1>2, <3>1
    <3>2. CASE k # 0
      <4>1. k - 1 \in Nat /\ k - 1 \in 0..n /\ (k - 1) + 1 = k
        BY <3>2
      <4>2. g[k - 1] = o[k - 1]
        BY <4>1
      <4> HIDE DEF g
      <4> QED
        BY <1>2, <3>2, <4>1, <4>2
    <3> QED
      BY <3>1, <3>2
  <2> QED
    BY <2>1, Zenon
<1>4. f = [k \in 0..n |-> IF k = 0 THEN s ELSE Portion(f[k - 1])]
  <2> HIDE DEF g
  <2> QED
    BY <1>3, Zenon
<1>5. Periodic(cs, n) = f[n].counters
  BY DEF Periodic, Iterate
<1> HIDE DEF f
<1>6. f[0] = s /\ \A k \in 0..(n - 1) : f[k] \in Spans(cs) => f[k + 1] = SpanFunction(cs)[f[k]]
  <2>1. f[0] = s
    BY <1>4
  <2>2. ASSUME NEW k \in 0..(n - 1) PROVE f[k + 1] = Portion(f[k])
    <3>1. k + 1 \in 0..n /\ k + 1 # 0 /\ (k + 1) - 1 = k
      OBVIOUS
    <3> QED
      BY <1>4, <3>1, Zenon
  <2> QED
    BY <2>1, <2>2 DEF SpanFunction
<1> HIDE DEF s
<1>7. f[n] = o[n] /\ o[n] \in Spans(cs)
  BY <1>1, <1>2, <1>6, OrbitOnly
<1> QED
  BY <1>5, <1>7 DEF Spans

-----------------------------------------------------------------------------
(* What software does to a counter.                                         *)
LEMMA ProgrammedRight ==
  ASSUME NEW c \in Right, NEW mode \in 0..7, NEW order \in Orders
  PROVE  Programmed(c, mode, order) \in Right
<1> DEFINE d == Programmed(c, mode, order)
           r == First(order)
           o == mode # 0
<1>1. r \in {"LSB", "MSB", "LSB_multiple", "MSB_multiple"} /\ o \in BOOLEAN /\ c \in CounterType
  BY DEF First, Orders, Right
<1>2. d \in CounterType /\ ~d.written /\ d.next = 0 /\ d.null
  <2>1. d = [c EXCEPT !.null = TRUE, !.lsbLatched = FALSE, !.msbLatched = FALSE,
                      !.statusLatched = FALSE, !.inlatch = 0, !.written = FALSE, !.firstPass = TRUE,
                      !.mode = mode, !.read = r, !.write = r, !.out = o, !.next = 0]
    BY DEF Programmed
  <2> HIDE DEF d, r, o
  <2> DEFINE e == [c EXCEPT !.null = TRUE, !.lsbLatched = FALSE, !.msbLatched = FALSE,
                            !.statusLatched = FALSE, !.inlatch = 0, !.written = FALSE]
  <2>2. e \in CounterType /\ ~e.written /\ e.null
    BY <1>1, Words DEF CounterType
  <2>3. d = [e EXCEPT !.firstPass = TRUE, !.mode = mode, !.read = r, !.write = r, !.out = o, !.next = 0]
    BY <2>1
  <2> HIDE DEF e
  <2> QED
    BY <1>1, <2>2, <2>3, Words, ZenonT(40) DEF CounterType
<1> HIDE DEF d
<1>3. Told(d)
  BY <1>2 DEF Told, Told0, Told1, Told2, Told3, Told4, Told5
<1>4. Paced(d)
  BY <1>2 DEF Paced, Paced2, Paced3, Oscillates
<1> QED
  BY <1>2, <1>3, <1>4 DEF Right, d

LEMMA GatedRight ==
  ASSUME NEW c \in Right, NEW on \in BOOLEAN
  PROVE  Gated(c, on) \in Right
<1> DEFINE d == Gated(c, on)
<1>1. c \in CounterType /\ Told(c) /\ Paced(c)
  BY DEF Right
<1>2. Resumes(c) \in Word /\ Resumes(c) = (IF c.count = 0 THEN 1 ELSE c.count)
  BY <1>1, Words DEF CounterType, Resumes, Positive
<1>3. d \in CounterType /\ d.mode = c.mode
  BY <1>1, <1>2, Words, ZenonT(40) DEF CounterType, Gated
<1>4. Told(d)
  <2> DEFINE g == [c EXCEPT !.gate = on, !.trigger = c.trigger \/ on]
  <2>0. ~d.written /\ ~Half(d) => d.next \in {0, 1}
    BY <1>1, <1>2 DEF CounterType, Gated, Told, Half
  <2>1. ASSUME c.mode = 0 PROVE Told0(d)
    <3> DEFINE x == CASE c.null -> 1
                      [] ~c.null /\ on /\ c.written /\ ~c.out /\ ~Half(c) -> Resumes(c)
                      [] OTHER -> 0
    <3>1. d = [g EXCEPT !.next = x]
      BY <2>1 DEF Gated
    <3>2. /\ x \in Word /\ (c.null => x = 1)
          /\ ~c.null /\ x > 1 => on /\ ~c.out /\ x = c.count
          /\ x = 0 => c.out \/ ~on \/ ~c.written \/ Half(c)
      BY <1>2, Words
    <3> HIDE DEF x, d
    <3> QED
      BY <1>1, <3>1, <3>2 DEF CounterType, Told0, Half
  <2>2. ASSUME c.mode \in {1, 5}
        PROVE  (c.mode = 1 => Told1(d)) /\ (c.mode = 5 => Told5(d))
    <3> DEFINE x == IF on /\ c.written THEN 1 ELSE c.next
    <3>1. d = [g EXCEPT !.next = x]
      BY <1>1, <2>2 DEF Gated, CounterType
    <3>2. x = 1 \/ (x = c.next /\ ~(on /\ c.written))
      OBVIOUS
    <3>3. x \in Word
      BY <1>1, Words DEF CounterType
    <3> HIDE DEF x, d
    <3>4. /\ d.null = c.null /\ d.written = c.written /\ d.next = x /\ d.trigger = (c.trigger \/ on)
          /\ d.out = c.out /\ d.count = c.count /\ d.firstPass = c.firstPass
      BY <1>1, <3>1, <3>3 DEF CounterType
    <3>5. ASSUME c.mode = 1 PROVE Told1(d)
      BY <1>1, <3>2, <3>4, <3>5 DEF Told, Told1
    <3>6. ASSUME c.mode = 5 PROVE Told5(d)
      BY <1>1, <3>2, <3>4, <3>6 DEF Told, Told5
    <3> QED
      BY <3>5, <3>6
  <2>3. ASSUME c.mode \in {2, 3}
        PROVE  (c.mode = 2 => Told2(d)) /\ (c.mode = 3 => Told3(d))
    <3> DEFINE x == IF on /\ c.written THEN 1 ELSE 0
               o == c.out \/ ~on
               f == c.firstPass \/ (c.mode = 3 /\ ~on)
    <3>1. d = [g EXCEPT !.out = o, !.firstPass = f, !.next = x]
      BY <1>1, <2>3 DEF Gated, CounterType
    <3>2. x \in {0, 1} /\ x \in Word /\ (x = 0 <=> ~(on /\ c.written))
      BY Words
    <3>3. o \in BOOLEAN /\ f \in BOOLEAN
      OBVIOUS
    <3> HIDE DEF x, d, o, f
    <3>4. /\ d.written = c.written /\ d.write = c.write /\ d.next = x /\ d.gate = on
          /\ d.inlatch = c.inlatch /\ d.count = c.count
      BY <1>1, <3>1, <3>2, <3>3 DEF CounterType
    <3> QED
      BY <1>1, <3>2, <3>4 DEF Told, Told2, Told3, Half
  <2>4. ASSUME c.mode = 4 PROVE Told4(d)
    <3> DEFINE x == CASE ~c.out \/ c.null -> 1
                      [] c.out /\ ~c.null /\ on /\ c.written /\ c.firstPass -> Resumes(c)
                      [] OTHER -> 0
    <3>1. d = [g EXCEPT !.next = x]
      BY <2>4 DEF Gated
    <3>2. /\ x \in Word /\ (~c.out \/ c.null => x = 1)
          /\ x > 1 => on /\ c.out /\ c.firstPass /\ x = c.count
          /\ x = 0 => c.out /\ (~on \/ ~c.written \/ ~c.firstPass)
      BY <1>1, <1>2, Words DEF CounterType
    <3> HIDE DEF x, d
    <3>3. /\ d.null = c.null /\ d.written = c.written /\ d.next = x /\ d.gate = on
          /\ d.out = c.out /\ d.count = c.count /\ d.firstPass = c.firstPass /\ d.write = c.write
      BY <1>1, <3>1, <3>2 DEF CounterType
    <3> QED
      BY <1>1, <3>2, <3>3 DEF Told4, Half
  <2> HIDE DEF d
  <2> QED
    BY <1>3, <2>0, <2>1, <2>2, <2>3, <2>4, Zenon DEF Told
<1>5. Paced(d)
  BY <1>1, <1>2 DEF CounterType, Gated, Paced, Paced2, Paced3, Oscillates, Half
<1> QED
  BY <1>3, <1>4, <1>5 DEF Right
LEMMA ByteFacts ==
  /\ \A byte \in 0 .. Byte - 1 : byte \in Word /\ byte * Byte \in Word
  /\ \A byte \in 0 .. Byte - 1, n \in Word : Low(n) + byte * Byte \in Word
  /\ \A n \in Word : Low(n) \in 0 .. Byte - 1 /\ High(n) \in 0 .. Byte - 1
<1>1. Byte \in Nat /\ Byte > 1 /\ Byte \in Nat \ {0}
  BY TopFacts
<1>2. \A n \in Word : Low(n) \in 0 .. Byte - 1 /\ High(n) \in Int /\ n = Byte * High(n) + Low(n) /\ n \in Nat
  <2> SUFFICES ASSUME NEW n \in Word
               PROVE  Low(n) \in 0 .. Byte - 1 /\ High(n) \in Int /\ n = Byte * High(n) + Low(n) /\ n \in Nat
    OBVIOUS
  <2>1. n \in Int /\ n \in Nat
    BY Words
  <2> QED
    BY <1>1, <2>1, DivMod DEF Low, High
<1>3. ASSUME NEW byte \in 0 .. Byte - 1 PROVE byte * Byte \in Nat /\ byte * Byte + Byte <= Top /\ Byte <= Top
  <2> DEFINE k == Byte - 1 - byte
  <2>1. k \in Nat /\ Byte = byte + k + 1
    BY <1>1
  <2> HIDE DEF k
  <2>2. (byte + k + 1) * Byte = byte * Byte + k * Byte + Byte
    BY <1>1, <2>1
  <2>3. k * Byte \in Nat /\ byte * Byte \in Nat
    BY <1>1, <2>1
  <2>4. Top = byte * Byte + k * Byte + Byte
    BY <2>1, <2>2 DEF Top
  <2> QED
    BY <1>1, <2>3, <2>4
<1>4. ASSUME NEW byte \in 0 .. Byte - 1 PROVE byte \in Word /\ byte * Byte \in Word
  BY <1>1, <1>3, TopFacts DEF Word
<1>5. ASSUME NEW byte \in 0 .. Byte - 1, NEW n \in Word PROVE Low(n) + byte * Byte \in Word
  <2> DEFINE l == Low(n)
             p == byte * Byte
  <2>1. l \in 0 .. Byte - 1 /\ p \in Nat /\ p + Byte <= Top
    BY <1>2, <1>3
  <2> HIDE DEF l, p
  <2>2. l + p \in Word
    BY <1>1, <2>1, TopFacts DEF Word
  <2> QED
    BY <2>2 DEF l, p
<1>6. ASSUME NEW n \in Word PROVE High(n) \in 0 .. Byte - 1
  <2> DEFINE q == High(n)
             r == Low(n)
  <2>1. r \in 0 .. Byte - 1 /\ q \in Int /\ n = Byte * q + r /\ n \in Nat /\ n < Top
    <3>1. n < Top
      BY TopFacts DEF Word
    <3> QED
      BY <1>2, <3>1
  <2> HIDE DEF q, r
  <2>2. ASSUME q < 0 PROVE FALSE
    <3>1. PICK j \in Nat : q = 0 - 1 - j
      <4>1. 0 - 1 - q \in Nat /\ q = 0 - 1 - (0 - 1 - q)
        BY <2>1, <2>2
      <4> QED
        BY <4>1
    <3>2. Byte * q = 0 - Byte - Byte * j /\ Byte * j \in Nat
      BY <1>1, <3>1
    <3> QED
      BY <1>1, <2>1, <3>2
  <2>3. ASSUME q >= Byte PROVE FALSE
    <3>1. PICK j \in Nat : q = Byte + j
      <4>1. q - Byte \in Nat /\ q = Byte + (q - Byte)
        BY <1>1, <2>1, <2>3
      <4> QED
        BY <4>1
    <3>2. Byte * q = Top + Byte * j /\ Byte * j \in Nat
      BY <1>1, <3>1 DEF Top
    <3> QED
      BY <1>1, <2>1, <3>2, TopFacts
  <2>4. q \in 0 .. Byte - 1
    BY <1>1, <2>1, <2>2, <2>3
  <2> QED
    BY <2>4 DEF q
<1> QED
  BY <1>2, <1>4, <1>5, <1>6

LEMMA TakenFacts ==
  ASSUME NEW c \in CounterType, NEW byte \in 0 .. Byte - 1
  PROVE  /\ Taken(c, byte) \in CounterType
         /\ Half(Taken(c, byte)) => \E v \in Word : Taken(c, byte) = [c EXCEPT !.inlatch = v, !.write = "MSB_multiple"]
         /\ ~Half(Taken(c, byte)) => Taken(c, byte).written
         /\ Taken(c, byte).mode = c.mode /\ Taken(c, byte).trigger = c.trigger
<1> DEFINE low == Low(c.inlatch) + byte * Byte
           high == byte * Byte
<1>1. low \in Word /\ high \in Word /\ byte \in Word /\ c.inlatch \in Word
  BY ByteFacts DEF CounterType
<1>2. c.write = "LSB_multiple" => Taken(c, byte) = [c EXCEPT !.inlatch = byte, !.write = "MSB_multiple"]
  BY DEF Taken
<1>3. c.write = "LSB" => Taken(c, byte) = [c EXCEPT !.inlatch = byte, !.written = TRUE]
  BY DEF Taken
<1>4. c.write = "MSB_multiple" =>
        Taken(c, byte) = [c EXCEPT !.inlatch = low, !.write = "LSB_multiple", !.written = TRUE]
  BY DEF Taken
<1>5. c.write = "MSB" => Taken(c, byte) = [c EXCEPT !.inlatch = high, !.written = TRUE]
  BY DEF Taken
<1> HIDE DEF low, high
<1>6. c.write \in {"LSB", "MSB", "LSB_multiple", "MSB_multiple"}
  BY DEF CounterType
<1>7. CASE c.write = "LSB_multiple"
  BY <1>1, <1>2, <1>7 DEF CounterType, Half
<1>8. CASE c.write = "LSB"
  BY <1>1, <1>3, <1>8 DEF CounterType, Half
<1>9. CASE c.write = "MSB_multiple"
  BY <1>1, <1>4, <1>9 DEF CounterType, Half
<1>10. CASE c.write = "MSB"
  BY <1>1, <1>5, <1>10 DEF CounterType, Half
<1> QED
  BY <1>6, <1>7, <1>8, <1>9, <1>10

LEMMA WrittenRight ==
  ASSUME NEW c \in Right, NEW byte \in 0 .. Byte - 1
  PROVE  Written(c, byte) \in Right
<1> DEFINE t == Taken(c, byte)
           l == Loaded(t)
           o == l.out /\ ~(c.mode = 0 /\ Half(l))
           x == IF c.mode \in {1, 5} /\ ~c.trigger THEN l.next ELSE 1
           d == Written(c, byte)
<1>1. c \in CounterType /\ Told(c) /\ Paced(c)
  BY DEF Right
<1>2. /\ t \in CounterType /\ t.mode = c.mode /\ t.trigger = c.trigger
      /\ Half(t) => \E v \in Word : t = [c EXCEPT !.inlatch = v, !.write = "MSB_multiple"]
      /\ ~Half(t) => t.written
  BY <1>1, TakenFacts
<1>3. d = [l EXCEPT !.out = o, !.next = x]
  BY DEF Written
<1> SUFFICES d \in Right
  OBVIOUS
<1>4. CASE Half(t)
  <2>1. l = t
    BY <1>4 DEF Loaded
  <2>2. PICK v \in Word : t = [c EXCEPT !.inlatch = v, !.write = "MSB_multiple"]
    BY <1>2, <1>4
  <2> HIDE DEF t, l, d
  <2>3. o \in BOOLEAN /\ x \in Word /\ l.next = c.next
    BY <1>1, <2>1, <2>2, Words DEF CounterType
  <2>4. c.mode \in {1, 5} => o = c.out
    BY <1>1, <2>1, <2>2 DEF CounterType
  <2>5. x = 1 \/ (x = c.next /\ c.mode \in {1, 5})
    BY <2>3
  <2> HIDE DEF o, x
  <2>6. d \in CounterType /\ Half(d) /\ d.mode = c.mode
    BY <1>1, <1>3, <2>1, <2>2, <2>3 DEF CounterType, Half
  <2>7. /\ d.null = c.null /\ d.written = c.written /\ d.next = x /\ d.trigger = c.trigger
        /\ d.out = o /\ d.count = c.count /\ d.firstPass = c.firstPass
    BY <1>1, <1>3, <2>1, <2>2, <2>3 DEF CounterType
  <2>8. (c.mode = 1 => Told1(d)) /\ (c.mode = 5 => Told5(d))
    BY <1>1, <2>4, <2>5, <2>7 DEF Told, Told1, Told5
  <2>9. Told(d)
    BY <2>6, <2>8 DEF Told, Told0, Told2, Told3, Told4
  <2>10. Paced(d)
    BY <2>6 DEF Paced, Paced2, Paced3, Oscillates
  <2> QED
    BY <2>6, <2>9, <2>10 DEF Right
<1>5. CASE ~Half(t)
  <2>1. l = [t EXCEPT !.null = TRUE, !.count = t.inlatch] /\ t.written
    BY <1>2, <1>5 DEF Loaded
  <2> HIDE DEF t, l, d
  <2>2. /\ l \in CounterType /\ l.null /\ l.written /\ l.count = l.inlatch /\ l.mode = c.mode
        /\ ~Half(l) /\ o \in BOOLEAN /\ x \in Word
    BY <1>2, <1>5, <2>1, Words DEF CounterType, Half
  <2>3. c.mode \notin {1, 5} => x = 1
    OBVIOUS
  <2> HIDE DEF o, x
  <2>4. /\ d \in CounterType /\ d.null /\ d.written /\ d.count = d.inlatch /\ d.mode = c.mode /\ d.next = x
    BY <1>3, <2>2 DEF CounterType
  <2>5. Told(d)
    BY <2>3, <2>4 DEF Told, Told0, Told1, Told2, Told3, Told4, Told5
  <2>6. Paced(d)
    BY <2>4 DEF Paced, Paced2, Paced3, Oscillates
  <2> QED
    BY <2>4, <2>5, <2>6 DEF Right
<1> QED
  BY <1>4, <1>5
(* What reading and latching leave alone.                                   *)
SameCount(c, d) ==
  /\ d.gate = c.gate /\ d.out = c.out /\ d.count = c.count /\ d.inlatch = c.inlatch
  /\ d.mode = c.mode /\ d.null = c.null /\ d.trigger = c.trigger /\ d.write = c.write
  /\ d.written = c.written /\ d.firstPass = c.firstPass /\ d.odd = c.odd
  /\ d.reload = c.reload /\ d.next = c.next

LEMMA SameCountRight ==
  ASSUME NEW c \in Right, NEW d \in CounterType, SameCount(c, d)
  PROVE  d \in Right
<1>1. Told(c) /\ Paced(c)
  BY DEF Right
<1>2. (Half(d) <=> Half(c)) /\ (Oscillates(d) <=> Oscillates(c)) /\ (Longer(d) <=> Longer(c))
  BY DEF SameCount, Half, Oscillates, Longer
<1>3. /\ Told0(c) <=> Told0(d)
      /\ Told1(c) <=> Told1(d)
      /\ Told2(c) <=> Told2(d)
      /\ Told3(c) <=> Told3(d)
      /\ Told4(c) <=> Told4(d)
      /\ Told5(c) <=> Told5(d)
  BY <1>2 DEF SameCount, Told0, Told1, Told2, Told3, Told4, Told5
<1>4. Told(d)
  BY <1>1, <1>2, <1>3 DEF SameCount, Told
<1>5. Paced(d)
  BY <1>1, <1>2 DEF SameCount, Paced, Paced2, Paced3
<1> QED
  BY <1>4, <1>5 DEF Right

LEMMA ReadRight ==
  ASSUME NEW c \in Right
  PROVE  AfterRead(c) \in Right
<1>1. c \in CounterType
  BY DEF Right
<1> DEFINE d == AfterRead(c)
           l == IF c.read = "LSB_multiple" THEN "MSB_multiple" ELSE c.read
           m == IF c.read = "MSB_multiple" THEN "LSB_multiple" ELSE c.read
           t == Toggled(c.read)
<1>3. \/ d = c
      \/ d = [c EXCEPT !.statusLatched = FALSE]
      \/ d = [c EXCEPT !.lsbLatched = FALSE, !.read = l]
      \/ d = [c EXCEPT !.msbLatched = FALSE, !.read = m]
      \/ d = [c EXCEPT !.read = t]
  BY DEF AfterRead
<1>4. {l, m, t} \subseteq {"LSB", "MSB", "LSB_multiple", "MSB_multiple"}
  BY <1>1 DEF CounterType, Toggled
<1> SUFFICES d \in Right
  OBVIOUS
<1> HIDE DEF d, l, m, t
<1>2. d \in CounterType /\ SameCount(c, d)
  BY <1>1, <1>3, <1>4, ZenonT(40) DEF CounterType, SameCount
<1> QED
  BY <1>2, SameCountRight

StatusOf(c) == [c EXCEPT !.statusLatched = TRUE]

LEMMA LatchRight ==
  ASSUME NEW c \in Right
  PROVE  LatchCounter(c) \in Right /\ StatusOf(c) \in Right
<1>1. c \in CounterType
  BY DEF Right
<1> DEFINE l == c.read # "MSB"
           m == c.read # "LSB"
           r == IF c.read = "MSB_multiple" THEN "LSB_multiple" ELSE c.read
<1>2. r \in {"LSB", "MSB", "LSB_multiple", "MSB_multiple"} /\ l \in BOOLEAN /\ m \in BOOLEAN
  BY <1>1 DEF CounterType
<1>3. LatchCounter(c) = IF Latched(c) THEN c ELSE
        [c EXCEPT !.outlatch = c.count, !.lsbLatched = l, !.msbLatched = m, !.read = r]
  BY DEF LatchCounter
<1> HIDE DEF l, m, r
<1>4. LatchCounter(c) \in CounterType /\ SameCount(c, LatchCounter(c))
  BY <1>1, <1>2, <1>3, ZenonT(40) DEF CounterType, SameCount
<1>5. StatusOf(c) \in CounterType /\ SameCount(c, StatusOf(c))
  BY <1>1 DEF CounterType, SameCount, StatusOf
<1> QED
  BY <1>4, <1>5, SameCountRight

-----------------------------------------------------------------------------
(* The bytes owed.                                                          *)
Owed == Seq(0 .. Byte - 1)

(* What the promise depends on.                                             *)
SameLatch(c, d) ==
  /\ d.read = c.read /\ d.outlatch = c.outlatch
  /\ d.lsbLatched = c.lsbLatched /\ d.msbLatched = c.msbLatched

LEMMA OwesNothing == \A c : Owes(c, <<>>)
  BY DEF Owes

LEMMA SameOwes ==
  ASSUME NEW c, NEW d, SameLatch(c, d), NEW bytes, Owes(c, bytes)
  PROVE  Owes(d, bytes)
  BY DEF SameLatch, Owes

LEMMA PromisedFacts ==
  ASSUME NEW c \in CounterType
  PROVE  Promised(c) \in Owed
<1>1. Low(c.count) \in 0 .. Byte - 1 /\ High(c.count) \in 0 .. Byte - 1
  BY ByteFacts DEF CounterType
<1> DEFINE low  == Low(c.count)
           high == High(c.count)
<1>2. Promised(c) = CASE c.read = "LSB" -> <<low>> [] c.read = "MSB" -> <<high>> [] OTHER -> <<low, high>>
  BY DEF Promised
<1> HIDE DEF low, high
<1>3. <<low>> \in Owed /\ <<high>> \in Owed /\ <<low, high>> \in Owed
  BY <1>1 DEF Owed, low, high
<1> QED
  BY <1>2, <1>3

LEMMA LatchOwes ==
  ASSUME NEW c \in CounterType, ~Latched(c)
  PROVE  Owes(LatchCounter(c), Promised(c))
<1> DEFINE d == LatchCounter(c)
           r == IF c.read = "MSB_multiple" THEN "LSB_multiple" ELSE c.read
<1>1. /\ d.outlatch = c.count /\ d.lsbLatched = (c.read # "MSB") /\ d.msbLatched = (c.read # "LSB")
      /\ d.read = r
  BY DEF LatchCounter, CounterType
<1> SUFFICES Owes(d, Promised(c))
  OBVIOUS
<1> HIDE DEF d
<1>2. c.read \in {"LSB", "MSB", "LSB_multiple", "MSB_multiple"}
  BY DEF CounterType
<1> QED
  BY <1>1, <1>2 DEF Owes, Promised

(* A read of a count gives one byte of what is owed, and the rest remains.  *)
LEMMA ReadOwes ==
  ASSUME NEW c \in CounterType, NEW bytes \in Owed, Owes(c, bytes)
  PROVE  Owes(AfterRead(c), IF c.statusLatched \/ bytes = <<>> THEN bytes ELSE Tail(bytes))
<1> DEFINE d == AfterRead(c)
<1>1. CASE bytes = <<>>
  BY <1>1, OwesNothing
<1>2. CASE c.statusLatched
  <2>1. SameLatch(c, d)
    BY <1>2 DEF AfterRead, SameLatch, CounterType
  <2> HIDE DEF d
  <2> QED
    BY <1>2, <2>1, SameOwes DEF d
<1>3. CASE ~c.statusLatched /\ bytes # <<>>
  <2>1. CASE c.read = "LSB_multiple"
    <3>1. c.lsbLatched /\ c.msbLatched /\ bytes = <<Low(c.outlatch), High(c.outlatch)>>
      BY <1>3, <2>1 DEF Owes
    <3>2. Tail(bytes) = <<High(c.outlatch)>>
      BY <3>1
    <3>3. d.read = "MSB_multiple" /\ ~d.lsbLatched /\ d.msbLatched /\ d.outlatch = c.outlatch
      BY <1>3, <2>1, <3>1 DEF AfterRead, CounterType, Undefined
    <3> HIDE DEF d
    <3>4. Owes(d, Tail(bytes))
      BY <3>2, <3>3 DEF Owes
    <3> QED
      BY <1>3, <3>4 DEF d
  <2>2. CASE c.read # "LSB_multiple"
    <3>1. \E b : bytes = <<b>>
      BY <1>3, <2>2 DEF Owes
    <3>2. Tail(bytes) = <<>>
      BY <3>1
    <3> QED
      BY <1>3, <3>2, OwesNothing
  <2> QED
    BY <2>1, <2>2
<1> QED
  BY <1>1, <1>2, <1>3

(* While bytes are owed the next one read is the first of them.             *)
LEMMA OwesHead ==
  ASSUME NEW c \in CounterType, NEW bytes \in Owed, bytes # <<>>, Owes(c, bytes)
  PROVE  Latched(c) /\ NextByte(c) = Head(bytes)
  BY DEF Owes, Latched, NextByte, ReadsLow
-----------------------------------------------------------------------------
(* The invariant, counter by counter.                                       *)
Kept == /\ counter \in [Counters -> Right]
        /\ owed \in [Counters -> Owed]
        /\ \A i \in Counters : Owes(counter[i], owed[i])

LEMMA KeptIsIInv == Kept <=> IInv
<1>1. Kept => IInv
  BY DEF Kept, IInv, TypeOK, Right, Owed
<1>2. IInv => Kept
  <2> SUFFICES ASSUME IInv PROVE Kept
    OBVIOUS
  <2>1. counter \in [Counters -> CounterType] /\ \A i \in Counters : Told(counter[i]) /\ Paced(counter[i])
    BY DEF IInv, TypeOK
  <2>2. \A i \in Counters : counter[i] \in Right
    BY <2>1 DEF Right
  <2>3. counter \in [Counters -> Right]
    BY <2>1, <2>2
  <2> QED
    BY <2>3 DEF Kept, IInv, TypeOK, Owed
<1> QED
  BY <1>1, <1>2

LEMMA InitKept == Init => Kept
<1> SUFFICES ASSUME Init PROVE Kept
  OBVIOUS
<1>1. PowerOn \in CounterType
  BY Words DEF PowerOn, CounterType
<1>2. Told(PowerOn) /\ Paced(PowerOn)
  BY DEF PowerOn, Told, Told4, Paced, Half
<1>3. PowerOn \in Right
  BY <1>1, <1>2 DEF Right
<1>4. <<>> \in Owed
  BY DEF Owed
<1>5. counter = [i \in Counters |-> PowerOn] /\ owed = [i \in Counters |-> <<>>]
  BY DEF Init
<1> HIDE DEF Right
<1> QED
  BY <1>3, <1>4, <1>5, OwesNothing DEF Kept

LEMMA ProgramKept ==
  ASSUME Kept, NEW i \in Counters, Program(i)
  PROVE  Kept'
<1>1. PICK p \in Programs[i] :
        /\ counter' = [counter EXCEPT ![i] = Programmed(counter[i], p[1], p[2])]
        /\ owed' = [owed EXCEPT ![i] = <<>>]
  BY DEF Program
<1>2. p[1] \in 0..7 /\ p[2] \in Orders
  BY IntervalTimerAssumption
<1>3. counter[i] \in Right
  BY DEF Kept
<1>4. Programmed(counter[i], p[1], p[2]) \in Right
  BY <1>2, <1>3, ProgrammedRight
<1>5. <<>> \in Owed
  BY DEF Owed
<1> QED
  BY <1>1, <1>4, <1>5, OwesNothing DEF Kept

LEMMA WriteKept ==
  ASSUME Kept, NEW i \in Counters, Write(i)
  PROVE  Kept'
<1>1. PICK byte \in Counts[i] :
        counter' = [counter EXCEPT ![i] = Written(counter[i], byte)] /\ owed' = owed
  BY DEF Write
<1>2. byte \in 0 .. Byte - 1
  BY IntervalTimerAssumption
<1>3. counter[i] \in Right
  BY DEF Kept
<1> DEFINE d == Written(counter[i], byte)
<1>4. d \in Right
  BY <1>2, <1>3, WrittenRight
<1>5. SameLatch(counter[i], d)
  <2> DEFINE c == counter[i]
             t == Taken(c, byte)
             l == Loaded(t)
  <2>1. c \in CounterType
    BY <1>3 DEF Right
  <2>2. SameLatch(c, t)
    <3>1. c.write \in {"LSB", "MSB", "LSB_multiple", "MSB_multiple"}
      BY <2>1 DEF CounterType
    <3> HIDE DEF c
    <3> QED
      BY <2>1, <3>1 DEF Taken, SameLatch, CounterType
  <2>3. t \in CounterType
    BY <1>2, <2>1, TakenFacts
  <2> HIDE DEF t
  <2>4. SameLatch(t, l) /\ l \in CounterType
    <3>1. l = t \/ l = [t EXCEPT !.null = TRUE, !.count = t.inlatch]
      BY DEF Loaded
    <3> HIDE DEF l
    <3> QED
      BY <2>3, <3>1 DEF SameLatch, CounterType
  <2>5. SameLatch(l, d)
    BY <2>4 DEF Written, SameLatch, CounterType, t
  <2> QED
    BY <2>2, <2>4, <2>5 DEF SameLatch
<1> HIDE DEF d
<1>6. counter' = [counter EXCEPT ![i] = d]
  BY <1>1 DEF d
<1>7. Owes(d, owed[i])
  BY <1>5, SameOwes DEF Kept
<1> QED
  BY <1>1, <1>4, <1>6, <1>7 DEF Kept

LEMMA ReadKept ==
  ASSUME Kept, NEW i \in Counters, Read(i)
  PROVE  Kept'
<1> DEFINE d == AfterRead(counter[i])
           b == IF counter[i].statusLatched \/ owed[i] = <<>> THEN owed[i] ELSE Tail(owed[i])
<1>1. counter' = [counter EXCEPT ![i] = d] /\ owed' = [owed EXCEPT ![i] = b]
  BY DEF Read
<1>2. counter[i] \in Right /\ counter[i] \in CounterType /\ owed[i] \in Owed
  BY DEF Kept, Right
<1>3. d \in Right /\ Owes(d, b)
  BY <1>2, ReadRight, ReadOwes DEF Kept
<1>4. b \in Owed
  <2>1. owed[i] # <<>> => Tail(owed[i]) \in Owed
    BY <1>2, HeadTailProperties DEF Owed
  <2> QED
    BY <1>2, <2>1
<1> HIDE DEF d, b
<1> QED
  BY <1>1, <1>3, <1>4 DEF Kept

LEMMA LatchOfKept ==
  ASSUME Kept, NEW which, NEW count \in BOOLEAN, NEW status \in BOOLEAN, LatchOf(which, count, status)
  PROVE  Kept'
<1> DEFINE l(i) == IF i \in which /\ count THEN LatchCounter(counter[i]) ELSE counter[i]
           d(i) == IF i \in which /\ status THEN StatusOf(l(i)) ELSE l(i)
           b(i) == IF i \in which /\ count /\ ~Latched(counter[i]) THEN Promised(counter[i]) ELSE owed[i]
<1>1. counter' = [i \in Counters |-> d(i)] /\ owed' = [i \in Counters |-> b(i)]
  BY DEF LatchOf, StatusOf
<1>2. ASSUME NEW i \in Counters PROVE d(i) \in Right /\ b(i) \in Owed /\ Owes(d(i), b(i))
  <2>1. counter[i] \in Right /\ counter[i] \in CounterType /\ owed[i] \in Owed /\ Owes(counter[i], owed[i])
    BY DEF Kept, Right
  <2>2. l(i) \in Right
    BY <2>1, LatchRight
  <2>3. b(i) \in Owed
    BY <2>1, PromisedFacts
  <2>4. Owes(l(i), b(i))
    <3>1. CASE i \in which /\ count /\ ~Latched(counter[i])
      BY <2>1, <3>1, LatchOwes
    <3>2. CASE ~(i \in which /\ count /\ ~Latched(counter[i]))
      <4>1. b(i) = owed[i]
        BY <3>2
      <4>2. l(i) = counter[i]
        BY <3>2 DEF LatchCounter
      <4> HIDE DEF b, l
      <4> QED
        BY <2>1, <4>1, <4>2
    <3> QED
      BY <3>1, <3>2
  <2> HIDE DEF b, l
  <2>5. StatusOf(l(i)) \in Right
    BY <2>2, LatchRight
  <2>6. SameLatch(l(i), StatusOf(l(i)))
    BY <2>2 DEF SameLatch, StatusOf, CounterType, Right
  <2>7. Owes(StatusOf(l(i)), b(i))
    BY <2>4, <2>6, SameOwes
  <2> QED
    BY <2>2, <2>3, <2>4, <2>5, <2>7
<1> HIDE DEF d, b
<1> QED
  BY <1>1, <1>2 DEF Kept

LEMMA SetGateKept ==
  ASSUME Kept, SetGate
  PROVE  Kept'
<1> DEFINE c == counter[2]
           d == Gated(c, ~c.gate)
<1>1. 2 \in Counters /\ counter' = [counter EXCEPT ![2] = d] /\ owed' = owed
  BY DEF SetGate
<1>2. c \in Right
  BY <1>1 DEF Kept
<1>3. d \in Right
  <2> HIDE DEF c
  <2>1. (~c.gate) \in BOOLEAN
    OBVIOUS
  <2> QED
    BY <1>2, <2>1, GatedRight
<1>4. SameLatch(c, d)
  <2>1. c \in CounterType
    BY <1>2 DEF Right
  <2> HIDE DEF c
  <2> QED
    BY <2>1 DEF SameLatch, Gated, CounterType
<1>5. Owes(c, owed[2])
  BY <1>1 DEF Kept
<1> HIDE DEF c, d
<1>6. Owes(d, owed[2])
  BY <1>4, <1>5, SameOwes
<1> QED
  BY <1>1, <1>3, <1>6 DEF Kept

LEMMA HandleTimerKept ==
  ASSUME Kept, HandleTimer
  PROVE  Kept'
<1>1. counter \in [Counters -> Right]
  BY DEF Kept
<1>2. Latest \in Nat
  <2>1. counter \in [Counters -> CounterType]
    BY <1>1 DEF Right
  <2> QED
    BY <2>1, NextEventNat, IntervalTimerAssumption DEF Latest
<1>3. PICK n \in 1..Latest : counter' = Periodic(counter, n) /\ owed' = owed
  BY DEF HandleTimer
<1>4. n \in Nat
  BY <1>2
<1>5. counter' \in [Counters -> Right] /\ Likewise(counter, counter')
  BY <1>1, <1>3, <1>4, PeriodicRight
<1>6. ASSUME NEW i \in Counters PROVE Owes(counter'[i], owed[i])
  <2>1. SameLatch(counter[i], counter'[i])
    BY <1>5 DEF Likewise, Alike, SameLatch
  <2> QED
    BY <2>1, SameOwes DEF Kept
<1> QED
  BY <1>3, <1>5, <1>6 DEF Kept

(* The inductive invariant holds: whatever software programs, writes, gates,*)
(* latches and reads, and however the clocks come in, the announced times   *)
(* (next_change_time) are true of the counts and the latches hold what is   *)
(* owed.                                                                    *)
THEOREM CountersRight == Spec => []IInv
<1>1. Init => Kept
  BY InitKept
<1>2. Kept /\ [Next]_vars => Kept'
  <2> SUFFICES ASSUME Kept, [Next]_vars PROVE Kept'
    OBVIOUS
  <2>1. ASSUME NEW i \in Counters, Program(i) PROVE Kept'
    BY <2>1, ProgramKept
  <2>2. ASSUME NEW i \in Counters, Read(i) PROVE Kept'
    BY <2>2, ReadKept
  <2>3. ASSUME NEW i \in Counters, Write(i) PROVE Kept'
    BY <2>3, WriteKept
  <2>4. CASE Latch
    BY <2>4, LatchOfKept DEF Latch
  <2>5. CASE ReadBack
    BY <2>5, LatchOfKept DEF ReadBack
  <2>6. CASE SetGate
    BY <2>6, SetGateKept
  <2>7. CASE HandleTimer
    BY <2>7, HandleTimerKept
  <2>8. CASE UNCHANGED vars
    BY <2>8 DEF vars, Kept, Owes, Low, High
  <2> QED
    BY <2>1, <2>2, <2>3, <2>4, <2>5, <2>6, <2>7, <2>8 DEF Next, Software
<1>3. Kept => IInv
  BY KeptIsIInv
<1> QED
  BY <1>1, <1>2, <1>3, PTL DEF Spec
(* A counter that still owes bytes of a latched count is latched, and the   *)
(* next byte read is the first of them (latch_counter, read): no write, no  *)
(* clock and no further latch has replaced it.                              *)
THEOREM LatchedBytesAreRead == Spec => []LatchesAreKept
<1>1. IInv => LatchesAreKept
  BY KeptIsIInv, OwesHead DEF Kept, Right, LatchesAreKept
<1> QED
  BY <1>1, CountersRight, PTL

-----------------------------------------------------------------------------
(* The laws of clock_multiple.                                              *)
LEMMA RightIsClosed == Closed(Right)
<1> SUFFICES ASSUME NEW t \in Turns(Right) PROVE Turn(t) \in Turns(Right)
  BY DEF Closed
<1>1. t.counter \in Right /\ t.clocks \in Nat /\ t = Left(t.counter, t.clocks)
  BY DEF Turns, Left
<1> QED
  BY <1>1, RightClosed

(* A loop that has no clocks left has ended.                                *)
LEMMA Spent ==
  ASSUME NEW c \in Right, NEW n \in Nat, NEW o,
         IsOrbit(o, Turns(Right), TurnFunction(Right), Left(c, n))
  PROVE  \A k \in Nat : o[n + k] = o[n]
<1>1. /\ o \in [Nat -> Turns(Right)] /\ o[0] = Left(c, n)
      /\ \A k \in Nat : o[k + 1] = Turn(o[k])
  BY DEF IsOrbit, TurnFunction
<1>2. ASSUME NEW k \in Nat
      PROVE  /\ o[k].counter \in Right /\ o[k].clocks \in Nat /\ o[k] = Left(o[k].counter, o[k].clocks)
             /\ o[k].clocks > 0 => o[k + 1].clocks < o[k].clocks
             /\ o[k].clocks = 0 => o[k + 1] = o[k]
  <2> DEFINE d == o[k].counter
             m == o[k].clocks
  <2>1. d \in Right /\ m \in Nat /\ o[k] = Left(d, m)
    <3>1. o[k] \in Turns(Right)
      BY <1>1
    <3> QED
      BY <3>1 DEF Turns, Left
  <2>2. o[k + 1] = Turn(Left(d, m))
    BY <1>1, <2>1
  <2> SUFFICES /\ d \in Right /\ m \in Nat /\ o[k] = Left(d, m)
               /\ m > 0 => o[k + 1].clocks < m
               /\ m = 0 => o[k + 1] = o[k]
    OBVIOUS
  <2> HIDE DEF d, m
  <2>3. m > 0 => o[k + 1].clocks < m
    BY <2>1, <2>2, RightClosed
  <2>4. m = 0 => o[k + 1] = o[k]
    <3>1. d \in CounterType
      BY <2>1 DEF Right
    <3> QED
      BY <2>1, <2>2, <3>1, TurnCases
  <2> QED
    BY <2>1, <2>3, <2>4
<1> DEFINE T == {k \in Nat : o[k].clocks + k <= n \/ o[k].clocks = 0}
<1>3. 0 \in T
  BY <1>1 DEF Left
<1>4. ASSUME NEW k \in Nat, k \in T PROVE k + 1 \in T
  <2>1. o[k].clocks \in Nat /\ o[k + 1].clocks \in Nat
    BY <1>2
  <2>2. CASE o[k].clocks = 0
    BY <1>2, <2>2
  <2>3. CASE o[k].clocks # 0
    BY <1>2, <1>4, <2>1, <2>3
  <2> QED
    BY <2>2, <2>3
<1>5. \A k \in Nat : k \in T
  <2> HIDE DEF T
  <2> QED
    BY <1>3, <1>4, Induction
<1>6. o[n].clocks = 0
  <2>1. n \in T /\ o[n].clocks \in Nat
    BY <1>2, <1>5
  <2> QED
    BY <2>1
<1> DEFINE U == {k \in Nat : o[n + k] = o[n]}
<1>7. 0 \in U
  OBVIOUS
<1>8. ASSUME NEW k \in Nat, k \in U PROVE k + 1 \in U
  <2>1. n + k \in Nat /\ (n + k) + 1 = n + (k + 1)
    OBVIOUS
  <2>2. o[n + k] = o[n]
    BY <1>8
  <2>3. o[(n + k) + 1] = o[n + k]
    BY <1>2, <1>6, <2>1, <2>2
  <2> QED
    BY <2>1, <2>2, <2>3
<1>9. \A k \in Nat : k \in U
  <2> HIDE DEF U
  <2> QED
    BY <1>7, <1>8, Induction
<1> QED
  BY <1>9

LEMMA MultipleOfNone ==
  ASSUME NEW c \in Right
  PROVE  ClockMultiple(c, 0) = c
<1> DEFINE o == Orbit(Turns(Right), TurnFunction(Right), Left(c, 0))
<1>1. IsOrbit(o, Turns(Right), TurnFunction(Right), Left(c, 0))
  BY RightIsClosed, TurnOrbit
<1> HIDE DEF o
<1>2. ClockMultiple(c, 0) = o[0].counter
  BY <1>1, RightIsClosed, MultipleIsOrbit
<1>3. o[0] = Left(c, 0)
  BY <1>1 DEF IsOrbit
<1> QED
  BY <1>2, <1>3 DEF Left

(* What is left after one turn can be made up for on its own.               *)
LEMMA MultipleUnfolds ==
  ASSUME NEW c \in Right, NEW n \in Nat, NEW d \in Right, NEW m \in Nat, m < n,
         Turn(Left(c, n)) = Left(d, m)
  PROVE  ClockMultiple(c, n) = ClockMultiple(d, m)
<1> DEFINE o == Orbit(Turns(Right), TurnFunction(Right), Left(c, n))
           p == Orbit(Turns(Right), TurnFunction(Right), Left(d, m))
<1>1. IsOrbit(o, Turns(Right), TurnFunction(Right), Left(c, n))
  BY RightIsClosed, TurnOrbit
<1>2. IsOrbit(p, Turns(Right), TurnFunction(Right), Left(d, m))
  BY RightIsClosed, TurnOrbit
<1> HIDE DEF o, p
<1>3. ClockMultiple(c, n) = o[n].counter /\ ClockMultiple(d, m) = p[m].counter
  BY <1>1, <1>2, RightIsClosed, MultipleIsOrbit
<1>4. TurnFunction(Right)[Left(c, n)] = Left(d, m)
  BY DEF TurnFunction, Turns, Left
<1>5. n - 1 \in Nat /\ (n - 1) + 1 = n /\ n - 1 - m \in Nat /\ m + (n - 1 - m) = n - 1
  OBVIOUS
<1>6. o[(n - 1) + 1] = p[n - 1]
  <2>1. IsOrbit(p, Turns(Right), TurnFunction(Right), TurnFunction(Right)[Left(c, n)])
    BY <1>2, <1>4, Zenon
  <2> DEFINE k == n - 1
             s == Left(c, n)
  <2>2. k \in Nat
    BY <1>5
  <2>3. IsOrbit(o, Turns(Right), TurnFunction(Right), s) /\ IsOrbit(p, Turns(Right), TurnFunction(Right), TurnFunction(Right)[s])
    BY <1>1, <2>1
  <2> SUFFICES o[k + 1] = p[k]
    OBVIOUS
  <2> HIDE DEF k, s
  <2> QED
    BY <2>2, <2>3, OrbitFront
<1>7. p[m + (n - 1 - m)] = p[m]
  BY <1>2, <1>5, Spent
<1> QED
  BY <1>3, <1>5, <1>6, <1>7

LEMMA MultipleCases ==
  ASSUME NEW c \in Right, NEW n \in Nat, n > 0
  PROVE  /\ c.next = 0 => ClockMultiple(c, n) = IF Runs(c) THEN Lower(c, Step(c) * n) ELSE c
         /\ c.mode > 5 => ClockMultiple(c, n) = c
         /\ c.next > n /\ c.mode <= 5 => ClockMultiple(c, n) = Waits(c, n)
         /\ c.next > 0 /\ c.next <= n /\ c.mode <= 5 =>
              /\ Clock(Waits(c, c.next - 1)) \in Right
              /\ n - c.next \in Nat
              /\ ClockMultiple(c, n) = ClockMultiple(Clock(Waits(c, c.next - 1)), n - c.next)
<1>1. c \in CounterType /\ Told(c) /\ Paced(c) /\ c.next \in Nat /\ c.mode \in Nat
  BY Words DEF Right, CounterType
<1>2. ASSUME NEW d, NEW m \in Nat, m < n, Turn(Left(c, n)) = Left(d, m)
      PROVE  d \in Right /\ ClockMultiple(c, n) = ClockMultiple(d, m)
  <2>1. Left(d, m) \in Turns(Right)
    BY <1>2, RightClosed
  <2>2. d \in Right
    BY <2>1 DEF Turns, Left
  <2> QED
    BY <1>2, <2>2, MultipleUnfolds
<1>3. ASSUME NEW d, Turn(Left(c, n)) = Left(d, 0)
      PROVE  ClockMultiple(c, n) = d
  BY <1>2, <1>3, MultipleOfNone
<1>4. c.next = 0 => ClockMultiple(c, n) = IF Runs(c) THEN Lower(c, Step(c) * n) ELSE c
  <2> DEFINE d == IF Runs(c) THEN Lower(c, Step(c) * n) ELSE c
  <2> SUFFICES ASSUME c.next = 0 PROVE ClockMultiple(c, n) = d
    OBVIOUS
  <2>1. Turn(Left(c, n)) = Left(d, 0)
    BY <1>1, TurnCases
  <2> HIDE DEF d
  <2> QED
    BY <1>3, <2>1
<1>5. c.mode > 5 => ClockMultiple(c, n) = c
  <2> SUFFICES ASSUME c.mode > 5 PROVE ClockMultiple(c, n) = c
    OBVIOUS
  <2>1. ~Runs(c)
    BY <1>1 DEF Runs
  <2>2. Turn(Left(c, n)) = Left(c, 0)
    BY <1>1, <2>1, TurnCases
  <2> QED
    BY <1>3, <2>2
<1>6. c.next > n /\ c.mode <= 5 => ClockMultiple(c, n) = Waits(c, n)
  BY <1>1, <1>3, TurnCases
<1>7. ASSUME c.next > 0, c.next <= n, c.mode <= 5
      PROVE  /\ Clock(Waits(c, c.next - 1)) \in Right
             /\ n - c.next \in Nat
             /\ ClockMultiple(c, n) = ClockMultiple(Clock(Waits(c, c.next - 1)), n - c.next)
  <2>1. n - c.next \in Nat /\ n - c.next < n
    BY <1>1, <1>7
  <2>2. Turn(Left(c, n)) = Left(Clock(Waits(c, c.next - 1)), n - c.next)
    BY <1>1, <1>7, TurnCases
  <2> QED
    BY <1>2, <2>1, <2>2
<1> QED
  BY <1>4, <1>5, <1>6, <1>7
-----------------------------------------------------------------------------
(* The clocks that come against those that are skipped.                     *)
LEMMA ClockedUnfolds ==
  ASSUME NEW c \in CounterType, NEW n \in Nat
  PROVE  Clocked(c, 0) = c /\ Clocked(c, n + 1) = Clocked(Clock(c), n) /\ Clocked(c, n) \in CounterType
<1> DEFINE o == Orbit(CounterType, ClockFunction, c)
           p == Orbit(CounterType, ClockFunction, Clock(c))
<1>1. \A d \in CounterType : Clock(d) \in CounterType
  BY ClockType
<1>2. ClockFunction \in [CounterType -> CounterType] /\ ClockFunction[c] = Clock(c) /\ Clock(c) \in CounterType
  BY <1>1 DEF ClockFunction
<1>3. IsOrbit(o, CounterType, ClockFunction, c)
  BY <1>2, OrbitLaws
<1>4. IsOrbit(p, CounterType, ClockFunction, ClockFunction[c])
  BY <1>2, OrbitLaws
<1>5. n + 1 \in Nat /\ 0 \in Nat
  OBVIOUS
<1>6. Clocked(c, 0) = o[0] /\ Clocked(c, n + 1) = o[n + 1] /\ Clocked(c, n) = o[n]
  BY <1>1, <1>5, ClockedIsOrbit
<1>7. Clocked(Clock(c), n) = p[n]
  BY <1>1, <1>2, ClockedIsOrbit
<1> HIDE DEF o, p
<1>8. o[n + 1] = p[n]
  BY <1>3, <1>4, OrbitFront
<1>9. o[0] = c /\ o[n] \in CounterType
  BY <1>3 DEF IsOrbit
<1> QED
  BY <1>6, <1>7, <1>8, <1>9

LEMMA ClockExact ==
  ASSUME NEW c \in Right, Exact(c)
  PROVE  Clock(c) \in Right /\ Exact(Clock(c))
<1>1. c \in CounterType /\ Told(c) /\ Paced(c)
  BY DEF Right
<1>2. Clock(c) \in Right
  BY <1>1, ClockType, ClockTold, ClockPaced DEF Right
<1>3. /\ Clock(c).gate = c.gate /\ Clock(c).mode = c.mode /\ Clock(c).inlatch = c.inlatch
      /\ Clock(c).write = c.write /\ Clock(c).written = c.written
  BY <1>1, ClockType DEF Alike
<1>4. c.mode \in {1, 5} /\ ~c.null => ~Clock(c).null
  <2> SUFFICES ASSUME c.mode \in {1, 5}, ~c.null PROVE ~Clock(c).null
    OBVIOUS
  <2>1. c.written
    BY <1>1 DEF Told, Told1, Told5
  <2>2. CASE c.mode = 1
    <3>1. Clock(c) = [Clock1(c) EXCEPT !.trigger = FALSE] /\ Clock1(c) \in CounterType
      BY <1>1, <2>1, <2>2, ClockByMode, Clock1Type
    <3>2. ~Clock1(c).null
      BY <1>1 DEF Clock1, CounterType
    <3> QED
      BY <3>1, <3>2 DEF CounterType
  <2>3. CASE c.mode = 5
    <3>1. Clock(c) = [Clock5(c) EXCEPT !.trigger = FALSE] /\ Clock5(c) \in CounterType
      BY <1>1, <2>1, <2>3, ClockByMode, Clock5Type
    <3>2. ~Clock5(c).null
      BY <1>1 DEF Clock5, Strobe, CounterType
    <3> QED
      BY <3>1, <3>2 DEF CounterType
  <2> QED
    BY <2>2, <2>3
<1>5. Exact(Clock(c))
  BY <1>3, <1>4 DEF Exact, Half
<1> QED
  BY <1>2, <1>5

(* A counter with no event counts on, or stands still.                      *)
LEMMA ClockIdle ==
  ASSUME NEW c \in Right, Exact(c), c.next = 0, c.mode <= 5
  PROVE  Clock(c) = [(IF Runs(c) THEN Lower(c, Step(c)) ELSE c) EXCEPT !.trigger = FALSE]
<1>1. c \in CounterType /\ Told(c) /\ ~Half(c) /\ c.mode \in 0..7
  BY DEF Right, Exact, CounterType
<1>2. [c EXCEPT !.next = 0] = c
  BY <1>1 DEF CounterType
<1>3. Clock(c) = [ByMode(c) EXCEPT !.trigger = FALSE]
  BY ClockByMode
<1> SUFFICES ByMode(c) = IF Runs(c) THEN Lower(c, Step(c)) ELSE c
  BY <1>3
<1> DEFINE n == Minus(c.count, 1)
<1>4. n \in Word /\ c.count \in Word
  BY <1>1, Words DEF CounterType
<1>5. c.mode # 3 => Lower(c, Step(c)) = [c EXCEPT !.count = n]
  BY DEF Lower, Step
<1> HIDE DEF n
<1>6. CASE ~c.written
  BY <1>2, <1>6, ClockByMode DEF Runs
<1>7. CASE c.written /\ c.mode = 0
  <2>1. ByMode(c) = Clock0(c) /\ ~c.null /\ (c.out \/ ~c.gate)
    <3>1. ByMode(c) = Clock0(c)
      BY <1>7, ClockByMode
    <3>2. Told0(c)
      BY <1>1, <1>7 DEF Told
    <3> QED
      BY <1>1, <1>7, <3>1, <3>2 DEF Told0
  <2>2. c.gate => ByMode(c) = [c EXCEPT !.count = n, !.next = 0, !.out = c.out \/ n = 0]
    BY <1>1, <2>1 DEF Clock0, n
  <2>3. ~c.gate => ByMode(c) = [c EXCEPT !.next = 0]
    BY <1>1, <2>1 DEF Clock0
  <2>4. Runs(c) <=> c.gate
    BY <1>1, <1>7 DEF Runs
  <2>5. CASE c.gate
    <3>1. [c EXCEPT !.count = n, !.next = 0, !.out = c.out \/ n = 0] = [c EXCEPT !.count = n]
      BY <1>1, <1>4, <2>1, <2>5 DEF CounterType
    <3> QED
      BY <1>5, <1>7, <2>2, <2>4, <2>5, <3>1
  <2>6. CASE ~c.gate
    BY <1>2, <2>3, <2>4, <2>6
  <2> QED
    BY <2>5, <2>6
<1>8. CASE c.written /\ c.mode = 1
  <2>1. ByMode(c) = Clock1(c) /\ ~c.trigger /\ c.out
    BY <1>1, <1>8, ClockByMode DEF Told, Told1, Exact
  <2>2. ByMode(c) = [c EXCEPT !.count = n, !.next = 0, !.out = TRUE]
    BY <2>1 DEF Clock1, n
  <2>3. [c EXCEPT !.count = n, !.next = 0, !.out = TRUE] = [c EXCEPT !.count = n]
    BY <1>1, <1>4, <2>1 DEF CounterType
  <2>4. Runs(c)
    BY <1>8 DEF Runs
  <2> QED
    BY <1>5, <1>8, <2>2, <2>3, <2>4
<1>9. ASSUME c.written, c.mode = 2 PROVE FALSE
  BY <1>1, <1>9 DEF Told, Told2, Exact
<1>10. CASE c.written /\ c.mode = 3
  <2>1. ByMode(c) = Clock3(c) /\ ~c.gate
    BY <1>1, <1>10, ClockByMode DEF Told, Told3, Exact, Even
  <2>2. ByMode(c) = [c EXCEPT !.next = 0] /\ ~Runs(c)
    BY <1>10, <2>1 DEF Clock3, Runs
  <2> QED
    BY <1>2, <2>2
<1>11. CASE c.written /\ c.mode = 4
  <2> DEFINE h == [c EXCEPT !.out = TRUE]
  <2>1. ByMode(c) = Clock4(c) /\ ~c.null /\ c.out /\ (c.gate => ~c.firstPass)
    <3>1. ByMode(c) = Clock4(c)
      BY <1>11, ClockByMode
    <3>2. Told4(c)
      BY <1>1, <1>11 DEF Told
    <3> QED
      BY <1>1, <1>11, <3>1, <3>2 DEF Told4
  <2>2. h = c
    BY <1>1, <2>1 DEF CounterType
  <2>3. c.gate => ByMode(c) = [c EXCEPT !.count = n, !.next = 0]
    BY <2>1, <2>2 DEF Clock4, Strobe, n
  <2>4. ~c.gate => ByMode(c) = [c EXCEPT !.next = 0]
    BY <2>1, <2>2 DEF Clock4
  <2>5. Runs(c) <=> c.gate
    BY <1>11 DEF Runs
  <2>6. [c EXCEPT !.count = n, !.next = 0] = [c EXCEPT !.count = n]
    BY <1>1, <1>4 DEF CounterType
  <2> QED
    BY <1>2, <1>5, <1>11, <2>3, <2>4, <2>5, <2>6
<1>12. CASE c.written /\ c.mode = 5
  <2> DEFINE h == [c EXCEPT !.out = TRUE]
  <2>1. ByMode(c) = Clock5(c) /\ ~c.trigger /\ c.out /\ ~c.firstPass
    BY <1>1, <1>12, ClockByMode DEF Told, Told5, Exact
  <2>2. h = c
    BY <1>1, <2>1 DEF CounterType
  <2>3. ByMode(c) = [c EXCEPT !.count = n, !.next = 0]
    BY <2>1, <2>2 DEF Clock5, Strobe, n
  <2>4. Runs(c)
    BY <1>12 DEF Runs
  <2>5. [c EXCEPT !.count = n, !.next = 0] = [c EXCEPT !.count = n]
    BY <1>1, <1>4 DEF CounterType
  <2> QED
    BY <1>5, <1>12, <2>3, <2>4, <2>5
<1> QED
  BY <1>1, <1>6, <1>7, <1>8, <1>9, <1>10, <1>11, <1>12

(* A clock before the event is one clock of the wait.  Only mode 0 with OUT *)
(* high announces an event that does not come.                              *)
LEMMA ClockWaits ==
  ASSUME NEW c \in Right, Exact(c), c.next > 1, c.mode <= 5, ~(c.mode = 0 /\ c.out)
  PROVE  /\ Clock(c) = [Waits(c, 1) EXCEPT !.trigger = FALSE]
         /\ c.mode \notin {0, 4} => ~c.trigger
<1>1. c \in CounterType /\ Told(c) /\ ~Half(c) /\ c.mode \in 0..7 /\ c.next \in Nat
  BY Words DEF Right, Exact, CounterType
<1>2. c.written
  BY <1>1 DEF Told
<1>3. Clock(c) = [ByMode(c) EXCEPT !.trigger = FALSE]
  BY ClockByMode
<1> DEFINE n == Minus(c.count, 1)
           x == c.next - 1
<1>4. n \in Word /\ c.count \in Word /\ c.count \in Nat /\ x \in Word /\ x \in Nat /\ x # 0
  <2>1. c.next \in Word
    BY <1>1 DEF CounterType
  <2> QED
    BY <1>1, <2>1, Words, TopFacts DEF CounterType, Word
<1>5. c.mode # 3 => Waits(c, 1) = [c EXCEPT !.count = n, !.next = x]
  BY DEF Waits, Lower, Step, CounterType
<1>6. c.count = c.next => n = x
  BY <1>1, <1>4, MinusOne
<1> HIDE DEF n
<1> SUFFICES ByMode(c) = Waits(c, 1) /\ (c.mode \notin {0, 4} => ~c.trigger)
  BY <1>3
<1>7. CASE c.mode = 0
  <2>1. ByMode(c) = Clock0(c) /\ ~c.null /\ c.gate /\ ~c.out /\ c.count = c.next
    <3>1. ByMode(c) = Clock0(c)
      BY <1>2, <1>7, ClockByMode
    <3>2. Told0(c)
      BY <1>1, <1>7 DEF Told
    <3> QED
      BY <1>1, <1>2, <1>7, <3>1, <3>2 DEF Told0
  <2>2. ByMode(c) = [c EXCEPT !.count = n, !.next = n, !.out = FALSE]
    BY <1>1, <1>4, <1>6, <2>1 DEF Clock0, n, CounterType
  <2>3. [c EXCEPT !.count = n, !.next = n, !.out = FALSE] = [c EXCEPT !.count = n, !.next = n]
    BY <1>1, <1>4, <2>1 DEF CounterType
  <2>5. n = x
    BY <1>6, <2>1
  <2>6. Waits(c, 1) = [c EXCEPT !.count = n, !.next = n]
    BY <1>5, <1>7, <2>5
  <2> QED
    BY <1>7, <2>1, <2>2, <2>3, <2>6
<1>8. CASE c.mode = 1
  <2>1. ByMode(c) = Clock1(c) /\ ~c.trigger /\ ~c.out /\ c.count = c.next
    BY <1>1, <1>2, <1>8, ClockByMode DEF Told, Told1, Exact
  <2>2. Positive(n) = n /\ n # 0
    BY <1>4, <1>6, <2>1 DEF Positive
  <2>3. ByMode(c) = [c EXCEPT !.count = n, !.next = n, !.out = FALSE]
    BY <1>1, <2>1, <2>2 DEF Clock1, n, CounterType
  <2>4. [c EXCEPT !.count = n, !.next = n, !.out = FALSE] = [c EXCEPT !.count = n, !.next = n]
    BY <1>1, <1>4, <2>1 DEF CounterType
  <2>5. n = x
    BY <1>6, <2>1
  <2>6. Waits(c, 1) = [c EXCEPT !.count = n, !.next = n]
    BY <1>5, <1>8, <2>5
  <2> QED
    BY <1>8, <2>1, <2>2, <2>3, <2>4, <2>6
<1>9. CASE c.mode = 2
  <2>1. ByMode(c) = Clock2(c) /\ ~c.trigger /\ ~c.firstPass /\ n = c.next /\ c.gate
    BY <1>1, <1>2, <1>9, ClockByMode DEF Told, Told2, Exact, n
  <2>2. Minus(n, 1) = x
    BY <1>1, <1>4, <2>1, MinusOne
  <2>3. ByMode(c) = [c EXCEPT !.count = n, !.next = x]
    <3>1. Clock2(c) = IF n = 1 THEN [c EXCEPT !.count = 1, !.next = 1, !.out = FALSE, !.firstPass = TRUE]
                      ELSE [c EXCEPT !.count = n, !.next = Minus(n, 1)]
      BY <2>1 DEF Clock2, n
    <3>2. n # 1
      BY <1>1, <2>1
    <3> QED
      BY <2>1, <2>2, <3>1, <3>2
  <2> QED
    BY <1>5, <1>9, <2>1, <2>3
<1>10. CASE c.mode = 3
  <2>1. /\ ByMode(c) = Clock3(c) /\ ~c.trigger /\ ~c.firstPass /\ ~c.reload /\ c.gate /\ Even(c.count)
        /\ c.count = IF Longer(c) THEN 2 * c.next ELSE 2 * c.next + 2
    BY <1>1, <1>2, <1>10, ClockByMode DEF Told, Told3, Exact, Even
  <2>2. Clock3(c) = Count3(c)
    BY <2>1 DEF Clock3
  <2>3. PICK m \in Word, next \in Word, last \in BOOLEAN :
           /\ m = Minus(c.count, 2) /\ Even(m)
           /\ last <=> m = 0 \/ (m = 2 /\ ~Longer(c))
           /\ ~last => m = IF Longer(c) THEN 2 * next ELSE 2 * next + 2
           /\ last => next = 1
           /\ next # 0
           /\ Count3(c) = [c EXCEPT !.count = m, !.next = next, !.reload = c.reload \/ last]
    BY <1>1, <2>1, Count3Even
  <2>4. m = c.count - 2
    BY <1>1, <1>4, <2>1, <2>3, MinusTwo
  <2>5. ~last /\ next = x
    <3>1. next \in Nat
      BY Words
    <3>2. m # 0 /\ ~(m = 2 /\ ~Longer(c))
      BY <1>1, <1>4, <2>1, <2>4
    <3> QED
      BY <1>1, <1>4, <2>1, <2>3, <2>4, <3>1, <3>2
  <2>6. Waits(c, 1) = [c EXCEPT !.count = m, !.next = x]
    <3>1. Step(c) * 1 = 2
      BY <1>10 DEF Step
    <3>2. 1 < c.next
      BY <1>1
    <3> QED
      BY <1>1, <2>3, <3>1, <3>2, WaitsType, ZenonT(40)
  <2>7. [c EXCEPT !.count = m, !.next = x, !.reload = FALSE] = [c EXCEPT !.count = m, !.next = x]
    BY <1>1, <2>1 DEF CounterType
  <2>8. Count3(c) = [c EXCEPT !.count = m, !.next = x, !.reload = FALSE]
    BY <2>1, <2>3, <2>5
  <2> QED
    BY <2>1, <2>2, <2>6, <2>7, <2>8
<1>11. CASE c.mode = 4
  <2> DEFINE h == [c EXCEPT !.out = TRUE]
  <2>1. ByMode(c) = Clock4(c) /\ ~c.null /\ c.gate /\ c.out /\ c.firstPass /\ c.count = c.next
    <3>1. ByMode(c) = Clock4(c)
      BY <1>2, <1>11, ClockByMode
    <3>2. Told4(c)
      BY <1>1, <1>11 DEF Told
    <3> QED
      BY <1>1, <1>2, <1>11, <3>1, <3>2 DEF Told4
  <2>2. h = c
    BY <1>1, <2>1 DEF CounterType
  <2>3. n = x /\ n # 0
    BY <1>4, <1>6, <2>1
  <2>4. Clock4(c) = Strobe(c)
    BY <2>1, <2>2 DEF Clock4
  <2>5. Strobe(c) = [c EXCEPT !.count = n, !.next = n]
    BY <2>1, <2>3 DEF Strobe, n
  <2> QED
    BY <1>5, <1>11, <2>1, <2>3, <2>4, <2>5
<1>12. CASE c.mode = 5
  <2> DEFINE h == [c EXCEPT !.out = TRUE]
  <2>1. ByMode(c) = Clock5(c) /\ ~c.trigger /\ c.out /\ c.firstPass /\ c.count = c.next
    BY <1>1, <1>2, <1>12, ClockByMode DEF Told, Told5, Exact
  <2>2. h = c
    BY <1>1, <2>1 DEF CounterType
  <2>3. n = x /\ n # 0
    BY <1>4, <1>6, <2>1
  <2>4. Clock5(c) = Strobe(c)
    BY <2>1, <2>2 DEF Clock5
  <2>5. Strobe(c) = [c EXCEPT !.count = n, !.next = n]
    BY <2>1, <2>3 DEF Strobe, n
  <2> QED
    BY <1>5, <1>12, <2>1, <2>3, <2>4, <2>5
<1> QED
  BY <1>1, <1>7, <1>8, <1>9, <1>10, <1>11, <1>12
(* That counter, clocked or made up for, counts on.                         *)
LEMMA ClockHigh0 ==
  ASSUME NEW c \in CounterType, c.mode = 0, c.out, c.written, ~Half(c), ~c.null, c.gate
  PROVE  Runs(c) /\ Clock(c) = [Lower(c, 1) EXCEPT !.next = 0, !.trigger = FALSE]
<1>5. Clock(c) = [Clock0(c) EXCEPT !.trigger = FALSE]
  BY ClockByMode
<1> DEFINE n == Minus(c.count, 1)
<1>6. n \in Word
  BY Words DEF CounterType
<1>7. Clock0(c) = [c EXCEPT !.count = n, !.next = 0, !.out = c.out \/ n = 0]
  BY DEF Clock0
<1>8. Lower(c, 1) = [c EXCEPT !.count = n]
  BY DEF Lower
<1> HIDE DEF n
<1>9. [c EXCEPT !.count = n, !.next = 0, !.out = c.out \/ n = 0] = [[c EXCEPT !.count = n] EXCEPT !.next = 0]
  BY <1>6 DEF CounterType
<1>10. Clock0(c) = [Lower(c, 1) EXCEPT !.next = 0]
  BY <1>7, <1>8, <1>9
<1> QED
  BY <1>5, <1>10 DEF Runs

(* In modes 0 and 4 the gate's rise changes no clock.                       *)
LEMMA ClockUntriggered ==
  ASSUME NEW c \in CounterType, c.mode \in {0, 4}
  PROVE  Clock([c EXCEPT !.trigger = FALSE]) = Clock(c)
<1> DEFINE d == [c EXCEPT !.trigger = FALSE]
           t(e) == [e EXCEPT !.trigger = FALSE]
<1>1. d.written = c.written /\ d.mode = c.mode
  BY DEF CounterType
<1>2. CASE ~c.written
  <2>1. ByMode(d) = [d EXCEPT !.next = 0] /\ ByMode(c) = [c EXCEPT !.next = 0]
    BY <1>1, <1>2, ClockByMode
  <2>2. t([d EXCEPT !.next = 0]) = t([c EXCEPT !.next = 0])
    BY DEF CounterType
  <2> QED
    BY <2>1, <2>2, ClockByMode, ZenonT(40)
<1>3. CASE c.written /\ c.mode = 0
  <2>1. ByMode(d) = Clock0(d) /\ ByMode(c) = Clock0(c)
    BY <1>1, <1>3, ClockByMode
  <2>2. t(Clock0(d)) = t(Clock0(c))
    BY ZenonT(40) DEF CounterType, Clock0, Half
  <2> QED
    BY <2>1, <2>2, ClockByMode, ZenonT(40)
<1>4. CASE c.written /\ c.mode = 4
  <2>1. ByMode(d) = Clock4(d) /\ ByMode(c) = Clock4(c)
    BY <1>1, <1>4, ClockByMode
  <2>2. t(Clock4(d)) = t(Clock4(c))
    BY ZenonT(40) DEF CounterType, Clock4, Strobe
  <2> QED
    BY <2>1, <2>2, ClockByMode, ZenonT(40)
<1> QED
  BY <1>2, <1>3, <1>4

-----------------------------------------------------------------------------
(* All of this as it is seen from outside.                                  *)
LEMMA SeenLower ==
  ASSUME NEW c \in CounterType, NEW m \in Nat, NEW n \in Nat
  PROVE  /\ Seen(Lower(c, m)) = Lower(Seen(c), m)
         /\ Lower(Lower(c, m), n) = Lower(c, m + n)
         /\ Seen(c) \in CounterType
<1>1. Seen(c) \in CounterType
  BY Words DEF Seen, CounterType
<1>2. Seen(Lower(c, m)) = Lower(Seen(c), m)
  BY DEF Seen, Lower, CounterType
<1>3. Minus(Minus(c.count, m), n) = Minus(c.count, m + n)
  BY MinusMinus DEF CounterType
<1>4. Lower(Lower(c, m), n) = Lower(c, m + n)
  BY <1>3 DEF Lower, CounterType
<1> QED
  BY <1>1, <1>2, <1>4

LEMMA SeenWaits ==
  ASSUME NEW c \in CounterType, NEW n \in Nat, n < c.next
  PROVE  Seen(Waits(c, n)) = Lower(Seen(c), Step(c) * n)
<1> DEFINE m == Step(c) * n
<1>1. m \in Nat /\ Lower(c, m) \in CounterType
  BY Steps, LowerType
<1>2. Waits(c, n) = [Lower(c, m) EXCEPT !.next = c.next - n]
  BY <1>1 DEF Waits, Lower, CounterType
<1>3. Seen(Waits(c, n)) = Seen(Lower(c, m))
  BY <1>1, <1>2 DEF Seen, CounterType
<1> HIDE DEF m
<1> QED
  BY <1>1, <1>3, SeenLower DEF m
LEMMA StepsAdd ==
  ASSUME NEW c, NEW m \in Nat, NEW n \in Nat
  PROVE  /\ Step(c) * m \in Nat /\ Step(c) * n \in Nat /\ Step(c) * (m + n) \in Nat
         /\ Step(c) * m + Step(c) * n = Step(c) * (m + n)
         /\ Step(c) \in Nat /\ Step(c) * 1 = Step(c)
<1> DEFINE s == Step(c)
<1>1. s \in Nat
  BY DEF Step
<1> HIDE DEF s
<1>2. s * m \in Nat /\ s * n \in Nat /\ s * (m + n) \in Nat /\ s * m + s * n = s * (m + n) /\ s * 1 = s
  BY <1>1
<1> QED
  BY <1>1, <1>2 DEF s

LEMMA SeenNone ==
  ASSUME NEW c \in CounterType
  PROVE  Lower(Seen(c), Step(c) * 0) = Seen(c)
<1>1. Step(c) * 0 = 0
  BY Steps
<1>2. Minus(c.count, 0) = c.count
  BY MinusZero DEF CounterType
<1>3. Lower(Seen(c), 0) = Seen(c)
  BY <1>2 DEF Lower, Seen, CounterType
<1> QED
  BY <1>1, <1>3

LEMMA IdleMultiple ==
  ASSUME NEW c \in Right, c.next = 0, NEW n \in Nat
  PROVE  /\ Runs(c) => Seen(ClockMultiple(c, n)) = Lower(Seen(c), Step(c) * n)
         /\ ~Runs(c) => ClockMultiple(c, n) = c
<1>1. c \in CounterType
  BY DEF Right
<1>2. CASE n = 0
  BY <1>1, <1>2, MultipleOfNone, SeenNone
<1>3. CASE n > 0
  <2>1. ClockMultiple(c, n) = IF Runs(c) THEN Lower(c, Step(c) * n) ELSE c
    BY <1>3, MultipleCases
  <2>2. Seen(Lower(c, Step(c) * n)) = Lower(Seen(c), Step(c) * n)
    BY <1>1, Steps, SeenLower
  <2> QED
    BY <2>1, <2>2
<1> QED
  BY <1>2, <1>3

(* To make up for one clock more is to be clocked once first.               *)
LEMMA OneMore ==
  ASSUME NEW c \in Right, Exact(c), NEW n \in Nat
  PROVE  Seen(ClockMultiple(c, n + 1)) = Seen(ClockMultiple(Clock(c), n))
<1> DEFINE d == Clock(c)
<1>1. c \in CounterType /\ Told(c) /\ c.next \in Nat /\ c.mode \in Nat /\ c.mode \in 0..7
  BY Words DEF Right, CounterType
<1>2. d \in Right /\ Exact(d) /\ Alike(c, d)
  BY <1>1, ClockExact, ClockType
<1>3. d \in CounterType /\ d.mode = c.mode /\ d.written = c.written /\ d.gate = c.gate /\ Step(d) = Step(c)
  BY <1>2 DEF Right, Alike, Step
<1>4. n + 1 \in Nat /\ n + 1 > 0
  OBVIOUS
<1>5. CASE c.mode > 5
  <2>1. ClockMultiple(c, n + 1) = c
    BY <1>4, <1>5, MultipleCases
  <2>2. d = [[c EXCEPT !.next = 0] EXCEPT !.trigger = FALSE]
    <3>1. ByMode(c) = [c EXCEPT !.next = 0]
      <4>1. c.mode \in {6, 7}
        BY <1>1, <1>5
      <4>2. CASE c.written
        BY <4>1, <4>2, ClockByMode
      <4>3. CASE ~c.written
        BY <4>3, ClockByMode
      <4> QED
        BY <4>2, <4>3
    <3> QED
      BY <3>1, ClockByMode
  <2>3. Seen(d) = Seen(c)
    BY <1>1, <2>2 DEF Seen, CounterType
  <2> HIDE DEF d
  <2>4. ClockMultiple(d, n) = d
    <3>1. CASE n = 0
      BY <1>2, <3>1, MultipleOfNone
    <3>2. CASE n > 0
      BY <1>2, <1>3, <1>5, <3>2, MultipleCases
    <3> QED
      BY <3>1, <3>2
  <2> QED
    BY <2>1, <2>3, <2>4 DEF d
<1>6. CASE c.next = 0 /\ c.mode <= 5
  <2> DEFINE x == IF Runs(c) THEN Lower(c, Step(c)) ELSE c
  <2>1. d = [x EXCEPT !.trigger = FALSE]
    BY <1>6, ClockIdle
  <2>2. x \in CounterType /\ x.next = 0 /\ x.firstPass = c.firstPass /\ x.mode = c.mode /\ x.write = c.write
    <3>1. Step(c) \in Int
      BY DEF Step
    <3>2. Lower(c, Step(c)) \in CounterType
      BY <1>1, <3>1, LowerType
    <3> QED
      BY <1>1, <1>6, <3>2 DEF Lower, CounterType
  <2>3. Seen(d) = Seen(x) /\ d.next = 0 /\ d.firstPass = c.firstPass /\ d.write = c.write
    <3> HIDE DEF x, d
    <3> QED
      BY <2>1, <2>2 DEF Seen, CounterType
  <2>4. Runs(d) <=> Runs(c)
    <3> HIDE DEF x, d
    <3> QED
      BY <1>3, <2>3 DEF Runs, Half
  <2>5. CASE Runs(c)
    <3>1. x = Lower(c, Step(c))
      BY <2>5
    <3>2. Seen(x) = Lower(Seen(c), Step(c))
      BY <1>1, <3>1, StepsAdd, SeenLower
    <3> HIDE DEF x, d
    <3>3. Seen(ClockMultiple(c, n + 1)) = Lower(Seen(c), Step(c) * (n + 1))
      BY <1>4, <1>6, <2>5, IdleMultiple
    <3>4. Seen(ClockMultiple(d, n)) = Lower(Seen(d), Step(d) * n)
      BY <1>2, <2>3, <2>4, <2>5, IdleMultiple
    <3>5. Seen(c) \in CounterType
      BY <1>1, SeenLower
    <3>6. Step(c) \in Nat /\ Step(c) * n \in Nat /\ Step(c) + Step(c) * n = Step(c) * (n + 1)
      <4>1. 1 + n = n + 1
        OBVIOUS
      <4>2. /\ Step(c) * 1 = Step(c) /\ Step(c) * n \in Nat /\ Step(c) \in Nat
            /\ Step(c) * 1 + Step(c) * n = Step(c) * (1 + n)
        BY StepsAdd
      <4> QED
        BY <4>1, <4>2
    <3>7. Lower(Lower(Seen(c), Step(c)), Step(c) * n) = Lower(Seen(c), Step(c) + Step(c) * n)
      BY <3>5, <3>6, SeenLower
    <3>8. Seen(ClockMultiple(d, n)) = Lower(Lower(Seen(c), Step(c)), Step(c) * n)
      BY <1>3, <2>3, <3>2, <3>4, Zenon
    <3> QED
      BY <3>3, <3>6, <3>7, <3>8, Zenon DEF d
  <2>6. CASE ~Runs(c)
    <3>1. x = c
      BY <2>6
    <3> HIDE DEF x, d
    <3>2. ClockMultiple(c, n + 1) = c
      BY <1>4, <1>6, <2>6, IdleMultiple
    <3>3. ClockMultiple(d, n) = d
      BY <1>2, <2>3, <2>4, <2>6, IdleMultiple
    <3> QED
      BY <2>3, <3>1, <3>2, <3>3, Zenon DEF d
  <2> QED
    BY <2>5, <2>6
<1>7. CASE c.next = 1 /\ c.mode <= 5
  <2>1. Waits(c, 0) = c
    BY <1>1, <1>7, WaitsNone
  <2>2. ClockMultiple(c, n + 1) = ClockMultiple(Clock(Waits(c, c.next - 1)), (n + 1) - c.next)
    BY <1>4, <1>7, MultipleCases
  <2>3. c.next - 1 = 0 /\ (n + 1) - c.next = n
    BY <1>7
  <2> QED
    BY <2>1, <2>2, <2>3
<1>8. CASE c.next > 1 /\ c.mode = 0 /\ c.out
  <2>1. c.written /\ ~Half(c) /\ ~c.null /\ c.gate
    <3>1. ~Half(c) /\ c.written
      BY <1>1, <1>8 DEF Exact, Told
    <3>2. Told0(c)
      BY <1>1, <1>8 DEF Told
    <3> QED
      BY <1>1, <1>8, <3>1, <3>2 DEF Told0
  <2>2. Runs(c) /\ d = [Lower(c, 1) EXCEPT !.next = 0, !.trigger = FALSE]
    BY <1>1, <1>8, <2>1, ClockHigh0
  <2>3. Step(c) = 1
    BY <1>8 DEF Step
  <2>4. ASSUME NEW e \in Right, e.mode = 0, NEW f \in CounterType, f.mode = 0, f.written, ~Half(f), f.gate,
               e = [Lower(f, 1) EXCEPT !.next = 0, !.trigger = FALSE], NEW k \in Nat
        PROVE  Seen(ClockMultiple(e, k)) = Lower(Seen(f), 1 + k)
    <3>1. Lower(f, 1) \in CounterType
      BY <2>4, LowerType
    <3>2. e.next = 0 /\ e.written /\ ~Half(e) /\ e.gate
      BY <2>4, <3>1 DEF Lower, Half, CounterType
    <3>3. Runs(e) /\ Step(e) = 1
      BY <2>4, <3>2 DEF Runs, Step
    <3>4. Seen(e) = Seen(Lower(f, 1))
      BY <2>4, <3>1 DEF Seen, CounterType
    <3>5. Seen(ClockMultiple(e, k)) = Lower(Seen(e), k)
      <4>1. Step(e) * k = k
        BY <3>3
      <4> QED
        BY <2>4, <3>2, <3>3, <4>1, IdleMultiple, Zenon
    <3>6. Seen(Lower(f, 1)) = Lower(Seen(f), 1) /\ Seen(f) \in CounterType
      BY <2>4, SeenLower
    <3>7. Lower(Lower(Seen(f), 1), k) = Lower(Seen(f), 1 + k)
      BY <2>4, <3>6, SeenLower
    <3> QED
      BY <3>4, <3>5, <3>6, <3>7, Zenon
  <2>5. Seen(ClockMultiple(d, n)) = Lower(Seen(c), 1 + n)
    <3>1. d.mode = 0
      BY <1>3, <1>8
    <3> HIDE DEF d
    <3> QED
      BY <1>1, <1>2, <1>8, <2>1, <2>2, <2>4, <3>1
  <2>6. CASE n + 1 < c.next
    <3>1. ClockMultiple(c, n + 1) = Waits(c, n + 1)
      BY <1>1, <1>4, <1>8, <2>6, MultipleCases
    <3>2. Seen(Waits(c, n + 1)) = Lower(Seen(c), Step(c) * (n + 1))
      BY <1>1, <1>4, <2>6, SeenWaits
    <3>3. Step(c) * (n + 1) = 1 + n
      BY <2>3
    <3> QED
      BY <2>5, <3>1, <3>2, <3>3
  <2>7. CASE ~(n + 1 < c.next)
    <3> DEFINE w == Waits(c, c.next - 1)
               e == Clock(w)
               k == (n + 1) - c.next
    <3>1. e \in Right /\ k \in Nat /\ ClockMultiple(c, n + 1) = ClockMultiple(e, k)
      BY <1>1, <1>4, <1>8, <2>7, MultipleCases
    <3>2. c.next - 1 \in Nat /\ c.next - 1 < c.next
      BY <1>1, <1>8
    <3>3. /\ w = [c EXCEPT !.count = Minus(c.count, Step(c) * (c.next - 1)), !.next = c.next - (c.next - 1)]
          /\ w \in CounterType
      BY <1>1, <3>2, WaitsType
    <3>4. w.mode = 0 /\ w.out /\ w.written /\ ~Half(w) /\ ~w.null /\ w.gate
      BY <1>1, <1>8, <2>1, <3>3 DEF CounterType, Half
    <3>5. e = [Lower(w, 1) EXCEPT !.next = 0, !.trigger = FALSE]
      BY <3>3, <3>4, ClockHigh0
    <3>6. e.mode = 0
      BY <3>3, <3>4, ClockType DEF Alike
    <3>7. Seen(w) = Lower(Seen(c), c.next - 1)
      <4>1. Seen(w) = Lower(Seen(c), Step(c) * (c.next - 1))
        BY <1>1, <3>2, SeenWaits
      <4>2. Step(c) * (c.next - 1) = c.next - 1
        BY <2>3, <3>2
      <4> QED
        BY <4>1, <4>2
    <3> HIDE DEF w, e
    <3>8. Seen(ClockMultiple(e, k)) = Lower(Seen(w), 1 + k)
      <4> HIDE DEF k
      <4> QED
        BY <2>4, <3>1, <3>3, <3>4, <3>5, <3>6
    <3>9. Lower(Lower(Seen(c), c.next - 1), 1 + k) = Lower(Seen(c), (c.next - 1) + (1 + k))
      <4>1. Seen(c) \in CounterType /\ 1 + k \in Nat
        BY <1>1, <3>1, SeenLower
      <4> HIDE DEF k
      <4> QED
        BY <3>2, <4>1, SeenLower
    <3>10. (c.next - 1) + (1 + k) = 1 + n
      BY <1>1
    <3> HIDE DEF k
    <3> QED
      BY <2>5, <3>1, <3>7, <3>8, <3>9, <3>10
  <2> QED
    BY <2>6, <2>7
<1>9. CASE c.next > 1 /\ c.mode <= 5 /\ ~(c.mode = 0 /\ c.out)
  <2>1. d = [Waits(c, 1) EXCEPT !.trigger = FALSE] /\ (c.mode \notin {0, 4} => ~c.trigger)
    BY <1>9, ClockWaits
  <2>2. /\ Waits(c, 1) = [c EXCEPT !.count = Minus(c.count, Step(c) * 1), !.next = c.next - 1]
        /\ Waits(c, 1) \in CounterType /\ Minus(c.count, Step(c) * 1) \in Word /\ c.next - 1 \in Word
    BY <1>1, <1>9, WaitsType
  <2>3. d = [c EXCEPT !.count = Minus(c.count, Step(c) * 1), !.next = c.next - 1, !.trigger = FALSE]
    BY <2>1, <2>2
  <2>4. d.count = Minus(c.count, Step(c) * 1) /\ d.next = c.next - 1 /\ d.next \in Nat /\ d.next > 0
    BY <1>1, <1>9, <2>2, <2>3 DEF CounterType
  <2>5. Seen(d) = Lower(Seen(c), Step(c) * 1)
    <3>1. Seen(Waits(c, 1)) = Lower(Seen(c), Step(c) * 1)
      BY <1>1, <1>9, SeenWaits
    <3>2. Seen(d) = Seen(Waits(c, 1))
      BY <2>1, <2>2 DEF Seen, CounterType
    <3> QED
      BY <3>1, <3>2
  (* k clocks after the first one. *)
  <2>6. ASSUME NEW k \in Nat, k < d.next
        PROVE  /\ Waits(d, k) = [Waits(c, k + 1) EXCEPT !.trigger = FALSE]
               /\ Seen(Waits(d, k)) = Seen(Waits(c, k + 1))
               /\ Waits(c, k + 1) \in CounterType
    <3>1. k + 1 \in Nat /\ k + 1 < c.next
      BY <1>1, <2>4, <2>6
    <3>2. /\ Waits(c, k + 1) = [c EXCEPT !.count = Minus(c.count, Step(c) * (k + 1)), !.next = c.next - (k + 1)]
          /\ Waits(c, k + 1) \in CounterType /\ Minus(c.count, Step(c) * (k + 1)) \in Word /\ c.next - (k + 1) \in Word
      BY <1>1, <3>1, WaitsType
    <3>3. Waits(d, k) = [d EXCEPT !.count = Minus(d.count, Step(d) * k), !.next = d.next - k]
      BY <1>3, <2>6, WaitsType
    <3>4. Minus(d.count, Step(d) * k) = Minus(c.count, Step(c) * (k + 1))
      <4>1. c.count \in Word /\ Step(c) * 1 \in Nat /\ Step(c) * k \in Nat
        BY <1>1, StepsAdd DEF CounterType
      <4>2. Minus(Minus(c.count, Step(c) * 1), Step(c) * k) = Minus(c.count, Step(c) * 1 + Step(c) * k)
        BY <4>1, MinusMinus
      <4>3. Step(c) * 1 + Step(c) * k = Step(c) * (k + 1)
        <5>1. 1 + k = k + 1
          OBVIOUS
        <5>2. Step(c) * 1 + Step(c) * k = Step(c) * (1 + k)
          BY StepsAdd
        <5> QED
          BY <5>1, <5>2
      <4> HIDE DEF d
      <4> QED
        BY <1>3, <2>4, <4>2, <4>3
    <3>5. d.next - k = c.next - (k + 1)
      BY <1>1, <2>4
    <3> DEFINE m == Minus(c.count, Step(c) * (k + 1))
               y == c.next - (k + 1)
    <3>6. Waits(d, k) = [d EXCEPT !.count = m, !.next = y]
      BY <3>3, <3>4, <3>5
    <3>7. Waits(c, k + 1) = [c EXCEPT !.count = m, !.next = y] /\ m \in Word /\ y \in Word
      BY <3>2
    <3> HIDE DEF m, y, d
    <3>8. [d EXCEPT !.count = m, !.next = y] = [[c EXCEPT !.count = m, !.next = y] EXCEPT !.trigger = FALSE]
      BY <1>1, <2>3, <3>7 DEF CounterType
    <3>9. Waits(d, k) = [Waits(c, k + 1) EXCEPT !.trigger = FALSE]
      BY <3>6, <3>7, <3>8
    <3>10. Seen(Waits(d, k)) = Seen(Waits(c, k + 1))
      BY <3>2, <3>9 DEF Seen, CounterType
    <3> QED
      BY <3>2, <3>9, <3>10
  <2>7. CASE n + 1 < c.next
    <3>1. ClockMultiple(c, n + 1) = Waits(c, n + 1)
      BY <1>1, <1>4, <1>9, <2>7, MultipleCases
    <3>2. n < d.next
      BY <1>1, <2>4, <2>7
    <3>3. ClockMultiple(d, n) = Waits(d, n)
      <4>1. CASE n = 0
        BY <1>2, <1>3, <2>4, <4>1, MultipleOfNone, WaitsNone
      <4>2. CASE n > 0
        BY <1>2, <1>3, <1>9, <3>2, <4>2, MultipleCases
      <4> QED
        BY <4>1, <4>2
    <3> QED
      BY <2>6, <3>1, <3>2, <3>3
  <2>8. CASE ~(n + 1 < c.next)
    <3>1. ClockMultiple(c, n + 1) = ClockMultiple(Clock(Waits(c, c.next - 1)), (n + 1) - c.next)
      BY <1>1, <1>4, <1>9, <2>8, MultipleCases
    <3>2. n > 0 /\ d.next <= n
      BY <1>1, <1>9, <2>4, <2>8
    <3>3. ClockMultiple(d, n) = ClockMultiple(Clock(Waits(d, d.next - 1)), n - d.next)
      BY <1>2, <1>3, <1>9, <2>4, <3>2, MultipleCases
    <3>4. (n + 1) - c.next = n - d.next /\ d.next - 1 \in Nat /\ d.next - 1 < d.next /\ (d.next - 1) + 1 = c.next - 1
      BY <1>1, <2>4
    <3>5. /\ Waits(d, d.next - 1) = [Waits(c, c.next - 1) EXCEPT !.trigger = FALSE]
          /\ Waits(c, c.next - 1) \in CounterType
      BY <2>6, <3>4
    <3>6. Clock(Waits(d, d.next - 1)) = Clock(Waits(c, c.next - 1))
      <4> DEFINE w == Waits(c, c.next - 1)
      <4>1. w.mode = c.mode /\ w.trigger = c.trigger
        BY <1>1 DEF Waits, Lower, CounterType
      <4>2. w \in CounterType
        BY <3>5
      <4> HIDE DEF w
      <4>3. CASE c.mode \in {0, 4}
        BY <3>5, <4>1, <4>2, <4>3, ClockUntriggered DEF w
      <4>4. CASE c.mode \notin {0, 4}
        <5>1. [w EXCEPT !.trigger = FALSE] = w
          BY <2>1, <4>1, <4>2, <4>4 DEF CounterType
        <5> QED
          BY <3>5, <5>1 DEF w
      <4> QED
        BY <4>3, <4>4
    <3> QED
      BY <3>1, <3>3, <3>4, <3>6
  <2> QED
    BY <2>7, <2>8
<1> QED
  BY <1>1, <1>5, <1>6, <1>7, <1>8, <1>9
(* What is skipped is what would have come, for any number of clocks.       *)
LEMMA SkippedIsClocked ==
  \A n \in Nat : \A c \in Right : Exact(c) => Seen(ClockMultiple(c, n)) = Seen(Clocked(c, n))
<1> DEFINE T == {n \in Nat : \A c \in Right : Exact(c) => Seen(ClockMultiple(c, n)) = Seen(Clocked(c, n))}
<1>1. 0 \in T
  <2> SUFFICES ASSUME NEW c \in Right PROVE ClockMultiple(c, 0) = c /\ Clocked(c, 0) = c
    OBVIOUS
  <2>1. c \in CounterType
    BY DEF Right
  <2> QED
    BY <2>1, MultipleOfNone, ClockedUnfolds
<1>2. ASSUME NEW n \in Nat, n \in T PROVE n + 1 \in T
  <2> SUFFICES ASSUME NEW c \in Right, Exact(c)
               PROVE  Seen(ClockMultiple(c, n + 1)) = Seen(Clocked(c, n + 1))
    OBVIOUS
  <2>1. Seen(ClockMultiple(c, n + 1)) = Seen(ClockMultiple(Clock(c), n))
    BY OneMore
  <2>2. Clock(c) \in Right /\ Exact(Clock(c))
    BY ClockExact
  <2>3. Seen(ClockMultiple(Clock(c), n)) = Seen(Clocked(Clock(c), n))
    BY <1>2, <2>2
  <2>4. Clocked(c, n + 1) = Clocked(Clock(c), n)
    BY ClockedUnfolds DEF Right
  <2> QED
    BY <2>1, <2>3, <2>4
<1>3. \A n \in Nat : n \in T
  <2> HIDE DEF T
  <2> QED
    BY <1>1, <1>2, Induction
<1> QED
  BY <1>3

(* Making up for clocks at once leaves what clock by clock would have left, *)
(* for every number of clocks (SkippedIsClocked) of a counter whose skipping*)
(* is exact, and the timer is not set past an event (clock_multiple,        *)
(* get_next_event_time).                                                    *)
THEOREM SkippedClocksAreClocked == Spec => []SkippingIsClocking
<1>1. Kept => SkippingIsClocking
  <2> SUFFICES ASSUME Kept PROVE SkippingIsClocking
    OBVIOUS
  <2>1. counter \in [Counters -> Right] /\ counter \in [Counters -> CounterType]
    BY DEF Kept, Right
  <2>2. ASSUME NEW i \in Counters
        PROVE  /\ Exact(counter[i]) =>
                    \A n \in 1 .. (IF counter[i].next = 0 THEN Top ELSE counter[i].next + 2) :
                      Seen(ClockMultiple(counter[i], n)) = Seen(Clocked(counter[i], n))
               /\ NextEvent(counter) # 0 /\ counter[i].next # 0 => NextEvent(counter) <= counter[i].next
    <3>1. counter[i] \in Right
      BY <2>1
    <3>2. \A n \in 1 .. (IF counter[i].next = 0 THEN Top ELSE counter[i].next + 2) : n \in Nat
      OBVIOUS
    <3>3. NextEvent(counter) # 0 /\ counter[i].next # 0 => NextEvent(counter) <= counter[i].next
      BY <2>1, NextEventNat
    <3> QED
      BY <3>1, <3>2, <3>3, SkippedIsClocked
  <2> QED
    BY <2>2 DEF SkippingIsClocking
<1> QED
  BY <1>1, KeptIsIInv, CountersRight, PTL
-----------------------------------------------------------------------------
(* Something that counts down from its period, over and over, passes its    *)
(* end once in any period.                                                  *)
LEMMA OncePerPeriod ==
  ASSUME NEW P \in Nat, NEW L \in 1 .. P - 1, NEW pos \in [Nat -> 1..P],
         \A k \in Nat : pos[k + 1] = IF pos[k] = 1 THEN P ELSE pos[k] - 1
  PROVE  {n \in 1..P : ~(pos[n - 1] > L) /\ pos[n] > L} = {pos[0]}
<1> DEFINE p == pos[0]
           T == {k \in Nat : k < p => pos[k] = p - k}
           U == {k \in Nat : k < P => pos[p + k] = P - k}
<1>1. p \in 1..P /\ p \in Nat
  OBVIOUS
<1> HIDE DEF p
<1>2. 0 \in T
  BY <1>1 DEF p
<1>3. ASSUME NEW k \in Nat, k \in T PROVE k + 1 \in T
  <2> SUFFICES ASSUME k + 1 < p PROVE pos[k + 1] = p - (k + 1)
    OBVIOUS
  <2>1. pos[k] = p - k /\ pos[k] # 1
    BY <1>1, <1>3
  <2> QED
    BY <1>1, <2>1
<1>4. \A k \in Nat : k \in T
  <2> HIDE DEF T
  <2> QED
    BY <1>2, <1>3, Induction
<1>5. pos[p] = P
  <2>1. p - 1 \in Nat /\ (p - 1) + 1 = p /\ p - 1 < p
    BY <1>1
  <2>2. pos[p - 1] = p - (p - 1)
    BY <1>4, <2>1
  <2>3. pos[p - 1] = 1
    BY <1>1, <2>2
  <2> QED
    BY <2>1, <2>3
<1>6. 0 \in U
  BY <1>1, <1>5
<1>7. ASSUME NEW k \in Nat, k \in U PROVE k + 1 \in U
  <2> SUFFICES ASSUME k + 1 < P PROVE pos[p + (k + 1)] = P - (k + 1)
    OBVIOUS
  <2>1. pos[p + k] = P - k /\ pos[p + k] # 1
    BY <1>7
  <2>2. p + k \in Nat /\ (p + k) + 1 = p + (k + 1)
    BY <1>1
  <2> QED
    BY <2>1, <2>2
<1>8. \A k \in Nat : k \in U
  <2> HIDE DEF U
  <2> QED
    BY <1>6, <1>7, Induction
<1>9. ASSUME NEW n \in 1..P PROVE ~(pos[n - 1] > L) /\ pos[n] > L <=> n = p
  <2>1. n - 1 \in Nat /\ (n - 1) + 1 = n
    OBVIOUS
  <2>2. pos[n - 1] \in 1..P /\ pos[n] = IF pos[n - 1] = 1 THEN P ELSE pos[n - 1] - 1
    BY <2>1
  <2>3. ~(pos[n - 1] > L) /\ pos[n] > L <=> pos[n - 1] = 1
    BY <2>2
  <2>4. CASE n - 1 < p
    <3>1. pos[n - 1] = p - (n - 1)
      BY <1>4, <2>1, <2>4
    <3> QED
      BY <1>1, <2>3, <3>1
  <2>5. CASE ~(n - 1 < p)
    <3> DEFINE k == (n - 1) - p
    <3>1. k \in Nat /\ k < P /\ p + k = n - 1 /\ P - k > 1 /\ n # p
      BY <1>1, <2>5
    <3> HIDE DEF k
    <3>2. pos[p + k] = P - k
      BY <1>8, <3>1
    <3> QED
      BY <2>3, <3>1, <3>2
  <2> QED
    BY <2>4, <2>5
<1> QED
  BY <1>1, <1>9 DEF p

(* Where in its period a running counter is, and from where on OUT is high. *)
Position(c) ==
  IF c.mode = 2 THEN IF c.count = 0 THEN Top ELSE c.count
  ELSE IF c.out THEN (c.inlatch \div 2) + (c.count \div 2) ELSE c.count \div 2

Level(c) == IF c.mode = 2 THEN 1 ELSE c.inlatch \div 2

Running == {c \in Right : Oscillates(c)}

LEMMA RunningStays ==
  ASSUME NEW c \in Running
  PROVE  /\ Clock(c) \in Running
         /\ Period(Clock(c)) = Period(c) /\ Level(Clock(c)) = Level(c)
         /\ Exact(c)
<1>1. c \in Right /\ c \in CounterType /\ Oscillates(c) /\ Told(c) /\ Paced(c)
  BY DEF Running, Right
<1>2. Exact(c)
  <2>1. c.inlatch \in Nat
    BY <1>1, Words DEF CounterType
  <2> QED
    BY <1>1, <2>1 DEF Oscillates, Exact
<1>3. Clock(c) \in Right /\ Clock(c) \in CounterType
  BY <1>1, <1>2, ClockExact DEF Right
<1>4. /\ Clock(c).gate = c.gate /\ Clock(c).mode = c.mode /\ Clock(c).inlatch = c.inlatch
      /\ Clock(c).write = c.write /\ Clock(c).written = c.written /\ ~Clock(c).trigger
  BY <1>1, ClockType DEF Alike
<1>5. ~Clock(c).null
  <2>1. c.written /\ ~c.null /\ c.mode \in {2, 3}
    BY <1>1 DEF Oscillates
  <2>2. CASE c.mode = 2
    <3>1. Clock(c) = [Clock2(c) EXCEPT !.trigger = FALSE] /\ Clock2(c) \in CounterType
      BY <1>1, <2>1, <2>2, ClockByMode, Clock2Type
    <3>2. ~Clock2(c).null
      BY <1>1, <2>1 DEF Clock2, CounterType
    <3> QED
      BY <3>1, <3>2 DEF CounterType
  <2>3. CASE c.mode = 3
    <3>1. Clock(c) = [Clock3(c) EXCEPT !.trigger = FALSE] /\ Clock3(c) \in CounterType
      BY <1>1, <2>1, <2>3, ClockByMode, Clock3Type
    <3>2. ~Load3(c).null
      BY <1>1 DEF Load3, CounterType
    <3>3. ~Count3(c).null
      BY <1>1, <2>1 DEF Count3, CounterType
    <3>4. ~Clock3(c).null
      BY <1>1, <2>1, <3>2, <3>3 DEF Clock3, CounterType
    <3> QED
      BY <3>1, <3>4 DEF CounterType
  <2> QED
    BY <2>1, <2>2, <2>3
<1>6. Oscillates(Clock(c))
  BY <1>1, <1>4, <1>5 DEF Oscillates, Half
<1> QED
  BY <1>2, <1>3, <1>4, <1>6 DEF Running, Period, Level

LEMMA RunningFacts ==
  ASSUME NEW c \in Running
  PROVE  /\ Period(c) \in Nat /\ Position(c) \in 1 .. Period(c) /\ Level(c) \in 1 .. Period(c) - 1
         /\ c.out <=> Position(c) > Level(c)
         /\ Position(Clock(c)) = IF Position(c) = 1 THEN Period(c) ELSE Position(c) - 1
<1>1. c \in Right /\ c \in CounterType /\ Oscillates(c) /\ Told(c) /\ Paced(c)
  BY DEF Running, Right
<1>2. c.written /\ c.gate /\ ~c.null /\ ~c.trigger /\ ~Half(c) /\ c.mode \in {2, 3}
  BY <1>1 DEF Oscillates
<1>3. /\ c.count \in Word /\ c.count \in Nat /\ c.count < Top
      /\ c.inlatch \in Word /\ c.inlatch \in Nat /\ c.inlatch < Top
  BY <1>1, TopFacts DEF CounterType, Word
<1> DEFINE d == Clock(c)
<1>4. d \in Running /\ d \in CounterType /\ d.mode = c.mode /\ d.inlatch = c.inlatch
  BY <1>1, RunningStays, ClockType DEF Alike
<1>5. CASE c.mode = 2
  <2>1. d = [Clock2(c) EXCEPT !.trigger = FALSE] /\ Clock2(c) \in CounterType
    BY <1>1, <1>2, <1>5, ClockByMode, Clock2Type
  <2>2. c.inlatch # 1
    BY <1>1, <1>5, PeriodFacts
  <2>3. /\ c.firstPass => c.count = 1 /\ ~c.out
        /\ ~c.firstPass => c.out /\ c.count # 1 /\ (c.inlatch # 0 => c.count \in 2 .. c.inlatch)
    BY <1>1, <1>5 DEF Paced, Paced2
  <2>4. Position(c) = (IF c.count = 0 THEN Top ELSE c.count) /\ Level(c) = 1
        /\ Period(c) = (IF c.inlatch = 0 THEN Top ELSE c.inlatch)
    BY <1>5 DEF Position, Level, Period
  <2>5. /\ Period(c) \in Nat /\ Position(c) \in 1 .. Period(c) /\ Level(c) \in 1 .. Period(c) - 1
        /\ c.out <=> Position(c) > Level(c)
    BY <1>1, <1>3, <2>2, <2>3, <2>4, TopFacts DEF CounterType
  <2>6. Position(d) = IF d.count = 0 THEN Top ELSE d.count
    BY <1>4, <1>5 DEF Position
  <2>7. d.count = Clock2(c).count
    BY <2>1 DEF CounterType
  <2> HIDE DEF d
  <2>8. CASE c.firstPass
    <3>1. Clock2(c).count = c.inlatch
      BY <1>1, <2>8 DEF Clock2, CounterType
    <3> QED
      BY <2>3, <2>4, <2>5, <2>6, <2>7, <2>8, <3>1 DEF d
  <2>9. CASE ~c.firstPass
    <3> DEFINE n == Minus(c.count, 1)
    <3>1. n = IF c.count = 0 THEN Top - 1 ELSE c.count - 1
      BY <1>3, MinusOne
    <3>2. Clock2(c).count = n
      BY <1>1, <1>2, <2>9 DEF Clock2, CounterType
    <3> HIDE DEF n
    <3> QED
      BY <1>3, <2>3, <2>4, <2>5, <2>6, <2>7, <2>9, <3>1, <3>2, TopFacts DEF d
  <2> QED
    BY <2>5, <2>8, <2>9
<1>6. CASE c.mode = 3
  <2>1. d = [Clock3(c) EXCEPT !.trigger = FALSE] /\ Clock3(c) \in CounterType
    BY <1>1, <1>2, <1>6, ClockByMode, Clock3Type
  <2>2. c.inlatch > 2 /\ Even(c.inlatch)
    BY <1>1, <1>6, PeriodFacts
  <2>3. ~c.firstPass /\ ~c.odd /\ c.count \in 2 .. c.inlatch /\ (c.reload <=> c.count = 2)
    BY <1>1, <1>6 DEF Paced, Paced3
  <2>4. Even(c.count)
    BY <1>1, <1>2, <1>6, <2>2 DEF Told, Told3
  <2> DEFINE H == c.inlatch \div 2
             h == c.count \div 2
  <2>5. H \in Nat /\ c.inlatch = 2 * H /\ h \in Nat /\ c.count = 2 * h
    BY <1>3, <2>2, <2>4 DEF Even
  <2>6. Position(c) = (IF c.out THEN H + h ELSE h) /\ Level(c) = H /\ Period(c) = c.inlatch
    BY <1>6, <2>2 DEF Position, Level, Period
  <2> HIDE DEF H, h
  <2>7. H >= 2 /\ h \in 1..H
    BY <2>2, <2>3, <2>5
  <2>8. /\ Period(c) \in Nat /\ Position(c) \in 1 .. Period(c) /\ Level(c) \in 1 .. Period(c) - 1
        /\ c.out <=> Position(c) > Level(c)
    BY <1>1, <2>5, <2>6, <2>7 DEF CounterType
  <2>9. Position(d) = IF d.out THEN H + (d.count \div 2) ELSE d.count \div 2
    BY <1>4, <1>6 DEF Position, H
  <2>10. d.count = Clock3(c).count /\ d.out = Clock3(c).out
    BY <2>1 DEF CounterType
  <2> HIDE DEF d
  <2>11. CASE c.reload
    <3>1. Clock3(c) = Load3(c)
      BY <1>2, <2>11 DEF Clock3
    <3>2. Load3(c).out = ~c.out
      BY <1>1, <2>3 DEF Load3, CounterType
    <3>3. Load3(c).count = c.inlatch
      BY <1>1, <1>3, <2>2 DEF Load3, CounterType, Even
    <3>4. h = 1
      BY <2>3, <2>5, <2>11
    <3>5. c.inlatch \div 2 = H
      BY DEF H
    <3>6. Position(d) = IF c.out THEN H ELSE H + H
      BY <2>9, <2>10, <3>1, <3>2, <3>3, <3>5
    <3> QED
      BY <2>5, <2>6, <2>7, <2>8, <3>4, <3>6 DEF d
  <2>12. CASE ~c.reload
    <3>1. Clock3(c) = Count3(c)
      BY <1>2, <2>3, <2>12 DEF Clock3
    <3>2. PICK n \in Word, next \in Word, last \in BOOLEAN :
             /\ n = Minus(c.count, 2) /\ Even(n)
             /\ last <=> n = 0 \/ (n = 2 /\ ~Longer(c))
             /\ ~last => n = IF Longer(c) THEN 2 * next ELSE 2 * next + 2
             /\ last => next = 1
             /\ next # 0
             /\ Count3(c) = [c EXCEPT !.count = n, !.next = next, !.reload = c.reload \/ last]
      BY <1>1, <2>4, Count3Even
    <3>3. h >= 2
      BY <2>3, <2>5, <2>7, <2>12
    <3>4. n = c.count - 2
      BY <1>3, <2>5, <3>2, <3>3, MinusTwo
    <3>5. n = 2 * (h - 1) /\ n \div 2 = h - 1
      BY <2>5, <3>3, <3>4
    <3>6. Count3(c).count = n /\ Count3(c).out = c.out
      BY <1>1, <3>2 DEF CounterType
    <3>7. Position(d) = IF c.out THEN H + (h - 1) ELSE h - 1
      BY <2>9, <2>10, <3>1, <3>5, <3>6
    <3> QED
      BY <2>5, <2>6, <2>7, <2>8, <3>3, <3>7 DEF d
  <2> QED
    BY <2>8, <2>11, <2>12
<1> QED
  BY <1>2, <1>5, <1>6
LEMMA RisesOnce ==
  ASSUME NEW c \in Running
  PROVE  Cardinality(Rises(c)) = 1
<1> DEFINE o == Orbit(CounterType, ClockFunction, c)
           P == Period(c)
           L == Level(c)
           pos == [k \in Nat |-> Position(o[k])]
<1>1. c \in Right /\ c \in CounterType
  BY DEF Running, Right
<1>2. \A d \in CounterType : Clock(d) \in CounterType
  BY ClockType
<1>3. IsOrbit(o, CounterType, ClockFunction, c) /\ \A n \in Nat : Clocked(c, n) = o[n]
  <2>1. ClockFunction \in [CounterType -> CounterType]
    BY <1>2 DEF ClockFunction
  <2> QED
    BY <1>1, <1>2, <2>1, OrbitLaws, ClockedIsOrbit
<1> HIDE DEF o
<1>4. o \in [Nat -> CounterType] /\ o[0] = c /\ \A k \in Nat : o[k + 1] = Clock(o[k])
  BY <1>3 DEF IsOrbit, ClockFunction
<1> DEFINE T == {k \in Nat : o[k] \in Running /\ Period(o[k]) = P /\ Level(o[k]) = L}
<1>5. \A k \in Nat : k \in T
  <2>1. 0 \in T
    BY <1>4
  <2>2. ASSUME NEW k \in Nat, k \in T PROVE k + 1 \in T
    <3> HIDE DEF P, L
    <3> QED
      BY <1>4, <2>2, RunningStays
  <2> HIDE DEF T
  <2> QED
    BY <2>1, <2>2, Induction
<1>6. P \in Nat /\ L \in 1 .. P - 1
  BY RunningFacts
<1> HIDE DEF P, L
<1>7. pos \in [Nat -> 1..P] /\ \A k \in Nat : pos[k + 1] = IF pos[k] = 1 THEN P ELSE pos[k] - 1
  <2>1. ASSUME NEW k \in Nat
        PROVE  Position(o[k]) \in 1..P /\ Position(o[k + 1]) = IF Position(o[k]) = 1 THEN P ELSE Position(o[k]) - 1
    BY <1>4, <1>5, RunningFacts
  <2>2. \A k \in Nat : pos[k] = Position(o[k]) /\ pos[k + 1] = Position(o[k + 1])
    OBVIOUS
  <2> QED
    BY <2>1, <2>2
<1>8. ASSUME NEW k \in Nat PROVE ClockMultiple(c, k).out <=> pos[k] > L
  <2>1. Exact(c)
    BY RunningStays
  <2>2. Seen(ClockMultiple(c, k)) = Seen(o[k])
    BY <1>1, <1>3, <2>1, SkippedIsClocked
  <2>3. ClockMultiple(c, k) \in CounterType /\ o[k] \in CounterType
    BY <1>1, <1>4, MultipleRight DEF Right
  <2>4. ClockMultiple(c, k).out = o[k].out
    <3> DEFINE a == ClockMultiple(c, k)
               b == o[k]
    <3>1. Seen(a).out = a.out /\ Seen(b).out = b.out
      BY <2>3 DEF Seen, CounterType
    <3> HIDE DEF a, b
    <3>2. Seen(a) = Seen(b)
      BY <2>2 DEF a, b
    <3> QED
      BY <3>1, <3>2 DEF a, b
  <2>5. o[k] \in Running /\ Level(o[k]) = L /\ pos[k] = Position(o[k])
    BY <1>5
  <2> QED
    BY <2>4, <2>5, RunningFacts
<1> HIDE DEF pos, T
<1>9. Rises(c) = {n \in 1..P : ~(pos[n - 1] > L) /\ pos[n] > L}
  <2>1. Rises(c) = {n \in 1..P : ~ClockMultiple(c, n - 1).out /\ ClockMultiple(c, n).out}
    BY DEF Rises, P
  <2>2. \A n \in 1..P : n \in Nat /\ n - 1 \in Nat
    OBVIOUS
  <2>3. ASSUME NEW n \in 1..P
        PROVE  ~ClockMultiple(c, n - 1).out /\ ClockMultiple(c, n).out <=> ~(pos[n - 1] > L) /\ pos[n] > L
    BY <1>8, <2>2
  <2> QED
    BY <2>1, <2>3
<1>10. Rises(c) = {pos[0]}
  BY <1>6, <1>7, <1>9, OncePerPeriod, Zenon
<1> QED
  BY <1>10, FS_Singleton

(* A running rate generator or square wave raises OUT, which is the         *)
(* interrupt of the tick, exactly once in every period of its count.        *)
THEOREM RunningTicks == Spec => []PeriodsTick
<1>1. Kept => PeriodsTick
  BY RisesOnce DEF Kept, PeriodsTick, Running
<1> QED
  BY <1>1, KeptIsIInv, CountersRight, PTL
=============================================================================
