--------------------------- MODULE Pic8259_proofs ---------------------------
(***************************************************************************)
(* The interrupt controllers with any number of lines, the slave on any of *)
(* them, and any of the optional commands.                                 *)
(***************************************************************************)
EXTENDS Pic8259, WellFoundedInduction, TLAPS

LEMMA Least ==
  ASSUME NEW S, S \subseteq Nat, S # {}
  PROVE  \E x \in S : \A y \in S : x <= y
<1> DEFINE R == OpToRel(<, Nat)
<1>1. IsWellFoundedOn(R, Nat)
  BY NatLessThanWellFounded
<1> HIDE DEF R
<1>2. PICK x \in S : \A y \in S : ~(<<y, x>> \in R)
  BY <1>1, WFMin, Zenon
<1>3. ASSUME NEW y \in S PROVE x <= y
  <2>1. <<y, x>> \notin R
    BY <1>2
  <2>2. ~(y < x)
    BY <2>1 DEF R, OpToRel
  <2> QED
    BY <2>2
<1> QED
  BY <1>3

(* The search of pic_service finds one of the lines it is given.            *)
LEMMA RankIsNat ==
  ASSUME NEW chip \in Chip, NEW line \in Lines
  PROVE  Rank(chip, line) \in Nat
<1>1. N \in Nat \ {0} /\ line - chip.lowest - 1 \in Int
  BY PicAssumption DEF Lines, Chip
<1>2. \A a \in Int : (a % N) \in Nat
  BY <1>1, SMT
<1> QED
  BY <1>1, <1>2 DEF Rank

LEMMA BestIsOne ==
  ASSUME NEW chip \in Chip, NEW lines \in SUBSET Lines, lines # {}
  PROVE  Best(chip, lines) \in lines
<1> DEFINE S == {Rank(chip, i) : i \in lines}
<1>1. S \subseteq Nat /\ S # {}
  BY RankIsNat
<1>2. PICK x \in S : \A y \in S : x <= y
  BY <1>1, Least, Zenon
<1>3. PICK i \in lines : x = Rank(chip, i)
  OBVIOUS
<1>4. \A j \in lines : Rank(chip, i) <= Rank(chip, j)
  BY <1>2, <1>3
<1> QED
  BY <1>4 DEF Best

-----------------------------------------------------------------------------
Pairs == [master : Chip, slave : Chip, intr : BOOLEAN]

(* What a chip must not change when it is served.                           *)
SameRequests(old, new) ==
  /\ new.irr = old.irr /\ new.imr = old.imr /\ new.isr = old.isr
  /\ new.irqIn = old.irqIn /\ new.autoEoi = old.autoEoi /\ new.expected = old.expected

Attended(chip) == Eligible(chip) # {} => chip.INT \/ chip.isr # {}

LEMMA LatchEffect ==
  ASSUME NEW chip \in Chip, Signals(chip)
  PROVE  /\ Latch(chip) \in Chip /\ Latch(chip).INT = TRUE
         /\ SameRequests(chip, Latch(chip))
<1>1. Eligible(chip) # {} /\ Eligible(chip) \in SUBSET Lines
  BY DEF Signals, Eligible, Unmasked, Chip
<1>2. Best(chip, Eligible(chip)) \in Lines
  BY <1>1, BestIsOne
<1> QED
  BY <1>2 DEF Latch, Chip, SameRequests

LEMMA ServiceMasterEffect ==
  ASSUME NEW p \in Pairs, p.intr = p.master.INT
  PROVE  /\ ServiceMaster(p) \in Pairs
         /\ ServiceMaster(p).slave = p.slave
         /\ SameRequests(p.master, ServiceMaster(p).master)
         /\ ServiceMaster(p).intr = ServiceMaster(p).master.INT
         /\ Attended(ServiceMaster(p).master)
<1> DEFINE q == ServiceMaster(p)
<1>0. p.master \in Chip
  BY DEF Pairs
<1>1. CASE Signals(p.master)
  <2>1. q = [p EXCEPT !.master = Latch(@), !.intr = TRUE]
    BY <1>1 DEF ServiceMaster, Signals, Deasserts
  <2>2. Latch(p.master) \in Chip /\ Latch(p.master).INT = TRUE
        /\ SameRequests(p.master, Latch(p.master))
    BY <1>0, <1>1, LatchEffect
  <2>3. q.master = Latch(p.master) /\ q.intr = TRUE /\ q.slave = p.slave /\ q \in Pairs
    BY <2>1, <2>2 DEF Pairs
  <2> QED
    BY <2>2, <2>3 DEF Attended
<1>2. CASE ~Signals(p.master) /\ Deasserts(p.master)
  <2>1. q = [p EXCEPT !.master.INT = FALSE, !.intr = FALSE]
    BY <1>2 DEF ServiceMaster
  <2>2. q.master = [p.master EXCEPT !.INT = FALSE] /\ q.intr = FALSE /\ q.slave = p.slave
    BY <2>1 DEF Pairs
  <2>3. q.master \in Chip /\ q.master.INT = FALSE /\ SameRequests(p.master, q.master)
    BY <2>2, <1>0 DEF Chip, SameRequests
  <2>4. Eligible(q.master) = {}
    BY <2>3, <1>2 DEF SameRequests, Deasserts, Eligible, Unmasked
  <2>5. q \in Pairs
    BY <2>1, <2>2, <2>3 DEF Pairs
  <2> QED
    BY <2>2, <2>3, <2>4, <2>5 DEF Attended
<1>3. CASE ~Signals(p.master) /\ ~Deasserts(p.master)
  <2>1. q = p
    BY <1>3 DEF ServiceMaster
  <2>2. Attended(p.master)
    BY <1>3 DEF Signals, Blocked, Attended
  <2> QED
    BY <2>1, <2>2 DEF SameRequests
<1> QED
  BY <1>1, <1>2, <1>3

(* The cascade: raise_irq and lower_irq of the master, called by the slave. *)
LEMMA RaiseMasterEffect ==
  ASSUME NEW p \in Pairs, NEW line \in Lines, p.intr = p.master.INT,
         line \notin p.master.irqIn
  PROVE  /\ RaiseMaster(p, line) \in Pairs
         /\ RaiseMaster(p, line).slave = p.slave
         /\ RaiseMaster(p, line).master.irr = p.master.irr \cup {line}
         /\ RaiseMaster(p, line).master.irqIn = p.master.irqIn \cup {line}
         /\ RaiseMaster(p, line).master.isr = p.master.isr
         /\ RaiseMaster(p, line).master.autoEoi = p.master.autoEoi
         /\ RaiseMaster(p, line).master.expected = p.master.expected
         /\ RaiseMaster(p, line).intr = RaiseMaster(p, line).master.INT
         /\ Attended(RaiseMaster(p, line).master)
<1> DEFINE r == [p EXCEPT !.master.irqIn = @ \cup {line}, !.master.irr = @ \cup {line}]
<1>1. r.master = [p.master EXCEPT !.irqIn = @ \cup {line}, !.irr = @ \cup {line}]
      /\ r.slave = p.slave /\ r.intr = p.intr
  BY DEF Pairs
<1>2. r.master \in Chip /\ r.master.INT = p.master.INT
      /\ r.master.irqIn = p.master.irqIn \cup {line} /\ r.master.irr = p.master.irr \cup {line}
      /\ r.master.isr = p.master.isr /\ r.master.autoEoi = p.master.autoEoi
      /\ r.master.expected = p.master.expected
  BY <1>1 DEF Pairs, Chip
<1>3. r \in Pairs
  BY <1>1, <1>2 DEF Pairs
<1>4. RaiseMaster(p, line) = ServiceMaster(r)
  BY DEF RaiseMaster
<1> HIDE DEF r
<1>5. r.intr = r.master.INT
  BY <1>1, <1>2
<1> QED
  BY <1>1, <1>2, <1>3, <1>4, <1>5, ServiceMasterEffect DEF SameRequests

LEMMA LowerMasterEffect ==
  ASSUME NEW p \in Pairs, NEW line \in Lines, line \in p.master.irqIn
  PROVE  LET q == LowerMaster(p, line) IN
         /\ q \in Pairs /\ q.slave = p.slave /\ q.intr = p.intr
         /\ q.master = [p.master EXCEPT !.irqIn = @ \ {line}, !.irr = @ \ {line}]
<1>1. LowerMaster(p, line) = [p EXCEPT !.master.irqIn = @ \ {line}, !.master.irr = @ \ {line}]
  BY DEF LowerMaster
<1>2. LowerMaster(p, line).master = [p.master EXCEPT !.irqIn = @ \ {line}, !.irr = @ \ {line}]
  BY <1>1 DEF Pairs
<1>3. LowerMaster(p, line).master \in Chip
  <2>1. p.master \in Chip
    BY DEF Pairs
  <2> QED
    BY <1>2, <2>1 DEF Chip
<1>4. LowerMaster(p, line) =
        [master |-> LowerMaster(p, line).master, slave |-> p.slave, intr |-> p.intr]
  BY <1>1 DEF Pairs
<1>5. LowerMaster(p, line) \in Pairs
  BY <1>3, <1>4 DEF Pairs
<1> QED
  BY <1>2, <1>4, <1>5

-----------------------------------------------------------------------------
(* The wires: INTR follows the master's latch, the cascade line the slave's, *)
(* and while the slave waits the master has its request.                     *)
Wired(p) ==
  /\ p.intr = p.master.INT
  /\ p.slave.INT <=> Cascade \in p.master.irqIn

Heard(p) == p.slave.INT => Cascade \in p.master.irr

(* What may have happened to the master while the slave was served.          *)
Related(old, new) ==
  /\ new.isr = old.isr /\ new.autoEoi = old.autoEoi /\ new.expected = old.expected
  /\ new.irqIn \ {Cascade} = old.irqIn \ {Cascade}
  /\ old.irr \ {Cascade} \subseteq new.irr
  /\ Cascade \in old.irr \ new.irr => Cascade \notin new.irqIn

MasterAttended(p) == p.master.autoEoi \/ Attended(p.master)

LEMMA ServiceSlaveEffect ==
  ASSUME NEW p \in Pairs, Wired(p)
  PROVE  /\ ServiceSlave(p) \in Pairs /\ Wired(ServiceSlave(p))
         /\ SameRequests(p.slave, ServiceSlave(p).slave)
         /\ Attended(ServiceSlave(p).slave)
         /\ Related(p.master, ServiceSlave(p).master)
         /\ MasterAttended(p) => MasterAttended(ServiceSlave(p))
         /\ Heard(p) => Heard(ServiceSlave(p))
<1> DEFINE q == ServiceSlave(p)
<1>0. p.slave \in Chip /\ p.master \in Chip /\ Cascade \in Lines
  BY PicAssumption DEF Pairs, Lines
<1>1. CASE Signals(p.slave)
  <2> DEFINE s == [p EXCEPT !.slave = Latch(@)]
  <2>1. Latch(p.slave) \in Chip /\ Latch(p.slave).INT = TRUE
        /\ SameRequests(p.slave, Latch(p.slave))
    BY <1>0, <1>1, LatchEffect
  <2>2. s \in Pairs /\ s.slave = Latch(p.slave) /\ s.master = p.master /\ s.intr = p.intr
    BY <2>1 DEF Pairs
  <2>3. q = RaiseMaster(s, Cascade)
    BY <1>1 DEF ServiceSlave, Signals, Deasserts
  <2>4. s.intr = s.master.INT /\ Cascade \notin s.master.irqIn
    BY <2>2, <1>1 DEF Wired, Signals
  <2> HIDE DEF s, q
  <2>5. /\ q \in Pairs /\ q.slave = s.slave
        /\ q.master.irr = s.master.irr \cup {Cascade}
        /\ q.master.irqIn = s.master.irqIn \cup {Cascade}
        /\ q.master.isr = s.master.isr
        /\ q.master.autoEoi = s.master.autoEoi
        /\ q.master.expected = s.master.expected
        /\ q.intr = q.master.INT
        /\ Attended(q.master)
    BY <1>0, <2>2, <2>3, <2>4, RaiseMasterEffect
  <2>6. Wired(q) /\ Heard(q)
    BY <2>1, <2>2, <2>5 DEF Wired, Heard
  <2>7. Related(p.master, q.master)
    BY <2>2, <2>5 DEF Related
  <2>8. Attended(q.slave)
    BY <2>1, <2>2, <2>5 DEF Attended
  <2> QED
    BY <2>1, <2>2, <2>5, <2>6, <2>7, <2>8 DEF q, MasterAttended
<1>2. CASE ~Signals(p.slave) /\ Deasserts(p.slave)
  <2> DEFINE l == LowerMaster(p, Cascade)
  <2>1. p.slave.INT /\ Cascade \in p.master.irqIn
    BY <1>2 DEF Deasserts, Wired
  <2>2. /\ l \in Pairs /\ l.slave = p.slave /\ l.intr = p.intr
        /\ l.master = [p.master EXCEPT !.irqIn = @ \ {Cascade}, !.irr = @ \ {Cascade}]
    BY <1>0, <2>1, LowerMasterEffect
  <2>3. q = [l EXCEPT !.slave.INT = FALSE]
    BY <1>2 DEF ServiceSlave, Signals, Deasserts
  <2> HIDE DEF l, q
  <2>4. q.slave = [p.slave EXCEPT !.INT = FALSE] /\ q.master = l.master /\ q.intr = p.intr
    BY <2>2, <2>3 DEF Pairs
  <2>5. q.slave \in Chip /\ q.slave.INT = FALSE /\ SameRequests(p.slave, q.slave)
    BY <1>0, <2>4 DEF Chip, SameRequests
  <2>6. /\ q.master \in Chip /\ q.master.INT = p.master.INT /\ q.master.isr = p.master.isr
        /\ q.master.irqIn = p.master.irqIn \ {Cascade} /\ q.master.irr = p.master.irr \ {Cascade}
        /\ q.master.autoEoi = p.master.autoEoi /\ q.master.expected = p.master.expected
        /\ q.master.imr = p.master.imr /\ q.master.special = p.master.special
        /\ q.master.lowest = p.master.lowest
    BY <1>0, <2>2, <2>4 DEF Chip, Pairs
  <2>7. q = [master |-> q.master, slave |-> q.slave, intr |-> p.intr]
    BY <2>2, <2>3, <2>4 DEF Pairs
  <2>8. q \in Pairs
    BY <2>5, <2>6, <2>7 DEF Pairs
  <2>9. Wired(q) /\ Heard(q)
    BY <2>4, <2>5, <2>6 DEF Wired, Heard
  <2>10. Related(p.master, q.master)
    BY <2>6 DEF Related
  <2>11. Eligible(q.slave) = {}
    BY <1>2, <2>5 DEF SameRequests, Deasserts, Eligible, Unmasked
  <2>12. Eligible(q.master) \subseteq Eligible(p.master)
    BY <2>6 DEF Eligible, Unmasked, Rank
  <2> QED
    BY <2>5, <2>6, <2>8, <2>9, <2>10, <2>11, <2>12 DEF q, MasterAttended, Attended
<1>3. CASE ~Signals(p.slave) /\ ~Deasserts(p.slave)
  <2>1. q = p
    BY <1>3 DEF ServiceSlave
  <2>2. Attended(p.slave)
    BY <1>3 DEF Signals, Blocked, Attended
  <2> QED
    BY <2>1, <2>2 DEF SameRequests, Related
<1> QED
  BY <1>1, <1>2, <1>3

-----------------------------------------------------------------------------
(* The inductive invariant.  A chip that is being initialized ends its       *)
(* interrupts itself only from ICW4 on; without ICW1 it never does.          *)
Settled(chip) == chip.expected # 0 => ~chip.autoEoi
Plain(chip)   == chip.expected = 0 /\ ~chip.autoEoi

Sound(p) ==
  /\ p \in Pairs /\ Wired(p)
  /\ MasterAttended(p) /\ Attended(p.slave)
  /\ Settled(p.master) /\ Settled(p.slave)
  /\ "reinit" \notin Features => Heard(p) /\ Plain(p.master) /\ Plain(p.slave)

IInv == Sound(Pair) /\ raises \in 0..MaxRaises

(* Nothing in service: everything unmasked is eligible.                     *)
LEMMA AttendedMeans ==
  ASSUME NEW chip \in Chip
  PROVE  Attended(chip) <=> (chip.isr = {} /\ Unmasked(chip) # {} => chip.INT)
<1>1. CASE chip.isr = {}
  <2>1. Eligible(chip) = Unmasked(chip)
    BY <1>1 DEF Eligible
  <2> QED
    BY <1>1, <2>1 DEF Attended
<1>2. CASE chip.isr # {}
  BY <1>2 DEF Attended
<1> QED
  BY <1>1, <1>2

(* A command changes one chip, not its INT latch, and on the master neither  *)
(* the cascade line nor its request.                                         *)
Gentle(c, old, new) ==
  /\ new \in Chip /\ new.INT = old.INT /\ Settled(new)
  /\ "reinit" \notin Features => Plain(new)
  /\ c = "master" => /\ Cascade \in new.irqIn <=> Cascade \in old.irqIn
                     /\ Cascade \in old.irr => Cascade \in new.irr

LEMMA WithChip ==
  ASSUME NEW c \in Chips, NEW new \in Chip, Pair \in Pairs
  PROVE  /\ With(c, new) \in Pairs /\ With(c, new).intr = intr
         /\ With(c, new).master = (IF c = "master" THEN new ELSE master)
         /\ With(c, new).slave = (IF c = "master" THEN slave ELSE new)
  BY DEF With, Pair, Pairs, Chips

LEMMA Touched ==
  ASSUME NEW c \in Chips, NEW new, Sound(Pair), Gentle(c, ThisChip(c), new),
         Attended(new) \/ (c = "master" /\ new.autoEoi)
  PROVE  Sound(With(c, new))
<1> DEFINE q == With(c, new)
<1>1. /\ q \in Pairs /\ q.intr = intr
      /\ q.master = (IF c = "master" THEN new ELSE master)
      /\ q.slave = (IF c = "master" THEN slave ELSE new)
  BY WithChip DEF Gentle, Sound
<1>2. Pair.master = master /\ Pair.slave = slave /\ Pair.intr = intr
  BY DEF Pair
<1> HIDE DEF q
<1>3. CASE c = "master"
  <2>1. Wired(q)
    BY <1>1, <1>2, <1>3 DEF Sound, Wired, Gentle, ThisChip
  <2>2. "reinit" \notin Features => Heard(q)
    BY <1>1, <1>2, <1>3 DEF Sound, Heard, Gentle, ThisChip
  <2> QED
    BY <1>1, <1>2, <1>3, <2>1, <2>2 DEF Sound, Gentle, MasterAttended, q
<1>4. CASE c # "master"
  <2>1. Wired(q)
    BY <1>1, <1>2, <1>4 DEF Sound, Wired, Gentle, ThisChip
  <2>2. "reinit" \notin Features => Heard(q)
    BY <1>1, <1>2, <1>4 DEF Sound, Heard, Gentle, ThisChip
  <2> QED
    BY <1>1, <1>2, <1>4, <2>1, <2>2 DEF Sound, Gentle, MasterAttended, q
<1> QED
  BY <1>3, <1>4

LEMMA TouchedAndServed ==
  ASSUME NEW c \in Chips, NEW new, Sound(Pair), Gentle(c, ThisChip(c), new)
  PROVE  LET q == Service(With(c, new), c) IN
         /\ Sound(q)
         /\ c = "master" => SameRequests(new, q.master) /\ q.slave = slave
         /\ c # "master" => SameRequests(new, q.slave) /\ Related(master, q.master)
<1> DEFINE r == With(c, new)
<1>1. /\ r \in Pairs /\ r.intr = intr
      /\ r.master = (IF c = "master" THEN new ELSE master)
      /\ r.slave = (IF c = "master" THEN slave ELSE new)
  BY WithChip DEF Gentle, Sound
<1>2. Pair.master = master /\ Pair.slave = slave /\ Pair.intr = intr
  BY DEF Pair
<1> HIDE DEF r
<1>3. Wired(r)
  BY <1>1, <1>2 DEF Sound, Wired, Gentle, ThisChip
<1>4. "reinit" \notin Features => Heard(r)
  BY <1>1, <1>2 DEF Sound, Heard, Gentle, ThisChip
<1>5. CASE c = "master"
  <2> DEFINE q == ServiceMaster(r)
  <2>1. /\ q \in Pairs /\ q.slave = r.slave /\ SameRequests(r.master, q.master)
        /\ q.intr = q.master.INT /\ Attended(q.master)
    BY <1>1, <1>3, ServiceMasterEffect DEF Wired
  <2>2. Service(r, c) = q
    BY <1>5 DEF Service
  <2> HIDE DEF q
  <2>3. Wired(q) /\ (Heard(r) => Heard(q))
    BY <1>3, <2>1 DEF Wired, Heard, SameRequests
  <2> QED
    BY <1>1, <1>2, <1>4, <1>5, <2>1, <2>2, <2>3
    DEF r, Sound, Gentle, MasterAttended, SameRequests, Settled, Plain
<1>6. CASE c # "master"
  <2> DEFINE q == ServiceSlave(r)
  <2>1. MasterAttended(r)
    BY <1>1, <1>2, <1>6 DEF Sound, MasterAttended
  <2>2. /\ q \in Pairs /\ Wired(q) /\ SameRequests(r.slave, q.slave)
        /\ Attended(q.slave) /\ Related(r.master, q.master)
        /\ MasterAttended(q) /\ (Heard(r) => Heard(q))
    BY <1>1, <1>3, <2>1, ServiceSlaveEffect
  <2>3. Service(r, c) = q
    BY <1>6 DEF Service
  <2> HIDE DEF q
  <2> QED
    BY <1>1, <1>2, <1>4, <1>6, <2>2, <2>3
    DEF r, Sound, Gentle, SameRequests, Related, Settled, Plain
<1> QED
  BY <1>5, <1>6

-----------------------------------------------------------------------------
LEMMA Becomes ==
  ASSUME NEW q \in Pairs, Become(q)
  PROVE  Pair' = q
  BY DEF Become, Pair, Pairs

LEMMA ChipFacts ==
  ASSUME NEW c \in Chips, Sound(Pair)
  PROVE  /\ ThisChip(c) \in Chip /\ Settled(ThisChip(c))
         /\ "reinit" \notin Features => Plain(ThisChip(c))
         /\ Attended(ThisChip(c)) \/ (c = "master" /\ ThisChip(c).autoEoi)
  BY DEF Sound, Pair, Pairs, ThisChip, MasterAttended

(* A handler makes a sound pair of chips another, and loses no request.      *)
Kept == "reinit" \notin Features => Lost(master, master') \cup Lost(slave, slave') = {}

SoundStep == Sound(Pair') /\ Kept

LEMMA ServedKeeps ==
  ASSUME NEW c \in Chips, Sound(Pair), NEW new, Gentle(c, ThisChip(c), new),
         ThisChip(c).irr \subseteq new.irr,
         Become(Service(With(c, new), c))
  PROVE  SoundStep
<1> DEFINE q == Service(With(c, new), c)
<1>1. /\ Sound(q)
      /\ c = "master" => SameRequests(new, q.master) /\ q.slave = slave
      /\ c # "master" => SameRequests(new, q.slave) /\ Related(master, q.master)
  BY TouchedAndServed
<1>2. master' = q.master /\ slave' = q.slave
  BY DEF Become
<1> HIDE DEF q
<1>3. Pair' = q
  BY <1>1, Becomes DEF Sound, q
<1>4. CASE c = "master"
  BY <1>1, <1>2, <1>3, <1>4 DEF SoundStep, Kept, Lost, SameRequests, ThisChip
<1>5. CASE c # "master"
  BY <1>1, <1>2, <1>3, <1>5 DEF SoundStep, Kept, Lost, SameRequests, Related, ThisChip
<1> QED
  BY <1>4, <1>5

(* One lemma per handler.                                                    *)
LEMMA RaiseIrqSound ==
  ASSUME NEW c \in Chips, NEW line \in Lines, Sound(Pair), RaiseIrq(c, line)
  PROVE  SoundStep
<1> DEFINE new == [ThisChip(c) EXCEPT !.irqIn = @ \cup {line}, !.irr = @ \cup {line}]
<1>1. Gentle(c, ThisChip(c), new) /\ ThisChip(c).irr \subseteq new.irr
  BY ChipFacts DEF Gentle, Chip, Settled, Plain, RaiseIrq, DeviceLine
<1>2. Become(Service(With(c, new), c))
  BY DEF RaiseIrq
<1> HIDE DEF new
<1> QED
  BY <1>1, <1>2, ServedKeeps

LEMMA LowerIrqSound ==
  ASSUME NEW c \in Chips, NEW line \in Lines, Sound(Pair), LowerIrq(c, line)
  PROVE  SoundStep
<1> DEFINE old == ThisChip(c)
           new == [old EXCEPT !.irqIn = @ \ {line}, !.irr = @ \ {line}]
<1>0. old \in Chip
  BY ChipFacts
<1>1. Gentle(c, old, new)
  BY ChipFacts DEF Gentle, Chip, Settled, Plain, LowerIrq, DeviceLine
<1>2. new.isr = old.isr /\ Unmasked(new) \subseteq Unmasked(old)
      /\ new.INT = old.INT /\ new.autoEoi = old.autoEoi /\ new \in Chip
  BY <1>0 DEF Chip, Unmasked
<1> HIDE DEF old, new
<1>3. Attended(new) \/ (c = "master" /\ new.autoEoi)
  BY <1>0, <1>2, AttendedMeans, ChipFacts DEF old
<1>4. Sound(With(c, new))
  BY <1>1, <1>3, Touched DEF old
<1>5. Become(With(c, new))
  BY DEF LowerIrq, old, new
<1>6. Lost(old, new) = {}
  BY <1>0 DEF Lost, Chip, old, new
<1>7. Pair' = With(c, new) /\ Kept
  BY <1>2, <1>4, <1>5, <1>6, Becomes, WithChip
  DEF Sound, Become, Kept, Lost, ThisChip, old
<1> QED
  BY <1>4, <1>7 DEF SoundStep

(* What changes neither requests, masks nor what is in service.             *)
LEMMA OtherwiseSame ==
  ASSUME NEW c \in Chips, Sound(Pair), NEW new \in Chip,
         new.irr = ThisChip(c).irr, new.imr = ThisChip(c).imr, new.isr = ThisChip(c).isr,
         new.irqIn = ThisChip(c).irqIn, new.INT = ThisChip(c).INT,
         ThisChip(c).autoEoi => new.autoEoi \/ ThisChip(c).expected # 0,
         Settled(new), "reinit" \notin Features => Plain(new),
         Become(With(c, new))
  PROVE  SoundStep
<1>1. Gentle(c, ThisChip(c), new)
  BY DEF Gentle
<1>2. Attended(new) <=> Attended(ThisChip(c))
  BY AttendedMeans, ChipFacts DEF Unmasked
<1>3. Attended(new) \/ (c = "master" /\ new.autoEoi)
  BY <1>2, ChipFacts DEF Settled
<1>4. Sound(With(c, new))
  BY <1>1, <1>3, Touched
<1>5. Pair' = With(c, new) /\ Kept
  BY <1>4, Becomes, WithChip DEF Sound, Become, Kept, Lost, ThisChip
<1> QED
  BY <1>4, <1>5 DEF SoundStep

LEMMA SetModeSound ==
  ASSUME NEW c \in Chips, NEW lines \in SUBSET Lines, Sound(Pair), SetMode(c, lines)
  PROVE  SoundStep
<1> DEFINE new == [ThisChip(c) EXCEPT !.level = lines]
<1>1. /\ new \in Chip /\ new.irr = ThisChip(c).irr /\ new.imr = ThisChip(c).imr
      /\ new.isr = ThisChip(c).isr /\ new.irqIn = ThisChip(c).irqIn
      /\ new.INT = ThisChip(c).INT /\ Settled(new)
      /\ ThisChip(c).autoEoi => new.autoEoi \/ ThisChip(c).expected # 0
      /\ "reinit" \notin Features => Plain(new)
  BY ChipFacts DEF Chip, Settled, Plain, SetMode
<1>2. Become(With(c, new))
  BY DEF SetMode
<1> HIDE DEF new
<1> QED
  BY <1>1, <1>2, OtherwiseSame

LEMMA PollSound ==
  ASSUME NEW c \in Chips, Sound(Pair), Poll(c)
  PROVE  SoundStep
<1> DEFINE new == [ThisChip(c) EXCEPT !.polled = TRUE]
<1>1. /\ new \in Chip /\ new.irr = ThisChip(c).irr /\ new.imr = ThisChip(c).imr
      /\ new.isr = ThisChip(c).isr /\ new.irqIn = ThisChip(c).irqIn
      /\ new.INT = ThisChip(c).INT /\ Settled(new)
      /\ ThisChip(c).autoEoi => new.autoEoi \/ ThisChip(c).expected # 0
      /\ "reinit" \notin Features => Plain(new)
  BY ChipFacts DEF Chip, Settled, Plain, Poll
<1>2. Become(With(c, new))
  BY DEF Poll
<1> HIDE DEF new
<1> QED
  BY <1>1, <1>2, OtherwiseSame

LEMMA SetLowestSound ==
  ASSUME NEW c \in Chips, NEW line \in Lines, Sound(Pair), SetLowest(c, line)
  PROVE  SoundStep
<1> DEFINE new == [ThisChip(c) EXCEPT !.lowest = line]
<1>1. /\ new \in Chip /\ new.irr = ThisChip(c).irr /\ new.imr = ThisChip(c).imr
      /\ new.isr = ThisChip(c).isr /\ new.irqIn = ThisChip(c).irqIn
      /\ new.INT = ThisChip(c).INT /\ Settled(new)
      /\ ThisChip(c).autoEoi => new.autoEoi \/ ThisChip(c).expected # 0
      /\ "reinit" \notin Features => Plain(new)
  BY ChipFacts DEF Chip, Settled, Plain, SetLowest
<1>2. Become(With(c, new))
  BY DEF SetLowest
<1> HIDE DEF new
<1> QED
  BY <1>1, <1>2, OtherwiseSame

LEMMA RotateOnAutoEoiSound ==
  ASSUME NEW c \in Chips, NEW on \in BOOLEAN, Sound(Pair), RotateOnAutoEoi(c, on)
  PROVE  SoundStep
<1> DEFINE new == [ThisChip(c) EXCEPT !.rotate = on]
<1>1. /\ new \in Chip /\ new.irr = ThisChip(c).irr /\ new.imr = ThisChip(c).imr
      /\ new.isr = ThisChip(c).isr /\ new.irqIn = ThisChip(c).irqIn
      /\ new.INT = ThisChip(c).INT /\ Settled(new)
      /\ ThisChip(c).autoEoi => new.autoEoi \/ ThisChip(c).expected # 0
      /\ "reinit" \notin Features => Plain(new)
  BY ChipFacts DEF Chip, Settled, Plain, RotateOnAutoEoi
<1>2. Become(With(c, new))
  BY DEF RotateOnAutoEoi
<1> HIDE DEF new
<1> QED
  BY <1>1, <1>2, OtherwiseSame

LEMMA Icw2Sound ==
  ASSUME NEW c \in Chips, Sound(Pair), Icw2(c)
  PROVE  SoundStep
<1> DEFINE new == [ThisChip(c) EXCEPT !.expected = 3]
<1>1. /\ new \in Chip /\ new.irr = ThisChip(c).irr /\ new.imr = ThisChip(c).imr
      /\ new.isr = ThisChip(c).isr /\ new.irqIn = ThisChip(c).irqIn
      /\ new.INT = ThisChip(c).INT /\ Settled(new)
      /\ ThisChip(c).autoEoi => new.autoEoi \/ ThisChip(c).expected # 0
      /\ "reinit" \notin Features => Plain(new)
  BY ChipFacts DEF Chip, Settled, Plain, Icw2
<1>2. Become(With(c, new))
  BY DEF Icw2
<1> HIDE DEF new
<1> QED
  BY <1>1, <1>2, OtherwiseSame

LEMMA Icw3Sound ==
  ASSUME NEW c \in Chips, Sound(Pair), Icw3(c)
  PROVE  SoundStep
<1> DEFINE new == [ThisChip(c) EXCEPT !.expected = IF ThisChip(c).needs4 THEN 4 ELSE 0]
<1>1. /\ new \in Chip /\ new.irr = ThisChip(c).irr /\ new.imr = ThisChip(c).imr
      /\ new.isr = ThisChip(c).isr /\ new.irqIn = ThisChip(c).irqIn
      /\ new.INT = ThisChip(c).INT /\ Settled(new)
      /\ ThisChip(c).autoEoi => new.autoEoi \/ ThisChip(c).expected # 0
      /\ "reinit" \notin Features => Plain(new)
  BY ChipFacts DEF Chip, Settled, Plain, Icw3
<1>2. Become(With(c, new))
  BY DEF Icw3
<1> HIDE DEF new
<1> QED
  BY <1>1, <1>2, OtherwiseSame

LEMMA Icw4Sound ==
  ASSUME NEW c \in Chips, NEW auto \in BOOLEAN, Sound(Pair), Icw4(c, auto)
  PROVE  SoundStep
<1> DEFINE new == [ThisChip(c) EXCEPT !.expected = 0, !.autoEoi = auto]
<1>1. ThisChip(c).expected = 4 /\ Become(With(c, new))
  BY DEF Icw4
<1>2. ThisChip(c) \in Chip
  BY ChipFacts
<1>3. /\ new \in Chip /\ new.irr = ThisChip(c).irr /\ new.imr = ThisChip(c).imr
      /\ new.isr = ThisChip(c).isr /\ new.irqIn = ThisChip(c).irqIn
      /\ new.INT = ThisChip(c).INT /\ new.expected = 0
  BY <1>2 DEF Chip
<1>4. Settled(new)
  BY <1>3 DEF Settled
<1>5. "reinit" \in Features
  BY <1>1, ChipFacts DEF Plain
<1> HIDE DEF new
<1> QED
  BY <1>1, <1>3, <1>4, <1>5, OtherwiseSame

LEMMA Icw1Sound ==
  ASSUME NEW c \in Chips, NEW needs4 \in BOOLEAN, Sound(Pair), Icw1(c, needs4)
  PROVE  SoundStep
<1> DEFINE new == [ThisChip(c) EXCEPT !.expected = 2, !.needs4 = needs4,
                    !.imr = {}, !.isr = {}, !.irr = {}, !.lowest = N - 1,
                    !.autoEoi = FALSE, !.rotate = FALSE, !.INT = FALSE]
           p == With(c, new)
           q == IF c = "master" THEN [p EXCEPT !.intr = FALSE]
                ELSE [p EXCEPT !.master.irqIn = CascadeAfterIcw1(@)]
<1>0. "reinit" \in Features /\ Become(q)
  BY DEF Icw1
<1>1. /\ new \in Chip /\ new.irr = {} /\ new.INT = FALSE /\ ~new.autoEoi
      /\ new.irqIn = ThisChip(c).irqIn
  <2>1. N - 1 \in Lines
    BY PicAssumption DEF Lines
  <2> QED
    BY <2>1, ChipFacts DEF Chip
<1>2. Settled(new) /\ Attended(new)
  BY <1>1 DEF Settled, Attended, Eligible, Unmasked
<1> HIDE DEF new
<1>3. /\ p \in Pairs /\ p.intr = intr
      /\ p.master = (IF c = "master" THEN new ELSE master)
      /\ p.slave = (IF c = "master" THEN slave ELSE new)
  BY <1>1, WithChip DEF Sound
<1>4. Pair.master = master /\ Pair.slave = slave /\ Pair.intr = intr
  BY DEF Pair
<1> HIDE DEF p
<1>5. CASE c = "master"
  <2>1. q = [p EXCEPT !.intr = FALSE]
    BY <1>5
  <2>2. q \in Pairs /\ q.master = new /\ q.slave = slave /\ q.intr = FALSE
    BY <1>3, <1>5, <2>1 DEF Pairs
  <2> HIDE DEF q
  <2>3. Sound(q)
    BY <1>0, <1>1, <1>2, <1>4, <1>5, <2>2 DEF Sound, Wired, MasterAttended, ThisChip
  <2> QED
    BY <1>0, <2>2, <2>3, Becomes DEF SoundStep, Kept
<1>6. CASE c # "master"
  <2>1. q = [p EXCEPT !.master.irqIn = CascadeAfterIcw1(@)]
    BY <1>6
  <2>2. q.master = [master EXCEPT !.irqIn = @ \ {Cascade}]
        /\ q.slave = new /\ q.intr = intr
    BY <1>3, <1>6, <2>1 DEF Pairs, CascadeAfterIcw1
  <2>3. /\ q.master \in Chip /\ q.master.INT = master.INT /\ q.master.isr = master.isr
        /\ q.master.irr = master.irr /\ q.master.imr = master.imr
        /\ Cascade \notin q.master.irqIn /\ q.master.autoEoi = master.autoEoi
        /\ q.master.expected = master.expected
    BY <1>4, <2>2 DEF Sound, Pairs, Chip
  <2>4. q = [master |-> q.master, slave |-> new, intr |-> intr]
    BY <1>3, <2>1, <2>2 DEF Pairs
  <2> HIDE DEF q
  <2>5. q \in Pairs
    BY <1>1, <1>4, <2>3, <2>4 DEF Sound, Pairs
  <2>6. Wired(q)
    BY <1>1, <1>4, <2>2, <2>3 DEF Sound, Wired
  <2>7. master \in Chip
    BY <1>4 DEF Sound, Pairs
  <2>8. MasterAttended(q)
    BY <1>4, <2>3, <2>7, AttendedMeans DEF Sound, MasterAttended, Unmasked
  <2>9. Sound(q)
    BY <1>0, <1>2, <1>4, <2>2, <2>3, <2>5, <2>6, <2>8 DEF Sound, Settled
  <2> QED
    BY <1>0, <2>5, <2>9, Becomes DEF SoundStep, Kept
<1> QED
  BY <1>5, <1>6

(* A command that ends with pic_service.                                    *)
LEMMA CommandServed ==
  ASSUME NEW c \in Chips, Sound(Pair), NEW new \in Chip,
         new.INT = ThisChip(c).INT, new.irqIn = ThisChip(c).irqIn,
         new.irr = ThisChip(c).irr, new.autoEoi = ThisChip(c).autoEoi,
         new.expected = ThisChip(c).expected,
         Become(Service(With(c, new), c))
  PROVE  SoundStep
<1>1. Gentle(c, ThisChip(c), new)
  BY ChipFacts DEF Gentle, Settled, Plain
<1> QED
  BY <1>1, ServedKeeps

LEMMA SpecialMaskSound ==
  ASSUME NEW c \in Chips, NEW on \in BOOLEAN, Sound(Pair), SpecialMask(c, on)
  PROVE  SoundStep
<1> DEFINE new == [ThisChip(c) EXCEPT !.special = on]
<1>1. /\ new \in Chip /\ new.irr = ThisChip(c).irr /\ new.imr = ThisChip(c).imr
      /\ new.isr = ThisChip(c).isr /\ new.irqIn = ThisChip(c).irqIn
      /\ new.INT = ThisChip(c).INT /\ new.autoEoi = ThisChip(c).autoEoi
      /\ new.expected = ThisChip(c).expected
  BY ChipFacts DEF Chip
<1>2. Become(IF on THEN Service(With(c, new), c) ELSE With(c, new))
  BY DEF SpecialMask
<1> HIDE DEF new
<1>3. CASE on
  BY <1>1, <1>2, <1>3, CommandServed
<1>4. CASE ~on
  BY <1>1, <1>2, <1>4, ChipFacts, OtherwiseSame DEF Settled, Plain
<1> QED
  BY <1>3, <1>4

LEMMA Ocw1Sound ==
  ASSUME NEW c \in Chips, NEW lines \in SUBSET Lines, Sound(Pair), Ocw1(c, lines)
  PROVE  SoundStep
<1> DEFINE new == [ThisChip(c) EXCEPT !.imr = lines]
<1>1. /\ new \in Chip /\ new.irr = ThisChip(c).irr /\ new.irqIn = ThisChip(c).irqIn
      /\ new.INT = ThisChip(c).INT /\ new.autoEoi = ThisChip(c).autoEoi
      /\ new.expected = ThisChip(c).expected
  BY ChipFacts DEF Chip
<1>2. Become(Service(With(c, new), c))
  BY DEF Ocw1, AfterMask
<1> HIDE DEF new
<1> QED
  BY <1>1, <1>2, CommandServed

(* clear_highest_interrupt and the rotation leave the chip's requests alone. *)
LEMMA ClearHighestEffect ==
  ASSUME NEW chip \in Chip
  PROVE  LET new == ClearHighest(chip) IN
         /\ new \in Chip /\ new.irr = chip.irr /\ new.irqIn = chip.irqIn
         /\ new.INT = chip.INT /\ new.autoEoi = chip.autoEoi
         /\ new.expected = chip.expected
  BY DEF ClearHighest, Chip

LEMMA NextLowestIsLine ==
  ASSUME NEW line \in Lines
  PROVE  NextLowest(line) \in Lines
<1>1. N \in Nat \ {0} /\ line + 1 \in Nat
  BY PicAssumption DEF Lines
<1>2. \A a \in Nat : (a % N) \in 0..(N - 1)
  BY <1>1, SMT
<1> QED
  BY <1>1, <1>2 DEF NextLowest, Lines

LEMMA EoiSound ==
  ASSUME NEW c \in Chips, NEW rotating \in BOOLEAN, Sound(Pair), Eoi(c, rotating)
  PROVE  SoundStep
<1> DEFINE chip == ClearHighest(ThisChip(c))
           new == IF rotating THEN [chip EXCEPT !.lowest = NextLowest(@)] ELSE chip
<1>1. /\ chip \in Chip /\ chip.irr = ThisChip(c).irr /\ chip.irqIn = ThisChip(c).irqIn
      /\ chip.INT = ThisChip(c).INT /\ chip.autoEoi = ThisChip(c).autoEoi
      /\ chip.expected = ThisChip(c).expected
  BY ChipFacts, ClearHighestEffect
<1>2. Become(Service(With(c, new), c))
  BY DEF Eoi, AfterEoi
<1> HIDE DEF chip
<1>3. NextLowest(chip.lowest) \in Lines
  BY <1>1, NextLowestIsLine DEF Chip
<1>4. /\ new \in Chip /\ new.irr = ThisChip(c).irr /\ new.irqIn = ThisChip(c).irqIn
      /\ new.INT = ThisChip(c).INT /\ new.autoEoi = ThisChip(c).autoEoi
      /\ new.expected = ThisChip(c).expected
  BY <1>1, <1>3 DEF Chip
<1> HIDE DEF new
<1> QED
  BY <1>2, <1>4, CommandServed

LEMMA SpecificEoiSound ==
  ASSUME NEW c \in Chips, NEW line \in Lines, NEW rotating \in BOOLEAN, Sound(Pair),
         SpecificEoi(c, line, rotating)
  PROVE  SoundStep
<1> DEFINE chip == [ThisChip(c) EXCEPT !.isr = @ \ {line}]
           new == IF rotating THEN [chip EXCEPT !.lowest = line] ELSE chip
<1>1. /\ chip \in Chip /\ chip.irr = ThisChip(c).irr /\ chip.irqIn = ThisChip(c).irqIn
      /\ chip.INT = ThisChip(c).INT /\ chip.autoEoi = ThisChip(c).autoEoi
      /\ chip.expected = ThisChip(c).expected
  BY ChipFacts DEF Chip
<1>2. Become(Service(With(c, new), c))
  BY DEF SpecificEoi, AfterEoi
<1> HIDE DEF chip
<1>3. /\ new \in Chip /\ new.irr = ThisChip(c).irr /\ new.irqIn = ThisChip(c).irqIn
      /\ new.INT = ThisChip(c).INT /\ new.autoEoi = ThisChip(c).autoEoi
      /\ new.expected = ThisChip(c).expected
  BY <1>1 DEF Chip
<1> HIDE DEF new
<1> QED
  BY <1>2, <1>3, CommandServed

LEMMA PolledReadSound ==
  ASSUME NEW c \in Chips, Sound(Pair), PolledRead(c)
  PROVE  SoundStep
<1> DEFINE chip == ClearHighest(ThisChip(c))
           new == [chip EXCEPT !.polled = FALSE]
<1>1. /\ chip \in Chip /\ chip.irr = ThisChip(c).irr /\ chip.irqIn = ThisChip(c).irqIn
      /\ chip.INT = ThisChip(c).INT /\ chip.autoEoi = ThisChip(c).autoEoi
      /\ chip.expected = ThisChip(c).expected
  BY ChipFacts, ClearHighestEffect
<1>2. Become(Service(With(c, new), c))
  BY DEF PolledRead, AfterPoll
<1> HIDE DEF chip
<1>3. /\ new \in Chip /\ new.irr = ThisChip(c).irr /\ new.irqIn = ThisChip(c).irqIn
      /\ new.INT = ThisChip(c).INT /\ new.autoEoi = ThisChip(c).autoEoi
      /\ new.expected = ThisChip(c).expected
  BY <1>1 DEF Chip
<1> HIDE DEF new
<1> QED
  BY <1>2, <1>3, CommandServed

-----------------------------------------------------------------------------
(* The acknowledge.                                                         *)
LEMMA AcknowledgedEffect ==
  ASSUME NEW chip \in Chip
  PROVE  LET new == Acknowledged(chip) IN
         /\ new \in Chip /\ new.INT = chip.INT /\ new.irqIn = chip.irqIn
         /\ new.autoEoi = chip.autoEoi /\ new.expected = chip.expected
         /\ chip.irr \ {chip.irq} \subseteq new.irr
         /\ ~chip.autoEoi => chip.irq \in new.isr
  BY DEF Acknowledged, Chip

(* What the steps of IAC make of a pair of chips.                           *)
LEMMA MasterSet ==
  ASSUME NEW p \in Pairs, NEW m \in Chip, NEW q, q = [p EXCEPT !.master = m]
  PROVE  q \in Pairs /\ q.master = m /\ q.slave = p.slave /\ q.intr = p.intr
  BY DEF Pairs

LEMMA SlaveSet ==
  ASSUME NEW p \in Pairs, NEW s \in Chip, NEW q, q = [p EXCEPT !.slave = s]
  PROVE  q \in Pairs /\ q.master = p.master /\ q.slave = s /\ q.intr = p.intr
  BY DEF Pairs

LEMMA MasterQuiet ==
  ASSUME NEW p \in Pairs, NEW q, q = [p EXCEPT !.master.INT = FALSE, !.intr = FALSE]
  PROVE  /\ q \in Pairs /\ q.master = [p.master EXCEPT !.INT = FALSE]
         /\ q.slave = p.slave /\ q.intr = FALSE
<1>1. q.master = [p.master EXCEPT !.INT = FALSE] /\ q.slave = p.slave /\ q.intr = FALSE
  BY DEF Pairs
<1>2. q.master \in Chip
  BY <1>1 DEF Pairs, Chip
<1>3. q \in Pairs
  BY <1>1, <1>2 DEF Pairs
<1> QED
  BY <1>1, <1>3

LEMMA SlaveQuiet ==
  ASSUME NEW p \in Pairs, NEW q, q = SlaveSilent(p)
  PROVE  /\ q \in Pairs /\ q.intr = p.intr
         /\ q.slave = [p.slave EXCEPT !.INT = FALSE]
         /\ q.master = [p.master EXCEPT !.irqIn = @ \ {Cascade}]
<1>0. q = [p EXCEPT !.slave.INT = FALSE, !.master.irqIn = @ \ {Cascade}]
  BY DEF SlaveSilent
<1>1. /\ q.intr = p.intr /\ q.slave = [p.slave EXCEPT !.INT = FALSE]
      /\ q.master = [p.master EXCEPT !.irqIn = @ \ {Cascade}]
  BY <1>0 DEF Pairs
<1>2. q.slave \in Chip /\ q.master \in Chip
  <2>1. p.slave \in Chip /\ p.master \in Chip
    BY DEF Pairs
  <2>2. q.slave \in Chip
    BY <1>1, <2>1 DEF Chip
  <2>3. q.master \in Chip
    BY <1>1, <2>1 DEF Chip
  <2> QED
    BY <2>2, <2>3
<1>3. q = [master |-> q.master, slave |-> q.slave, intr |-> p.intr]
  BY <1>0, <1>1 DEF Pairs
<1>4. q \in Pairs
  BY <1>2, <1>3 DEF Pairs
<1> QED
  BY <1>1, <1>4

LEMMA IacSound ==
  ASSUME Sound(Pair), IAC
  PROVE  SoundStep
<1> DEFINE quiet == [Pair EXCEPT !.master.INT = FALSE, !.intr = FALSE]
           taken == [quiet EXCEPT !.master = Acknowledged(@)]
           heard == SlaveSilent(taken)
           both  == [heard EXCEPT !.slave = Acknowledged(@)]
           after == ServiceSlave(both)
<1>0. Pair.master = master /\ Pair.slave = slave /\ Pair.intr = intr
      /\ master \in Chip /\ slave \in Chip /\ Pair \in Pairs
  BY DEF Sound, Pair, Pairs
<1>1. Become(CASE Spurious(master)                             -> quiet
               [] ~Spurious(master) /\ master.irq # Cascade    -> ServiceMaster(taken)
               [] ~Spurious(master) /\ master.irq = Cascade /\ Spurious(slave) -> heard
               [] OTHER -> ServiceMaster(after))
  BY DEF IAC
<1>2. /\ quiet \in Pairs /\ quiet.master = [master EXCEPT !.INT = FALSE]
      /\ quiet.slave = slave /\ quiet.intr = FALSE
  BY <1>0, MasterQuiet
<1> HIDE DEF quiet
<1>3. /\ quiet.master \in Chip /\ quiet.master.INT = FALSE
      /\ quiet.master.irr = master.irr /\ quiet.master.imr = master.imr
      /\ quiet.master.irqIn = master.irqIn /\ quiet.master.irq = master.irq
      /\ quiet.master.autoEoi = master.autoEoi /\ quiet.master.expected = master.expected
  BY <1>0, <1>2 DEF Chip
<1>4. Wired(quiet)
  BY <1>0, <1>2, <1>3 DEF Sound, Wired
<1>5. /\ Acknowledged(quiet.master) \in Chip
      /\ taken = [quiet EXCEPT !.master = Acknowledged(quiet.master)]
  BY <1>3, AcknowledgedEffect
<1> HIDE DEF taken
<1>6. /\ taken \in Pairs /\ taken.master = Acknowledged(quiet.master)
      /\ taken.slave = slave /\ taken.intr = FALSE
  BY <1>2, <1>5, MasterSet
<1>7. /\ taken.master \in Chip /\ taken.master.INT = FALSE
      /\ taken.master.irqIn = master.irqIn
      /\ taken.master.autoEoi = master.autoEoi /\ taken.master.expected = master.expected
      /\ master.irr \ {master.irq} \subseteq taken.master.irr
      /\ ~master.autoEoi => master.irq \in taken.master.isr
  BY <1>3, <1>6, AcknowledgedEffect
<1>8. Wired(taken)
  BY <1>0, <1>6, <1>7 DEF Sound, Wired
<1>9. /\ heard \in Pairs /\ heard.intr = FALSE
      /\ heard.slave = [slave EXCEPT !.INT = FALSE]
      /\ heard.master = [taken.master EXCEPT !.irqIn = @ \ {Cascade}]
  BY <1>6, SlaveQuiet
<1> HIDE DEF heard
<1>10. /\ heard.slave \in Chip /\ heard.slave.INT = FALSE
       /\ heard.slave.irr = slave.irr /\ heard.slave.imr = slave.imr
       /\ heard.slave.irq = slave.irq
       /\ heard.slave.autoEoi = slave.autoEoi /\ heard.slave.expected = slave.expected
  BY <1>0, <1>9 DEF Chip
<1>11. /\ heard.master.INT = FALSE /\ Cascade \notin heard.master.irqIn
       /\ heard.master.isr = taken.master.isr /\ heard.master.irr = taken.master.irr
       /\ heard.master.autoEoi = master.autoEoi /\ heard.master.expected = master.expected
  BY <1>7, <1>9 DEF Chip
<1>12. Wired(heard)
  BY <1>9, <1>10, <1>11 DEF Wired
<1>13. /\ Acknowledged(heard.slave) \in Chip
       /\ both = [heard EXCEPT !.slave = Acknowledged(heard.slave)]
  BY <1>10, AcknowledgedEffect
<1> HIDE DEF both
<1>14. /\ both \in Pairs /\ both.slave = Acknowledged(heard.slave)
       /\ both.master = heard.master /\ both.intr = FALSE
  BY <1>9, <1>13, SlaveSet
<1>15. /\ both.slave.INT = FALSE /\ both.slave.autoEoi = slave.autoEoi
       /\ both.slave.expected = slave.expected
       /\ slave.irr \ {slave.irq} \subseteq both.slave.irr
       /\ ~slave.autoEoi => slave.irq \in both.slave.isr
  BY <1>10, <1>14, AcknowledgedEffect
<1>16. Wired(both) /\ Heard(both)
  BY <1>11, <1>14, <1>15 DEF Wired, Heard
<1>17. "reinit" \notin Features => ~master.autoEoi /\ ~slave.autoEoi
  BY <1>0 DEF Sound, Plain
<1>18. CASE Spurious(master)
  <2>1. Become(quiet)
    BY <1>1, <1>18
  <2>2. Attended(quiet.master)
    BY <1>3, <1>18 DEF Attended, Eligible, Unmasked, Spurious
  <2>3. Sound(quiet)
    BY <1>0, <1>2, <1>3, <1>4, <2>2 DEF Sound, Heard, MasterAttended, Settled, Plain
  <2> QED
    BY <1>2, <1>3, <2>1, <2>3, Becomes DEF Become, SoundStep, Kept, Lost
<1>19. CASE ~Spurious(master) /\ master.irq # Cascade
  <2> DEFINE q == ServiceMaster(taken)
  <2>1. Become(q)
    BY <1>1, <1>19
  <2>2. /\ q \in Pairs /\ q.slave = taken.slave /\ SameRequests(taken.master, q.master)
        /\ q.intr = q.master.INT /\ Attended(q.master)
    BY <1>6, <1>8, ServiceMasterEffect DEF Wired
  <2> HIDE DEF q
  <2>3. Wired(q)
    BY <1>8, <2>2 DEF Wired, SameRequests, Pairs
  <2>4. Heard(Pair) => Heard(q)
    BY <1>0, <1>6, <1>7, <1>19, <2>2 DEF Heard, SameRequests
  <2>5. Sound(q)
    BY <1>0, <1>6, <1>7, <2>2, <2>3, <2>4
    DEF Sound, MasterAttended, Settled, Plain, SameRequests
  <2>6. Kept
    BY <1>6, <1>7, <1>17, <2>1, <2>2 DEF Become, Kept, Lost, SameRequests
  <2> QED
    BY <2>1, <2>2, <2>5, <2>6, Becomes DEF SoundStep
<1>20. CASE ~Spurious(master) /\ master.irq = Cascade /\ Spurious(slave)
  <2>1. Become(heard)
    BY <1>1, <1>20
  <2>2. Attended(heard.slave)
    BY <1>10, <1>20 DEF Attended, Eligible, Unmasked, Spurious
  <2>3. MasterAttended(heard)
    BY <1>7, <1>11 DEF MasterAttended, Attended
  <2>4. Sound(heard)
    BY <1>0, <1>9, <1>10, <1>11, <1>12, <2>2, <2>3 DEF Sound, Heard, Settled, Plain
  <2>5. Kept
    BY <1>7, <1>10, <1>11, <1>17, <2>1 DEF Become, Kept, Lost
  <2> QED
    BY <1>9, <2>1, <2>4, <2>5, Becomes DEF SoundStep
<1>21. CASE ~Spurious(master) /\ master.irq = Cascade /\ ~Spurious(slave)
  <2> DEFINE q == ServiceMaster(after)
  <2>1. Become(q)
    BY <1>1, <1>21
  <2>2. /\ after \in Pairs /\ Wired(after) /\ Heard(after)
        /\ SameRequests(both.slave, after.slave) /\ Attended(after.slave)
        /\ Related(both.master, after.master)
    BY <1>14, <1>16, ServiceSlaveEffect
  <2> HIDE DEF after
  <2>3. /\ q \in Pairs /\ q.slave = after.slave /\ SameRequests(after.master, q.master)
        /\ q.intr = q.master.INT /\ Attended(q.master)
    BY <2>2, ServiceMasterEffect DEF Wired
  <2> HIDE DEF q
  <2>4. Wired(q) /\ Heard(q)
    BY <2>2, <2>3 DEF Wired, Heard, SameRequests
  <2>5. Sound(q)
    BY <1>0, <1>11, <1>14, <1>15, <2>2, <2>3, <2>4
    DEF Sound, MasterAttended, Settled, Plain, SameRequests, Related
  <2>6. Lost(slave, slave') = {} \/ "reinit" \in Features
    BY <1>15, <1>17, <2>1, <2>2, <2>3 DEF Become, Lost, SameRequests
  <2>7. Lost(master, master') = {} \/ "reinit" \in Features
    BY <1>7, <1>11, <1>14, <1>17, <2>1, <2>2, <2>3 DEF Become, Lost, SameRequests, Related
  <2> QED
    BY <2>1, <2>3, <2>5, <2>6, <2>7, Becomes DEF SoundStep, Kept
<1> QED
  BY <1>18, <1>19, <1>20, <1>21

-----------------------------------------------------------------------------
(* Between two commands, in every reachable state, both chips are sound.     *)
LEMMA InitSound == Init => IInv
<1> SUFFICES ASSUME Init PROVE IInv
  OBVIOUS
<1>1. PowerOn \in Chip
  BY PicAssumption DEF PowerOn, Chip, Lines
<1>2. Pair = [master |-> PowerOn, slave |-> PowerOn, intr |-> FALSE]
  BY DEF Init, Pair
<1> HIDE DEF PowerOn
<1>3. /\ PowerOn.INT = FALSE /\ PowerOn.irqIn = {} /\ PowerOn.irr = {}
      /\ PowerOn.expected = 0 /\ PowerOn.autoEoi = FALSE
  BY DEF PowerOn
<1>4. Attended(PowerOn)
  BY <1>3 DEF Attended, Eligible, Unmasked
<1>5. Pair \in Pairs /\ Pair.master = PowerOn /\ Pair.slave = PowerOn /\ Pair.intr = FALSE
  BY <1>1, <1>2 DEF Pairs
<1>6. raises \in 0..MaxRaises
  BY PicAssumption DEF Init
<1> QED
  BY <1>3, <1>4, <1>5, <1>6
  DEF IInv, Sound, Wired, Heard, MasterAttended, Settled, Plain

LEMMA RaisesBounded ==
  ASSUME IInv, Next
  PROVE  raises' \in 0..MaxRaises
<1>0. raises \in 0..MaxRaises /\ MaxRaises \in Nat
  BY PicAssumption DEF IInv
<1>1. ASSUME NEW c \in Chips, NEW line \in Lines, RaiseIrq(c, line)
      PROVE  raises' \in 0..MaxRaises
  BY <1>0, <1>1 DEF RaiseIrq
<1>2. ASSUME NEW c \in Chips, NEW line \in Lines, LowerIrq(c, line)
      PROVE  raises' \in 0..MaxRaises
  BY <1>0, <1>2 DEF LowerIrq, Quiet
<1>3. ASSUME Software \/ IAC PROVE raises' = raises
  BY <1>3 DEF Software, IAC, Icw1, Icw2, Icw3, Icw4, SpecialMask, RotateOnAutoEoi, Poll,
              PolledRead, Ocw1, SetMode, Eoi, SpecificEoi, SetLowest, Quiet
<1> QED
  BY <1>0, <1>1, <1>2, <1>3 DEF Next, Device

LEMMA NextSound ==
  ASSUME Sound(Pair), Next
  PROVE  SoundStep
<1>1. CASE Device
  BY <1>1, RaiseIrqSound, LowerIrqSound DEF Device
<1>2. CASE Software
  <2>1. PICK c \in Chips :
          \/ \E needs4 \in BOOLEAN : Icw1(c, needs4)
          \/ Icw2(c) \/ Icw3(c)
          \/ \E on \in BOOLEAN : Icw4(c, on) \/ SpecialMask(c, on) \/ RotateOnAutoEoi(c, on)
          \/ Poll(c) \/ PolledRead(c)
          \/ \E lines \in SUBSET Lines : Ocw1(c, lines) \/ SetMode(c, lines)
          \/ \E rotating \in BOOLEAN :
               Eoi(c, rotating) \/ \E line \in Lines : SpecificEoi(c, line, rotating)
          \/ \E line \in Lines : SetLowest(c, line)
    BY <1>2 DEF Software
  <2>2. ASSUME NEW on \in BOOLEAN,
               Icw1(c, on) \/ Icw4(c, on) \/ SpecialMask(c, on) \/ RotateOnAutoEoi(c, on)
               \/ Eoi(c, on)
        PROVE  SoundStep
    BY <2>2, Icw1Sound, Icw4Sound, SpecialMaskSound, RotateOnAutoEoiSound, EoiSound,
       Zenon
  <2>3. CASE Icw2(c) \/ Icw3(c) \/ Poll(c) \/ PolledRead(c)
    BY <2>3, Icw2Sound, Icw3Sound, PollSound, PolledReadSound, Zenon
  <2>4. ASSUME NEW lines \in SUBSET Lines, Ocw1(c, lines) \/ SetMode(c, lines)
        PROVE  SoundStep
    BY <2>4, Ocw1Sound, SetModeSound, Zenon
  <2>5. ASSUME NEW rotating \in BOOLEAN, NEW line \in Lines, SpecificEoi(c, line, rotating)
        PROVE  SoundStep
    BY <2>5, SpecificEoiSound
  <2>6. ASSUME NEW line \in Lines, SetLowest(c, line)
        PROVE  SoundStep
    BY <2>6, SetLowestSound
  <2> QED
    BY <2>1, <2>2, <2>3, <2>4, <2>5, <2>6, Zenon
<1>3. CASE IAC
  BY <1>3, IacSound
<1> QED
  BY <1>1, <1>2, <1>3 DEF Next

LEMMA StepSound ==
  ASSUME IInv, [Next]_vars
  PROVE  IInv'
<1>0. Sound(Pair) /\ raises \in 0..MaxRaises
  BY DEF IInv
<1>1. CASE UNCHANGED vars
  <2>1. Pair' = Pair /\ raises' = raises
    BY <1>1 DEF vars, Pair
  <2> QED
    BY <1>0, <2>1 DEF IInv
<1>2. CASE Next
  BY <1>0, <1>2, NextSound, RaisesBounded DEF IInv, SoundStep
<1> QED
  BY <1>1, <1>2

(* For every number of lines, every cascade line and every command of every  *)
(* feature, the pair of chips satisfies the inductive invariant in every     *)
(* state: the wires agree, requests are attended to, and without             *)
(* re-initialization the slave's request stands in the master's irr          *)
(* (pic.cc 521-589 after each of the handlers 145-503 and 592-640).          *)
THEOREM Invariance == Spec => []IInv
<1>1. Init => IInv
  BY InitSound
<1>2. IInv /\ [Next]_vars => IInv'
  BY StepSound
<1> QED
  BY <1>1, <1>2, PTL DEF Spec

(* The registers keep their widths: no command leaves a line number,         *)
(* priority or mask outside the chip's lines (pic.cc 145-503, 592-640).      *)
THEOREM TypeCorrect == Spec => []TypeOK
<1>1. IInv => TypeOK
  BY DEF IInv, Sound, Pair, Pairs, TypeOK
<1> QED
  BY <1>1, Invariance, PTL

(* The INTR pin is the master's INT, and the cascade line is high exactly    *)
(* while the slave's INT is set, whatever software does (pic.cc 564-587,     *)
(* 288, 592-640).                                                            *)
THEOREM WiresAreTrue == Spec => []WiresAgree
<1>1. IInv => WiresAgree
  BY DEF IInv, Sound, Pair, Wired, WiresAgree
<1> QED
  BY <1>1, Invariance, PTL

(* No request that could be served is left without INT or an end of          *)
(* interrupt that will serve it (pic.cc 333-391, 540-587).                   *)
THEOREM NothingIsForgotten == Spec => []NothingForgotten
<1>1. IInv => NothingForgotten
  BY DEF IInv, Sound, Pair, MasterAttended, Attended, NothingForgotten
<1> QED
  BY <1>1, Invariance, PTL

(* Without ICW1 after boot, the slave's INT stands as a request in the       *)
(* master's irr until it is acknowledged or withdrawn (pic.cc 447-491).      *)
THEOREM SlaveIsAlwaysHeard ==
  ASSUME "reinit" \notin Features
  PROVE  Spec => []SlaveIsHeard
<1>1. IInv => SlaveIsHeard
  BY DEF IInv, Sound, Pair, Heard, SlaveIsHeard
<1> QED
  BY <1>1, Invariance, PTL

(* Without ICW1 after boot, a request leaves an irr only when its line goes   *)
(* low or enters service, in whatever order commands, acknowledges and lines *)
(* come (pic.cc 447-491, 602-640).                                           *)
THEOREM RequestsAreNeverLost ==
  ASSUME "reinit" \notin Features
  PROVE  Spec => RequestsAreKept
<1>1. ASSUME IInv, [Next]_vars
      PROVE  [/\ master'.expected # 2 /\ ~master.autoEoi => Lost(master, master') = {}
              /\ slave'.expected # 2 /\ ~slave.autoEoi => Lost(slave, slave') = {}]_vars
  BY <1>1, NextSound DEF IInv, SoundStep, Kept
<1> QED
  BY <1>1, Invariance, PTL DEF Spec, RequestsAreKept
-----------------------------------------------------------------------------
(* Priorities that stay fixed.  The line a chip has latched, or latched      *)
(* last, is never below a line it has in service: pic_service latches only   *)
(* above them, and nothing enters service but the latched line.              *)
FixedPriorities == Features \cap {"rotate", "special"} = {}

Nested(chip) ==
  /\ chip.lowest = N - 1 /\ ~chip.special /\ ~chip.rotate
  /\ \A j \in chip.isr : Rank(chip, chip.irq) <= Rank(chip, j)

BothNested(p) == Nested(p.master) /\ Nested(p.slave)

(* What leaves a nested chip nested: no new line in service, no new latch.   *)
Inherits(old, new) ==
  /\ new.lowest = old.lowest /\ new.special = old.special /\ new.rotate = old.rotate
  /\ new.irq = old.irq /\ new.isr \subseteq old.isr

(* A pair of chips served, with nothing new in service.                      *)
Quieter(old, new) ==
  /\ BothNested(new)
  /\ new.master.isr \subseteq old.master.isr /\ new.slave.isr \subseteq old.slave.isr

LEMMA Inherited ==
  ASSUME NEW old, NEW new, Nested(old), Inherits(old, new)
  PROVE  Nested(new)
  BY DEF Nested, Inherits, Rank

(* With the first line highest a line's rank is its number.                 *)
LEMMA RankIsLine ==
  ASSUME NEW chip, chip.lowest = N - 1, NEW line \in Lines
  PROVE  Rank(chip, line) = line
<1>1. N \in Nat \ {0} /\ line \in 0..(N - 1)
  BY PicAssumption DEF Lines
<1>2. line - chip.lowest - 1 = line - N
  BY <1>1
<1>3. (line - N) % N = line
  BY <1>1, SMT
<1> QED
  BY <1>2, <1>3 DEF Rank

LEMMA LatchNests ==
  ASSUME NEW chip \in Chip, Nested(chip), Signals(chip)
  PROVE  Nested(Latch(chip)) /\ Latch(chip).isr = chip.isr
<1> DEFINE best == Best(chip, Eligible(chip))
           new == Latch(chip)
<1>1. Eligible(chip) # {} /\ Eligible(chip) \in SUBSET Lines
  BY DEF Signals, Eligible, Unmasked, Chip
<1>2. best \in Eligible(chip)
  BY <1>1, BestIsOne
<1>3. best \in Lines /\ \A j \in chip.isr : Rank(chip, best) < Rank(chip, j)
  BY <1>2 DEF Eligible, Nested, Unmasked, Chip
<1>4. /\ new.irq = best /\ new.isr = chip.isr /\ new.lowest = chip.lowest
      /\ new.special = chip.special /\ new.rotate = chip.rotate
  BY DEF Latch, Chip
<1>5. \A line \in Lines : Rank(new, line) = Rank(chip, line) /\ Rank(chip, line) \in Nat
  BY <1>4, RankIsNat DEF Rank
<1> HIDE DEF best, new
<1>6. chip.isr \subseteq Lines
  BY DEF Chip
<1>7. \A j \in new.isr : Rank(new, new.irq) <= Rank(new, j)
  BY <1>3, <1>4, <1>5, <1>6
<1>8. Nested(new)
  BY <1>4, <1>7 DEF Nested
<1> QED
  BY <1>4, <1>8 DEF new

LEMMA ServiceMasterNests ==
  ASSUME NEW p \in Pairs, BothNested(p)
  PROVE  Quieter(p, ServiceMaster(p))
<1> DEFINE q == ServiceMaster(p)
<1>0. p.master \in Chip
  BY DEF Pairs
<1>1. CASE Signals(p.master)
  <2>1. q = [p EXCEPT !.master = Latch(@), !.intr = TRUE]
    BY <1>1 DEF ServiceMaster, Signals, Deasserts
  <2>2. q.master = Latch(p.master) /\ q.slave = p.slave
    BY <2>1 DEF Pairs
  <2> QED
    BY <1>0, <1>1, <2>2, LatchNests DEF BothNested, Quieter
<1>2. CASE ~Signals(p.master) /\ Deasserts(p.master)
  <2>1. q = [p EXCEPT !.master.INT = FALSE, !.intr = FALSE]
    BY <1>2 DEF ServiceMaster
  <2>2. q.master = [p.master EXCEPT !.INT = FALSE] /\ q.slave = p.slave
    BY <2>1 DEF Pairs
  <2>3. Inherits(p.master, q.master)
    BY <1>0, <2>2 DEF Chip, Inherits
  <2> QED
    BY <2>2, <2>3, Inherited DEF BothNested, Quieter, Inherits
<1>3. CASE ~Signals(p.master) /\ ~Deasserts(p.master)
  BY <1>3 DEF ServiceMaster, Quieter
<1> QED
  BY <1>1, <1>2, <1>3

(* A chip told of a request has the same in service and latched.            *)
Raised(chip, line) == [chip EXCEPT !.irqIn = @ \cup {line}, !.irr = @ \cup {line}]

LEMMA RaisedEffect ==
  ASSUME NEW chip \in Chip, NEW line \in Lines
  PROVE  /\ Raised(chip, line) \in Chip /\ Raised(chip, line).INT = chip.INT
         /\ Raised(chip, line).irqIn = chip.irqIn \cup {line}
         /\ Inherits(chip, Raised(chip, line))
<1>1. Raised(chip, line) \in Chip /\ Raised(chip, line).irqIn = chip.irqIn \cup {line}
  BY DEF Raised, Chip
<1>2. Raised(chip, line).INT = chip.INT /\ Inherits(chip, Raised(chip, line))
  BY DEF Raised, Chip, Inherits
<1> QED
  BY <1>1, <1>2

LEMMA RaiseMasterNests ==
  ASSUME NEW p \in Pairs, NEW line \in Lines, BothNested(p)
  PROVE  Quieter(p, RaiseMaster(p, line))
<1> DEFINE r == [p EXCEPT !.master.irqIn = @ \cup {line}, !.master.irr = @ \cup {line}]
<1>0. p.master \in Chip /\ p.slave \in Chip
  BY DEF Pairs
<1>1. r.master = Raised(p.master, line) /\ r.slave = p.slave /\ r.intr = p.intr
  BY DEF Pairs, Raised
<1>2. /\ r = [p EXCEPT !.master.irqIn = @ \cup {line}, !.master.irr = @ \cup {line}]
      /\ RaiseMaster(p, line) = (IF line \in p.master.irqIn THEN p ELSE ServiceMaster(r))
  BY Zenon DEF RaiseMaster
<1> HIDE DEF r
<1>3. r = [master |-> r.master, slave |-> p.slave, intr |-> p.intr]
  BY <1>1, <1>2 DEF Pairs
<1>4. r.master \in Chip /\ Inherits(p.master, r.master)
  BY <1>0, <1>1, RaisedEffect
<1>5. r \in Pairs
  BY <1>3, <1>4 DEF Pairs
<1>6. BothNested(r)
  BY <1>1, <1>4, Inherited DEF BothNested
<1>7. Quieter(r, ServiceMaster(r))
  BY <1>5, <1>6, ServiceMasterNests
<1>8. Quieter(p, p) /\ Quieter(p, ServiceMaster(r))
  BY <1>1, <1>4, <1>7 DEF Quieter, Inherits
<1> QED
  BY <1>2, <1>8

LEMMA ServiceSlaveNests ==
  ASSUME NEW p \in Pairs, Wired(p), BothNested(p)
  PROVE  Quieter(p, ServiceSlave(p))
<1> DEFINE q == ServiceSlave(p)
<1>0. p.slave \in Chip /\ p.master \in Chip /\ Cascade \in Lines
  BY PicAssumption DEF Pairs, Lines
<1>1. CASE Signals(p.slave)
  <2> DEFINE s == [p EXCEPT !.slave = Latch(@)]
  <2>1. Latch(p.slave) \in Chip
    BY <1>0, <1>1, LatchEffect
  <2>2. s \in Pairs /\ s.slave = Latch(p.slave) /\ s.master = p.master
    BY <2>1 DEF Pairs
  <2>3. q = RaiseMaster(s, Cascade)
    BY <1>1 DEF ServiceSlave, Signals, Deasserts
  <2> HIDE DEF s, q
  <2>4. BothNested(s) /\ s.slave.isr = p.slave.isr
    BY <1>0, <1>1, <2>2, LatchNests DEF BothNested
  <2>5. Quieter(s, q)
    BY <1>0, <2>2, <2>3, <2>4, RaiseMasterNests
  <2> QED
    BY <2>2, <2>4, <2>5 DEF Quieter, q
<1>2. CASE ~Signals(p.slave) /\ Deasserts(p.slave)
  <2> DEFINE l == LowerMaster(p, Cascade)
  <2>1. Cascade \in p.master.irqIn
    BY <1>2 DEF Deasserts, Wired
  <2>2. /\ l \in Pairs /\ l.slave = p.slave
        /\ l.master = [p.master EXCEPT !.irqIn = @ \ {Cascade}, !.irr = @ \ {Cascade}]
    BY <1>0, <2>1, LowerMasterEffect
  <2>3. q = [l EXCEPT !.slave.INT = FALSE]
    BY <1>2 DEF ServiceSlave, Signals, Deasserts
  <2> HIDE DEF l, q
  <2>4. q.slave = [p.slave EXCEPT !.INT = FALSE] /\ q.master = l.master
    BY <2>2, <2>3 DEF Pairs
  <2>5. Inherits(p.slave, q.slave)
    BY <1>0, <2>4 DEF Chip, Inherits
  <2>6. Inherits(p.master, q.master)
    BY <1>0, <2>2, <2>4 DEF Chip, Inherits
  <2> QED
    BY <2>5, <2>6, Inherited DEF BothNested, Quieter, Inherits, q
<1>3. CASE ~Signals(p.slave) /\ ~Deasserts(p.slave)
  BY <1>3 DEF ServiceSlave, Quieter
<1> QED
  BY <1>1, <1>2, <1>3

-----------------------------------------------------------------------------
(* A step that keeps both chips nested and lets nothing in below.            *)
NestStep ==
  /\ Nested(master') /\ Nested(slave')
  /\ Outranks(master, master'.isr \ master.isr)
  /\ Outranks(slave, slave'.isr \ slave.isr)

LEMMA QuieterSteps ==
  ASSUME NEW q, Quieter(Pair, q), Become(q)
  PROVE  NestStep
<1>1. Pair.master = master /\ Pair.slave = slave
  BY DEF Pair
<1>2. master' = q.master /\ slave' = q.slave
  BY DEF Become
<1> QED
  BY <1>1, <1>2 DEF Quieter, BothNested, NestStep, Outranks

(* Software's commands put nothing in service, whether they serve or not.    *)
LEMMA CommandNests ==
  ASSUME NEW c \in Chips, Sound(Pair), BothNested(Pair), NEW new \in Chip,
         Nested(new), new.isr \subseteq ThisChip(c).isr, new.INT = ThisChip(c).INT,
         c = "master" => (Cascade \in new.irqIn <=> Cascade \in ThisChip(c).irqIn),
         Become(With(c, new)) \/ Become(Service(With(c, new), c))
  PROVE  NestStep
<1> DEFINE r == With(c, new)
<1>1. /\ r \in Pairs /\ r.intr = intr
      /\ r.master = (IF c = "master" THEN new ELSE master)
      /\ r.slave = (IF c = "master" THEN slave ELSE new)
  BY WithChip DEF Sound
<1>2. Pair.master = master /\ Pair.slave = slave /\ Pair.intr = intr
  BY DEF Pair
<1> HIDE DEF r
<1>3. Quieter(Pair, r)
  BY <1>1, <1>2 DEF Quieter, BothNested, ThisChip
<1>4. Wired(r)
  BY <1>1, <1>2 DEF Sound, Wired, ThisChip
<1>5. CASE Become(r)
  BY <1>3, <1>5, QuieterSteps
<1>6. CASE Become(Service(r, c))
  <2>1. Quieter(r, Service(r, c))
    BY <1>1, <1>3, <1>4, ServiceMasterNests, ServiceSlaveNests DEF Service, Quieter
  <2>2. Quieter(Pair, Service(r, c))
    BY <1>3, <2>1 DEF Quieter
  <2> QED
    BY <1>6, <2>2, QuieterSteps
<1> QED
  BY <1>5, <1>6 DEF r

LEMMA CommandInherits ==
  ASSUME NEW c \in Chips, Sound(Pair), BothNested(Pair), NEW new \in Chip,
         Inherits(ThisChip(c), new), new.INT = ThisChip(c).INT,
         c = "master" => (Cascade \in new.irqIn <=> Cascade \in ThisChip(c).irqIn),
         Become(With(c, new)) \/ Become(Service(With(c, new), c))
  PROVE  NestStep
<1>1. Nested(ThisChip(c))
  BY DEF BothNested, Pair, ThisChip
<1>2. Nested(new) /\ new.isr \subseteq ThisChip(c).isr
  BY <1>1, Inherited DEF Inherits
<1> QED
  BY <1>2, CommandNests

LEMMA DeviceNests ==
  ASSUME Sound(Pair), BothNested(Pair), Device
  PROVE  NestStep
<1>1. PICK c \in Chips, line \in Lines : RaiseIrq(c, line) \/ LowerIrq(c, line)
  BY DEF Device
<1>2. ThisChip(c) \in Chip
  BY ChipFacts
<1>3. c = "master" => line # Cascade
  BY <1>1 DEF RaiseIrq, LowerIrq, DeviceLine
<1>4. CASE RaiseIrq(c, line)
  <2> DEFINE new == Raised(ThisChip(c), line)
  <2>1. /\ new \in Chip /\ new.INT = ThisChip(c).INT
        /\ new.irqIn = ThisChip(c).irqIn \cup {line} /\ Inherits(ThisChip(c), new)
    BY <1>2, RaisedEffect
  <2>2. Become(Service(With(c, new), c))
    BY <1>4 DEF RaiseIrq, Raised
  <2> HIDE DEF new
  <2> QED
    BY <1>3, <2>1, <2>2, CommandInherits
<1>5. CASE LowerIrq(c, line)
  <2> DEFINE new == [ThisChip(c) EXCEPT !.irqIn = @ \ {line}, !.irr = @ \ {line}]
  <2>1. /\ new \in Chip /\ new.INT = ThisChip(c).INT
        /\ new.irqIn = ThisChip(c).irqIn \ {line}
    BY <1>2 DEF Chip
  <2>2. Inherits(ThisChip(c), new)
    BY <1>2 DEF Chip, Inherits
  <2>3. Become(With(c, new))
    BY <1>5 DEF LowerIrq
  <2> HIDE DEF new
  <2> QED
    BY <1>3, <2>1, <2>2, <2>3, CommandInherits
<1> QED
  BY <1>1, <1>4, <1>5

(* The commands, all but ICW1: what they make of the chip they are given to. *)
LEMMA EndsNest ==
  ASSUME NEW c \in Chips, Sound(Pair), BothNested(Pair), FixedPriorities,
         NEW rotating \in BOOLEAN,
         \/ Eoi(c, rotating) \/ PolledRead(c)
         \/ \E line \in Lines : SpecificEoi(c, line, rotating)
  PROVE  NestStep
<1>0. ThisChip(c) \in Chip
  BY ChipFacts
<1> DEFINE Less(new) == /\ new \in Chip /\ Inherits(ThisChip(c), new)
                        /\ new.INT = ThisChip(c).INT /\ new.irqIn = ThisChip(c).irqIn
<1>1. ASSUME NEW new, Less(new), Become(Service(With(c, new), c))
      PROVE  NestStep
  BY <1>1, CommandInherits
<1> DEFINE ended == ClearHighest(ThisChip(c))
<1>2. Less(ended)
  <2>1. Inherits(ThisChip(c), ended)
    BY <1>0 DEF ClearHighest, Inherits, Chip
  <2> QED
    BY <1>0, <2>1, ClearHighestEffect
<1> HIDE DEF ended
<1>3. CASE Eoi(c, rotating)
  <2>1. ~rotating
    BY <1>3 DEF Eoi, FixedPriorities
  <2>2. Become(Service(With(c, ended), c))
    BY <1>3, <2>1 DEF Eoi, AfterEoi, ended
  <2> QED
    BY <1>1, <1>2, <2>2
<1>4. CASE PolledRead(c)
  <2> DEFINE new == [ended EXCEPT !.polled = FALSE]
  <2>1. Become(Service(With(c, new), c))
    BY <1>4 DEF PolledRead, AfterPoll, ended
  <2>2. Inherits(ended, new)
    BY <1>2 DEF Chip, Inherits
  <2>3. new \in Chip /\ new.INT = ended.INT /\ new.irqIn = ended.irqIn
    BY <1>2 DEF Chip
  <2> HIDE DEF new
  <2>4. Less(new)
    BY <1>2, <2>2, <2>3 DEF Inherits
  <2> QED
    BY <1>1, <2>1, <2>4
<1>5. ASSUME NEW line \in Lines, SpecificEoi(c, line, rotating)
      PROVE  NestStep
  <2> DEFINE new == [ThisChip(c) EXCEPT !.isr = @ \ {line}]
  <2>1. ~rotating
    BY <1>5 DEF SpecificEoi, FixedPriorities
  <2>2. Become(Service(With(c, new), c))
    BY <1>5, <2>1 DEF SpecificEoi, AfterEoi
  <2>3. Inherits(ThisChip(c), new)
    BY <1>0 DEF Chip, Inherits
  <2>4. new \in Chip /\ new.INT = ThisChip(c).INT /\ new.irqIn = ThisChip(c).irqIn
    BY <1>0 DEF Chip
  <2> HIDE DEF new
  <2> QED
    BY <1>1, <2>2, <2>3, <2>4
<1> QED
  BY <1>3, <1>4, <1>5

LEMMA SettingsNest ==
  ASSUME NEW c \in Chips, Sound(Pair), BothNested(Pair),
         \/ Icw2(c) \/ Icw3(c) \/ \E auto \in BOOLEAN : Icw4(c, auto)
         \/ Poll(c) \/ \E lines \in SUBSET Lines : SetMode(c, lines) \/ Ocw1(c, lines)
  PROVE  NestStep
<1> DEFINE chip == ThisChip(c)
           Same(new) == /\ new \in Chip /\ Inherits(chip, new)
                        /\ new.INT = chip.INT /\ new.irqIn = chip.irqIn
<1>0. chip \in Chip
  BY ChipFacts
<1>1. ASSUME NEW new, Same(new), Become(With(c, new)) \/ Become(Service(With(c, new), c))
      PROVE  NestStep
  BY <1>1, CommandInherits
<1> HIDE DEF chip
<1>2. ASSUME NEW word \in {0, 2, 3, 4}
      PROVE  Same([chip EXCEPT !.expected = word])
  BY <1>0, <1>2 DEF Chip, Inherits
<1>3. CASE Icw2(c) \/ Icw3(c)
  <2>1. \E word \in {0, 2, 3, 4} : Become(With(c, [chip EXCEPT !.expected = word]))
    <3>1. CASE Icw2(c)
      BY <3>1 DEF Icw2, chip
    <3>2. CASE Icw3(c)
      BY <3>2 DEF Icw3, chip
    <3> QED
      BY <1>3, <3>1, <3>2
  <2> QED
    BY <1>1, <1>2, <2>1
<1>4. ASSUME NEW auto \in BOOLEAN, Icw4(c, auto)
      PROVE  NestStep
  <2> DEFINE new == [chip EXCEPT !.expected = 0, !.autoEoi = auto]
  <2>1. Same(new)
    BY <1>0 DEF Chip, Inherits
  <2>2. Become(With(c, new))
    BY <1>4 DEF Icw4, chip
  <2> HIDE DEF new
  <2> QED
    BY <1>1, <2>1, <2>2
<1>5. CASE Poll(c)
  <2> DEFINE new == [chip EXCEPT !.polled = TRUE]
  <2>1. Same(new)
    BY <1>0 DEF Chip, Inherits
  <2>2. Become(With(c, new))
    BY <1>5 DEF Poll, chip
  <2> HIDE DEF new
  <2> QED
    BY <1>1, <2>1, <2>2
<1>6. ASSUME NEW lines \in SUBSET Lines, SetMode(c, lines)
      PROVE  NestStep
  <2> DEFINE new == [chip EXCEPT !.level = lines]
  <2>1. Same(new)
    BY <1>0 DEF Chip, Inherits
  <2>2. Become(With(c, new))
    BY <1>6 DEF SetMode, chip
  <2> HIDE DEF new
  <2> QED
    BY <1>1, <2>1, <2>2
<1>7. ASSUME NEW lines \in SUBSET Lines, Ocw1(c, lines)
      PROVE  NestStep
  <2> DEFINE new == [chip EXCEPT !.imr = lines]
  <2>1. Same(new)
    BY <1>0 DEF Chip, Inherits
  <2>2. Become(Service(With(c, new), c))
    BY <1>7 DEF Ocw1, AfterMask, chip
  <2> HIDE DEF new
  <2> QED
    BY <1>1, <2>1, <2>2
<1> QED
  BY <1>3, <1>4, <1>5, <1>6, <1>7

(* ICW1 empties the in-service register and makes the first line highest.    *)
LEMMA Icw1Nests ==
  ASSUME NEW c \in Chips, NEW needs4 \in BOOLEAN, Sound(Pair), BothNested(Pair),
         Icw1(c, needs4)
  PROVE  NestStep
<1> DEFINE new == [ThisChip(c) EXCEPT !.expected = 2, !.needs4 = needs4,
                    !.imr = {}, !.isr = {}, !.irr = {}, !.lowest = N - 1,
                    !.autoEoi = FALSE, !.rotate = FALSE, !.INT = FALSE]
           p == With(c, new)
           q == IF c = "master" THEN [p EXCEPT !.intr = FALSE]
                ELSE [p EXCEPT !.master.irqIn = CascadeAfterIcw1(@)]
<1>0. Become(q)
  BY DEF Icw1
<1>1. ThisChip(c) \in Chip /\ Nested(ThisChip(c))
  BY ChipFacts DEF BothNested, Pair, ThisChip
<1>2. new \in Chip
  <2>1. N - 1 \in Lines
    BY PicAssumption DEF Lines
  <2> QED
    BY <1>1, <2>1 DEF Chip
<1>3. /\ new.isr = {} /\ new.lowest = N - 1 /\ ~new.rotate
      /\ new.special = ThisChip(c).special
  BY <1>1 DEF Chip
<1> HIDE DEF new
<1>4. Nested(new)
  BY <1>1, <1>3 DEF Nested
<1>5. /\ p \in Pairs /\ p.master = (IF c = "master" THEN new ELSE master)
      /\ p.slave = (IF c = "master" THEN slave ELSE new)
  BY <1>2, WithChip DEF Sound
<1>6. /\ Pair.master = master /\ Pair.slave = slave
      /\ master \in Chip /\ slave \in Chip
  BY DEF Sound, Pair, Pairs
<1> HIDE DEF p
<1>7. CASE c = "master"
  <2>1. q.master = new /\ q.slave = slave
    BY <1>5, <1>7 DEF Pairs
  <2> HIDE DEF q
  <2> QED
    BY <1>0, <1>3, <1>4, <1>6, <2>1, QuieterSteps DEF Quieter, BothNested
<1>8. CASE c # "master"
  <2>1. q = [p EXCEPT !.master.irqIn = CascadeAfterIcw1(@)]
    BY <1>8
  <2>2. q.master = [master EXCEPT !.irqIn = @ \ {Cascade}] /\ q.slave = new
    BY <1>5, <1>8, <2>1 DEF Pairs, CascadeAfterIcw1
  <2> HIDE DEF q
  <2>3. Inherits(master, q.master)
    BY <1>6, <2>2 DEF Chip, Inherits
  <2>4. Nested(q.master) /\ q.master.isr \subseteq master.isr
    BY <1>6, <2>3, Inherited DEF BothNested, Inherits
  <2> QED
    BY <1>0, <1>3, <1>4, <1>6, <2>2, <2>4, QuieterSteps DEF Quieter, BothNested
<1> QED
  BY <1>7, <1>8

-----------------------------------------------------------------------------
(* The acknowledge: nothing but the latched line enters service, and it is   *)
(* above all that is there.                                                  *)
LEMMA LatchedOutranks ==
  ASSUME NEW chip \in Chip, Nested(chip), NEW lines, lines \subseteq chip.isr \cup {chip.irq}
  PROVE  Outranks(chip, lines \ chip.isr)
<1>1. chip.irq \in Lines /\ chip.isr \subseteq Lines
  BY DEF Chip
<1>2. ASSUME NEW j \in chip.isr, chip.irq \notin chip.isr
      PROVE  Rank(chip, chip.irq) < Rank(chip, j)
  <2>1. Rank(chip, chip.irq) = chip.irq /\ Rank(chip, j) = j
    BY <1>1, RankIsLine DEF Nested
  <2>2. Rank(chip, chip.irq) <= Rank(chip, j)
    BY DEF Nested
  <2>3. chip.irq # j /\ chip.irq \in Int /\ j \in Int
    BY <1>1, <1>2, PicAssumption DEF Lines
  <2> QED
    BY <2>1, <2>2, <2>3
<1> QED
  BY <1>2 DEF Outranks

LEMMA AcknowledgedNests ==
  ASSUME NEW chip \in Chip, Nested(chip)
  PROVE  /\ Nested(Acknowledged(chip))
         /\ Acknowledged(chip).isr \subseteq chip.isr \cup {chip.irq}
<1> DEFINE new == Acknowledged(chip)
<1>1. new.isr \subseteq chip.isr \cup {chip.irq}
  BY DEF Acknowledged, Chip
<1>2. /\ new.lowest = chip.lowest /\ new.irq = chip.irq
      /\ new.special = chip.special /\ new.rotate = chip.rotate
  BY DEF Acknowledged, Chip, Nested
<1>3. Rank(chip, chip.irq) \in Nat
  BY RankIsNat DEF Chip
<1> HIDE DEF new
<1>4. Nested(new)
  BY <1>1, <1>2, <1>3 DEF Nested, Rank
<1> QED
  BY <1>1, <1>4 DEF new

LEMMA IacNests ==
  ASSUME Sound(Pair), BothNested(Pair), IAC
  PROVE  NestStep
<1> DEFINE quiet == [Pair EXCEPT !.master.INT = FALSE, !.intr = FALSE]
           taken == [quiet EXCEPT !.master = Acknowledged(@)]
           heard == SlaveSilent(taken)
           both  == [heard EXCEPT !.slave = Acknowledged(@)]
           after == ServiceSlave(both)
<1>0. Pair.master = master /\ Pair.slave = slave /\ Pair.intr = intr
      /\ master \in Chip /\ slave \in Chip /\ Pair \in Pairs
      /\ Nested(master) /\ Nested(slave)
  BY DEF Sound, Pair, Pairs, BothNested
<1>1. Become(CASE Spurious(master)                             -> quiet
               [] ~Spurious(master) /\ master.irq # Cascade    -> ServiceMaster(taken)
               [] ~Spurious(master) /\ master.irq = Cascade /\ Spurious(slave) -> heard
               [] OTHER -> ServiceMaster(after))
  BY DEF IAC
<1>2. /\ quiet \in Pairs /\ quiet.master = [master EXCEPT !.INT = FALSE]
      /\ quiet.slave = slave /\ quiet.intr = FALSE
  BY <1>0, MasterQuiet
<1> HIDE DEF quiet
<1>3. quiet.master \in Chip /\ Inherits(master, quiet.master)
      /\ quiet.master.isr = master.isr /\ quiet.master.irq = master.irq
      /\ quiet.master.INT = FALSE
  BY <1>0, <1>2 DEF Chip, Inherits
<1>4. Nested(quiet.master)
  BY <1>0, <1>3, Inherited
<1>5. /\ Acknowledged(quiet.master) \in Chip
      /\ Acknowledged(quiet.master).INT = quiet.master.INT
      /\ Nested(Acknowledged(quiet.master))
      /\ Acknowledged(quiet.master).isr \subseteq master.isr \cup {master.irq}
      /\ taken = [quiet EXCEPT !.master = Acknowledged(quiet.master)]
  BY <1>3, <1>4, AcknowledgedEffect, AcknowledgedNests
<1> HIDE DEF taken
<1>6. /\ taken \in Pairs /\ taken.master = Acknowledged(quiet.master)
      /\ taken.slave = slave /\ taken.intr = FALSE
  BY <1>2, <1>5, MasterSet
<1>7. /\ heard \in Pairs /\ heard.intr = taken.intr
      /\ heard.slave = [slave EXCEPT !.INT = FALSE]
      /\ heard.master = [taken.master EXCEPT !.irqIn = @ \ {Cascade}]
  BY <1>6, SlaveQuiet
<1> HIDE DEF heard
<1>8. /\ heard.slave \in Chip /\ Inherits(slave, heard.slave)
      /\ heard.slave.isr = slave.isr /\ heard.slave.irq = slave.irq
      /\ heard.slave.INT = FALSE
  BY <1>0, <1>7 DEF Chip, Inherits
<1>9. /\ Inherits(taken.master, heard.master) /\ Cascade \notin heard.master.irqIn
      /\ heard.master.INT = taken.master.INT
  BY <1>5, <1>6, <1>7 DEF Chip, Inherits
<1>10. Nested(heard.slave) /\ Nested(heard.master) /\ BothNested(taken)
  BY <1>0, <1>5, <1>6, <1>8, <1>9, Inherited DEF BothNested
<1>11. /\ Acknowledged(heard.slave) \in Chip
       /\ Acknowledged(heard.slave).INT = FALSE
       /\ Nested(Acknowledged(heard.slave))
       /\ Acknowledged(heard.slave).isr \subseteq slave.isr \cup {slave.irq}
       /\ both = [heard EXCEPT !.slave = Acknowledged(heard.slave)]
  BY <1>8, <1>10, AcknowledgedEffect, AcknowledgedNests
<1> HIDE DEF both
<1>12. /\ both \in Pairs /\ both.slave = Acknowledged(heard.slave)
       /\ both.master = heard.master /\ both.intr = heard.intr
  BY <1>7, <1>11, SlaveSet
<1>13. ASSUME NEW q, Become(q), BothNested(q),
              q.master.isr \subseteq master.isr \cup {master.irq},
              q.slave.isr \subseteq slave.isr \cup {slave.irq}
       PROVE  NestStep
  BY <1>0, <1>13, LatchedOutranks DEF Become, BothNested, NestStep
<1>14. CASE Spurious(master)
  <2>1. Become(quiet)
    BY <1>1, <1>14
  <2> QED
    BY <1>0, <1>2, <1>3, <1>4, <1>13, <2>1 DEF BothNested
<1>15. CASE ~Spurious(master) /\ master.irq # Cascade
  <2>1. Become(ServiceMaster(taken))
    BY <1>1, <1>15
  <2>2. Quieter(taken, ServiceMaster(taken))
    BY <1>6, <1>10, ServiceMasterNests
  <2> QED
    BY <1>5, <1>6, <1>13, <2>1, <2>2 DEF Quieter
<1>16. CASE ~Spurious(master) /\ master.irq = Cascade /\ Spurious(slave)
  <2>1. Become(heard)
    BY <1>1, <1>16
  <2> QED
    BY <1>5, <1>6, <1>8, <1>9, <1>10, <1>13, <2>1 DEF BothNested, Inherits
<1>17. CASE ~Spurious(master) /\ master.irq = Cascade /\ ~Spurious(slave)
  <2>1. Become(ServiceMaster(after))
    BY <1>1, <1>17
  <2>2. BothNested(both)
    BY <1>10, <1>11, <1>12 DEF BothNested
  <2>3. both.intr = both.master.INT /\ both.slave.INT = FALSE
        /\ Cascade \notin both.master.irqIn
    BY <1>3, <1>5, <1>6, <1>7, <1>9, <1>11, <1>12
  <2>4. Wired(both)
    BY <2>3 DEF Wired
  <2>5. Quieter(both, after) /\ after \in Pairs
    BY <1>12, <2>2, <2>4, ServiceSlaveNests, ServiceSlaveEffect
  <2> HIDE DEF after
  <2>6. Quieter(after, ServiceMaster(after))
    BY <2>5, ServiceMasterNests DEF Quieter
  <2>7. /\ both.master.isr \subseteq master.isr \cup {master.irq}
        /\ both.slave.isr \subseteq slave.isr \cup {slave.irq}
    BY <1>5, <1>6, <1>9, <1>11, <1>12 DEF Inherits
  <2> QED
    BY <1>13, <2>1, <2>5, <2>6, <2>7 DEF Quieter
<1> QED
  BY <1>14, <1>15, <1>16, <1>17

-----------------------------------------------------------------------------
LEMMA InitNested == Init => BothNested(Pair)
<1> SUFFICES ASSUME Init PROVE Nested(PowerOn)
  BY DEF Init, Pair, BothNested
<1> QED
  BY DEF PowerOn, Nested

LEMMA NextNests ==
  ASSUME FixedPriorities, Sound(Pair), BothNested(Pair), Next
  PROVE  NestStep
<1>1. CASE Device
  BY <1>1, DeviceNests
<1>2. CASE Software
  <2>1. PICK c \in Chips :
          \/ \E needs4 \in BOOLEAN : Icw1(c, needs4)
          \/ Icw2(c) \/ Icw3(c)
          \/ \E on \in BOOLEAN : Icw4(c, on) \/ SpecialMask(c, on) \/ RotateOnAutoEoi(c, on)
          \/ Poll(c) \/ PolledRead(c)
          \/ \E lines \in SUBSET Lines : Ocw1(c, lines) \/ SetMode(c, lines)
          \/ \E rotating \in BOOLEAN :
               Eoi(c, rotating) \/ \E line \in Lines : SpecificEoi(c, line, rotating)
          \/ \E line \in Lines : SetLowest(c, line)
    BY <1>2 DEF Software
  <2>2. ASSUME NEW needs4 \in BOOLEAN, Icw1(c, needs4)
        PROVE  NestStep
    BY <2>2, Icw1Nests
  <2>3. /\ \A on \in BOOLEAN : ~SpecialMask(c, on) /\ ~RotateOnAutoEoi(c, on)
        /\ \A line \in Lines : ~SetLowest(c, line)
    BY DEF FixedPriorities, SpecialMask, RotateOnAutoEoi, SetLowest
  <2>4. CASE \/ Icw2(c) \/ Icw3(c) \/ \E on \in BOOLEAN : Icw4(c, on)
             \/ Poll(c) \/ \E lines \in SUBSET Lines : SetMode(c, lines) \/ Ocw1(c, lines)
    BY <2>4, SettingsNest, Zenon
  <2>5. ASSUME NEW rotating \in BOOLEAN,
               Eoi(c, rotating) \/ \E line \in Lines : SpecificEoi(c, line, rotating)
        PROVE  NestStep
    BY <2>5, EndsNest, Zenon
  <2>6. CASE PolledRead(c)
    BY <2>6, EndsNest, TRUE \in BOOLEAN, Zenon
  <2> QED
    BY <2>1, <2>2, <2>3, <2>4, <2>5, <2>6, Zenon
<1>3. CASE IAC
  BY <1>3, IacNests
<1> QED
  BY <1>1, <1>2, <1>3 DEF Next

(* Where software neither rotates the priorities nor sets the special mask,  *)
(* a line enters service on a chip only above every line in service there,   *)
(* whatever is masked, ended, polled, re-initialized or withdrawn between    *)
(* the rise of INT and its acknowledge (pic.cc 540-589, 592-640).            *)
THEOREM InterruptsNest ==
  ASSUME FixedPriorities
  PROVE  Spec => NestsByPriority
<1>1. Init => BothNested(Pair)
  BY InitNested
<1>2. IInv /\ BothNested(Pair) /\ [Next]_vars => BothNested(Pair)'
  <2> SUFFICES ASSUME IInv, BothNested(Pair), [Next]_vars PROVE BothNested(Pair')
    OBVIOUS
  <2>1. CASE Next
    <3>1. NestStep
      BY <2>1, NextNests DEF IInv
    <3>2. Pair'.master = master' /\ Pair'.slave = slave'
      BY DEF Pair
    <3> QED
      BY <3>1, <3>2 DEF NestStep, BothNested
  <2>2. CASE UNCHANGED vars
    <3>1. Pair' = Pair
      BY <2>2 DEF vars, Pair
    <3> QED
      BY <3>1
  <2> QED
    BY <2>1, <2>2
<1>3. ASSUME IInv, BothNested(Pair), [Next]_vars
      PROVE  [/\ Outranks(master, master'.isr \ master.isr)
              /\ Outranks(slave, slave'.isr \ slave.isr)]_vars
  BY <1>3, NextNests DEF IInv, NestStep
<1> QED
  BY <1>1, <1>2, <1>3, Invariance, PTL DEF Spec, NestsByPriority
=============================================================================
