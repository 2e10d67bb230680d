------------------------------ MODULE Pic8259 ------------------------------
(***************************************************************************)
(* iodev/pic.cc of Bochs: the two cascaded 8259A interrupt controllers.     *)
(*                                                                         *)
(* A chip is a record; the bit registers irr, imr, isr, IRQ_in and          *)
(* edge_level are sets of lines.  Every handler of the source is one atomic *)
(* operation on both chips, since pic_service of the slave calls raise_irq  *)
(* and lower_irq of the master, so the handlers are operators from a pair   *)
(* of chips (with the CPU's INTR pin) to another, in the source's order.    *)
(* interrupt_offset and read_reg_select, which only choose the number       *)
(* handed to the CPU or read by it, are left out.  A definition whose name  *)
(* ends in _off is the mutated form of the next one.                        *)
(***************************************************************************)
EXTENDS Integers, FiniteSets

CONSTANTS
  N,          \* lines of one chip (8)
  Cascade,    \* the master's line the slave is wired to (2)
  Features,   \* the optional commands software uses
  MaxRaises   \* bound on the edges the devices produce

AllFeatures == {"rotate", "special", "poll", "autoeoi", "reinit", "level"}

ASSUME PicAssumption ==
  /\ N \in Nat \ {0, 1} /\ Cascade \in 0..(N - 1)
  /\ Features \subseteq AllFeatures /\ MaxRaises \in Nat

VARIABLES master, slave, intr, raises

vars == <<master, slave, intr, raises>>

Lines == 0..(N - 1)
Chips == {"master", "slave"}

Chip ==
  [irr : SUBSET Lines, imr : SUBSET Lines, isr : SUBSET Lines, irqIn : SUBSET Lines,
   INT : BOOLEAN, irq : Lines, lowest : Lines, level : SUBSET Lines,
   special : BOOLEAN, polled : BOOLEAN, autoEoi : BOOLEAN, rotate : BOOLEAN,
   expected : {0, 2, 3, 4}, needs4 : BOOLEAN]

PowerOn ==
  [irr |-> {}, imr |-> Lines, isr |-> {}, irqIn |-> {},
   INT |-> FALSE, irq |-> 0, lowest |-> N - 1, level |-> {},
   special |-> FALSE, polled |-> FALSE, autoEoi |-> FALSE, rotate |-> FALSE,
   expected |-> 0, needs4 |-> FALSE]

Init ==
  /\ master = PowerOn /\ slave = PowerOn
  /\ intr = FALSE
  /\ raises = 0

-----------------------------------------------------------------------------
(* pic_service.  Lines are tried from lowest_priority + 1 on, upwards and   *)
(* around: the distance from there is a line's rank.                        *)
Rank(chip, line) == (line - chip.lowest - 1) % N

Best(chip, lines) ==
  CHOOSE i \in lines : \A j \in lines : Rank(chip, i) <= Rank(chip, j)

Unmasked(chip) == chip.irr \ chip.imr

Highest(chip) == (chip.lowest + 1) % N

(* Without the special mask a highest line in service ends the search.      *)
Blocked(chip) == ~chip.special /\ Highest(chip) \in chip.isr

Eligible_off(chip) == Unmasked(chip) \ chip.isr

Eligible(chip) ==
  {i \in Unmasked(chip) :
     IF chip.special THEN i \notin chip.isr
     ELSE \A j \in chip.isr : Rank(chip, i) < Rank(chip, j)}

Signals(chip)   == ~Blocked(chip) /\ ~chip.INT /\ Eligible(chip) # {}
Deasserts(chip) == ~Blocked(chip) /\ chip.INT /\ Unmasked(chip) = {}

Latch(chip) == [chip EXCEPT !.INT = TRUE, !.irq = Best(chip, Eligible(chip))]

(* p is the pair of chips with the INTR pin.                                *)
ServiceMaster(p) ==
  CASE Signals(p.master)   -> [p EXCEPT !.master = Latch(@), !.intr = TRUE]
    [] Deasserts(p.master) -> [p EXCEPT !.master.INT = FALSE, !.intr = FALSE]
    [] OTHER               -> p

RaiseMaster(p, line) ==
  IF line \in p.master.irqIn THEN p
  ELSE ServiceMaster([p EXCEPT !.master.irqIn = @ \cup {line},
                               !.master.irr   = @ \cup {line}])

LowerMaster_off(p, line) == [p EXCEPT !.master.irr = @ \ {line}]

LowerMaster(p, line) ==
  IF line \notin p.master.irqIn THEN p
  ELSE [p EXCEPT !.master.irqIn = @ \ {line}, !.master.irr = @ \ {line}]

ServiceSlave(p) ==
  CASE Signals(p.slave)   -> RaiseMaster([p EXCEPT !.slave = Latch(@)], Cascade)
    [] Deasserts(p.slave) -> [LowerMaster(p, Cascade) EXCEPT !.slave.INT = FALSE]
    [] OTHER              -> p

Service(p, c) == IF c = "master" THEN ServiceMaster(p) ELSE ServiceSlave(p)

Pair == [master |-> master, slave |-> slave, intr |-> intr]

Become(p) ==
  master' = p.master /\ slave' = p.slave /\ intr' = p.intr

ThisChip(c) == IF c = "master" THEN master ELSE slave

(* Write a chip back, and serve it.                                         *)
With(c, chip) == IF c = "master" THEN [Pair EXCEPT !.master = chip]
                                 ELSE [Pair EXCEPT !.slave = chip]

Quiet == UNCHANGED raises

-----------------------------------------------------------------------------
(* The devices: raise_irq and lower_irq, called for any line but the        *)
(* cascade's.                                                               *)
DeviceLine(c, line) == line \in Lines /\ ~(c = "master" /\ line = Cascade)

RaiseIrq(c, line) ==
  /\ DeviceLine(c, line) /\ line \notin ThisChip(c).irqIn
  /\ raises < MaxRaises /\ raises' = raises + 1
  /\ Become(Service(With(c, [ThisChip(c) EXCEPT !.irqIn = @ \cup {line},
                                                !.irr   = @ \cup {line}]), c))

LowerIrq(c, line) ==
  /\ DeviceLine(c, line) /\ line \in ThisChip(c).irqIn
  /\ Become(With(c, [ThisChip(c) EXCEPT !.irqIn = @ \ {line}, !.irr = @ \ {line}]))
  /\ Quiet

(* set_mode: the edge/level register of the chipset, which cannot switch    *)
(* the cascade line (pci2isa.cc 316-331; lines 0 and 1, and 0 and 5 of the  *)
(* slave, which it cannot switch either, are not set apart).                *)
SetMode(c, lines) ==
  /\ "level" \in Features
  /\ \A line \in lines : DeviceLine(c, line)
  /\ Become(With(c, [ThisChip(c) EXCEPT !.level = lines]))
  /\ Quiet

-----------------------------------------------------------------------------
(* The command port.                                                        *)
CascadeAfterIcw1_off(irqIn) == irqIn
CascadeAfterIcw1(irqIn)     == irqIn \ {Cascade}

Icw1(c, needs4) ==
  /\ "reinit" \in Features
  /\ LET chip == [ThisChip(c) EXCEPT !.expected = 2, !.needs4 = needs4,
                    !.imr = {}, !.isr = {}, !.irr = {}, !.lowest = N - 1,
                    !.autoEoi = FALSE, !.rotate = FALSE, !.INT = FALSE]
     IN  Become(IF c = "master"
                THEN [With(c, chip) EXCEPT !.intr = FALSE]
                ELSE [With(c, chip) EXCEPT !.master.irqIn = CascadeAfterIcw1(@)])
  /\ Quiet

(* OCW3: poll, and the special mask.  Only setting the mask serves.         *)
Poll(c) ==
  /\ "poll" \in Features
  /\ Become(With(c, [ThisChip(c) EXCEPT !.polled = TRUE]))
  /\ Quiet

SpecialMask(c, on) ==
  /\ "special" \in Features
  /\ LET p == With(c, [ThisChip(c) EXCEPT !.special = on])
     IN  Become(IF on THEN Service(p, c) ELSE p)
  /\ Quiet

(* clear_highest_interrupt                                                  *)
ClearHighest(chip) ==
  IF chip.isr = {} THEN chip ELSE [chip EXCEPT !.isr = @ \ {Best(chip, chip.isr)}]

NextLowest_off(line) == line + 1
NextLowest(line) == (line + 1) % N

AfterEoi(p, c) == Service(p, c)

(* OCW2 20h and A0h: end of interrupt, which also rotates for A0h.          *)
Eoi(c, rotating) ==
  /\ rotating => "rotate" \in Features
  /\ LET chip == ClearHighest(ThisChip(c))
     IN  Become(AfterEoi(With(c, IF rotating THEN [chip EXCEPT !.lowest = NextLowest(@)]
                                            ELSE chip), c))
  /\ Quiet

(* OCW2 60h-67h and E0h-E7h.                                                *)
SpecificEoi(c, line, rotating) ==
  /\ rotating => "rotate" \in Features
  /\ LET chip == [ThisChip(c) EXCEPT !.isr = @ \ {line}]
     IN  Become(AfterEoi(With(c, IF rotating THEN [chip EXCEPT !.lowest = line] ELSE chip), c))
  /\ Quiet

(* OCW2 C0h-C7h, and 00h and 80h: nothing is served.                        *)
SetLowest(c, line) ==
  /\ "rotate" \in Features
  /\ Become(With(c, [ThisChip(c) EXCEPT !.lowest = line]))
  /\ Quiet

(* OCW2 00h and 80h, given to chips that end their interrupts themselves.    *)
RotateOnAutoEoi(c, on) ==
  /\ "rotate" \in Features /\ ThisChip(c).autoEoi
  /\ Become(With(c, [ThisChip(c) EXCEPT !.rotate = on]))
  /\ Quiet

-----------------------------------------------------------------------------
(* The data port: initialization words while they are expected, then OCW1.  *)
Icw2(c) ==
  /\ ThisChip(c).expected = 2
  /\ Become(With(c, [ThisChip(c) EXCEPT !.expected = 3]))
  /\ Quiet

Icw3(c) ==
  /\ ThisChip(c).expected = 3
  /\ Become(With(c, [ThisChip(c) EXCEPT !.expected = IF ThisChip(c).needs4 THEN 4 ELSE 0]))
  /\ Quiet

Icw4(c, auto) ==
  /\ ThisChip(c).expected = 4
  /\ auto => "autoeoi" \in Features
  /\ Become(With(c, [ThisChip(c) EXCEPT !.expected = 0, !.autoEoi = auto]))
  /\ Quiet

AfterMask_off(p, c) == p
AfterMask(p, c) == Service(p, c)

Ocw1(c, lines) ==
  /\ ThisChip(c).expected = 0
  /\ Become(AfterMask(With(c, [ThisChip(c) EXCEPT !.imr = lines]), c))
  /\ Quiet

(* A read of either port of a chip in polled mode.                          *)
AfterPoll_off(p, c) == p
AfterPoll(p, c) == Service(p, c)

PolledRead(c) ==
  /\ ThisChip(c).polled
  /\ Become(AfterPoll(With(c, [ClearHighest(ThisChip(c)) EXCEPT !.polled = FALSE]), c))
  /\ Quiet

-----------------------------------------------------------------------------
(* IAC: the CPU takes the interrupt.  The line latched when INT rose is put *)
(* in service, whatever has happened to its request since.                  *)
Spurious(chip) == Unmasked(chip) = {}

Acknowledged_off(chip) ==
  [chip EXCEPT !.irr = @ \ {chip.irq}, !.isr = @ \cup {Best(chip, Unmasked(chip))}]

Acknowledged(chip) ==
  [chip EXCEPT
     !.irr    = IF chip.irq \in chip.level THEN @ ELSE @ \ {chip.irq},
     !.isr    = IF chip.autoEoi THEN @ ELSE @ \cup {chip.irq},
     !.lowest = IF chip.autoEoi /\ chip.rotate THEN chip.irq ELSE @]

SlaveSilent(p) == [p EXCEPT !.slave.INT = FALSE, !.master.irqIn = @ \ {Cascade}]

IAC ==
  /\ intr
  /\ LET quiet == [Pair EXCEPT !.master.INT = FALSE, !.intr = FALSE]
         taken == [quiet EXCEPT !.master = Acknowledged(@)]
         heard == SlaveSilent(taken)
     IN  Become(
           CASE Spurious(master)                             -> quiet
             [] ~Spurious(master) /\ master.irq # Cascade    -> ServiceMaster(taken)
             [] ~Spurious(master) /\ master.irq = Cascade /\ Spurious(slave) -> heard
             [] OTHER -> ServiceMaster(ServiceSlave([heard EXCEPT !.slave = Acknowledged(@)])))
  /\ Quiet

-----------------------------------------------------------------------------
Device ==
  \E c \in Chips, line \in Lines : RaiseIrq(c, line) \/ LowerIrq(c, line)

Software ==
  \E c \in Chips :
    \/ \E needs4 \in BOOLEAN : Icw1(c, needs4)
    \/ Icw2(c) \/ Icw3(c)
    \/ \E on \in BOOLEAN : Icw4(c, on) \/ SpecialMask(c, on) \/ RotateOnAutoEoi(c, on)
    \/ Poll(c) \/ PolledRead(c)
    \/ \E lines \in SUBSET Lines : Ocw1(c, lines) \/ SetMode(c, lines)
    \/ \E rotating \in BOOLEAN :
         Eoi(c, rotating) \/ \E line \in Lines : SpecificEoi(c, line, rotating)
    \/ \E line \in Lines : SetLowest(c, line)

Next == Device \/ Software \/ IAC

(* The CPU takes pending interrupts, and every handler ends with its EOI.   *)
Fairness ==
  /\ WF_vars(IAC)
  /\ \A c \in Chips : WF_vars(ThisChip(c).isr # {} /\ Eoi(c, FALSE))

Spec == Init /\ [][Next]_vars /\ Fairness

-----------------------------------------------------------------------------
(* Properties.                                                              *)

TypeOK ==
  /\ master \in Chip /\ slave \in Chip
  /\ intr \in BOOLEAN /\ raises \in 0..MaxRaises

(* The wires between the chips and to the CPU carry what the INT latches    *)
(* say, after every command, acknowledge, mask or re-initialization: a      *)
(* slave INT that is not on the master's line is never repeated, since      *)
(* pic_service (pic.cc 564) signals only when INT is clear.                 *)
WiresAgree ==
  /\ intr = master.INT
  /\ slave.INT <=> Cascade \in master.irqIn

(* While the slave waits for an acknowledge, its request stands in the      *)
(* master's irr: nothing but IAC for the cascade line, or the slave itself, *)
(* takes it away (pic.cc 447-491, 576-587, 602-618).                        *)
SlaveIsHeard == slave.INT => Cascade \in master.irr

(* A request that may be served is signalled, or an end of interrupt is     *)
(* still due, and pic_service runs again with it.  A master that ends its   *)
(* interrupts by itself is excepted: when the slave has withdrawn, IAC      *)
(* returns before pic_service (pic.cc 616-617) and no end is due.           *)
NothingForgotten ==
  /\ Eligible(master) # {} => master.INT \/ master.isr # {} \/ master.autoEoi
  /\ Eligible(slave) # {}  => slave.INT \/ slave.isr # {}

(* With fixed priorities a line enters service only above everything in     *)
(* service on its chip (pic.cc 540-560): interrupts nest by priority.       *)
Outranks(chip, new) == \A i \in new, j \in chip.isr : Rank(chip, i) < Rank(chip, j)

NestsByPriority ==
  [][/\ Outranks(master, master'.isr \ master.isr)
     /\ Outranks(slave, slave'.isr \ slave.isr)]_vars

(* A request is not lost: a bit of irr goes only when its line goes low or  *)
(* enters service (pic.cc 454-466, 603-618), whatever was latched, masked   *)
(* or signalled in between, and whatever happens to the other chip.  Not so *)
(* for a chip that begins anew, whose ICW1 clears irr (280), or that ends   *)
(* its interrupts by itself and puts none in service (607-608).             *)
Lost(old, new) == {i \in old.irr \ new.irr : i \in new.irqIn /\ i \notin new.isr}

RequestsAreKept ==
  [][/\ master'.expected # 2 /\ ~master.autoEoi => Lost(master, master') = {}
     /\ slave'.expected # 2 /\ ~slave.autoEoi => Lost(slave, slave') = {}]_vars

(* No request stays up and unmasked for ever, once software leaves the      *)
(* masks alone: each change of the slave's mask pulses the cascade line,    *)
(* which may overtake the lines below it again and again.                   *)
MasksSettle == <>[][UNCHANGED <<master.imr, slave.imr>>]_vars

Waits(chip, line) == line \in chip.irr \ chip.imr

RequestsAreTaken ==
  MasksSettle =>
    \A line \in Lines :
      /\ []<>~Waits(master, line)
      /\ []<>(~Waits(slave, line) \/ Cascade \in master.imr)
=============================================================================
