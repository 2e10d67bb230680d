------------------------- MODULE DisketteBios_proofs -------------------------
(***************************************************************************)
(* INT 13h with any number of drives, any geometry, any motor count and any *)
(* requests: the BIOS gives the controller no command that it does not      *)
(* take, halts only for a sector no track has, leaves nothing moving, and   *)
(* returns success only when all the sectors asked for have moved; and all  *)
(* registers keep their ranges.                                             *)
(***************************************************************************)
EXTENDS DisketteBios, FloppyCtrl_proofs, SequenceTheorems

(* The states of the controller the BIOS knows.  A timer may run in any:     *)
(* that of a reset that has ended early is left to itself.                  *)
AtRest(f) ==
  /\ f.pending = Idle /\ f.complete /\ f.msr = {"RQM"} /\ f.result = <<>>
  /\ ~f.drq /\ f.index = 0

Resting(f) == AtRest(f) /\ f.normal

Stopped(f) == f.pending = "reset" /\ ~f.normal /\ ~f.drq

HeldInReset(f) == Stopped(f) /\ f.complete /\ ~f.timer /\ ~f.irq /\ f.index = 0

Restarting(f) == f.pending = "reset" /\ f.normal /\ f.timer /\ ~f.drq

Recalibrating(f) ==
  /\ f.pending = "recal" /\ f.normal /\ f.complete /\ f.timer /\ ~f.drq /\ ~f.irq
  /\ f.result = <<>> /\ f.index = 0

(* A transfer for the request r, from its command until its result is read. *)
Transferring(f, r) ==
  /\ f.pending = r.fn /\ r.fn \in Transfers /\ f.normal /\ f.complete
  /\ f.irq <=> f.result # <<>>

(* What a transfer waits for, the timer or the DMA channel, has units left  *)
(* to move, or it is the end of a write.                                    *)
Owed(f, d) ==
  /\ f.drq => d.left > 0
  /\ f.timer => d.left > 0 \/ (f.pending = "write" /\ f.tc)
  /\ f.drq /\ f.timer => f.pending = "write" /\ f.index = 0

(* An interrupt is latched, is being sensed, or has been told the program.  *)
Announced == request /\ isr = "none" /\ ~bda.intr
Sensing   == ~request /\ isr = "sense" /\ ~bda.intr
Flagged   == ~request /\ isr = "none" /\ bda.intr

Looking == {"look40", "look3e", "reset"}
Closed == {"prepare", "program", "ready", "released", "command", "results", "halted"}
Places == Waiting \cup Closed \cup {"caller"}

Data ==
  /\ fdc.index \in 0..BytesPerSec
  /\ DOMAIN dma = {"dir", "left"} /\ dma.left \in Nat

(* An interrupt the program does not know of is latched or in service, and  *)
(* is not left from before a reset, but while the reset is being written.   *)
Wires ==
  /\ isr \in {"none", "sense"}
  /\ request => fdc.irq /\ (fdc.pending = "reset" => pc = "release")
  /\ isr = "sense" => /\ AtRest(fdc) \/ (pc = "release" /\ fdc.pending = "reset")
                      /\ request => pc = "release"
  /\ AtRest(fdc) /\ fdc.irq => request \/ isr = "sense"
  /\ granted => request /\ pc \in Looking

Served ==
  /\ pc # "caller" => call \in Requests /\ call.n > 0 /\ call.drive \in Drives
  /\ pc # "caller" /\ call.drive \in bda.known => call.fn \in Transfers
  /\ pc = "program" => call.fn \in Transfers

(* The DMA channel is programmed before the controller is prepared.         *)
Fed ==
  /\ pc \in {"prepare", "ready", "released", "held", "command"} /\ call.drive \in bda.known =>
       dma.dir = call.fn /\ dma.left > 0
  /\ pc \in Looking \cup {"results"} => dma.dir = call.fn /\ Owed(fdc, dma)

(* Where the program is, and the controller with it.                        *)
Follows ==
  /\ pc \in Places
  /\ pc \in Closed => isr = "none"
  /\ pc \in Closed \ {"released"} => ~request
  /\ pc \in {"caller", "prepare", "program"} => Resting(fdc) \/ HeldInReset(fdc)
  /\ pc \in {"ready", "command"} => Resting(fdc) /\ ~bda.intr
  /\ pc \in Looking \cup {"results"} => Transferring(fdc, call)
  /\ pc \in Looking /\ bda.intr => fdc.result # <<>> /\ ~request
  /\ pc = "results" => fdc.result # <<>>
  /\ pc = "release" => Stopped(fdc) \/ (AtRest(fdc) /\ ~fdc.normal)
  /\ pc = "restarted" => Restarting(fdc) \/ Resting(fdc)
  /\ pc = "halted" => Resting(fdc) /\ call.fn = "write" /\ call.at.sec > SecPerTrk

(* The motor stays on until the command is given, also when the interrupt   *)
(* of a reset is waited for: one tick may come meanwhile, not two.          *)
Spins ==
  /\ pc \in {"ready", "released", "held", "command"} => fdc.motors = {call.drive}
  /\ bda.ticks \in Nat
  /\ pc = "released" =>
       /\ ~bda.intr /\ bda.ticks >= 2
       /\ Restarting(fdc) \/ (Resting(fdc) /\ request)
  /\ pc = "held" =>
       /\ Resting(fdc)
       /\ Announced \/ Sensing \/ Flagged
       /\ bda.ticks >= 1 /\ (~ticked => bda.ticks >= 2)
  /\ pc = "recal" =>
       \/ Recalibrating(fdc) /\ ~request /\ ~bda.intr
       \/ Resting(fdc) /\ (Announced \/ Sensing \/ Flagged)

BInv == IInv /\ Data /\ Wires /\ Served /\ Fed /\ Follows /\ Spins

-----------------------------------------------------------------------------
(* What the member functions do to the rest of the controller.              *)
Alike(f, g) == Like(f, g) /\ g.motors = f.motors /\ g.index = f.index /\ g.tc = f.tc

LEMMA AlikeAlike ==
  ASSUME NEW f, NEW g, NEW h, Alike(f, g), Alike(g, h) PROVE Alike(f, h)
BY LikeLike DEF Alike

LEMMA ResetChangelineAlike ==
  ASSUME NEW f, Shape(f) PROVE Alike(f, ResetChangeline(f))
<1>1. /\ ResetChangeline(f).motors = f.motors /\ ResetChangeline(f).index = f.index
      /\ ResetChangeline(f).tc = f.tc
  BY DEF Shape, Fields, ResetChangeline
<1> QED
  BY <1>1, ResetChangelineEffect DEF Alike

LEMMA SelectAlike ==
  ASSUME NEW f, Shape(f), NEW drive PROVE Alike(f, Select(f, drive))
<1>1. /\ Select(f, drive).motors = f.motors /\ Select(f, drive).index = f.index
      /\ Select(f, drive).tc = f.tc
  BY DEF Shape, Fields, Select
<1> QED
  BY <1>1, SelectEffect DEF Alike

LEMMA StepToAlike ==
  ASSUME NEW f, Shape(f), NEW p PROVE Alike(f, StepTo(f, p))
<1>1. Alike(f, f)
  BY DEF Alike, Like
<1> QED
  BY <1>1, ResetChangelineAlike DEF StepTo

LEMMA MediaAlike ==
  ASSUME NEW f, Shape(f), NEW d, NEW inserted PROVE Alike(f, SetMediaStatus(f, d, inserted))
<1>1. /\ SetMediaStatus(f, d, inserted).motors = f.motors
      /\ SetMediaStatus(f, d, inserted).index = f.index
      /\ SetMediaStatus(f, d, inserted).tc = f.tc
  BY DEF Shape, Fields, SetMediaStatus
<1> QED
  BY <1>1, SetMediaStatusEffect DEF Alike

(* All but the status a command ends with.                                  *)
Remains(f, g) ==
  /\ Shape(g) /\ g.normal = f.normal /\ g.motors = f.motors
  /\ g.timer = f.timer /\ g.drq = f.drq /\ g.tc = f.tc

LEMMA EnterIdleRemains ==
  ASSUME NEW f, Shape(f)
  PROVE  Remains(f, EnterIdle(f)) /\ EnterIdle(f).index = 0 /\ EnterIdle(f).irq = f.irq
BY DEF Shape, Fields, Remains, EnterIdle

LEMMA EnterResultRemains ==
  ASSUME NEW f, Shape(f)
  PROVE  /\ Remains(f, EnterResult(f)) /\ EnterResult(f).index = f.index
         /\ EnterResult(f).complete = f.complete
BY DEF Shape, Fields, Remains, EnterResult, RaiseInterrupt

(* The result bytes are read: the controller is at rest, if nothing goes on.*)
LEMMA ReadAllEffect ==
  ASSUME NEW f, Shape(f)
  PROVE  LET g == ReadAll(f) IN
         /\ Remains(f, g) /\ ~g.irq /\ g.pending = Idle /\ g.complete /\ g.msr = {"RQM"}
         /\ g.result = <<>> /\ g.index = 0
         /\ g.st0 = f.st0 /\ g.sensei = f.sensei /\ g.present = f.present /\ g.changed = f.changed
<1> DEFINE h == LowerInterrupt([f EXCEPT !.active = {}])
<1>1. /\ Remains(f, h) /\ ~h.irq
      /\ h.st0 = f.st0 /\ h.sensei = f.sensei /\ h.present = f.present /\ h.changed = f.changed
  BY DEF Shape, Fields, Remains, LowerInterrupt
<1>2. ReadAll(f) = EnterIdle(h)
  BY DEF ReadAll
<1> HIDE DEF h
<1>3. Shape(h)
  BY <1>1 DEF Remains
<1>4. Remains(h, EnterIdle(h)) /\ EnterIdle(h).index = 0 /\ ~EnterIdle(h).irq
  BY <1>1, <1>3, EnterIdleRemains
<1>5. LET g == EnterIdle(h) IN
      /\ g.pending = Idle /\ g.complete /\ g.msr = {"RQM"}
      /\ g.result = <<>>
      /\ g.st0 = h.st0 /\ g.sensei = h.sensei /\ g.present = h.present /\ g.changed = h.changed
  BY <1>3, EnterIdleEffect DEF Kept
<1> QED
  BY <1>1, <1>2, <1>4, <1>5 DEF Remains

LEMMA ReadAllSound ==
  ASSUME NEW f, Shape(f), f.sensei \in 0..4, ChangeLine(f), NEW began
  PROVE  Sound(ReadAll(f), began)
<1> DEFINE g == ReadAll(f)
<1>1. /\ Remains(f, g) /\ ~g.irq /\ g.pending = Idle /\ g.complete /\ g.msr = {"RQM"}
      /\ g.result = <<>> /\ g.sensei = f.sensei /\ g.present = f.present /\ g.changed = f.changed
  BY ReadAllEffect
<1> HIDE DEF g
<1>2. ChangeLine(g)
  BY <1>1 DEF ChangeLine
<1>3. Sound(g, began)
  BY <1>1, <1>2, IdleSound DEF Remains
<1> QED
  BY <1>3 DEF g

-----------------------------------------------------------------------------
(* The digital output register.                                             *)
Unmoved(f, g) ==
  /\ Shape(g) /\ g.pending = f.pending /\ g.complete = f.complete /\ g.msr = f.msr
  /\ g.result = f.result /\ g.irq = f.irq /\ g.drq = f.drq /\ g.index = f.index /\ g.st0 = f.st0
  /\ g.tc = f.tc

LEMMA OutDorEffect ==
  ASSUME NEW f, Shape(f), NEW drive, NEW motors, NEW normal
  PROVE  LET g == OutDor(f, drive, motors, normal) IN
         /\ Shape(g) /\ g.motors = motors /\ g.normal = normal
         /\ g.complete = f.complete /\ g.drq = f.drq /\ g.irq = f.irq /\ g.index = f.index
         /\ (f.normal <=> normal) => Unmoved(f, g) /\ g.timer = f.timer
         /\ ~f.normal /\ normal => Unmoved(f, g) /\ g.timer
         /\ f.normal /\ ~normal => g.pending = "reset" /\ g.timer = f.timer
<1> DEFINE s == [f EXCEPT !.drive = drive, !.motors = motors, !.normal = normal]
           h == [s EXCEPT !.msr = {}, !.active = {}, !.pending = "reset"]
           t == [s EXCEPT !.timer = TRUE]
           g == OutDor(f, drive, motors, normal)
<1>1. g = CASE f.normal /\ ~normal -> h [] ~f.normal /\ normal -> t [] OTHER -> s
  BY DEF OutDor
<1>2. Unmoved(f, s) /\ s.motors = motors /\ s.normal = normal /\ s.timer = f.timer
  BY DEF Shape, Fields, Unmoved
<1> HIDE DEF s, g
<1>3. /\ Shape(h) /\ h.motors = motors /\ h.normal = normal /\ h.timer = f.timer
      /\ h.complete = f.complete /\ h.drq = f.drq /\ h.irq = f.irq /\ h.index = f.index
      /\ h.pending = "reset"
  BY <1>2 DEF Shape, Fields, Unmoved
<1>4. Unmoved(f, t) /\ t.motors = motors /\ t.normal = normal /\ t.timer
  BY <1>2 DEF Shape, Fields, Unmoved
<1> HIDE DEF h, t
<1>5. CASE f.normal /\ ~normal
  BY <1>1, <1>3, <1>5 DEF g
<1>6. CASE ~f.normal /\ normal
  BY <1>1, <1>4, <1>6 DEF g, Unmoved
<1>7. CASE f.normal <=> normal
  <2>1. g = s
    BY <1>1, <1>7
  <2> QED
    BY <1>2, <1>7, <2>1 DEF g, Unmoved
<1> QED
  BY <1>5, <1>6, <1>7

(* The three ways it is written: out of reset, into it, and as it is.       *)
LEMMA OutDorOn ==
  ASSUME NEW f, Shape(f), NEW drive, NEW motors
  PROVE  LET g == OutDor(f, drive, motors, TRUE) IN
         /\ Unmoved(f, g) /\ g.motors = motors /\ g.normal
         /\ f.normal => g.timer = f.timer
         /\ ~f.normal => g.timer
<1> DEFINE s == [f EXCEPT !.drive = drive, !.motors = motors, !.normal = TRUE]
           t == [s EXCEPT !.timer = TRUE]
<1>1. OutDor(f, drive, motors, TRUE) = IF f.normal THEN s ELSE t
  BY DEF OutDor
<1>2. Unmoved(f, s) /\ s.motors = motors /\ s.normal /\ s.timer = f.timer
  BY DEF Shape, Fields, Unmoved
<1> HIDE DEF s
<1>3. Unmoved(f, t) /\ t.motors = motors /\ t.normal /\ t.timer
  BY <1>2 DEF Shape, Fields, Unmoved
<1> HIDE DEF t
<1> QED
  BY <1>1, <1>2, <1>3

Hold(f) == OutDor(f, f.drive, f.motors, FALSE)

LEMMA HoldEffect ==
  ASSUME NEW f, Shape(f), f.normal
  PROVE  LET g == Hold(f) IN
         /\ Shape(g) /\ ~g.normal /\ g.pending = "reset" /\ g.timer = f.timer
         /\ g.complete = f.complete /\ g.drq = f.drq /\ g.irq = f.irq /\ g.index = f.index
<1> DEFINE s == [f EXCEPT !.drive = f.drive, !.motors = f.motors, !.normal = FALSE]
           h == [s EXCEPT !.msr = {}, !.active = {}, !.pending = "reset"]
<1>1. Hold(f) = h
  BY DEF Hold, OutDor
<1>2. Unmoved(f, s) /\ ~s.normal /\ s.timer = f.timer
  BY DEF Shape, Fields, Unmoved
<1> HIDE DEF s
<1>3. /\ Shape(h) /\ ~h.normal /\ h.timer = f.timer
      /\ h.complete = f.complete /\ h.drq = f.drq /\ h.irq = f.irq /\ h.index = f.index
      /\ h.pending = "reset"
  BY <1>2 DEF Shape, Fields, Unmoved
<1> QED
  BY <1>1, <1>3

LEMMA OutDorSame ==
  ASSUME NEW f, Shape(f), NEW drive, NEW motors
  PROVE  LET g == OutDor(f, drive, motors, f.normal) IN
         /\ Unmoved(f, g) /\ g.motors = motors /\ g.normal = f.normal /\ g.timer = f.timer
<1>1. \A normal : normal = f.normal =>
        LET h == OutDor(f, drive, motors, normal) IN
        /\ h.motors = motors /\ h.normal = normal
        /\ (f.normal <=> normal) => Unmoved(f, h) /\ h.timer = f.timer
  BY OutDorEffect
<1> QED
  BY <1>1

-----------------------------------------------------------------------------
(* The commands the BIOS gives.                                             *)
LEMMA AcceptEffect ==
  ASSUME NEW f, Shape(f), NEW c
  PROVE  LET g == Accept(f, c) IN
         /\ Remains(f, g) /\ g.result = f.result /\ g.irq = f.irq /\ g.index = f.index
         /\ g.st0 = f.st0 /\ g.pending = f.pending
BY DEF Shape, Fields, Remains, Accept

LEMMA PendingEffect ==
  ASSUME NEW f, Shape(f), NEW c
  PROVE  LET g == [f EXCEPT !.pending = c] IN
         /\ Remains(f, g) /\ g.result = f.result /\ g.irq = f.irq /\ g.index = f.index
         /\ g.st0 = f.st0 /\ g.pending = c
BY DEF Shape, Fields, Remains

LEMMA CompleteEffect ==
  ASSUME NEW f, Shape(f)
  PROVE  LET g == [f EXCEPT !.complete = TRUE, !.command = Idle] IN
         /\ Remains(f, g) /\ g.complete /\ g.msr = f.msr /\ g.pending = f.pending
         /\ g.result = f.result /\ g.irq = f.irq /\ g.index = f.index /\ g.st0 = f.st0
BY DEF Shape, Fields, Remains

LEMMA RecalibrateEffect ==
  ASSUME NEW f, Shape(f), f.pending = "recal", f.normal, ~f.drq, ~f.irq, f.result = <<>>,
         f.index = 0, NEW p
  PROVE  LET g == Recalibrate(f, p) IN
         /\ Shape(g) /\ g.pending = "recal" /\ g.normal /\ ~g.drq /\ ~g.irq /\ g.timer
         /\ g.result = <<>> /\ g.index = 0
<1> DEFINE s == Select(f, p.drive)
           h == StepTo(s, [p EXCEPT !.at.cyl = 0])
<1>1. Alike(f, s)
  BY SelectAlike
<1> HIDE DEF s
<1>2. Shape(s)
  BY <1>1 DEF Alike, Like
<1>2a. Alike(s, h)
  BY <1>2, StepToAlike
<1> HIDE DEF h
<1>3. Alike(f, h)
  BY <1>1, <1>2a, AlikeAlike
<1>4. Recalibrate(f, p) = [h EXCEPT !.timer = TRUE, !.at[p.drive].cyl = 0, !.msr = {},
                                    !.active = {p.drive}]
  BY DEF Recalibrate, h, s
<1> QED
  BY <1>3, <1>4 DEF Alike, Like, Shape, Fields

LEMMA RecalibrationGiven ==
  ASSUME NEW f, Shape(f), Resting(f), ~f.irq, NEW p
  PROVE  Recalibrating(Execute(Accept(f, "recal"), "recal", p))
<1> DEFINE a == Accept(f, "recal")
           b == [a EXCEPT !.pending = "recal"]
           g == Recalibrate(b, p)
           h == [g EXCEPT !.complete = TRUE, !.command = Idle]
<1>1. /\ Remains(f, a) /\ a.result = f.result /\ a.irq = f.irq /\ a.index = f.index
  BY AcceptEffect
<1>1a. Shape(a)
  BY <1>1 DEF Remains
<1> HIDE DEF a
<1>2. /\ Remains(a, b) /\ b.result = a.result /\ b.irq = a.irq /\ b.index = a.index
      /\ b.pending = "recal"
  BY <1>1a, PendingEffect
<1> HIDE DEF b
<1>3. /\ Shape(g) /\ g.pending = "recal" /\ g.normal /\ ~g.drq /\ ~g.irq /\ g.timer
      /\ g.result = <<>> /\ g.index = 0
  BY <1>1, <1>2, RecalibrateEffect DEF Remains, Resting, AtRest
<1> HIDE DEF g
<1>4. Recalibrating(h)
  BY <1>3, CompleteEffect DEF Remains, Recalibrating
<1>5. Execute(a, "recal", p) = h
  BY DEF Execute, FloppyCommand, b, g
<1> QED
  BY <1>4, <1>5 DEF a

LEMMA ReadWriteEffect ==
  ASSUME NEW f, Shape(f), NEW r, NEW p, r.fn \in Transfers, f.pending = r.fn, f.normal,
         ~f.drq, ~f.irq, f.result = <<>>, f.index = 0, p.headsAgree
  PROVE  LET g == ReadWrite(f, r.fn, p) IN
         /\ Shape(g) /\ g.pending = r.fn /\ g.normal /\ g.index = 0
         /\ g.irq <=> g.result # <<>>
         /\ g.drq => r.fn = "write"
<1> DEFINE c     == r.fn
           s     == Select(f, p.drive)
           g     == [s EXCEPT !.multi = p.multi]
           moved == IF p.at.cyl = g.at[p.drive].cyl THEN g ELSE ResetChangeline(g)
           e     == IF p.eot = 0 THEN SecPerTrk ELSE p.eot
           ready == [moved EXCEPT !.at[p.drive] = p.at, !.msr = {"BUSY"}, !.active = {}, !.eot = e]
           there == [g EXCEPT !.at[p.drive] = p.at]
           refused == Refused(there, p)
           first == [Fetch(ready, p.at) EXCEPT !.timer = TRUE]
           ask   == [ready EXCEPT !.drq = TRUE]
           all   == ReadWrite(f, c, p)
<1>1. all = CASE p.drive \notin f.present -> g
              [] p.drive \in f.present /\ p.at.sec > SecPerTrk -> refused
              [] OTHER -> IF c = "read" THEN first ELSE ask
  BY DEF ReadWrite
<1> HIDE DEF all
<1>2. Alike(f, s)
  BY SelectAlike
<1> HIDE DEF s
<1>3. Alike(s, g)
  BY <1>2 DEF Alike, Like, Shape, Fields, ChangeLine
<1> HIDE DEF g
<1>4. Alike(f, g)
  BY <1>2, <1>3, AlikeAlike
<1>5. CASE p.drive \notin f.present
  <2>1. all = g
    BY <1>1, <1>5
  <2> QED
    BY <1>4, <2>1 DEF Alike, Like, all
<1>6. CASE p.drive \in f.present /\ p.at.sec > SecPerTrk
  <2>1. Alike(g, there)
    BY <1>4 DEF Alike, Like, Shape, Fields, ChangeLine
  <2> HIDE DEF there
  <2>2. Alike(f, there)
    BY <1>4, <2>1, AlikeAlike
  <2> DEFINE h == [there EXCEPT !.st0 = St("abnormal", FALSE, p.drive)]
  <2>3. /\ Shape(h) /\ h.pending = c /\ h.normal /\ ~h.drq /\ h.index = 0
        /\ h.st0.ic = "abnormal"
    BY <2>2 DEF Alike, Like, Shape, Fields, St
  <2>4. refused = EnterResult(h)
    BY DEF Refused
  <2> HIDE DEF h, refused
  <2>5. /\ Shape(refused) /\ refused.pending = c /\ refused.normal
        /\ ~refused.drq /\ refused.index = 0 /\ refused.result # <<>> /\ refused.irq
    BY <2>3, <2>4, EnterResultRemains, EnterResultEffect, ResultIsSome DEF Remains
  <2>6. all = refused
    BY <1>1, <1>6
  <2> QED
    BY <1>6, <2>5, <2>6 DEF all
<1>7. CASE p.drive \in f.present /\ ~(p.at.sec > SecPerTrk)
  <2>a. Alike(g, ResetChangeline(g))
    BY <1>4, ResetChangelineAlike DEF Alike, Like
  <2>b. Alike(f, ResetChangeline(g))
    BY <1>4, <2>a, AlikeAlike
  <2>1. Alike(f, moved)
    BY <1>4, <2>b
  <2> HIDE DEF moved, e
  <2>2. /\ Shape(ready) /\ ready.pending = c /\ ready.normal /\ ~ready.drq
        /\ ~ready.irq /\ ready.index = 0 /\ ready.result = <<>>
    BY <2>1 DEF Alike, Like, Shape, Fields
  <2> HIDE DEF ready
  <2>3. /\ Shape(ask) /\ ask.pending = c /\ ask.normal
        /\ ~ask.irq /\ ask.index = 0 /\ ask.result = <<>>
    BY <2>2 DEF Shape, Fields
  <2>4. PICK b : Fetch(ready, p.at) = [ready EXCEPT !.buffer = b]
    BY DEF Fetch
  <2>5. /\ Shape(first) /\ first.pending = c /\ first.normal /\ ~first.drq
        /\ ~first.irq /\ first.index = 0 /\ first.result = <<>>
    BY <2>2, <2>4 DEF Shape, Fields
  <2> HIDE DEF first, ask
  <2>6. all = IF c = "read" THEN first ELSE ask
    BY <1>1, <1>7
  <2> QED
    BY <2>3, <2>5, <2>6 DEF all, Transfers
<1> QED
  BY <1>5, <1>6, <1>7

LEMMA TransferGiven ==
  ASSUME NEW f, Shape(f), Resting(f), ~f.irq, NEW r, r.fn \in Transfers,
         NEW p, p.headsAgree
  PROVE  LET h == Execute(Accept(f, r.fn), r.fn, p) IN
         Transferring(h, r) /\ h.index = 0 /\ (h.drq => r.fn = "write")
<1> DEFINE a == Accept(f, r.fn)
           b == [a EXCEPT !.pending = r.fn]
           g == ReadWrite(b, r.fn, p)
           h == [g EXCEPT !.complete = TRUE, !.command = Idle]
<1>1. /\ Remains(f, a) /\ a.result = f.result /\ a.irq = f.irq /\ a.index = f.index
  BY AcceptEffect
<1> HIDE DEF a
<1>2. /\ Remains(a, b) /\ b.result = a.result /\ b.irq = a.irq /\ b.index = a.index
      /\ b.pending = r.fn
  BY <1>1, PendingEffect DEF Remains
<1> HIDE DEF b
<1>3. /\ Shape(b) /\ b.normal /\ ~b.drq /\ ~b.irq /\ b.result = <<>> /\ b.index = 0
  BY <1>1, <1>2 DEF Remains, Resting, AtRest
<1>4. /\ Shape(g) /\ g.pending = r.fn /\ g.normal /\ g.index = 0
      /\ g.irq <=> g.result # <<>>
      /\ g.drq => r.fn = "write"
  BY <1>2, <1>3, ReadWriteEffect
<1>5. Execute(a, r.fn, p) = h
  BY DEF Execute, FloppyCommand, Transfers, b, g
<1> HIDE DEF g
<1>6. /\ Remains(g, h) /\ h.complete /\ h.pending = g.pending
      /\ h.result = g.result /\ h.irq = g.irq /\ h.index = g.index /\ h.st0 = g.st0
  BY <1>4, CompleteEffect
<1> HIDE DEF h
<1>7. Transferring(h, r) /\ h.index = 0 /\ (h.drq => r.fn = "write")
  BY <1>4, <1>6 DEF Transferring, Remains
<1> QED
  BY <1>5, <1>7 DEF a

LEMMA SenseEffect ==
  ASSUME NEW f, Shape(f) PROVE Remains(f, Sense(f))
<1> DEFINE g == [f EXCEPT !.sensei = @ - 1, !.st0.drive = 4 - f.sensei]
           h == [f EXCEPT !.st0 = St("invalid", FALSE, 0)]
<1>1. Remains(f, f) /\ Remains(f, g) /\ Remains(f, h)
  BY DEF Shape, Fields, Remains, St
<1>2. Sense(f) \in {EnterResult(f), EnterResult(g), EnterResult(h)}
  BY DEF Sense
<1> HIDE DEF g, h
<1> QED
  BY <1>1, <1>2, EnterResultRemains DEF Remains

(* The interrupt is sensed, and what it answers is read.                    *)
Sensed(f) == ReadAll(Execute(Accept(f, "sense"), "sense", NoParameters))

LEMMA SensedEffect ==
  ASSUME NEW f, Shape(f), AtRest(f)
  PROVE  LET g == Sensed(f) IN
         AtRest(g) /\ ~g.irq /\ g.motors = f.motors /\ g.normal = f.normal
<1> DEFINE a == Accept(f, "sense")
           b == [a EXCEPT !.pending = "sense"]
           g == Sense(b)
           h == [g EXCEPT !.complete = TRUE, !.command = Idle]
<1>1. Remains(f, a)
  BY AcceptEffect
<1> HIDE DEF a
<1>2. Remains(a, b)
  BY <1>1, PendingEffect DEF Remains
<1> HIDE DEF b
<1>3. Remains(b, g)
  BY <1>2, SenseEffect DEF Remains
<1> HIDE DEF g
<1>4. Remains(g, h)
  BY <1>3, CompleteEffect DEF Remains
<1>5. Execute(a, "sense", NoParameters) = h
  BY DEF Execute, FloppyCommand, b, g
<1> HIDE DEF h
<1>6. /\ Remains(h, ReadAll(h)) /\ ~ReadAll(h).irq /\ ReadAll(h).pending = Idle
      /\ ReadAll(h).complete /\ ReadAll(h).msr = {"RQM"} /\ ReadAll(h).result = <<>>
      /\ ReadAll(h).index = 0
  BY <1>4, ReadAllEffect DEF Remains
<1>7. Sensed(f) = ReadAll(h)
  BY <1>5 DEF Sensed, a
<1>8. Remains(f, h)
  BY <1>1, <1>2, <1>3, <1>4 DEF Remains
<1> QED
  BY <1>6, <1>7, <1>8 DEF AtRest, Remains

-----------------------------------------------------------------------------
(* The controller's own moves.                                              *)

(* A transfer ends, or waits for its next sector.                           *)
Ends(f, g) ==
  /\ g.result # <<>> /\ g.timer = f.timer
  /\ f.pending \in Transfers => g.irq

Awaits(f, g) == g.result = f.result /\ g.irq = f.irq /\ g.timer

Carried(f, g) ==
  /\ Shape(g) /\ g.pending = f.pending /\ g.normal = f.normal /\ g.complete = f.complete
  /\ g.motors = f.motors /\ g.index \in 0..BytesPerSec /\ ~g.drq
  /\ Ends(f, g) \/ Awaits(f, g)

(* As much as is granted fills the sector, or exhausts the channel.         *)
LEMMA MovedIndex ==
  ASSUME Shape(fdc), Data, TransferDue
  PROVE  LET m == Moved(fdc) IN
         /\ m.index \in 1..BytesPerSec
         /\ m.index - fdc.index \in 0..dma.left
         /\ m.motors = fdc.motors
         /\ m.index >= BytesPerSec \/ m.tc
         /\ ~m.tc => dma.left - (m.index - fdc.index) > 0
         /\ ~m.tc /\ fdc.index = 0 => dma.left > 1
<1> DEFINE room == BytesPerSec - fdc.index
           len  == IF room < MaxLen THEN room ELSE MaxLen
           tc   == dma.left <= BytesPerSec /\ len = MaxLen
<1>1. /\ BytesPerSec \in Nat \ {0} /\ fdc.index \in 0..BytesPerSec
      /\ dma.left \in Nat /\ dma.left > 0
  BY GeometryAssumption DEF Data, TransferDue
<1>a. /\ room \in 0..BytesPerSec
      /\ MaxLen = IF dma.left < BytesPerSec THEN dma.left ELSE BytesPerSec
  BY <1>1 DEF MaxLen
<1>2. Moved(fdc) = [fdc EXCEPT !.index = fdc.index + len, !.tc = tc]
  BY DEF Moved
<1>3. /\ fdc.index + len \in 1..BytesPerSec /\ len \in 0..dma.left
      /\ fdc.index + len >= BytesPerSec \/ tc
  BY <1>1, <1>a
<1>4. /\ ~tc => dma.left - len > 0
      /\ ~tc /\ fdc.index = 0 => dma.left > 1
  BY <1>1, <1>a
<1> HIDE DEF len, tc
<1>5. /\ Moved(fdc).index = fdc.index + len
      /\ Moved(fdc).motors = fdc.motors /\ Moved(fdc).tc = tc
  BY <1>2 DEF Shape, Fields
<1>6. (fdc.index + len) - fdc.index = len
  BY <1>1, <1>3
<1> QED
  BY <1>3, <1>4, <1>5, <1>6

LEMMA AdvanceKeeps ==
  ASSUME NEW f, Shape(f)
  PROVE  /\ Like(f, Advance(f)) /\ Advance(f).motors = f.motors /\ Advance(f).index = 0
         /\ Advance(f).tc = f.tc
<1> DEFINE wrap == EndOfTrack(f, f.at[f.drive].sec + 1)
           step == wrap /\ (f.multi => f.at[f.drive].head = 1)
           new  == [cyl  |-> IF step THEN NextCylinder(f.at[f.drive].cyl) ELSE f.at[f.drive].cyl,
                    head |-> IF wrap /\ f.multi THEN 1 - f.at[f.drive].head ELSE f.at[f.drive].head,
                    sec  |-> IF wrap THEN 1 ELSE f.at[f.drive].sec + 1]
           g    == [f EXCEPT !.at[f.drive] = new]
           h    == IF step THEN ResetChangeline(g) ELSE g
<1>1. Advance(f) = [h EXCEPT !.index = 0]
  BY DEF Advance, IncrementSector
<1> HIDE DEF step, new
<1>2. Shape(g) /\ g.motors = f.motors /\ g.tc = f.tc
  BY DEF Shape, Fields
<1> HIDE DEF g
<1>3. Shape(h) /\ h.motors = f.motors /\ h.tc = f.tc
  BY <1>2, ResetChangelineAlike DEF Alike, Like
<1> HIDE DEF h
<1>4. Advance(f).motors = f.motors /\ Advance(f).index = 0 /\ Advance(f).tc = f.tc
  BY <1>1, <1>3 DEF Shape, Fields
<1> QED
  BY <1>4, AdvanceEffect

LEMMA AwaitSectorEffect ==
  ASSUME NEW f, Shape(f)
  PROVE  LET g == AwaitSector(f) IN
         /\ Shape(g) /\ g.pending = f.pending /\ g.normal = f.normal /\ g.complete = f.complete
         /\ g.motors = f.motors /\ g.index = f.index /\ ~g.drq /\ g.tc = f.tc /\ Awaits(f, g)
BY DEF Shape, Fields, AwaitSector, Awaits

Ended(f, ic, d) == EnterResult([[f EXCEPT !.drq = FALSE] EXCEPT !.st0 = St(ic, FALSE, d)])

LEMMA EndEffect ==
  ASSUME NEW f, Shape(f), NEW ic, NEW d, ic # "invalid"
  PROVE  LET g == Ended(f, ic, d) IN
         /\ Shape(g) /\ g.pending = f.pending /\ g.normal = f.normal /\ g.complete = f.complete
         /\ g.motors = f.motors /\ g.index = f.index /\ ~g.drq /\ g.tc = f.tc /\ Ends(f, g)
<1> DEFINE s == [[f EXCEPT !.drq = FALSE] EXCEPT !.st0 = St(ic, FALSE, d)]
           g == EnterResult(s)
<1>1. /\ Shape(s) /\ s.pending = f.pending /\ s.normal = f.normal /\ s.complete = f.complete
      /\ s.motors = f.motors /\ s.index = f.index /\ s.irq = f.irq /\ s.timer = f.timer
      /\ ~s.drq /\ s.st0.ic = ic /\ s.tc = f.tc
  BY DEF Shape, Fields, St
<1> HIDE DEF s
<1>2. /\ Remains(s, g) /\ g.index = s.index /\ g.complete = s.complete
  BY <1>1, EnterResultRemains
<1>3. /\ g.pending = s.pending /\ g.result # <<>>
      /\ s.pending \in Transfers => g.irq
  BY <1>1, EnterResultEffect, ResultIsSome DEF Kept
<1> HIDE DEF g
<1>4. Shape(g) /\ Ends(f, g)
  BY <1>1, <1>2, <1>3 DEF Remains, Ends
<1> QED
  BY <1>1, <1>2, <1>3, <1>4 DEF Remains, g, s, Ended

LEMMA DmaWriteEffect ==
  ASSUME Shape(fdc), Data, DmaWrite
  PROVE  /\ Carried(fdc, fdc') /\ Data' /\ dma'.dir = dma.dir
         /\ fdc.pending = dma.dir /\ Owed(fdc, dma) => Owed(fdc', dma')
<1> DEFINE f == Moved(fdc)
           g == IF f.index >= BytesPerSec THEN Advance(f) ELSE f
           h == [g EXCEPT !.drq = FALSE]
           end == EnterResult([h EXCEPT !.st0 = St("normal", FALSE, f.drive)])
           sector == Fetch(g, g.at[g.drive])
           await == AwaitSector(sector)
           next == CASE f.tc -> end
                     [] ~f.tc /\ f.index >= BytesPerSec -> await
                     [] OTHER -> f
<1>1. /\ fdc' = next /\ dma' = [dma EXCEPT !.left = @ - (f.index - fdc.index)]
      /\ dma.dir = "read" /\ fdc.drq
  BY DEF DmaWrite, Becomes, TransferDue
<1>2. /\ Like(fdc, f) /\ f.motors = fdc.motors
      /\ f.index \in 1..BytesPerSec /\ f.index - fdc.index \in 0..dma.left
      /\ f.index >= BytesPerSec \/ f.tc
      /\ ~f.tc => dma.left - (f.index - fdc.index) > 0
  BY MovedEffect, MovedIndex DEF DmaWrite
<1> HIDE DEF f
<1>3. /\ dma'.left = dma.left - (f.index - fdc.index) /\ dma'.dir = dma.dir
      /\ dma'.left \in Nat /\ DOMAIN dma' = {"dir", "left"}
  BY <1>1, <1>2 DEF Data
<1>4. /\ Like(fdc, g) /\ g.motors = fdc.motors /\ g.index \in 0..BytesPerSec
  <2>1. CASE f.index >= BytesPerSec
    <3>1. Like(f, Advance(f)) /\ Advance(f).motors = f.motors /\ Advance(f).index = 0
      BY <1>2, AdvanceKeeps DEF Like
    <3>2. Like(fdc, Advance(f))
      BY <1>2, <3>1, LikeLike
    <3> QED
      BY <1>2, <2>1, <3>1, <3>2, GeometryAssumption
  <2>2. CASE ~(f.index >= BytesPerSec)
    BY <1>2, <2>2
  <2> QED
    BY <2>1, <2>2
<1> HIDE DEF g
<1>5. Carried(fdc, end) /\ end.timer = fdc.timer
  <2>a. end = Ended(g, "normal", f.drive)
    BY DEF Ended
  <2> HIDE DEF end
  <2>1. /\ Shape(end) /\ end.pending = g.pending /\ end.normal = g.normal
        /\ end.complete = g.complete /\ end.motors = g.motors /\ end.index = g.index
        /\ ~end.drq /\ Ends(g, end)
    BY <1>4, <2>a, EndEffect DEF Like
  <2> QED
    BY <1>4, <2>1 DEF Like, Ends, Carried
<1>6. Carried(fdc, await)
  <2>1. Like(g, sector) /\ sector.motors = g.motors /\ sector.index = g.index
    <3>1. PICK b : sector = [g EXCEPT !.buffer = b]
      BY DEF Fetch
    <3>2. sector.motors = g.motors /\ sector.index = g.index
      BY <1>4, <3>1 DEF Like, Shape, Fields
    <3> QED
      BY <1>4, <3>2, FetchEffect DEF Like
  <2>2. Like(fdc, sector) /\ sector.motors = fdc.motors /\ sector.index = g.index
    BY <1>4, <2>1, LikeLike
  <2> HIDE DEF sector
  <2>3. /\ Shape(await) /\ await.pending = sector.pending /\ await.normal = sector.normal
        /\ await.complete = sector.complete /\ await.motors = sector.motors
        /\ await.index = sector.index /\ ~await.drq /\ Awaits(sector, await)
    BY <2>2, AwaitSectorEffect DEF Like
  <2> QED
    BY <1>4, <2>2, <2>3 DEF Like, Awaits, Carried
<1> HIDE DEF end, await
<1>7. (f.tc /\ fdc' = end) \/ (~f.tc /\ fdc' = await)
  BY <1>1, <1>2
<1>8. Carried(fdc, fdc')
  BY <1>5, <1>6, <1>7
<1>9. ASSUME fdc.pending = dma.dir, Owed(fdc, dma) PROVE Owed(fdc', dma')
  BY <1>1, <1>2, <1>3, <1>5, <1>7, <1>8, <1>9 DEF Owed, Carried
<1> QED
  BY <1>3, <1>8, <1>9 DEF Carried, Data

LEMMA DmaReadEffect ==
  ASSUME Shape(fdc), Data, DmaRead
  PROVE  /\ Carried(fdc, fdc') /\ Data' /\ dma'.dir = dma.dir
         /\ fdc.pending = dma.dir /\ Owed(fdc, dma) => Owed(fdc', dma')
<1> DEFINE f    == Moved(fdc)
           full == f.index >= BytesPerSec \/ f.tc
           end  == EnterResult([f EXCEPT !.drq = FALSE, !.st0 = St("abnormal", FALSE, f.drive)])
           await == AwaitSector(Advance(f))
           less == [dma EXCEPT !.left = @ - 1]
           moved == [dma EXCEPT !.left = @ - (f.index - fdc.index)]
<1>1. /\ (fdc' = end /\ dma' = less) \/ (full /\ fdc' = await /\ dma' = moved)
         \/ ~full
      /\ dma.dir = "write" /\ fdc.drq
  BY DEF DmaRead, Becomes, TransferDue
<1>2. /\ Like(fdc, f) /\ f.motors = fdc.motors
      /\ f.index \in 1..BytesPerSec /\ f.index - fdc.index \in 0..dma.left
      /\ full
      /\ ~f.tc => dma.left - (f.index - fdc.index) > 0
      /\ ~f.tc /\ fdc.index = 0 => dma.left > 1
  BY MovedEffect, MovedIndex DEF DmaRead
<1>a. dma.left \in Nat /\ dma.left > 0 /\ DOMAIN dma = {"dir", "left"}
  BY DEF Data, DmaRead, TransferDue
<1> HIDE DEF f
<1>3. /\ less.left = dma.left - 1 /\ less.dir = dma.dir /\ DOMAIN less = {"dir", "left"}
      /\ moved.left = dma.left - (f.index - fdc.index) /\ moved.dir = dma.dir
      /\ DOMAIN moved = {"dir", "left"} /\ less.left \in Nat /\ moved.left \in Nat
  BY <1>2, <1>a
<1>4. Carried(fdc, end) /\ end.timer = fdc.timer /\ end.tc = f.tc
  <2>1. end = Ended(f, "abnormal", f.drive)
    BY DEF Ended
  <2> HIDE DEF end
  <2>2. /\ Shape(end) /\ end.pending = f.pending /\ end.normal = f.normal
        /\ end.complete = f.complete /\ end.motors = f.motors /\ end.index = f.index
        /\ ~end.drq /\ end.tc = f.tc /\ Ends(f, end)
    BY <1>2, <2>1, EndEffect DEF Like
  <2> QED
    BY <1>2, <2>2 DEF Like, Ends, Carried
<1>5. Carried(fdc, await) /\ await.tc = f.tc
  <2>1. /\ Like(f, Advance(f)) /\ Advance(f).motors = f.motors /\ Advance(f).index = 0
        /\ Advance(f).tc = f.tc
    BY <1>2, AdvanceKeeps DEF Like
  <2>2. Like(fdc, Advance(f))
    BY <1>2, <2>1, LikeLike
  <2>3. /\ Shape(await) /\ await.pending = Advance(f).pending
        /\ await.normal = Advance(f).normal /\ await.complete = Advance(f).complete
        /\ await.motors = Advance(f).motors /\ await.index = Advance(f).index
        /\ ~await.drq /\ await.tc = Advance(f).tc /\ Awaits(Advance(f), await)
    BY <2>1, AwaitSectorEffect DEF Like
  <2> HIDE DEF await
  <2> QED
    BY <1>2, <2>1, <2>2, <2>3, GeometryAssumption DEF Like, Awaits, Carried
<1> HIDE DEF end, await, full, less, moved
<1>6. (fdc' = end /\ dma' = less) \/ (fdc' = await /\ dma' = moved)
  BY <1>1, <1>2
<1>7. Carried(fdc, fdc') /\ Data' /\ dma'.dir = dma.dir
  BY <1>3, <1>4, <1>5, <1>6 DEF Carried, Data
<1>8. ASSUME fdc.pending = dma.dir, Owed(fdc, dma) PROVE Owed(fdc', dma')
  <2>1. fdc'.pending = "write" /\ ~fdc'.drq
    BY <1>1, <1>7, <1>8 DEF Carried
  <2>2. fdc.timer => fdc.index = 0
    BY <1>1, <1>8 DEF Owed
  <2>3. CASE fdc' = end /\ dma' = less
    BY <1>2, <1>3, <1>4, <1>a, <2>1, <2>2, <2>3 DEF Owed
  <2>4. CASE fdc' = await /\ dma' = moved
    BY <1>2, <1>3, <1>5, <2>1, <2>4 DEF Owed
  <2> QED
    BY <1>6, <2>3, <2>4
<1> QED
  BY <1>7, <1>8

(* The timer: the heads are there, the reset is done, the sector is there.  *)
LEMMA TimerOff ==
  ASSUME NEW f, Shape(f)
  PROVE  LET g == [f EXCEPT !.timer = FALSE] IN
         /\ Shape(g) /\ ~g.timer /\ g.pending = f.pending /\ g.normal = f.normal
         /\ g.complete = f.complete /\ g.motors = f.motors /\ g.result = f.result
         /\ g.irq = f.irq /\ g.st0 = f.st0 /\ g.drq = f.drq /\ g.index = f.index
         /\ g.tc = f.tc /\ g.msr = f.msr
BY DEF Shape, Fields

LEMMA RaisedRemains ==
  ASSUME NEW f, Shape(f)
  PROVE  LET g == RaiseInterrupt(f) IN
         /\ Remains(f, g) /\ g.index = f.index /\ g.irq
BY DEF Shape, Fields, Remains, RaiseInterrupt

LEMMA RecalExpires ==
  ASSUME NEW f, Shape(f), f.pending = "recal", ~f.drq
  PROVE  LET g == Expire(f) IN
         /\ AtRest(g) /\ g.irq /\ g.motors = f.motors /\ g.normal = f.normal
<1> DEFINE st == St(IF f.drive \in f.motors THEN "normal" ELSE "abnormal", TRUE, f.drive)
           s == [f EXCEPT !.st0 = st]
           i == EnterIdle(s)
           g == RaiseInterrupt(i)
<1>1. Expire(f) = g
  BY DEF Expire
<1>2. Shape(s) /\ s.normal = f.normal /\ ~s.drq /\ s.motors = f.motors
  BY DEF Shape, Fields, St
<1> HIDE DEF s
<1>3. /\ Remains(s, i) /\ i.index = 0 /\ Shape(i)
      /\ i.pending = Idle /\ i.complete /\ i.msr = {"RQM"} /\ i.result = <<>>
  BY <1>2, EnterIdleRemains, EnterIdleEffect DEF Remains
<1> HIDE DEF i
<1>4. /\ Remains(i, g) /\ g.index = 0 /\ g.irq
      /\ g.pending = Idle /\ g.complete /\ g.msr = {"RQM"} /\ g.result = <<>>
  BY <1>3, RaisedRemains, RaisedEffect
<1> HIDE DEF g
<1> QED
  BY <1>1, <1>2, <1>3, <1>4 DEF Remains, AtRest

LEMMA ResetExpires ==
  ASSUME NEW f, Shape(f), f.pending = "reset"
  PROVE  LET g == Expire(f) IN
         /\ AtRest(g) /\ g.irq /\ g.motors = f.motors /\ g.normal = f.normal
<1> DEFINE at == [d \in Drives |-> [cyl |-> 0, head |-> 0, sec |-> 0]]
           h  == [f EXCEPT !.irq = FALSE, !.sensei = 0, !.msr = {}, !.active = {},
                           !.st0 = St("normal", FALSE, 0), !.at = at, !.eot = 0, !.drq = FALSE]
           r == EnterIdle(h)
           s == [r EXCEPT !.st0 = St("ready", FALSE, 0)]
           i == RaiseInterrupt(s)
           g == [i EXCEPT !.sensei = 4]
<1>1. Expire(f) = g
  BY DEF Expire, AfterReset, Reset, Transfers
<1> HIDE DEF at
<1>2. Shape(h) /\ h.normal = f.normal /\ ~h.drq /\ h.motors = f.motors
  BY DEF Shape, Fields, St
<1> HIDE DEF h
<1>3. /\ Remains(h, r) /\ r.index = 0 /\ Shape(r)
      /\ r.pending = Idle /\ r.complete /\ r.msr = {"RQM"} /\ r.result = <<>>
  BY <1>2, EnterIdleRemains, EnterIdleEffect DEF Remains
<1> HIDE DEF r
<1>4. /\ Remains(r, s) /\ s.index = 0 /\ Shape(s)
      /\ s.pending = Idle /\ s.complete /\ s.msr = {"RQM"} /\ s.result = <<>>
  BY <1>3 DEF Remains, Shape, Fields, St
<1> HIDE DEF s
<1>5. /\ Remains(s, i) /\ i.index = 0 /\ i.irq /\ Shape(i)
      /\ i.pending = Idle /\ i.complete /\ i.msr = {"RQM"} /\ i.result = <<>>
  BY <1>4, RaisedRemains, RaisedEffect
<1> HIDE DEF i
<1>6. /\ Remains(i, g) /\ g.index = 0 /\ g.irq
      /\ g.pending = Idle /\ g.complete /\ g.msr = {"RQM"} /\ g.result = <<>>
  BY <1>5 DEF Remains, Shape, Fields
<1> HIDE DEF g
<1> QED
  BY <1>1, <1>2, <1>3, <1>4, <1>5, <1>6 DEF Remains, AtRest

LEMMA TransferExpires ==
  ASSUME NEW f, Shape(f), f.pending \in Transfers, ~f.timer
  PROVE  LET g == Expire(f) IN
         /\ Shape(g) /\ g.pending = f.pending /\ g.normal = f.normal /\ g.complete = f.complete
         /\ g.motors = f.motors /\ ~g.timer /\ g.index = f.index
         /\ \/ /\ ~(f.pending = "write" /\ f.tc)
               /\ g.drq /\ g.irq = f.irq /\ g.result = f.result
            \/ g.drq = f.drq /\ g.irq /\ g.result # <<>>
<1> DEFINE t == [f EXCEPT !.drq = TRUE]
           s == [f EXCEPT !.st0 = St("normal", FALSE, f.drive)]
           x == EnterResult(s)
<1>1. (Expire(f) = t /\ ~(f.pending = "write" /\ f.tc)) \/ Expire(f) = x
  BY DEF Expire, Transfers
<1>2. /\ Shape(t) /\ t.pending = f.pending /\ t.normal = f.normal /\ t.complete = f.complete
      /\ t.motors = f.motors /\ ~t.timer /\ t.index = f.index
      /\ t.drq /\ t.irq = f.irq /\ t.result = f.result
  BY DEF Shape, Fields
<1> HIDE DEF t
<1>3. /\ Shape(s) /\ s.pending = f.pending /\ s.normal = f.normal /\ s.complete = f.complete
      /\ s.motors = f.motors /\ ~s.timer /\ s.drq = f.drq /\ s.index = f.index
      /\ s.st0.ic = "normal"
  BY DEF Shape, Fields, St
<1> HIDE DEF s
<1>4. /\ Remains(s, x) /\ x.index = s.index /\ x.complete = s.complete
  BY <1>3, EnterResultRemains
<1>5. /\ x.pending = s.pending /\ x.result # <<>> /\ x.irq
  BY <1>3, EnterResultEffect, ResultIsSome
<1> HIDE DEF x
<1> QED
  BY <1>1, <1>2, <1>3, <1>4, <1>5 DEF Remains

(* At rest an old timer expires to no purpose.                              *)
LEMMA RestExpires ==
  ASSUME NEW f, AtRest(f)
  PROVE  Expire(f) = f
BY DEF AtRest, Expire, Idle

(* What a step of the controller means for the BIOS.                        *)
Known(f) ==
  AtRest(f) \/ Stopped(f) \/ Restarting(f) \/ Recalibrating(f) \/ \E r : Transferring(f, r)

LEMMA TimerEffect ==
  ASSUME Shape(fdc), Data, Known(fdc), Timer
  PROVE  /\ Data' /\ dma' = dma /\ fdc'.motors = fdc.motors
         /\ AtRest(fdc) => AtRest(fdc') /\ fdc'.irq = fdc.irq /\ fdc'.normal = fdc.normal
         /\ fdc.pending \in {"reset", "recal"} =>
              AtRest(fdc') /\ fdc'.irq /\ fdc'.normal = fdc.normal
         /\ \A r : Transferring(fdc, r) =>
              /\ Transferring(fdc', r) /\ (fdc.irq => fdc'.irq)
              /\ Owed(fdc, dma) => Owed(fdc', dma)
<1> DEFINE f == [fdc EXCEPT !.timer = FALSE]
<1>1. fdc' = Expire(f) /\ dma' = dma /\ fdc.timer
  BY DEF Timer, Becomes
<1>2. /\ Shape(f) /\ ~f.timer /\ f.pending = fdc.pending /\ f.normal = fdc.normal
      /\ f.complete = fdc.complete /\ f.motors = fdc.motors /\ f.result = fdc.result
      /\ f.irq = fdc.irq /\ f.st0 = fdc.st0 /\ f.drq = fdc.drq /\ f.index = fdc.index
      /\ f.tc = fdc.tc /\ f.msr = fdc.msr
  BY TimerOff
<1> HIDE DEF f
<1>3. ASSUME AtRest(fdc)
      PROVE  /\ AtRest(fdc') /\ fdc'.irq = fdc.irq /\ fdc'.normal = fdc.normal
             /\ fdc'.motors = fdc.motors
  <2>1. AtRest(f)
    BY <1>2, <1>3 DEF AtRest
  <2> QED
    BY <1>1, <1>2, <2>1, RestExpires
<1>4. ASSUME fdc.pending \in {"reset", "recal"}
      PROVE  /\ AtRest(fdc') /\ fdc'.irq /\ fdc'.normal = fdc.normal
             /\ fdc'.motors = fdc.motors
  <2>1. ~f.drq
    BY <1>2, <1>4 DEF Known, AtRest, Stopped, Restarting, Recalibrating, Transferring, Idle, Transfers
  <2> QED
    BY <1>1, <1>2, <1>4, <2>1, RecalExpires, ResetExpires
<1>5. ASSUME NEW r, Transferring(fdc, r)
      PROVE  /\ Transferring(fdc', r) /\ (fdc.irq => fdc'.irq)
             /\ Owed(fdc, dma) => Owed(fdc', dma)
             /\ fdc'.motors = fdc.motors /\ fdc'.index = fdc.index
  <2>1. f.pending \in Transfers
    BY <1>2, <1>5 DEF Transferring
  <2> DEFINE g == Expire(f)
  <2>2. /\ Shape(g) /\ g.pending = f.pending /\ g.normal = f.normal /\ g.complete = f.complete
        /\ g.motors = f.motors /\ ~g.timer /\ g.index = f.index
        /\ \/ /\ ~(f.pending = "write" /\ f.tc)
              /\ g.drq /\ g.irq = f.irq /\ g.result = f.result
           \/ g.drq = f.drq /\ g.irq /\ g.result # <<>>
    BY <1>2, <2>1, TransferExpires
  <2>a. fdc' = g
    BY <1>1
  <2> HIDE DEF g
  <2>3. Transferring(fdc', r) /\ (fdc.irq => fdc'.irq)
    BY <1>2, <1>5, <2>2, <2>a DEF Transferring
  <2>4. ASSUME Owed(fdc, dma) PROVE Owed(fdc', dma)
    BY <1>1, <1>2, <2>2, <2>4, <2>a DEF Owed
  <2> QED
    BY <1>2, <2>2, <2>3, <2>4, <2>a
<1>6. fdc'.motors = fdc.motors /\ fdc'.index \in 0..BytesPerSec
  <2>1. CASE AtRest(fdc) \/ fdc.pending \in {"reset", "recal"}
    BY <1>3, <1>4, <2>1, GeometryAssumption DEF AtRest
  <2>2. CASE \E r : Transferring(fdc, r)
    BY <1>5, <2>2 DEF Data
  <2> QED
    BY <2>1, <2>2 DEF Known, Stopped, Restarting, Recalibrating
<1>7. Data'
  BY <1>1, <1>6 DEF Data
<1> QED
  BY <1>1, <1>3, <1>4, <1>5, <1>6, <1>7

LEMMA DeviceEffect ==
  ASSUME IInv, Data, Known(fdc), DeviceMoves
  PROVE  /\ IInv' /\ Data' /\ fdc'.motors = fdc.motors
         /\ ~HeldInReset(fdc)
         /\ AtRest(fdc) =>
              /\ AtRest(fdc') /\ fdc'.irq = fdc.irq /\ fdc'.normal = fdc.normal
              /\ dma' = dma /\ granted' = granted
         /\ fdc.pending \in {"reset", "recal"} =>
              /\ AtRest(fdc') /\ fdc'.irq /\ fdc'.normal = fdc.normal
              /\ dma' = dma /\ granted' = granted
         /\ \A r : Transferring(fdc, r) =>
              /\ Transferring(fdc', r) /\ (fdc.irq => fdc'.irq)
              /\ dma.dir = r.fn /\ Owed(fdc, dma) => dma'.dir = r.fn /\ Owed(fdc', dma')
<1>1. Shape(fdc) /\ IInv'
  BY TimerStep, DmaWriteStep, DmaReadStep DEF IInv, Sound, DeviceMoves
<1>2. CASE Timer /\ UNCHANGED granted
  <2>1. ~HeldInReset(fdc)
    BY <1>2 DEF Timer, HeldInReset
  <2> QED
    BY <1>1, <1>2, <2>1, TimerEffect
<1>3. CASE DmaWrite \/ DmaRead
  <2>1. /\ Carried(fdc, fdc') /\ Data' /\ dma'.dir = dma.dir /\ fdc.drq
        /\ fdc.pending = dma.dir /\ Owed(fdc, dma) => Owed(fdc', dma')
    BY <1>1, <1>3, DmaWriteEffect, DmaReadEffect DEF DmaWrite, DmaRead, TransferDue
  <2>2. \E r : Transferring(fdc, r)
    BY <2>1 DEF Known, AtRest, Stopped, Restarting, Recalibrating
  <2>3. ~AtRest(fdc) /\ ~HeldInReset(fdc) /\ fdc.pending \notin {"reset", "recal"}
    BY <2>2 DEF Transferring, Transfers, AtRest, HeldInReset, Stopped, Idle
  <2>4. ASSUME NEW r, Transferring(fdc, r)
        PROVE  /\ Transferring(fdc', r) /\ (fdc.irq => fdc'.irq)
               /\ dma.dir = r.fn /\ Owed(fdc, dma) => dma'.dir = r.fn /\ Owed(fdc', dma')
    <3>1. Transferring(fdc', r) /\ (fdc.irq => fdc'.irq)
      BY <2>1, <2>4 DEF Transferring, Carried, Ends, Awaits
    <3>2. fdc.pending = r.fn
      BY <2>4 DEF Transferring
    <3> QED
      BY <2>1, <3>1, <3>2
  <2> QED
    BY <1>1, <2>1, <2>3, <2>4 DEF Carried
<1> QED
  BY <1>2, <1>3 DEF DeviceMoves

-----------------------------------------------------------------------------
(* The invariant holds after the POST, and every step keeps it.             *)
LEMMA KnownState == ASSUME BInv PROVE Known(fdc) /\ Shape(fdc) /\ Sound(fdc, xfer.began)
<1>1. Sound(fdc, xfer.began) /\ Shape(fdc)
  BY DEF BInv, IInv, Sound
<1>2. pc \in Places
  BY DEF BInv, Follows
<1> QED
  BY <1>1, <1>2 DEF BInv, Follows, Spins, Places, Waiting, Looking, Closed, Known, Resting,
                    HeldInReset

LEMMA BInitBInv == ASSUME BInit PROVE BInv
<1>1. IInv
  BY InitIInv DEF BInit
<1>2. PICK inserted \in SUBSET Drives, readonly \in SUBSET Drives :
        fdc = [PowerOn EXCEPT !.present = inserted, !.protected = readonly]
  BY DEF BInit, Init
<1>3. Resting(fdc) /\ ~fdc.irq
  BY <1>2 DEF PowerOn, Resting, AtRest, Idle
<1>4. Data /\ Wires
  BY <1>3, GeometryAssumption DEF BInit, Init, Data, Wires, Resting, AtRest
<1> QED
  BY <1>1, <1>3, <1>4 DEF BInit, BInv, Served, Fed, Follows, Spins, Places, Closed, Looking

(* Where the program may run although an interrupt is due: nowhere but in   *)
(* the waiting loop of a transfer, which the DMA channel has ended.         *)
LEMMA RunningEffect ==
  ASSUME BInv, NEW place, Running(place)
  PROVE  /\ pc = place /\ isr = "none" /\ ~granted' /\ ~ticked'
         /\ place \notin Looking \cup {"released"} => ~request
<1>1. pc = place /\ isr = "none" /\ ~granted' /\ ~ticked' /\ (Enabled => ~request \/ granted)
  BY DEF Running
<1>2. ASSUME place \notin Looking \cup {"released"} PROVE ~request
  <2>1. place \in Closed \/ Enabled
    BY <1>1 DEF BInv, Follows, Places, Enabled
  <2>2. ~granted
    BY <1>1, <1>2 DEF BInv, Wires
  <2> QED
    BY <1>1, <1>2, <2>1, <2>2 DEF BInv, Follows
<1> QED
  BY <1>1, <1>2

(* A step of the program that leaves the controller and the lines alone.    *)
LEMMA QuietKeeps ==
  ASSUME BInv, NEW place, Running(place), place # "release", Quiet
  PROVE  /\ IInv' /\ Data' /\ Wires'
         /\ fdc' = fdc /\ dma' = dma /\ isr' = isr /\ request' = request
         /\ pc = place /\ isr = "none" /\ ~ticked'
         /\ place \notin Looking \cup {"released"} => ~request
<1>1. /\ pc = place /\ isr = "none" /\ ~granted' /\ ~ticked'
      /\ place \notin Looking \cup {"released"} => ~request
  BY RunningEffect
<1>2. fdc' = fdc /\ dma' = dma /\ xfer' = xfer /\ isr' = isr /\ request' = request
  BY DEF Quiet, vars
<1>3. Wires'
  BY <1>1, <1>2 DEF BInv, Wires, AtRest
<1> QED
  BY <1>1, <1>2, <1>3 DEF BInv, IInv, Data

LEMMA CallStep == ASSUME BInv, Call PROVE BInv'
<1>1. /\ IInv' /\ Data' /\ Wires'
      /\ fdc' = fdc /\ dma' = dma /\ isr' = isr /\ request' = request /\ bda' = bda
      /\ pc = "caller" /\ isr = "none" /\ ~request
  BY QuietKeeps DEF Call, Looking
<1>2. bda.ticks \in Nat /\ (Resting(fdc) \/ HeldInReset(fdc))
  BY <1>1 DEF BInv, Follows, Spins
<1>3. CASE pc' = "caller"
  BY <1>1, <1>2, <1>3 DEF BInv, Served, Fed, Follows, Spins, Places, Closed, Looking
<1>4. CASE pc' # "caller"
  <2>1. PICK r \in Accepted :
          /\ call' = r
          /\ pc' = IF r.drive \in bda.known THEN "program" ELSE "prepare"
          /\ ~(r.drive \in bda.known /\ r.fn = "verify")
    BY <1>4 DEF Call, Return
  <2>2. r \in Requests /\ r.drive \in Drives /\ r.n # 0
    BY DEF Accepted, Refusal
  <2>3. r.n > 0
    BY <2>2, BiosAssumption DEF Requests
  <2>4. r.drive \in bda.known => r.fn \in Transfers
    BY <2>1, <2>2 DEF Requests, Transfers
  <2>5. Served' /\ Fed'
    BY <1>1, <2>1, <2>2, <2>3, <2>4 DEF Served, Fed, Looking
  <2> QED
    BY <1>1, <1>2, <2>1, <2>5 DEF BInv, Follows, Spins, Places, Closed, Looking
<1> QED
  BY <1>3, <1>4

(* A step of the program that writes the output register.                   *)
LEMMA OutDorKeeps ==
  ASSUME BInv, NEW drive, NEW motors, NEW normal,
         DeviceTo(OutDor(fdc, drive, motors, normal), xfer), dma' = dma
  PROVE  IInv' /\ Data' /\ fdc' = OutDor(fdc, drive, motors, normal) /\ Latch(fdc')
<1>1. /\ Becomes(OutDor(fdc, drive, motors, normal), xfer)
      /\ fdc' = OutDor(fdc, drive, motors, normal) /\ Latch(fdc')
  BY DEF DeviceTo, Becomes
<1>2. Sound(fdc, xfer.began) /\ Shape(fdc) /\ "began" \in DOMAIN xfer
  BY KnownState DEF BInv, IInv
<1>3. IInv'
  BY <1>1, <1>2, OutDorSound, BecomesSound
<1>4. fdc'.index = fdc.index /\ fdc'.drq = fdc.drq
  BY <1>1, <1>2, OutDorEffect
<1> QED
  BY <1>1, <1>3, <1>4 DEF BInv, Data

LEMMA PrepareStep == ASSUME BInv, Prepare PROVE BInv'
<1>1. /\ IInv' /\ Data' /\ fdc' = OutDor(fdc, call.drive, {call.drive}, TRUE) /\ Latch(fdc')
  BY OutDorKeeps DEF Prepare
<1>2. /\ pc = "prepare" /\ isr' = "none" /\ isr = "none" /\ ~request /\ ~granted'
      /\ Resting(fdc) \/ HeldInReset(fdc)
  BY RunningEffect DEF Prepare, BInv, Follows, Looking
<1>3. ~fdc.irq
  BY <1>2 DEF BInv, Wires, HeldInReset, Resting
<1>4. Shape(fdc)
  BY KnownState
<1> DEFINE g == OutDor(fdc, call.drive, {call.drive}, TRUE)
<1>a. /\ Unmoved(fdc, g) /\ g.motors = {call.drive} /\ g.normal
      /\ fdc.normal => g.timer = fdc.timer
      /\ ~fdc.normal => g.timer
  BY <1>4, OutDorOn
<1>b. fdc' = g
  BY <1>1
<1> HIDE DEF g
<1>5. fdc'.motors = {call.drive} /\ ~fdc'.irq
  BY <1>3, <1>a, <1>b DEF Unmoved
<1>6. ~request' /\ Wires'
  BY <1>1, <1>2, <1>5 DEF Latch, Wires
<1>7. /\ Resting(fdc) => Resting(fdc')
      /\ HeldInReset(fdc) => Restarting(fdc')
  BY <1>a, <1>b DEF Unmoved, Resting, AtRest, HeldInReset, Stopped, Restarting
<1>8. /\ bda'.intr = FALSE /\ bda'.ticks = OnCount /\ bda'.known = bda.known
  BY DEF Prepare, NoInterruptYet
<1>9. bda'.ticks \in Nat /\ bda'.ticks >= 2
  BY <1>8, BiosAssumption
<1>10. /\ call' = call /\ dma' = dma
       /\ pc' = IF fdc.normal THEN "ready" ELSE "released"
  BY DEF Prepare, Goto
<1>11. Served' /\ Fed'
  BY <1>2, <1>8, <1>10 DEF BInv, Served, Fed, Looking
<1>12. /\ pc' = "ready" => Resting(fdc')
       /\ pc' = "released" => Restarting(fdc')
  BY <1>2, <1>7, <1>10 DEF Resting, HeldInReset, Stopped
<1> QED
  BY <1>1, <1>2, <1>5, <1>6, <1>8, <1>9, <1>10, <1>11, <1>12
     DEF BInv, Follows, Spins, Places, Closed, Looking

(* DriveReady tells a controller at rest from one that restarts.            *)
LEMMA ReadyIsResting ==
  ASSUME BInv, DriveReady, fdc.pending = "reset" PROVE FALSE
<1>1. Invitation(fdc, xfer.began)
  BY KnownState DEF Sound
<1> QED
  BY <1>1 DEF Invitation, Invites, DriveReady

LEMMA ReadyStep == ASSUME BInv, Ready PROVE BInv'
<1>1. /\ IInv' /\ Data' /\ Wires' /\ fdc' = fdc /\ dma' = dma /\ isr' = isr
      /\ request' = request /\ pc = "ready"
  BY QuietKeeps DEF Ready
<1>2. /\ pc' = "command" /\ call' = call /\ bda' = bda
  BY DEF Ready, Goto
<1> QED
  BY <1>1, <1>2 DEF BInv, Served, Fed, Follows, Spins, Places, Closed, Waiting, Looking

LEMMA ReleasedStep == ASSUME BInv, Released PROVE BInv'
<1>1. /\ IInv' /\ Data' /\ Wires' /\ fdc' = fdc /\ dma' = dma /\ isr' = isr
      /\ request' = request /\ pc = "released" /\ isr = "none"
  BY QuietKeeps DEF Released
<1>2. /\ pc' = "held" /\ call' = call /\ bda' = bda
  BY DEF Released, Goto
<1>3. ~Restarting(fdc)
  BY ReadyIsResting DEF Released, Restarting
<1>4. /\ Resting(fdc) /\ request /\ ~bda.intr /\ bda.ticks >= 2
  BY <1>1, <1>3 DEF BInv, Spins
<1>5. Announced' /\ bda'.ticks >= 1
  BY <1>1, <1>2, <1>4 DEF Announced, BInv, Spins
<1> QED
  BY <1>1, <1>2, <1>4, <1>5
     DEF BInv, Served, Fed, Follows, Spins, Places, Closed, Waiting, Looking

LEMMA HeldStep == ASSUME BInv, Held PROVE BInv'
<1>1. /\ IInv' /\ Data' /\ Wires' /\ fdc' = fdc /\ dma' = dma /\ isr' = isr
      /\ request' = request /\ pc = "held" /\ isr = "none" /\ ~request
  BY QuietKeeps DEF Held, Looking
<1>2. /\ call' = call /\ pc' = IF bda.intr THEN "command" ELSE "held"
      /\ bda' = [bda EXCEPT !.intr = FALSE]
  BY DEF Held, Goto
<1>3. /\ Resting(fdc) /\ bda.intr
  BY <1>1 DEF BInv, Spins, Announced, Sensing, Flagged
<1>4. bda'.intr = FALSE /\ bda'.known = bda.known /\ bda'.ticks = bda.ticks
  BY <1>2
<1> QED
  BY <1>1, <1>2, <1>3, <1>4
     DEF BInv, Served, Fed, Follows, Spins, Places, Closed, Waiting, Looking

LEMMA CommandStep == ASSUME BInv, Command PROVE BInv'
<1> DEFINE c == Given.c
           p == Given.p
           g == Execute(Accept(fdc, c), c, p)
<1>a. /\ pc = "command" /\ isr = "none" /\ ~request /\ ~granted'
  BY RunningEffect DEF Command, Looking
<1>1. /\ pc = "command" /\ isr = "none" /\ ~request /\ Resting(fdc) /\ ~bda.intr
      /\ isr' = isr /\ call' = call /\ bda' = bda /\ dma' = dma
      /\ pc' = IF c = "recal" THEN "recal" ELSE "look40"
      /\ Becomes(g, Asked(p)) /\ fdc' = g /\ Latch(fdc')
  BY <1>a DEF Command, DeviceTo, Becomes, BInv, Follows
<1>2. ~fdc.irq /\ Shape(fdc) /\ Sound(fdc, xfer.began)
  BY <1>1, KnownState DEF BInv, Wires, Resting
<1>3. /\ call \in Requests
      /\ call.drive \in bda.known => c = call.fn /\ c \in Transfers /\ p.headsAgree
      /\ call.drive \notin bda.known => c = "recal"
  BY <1>1 DEF BInv, Served, Given
<1>4. c \in AllCommands \ {"version", "invalid"}
  BY <1>3 DEF AllCommands, Transfers
<1> HIDE DEF c, p
<1>5. IInv'
  <2>1. Invites(fdc) /\ fdc.pending = Idle
    BY <1>1 DEF Invites, Resting, AtRest
  <2>2. Taken(Accept(fdc, c)) /\ Accept(fdc, c).motors = fdc.motors /\ Accept(fdc, c).present = fdc.present
    BY <1>2, <2>1, AcceptTaken
  <2> DEFINE began == Asked(p).began
  <2>3. began <=> p.drive \in Accept(fdc, c).motors \cap Accept(fdc, c).present
    BY <2>2 DEF Asked
  <2>4. "began" \in DOMAIN Asked(p)
    BY DEF Asked
  <2> HIDE DEF began
  <2>5. Sound(g, began)
    BY <1>4, <2>2, <2>3, ExecuteSound
  <2> QED
    BY <1>1, <2>4, <2>5, BecomesSound DEF began
<1>6. CASE call.drive \notin bda.known
  <2>1. Recalibrating(g)
    BY <1>1, <1>2, <1>3, <1>6, RecalibrationGiven
  <2> HIDE DEF g
  <2>2. ~fdc'.irq /\ ~fdc'.drq /\ fdc'.index = 0
    BY <1>1, <2>1 DEF Recalibrating
  <2>3. ~request' /\ isr' = "none"
    BY <1>1, <2>2 DEF Latch
  <2>4. Wires'
    BY <1>a, <2>2, <2>3 DEF Wires
  <2>5. Data'
    BY <1>1, <2>2, GeometryAssumption DEF BInv, Data
  <2> QED
    BY <1>1, <1>3, <1>5, <1>6, <2>1, <2>3, <2>4, <2>5
       DEF BInv, Served, Fed, Follows, Spins, Places, Closed, Waiting, Looking
<1>7. CASE call.drive \in bda.known
  <2>1. Transferring(g, call) /\ g.index = 0 /\ (g.drq => call.fn = "write")
    BY <1>1, <1>2, <1>3, <1>7, TransferGiven
  <2> HIDE DEF g
  <2>2. /\ fdc'.pending \in Transfers /\ fdc'.index = 0 /\ isr' = "none"
        /\ request' => fdc'.irq
    BY <1>1, <2>1 DEF Transferring, Latch
  <2>3. pc' = "look40"
    BY <1>1, <1>3, <1>7 DEF Transfers
  <2>4. Wires'
    BY <1>a, <2>2 DEF Wires, Transfers, AtRest, Idle
  <2>5. Data'
    BY <1>1, <2>2, GeometryAssumption DEF BInv, Data
  <2>6. dma'.dir = call.fn /\ Owed(fdc', dma')
    BY <1>1, <1>7, <2>1 DEF BInv, Fed, Owed, Transferring
  <2> QED
    BY <1>1, <1>3, <1>5, <1>7, <2>1, <2>3, <2>4, <2>5, <2>6
       DEF BInv, Served, Fed, Follows, Spins, Places, Closed, Waiting, Looking
<1> QED
  BY <1>6, <1>7

LEMMA RecalibratedStep == ASSUME BInv, Recalibrated PROVE BInv'
<1>1. /\ IInv' /\ Data' /\ Wires' /\ fdc' = fdc /\ dma' = dma /\ isr' = isr
      /\ request' = request /\ pc = "recal" /\ isr = "none" /\ ~request
  BY QuietKeeps DEF Recalibrated, Looking
<1>2. /\ call \in Requests /\ call.n > 0 /\ call.drive \in Drives
  BY <1>1 DEF BInv, Served
<1>3. CASE bda.intr
  <2>1. Resting(fdc)
    BY <1>1, <1>3 DEF BInv, Spins
  <2>2. /\ bda' = [bda EXCEPT !.intr = FALSE, !.known = @ \cup {call.drive}]
        /\ \/ pc' = "caller"
           \/ pc' = "program" /\ call' = call /\ call.fn # "verify"
    BY <1>3 DEF Recalibrated, Return, Goto
  <2>3. bda'.ticks = bda.ticks
    BY <2>2
  <2>4. pc' = "program" => call.fn \in Transfers
    BY <1>2, <2>2 DEF Requests, Transfers
  <2> QED
    BY <1>1, <1>2, <2>1, <2>2, <2>3, <2>4
       DEF BInv, Served, Fed, Follows, Spins, Places, Closed, Waiting, Looking
<1>4. CASE ~bda.intr
  <2>1. pc' = pc /\ call' = call /\ bda' = bda
    BY <1>1, <1>4 DEF Recalibrated, Goto
  <2> QED
    BY <1>1, <1>2, <2>1
       DEF BInv, Served, Fed, Follows, Spins, Announced, Sensing, Flagged, Closed, Places, Waiting,
           Looking
<1> QED
  BY <1>3, <1>4

LEMMA ProgramStep == ASSUME BInv, Program PROVE BInv'
<1>a. pc = "program" /\ isr = "none" /\ ~request /\ ~granted'
  BY RunningEffect DEF Program, Looking
<1>1. /\ fdc' = fdc /\ xfer' = xfer /\ bda' = bda /\ isr' = isr /\ request' = request
      /\ call \in Requests /\ call.n > 0 /\ call.drive \in Drives /\ call.fn \in Transfers
      /\ Resting(fdc) \/ HeldInReset(fdc)
  BY <1>a DEF Program, BInv, Served, Follows
<1>2. IInv' /\ Wires'
  BY <1>a, <1>1 DEF BInv, IInv, Wires
<1>b. call.n \in Nat \ {0} /\ BytesPerSec \in Nat \ {0}
  BY <1>1, BiosAssumption, GeometryAssumption DEF Requests
<1>c. call.n * BytesPerSec \in Nat /\ call.n * BytesPerSec > 0
  BY <1>b
<1>3. Data'
  <2>1. dma' = dma \/ dma' = [dir |-> call.fn, left |-> call.n * BytesPerSec]
    BY DEF Program
  <2> QED
    BY <1>1, <1>c, <2>1 DEF BInv, Data
<1>4. \/ pc' = "caller"
      \/ /\ pc' = "prepare" /\ call' = call
         /\ dma' = [dir |-> call.fn, left |-> call.n * BytesPerSec]
  BY DEF Program, Return, Goto
<1>5. Fed'
  BY <1>c, <1>4 DEF Fed, Looking
<1> QED
  BY <1>a, <1>1, <1>2, <1>3, <1>4, <1>5
     DEF BInv, Served, Follows, Spins, Places, Closed, Waiting, Looking

LEMMA LookAtTicksStep == ASSUME BInv, LookAtTicks PROVE BInv'
<1>1. /\ IInv' /\ Data' /\ Wires' /\ fdc' = fdc /\ dma' = dma /\ isr' = isr
      /\ request' = request /\ pc = "look40"
  BY QuietKeeps DEF LookAtTicks
<1>2. /\ pc' \in {"reset", "look3e"} /\ call' = call /\ bda' = bda
  BY DEF LookAtTicks, Goto
<1> QED
  BY <1>1, <1>2 DEF BInv, Served, Fed, Follows, Spins, Places, Closed, Waiting, Looking

LEMMA LookAtInterruptStep == ASSUME BInv, LookAtInterrupt PROVE BInv'
<1>1. /\ IInv' /\ Data' /\ Wires' /\ fdc' = fdc /\ dma' = dma /\ isr' = isr
      /\ request' = request /\ pc = "look3e" /\ isr = "none"
  BY QuietKeeps DEF LookAtInterrupt
<1>2. /\ pc' = (IF bda.intr THEN "results" ELSE "look40") /\ call' = call
      /\ bda' = [bda EXCEPT !.intr = FALSE]
  BY DEF LookAtInterrupt, Goto
<1>3. bda'.intr = FALSE /\ bda'.known = bda.known /\ bda'.ticks = bda.ticks
  BY <1>2
<1>4. bda.intr => fdc.result # <<>> /\ ~request
  BY <1>1 DEF BInv, Follows, Looking
<1> QED
  BY <1>1, <1>2, <1>3, <1>4
     DEF BInv, Served, Fed, Follows, Spins, Places, Closed, Waiting, Looking

(* The first write of the reset: the transfer is no longer pending, but an  *)
(* interrupt it has raised meanwhile is still latched.                      *)
LEMMA HoldControllerStep == ASSUME BInv, HoldController PROVE BInv'
<1> DEFINE g == OutDor(fdc, fdc.drive, fdc.motors, FALSE)
<1>1. /\ pc = "reset" /\ isr = "none" /\ ~granted' /\ ~TransferDue
      /\ DeviceTo(g, xfer) /\ dma' = dma
      /\ pc' = "release" /\ call' = call /\ bda' = bda /\ isr' = isr
  BY DEF HoldController, Running, Goto
<1>2. IInv' /\ Data' /\ fdc' = g /\ Latch(fdc')
  BY <1>1, OutDorKeeps
<1>3. Transferring(fdc, call) /\ ~fdc.drq /\ Shape(fdc)
  BY <1>1, KnownState DEF BInv, Follows, Fed, Owed, TransferDue, Looking
<1>4. Shape(g) /\ g.pending = "reset" /\ ~g.normal /\ g.drq = fdc.drq /\ g.irq = fdc.irq
  <2>1. g = Hold(fdc)
    BY DEF Hold
  <2> HIDE DEF g
  <2> QED
    BY <1>3, <2>1, HoldEffect DEF Transferring
<1> HIDE DEF g
<1>5. Stopped(fdc')
  BY <1>2, <1>3, <1>4 DEF Stopped
<1>6. Wires'
  BY <1>1, <1>2, <1>4, <1>5 DEF Wires, Latch, AtRest, Stopped, Idle
<1> QED
  BY <1>1, <1>2, <1>5, <1>6 DEF BInv, Served, Fed, Follows, Spins, Places, Closed, Waiting, Looking

(* The second write: the controller restarts, or has done so already.       *)
LEMMA ReleaseControllerStep == ASSUME BInv, ReleaseController PROVE BInv'
<1> DEFINE g == OutDor(fdc, fdc.drive, fdc.motors, TRUE)
<1>0. /\ Running("release") /\ DeviceTo(g, xfer) /\ dma' = dma
      /\ pc' = "restarted" /\ call' = call /\ bda' = bda /\ isr' = isr
  BY DEF ReleaseController, Goto
<1>0a. pc = "release" /\ isr = "none" /\ ~granted' /\ ~request
  BY <1>0, RunningEffect DEF Looking
<1>1. /\ pc = "release" /\ isr = "none" /\ ~granted' /\ ~request
      /\ DeviceTo(g, xfer) /\ dma' = dma
      /\ pc' = "restarted" /\ call' = call /\ bda' = bda /\ isr' = isr
  BY <1>0, <1>0a
<1>2. IInv' /\ Data' /\ fdc' = g /\ Latch(fdc')
  BY <1>1, OutDorKeeps
<1>3. Stopped(fdc) \/ (AtRest(fdc) /\ ~fdc.normal)
  BY <1>1 DEF BInv, Follows
<1>4. Unmoved(fdc, g) /\ g.normal /\ g.timer
  BY <1>3, KnownState, OutDorOn DEF Stopped
<1> HIDE DEF g
<1>5. /\ Stopped(fdc) => Restarting(fdc')
      /\ AtRest(fdc) => Resting(fdc')
  BY <1>2, <1>4 DEF Unmoved, Stopped, Restarting, Resting, AtRest
<1>6. ~request'
  BY <1>1, <1>2, <1>4 DEF Latch, WasReset, Unmoved
<1>7. AtRest(fdc') /\ fdc'.irq => FALSE
  BY <1>1, <1>2, <1>4 DEF BInv, Wires, Unmoved, AtRest
<1>8. Wires'
  BY <1>1, <1>6, <1>7 DEF Wires
<1> QED
  BY <1>1, <1>2, <1>3, <1>5, <1>6, <1>8
     DEF BInv, Served, Fed, Follows, Spins, Places, Closed, Waiting, Looking

LEMMA TimedOutStep == ASSUME BInv, TimedOut PROVE BInv'
<1>1. /\ IInv' /\ Data' /\ Wires' /\ fdc' = fdc /\ dma' = dma /\ isr' = isr
      /\ request' = request /\ pc = "restarted" /\ isr = "none" /\ ~request
  BY QuietKeeps DEF TimedOut, Looking
<1>2. /\ pc' = "caller" /\ bda' = bda
  BY DEF TimedOut, Return
<1>3. ~Restarting(fdc)
  BY ReadyIsResting DEF TimedOut, Restarted, Restarting
<1> QED
  BY <1>1, <1>2, <1>3 DEF BInv, Served, Fed, Follows, Spins, Places, Closed, Waiting, Looking

(* A result that is there can be read.                                      *)
LEMMA ResultIsReady ==
  ASSUME BInv, fdc.pending # "reset" PROVE ResultsReady <=> fdc.result # <<>>
<1>1. Status(fdc)
  BY KnownState DEF Sound
<1> QED
  BY <1>1 DEF Status, ResultsReady

LEMMA ResultsStep == ASSUME BInv, Results PROVE BInv'
<1>a. pc = "results" /\ isr = "none" /\ ~request /\ ~granted'
  BY RunningEffect DEF Results, Looking
<1>1. Transferring(fdc, call) /\ fdc.result # <<>> /\ ~fdc.drq
  BY <1>a DEF Results, Running, TransferDue, BInv, Follows, Fed, Owed
<1>2. ResultsReady
  BY <1>1, ResultIsReady DEF Transferring, Transfers
<1>3. /\ Becomes(ReadAll(fdc), xfer) /\ fdc' = ReadAll(fdc) /\ Latch(fdc')
      /\ dma' = dma /\ bda' = bda /\ isr' = isr
      /\ \/ pc' = "caller"
         \/ /\ pc' = "halted" /\ call' = call
            /\ call.fn # "read" /\ ~NotWritable
  BY <1>2 DEF Results, DeviceTo, Becomes, Return, Goto
<1>4. Sound(fdc, xfer.began) /\ Shape(fdc) /\ "began" \in DOMAIN xfer
  BY KnownState DEF BInv, IInv
<1>5. Sound(ReadAll(fdc), xfer.began)
  BY <1>4, ReadAllSound DEF Sound
<1>6. IInv'
  BY <1>3, <1>4, <1>5, BecomesSound
<1>7. Resting(fdc') /\ ~fdc'.irq
  BY <1>1, <1>3, <1>4, ReadAllEffect DEF Remains, Resting, AtRest, Transferring
<1>8. ~request' /\ Wires'
  BY <1>a, <1>3, <1>7 DEF Latch, Wires
<1>9. Data'
  BY <1>3, <1>7, GeometryAssumption DEF BInv, Data, Resting, AtRest
<1>10. pc' = "halted" => call.fn = "write" /\ call.at.sec > SecPerTrk
  <2>1. pc' = "halted" => call \in Requests /\ call.fn = "write" /\ ~NotWritable
    BY <1>a, <1>1, <1>3 DEF Transferring, Transfers, BInv, Served
  <2> QED
    BY <2>1, GeometryAssumption DEF NotWritable, Requests
<1> QED
  BY <1>a, <1>3, <1>6, <1>7, <1>8, <1>9, <1>10
     DEF BInv, Served, Fed, Follows, Spins, Places, Closed, Waiting, Looking

-----------------------------------------------------------------------------
(* What comes in between.                                                   *)
LEMMA Int0eStep == ASSUME BInv, Int0e PROVE BInv'
<1>1. /\ pc \in Waiting \cup {"caller"} /\ request /\ isr = "none" /\ ~request' /\ ~granted'
      /\ isr' = (IF ResultsReady THEN "none" ELSE "sense")
      /\ bda' = [bda EXCEPT !.intr = bda.intr \/ ResultsReady]
      /\ fdc' = fdc /\ dma' = dma /\ xfer' = xfer /\ pc' = pc /\ call' = call /\ ticked' = ticked
  BY DEF Int0e, Enabled, vars
<1>2. IInv' /\ Data'
  BY <1>1 DEF BInv, IInv, Data
<1>3. fdc.irq /\ (fdc.pending = "reset" => pc = "release")
  BY <1>1 DEF BInv, Wires
<1>4. fdc.pending # "reset" => (ResultsReady <=> fdc.result # <<>>)
  BY ResultIsReady
<1>5. ~ResultsReady => AtRest(fdc) \/ (pc = "release" /\ fdc.pending = "reset")
  <2>1. Known(fdc)
    BY KnownState
  <2> QED
    BY <1>3, <1>4, <2>1 DEF Known, Stopped, Restarting, Recalibrating, Transferring
<1>6. AtRest(fdc) => ~ResultsReady
  BY <1>4 DEF AtRest, Idle
<1>7. Wires'
  BY <1>1, <1>3, <1>5, <1>6 DEF Wires
<1>8. bda'.intr = (bda.intr \/ ResultsReady) /\ bda'.ticks = bda.ticks /\ bda'.known = bda.known
  BY <1>1 DEF BInv, Spins
<1>9. pc \in Looking => fdc.result # <<>>
  BY <1>3 DEF BInv, Follows, Transferring
<1>10. Served' /\ Fed' /\ Follows'
  BY <1>1, <1>3, <1>4, <1>8, <1>9
     DEF BInv, Served, Fed, Follows, Closed, Waiting, Places, Looking, Resting, AtRest, Idle
<1>11. pc = "held" \/ (pc = "recal" /\ Resting(fdc)) => Sensing'
  BY <1>1, <1>5, <1>6, <1>8 DEF BInv, Spins, Announced, Sensing, Flagged, Resting
<1>12. Spins'
  BY <1>1, <1>3, <1>8, <1>11 DEF BInv, Spins, Announced, Sensing, Flagged, Waiting, Recalibrating
<1> QED
  BY <1>2, <1>7, <1>10, <1>12 DEF BInv

LEMMA SenseStep == ASSUME BInv, SenseInterrupt PROVE BInv'
<1> DEFINE a == Accept(fdc, "sense")
           e == Execute(a, "sense", NoParameters)
<1>1. /\ isr = "sense" /\ AtRest(fdc) /\ isr' = "none"
      /\ Becomes(Sensed(fdc), xfer) /\ fdc' = Sensed(fdc) /\ Latch(fdc')
      /\ bda' = [bda EXCEPT !.intr = TRUE]
      /\ dma' = dma /\ pc' = pc /\ call' = call /\ ticked' = ticked /\ granted' = granted
  BY DEF SenseInterrupt, DeviceTo, Becomes, Sensed, Takes, BInv, Wires, Idle
<1>2. Sound(fdc, xfer.began) /\ Shape(fdc) /\ "began" \in DOMAIN xfer
  BY KnownState DEF BInv, IInv
<1>3. Sound(Sensed(fdc), xfer.began)
  <2>1. Invites(fdc) /\ fdc.pending = Idle
    BY <1>1 DEF Invites, AtRest
  <2>2. Taken(a)
    BY <1>2, <2>1, AcceptTaken
  <2> HIDE DEF a
  <2> DEFINE began == NoParameters.drive \in a.motors \cap a.present
  <2>3. "sense" \in AllCommands \ {"version", "invalid"}
    BY DEF AllCommands
  <2>4. Sound(e, began)
    <3>1. began <=> NoParameters.drive \in a.motors \cap a.present
      OBVIOUS
    <3> HIDE DEF began
    <3> QED
      BY <2>2, <2>3, <3>1, ExecuteSound
  <2> HIDE DEF e, began
  <2>5. Sound(ReadAll(e), xfer.began)
    BY <2>4, ReadAllSound DEF Sound
  <2> QED
    BY <2>5 DEF Sensed, e, a
<1>4. IInv'
  BY <1>1, <1>2, <1>3, BecomesSound
<1>5. AtRest(fdc') /\ ~fdc'.irq /\ fdc'.motors = fdc.motors /\ fdc'.normal = fdc.normal
  BY <1>1, <1>2, SensedEffect
<1>6. pc \notin Closed /\ pc \notin Looking
  BY <1>1 DEF BInv, Follows, Transferring, Transfers, AtRest, Idle
<1>7. ~request' /\ Wires'
  BY <1>1, <1>5, <1>6 DEF Latch, Wires, BInv
<1>8. Data'
  BY <1>1, <1>5, GeometryAssumption DEF BInv, Data, AtRest
<1>9. bda'.intr = TRUE /\ bda'.ticks = bda.ticks /\ bda'.known = bda.known
  BY <1>1 DEF BInv, Spins
<1>10. Served' /\ Fed'
  BY <1>1, <1>6, <1>9 DEF BInv, Served, Fed, Closed
<1>11. Follows'
  BY <1>1, <1>5, <1>6
     DEF BInv, Follows, Closed, Resting, AtRest, Stopped, HeldInReset, Restarting, Idle
<1>12. Spins'
  BY <1>1, <1>5, <1>6, <1>7, <1>9
     DEF BInv, Spins, Announced, Sensing, Flagged, Closed, Resting, Recalibrating, AtRest, Idle
<1> QED
  BY <1>4, <1>7, <1>8, <1>10, <1>11, <1>12 DEF BInv

(* All the BIOS knows of the controller, but the motors.                    *)
Agrees(f, g) ==
  /\ Shape(g) /\ g.pending = f.pending /\ g.normal = f.normal /\ g.complete = f.complete
  /\ g.msr = f.msr /\ g.result = f.result /\ g.timer = f.timer /\ g.drq = f.drq
  /\ g.irq = f.irq /\ g.index = f.index /\ g.st0 = f.st0 /\ g.tc = f.tc

LEMMA AgreesKnows ==
  ASSUME NEW f, NEW g, Agrees(f, g)
  PROVE  /\ AtRest(g) <=> AtRest(f)
         /\ Resting(g) <=> Resting(f)
         /\ Stopped(g) <=> Stopped(f)
         /\ HeldInReset(g) <=> HeldInReset(f)
         /\ Restarting(g) <=> Restarting(f)
         /\ Recalibrating(g) <=> Recalibrating(f)
         /\ \A r : Transferring(g, r) <=> Transferring(f, r)
         /\ \A d : Owed(g, d) <=> Owed(f, d)
BY DEF Agrees, AtRest, Resting, Stopped, HeldInReset, Restarting, Recalibrating, Transferring, Owed

(* Such a step leaves the interrupt line and what is latched of it alone.   *)
LEMMA AgreesKeeps ==
  ASSUME BInv, Data', Agrees(fdc, fdc'), dma' = dma, pc' = pc, call' = call, isr' = isr,
         request' <=> request, granted' => granted,
         bda'.intr = bda.intr, bda'.known = bda.known
  PROVE  Wires' /\ Served' /\ Fed' /\ Follows'
<1>1. /\ AtRest(fdc') <=> AtRest(fdc)
      /\ Resting(fdc') <=> Resting(fdc)
      /\ Stopped(fdc') <=> Stopped(fdc)
      /\ HeldInReset(fdc') <=> HeldInReset(fdc)
      /\ Restarting(fdc') <=> Restarting(fdc)
      /\ \A r : Transferring(fdc', r) <=> Transferring(fdc, r)
      /\ \A d : Owed(fdc', d) <=> Owed(fdc, d)
  BY AgreesKnows
<1>2. /\ fdc'.irq = fdc.irq /\ fdc'.result = fdc.result /\ fdc'.pending = fdc.pending
      /\ fdc'.normal = fdc.normal
  BY DEF Agrees
<1>3. Wires'
  BY <1>1, <1>2 DEF BInv, Wires
<1>4. Served' /\ Fed'
  BY <1>1 DEF BInv, Served, Fed
<1>5. Follows'
  BY <1>1, <1>2 DEF BInv, Follows
<1> QED
  BY <1>3, <1>4, <1>5

LEMMA Int08Step == ASSUME BInv, Int08 PROVE BInv'
<1> DEFINE g == OutDor(fdc, fdc.drive, {}, fdc.normal)
<1>1. /\ pc \in Waiting \cup {"caller"} /\ isr = "none" /\ isr' = isr
      /\ pc # "caller" => ~ticked
      /\ bda' = [bda EXCEPT !.ticks = CountDown]
      /\ ticked' = (pc # "caller") /\ ~granted'
      /\ dma' = dma /\ pc' = pc /\ call' = call
  BY DEF Int08, Enabled
<1>2. \/ bda.ticks = 1 /\ DeviceTo(g, xfer)
      \/ bda.ticks # 1 /\ UNCHANGED <<fdc, xfer, request>>
  BY DEF Int08
<1>3. Shape(fdc)
  BY KnownState
<1>4. /\ IInv' /\ Data' /\ Agrees(fdc, fdc') /\ (request' <=> request)
      /\ bda.ticks # 1 => fdc'.motors = fdc.motors
  <2>1. CASE bda.ticks = 1
    <3>1. IInv' /\ Data' /\ fdc' = g /\ Latch(fdc')
      BY <1>1, <1>2, <2>1, OutDorKeeps
    <3>2. Unmoved(fdc, g) /\ g.normal = fdc.normal /\ g.timer = fdc.timer
      BY <1>3, OutDorSame
    <3> HIDE DEF g
    <3>3. Agrees(fdc, fdc')
      BY <3>1, <3>2 DEF Unmoved, Agrees
    <3>4. request' <=> request
      <4>1. request => fdc.irq
        BY DEF BInv, Wires
      <4> QED
        BY <3>1, <3>3, <4>1 DEF Latch, WasReset, Agrees
    <3> QED
      BY <2>1, <3>1, <3>3, <3>4
  <2>2. CASE bda.ticks # 1
    BY <1>1, <1>2, <1>3, <2>2 DEF BInv, IInv, Data, Agrees
  <2> QED
    BY <2>1, <2>2
<1>5. /\ bda.ticks \in Nat
      /\ bda'.intr = bda.intr /\ bda'.known = bda.known
      /\ bda'.ticks = IF bda.ticks > 0 THEN bda.ticks - 1 ELSE 0
  BY <1>1 DEF BInv, Spins, CountDown
<1>6. Wires' /\ Served' /\ Fed' /\ Follows'
  BY <1>1, <1>4, <1>5, AgreesKeeps
<1>7. (Resting(fdc') <=> Resting(fdc)) /\ (Recalibrating(fdc') <=> Recalibrating(fdc))
  BY <1>4, AgreesKnows
<1>8. Announced \/ Sensing \/ Flagged => Announced' \/ Flagged'
  BY <1>1, <1>4, <1>5 DEF Announced, Sensing, Flagged
<1>9. ASSUME pc = "held"
      PROVE  /\ Resting(fdc') /\ (Announced' \/ Flagged') /\ bda'.ticks >= 1 /\ ticked'
             /\ fdc'.motors = {call.drive}
  <2>1. /\ Resting(fdc) /\ (Announced \/ Sensing \/ Flagged) /\ bda.ticks >= 2
        /\ fdc.motors = {call.drive} /\ ticked'
    BY <1>1, <1>9 DEF BInv, Spins
  <2>2. bda'.ticks >= 1
    BY <1>5, <2>1
  <2> QED
    BY <1>4, <1>5, <1>7, <1>8, <2>1, <2>2
<1>10. pc = "recal" => \/ Recalibrating(fdc') /\ ~request' /\ ~bda'.intr
                       \/ Resting(fdc') /\ (Announced' \/ Flagged')
  BY <1>4, <1>5, <1>7, <1>8 DEF BInv, Spins
<1>11. pc \notin {"ready", "released", "command"} /\ bda'.ticks \in Nat
  BY <1>1, <1>5 DEF Waiting
<1>12. Spins'
  BY <1>1, <1>9, <1>10, <1>11 DEF Spins
<1> QED
  BY <1>4, <1>6, <1>12 DEF BInv

LEMMA CallerHoldsResetStep == ASSUME BInv, CallerHoldsReset PROVE BInv'
<1> DEFINE g == OutDor(fdc, fdc.drive, fdc.motors, FALSE)
<1>0. /\ Running("caller") /\ fdc.normal /\ ~fdc.timer /\ DeviceTo(g, xfer)
      /\ dma' = dma /\ pc' = pc /\ bda' = bda /\ isr' = isr /\ call' = call
  BY DEF CallerHoldsReset
<1>0a. pc = "caller" /\ isr = "none" /\ ~request /\ ~granted'
  BY <1>0, RunningEffect DEF Looking
<1>1. /\ pc = "caller" /\ isr = "none" /\ ~request /\ ~granted'
      /\ fdc.normal /\ ~fdc.timer /\ DeviceTo(g, xfer) /\ dma' = dma
      /\ pc' = pc /\ bda' = bda /\ isr' = isr /\ call' = call
  BY <1>0, <1>0a
<1>2. IInv' /\ Data' /\ fdc' = g /\ Latch(fdc')
  BY <1>1, OutDorKeeps
<1>3. Resting(fdc) /\ ~fdc.irq /\ Shape(fdc)
  BY <1>1, KnownState DEF BInv, Follows, HeldInReset, Stopped, Wires, Resting
<1>4. /\ Shape(g) /\ g.pending = "reset" /\ ~g.normal
      /\ g.timer = fdc.timer /\ g.complete = fdc.complete /\ g.drq = fdc.drq /\ g.irq = fdc.irq
      /\ g.index = fdc.index
  <2>1. g = Hold(fdc)
    BY DEF Hold
  <2> HIDE DEF g
  <2> QED
    BY <1>1, <1>3, <2>1, HoldEffect
<1> HIDE DEF g
<1>5. HeldInReset(fdc')
  BY <1>1, <1>2, <1>3, <1>4 DEF HeldInReset, Stopped, Resting, AtRest
<1>6. ~request' /\ Wires'
  BY <1>1, <1>2, <1>3, <1>4, <1>5 DEF Latch, Wires, HeldInReset
<1> QED
  BY <1>1, <1>2, <1>5, <1>6 DEF BInv, Served, Fed, Follows, Spins, Closed, Places, Looking

(* The controller moves, by what it is doing.                               *)
LEMMA DeviceStep == ASSUME BInv, DeviceMoves PROVE BInv'
<1>1. Data /\ IInv /\ Known(fdc) /\ pc \in Places
  BY KnownState DEF BInv, Follows
<1>2. /\ IInv' /\ Data' /\ fdc'.motors = fdc.motors
      /\ ~HeldInReset(fdc)
      /\ AtRest(fdc) =>
           /\ AtRest(fdc') /\ fdc'.irq = fdc.irq /\ fdc'.normal = fdc.normal
           /\ dma' = dma /\ granted' = granted
      /\ fdc.pending \in {"reset", "recal"} =>
           /\ AtRest(fdc') /\ fdc'.irq /\ fdc'.normal = fdc.normal
           /\ dma' = dma /\ granted' = granted
      /\ \A r : Transferring(fdc, r) =>
           /\ Transferring(fdc', r) /\ (fdc.irq => fdc'.irq)
           /\ dma.dir = r.fn /\ Owed(fdc, dma) => dma'.dir = r.fn /\ Owed(fdc', dma')
  BY <1>1, DeviceEffect
<1>3. /\ Latch(fdc') /\ pc' = pc /\ call' = call /\ bda' = bda /\ isr' = isr /\ ticked' = ticked
      /\ granted' = granted \/ granted' = (granted \/ (request' /\ ~request))
  BY DEF DeviceMoves
<1>4. Served'
  BY <1>3 DEF BInv, Served
<1>5. CASE AtRest(fdc)
  <2>1. request' <=> request
    BY <1>2, <1>3, <1>5 DEF Latch, WasReset, BInv, Wires, AtRest, Idle
  <2>2. /\ Resting(fdc') <=> Resting(fdc)
        /\ ~Stopped(fdc) /\ ~Restarting(fdc) /\ ~Recalibrating(fdc)
    BY <1>2, <1>5 DEF Resting, AtRest, Stopped, Restarting, Recalibrating, Idle
  <2>3. pc \notin Looking \cup {"results"}
    BY <1>5 DEF BInv, Follows, Transferring, Transfers, AtRest, Idle
  <2>4. Wires'
    BY <1>2, <1>3, <1>5, <2>1 DEF BInv, Wires, AtRest, Idle
  <2>5. Fed' /\ Follows'
    BY <1>2, <1>3, <1>5, <2>1, <2>2, <2>3 DEF BInv, Fed, Follows
  <2>6. Spins'
    BY <1>2, <1>3, <2>1, <2>2 DEF BInv, Spins, Announced, Sensing, Flagged
  <2> QED
    BY <1>2, <1>4, <2>4, <2>5, <2>6 DEF BInv
<1>6. CASE fdc.pending = "reset"
  <2>1. ~AtRest(fdc) /\ ~Resting(fdc) /\ ~Recalibrating(fdc) /\ \A r : ~Transferring(fdc, r)
    BY <1>6 DEF AtRest, Resting, Recalibrating, Transferring, Transfers, Idle
  <2>2. request' /\ AtRest(fdc') /\ fdc'.irq /\ fdc'.pending = Idle
    BY <1>2, <1>3, <1>6 DEF Latch, WasReset, AtRest, Idle
  <2>3. pc \in {"released", "release", "restarted"}
    BY <1>1, <1>2, <2>1 DEF BInv, Follows, Spins, Places, Waiting, Closed, Looking
  <2>4. /\ pc \in {"released", "restarted"} => Resting(fdc')
        /\ pc = "release" => ~fdc'.normal
    BY <1>2, <1>6, <2>1, <2>2 DEF BInv, Follows, Spins, Resting, Restarting, Stopped
  <2>5. ~granted'
    BY <1>2, <1>6, <2>3 DEF BInv, Wires, Looking
  <2>6. isr = "sense" => pc = "release"
    BY <2>1 DEF BInv, Wires
  <2>7. Wires'
    BY <1>3, <2>2, <2>5, <2>6 DEF BInv, Wires, Idle
  <2>8. Fed'
    BY <1>2, <1>3, <1>6, <2>3 DEF BInv, Fed, Looking
  <2>9. Follows'
    BY <1>3, <2>2, <2>3, <2>4 DEF BInv, Follows, Closed, Looking
  <2>10. Spins'
    BY <1>2, <1>3, <2>2, <2>3, <2>4 DEF BInv, Spins
  <2> QED
    BY <1>2, <1>4, <2>7, <2>8, <2>9, <2>10 DEF BInv
<1>7. CASE Recalibrating(fdc)
  <2>1. /\ ~AtRest(fdc) /\ ~Resting(fdc) /\ ~Stopped(fdc) /\ ~Restarting(fdc)
        /\ \A r : ~Transferring(fdc, r)
    BY <1>7 DEF AtRest, Resting, Stopped, Restarting, Recalibrating, Transferring, Transfers, Idle
  <2>2. pc = "recal"
    BY <1>1, <1>2, <2>1 DEF BInv, Follows, Spins, Places, Waiting, Closed, Looking
  <2>3. AtRest(fdc') /\ Resting(fdc') /\ fdc'.irq /\ request' /\ granted' = granted /\ dma' = dma
    BY <1>2, <1>3, <1>7 DEF Recalibrating, Resting, Latch
  <2>4. isr = "none" /\ ~granted /\ ~bda.intr
    BY <2>1, <2>2 DEF BInv, Wires, Spins, Looking
  <2>5. Wires'
    BY <1>3, <2>3, <2>4 DEF BInv, Wires, AtRest, Idle
  <2>6. Fed' /\ Follows'
    BY <1>3, <2>2, <2>3 DEF BInv, Fed, Follows, Closed, Looking
  <2>7. Spins'
    BY <1>2, <1>3, <2>2, <2>3, <2>4 DEF BInv, Spins, Announced
  <2> QED
    BY <1>2, <1>4, <2>5, <2>6, <2>7 DEF BInv
<1>8. CASE \E r : Transferring(fdc, r)
  <2>1. ~AtRest(fdc) /\ ~Resting(fdc) /\ ~Stopped(fdc) /\ ~Restarting(fdc) /\ ~Recalibrating(fdc)
    BY <1>8 DEF AtRest, Resting, Stopped, Restarting, Recalibrating, Transferring, Transfers, Idle
  <2>2. pc \in Looking \cup {"results"}
    BY <1>1, <1>2, <2>1 DEF BInv, Follows, Spins, Places, Waiting, Closed, Looking
  <2>3. /\ Transferring(fdc, call) /\ Transferring(fdc', call) /\ (fdc.irq => fdc'.irq)
        /\ dma'.dir = call.fn /\ Owed(fdc', dma')
    BY <1>2, <2>2 DEF BInv, Follows, Fed
  <2>4. /\ fdc.irq <=> fdc.result # <<>>
        /\ fdc'.irq <=> fdc'.result # <<>>
        /\ ~AtRest(fdc') /\ fdc.pending # "reset" /\ fdc'.pending # "reset"
    BY <2>3 DEF Transferring, Transfers, AtRest, Idle
  <2>5. /\ request' => fdc'.irq
        /\ fdc.irq => (request' <=> request)
        /\ request => request'
    BY <1>3, <2>3, <2>4 DEF Latch, WasReset, BInv, Wires
  <2>6. isr = "none"
    BY <2>1, <2>2 DEF BInv, Wires, Looking
  <2>7. pc = "results" => ~request' /\ fdc'.result # <<>>
    BY <2>3, <2>4, <2>5 DEF BInv, Follows, Closed
  <2>8. granted' => request' /\ pc \in Looking
    BY <1>3, <2>2, <2>5, <2>7 DEF BInv, Wires
  <2>9. Wires'
    BY <1>3, <2>4, <2>5, <2>6, <2>8 DEF Wires
  <2>10. Fed'
    BY <1>3, <2>2, <2>3 DEF Fed, Looking
  <2>11. pc \in Looking /\ bda.intr => fdc'.result # <<>> /\ ~request'
    BY <2>3, <2>4, <2>5 DEF BInv, Follows
  <2>12. Follows'
    BY <1>3, <2>2, <2>3, <2>6, <2>7, <2>11 DEF BInv, Follows, Closed, Looking
  <2>13. Spins'
    BY <1>3, <2>2 DEF BInv, Spins, Looking
  <2> QED
    BY <1>2, <1>4, <2>9, <2>10, <2>12, <2>13 DEF BInv
<1> QED
  BY <1>1, <1>5, <1>6, <1>7, <1>8 DEF Known, Stopped, Restarting

LEMMA AlikeAgrees == ASSUME NEW f, NEW g, Alike(f, g) PROVE Agrees(f, g) /\ g.motors = f.motors
BY DEF Alike, Like, Agrees

LEMMA DisketteChangesStep == ASSUME BInv, DisketteChanges PROVE BInv'
<1>1. PICK d \in Drives, inserted \in BOOLEAN, readonly \in BOOLEAN :
        RuntimeConfig(d, inserted, readonly)
  BY DEF DisketteChanges
<1>2. IInv' /\ Shape(fdc)
  BY <1>1, RuntimeConfigStep, KnownState DEF BInv
<1>3. Alike(fdc, fdc')
  <2> DEFINE out == SetMediaStatus(fdc, d, FALSE)
             new == IF inserted THEN SetMediaStatus(out, d, TRUE) ELSE out
             set == IF readonly THEN new.protected \cup {d} ELSE new.protected \ {d}
             g   == [new EXCEPT !.protected = set]
  <2>1. fdc' = g
    BY <1>1 DEF RuntimeConfig, Becomes
  <2>2. Alike(fdc, out)
    BY <1>2, MediaAlike
  <2> HIDE DEF out
  <2>a. Shape(out)
    BY <2>2 DEF Alike, Like
  <2>3. Alike(out, SetMediaStatus(out, d, TRUE))
    BY <2>a, MediaAlike
  <2>4. Alike(fdc, new)
    BY <2>2, <2>3, AlikeAlike
  <2> HIDE DEF new, set
  <2>5. Alike(new, g)
    BY <2>4 DEF Alike, Like, Shape, Fields, ChangeLine
  <2> HIDE DEF g
  <2> QED
    BY <2>1, <2>4, <2>5, AlikeAlike
<1>4. Agrees(fdc, fdc') /\ fdc'.motors = fdc.motors
  BY <1>3, AlikeAgrees
<1>5. /\ dma' = dma /\ pc' = pc /\ call' = call /\ bda' = bda /\ isr' = isr
      /\ request' = request /\ ticked' = ticked /\ granted' = granted
  BY <1>1 DEF DisketteChanges, RuntimeConfig, bios
<1>6. Data'
  BY <1>4, <1>5 DEF BInv, Data, Agrees
<1>7. Wires' /\ Served' /\ Fed' /\ Follows'
  BY <1>4, <1>5, <1>6, AgreesKeeps
<1>8. /\ Resting(fdc') <=> Resting(fdc)
      /\ Restarting(fdc') <=> Restarting(fdc)
      /\ Recalibrating(fdc') <=> Recalibrating(fdc)
  BY <1>4, AgreesKnows
<1>9. Spins'
  BY <1>4, <1>5, <1>8 DEF BInv, Spins, Announced, Sensing, Flagged
<1> QED
  BY <1>2, <1>6, <1>7, <1>9 DEF BInv

LEMMA BNextStep == ASSUME BInv, [BNext]_bvars PROVE BInv'
<1>1. CASE Int13
  BY <1>1, CallStep, PrepareStep, ReadyStep, ReleasedStep, HeldStep, CommandStep,
     RecalibratedStep, ProgramStep, LookAtTicksStep, LookAtInterruptStep, HoldControllerStep,
     ReleaseControllerStep, TimedOutStep, ResultsStep DEF Int13
<1>2. CASE Int0e
  BY <1>2, Int0eStep
<1>3. CASE SenseInterrupt
  BY <1>3, SenseStep
<1>4. CASE Int08
  BY <1>4, Int08Step
<1>5. CASE CallerHoldsReset
  BY <1>5, CallerHoldsResetStep
<1>6. CASE DeviceMoves
  BY <1>6, DeviceStep
<1>7. CASE DisketteChanges
  BY <1>7, DisketteChangesStep
<1>8. CASE UNCHANGED bvars
  <2>1. UNCHANGED <<fdc, dma, xfer, pc, call, bda, isr, request, granted, ticked>>
    BY <1>8 DEF bvars, vars, bios
  <2> QED
    BY <2>1 DEF BInv, IInv, Data, Wires, Served, Fed, Follows, Spins, Announced, Sensing, Flagged
<1> QED
  BY <1>1, <1>2, <1>3, <1>4, <1>5, <1>6, <1>7, <1>8 DEF BNext

(* The inductive invariant: where INT 13h is tells what the controller      *)
(* does, and who knows of its interrupt.                                    *)
THEOREM BiosInvariance == BSpec => []BInv
<1>1. BInit => BInv
  BY BInitBInv
<1>2. BInv /\ [BNext]_bvars => BInv'
  BY BNextStep
<1> QED
  BY <1>1, <1>2, PTL DEF BSpec

-----------------------------------------------------------------------------
(* The properties.                                                          *)

(* INT 13h and INT 0Eh give no command to a controller that would panic or  *)
(* lose it, whatever the countdown of the motor does meanwhile, but for the *)
(* interrupt that comes while the controller is being reset (Overtaken).    *)
THEOREM BiosCommandsAreTaken == BSpec => []CommandsAreTaken
<1>1. ASSUME BInv PROVE CommandsAreTaken
  <2>1. ASSUME pc = "command", isr = "none" PROVE Takes(Given.c, Given.p)
    <3>1. Resting(fdc) /\ fdc.motors = {call.drive}
      BY <1>1, <2>1 DEF BInv, Follows, Spins
    <3>2. Given.p.drive = call.drive
      BY DEF Given, NoParameters
    <3> QED
      BY <3>1, <3>2 DEF Takes, DriveReady, Resting, AtRest, Panics
  <2>2. ASSUME isr = "sense" PROVE Takes("sense", NoParameters) \/ Overtaken
    <3>1. AtRest(fdc) \/ (pc = "release" /\ fdc.pending = "reset")
      BY <1>1, <2>2 DEF BInv, Wires
    <3>2. AtRest(fdc) => Takes("sense", NoParameters)
      BY DEF Takes, DriveReady, AtRest, Panics, Transfers
    <3> QED
      BY <2>2, <3>1, <3>2 DEF Overtaken
  <2> QED
    BY <2>1, <2>2 DEF CommandsAreTaken
<1> QED
  BY <1>1, BiosInvariance, PTL

(* The BIOS halts for no result that is missing, and for no write error but *)
(* that of a sector no track has.                                           *)
THEOREM BiosHaltsOnlyPastTrack == BSpec => []HaltsOnlyPastTrack
<1>1. BInv => HaltsOnlyPastTrack
  BY DEF BInv, Follows, HaltsOnlyPastTrack
<1> QED
  BY <1>1, BiosInvariance, PTL

(* No unit moves over the DMA channel while the caller runs, also after a   *)
(* call that has timed out.                                                 *)
THEOREM BiosLeavesNothingMoving == BSpec => NothingMovesLater
<1>1. ASSUME BInv, [BNext]_bvars PROVE dma'.left < dma.left => pc # "caller"
  <2> SUFFICES ASSUME pc = "caller" PROVE dma' = dma
    BY <1>1 DEF BInv, Data
  <2>1. Resting(fdc) \/ HeldInReset(fdc)
    BY <1>1 DEF BInv, Follows
  <2>2. DeviceMoves => dma' = dma
    BY <1>1, <2>1, KnownState, DeviceEffect DEF BInv, Resting
  <2>3. Int13 => dma' = dma
    BY DEF Int13, Running, Quiet, vars, Call, Prepare, Ready, Released, Held, Command,
           Recalibrated, Program, LookAtTicks, LookAtInterrupt, HoldController,
           ReleaseController, TimedOut, Results
  <2>4. Int0e \/ SenseInterrupt \/ Int08 \/ CallerHoldsReset => dma' = dma
    BY DEF Int0e, SenseInterrupt, Int08, CallerHoldsReset, vars
  <2>5. DisketteChanges => dma' = dma
    BY DEF DisketteChanges, RuntimeConfig
  <2> QED
    BY <1>1, <2>2, <2>3, <2>4, <2>5 DEF BNext, bvars, vars
<1> QED
  BY <1>1, BiosInvariance, PTL DEF BSpec, NothingMovesLater
-----------------------------------------------------------------------------
(* The sectors of a request.  LastAsked is the end of track the controller  *)
(* is given; the heads have reached the k-th sector from the first one on:  *)
(* on the request's own track if that has all of them, or else wherever     *)
(* the tracks continue, and past the last cylinder once the image ends.     *)
LastAsked(r) == r.at.sec + r.n - 1

Reached(r, k, chs) ==
  /\ chs \in [cyl : Nat, head : {0, 1}, sec : 1..SecPerTrk]
  /\ Logical(r.at) + k < Image => Logical(chs) = Logical(r.at) + k
  /\ Logical(r.at) + k >= Image => chs.cyl >= Tracks
  /\ LastAsked(r) <= SecPerTrk => chs.sec = r.at.sec + k

(* A transfer that runs: the units left are those of the sectors left, and  *)
(* only a write that has them all has seen its terminal count.              *)
Proceeds(f, d, r, k) ==
  /\ f.drive \in Drives /\ f.multi /\ f.eot = LastAsked(r) /\ f.index = 0
  /\ d.dir = r.fn /\ d.left = (r.n - k) * BytesPerSec
  /\ k < r.n => Reached(r, k, f.at[f.drive]) /\ (r.fn = "read" => f.buffer = Wanted(r)[k + 1])
  /\ k = r.n <=> r.fn = "write" /\ f.timer /\ f.tc

HasMoved(x, r) ==
  /\ {"sectors", "intact"} \subseteq DOMAIN x
  /\ x.sectors \in Seq(Int) /\ Len(x.sectors) <= r.n
  /\ (r.fn = "write" => OnDiskette(r)) =>
       \A i \in 1..Len(x.sectors) : x.sectors[i] = Wanted(r)[i]

(* Not so if the timer of an earlier reset runs as well.                    *)
Delivered(f, d, x, r) ==
  /\ HasMoved(x, r)
  /\ ~(f.timer /\ f.drq)
  /\ f.result # <<>> => ~f.timer /\ ~f.drq
  /\ f.timer \/ f.drq => Proceeds(f, d, r, Len(x.sectors))
  /\ f.result # <<>> /\ f.st0.ic = "normal" => Len(x.sectors) = r.n

LEMMA Units ==
  ASSUME NEW m \in Nat \ {0}, NEW b \in Nat \ {0}
  PROVE  /\ m * b \in Nat /\ m * b > 0 /\ m * b >= b
         /\ m * b <= b <=> m = 1
         /\ (m - 1) * b = m * b - b
<1>1. m * b \in Nat /\ 1 * b = b
  OBVIOUS
<1>2. (m - 1) * b = m * b - b
  BY SMT
<1>3. CASE m = 1
  BY <1>1, <1>2, <1>3
<1>4. CASE 1 < m
  <2>1. 1 * b + b <= m * b
    BY <1>4, ProductGrows
  <2> QED
    BY <1>1, <1>2, <1>4, <2>1
<1> QED
  BY <1>3, <1>4

(* One sector on: the track wraps where it ends, for a request of several   *)
(* tracks as well as for one whose last sector comes before.                *)
LEMMA NextSector ==
  ASSUME NEW cyl \in Nat, NEW head \in {0, 1}, NEW sec \in 1..SecPerTrk
  PROVE  /\ sec < SecPerTrk =>
              Logical([cyl |-> cyl, head |-> head, sec |-> sec + 1])
                = Logical([cyl |-> cyl, head |-> head, sec |-> sec]) + 1
         /\ sec = SecPerTrk =>
              /\ Logical([cyl |-> cyl, head |-> 1, sec |-> 1])
                   = Logical([cyl |-> cyl, head |-> 0, sec |-> sec]) + 1
              /\ Logical([cyl |-> cyl + 1, head |-> 0, sec |-> 1])
                   = Logical([cyl |-> cyl, head |-> 1, sec |-> sec]) + 1
<1> DEFINE s == SecPerTrk
           L(c, h, i) == (c * 2 + h) * s + (i - 1)
<1>1. \A c, h, i : Logical([cyl |-> c, head |-> h, sec |-> i]) = L(c, h, i)
  BY DEF Logical, LogicalSector, NumHeads
<1>2. s \in Nat \ {0}
  BY Sizes
<1> HIDE DEF s
<1>3. \A a \in Nat : (a + 1) * s = a * s + s /\ a * s \in Nat
  BY <1>2
<1>4. sec \in Nat
  BY Sizes
<1>5. L(cyl, head, sec + 1) = L(cyl, head, sec) + 1
  BY <1>3, <1>4
<1>6. sec = s => L(cyl, 1, 1) = L(cyl, 0, sec) + 1
  <2>1. cyl * 2 + 0 \in Nat /\ cyl * 2 + 1 = (cyl * 2 + 0) + 1
    OBVIOUS
  <2> QED
    BY <1>2, <1>3, <2>1
<1>7. sec = s => L(cyl + 1, 0, 1) = L(cyl, 1, sec) + 1
  <2>1. cyl * 2 + 1 \in Nat /\ (cyl + 1) * 2 + 0 = (cyl * 2 + 1) + 1
    OBVIOUS
  <2> QED
    BY <1>2, <1>3, <2>1
<1> HIDE DEF L
<1> QED
  BY <1>1, <1>5, <1>6, <1>7 DEF s

Wants(r) ==
  /\ r \in Requests /\ Refusal(r) = 0
  /\ r.fn \in Transfers

LEMMA RequestIs ==
  ASSUME NEW r \in Requests, Refusal(r) = 0
  PROVE  /\ r.drive \in Drives /\ r.n \in Nat \ {0}
         /\ r.at = [cyl |-> r.at.cyl, head |-> r.at.head, sec |-> r.at.sec]
         /\ r.at.cyl \in Nat /\ r.at.cyl < Tracks /\ r.at.head \in {0, 1}
         /\ r.at.sec \in Nat \ {0}
         /\ LastAsked(r) \in Nat \ {0} /\ LastAsked(r) = r.at.sec + r.n - 1
         /\ Image \in Nat /\ Logical(r.at) \in Int
<1>1. /\ ~(r.drive > 1 \/ r.at.sec = 0 \/ r.n = 0 \/ r.n > MaxSectors) /\ r.drive \in Drives
  BY DEF Refusal
<1>2. /\ r.n \in 0..(MaxSectors + 1) /\ MaxSectors \in Nat
      /\ r.at \in [cyl : 0..(Tracks - 1), head : {0, 1}, sec : 0..(SecPerTrk + 1)]
  BY BiosAssumption DEF Requests
<1>3. r.n \in Nat \ {0} /\ r.at.sec \in Nat \ {0}
  BY <1>1, <1>2, Sizes
<1>4. /\ r.at = [cyl |-> r.at.cyl, head |-> r.at.head, sec |-> r.at.sec]
      /\ r.at.cyl \in Nat /\ r.at.cyl < Tracks /\ r.at.head \in {0, 1}
  BY <1>2, Sizes
<1>5. LastAsked(r) \in Nat \ {0} /\ LastAsked(r) = r.at.sec + r.n - 1
  BY <1>3 DEF LastAsked
<1>6. Image \in Nat
  BY Sizes DEF Image, NumHeads
<1>7. Logical(r.at) \in Int
  BY <1>3, <1>4, Sizes DEF Logical, LogicalSector, NumHeads
<1> QED
  BY <1>1, <1>3, <1>4, <1>5, <1>6, <1>7

LEMMA WantedIs ==
  ASSUME NEW r \in Requests, Refusal(r) = 0, NEW k \in Nat, k < r.n
  PROVE  /\ Wanted(r)[k + 1] = IF Logical(r.at) + k < Image THEN Logical(r.at) + k ELSE -1
         /\ Wanted(r)[k + 1] \in Int
<1>1. /\ r.n \in Nat /\ Logical(r.at) \in Int
  BY RequestIs
<1>2. k + 1 \in 1..r.n /\ Logical(r.at) + (k + 1) - 1 = Logical(r.at) + k
  BY <1>1
<1>3. Wanted(r)[k + 1] =
        IF Logical(r.at) + (k + 1) - 1 < Image THEN Logical(r.at) + (k + 1) - 1 ELSE -1
  BY <1>2 DEF Wanted, Image
<1> QED
  BY <1>1, <1>2, <1>3

(* The heads begin at the first sector, which the image has.                *)
LEMMA FirstReached ==
  ASSUME NEW r \in Requests, Refusal(r) = 0, r.at.sec <= SecPerTrk
  PROVE  Reached(r, 0, r.at)
<1>1. /\ r.at = [cyl |-> r.at.cyl, head |-> r.at.head, sec |-> r.at.sec]
      /\ r.at.cyl \in Nat /\ r.at.cyl < Tracks /\ r.at.head \in {0, 1} /\ r.at.sec \in 1..SecPerTrk
      /\ r.at.sec \in Nat /\ Logical(r.at) \in Int /\ Image \in Nat
  BY RequestIs, Sizes
<1>2. Logical(r.at) < Image
  BY <1>1, InImage
<1> QED
  BY <1>1, <1>2 DEF Reached

(* What the controller fetches there is the sector asked for.               *)
LEMMA FetchWanted ==
  ASSUME NEW r \in Requests, Refusal(r) = 0, NEW k \in Nat, k < r.n, NEW chs, Reached(r, k, chs),
         NEW f
  PROVE  Fetch(f, chs) = [f EXCEPT !.buffer = Wanted(r)[k + 1]]
<1>1. /\ chs = [cyl |-> chs.cyl, head |-> chs.head, sec |-> chs.sec]
      /\ chs.cyl \in Nat /\ chs.head \in {0, 1} /\ chs.sec \in 1..SecPerTrk
  BY DEF Reached
<1>2. Logical(chs) \in Nat /\ (Logical(chs) < Image <=> chs.cyl < Tracks)
  BY <1>1, InImage
<1>3. Logical(r.at) \in Int /\ Image \in Nat /\ Tracks \in Nat
  BY RequestIs, Sizes
<1>4. CASE Logical(r.at) + k < Image
  <2>1. Logical(chs) = Logical(r.at) + k
    BY <1>4 DEF Reached
  <2>2. Wanted(r)[k + 1] = Logical(r.at) + k
    BY <1>4, WantedIs
  <2> QED
    BY <1>4, <2>1, <2>2 DEF Fetch, Image
<1>5. CASE Logical(r.at) + k >= Image
  <2>1. ~(Logical(chs) < Image)
    BY <1>1, <1>2, <1>3, <1>5 DEF Reached
  <2>2. Wanted(r)[k + 1] = -1
    <3>1. ~(Logical(r.at) + k < Image)
      BY <1>3, <1>5
    <3> QED
      BY <3>1, WantedIs
  <2> QED
    BY <2>1, <2>2 DEF Fetch, Image
<1> QED
  BY <1>3, <1>4, <1>5

(* Two controllers that differ in where the heads are at most.              *)
SameButHeads(f, g) ==
  /\ Shape(g) /\ DOMAIN g.at = DOMAIN f.at
  /\ g.drive = f.drive /\ g.pending = f.pending /\ g.result = f.result /\ g.st0 = f.st0
  /\ g.eot = f.eot /\ g.multi = f.multi /\ g.tc = f.tc /\ g.buffer = f.buffer
  /\ g.timer = f.timer /\ g.drq = f.drq

LEMMA IncrementSectorReaches ==
  ASSUME NEW f, Shape(f), f.drive \in DOMAIN f.at
  PROVE  LET g == IncrementSector(f) IN
         /\ SameButHeads(f, g) /\ g.index = f.index
         /\ \A r \in Requests, k \in Nat :
              /\ Refusal(r) = 0 /\ k + 1 < r.n /\ f.multi /\ f.eot = LastAsked(r)
              /\ Reached(r, k, f.at[f.drive])
              => Reached(r, k + 1, g.at[f.drive])
<1> DEFINE at   == f.at[f.drive]
           wrap == EndOfTrack(f, at.sec + 1)
           step == wrap /\ (f.multi => at.head = 1)
           new  == [cyl  |-> IF step THEN NextCylinder(at.cyl) ELSE at.cyl,
                    head |-> IF wrap /\ f.multi THEN 1 - at.head ELSE at.head,
                    sec  |-> IF wrap THEN 1 ELSE at.sec + 1]
           g    == [f EXCEPT !.at[f.drive] = new]
           h    == IncrementSector(f)
<1>1. h = IF step THEN ResetChangeline(g) ELSE g
  BY DEF IncrementSector
<1>2. wrap <=> at.sec + 1 > f.eot \/ at.sec + 1 > SecPerTrk
  BY DEF EndOfTrack
<1>3. /\ new.cyl = IF step THEN NextCylinder(at.cyl) ELSE at.cyl
      /\ new.head = IF wrap /\ f.multi THEN 1 - at.head ELSE at.head
      /\ new.sec = IF wrap THEN 1 ELSE at.sec + 1
      /\ new = [cyl |-> new.cyl, head |-> new.head, sec |-> new.sec]
  OBVIOUS
<1>4. step <=> wrap /\ (f.multi => at.head = 1)
  OBVIOUS
<1> HIDE DEF new, step, wrap
<1>5. SameButHeads(f, g) /\ g.index = f.index /\ g.at[f.drive] = new
  BY DEF SameButHeads, Shape, Fields
<1> HIDE DEF g, h, at
<1>6. SameButHeads(f, h) /\ h.index = f.index /\ h.at = g.at
  <2>1. CASE ~step
    BY <1>1, <1>5, <2>1
  <2>2. CASE step
    <3>1. Shape(g)
      BY <1>5 DEF SameButHeads
    <3>2. Same(g, ResetChangeline(g))
      BY <3>1, ResetChangelineSame
    <3> QED
      BY <1>1, <1>5, <2>2, <3>2 DEF Same, SameButHeads
  <2> QED
    BY <2>1, <2>2
<1>7. ASSUME NEW r \in Requests, NEW k \in Nat, Refusal(r) = 0, k + 1 < r.n,
             f.multi, f.eot = LastAsked(r), Reached(r, k, at)
      PROVE  Reached(r, k + 1, new)
  <2> DEFINE c == at.cyl
             hd == at.head
             s == at.sec
             L == Logical(r.at)
  <2>1. /\ at = [cyl |-> c, head |-> hd, sec |-> s]
        /\ c \in Nat /\ hd \in {0, 1} /\ s \in 1..SecPerTrk /\ s \in Nat \ {0}
        /\ L + k < Image => Logical(at) = L + k
        /\ L + k >= Image => c >= Tracks
        /\ LastAsked(r) <= SecPerTrk => s = r.at.sec + k
    BY <1>7, Sizes DEF Reached
  <2>2. /\ r.n \in Nat /\ r.at.sec \in Nat \ {0} /\ L \in Int /\ Image \in Nat
        /\ LastAsked(r) = r.at.sec + r.n - 1
        /\ SecPerTrk \in Nat \ {0} /\ Tracks \in Nat \ {0}
    BY <1>7, RequestIs, Sizes
  <2>3. Logical(at) \in Nat /\ (Logical(at) < Image <=> c < Tracks)
    BY <2>1, InImage
  <2> HIDE DEF c, hd, s, L
  <2>4. wrap <=> s = SecPerTrk /\ LastAsked(r) > SecPerTrk
    <3>1. wrap <=> s + 1 > LastAsked(r) \/ s + 1 > SecPerTrk
      BY <1>2, <1>7 DEF s
    <3> QED
      BY <1>7, <2>1, <2>2, <3>1
  <2>5. ~wrap => new.cyl = c /\ new.head = hd /\ new.sec = s + 1 /\ new.sec \in 1..SecPerTrk
    <3>1. ~wrap => s < SecPerTrk
      BY <1>7, <2>1, <2>2, <2>4
    <3> QED
      BY <1>3, <1>4, <2>1, <2>2, <3>1 DEF c, hd, s
  <2>6. wrap => /\ new.sec = 1 /\ new.head = 1 - hd
                /\ new.cyl = IF hd = 1 THEN NextCylinder(c) ELSE c
    BY <1>3, <1>4, <1>7 DEF c, hd
  <2>7. /\ new \in [cyl : Nat, head : {0, 1}, sec : 1..SecPerTrk]
        /\ c >= Tracks => new.cyl >= Tracks
    <3>1. NextCylinder(c) \in Nat /\ (c >= Tracks => NextCylinder(c) >= Tracks)
      BY <2>1, <2>2 DEF NextCylinder
    <3>2. new.cyl \in Nat /\ new.head \in {0, 1} /\ new.sec \in 1..SecPerTrk
      BY <2>1, <2>2, <2>5, <2>6, <3>1
    <3>3. c >= Tracks => new.cyl >= Tracks
      BY <2>1, <2>2, <2>5, <2>6, <3>1
    <3> QED
      BY <1>3, <3>2, <3>3
  <2>8. c < Tracks => Logical(new) = Logical(at) + 1
    <3>1. new = [cyl |-> new.cyl, head |-> new.head, sec |-> new.sec]
      BY <1>3
    <3>2. CASE ~wrap
      <4>1. s < SecPerTrk
        BY <1>7, <2>1, <2>2, <2>4, <3>2
      <4>2. Logical([cyl |-> c, head |-> hd, sec |-> s + 1]) = Logical([cyl |-> c, head |-> hd, sec |-> s]) + 1
        BY <2>1, <4>1, NextSector
      <4> QED
        BY <2>1, <2>5, <3>1, <3>2, <4>2
    <3>3. CASE wrap
      <4>1. s = SecPerTrk
        BY <2>4, <3>3
      <4>2. /\ Logical([cyl |-> c, head |-> 1, sec |-> 1]) = Logical([cyl |-> c, head |-> 0, sec |-> s]) + 1
            /\ Logical([cyl |-> c + 1, head |-> 0, sec |-> 1]) = Logical([cyl |-> c, head |-> 1, sec |-> s]) + 1
        BY <2>1, <4>1, NextSector
      <4>3. c < Tracks => NextCylinder(c) = c + 1
        BY <2>1, <2>2 DEF NextCylinder
      <4>4. hd = 0 \/ hd = 1
        BY <2>1
      <4>5. CASE hd = 0
        BY <2>1, <2>6, <3>1, <3>3, <4>2, <4>5
      <4>6. CASE hd = 1
        BY <2>1, <2>6, <3>1, <3>3, <4>2, <4>3, <4>6
      <4> QED
        BY <4>4, <4>5, <4>6
    <3> QED
      BY <3>2, <3>3
  <2>9. Logical(new) \in Nat /\ (Logical(new) < Image <=> new.cyl < Tracks)
    <3>1. new.cyl \in Nat /\ new.head \in {0, 1} /\ new.sec \in 1..SecPerTrk
      BY <2>7
    <3> QED
      BY <1>3, <3>1, InImage
  <2>10. new.cyl \in Nat
    BY <2>7
  <2>11. L + (k + 1) < Image => Logical(new) = L + (k + 1)
    <3>1. SUFFICES ASSUME L + (k + 1) < Image PROVE Logical(new) = L + (k + 1)
      OBVIOUS
    <3>2. L + k < Image
      BY <2>2, <3>1
    <3> QED
      BY <2>1, <2>2, <2>3, <2>8, <3>2
  <2>12. L + (k + 1) >= Image => new.cyl >= Tracks
    <3>1. SUFFICES ASSUME L + (k + 1) >= Image, ~(c >= Tracks) PROVE new.cyl >= Tracks
      BY <2>7
    <3>2. c < Tracks /\ L + k < Image
      BY <2>1, <2>2, <3>1
    <3>3. Logical(new) = L + k + 1
      BY <2>1, <2>8, <3>2
    <3> QED
      BY <2>2, <2>9, <2>10, <3>1, <3>3
  <2>13. LastAsked(r) <= SecPerTrk => new.sec = r.at.sec + (k + 1)
    BY <2>1, <2>2, <2>4, <2>5
  <2> QED
    BY <2>7, <2>11, <2>12, <2>13 DEF Reached, L
<1>8. h.at[f.drive] = new
  BY <1>5, <1>6
<1> QED
  BY <1>6, <1>7, <1>8 DEF h, at

LEMMA SameDelivered ==
  ASSUME NEW f, NEW g, Same(f, g), NEW d, NEW x, NEW r, Delivered(f, d, x, r)
  PROVE  Delivered(g, d, x, r)
BY DEF Same, Delivered, Proceeds

(* The history of a transfer keeps it while the transfer is pending.        *)
LEMMA StillPending ==
  ASSUME NEW f, NEW x, Becomes(f, x), f.pending \in Transfers
  PROVE  fdc' = f /\ xfer' = x
BY DEF Becomes, Positioned, Transfers

(* One sector more.                                                         *)
LEMMA DoneMoves ==
  ASSUME NEW r, Wants(r), HasMoved(xfer, r), Len(xfer.sectors) < r.n, NEW sector \in Int,
         (r.fn = "write" => OnDiskette(r)) => sector = Wanted(r)[Len(xfer.sectors) + 1]
  PROVE  /\ HasMoved(Done(sector), r)
         /\ Len(Done(sector).sectors) = Len(xfer.sectors) + 1
<1> DEFINE x == Done(sector)
           k == Len(xfer.sectors)
<1>a. r \in Requests /\ Refusal(r) = 0
  BY DEF Wants
<1>b. r.n \in Nat \ {0}
  BY <1>a, RequestIs
<1>c. xfer.sectors \in Seq(Int)
  BY DEF HasMoved
<1>1. r.n \in Nat /\ xfer.sectors \in Seq(Int) /\ k \in Nat /\ k < r.n
  BY <1>b, <1>c
<1>2. x.sectors = Append(xfer.sectors, sector) /\ DOMAIN x = DOMAIN xfer
  BY DEF Done, HasMoved
<1>3. x.sectors \in Seq(Int) /\ Len(x.sectors) = k + 1
  BY <1>1, <1>2
<1>4. \A i \in 1..Len(x.sectors) : x.sectors[i] = IF i = k + 1 THEN sector ELSE xfer.sectors[i]
  BY <1>1, <1>2
<1>5. ASSUME r.fn = "write" => OnDiskette(r), NEW i \in 1..Len(x.sectors)
      PROVE  x.sectors[i] = Wanted(r)[i]
  <2>1. \A j \in 1..k : xfer.sectors[j] = Wanted(r)[j]
    BY <1>5 DEF HasMoved
  <2>2. sector = Wanted(r)[k + 1]
    BY <1>5
  <2>3. i = k + 1 \/ i \in 1..k
    BY <1>1, <1>3, <1>5
  <2> HIDE DEF x, k
  <2> QED
    BY <1>4, <1>5, <2>1, <2>2, <2>3
<1> HIDE DEF x
<1>6. HasMoved(x, r)
  BY <1>1, <1>2, <1>3, <1>5 DEF HasMoved
<1> QED
  BY <1>3, <1>6 DEF x

(* A unit is due: at least one sector is left, and the DMA takes it whole.  *)
LEMMA DueIsWanted ==
  ASSUME NEW r, Wants(r), Shape(fdc), Transferring(fdc, r), Delivered(fdc, dma, xfer, r),
         TransferDue, Channel
  PROVE  LET k == Len(xfer.sectors)
             f == Moved(fdc)
         IN
         /\ k \in Nat /\ k < r.n /\ fdc.drq /\ ~fdc.timer /\ fdc.result = <<>> /\ dma.dir = r.fn
         /\ fdc.drive \in Drives /\ fdc.multi /\ fdc.eot = LastAsked(r)
         /\ Reached(r, k, fdc.at[fdc.drive])
         /\ r.fn = "read" => fdc.buffer = Wanted(r)[k + 1]
         /\ f.index = BytesPerSec /\ f.index - fdc.index = BytesPerSec
         /\ dma.left - BytesPerSec = (r.n - (k + 1)) * BytesPerSec
         /\ f.tc <=> k + 1 = r.n
         /\ Shape(f) /\ f.at = fdc.at /\ f.drive = fdc.drive /\ f.multi /\ f.eot = LastAsked(r)
         /\ f.pending = r.fn /\ f.result = <<>> /\ ~f.timer
<1> DEFINE k == Len(xfer.sectors)
           f == Moved(fdc)
           b == BytesPerSec
           m == r.n - k
<1>a. r \in Requests /\ Refusal(r) = 0
  BY DEF Wants
<1>b. r.n \in Nat \ {0}
  BY <1>a, RequestIs
<1>c. xfer.sectors \in Seq(Int) /\ k <= r.n
  BY DEF Delivered, HasMoved
<1>1. /\ r.n \in Nat /\ k \in Nat /\ k <= r.n /\ b \in Nat \ {0}
  BY <1>b, <1>c, Sizes
<1>2. fdc.drq /\ ~fdc.timer /\ fdc.result = <<>> /\ fdc.index = 0
  BY DEF TransferDue, Transferring, Delivered, Proceeds
<1>3. Proceeds(fdc, dma, r, k)
  BY <1>2 DEF Delivered
<1>4. k < r.n /\ m \in Nat \ {0}
  BY <1>1, <1>2, <1>3 DEF Proceeds
<1>5. dma.left = m * b
  BY <1>3 DEF Proceeds
<1> HIDE DEF m, b
<1>6. /\ m * b \in Nat /\ m * b > 0 /\ m * b >= b
      /\ m * b <= b <=> m = 1
      /\ (m - 1) * b = m * b - b
  BY <1>1, <1>4, Units
<1>7. /\ f = [fdc EXCEPT !.index = MaxLen, !.tc = dma.left <= b]
      /\ MaxLen \in Nat /\ MaxLen <= b
      /\ dma.left <= b => MaxLen = dma.left
      /\ ~(dma.left <= b) => MaxLen = b
  BY <1>2, <1>5, <1>6, MovedIs DEF b
<1>8. MaxLen = b
  BY <1>1, <1>5, <1>6, <1>7
<1>9. f = [fdc EXCEPT !.index = b, !.tc = (m = 1)]
  <2>1. (dma.left <= b) = (m = 1)
    BY <1>5, <1>6
  <2> QED
    BY <1>7, <1>8, <2>1
<1> HIDE DEF f
<1>10. f.index = b /\ (f.tc <=> m = 1) /\ f.at = fdc.at
  BY <1>9 DEF Shape, Fields
<1>11. /\ Shape(f) /\ f.drive = fdc.drive /\ f.multi = fdc.multi /\ f.eot = fdc.eot
       /\ f.pending = fdc.pending /\ f.result = fdc.result /\ f.timer = fdc.timer
  BY <1>9 DEF Shape, Fields
<1>12. m = 1 <=> k + 1 = r.n
  BY <1>1 DEF m
<1>13. m - 1 = r.n - (k + 1)
  BY <1>1 DEF m
<1>14. f.index - fdc.index = b
  BY <1>1, <1>2, <1>10
<1> HIDE DEF k
<1> QED
  BY <1>1, <1>2, <1>3, <1>4, <1>5, <1>6, <1>10, <1>11, <1>12, <1>13, <1>14
     DEF Proceeds, Transferring, b, k, f

LEMMA TimerDelivers ==
  ASSUME NEW r, Wants(r), Shape(fdc), Transferring(fdc, r), Delivered(fdc, dma, xfer, r), Timer
  PROVE  Delivered(fdc', dma', xfer', r)
<1> DEFINE f == [fdc EXCEPT !.timer = FALSE]
           s == [f EXCEPT !.st0 = St("normal", FALSE, f.drive)]
           e == EnterResult(s)
           t == [f EXCEPT !.drq = TRUE]
           k == Len(xfer.sectors)
<1>1. Becomes(Expire(f), xfer) /\ dma' = dma /\ fdc.timer
  BY DEF Timer
<1>2. /\ fdc.pending = r.fn /\ r.fn \in Transfers /\ fdc.result = <<>> /\ HasMoved(xfer, r)
      /\ Proceeds(fdc, dma, r, k)
  BY <1>1 DEF Transferring, Delivered
<1>3. /\ Shape(f) /\ ~f.timer /\ f.pending = r.fn /\ f.result = <<>> /\ f.tc = fdc.tc
      /\ f.drive = fdc.drive /\ f.multi = fdc.multi /\ f.eot = fdc.eot /\ f.index = fdc.index
      /\ f.at = fdc.at /\ f.buffer = fdc.buffer
  BY <1>2 DEF Shape, Fields
<1>4. ~fdc.drq
  BY <1>1 DEF Delivered
<1>5. ~f.drq
  BY <1>4 DEF Shape, Fields
<1> HIDE DEF f, k
<1>6. Expire(f) = IF r.fn = "write" /\ f.tc THEN e ELSE t
  BY <1>2, <1>3 DEF Expire, Transfers
<1>7. CASE r.fn = "write" /\ f.tc
  <2>1. /\ Shape(s) /\ s.pending = r.fn /\ ~s.timer /\ ~s.drq
    BY <1>3, <1>5 DEF Shape, Fields, St
  <2> HIDE DEF s
  <2>2. Remains(s, e) /\ e.pending = r.fn
    BY <2>1, EnterResultRemains, EnterResultEffect
  <2> HIDE DEF e
  <2>3. fdc' = e /\ xfer' = xfer
    BY <1>1, <1>2, <1>6, <1>7, <2>2, StillPending
  <2>4. k = r.n
    BY <1>1, <1>2, <1>3, <1>7 DEF Proceeds
  <2> QED
    BY <1>1, <1>2, <2>1, <2>2, <2>3, <2>4 DEF Delivered, Remains, k
<1>8. CASE ~(r.fn = "write" /\ f.tc)
  <2>1. /\ Shape(t) /\ t.pending = r.fn /\ t.result = <<>> /\ ~t.timer
        /\ t.drive = fdc.drive /\ t.multi = fdc.multi /\ t.eot = fdc.eot /\ t.index = fdc.index
        /\ t.at = fdc.at /\ t.buffer = fdc.buffer
    BY <1>3 DEF Shape, Fields
  <2> HIDE DEF t
  <2>2. fdc' = t /\ xfer' = xfer
    BY <1>1, <1>2, <1>6, <1>8, <2>1, StillPending
  <2>3. k # r.n
    BY <1>1, <1>2, <1>3, <1>8 DEF Proceeds
  <2>4. Proceeds(t, dma, r, k)
    BY <1>2, <2>1, <2>3 DEF Proceeds
  <2> QED
    BY <1>1, <1>2, <2>1, <2>2, <2>4 DEF Delivered, k
<1> QED
  BY <1>7, <1>8

(* The heads advance with the sector that has moved.                        *)
LEMMA AdvanceReaches ==
  ASSUME NEW r, Wants(r), NEW k \in Nat, NEW f, Shape(f), f.drive \in DOMAIN f.at,
         f.multi, f.eot = LastAsked(r), Reached(r, k, f.at[f.drive])
  PROVE  LET g == Advance(f) IN
         /\ SameButHeads(f, g) /\ g.index = 0
         /\ k + 1 < r.n => Reached(r, k + 1, g.at[g.drive])
<1> DEFINE i == IncrementSector(f)
           g == [i EXCEPT !.index = 0]
<1>1. SameButHeads(f, i) /\ (k + 1 < r.n => Reached(r, k + 1, i.at[f.drive]))
  BY IncrementSectorReaches DEF Wants
<1> HIDE DEF i
<1>2. SameButHeads(f, g) /\ g.index = 0 /\ g.at = i.at /\ g.drive = f.drive
  BY <1>1 DEF SameButHeads, Shape, Fields
<1>3. Advance(f) = g
  BY DEF Advance, i
<1> HIDE DEF g
<1> QED
  BY <1>1, <1>2, <1>3

(* The units left are those of the sectors left.                            *)
LEMMA UnitsLeft ==
  ASSUME NEW d, DOMAIN d = {"dir", "left"}, NEW n
  PROVE  LET e == [d EXCEPT !.left = n] IN e.dir = d.dir /\ e.left = n
OBVIOUS

LEMMA DmaWriteDelivers ==
  ASSUME NEW r, Wants(r), Shape(fdc), DOMAIN fdc.at = Drives,
         Transferring(fdc, r), Delivered(fdc, dma, xfer, r), Channel, DmaWrite
  PROVE  Delivered(fdc', dma', xfer', r)
<1> DEFINE f == Moved(fdc)
           g == Advance(f)
           h == [g EXCEPT !.drq = FALSE]
           s == [h EXCEPT !.st0 = St("normal", FALSE, f.drive)]
           e == EnterResult(s)
           a == AwaitSector(Fetch(g, g.at[g.drive]))
           x == Done(fdc.buffer)
           k == Len(xfer.sectors)
<1>1. /\ TransferDue /\ dma.dir = "read"
      /\ Becomes(IF f.tc THEN e ELSE IF f.index >= BytesPerSec THEN a ELSE f, x)
         \/ ~(f.index >= BytesPerSec)
      /\ dma' = [dma EXCEPT !.left = @ - (f.index - fdc.index)]
  BY DEF DmaWrite
<1>2. /\ k \in Nat /\ k < r.n /\ dma.dir = r.fn
      /\ fdc.drive \in Drives /\ Reached(r, k, fdc.at[fdc.drive])
      /\ r.fn = "read" => fdc.buffer = Wanted(r)[k + 1]
      /\ f.index = BytesPerSec /\ f.index - fdc.index = BytesPerSec
      /\ dma.left - BytesPerSec = (r.n - (k + 1)) * BytesPerSec
      /\ f.tc <=> k + 1 = r.n
      /\ Shape(f) /\ f.at = fdc.at /\ f.drive = fdc.drive /\ f.multi /\ f.eot = LastAsked(r)
      /\ f.pending = r.fn /\ f.result = <<>> /\ ~f.timer
  BY <1>1, DueIsWanted
<1>3. BytesPerSec \in Nat /\ BytesPerSec >= BytesPerSec
  BY Sizes
<1>a. r \in Requests /\ Refusal(r) = 0 /\ r.fn = "read" /\ r.n \in Nat
  BY <1>1, <1>2, RequestIs DEF Wants
<1> HIDE DEF f
<1>4. Becomes(IF f.tc THEN e ELSE a, x)
  BY <1>1, <1>2, <1>3
<1>5. dma'.dir = r.fn /\ dma'.left = (r.n - (k + 1)) * BytesPerSec
  BY <1>1, <1>2, UnitsLeft DEF Channel
<1>6. SameButHeads(f, g) /\ g.index = 0 /\ (k + 1 < r.n => Reached(r, k + 1, g.at[g.drive]))
  BY <1>2, AdvanceReaches
<1>7. HasMoved(x, r) /\ Len(x.sectors) = k + 1
  <2>1. fdc.buffer \in Int
    BY <1>2, <1>a, WantedIs
  <2>2. HasMoved(xfer, r)
    BY DEF Delivered
  <2> QED
    BY <1>2, <1>a, <2>1, <2>2, DoneMoves
<1> HIDE DEF g, x
<1>8. CASE f.tc
  <2>1. /\ Shape(s) /\ s.pending = r.fn /\ ~s.timer /\ ~s.drq
    BY <1>2, <1>6 DEF SameButHeads, Shape, Fields, St
  <2> HIDE DEF s
  <2>2. Remains(s, e) /\ e.pending = r.fn
    BY <2>1, EnterResultRemains, EnterResultEffect
  <2> HIDE DEF e
  <2>3. fdc' = e /\ xfer' = x
    BY <1>4, <1>8, <2>2, StillPending DEF Wants
  <2> QED
    BY <1>2, <1>7, <1>8, <2>1, <2>2, <2>3 DEF Delivered, Remains
<1>9. CASE ~f.tc
  <2>1. k + 1 < r.n /\ k + 1 \in Nat
    BY <1>2, <1>9, <1>a
  <2> DEFINE b == Wanted(r)[(k + 1) + 1]
             q == [g EXCEPT !.buffer = b]
  <2>2. Fetch(g, g.at[g.drive]) = q
    BY <1>6, <1>a, <2>1, FetchWanted
  <2> HIDE DEF b
  <2>3. a = [q EXCEPT !.drq = FALSE, !.timer = TRUE]
    BY <2>2 DEF AwaitSector
  <2>4. /\ Shape(a) /\ a.pending = r.fn /\ a.result = <<>> /\ a.timer /\ ~a.drq
        /\ a.drive = fdc.drive /\ a.multi /\ a.eot = LastAsked(r) /\ a.index = 0
        /\ a.at = g.at /\ a.buffer = b /\ g.drive = fdc.drive
    BY <1>2, <1>6, <2>3 DEF SameButHeads, Shape, Fields
  <2> HIDE DEF a, q
  <2>5. fdc' = a /\ xfer' = x
    BY <1>4, <1>9, <2>4, StillPending DEF Wants
  <2>6. Proceeds(a, dma', r, k + 1)
    BY <1>2, <1>5, <1>6, <1>a, <2>1, <2>4 DEF Proceeds, b
  <2> HIDE DEF k
  <2> QED
    BY <1>7, <2>4, <2>5, <2>6 DEF Delivered
<1> QED
  BY <1>8, <1>9

LEMMA DmaReadDelivers ==
  ASSUME NEW r, Wants(r), Shape(fdc), DOMAIN fdc.at = Drives,
         Transferring(fdc, r), Delivered(fdc, dma, xfer, r), Channel, DmaRead
  PROVE  Delivered(fdc', dma', xfer', r)
<1> DEFINE f == Moved(fdc)
           g == Advance(f)
           s == [f EXCEPT !.drq = FALSE, !.st0 = St("abnormal", FALSE, f.drive)]
           e == EnterResult(s)
           a == AwaitSector(g)
           here == Logical(f.at[f.drive])
           x == Done(here)
           k == Len(xfer.sectors)
           full == f.index >= BytesPerSec \/ f.tc
<1>1. /\ TransferDue /\ dma.dir = "write"
      /\ \/ Becomes(e, xfer)
         \/ /\ Becomes(IF full THEN a ELSE f, IF full THEN x ELSE xfer)
            /\ dma' = [dma EXCEPT !.left = @ - (f.index - fdc.index)]
  BY DEF DmaRead
<1>2. /\ k \in Nat /\ k < r.n /\ dma.dir = r.fn
      /\ fdc.drive \in Drives /\ Reached(r, k, fdc.at[fdc.drive])
      /\ f.index = BytesPerSec /\ f.index - fdc.index = BytesPerSec
      /\ dma.left - BytesPerSec = (r.n - (k + 1)) * BytesPerSec
      /\ f.tc <=> k + 1 = r.n
      /\ Shape(f) /\ f.at = fdc.at /\ f.drive = fdc.drive /\ f.multi /\ f.eot = LastAsked(r)
      /\ f.pending = r.fn /\ f.result = <<>> /\ ~f.timer
  BY <1>1, DueIsWanted
<1>3. BytesPerSec \in Nat /\ BytesPerSec >= BytesPerSec
  BY Sizes
<1>a. r \in Requests /\ Refusal(r) = 0 /\ r.fn = "write" /\ r.n \in Nat
  BY <1>1, <1>2, RequestIs DEF Wants
<1>b. full
  BY <1>2, <1>3
<1>c. HasMoved(xfer, r)
  BY DEF Delivered
<1> HIDE DEF f, full
<1>4. CASE Becomes(e, xfer)
  <2>1. /\ Shape(s) /\ s.pending = r.fn /\ ~s.timer /\ ~s.drq /\ s.st0.ic = "abnormal"
    BY <1>2 DEF Shape, Fields, St
  <2> HIDE DEF s
  <2>2. Remains(s, e) /\ e.pending = r.fn /\ e.st0 = s.st0
    BY <2>1, EnterResultRemains, EnterResultEffect DEF Kept
  <2> HIDE DEF e
  <2>3. fdc' = e /\ xfer' = xfer
    BY <1>4, <2>2, StillPending DEF Wants
  <2> QED
    BY <1>c, <2>1, <2>2, <2>3 DEF Delivered, Remains
<1>5. CASE ~Becomes(e, xfer)
  <2>1. Becomes(a, x) /\ dma' = [dma EXCEPT !.left = @ - (f.index - fdc.index)]
    BY <1>1, <1>5, <1>b
  <2>2. dma'.dir = r.fn /\ dma'.left = (r.n - (k + 1)) * BytesPerSec
    BY <1>2, <2>1, UnitsLeft DEF Channel
  <2>3. SameButHeads(f, g) /\ g.index = 0 /\ (k + 1 < r.n => Reached(r, k + 1, g.at[g.drive]))
    BY <1>2, AdvanceReaches
  <2>4. HasMoved(x, r) /\ Len(x.sectors) = k + 1
    <3>1. here = Logical(fdc.at[fdc.drive])
      BY <1>2
    <3> HIDE DEF here
    <3> DEFINE at == fdc.at[fdc.drive]
    <3>2. /\ at = [cyl |-> at.cyl, head |-> at.head, sec |-> at.sec]
          /\ at.cyl \in Nat /\ at.head \in {0, 1} /\ at.sec \in 1..SecPerTrk
          /\ Logical(r.at) + k < Image => Logical(at) = Logical(r.at) + k
      BY <1>2 DEF Reached
    <3> HIDE DEF at
    <3>3. Logical(at) \in Int
      BY <3>2, InImage
    <3>4. OnDiskette(r) => Logical(at) = Wanted(r)[k + 1]
      <4>1. Logical(r.at) \in Int /\ Image \in Nat
        BY <1>a, RequestIs
      <4>2. OnDiskette(r) => Logical(r.at) + r.n <= Image
        BY DEF OnDiskette, Image
      <4>3. OnDiskette(r) => Logical(r.at) + k < Image
        BY <1>2, <1>a, <4>1, <4>2
      <4>4. Wanted(r)[k + 1] = IF Logical(r.at) + k < Image THEN Logical(r.at) + k ELSE -1
        BY <1>2, <1>a, WantedIs
      <4> QED
        BY <3>2, <4>3, <4>4
    <3>5. here \in Int /\ (OnDiskette(r) => here = Wanted(r)[k + 1])
      BY <3>1, <3>3, <3>4 DEF at
    <3> QED
      BY <1>2, <1>a, <1>c, <3>5, DoneMoves
  <2> HIDE DEF g, x
  <2>5. /\ Shape(a) /\ a.pending = r.fn /\ a.result = <<>> /\ a.timer /\ ~a.drq
        /\ a.drive = fdc.drive /\ a.multi /\ a.eot = LastAsked(r) /\ a.index = 0
        /\ a.at = g.at /\ g.drive = fdc.drive /\ a.tc = f.tc
    BY <1>2, <2>3 DEF AwaitSector, SameButHeads, Shape, Fields
  <2> HIDE DEF a
  <2>6. fdc' = a /\ xfer' = x
    BY <2>1, <2>5, StillPending DEF Wants
  <2>7. Proceeds(a, dma', r, k + 1)
    <3>1. r.fn # "read"
      BY <1>a
    <3>2. k + 1 < r.n => Reached(r, k + 1, a.at[a.drive])
      BY <2>3, <2>5
    <3>3. k + 1 = r.n <=> r.fn = "write" /\ a.timer /\ a.tc
      BY <1>2, <1>a, <2>5
    <3> HIDE DEF k
    <3> QED
      BY <1>2, <2>2, <2>5, <3>1, <3>2, <3>3 DEF Proceeds
  <2> HIDE DEF k
  <2> QED
    BY <2>4, <2>5, <2>6, <2>7 DEF Delivered
<1> QED
  BY <1>4, <1>5

(* The transfer of INT 13h is given to a controller at rest.                *)
Unstarted(f, r) ==
  /\ Shape(f) /\ DOMAIN f.at = Drives /\ f.pending = r.fn
  /\ ~f.timer /\ ~f.drq /\ f.result = <<>> /\ f.index = 0

LEMMA ReadWriteBegins ==
  ASSUME NEW r, Wants(r), NEW f, Unstarted(f, r), NEW p, p.headsAgree, p.multi,
         p.drive = r.drive, p.at = r.at, p.eot = LastAsked(r),
         NEW d, d.dir = r.fn, d.left = r.n * BytesPerSec,
         NEW x, HasMoved(x, r), x.sectors = <<>>
  PROVE  LET g == ReadWrite(f, r.fn, p) IN DOMAIN g.at = Drives /\ Delivered(g, d, x, r)
<1> DEFINE c     == r.fn
           s     == Select(f, p.drive)
           g     == [s EXCEPT !.multi = p.multi]
           moved == IF p.at.cyl = g.at[p.drive].cyl THEN g ELSE ResetChangeline(g)
           e     == IF p.eot = 0 THEN SecPerTrk ELSE p.eot
           ready == [moved EXCEPT !.at[p.drive] = p.at, !.msr = {"BUSY"}, !.active = {}, !.eot = e]
           there == [g EXCEPT !.at[p.drive] = p.at]
           refused == Refused(there, p)
           first == [Fetch(ready, p.at) EXCEPT !.timer = TRUE]
           ask   == [ready EXCEPT !.drq = TRUE]
           all   == ReadWrite(f, c, p)
<1>1. all = CASE p.drive \notin f.present -> g
              [] p.drive \in f.present /\ p.at.sec > SecPerTrk -> refused
              [] OTHER -> IF c = "read" THEN first ELSE ask
  BY DEF ReadWrite
<1> HIDE DEF all
<1>2. /\ r \in Requests /\ Refusal(r) = 0 /\ r.fn \in Transfers
      /\ r.drive \in Drives /\ r.n \in Nat \ {0} /\ LastAsked(r) \in Nat \ {0}
      /\ r.at.sec \in Nat \ {0} /\ SecPerTrk \in Nat \ {0}
  BY RequestIs, Sizes DEF Wants
<1>3. Len(x.sectors) = 0
  BY DEF Unstarted
<1>4. /\ Shape(s) /\ s.at = f.at /\ s.drive = p.drive /\ s.result = <<>>
      /\ ~s.timer /\ ~s.drq /\ s.index = 0
  BY DEF Unstarted, Select, Shape, Fields
<1> HIDE DEF s
<1>5. /\ Shape(g) /\ DOMAIN g.at = Drives /\ g.drive = r.drive /\ g.result = <<>>
      /\ ~g.timer /\ ~g.drq /\ g.index = 0 /\ g.multi
  BY <1>4 DEF Unstarted, Shape, Fields
<1> HIDE DEF g
<1>6. CASE p.drive \notin f.present
  <2>1. all = g
    BY <1>1, <1>6
  <2> QED
    BY <1>5, <2>1 DEF Delivered, all
<1>7. CASE p.drive \in f.present /\ p.at.sec > SecPerTrk
  <2>1. Shape(there) /\ DOMAIN there.at = Drives /\ ~there.timer /\ ~there.drq
    BY <1>5 DEF Shape, Fields
  <2> HIDE DEF there
  <2> DEFINE h == [there EXCEPT !.st0 = St("abnormal", FALSE, p.drive)]
  <2>2. Shape(h) /\ DOMAIN h.at = Drives /\ ~h.timer /\ ~h.drq /\ h.st0.ic = "abnormal"
    BY <2>1 DEF Shape, Fields, St
  <2>3. refused = EnterResult(h)
    BY DEF Refused
  <2> HIDE DEF h, refused
  <2>4. ~refused.timer /\ ~refused.drq /\ refused.st0.ic = "abnormal"
    BY <2>2, <2>3, EnterResultRemains, EnterResultEffect DEF Remains, Kept
  <2>5. DOMAIN refused.at = Drives
    BY <2>2, <2>3 DEF EnterResult, RaiseInterrupt, Shape, Fields
  <2>6. all = refused
    BY <1>1, <1>7
  <2> QED
    BY <2>4, <2>5, <2>6 DEF Delivered, all
<1>8. CASE p.drive \in f.present /\ ~(p.at.sec > SecPerTrk)
  <2>1. /\ Shape(moved) /\ DOMAIN moved.at = Drives /\ moved.drive = r.drive
        /\ moved.result = <<>> /\ ~moved.timer /\ ~moved.drq /\ moved.index = 0 /\ moved.multi
    BY <1>5, ResetChangelineSame DEF Same
  <2>2. e = LastAsked(r)
    BY <1>2
  <2> HIDE DEF moved, e
  <2>3. /\ Shape(ready) /\ DOMAIN ready.at = Drives /\ ready.drive = r.drive
        /\ ready.result = <<>> /\ ~ready.timer /\ ~ready.drq /\ ready.index = 0 /\ ready.multi
        /\ ready.at[r.drive] = r.at /\ ready.eot = e
    BY <1>2, <2>1 DEF Shape, Fields
  <2> HIDE DEF ready
  <2>4. Reached(r, 0, r.at)
    BY <1>2, <1>8, FirstReached
  <2>5. d.left = (r.n - 0) * BytesPerSec /\ 0 # r.n
    BY <1>2
  <2>6. CASE c = "read"
    <3> DEFINE b == Wanted(r)[0 + 1]
               q == [ready EXCEPT !.buffer = b]
    <3>0. 0 \in Nat /\ 0 < r.n
      BY <1>2
    <3>1. Fetch(ready, p.at) = q
      <4>1. Fetch(ready, r.at) = [ready EXCEPT !.buffer = Wanted(r)[0 + 1]]
        BY <1>2, <2>4, <3>0, FetchWanted
      <4> QED
        BY <4>1
    <3> HIDE DEF b
    <3>2. first = [q EXCEPT !.timer = TRUE]
      BY <3>1
    <3>3. /\ Shape(first) /\ first.at = ready.at /\ first.drive = r.drive
          /\ first.result = <<>> /\ ~first.drq /\ first.index = 0 /\ first.multi
          /\ first.eot = e /\ first.buffer = b
      BY <2>3, <3>2 DEF Shape, Fields
    <3> HIDE DEF first, q
    <3>4. all = first
      BY <1>1, <1>8, <2>6
    <3>5. Proceeds(first, d, r, 0)
      BY <1>2, <2>2, <2>3, <2>4, <2>5, <2>6, <3>3 DEF Proceeds, b
    <3> QED
      BY <1>3, <2>3, <3>3, <3>4, <3>5 DEF Delivered, all
  <2>7. CASE c # "read"
    <3>1. /\ Shape(ask) /\ ask.at = ready.at /\ ask.drive = r.drive
          /\ ask.result = <<>> /\ ~ask.timer /\ ask.index = 0 /\ ask.multi
          /\ ask.eot = e
      BY <2>3 DEF Shape, Fields
    <3> HIDE DEF ask
    <3>2. all = ask
      BY <1>1, <1>8, <2>7
    <3>3. Proceeds(ask, d, r, 0)
      BY <1>2, <2>2, <2>3, <2>4, <2>5, <2>7, <3>1 DEF Proceeds
    <3> QED
      BY <1>3, <2>3, <3>1, <3>2, <3>3 DEF Delivered, all
  <2> QED
    BY <2>6, <2>7
<1> QED
  BY <1>6, <1>7, <1>8

(* The heads of every drive are somewhere.                                  *)
LEMMA HeadsStay ==
  ASSUME NEW f, Shape(f)
  PROVE  /\ \A c : Accept(f, c).at = f.at
         /\ \A d : Select(f, d).at = f.at
         /\ ResetChangeline(f).at = f.at
         /\ \A d, inserted : SetMediaStatus(f, d, inserted).at = f.at
         /\ EnterIdle(f).at = f.at
         /\ EnterResult(f).at = f.at
         /\ RaiseInterrupt(f).at = f.at
         /\ LowerInterrupt(f).at = f.at
<1>1. \A c : Accept(f, c).at = f.at
  BY DEF Accept, Shape, Fields
<1>2. \A d : Select(f, d).at = f.at
  BY DEF Select, Shape, Fields
<1>3. ResetChangeline(f).at = f.at
  BY DEF ResetChangeline, Shape, Fields
<1>4. \A d, inserted : SetMediaStatus(f, d, inserted).at = f.at
  BY DEF SetMediaStatus, Shape, Fields
<1>5. EnterIdle(f).at = f.at
  BY DEF EnterIdle, Shape, Fields
<1>6. EnterResult(f).at = f.at
  BY DEF EnterResult, RaiseInterrupt, Shape, Fields
<1>7. RaiseInterrupt(f).at = f.at /\ LowerInterrupt(f).at = f.at
  BY DEF RaiseInterrupt, LowerInterrupt, Shape, Fields
<1> QED
  BY <1>1, <1>2, <1>3, <1>4, <1>5, <1>6, <1>7

LEMMA ExpireHeads ==
  ASSUME NEW f, Shape(f), DOMAIN f.at = Drives
  PROVE  DOMAIN Expire(f).at = Drives
<1> DEFINE ic == IF f.drive \in f.motors THEN "normal" ELSE "abnormal"
           e1 == [f EXCEPT !.st0 = St(ic, TRUE, f.drive)]
           e2 == [f EXCEPT !.st0 = St("normal", TRUE, f.drive)]
           e3 == [f EXCEPT !.st0 = St("normal", FALSE, f.drive)]
           t  == [f EXCEPT !.drq = TRUE]
           z  == [d \in Drives |-> [cyl |-> 0, head |-> 0, sec |-> 0]]
           h  == [f EXCEPT !.irq = FALSE, !.sensei = 0, !.msr = {}, !.active = {},
                           !.st0 = St("normal", FALSE, 0), !.at = z, !.eot = 0, !.drq = FALSE]
           r  == EnterIdle(h)
           s  == [r EXCEPT !.st0 = St("ready", FALSE, 0)]
           i  == RaiseInterrupt(s)
           g  == [i EXCEPT !.sensei = 4]
<1>1. Expire(f) \in {RaiseInterrupt(EnterIdle(e1)), RaiseInterrupt(EnterIdle(e2)),
                     EnterResult(f), EnterResult(e3), t, g, f}
  BY DEF Expire, AfterReset, Reset
<1>2. /\ Shape(e1) /\ e1.at = f.at
      /\ Shape(e2) /\ e2.at = f.at
      /\ Shape(e3) /\ e3.at = f.at
  BY DEF Shape, Fields, St
<1> HIDE DEF e1, e2, e3, ic
<1>3. /\ Shape(EnterIdle(e1)) /\ Shape(EnterIdle(e2))
      /\ EnterIdle(e1).at = f.at /\ EnterIdle(e2).at = f.at
  BY <1>2, EnterIdleEffect, HeadsStay DEF Kept
<1>4. t.at = f.at
  BY DEF Shape, Fields
<1> HIDE DEF t
<1>5. DOMAIN g.at = Drives
  <2>1. Shape(h) /\ DOMAIN h.at = Drives
    BY DEF Shape, Fields, St
  <2> HIDE DEF h
  <2>2. Shape(r) /\ r.at = h.at
    BY <2>1, EnterIdleEffect, HeadsStay DEF Kept
  <2> HIDE DEF r
  <2>3. Shape(s) /\ s.at = r.at
    BY <2>2 DEF Shape, Fields, St
  <2> HIDE DEF s
  <2>4. Shape(i) /\ i.at = s.at
    BY <2>3, RaisedRemains, HeadsStay DEF Remains
  <2> HIDE DEF i
  <2>5. g.at = i.at
    BY <2>4 DEF Shape, Fields
  <2> QED
    BY <2>1, <2>2, <2>3, <2>4, <2>5
<1> HIDE DEF g
<1>6. /\ RaiseInterrupt(EnterIdle(e1)).at = f.at /\ RaiseInterrupt(EnterIdle(e2)).at = f.at
      /\ EnterResult(f).at = f.at /\ EnterResult(e3).at = f.at
  BY <1>2, <1>3, HeadsStay
<1> QED
  BY <1>1, <1>4, <1>5, <1>6

LEMMA AdvanceHeads ==
  ASSUME NEW f, Shape(f), DOMAIN f.at = Drives
  PROVE  Shape(Advance(f)) /\ DOMAIN Advance(f).at = Drives
<1> DEFINE at   == f.at[f.drive]
           wrap == EndOfTrack(f, at.sec + 1)
           step == wrap /\ (f.multi => at.head = 1)
           new  == [cyl  |-> IF step THEN NextCylinder(at.cyl) ELSE at.cyl,
                    head |-> IF wrap /\ f.multi THEN 1 - at.head ELSE at.head,
                    sec  |-> IF wrap THEN 1 ELSE at.sec + 1]
           g    == [f EXCEPT !.at[f.drive] = new]
           h    == IF step THEN ResetChangeline(g) ELSE g
<1>1. Advance(f) = [h EXCEPT !.index = 0]
  BY DEF Advance, IncrementSector
<1> HIDE DEF step, new
<1>2. Shape(g) /\ DOMAIN g.at = Drives
  BY DEF Shape, Fields
<1> HIDE DEF g
<1>3. Shape(h) /\ DOMAIN h.at = Drives
  BY <1>2, ResetChangelineSame DEF Same
<1> HIDE DEF h
<1> QED
  BY <1>1, <1>3 DEF Shape, Fields

LEMMA DeviceHeads ==
  ASSUME Shape(fdc), DOMAIN fdc.at = Drives, DeviceMoves
  PROVE  DOMAIN fdc'.at = Drives
<1>1. CASE Timer
  <2> DEFINE f == [fdc EXCEPT !.timer = FALSE]
  <2>1. fdc' = Expire(f)
    BY <1>1 DEF Timer, Becomes
  <2>2. Shape(f) /\ DOMAIN f.at = Drives
    BY DEF Shape, Fields
  <2> HIDE DEF f
  <2> QED
    BY <2>1, <2>2, ExpireHeads
<1>2. CASE DmaWrite \/ DmaRead
  <2> DEFINE f == Moved(fdc)
             a == Advance(f)
             end(k, ic) == EnterResult([[k EXCEPT !.drq = FALSE] EXCEPT !.st0 = St(ic, FALSE, f.drive)])
             refuse == EnterResult([f EXCEPT !.drq = FALSE, !.st0 = St("abnormal", FALSE, f.drive)])
             fetch(k) == AwaitSector(Fetch(k, k.at[k.drive]))
  <2>1. fdc' \in {end(f, "normal"), end(a, "normal"), refuse, fetch(f), fetch(a), AwaitSector(a), f}
    BY <1>2 DEF DmaWrite, DmaRead, Becomes
  <2>2. Shape(f) /\ f.at = fdc.at
    <3>1. Shape(f)
      BY MovedEffect DEF Like
    <3>2. f.at = fdc.at
      BY DEF Moved, Shape, Fields
    <3> QED
      BY <3>1, <3>2
  <2> HIDE DEF f
  <2>3. Shape(a) /\ DOMAIN a.at = Drives
    BY <2>2, AdvanceHeads
  <2> HIDE DEF a
  <2>4. \A k : Shape(k) => end(k, "normal").at = k.at /\ fetch(k).at = k.at /\ AwaitSector(k).at = k.at
    <3>1. ASSUME NEW k, Shape(k)
          PROVE  end(k, "normal").at = k.at /\ fetch(k).at = k.at /\ AwaitSector(k).at = k.at
      <4> DEFINE i == [[k EXCEPT !.drq = FALSE] EXCEPT !.st0 = St("normal", FALSE, f.drive)]
      <4>1. Shape(i) /\ i.at = k.at
        BY <3>1 DEF Shape, Fields, St
      <4>2. end(k, "normal") = EnterResult(i)
        OBVIOUS
      <4> HIDE DEF i, end
      <4>3. end(k, "normal").at = k.at
        BY <4>1, <4>2, HeadsStay
      <4>4. PICK b : Fetch(k, k.at[k.drive]) = [k EXCEPT !.buffer = b]
        BY DEF Fetch
      <4>5. fetch(k).at = k.at
        BY <3>1, <4>4 DEF AwaitSector, Shape, Fields
      <4>6. AwaitSector(k).at = k.at
        BY <3>1 DEF AwaitSector, Shape, Fields
      <4> QED
        BY <4>3, <4>5, <4>6
    <3> QED
      BY <3>1
  <2>5. refuse.at = f.at
    <3> DEFINE i == [f EXCEPT !.drq = FALSE, !.st0 = St("abnormal", FALSE, f.drive)]
    <3>1. Shape(i) /\ i.at = f.at
      BY <2>2 DEF Shape, Fields, St
    <3> HIDE DEF i
    <3> QED
      BY <3>1, HeadsStay DEF i
  <2> HIDE DEF end, fetch, refuse
  <2> QED
    BY <2>1, <2>2, <2>3, <2>4, <2>5
<1> QED
  BY <1>1, <1>2 DEF DeviceMoves

LEMMA ReadAllHeads ==
  ASSUME NEW f, Shape(f) PROVE ReadAll(f).at = f.at
<1> DEFINE h == LowerInterrupt([f EXCEPT !.active = {}])
<1>1. Shape(h) /\ h.at = f.at
  BY DEF LowerInterrupt, Shape, Fields
<1>2. ReadAll(f) = EnterIdle(h)
  BY DEF ReadAll
<1> HIDE DEF h
<1> QED
  BY <1>1, <1>2, HeadsStay

LEMMA SensedHeads ==
  ASSUME NEW f, Shape(f) PROVE Sensed(f).at = f.at
<1> DEFINE a == Accept(f, "sense")
           b == [a EXCEPT !.pending = "sense"]
           i == [b EXCEPT !.sensei = @ - 1, !.st0.drive = 4 - b.sensei]
           j == [b EXCEPT !.st0 = St("invalid", FALSE, 0)]
           g == Sense(b)
           h == [g EXCEPT !.complete = TRUE, !.command = Idle]
<1>1. Shape(a) /\ a.at = f.at
  BY AcceptEffect, HeadsStay DEF Remains
<1> HIDE DEF a
<1>2. Shape(b) /\ b.at = f.at
  BY <1>1 DEF Shape, Fields
<1> HIDE DEF b
<1>3. Shape(i) /\ i.at = f.at /\ Shape(j) /\ j.at = f.at
  BY <1>2 DEF Shape, Fields, St
<1>4. g \in {EnterResult(b), EnterResult(i), EnterResult(j)}
  BY DEF Sense
<1> HIDE DEF g, i, j
<1>5. Shape(g) /\ g.at = f.at
  BY <1>2, <1>3, <1>4, EnterResultRemains, HeadsStay DEF Remains
<1>6. Shape(h) /\ h.at = f.at
  BY <1>5 DEF Shape, Fields
<1>7. Execute(a, "sense", NoParameters) = h
  BY DEF Execute, FloppyCommand, b, g
<1> HIDE DEF h
<1>8. Sensed(f) = ReadAll(h)
  BY <1>7 DEF Sensed, a
<1> QED
  BY <1>6, <1>8, ReadAllHeads

LEMMA RecalibrationHeads ==
  ASSUME NEW f, Shape(f), DOMAIN f.at = Drives, NEW p
  PROVE  DOMAIN Execute(Accept(f, "recal"), "recal", p).at = Drives
<1> DEFINE a == Accept(f, "recal")
           b == [a EXCEPT !.pending = "recal"]
           s == Select(b, p.drive)
           k == StepTo(s, [p EXCEPT !.at.cyl = 0])
           g == [k EXCEPT !.timer = TRUE, !.at[p.drive].cyl = 0, !.msr = {}, !.active = {p.drive}]
           h == [g EXCEPT !.complete = TRUE, !.command = Idle]
<1>1. Shape(a) /\ a.at = f.at
  BY AcceptEffect, HeadsStay DEF Remains
<1> HIDE DEF a
<1>2. Shape(b) /\ b.at = f.at
  BY <1>1 DEF Shape, Fields
<1> HIDE DEF b
<1>3. Shape(s) /\ s.at = f.at
  BY <1>2, SelectAlike, HeadsStay DEF Alike, Like
<1> HIDE DEF s
<1>4. Shape(k) /\ k.at = f.at
  <2>1. k = s \/ k = ResetChangeline(s)
    BY DEF StepTo
  <2> HIDE DEF k
  <2> QED
    BY <1>3, <2>1, ResetChangelineSame DEF Same
<1>5. Execute(a, "recal", p) = h
  BY DEF Execute, FloppyCommand, Recalibrate, b, s
<1> HIDE DEF k
<1>6. Shape(g) /\ DOMAIN g.at = Drives
  BY <1>4 DEF Shape, Fields
<1> HIDE DEF g
<1>7. h.at = g.at
  BY <1>6 DEF Shape, Fields
<1> QED
  BY <1>5, <1>6, <1>7 DEF a

LEMMA ReadWriteHeads ==
  ASSUME NEW f, Shape(f), DOMAIN f.at = Drives, NEW c, NEW p
  PROVE  DOMAIN ReadWrite(f, c, p).at = Drives
<1> DEFINE g     == [Select(f, p.drive) EXCEPT !.multi = p.multi]
           moved == IF p.at.cyl = g.at[p.drive].cyl THEN g ELSE ResetChangeline(g)
           ready == [moved EXCEPT !.at[p.drive] = p.at, !.msr = {"BUSY"}, !.active = {},
                                  !.eot = IF p.eot = 0 THEN SecPerTrk ELSE p.eot]
           past  == [g EXCEPT !.at[p.drive] = p.at]
           first == [Fetch(ready, p.at) EXCEPT !.timer = TRUE]
           ask   == [ready EXCEPT !.drq = TRUE]
<1>1. ReadWrite(f, c, p) \in {Refused(g, p), g, Refused(past, p), first, ask}
  BY DEF ReadWrite
<1>2. Shape(g) /\ DOMAIN g.at = Drives
  BY DEF Select, Shape, Fields
<1> HIDE DEF g
<1>3. Shape(moved) /\ DOMAIN moved.at = Drives
  BY <1>2, ResetChangelineSame DEF Same
<1> HIDE DEF moved
<1>4. Shape(ready) /\ DOMAIN ready.at = Drives /\ Shape(past) /\ DOMAIN past.at = Drives
  BY <1>2, <1>3 DEF Shape, Fields
<1> HIDE DEF ready, past
<1>5. PICK b : Fetch(ready, p.at) = [ready EXCEPT !.buffer = b]
  BY DEF Fetch
<1>6. DOMAIN first.at = Drives /\ DOMAIN ask.at = Drives
  BY <1>4, <1>5 DEF Shape, Fields
<1>7. ASSUME NEW k, Shape(k), DOMAIN k.at = Drives PROVE DOMAIN Refused(k, p).at = Drives
  <2> DEFINE s == [k EXCEPT !.st0 = St("abnormal", FALSE, p.drive)]
  <2>1. Shape(s) /\ s.at = k.at
    BY <1>7 DEF Shape, Fields, St
  <2>2. Refused(k, p) = EnterResult(s)
    BY DEF Refused
  <2> HIDE DEF s
  <2> QED
    BY <1>7, <2>1, <2>2, HeadsStay
<1> HIDE DEF first, ask
<1> QED
  BY <1>1, <1>2, <1>4, <1>6, <1>7

-----------------------------------------------------------------------------
(* The DMA channel is programmed for the request, and then what has moved   *)
(* is what it asks for.                                                     *)
Programmed ==
  pc \in {"prepare", "ready", "released", "held", "command"} /\ call.drive \in bda.known =>
    dma.dir = call.fn /\ dma.left = call.n * BytesPerSec

Told == Looking \cup {"results"}

Serving ==
  /\ DOMAIN fdc.at = Drives
  /\ pc # "caller" => Refusal(call) = 0
  /\ Programmed
  /\ pc \in Told /\ ~rushed => Delivered(fdc, dma, xfer, call)

LEMMA ServedWants ==
  ASSUME BInv, Serving, pc \in Told
  PROVE  /\ Wants(call) /\ Transferring(fdc, call)
         /\ ~rushed => Delivered(fdc, dma, xfer, call)
BY DEF BInv, Follows, Served, Serving, Transferring, Wants, Told, Looking

LEMMA InitServing == ASSUME BInit PROVE Serving
<1>1. PICK inserted \in SUBSET Drives, readonly \in SUBSET Drives :
        fdc = [PowerOn EXCEPT !.present = inserted, !.protected = readonly]
  BY DEF BInit, Init
<1>2. DOMAIN fdc.at = Drives
  BY <1>1 DEF PowerOn
<1> QED
  BY <1>2 DEF BInit, Serving, Programmed, Told, Looking

LEMMA CallServing == ASSUME BInv, Serving, Call PROVE Serving'
<1>1. fdc' = fdc /\ bda' = bda
  BY DEF Call, Quiet, vars
<1>2. CASE pc' = "caller"
  BY <1>1, <1>2 DEF Serving, Programmed, Told, Looking
<1>3. CASE pc' # "caller"
  <2>1. PICK r \in Accepted :
          call' = r /\ pc' = (IF r.drive \in bda.known THEN "program" ELSE "prepare")
    BY <1>3 DEF Call, Return
  <2>2. Refusal(r) = 0
    BY DEF Accepted
  <2> QED
    BY <1>1, <2>1, <2>2 DEF Serving, Programmed, Told, Looking
<1> QED
  BY <1>2, <1>3

(* Steps of the program that leave the controller alone.                    *)
LEMMA QuietServing ==
  ASSUME BInv, Serving,
         Ready \/ Released \/ Held \/ Recalibrated \/ LookAtTicks \/ LookAtInterrupt \/ TimedOut
  PROVE  Serving'
<1>1. fdc' = fdc /\ dma' = dma /\ xfer' = xfer
  BY DEF Ready, Released, Held, Recalibrated, LookAtTicks, LookAtInterrupt, TimedOut, Quiet, vars
<1>2. CASE Ready \/ Released \/ Held
  <2>1. pc \in {"ready", "released", "held"} /\ pc' \in {"held", "command"} /\ call' = call
    BY <1>2 DEF Ready, Released, Held, Running, Goto
  <2>2. Held => bda'.known = bda.known
    BY DEF Held
  <2>3. bda'.known = bda.known
    BY <1>2, <2>2 DEF Ready, Released
  <2> QED
    BY <1>1, <2>1, <2>3 DEF Serving, Programmed, Told, Looking
<1>3. CASE Recalibrated
  <2>1. pc = "recal" /\ (pc' = "caller" \/ (pc' \in {"program", "recal"} /\ call' = call))
    BY <1>3 DEF Recalibrated, Running, Return, Goto
  <2> QED
    BY <1>1, <2>1 DEF Serving, Programmed, Told, Looking
<1>4. CASE LookAtTicks \/ LookAtInterrupt
  <2>1. /\ pc \in {"look40", "look3e"} /\ pc' \in {"look40", "look3e", "reset", "results"}
        /\ call' = call /\ rushed' = rushed
    BY <1>4 DEF LookAtTicks, LookAtInterrupt, Running, Goto
  <2> QED
    BY <1>1, <2>1 DEF Serving, Programmed, Told, Looking
<1>5. CASE TimedOut
  <2>1. pc' = "caller"
    BY <1>5 DEF TimedOut, Return
  <2> QED
    BY <1>1, <2>1 DEF Serving, Programmed, Told, Looking
<1> QED
  BY <1>2, <1>3, <1>4, <1>5

LEMMA PrepareServing == ASSUME BInv, Serving, Prepare PROVE Serving'
<1> DEFINE g == OutDor(fdc, call.drive, {call.drive}, TRUE)
<1>1. fdc' = g /\ dma' = dma
  BY DEF Prepare, DeviceTo, Becomes
<1>2. /\ pc = "prepare" /\ pc' \in {"ready", "released"} /\ call' = call /\ bda'.known = bda.known
  BY DEF Prepare, Running, Goto
<1>3. g.at = fdc.at
  BY KnownState DEF OutDor, Shape, Fields
<1> HIDE DEF g
<1> QED
  BY <1>1, <1>2, <1>3 DEF Serving, Programmed, Told, Looking

LEMMA ProgramServing == ASSUME BInv, Serving, Program PROVE Serving'
<1>1. fdc' = fdc /\ bda' = bda /\ pc = "program"
  BY DEF Program, Running
<1>2. \/ pc' = "caller"
      \/ /\ pc' = "prepare" /\ call' = call
         /\ dma' = [dir |-> call.fn, left |-> call.n * BytesPerSec]
  BY DEF Program, Return, Goto
<1> QED
  BY <1>1, <1>2 DEF Serving, Programmed, Told, Looking

LEMMA CommandServing == ASSUME BInv, Serving, Command PROVE Serving'
<1> DEFINE c == Given.c
           p == Given.p
           x == Asked(p)
           e == Execute(Accept(fdc, c), c, p)
<1>1. /\ pc = "command" /\ Resting(fdc) /\ call' = call /\ bda' = bda /\ dma' = dma
      /\ pc' = IF c = "recal" THEN "recal" ELSE "look40"
      /\ Becomes(e, x) /\ fdc' = e /\ rushed' = (c \in Transfers /\ fdc.timer)
  BY DEF Command, Running, DeviceTo, Becomes, BInv, Follows, Closed
<1>2. Shape(fdc) /\ DOMAIN fdc.at = Drives /\ call \in Requests /\ Refusal(call) = 0
  BY <1>1, KnownState DEF Serving, BInv, Served
<1>3. CASE call.drive \notin bda.known
  <2>1. c = "recal"
    BY <1>3 DEF Given
  <2> HIDE DEF c, p
  <2>2. DOMAIN e.at = Drives
    BY <1>2, <2>1, RecalibrationHeads
  <2> HIDE DEF e
  <2> QED
    BY <1>1, <1>2, <2>1, <2>2 DEF Serving, Programmed, Told, Looking
<1>4. CASE call.drive \in bda.known
  <2>1. /\ c = call.fn /\ call.fn \in Transfers /\ p.headsAgree /\ p.multi
        /\ p.drive = call.drive /\ p.at = call.at /\ p.eot = LastAsked(call)
    BY <1>1, <1>4 DEF Given, BInv, Served, LastAsked
  <2> HIDE DEF c, p
  <2>2. Wants(call) /\ (~rushed' => ~fdc.timer)
    BY <1>1, <1>2, <2>1 DEF Wants
  <2>3. dma.dir = call.fn /\ dma.left = call.n * BytesPerSec
    BY <1>1, <1>4 DEF Serving, Programmed, Told, Looking
  <2> DEFINE a == Accept(fdc, c)
             b == [a EXCEPT !.pending = c]
             g == ReadWrite(b, c, p)
             h == [g EXCEPT !.complete = TRUE, !.command = Idle]
  <2>4. /\ Remains(fdc, a) /\ a.result = fdc.result /\ a.index = fdc.index /\ a.at = fdc.at
        /\ a.irq = fdc.irq
    BY <1>2, AcceptEffect, HeadsStay
  <2> HIDE DEF a
  <2>5. /\ Remains(a, b) /\ b.result = a.result /\ b.index = a.index /\ b.at = a.at
        /\ b.pending = c /\ b.irq = a.irq
    BY <2>4 DEF Remains, Shape, Fields
  <2> HIDE DEF b
  <2>6. /\ Shape(b) /\ DOMAIN b.at = Drives /\ b.pending = call.fn /\ b.normal
        /\ ~b.drq /\ ~b.irq /\ b.result = <<>> /\ b.index = 0 /\ b.timer = fdc.timer
    <3>1. ~fdc.irq
      BY <1>1 DEF BInv, Wires, Follows, Closed, Resting
    <3> QED
      BY <1>1, <1>2, <2>1, <2>4, <2>5, <3>1 DEF Remains, Resting, AtRest
  <2>7. HasMoved(x, call) /\ x.sectors = <<>>
    <3>1. /\ {"sectors", "intact"} \subseteq DOMAIN x /\ x.sectors = <<>>
      BY DEF Asked
    <3>2. call.n \in Nat
      BY <1>2, RequestIs
    <3> HIDE DEF x
    <3> QED
      BY <3>1, <3>2 DEF HasMoved
  <2>8. ~rushed' => Delivered(g, dma, x, call)
    <3>1. ~rushed' => Unstarted(b, call)
      BY <2>2, <2>6 DEF Unstarted
    <3> QED
      BY <2>1, <2>2, <2>3, <2>7, <3>1, ReadWriteBegins
  <2>8a. DOMAIN g.at = Drives
    BY <2>6, ReadWriteHeads
  <2>9. Transferring(e, call)
    <3>1. ~fdc.irq
      BY <1>1 DEF BInv, Wires, Follows, Closed, Resting
    <3> QED
      BY <1>1, <1>2, <2>1, <3>1, TransferGiven
  <2>10. Shape(g)
    BY <2>1, <2>6, ReadWriteEffect
  <2>11. e = h
    BY <2>1 DEF Execute, FloppyCommand, Transfers, b, g, a
  <2> HIDE DEF g, x
  <2>12. Same(g, h)
    BY <2>10 DEF Same, Shape, Fields
  <2>13. (~rushed' => Delivered(h, dma, x, call)) /\ DOMAIN h.at = Drives
    BY <2>8, <2>8a, <2>12, SameDelivered DEF Same
  <2> HIDE DEF e, h
  <2>14. fdc' = e /\ xfer' = x
    BY <1>1, <2>1, <2>9, StillPending DEF Transferring
  <2>15. c # "recal"
    BY <2>1 DEF Transfers
  <2> QED
    BY <1>1, <1>2, <2>11, <2>13, <2>14, <2>15 DEF Serving, Programmed, Told, Looking
<1> QED
  BY <1>3, <1>4

LEMMA ResetServing ==
  ASSUME BInv, Serving, HoldController \/ ReleaseController PROVE Serving'
<1>1. PICK normal \in BOOLEAN : fdc' = OutDor(fdc, fdc.drive, fdc.motors, normal)
  BY DEF HoldController, ReleaseController, DeviceTo, Becomes
<1>2. pc \in {"reset", "release"} /\ pc' \in {"release", "restarted"} /\ call' = call
  BY DEF HoldController, ReleaseController, Running, Goto
<1>3. fdc'.at = fdc.at
  BY <1>1, KnownState DEF OutDor, Shape, Fields
<1> QED
  BY <1>2, <1>3 DEF Serving, Programmed, Told, Looking

LEMMA ResultsServing == ASSUME BInv, Serving, Results PROVE Serving'
<1>1. /\ pc = "results" /\ (pc' = "caller" \/ (pc' = "halted" /\ call' = call))
      /\ fdc' = fdc \/ fdc' = ReadAll(fdc)
  BY DEF Results, Running, Return, Goto, Quiet, vars, DeviceTo, Becomes
<1>2. ReadAll(fdc).at = fdc.at
  BY KnownState, ReadAllHeads
<1> QED
  BY <1>1, <1>2 DEF Serving, Programmed, Told, Looking, Results, Running

(* What comes in between.                                                   *)
LEMMA SameServing ==
  ASSUME BInv, Serving, Same(fdc, fdc'), dma' = dma, pc' = pc, call' = call,
         bda'.known = bda.known, rushed' = rushed,
         pc \in Told /\ ~rushed => Delivered(fdc, dma, xfer', call)
  PROVE  Serving'
<1>1. fdc'.at = fdc.at /\ fdc'.drq = fdc.drq
  BY DEF Same
<1>2. pc \in Told /\ ~rushed => Delivered(fdc', dma, xfer', call)
  BY SameDelivered
<1> QED
  BY <1>1, <1>2 DEF Serving, Programmed, Told, Looking

LEMMA Int0eServing == ASSUME BInv, Serving, Int0e PROVE Serving'
<1>1. /\ fdc' = fdc /\ dma' = dma /\ xfer' = xfer /\ pc' = pc /\ call' = call
      /\ bda'.known = bda.known /\ rushed' = rushed
  BY DEF Int0e, vars
<1> QED
  BY <1>1 DEF Serving, Programmed, Told, Looking

LEMMA SenseServing == ASSUME BInv, Serving, SenseInterrupt PROVE Serving'
<1>1. /\ fdc' = Sensed(fdc) /\ dma' = dma /\ pc' = pc /\ call' = call
      /\ bda'.known = bda.known /\ isr = "sense"
  BY DEF SenseInterrupt, DeviceTo, Becomes, Sensed
<1>2. (AtRest(fdc) \/ fdc.pending = "reset") /\ pc \notin Closed
  BY <1>1 DEF BInv, Wires, Follows
<1>3. pc \notin Told
  BY <1>2 DEF BInv, Follows, Transferring, Transfers, AtRest, Idle, Told, Looking
<1>4. Sensed(fdc).at = fdc.at
  BY KnownState, SensedHeads
<1> QED
  BY <1>1, <1>2, <1>3, <1>4 DEF Serving, Programmed, Told, Looking, Closed

LEMMA Int08Serving == ASSUME BInv, Serving, Int08 PROVE Serving'
<1> DEFINE g == OutDor(fdc, fdc.drive, {}, fdc.normal)
<1>1. /\ dma' = dma /\ pc' = pc /\ call' = call /\ bda'.known = bda.known /\ rushed' = rushed
      /\ (Becomes(g, xfer) \/ (fdc' = fdc /\ xfer' = xfer))
  BY DEF Int08, DeviceTo
<1>2. Shape(fdc)
  BY KnownState
<1>3. Same(fdc, fdc)
  BY <1>2 DEF Same
<1>4. Same(fdc, g)
  <2> DEFINE s == [fdc EXCEPT !.drive = fdc.drive, !.motors = {}, !.normal = fdc.normal]
  <2>1. g = s
    BY DEF OutDor
  <2>2. Same(fdc, s)
    BY <1>2 DEF Same, Shape, Fields
  <2> HIDE DEF g
  <2> QED
    BY <2>1, <2>2
<1> HIDE DEF g
<1>5. Same(fdc, fdc')
  BY <1>1, <1>3, <1>4 DEF Becomes
<1>6. ASSUME pc \in Told PROVE xfer' = xfer
  <2>1. g.pending \in Transfers
    BY <1>4, <1>6, ServedWants DEF Same, Transferring
  <2> QED
    BY <1>1, <2>1, StillPending
<1>7. pc \in Told /\ ~rushed => Delivered(fdc, dma, xfer', call)
  BY <1>6, ServedWants
<1> QED
  BY <1>1, <1>5, <1>7, SameServing

LEMMA DisketteChangesServing == ASSUME BInv, Serving, DisketteChanges PROVE Serving'
<1>1. PICK d \in Drives, inserted \in BOOLEAN, readonly \in BOOLEAN :
        RuntimeConfig(d, inserted, readonly)
  BY DEF DisketteChanges
<1> DEFINE out == SetMediaStatus(fdc, d, FALSE)
           new == IF inserted THEN SetMediaStatus(out, d, TRUE) ELSE out
           set == IF readonly THEN new.protected \cup {d} ELSE new.protected \ {d}
           g   == [new EXCEPT !.protected = set]
           x   == Touched(d)
<1>2. Becomes(g, x) /\ dma' = dma
  BY <1>1 DEF RuntimeConfig
<1>3. pc' = pc /\ call' = call /\ bda' = bda /\ rushed' = rushed
  BY DEF DisketteChanges, bios
<1>4. Shape(fdc)
  BY KnownState
<1>5. Same(fdc, g)
  <2>1. Same(fdc, out)
    BY <1>4 DEF Same, Shape, Fields, SetMediaStatus
  <2> HIDE DEF out
  <2>2. Same(out, SetMediaStatus(out, d, TRUE))
    BY <2>1 DEF Same, Shape, Fields, SetMediaStatus
  <2>3. Same(fdc, new)
    BY <2>1, <2>2 DEF Same
  <2> HIDE DEF new, set
  <2> QED
    BY <2>3 DEF Same, Shape, Fields
<1> HIDE DEF g
<1>6. ASSUME pc \in Told, ~rushed
      PROVE  Delivered(fdc, dma, xfer', call)
  <2>1. fdc.pending \in Transfers /\ Delivered(fdc, dma, xfer, call)
    BY <1>6, ServedWants DEF Transferring
  <2>2. g.pending \in Transfers
    BY <1>5, <2>1 DEF Same
  <2>3. xfer' = x
    BY <1>2, <2>2, StillPending
  <2>4. x.sectors = xfer.sectors /\ DOMAIN x = DOMAIN xfer
    BY <2>1 DEF Delivered, HasMoved, Touched
  <2> HIDE DEF x
  <2> QED
    BY <2>1, <2>3, <2>4 DEF Delivered, HasMoved
<1>7. Same(fdc, fdc')
  BY <1>2, <1>5 DEF Becomes
<1> QED
  BY <1>2, <1>3, <1>6, <1>7, SameServing

LEMMA DeviceServing == ASSUME BInv, Serving, DeviceMoves PROVE Serving'
<1>1. /\ pc' = pc /\ call' = call /\ bda' = bda /\ rushed' = rushed
  BY DEF DeviceMoves
<1>2. /\ Shape(fdc) /\ DOMAIN fdc.at = Drives /\ Channel
      /\ ~HeldInReset(fdc) /\ (AtRest(fdc) => dma' = dma)
      /\ fdc.pending = "reset" => dma' = dma
  BY KnownState, DeviceEffect DEF Serving, BInv, Data, Channel
<1>3. DOMAIN fdc'.at = Drives
  BY <1>2, DeviceHeads
<1>4. pc \in Told /\ ~rushed => Delivered(fdc', dma', xfer', call)
  BY <1>2, ServedWants, TimerDelivers, DmaWriteDelivers, DmaReadDelivers DEF DeviceMoves
<1>5. pc \in {"prepare", "ready", "released", "held", "command"} => dma' = dma
  BY <1>2 DEF BInv, Follows, Spins, Resting, Restarting
<1> QED
  BY <1>1, <1>3, <1>4, <1>5 DEF Serving, Programmed, Told, Looking

LEMMA CallerHoldsServing == ASSUME BInv, Serving, CallerHoldsReset PROVE Serving'
<1>1. /\ fdc' = OutDor(fdc, fdc.drive, fdc.motors, FALSE) /\ pc = "caller" /\ pc' = pc
  BY DEF CallerHoldsReset, Running, DeviceTo, Becomes
<1>2. fdc'.at = fdc.at
  BY <1>1, KnownState DEF OutDor, Shape, Fields
<1> QED
  BY <1>1, <1>2 DEF Serving, Programmed, Told, Looking

LEMMA ServingStep == ASSUME BInv, Serving, [BNext]_bvars PROVE Serving'
<1>1. CASE Int13
  BY <1>1, CallServing, QuietServing, PrepareServing, ProgramServing, CommandServing,
     ResetServing, ResultsServing DEF Int13
<1>2. CASE UNCHANGED bvars
  BY <1>2 DEF bvars, vars, bios, Serving, Programmed, Told, Looking
<1> QED
  BY <1>1, <1>2, Int0eServing, SenseServing, Int08Serving, CallerHoldsServing, DeviceServing,
     DisketteChangesServing DEF BNext

(* Only the results of a transfer return success to a caller who asked for  *)
(* one.                                                                     *)
LEMMA SuccessIsNormal ==
  ASSUME BInv, [BNext]_bvars, call.fn \in Transfers, pc # "caller", pc' = "caller", answer' = 0
  PROVE  pc = "results" /\ ~Failed /\ fdc.result # <<>>
<1>1. Int13
  BY DEF BNext, bvars, bios, Int0e, SenseInterrupt, Int08, CallerHoldsReset, DeviceMoves,
         DisketteChanges
<1>2. Recalibrated \/ Program \/ TimedOut \/ Results
  BY <1>1 DEF Int13, Call, Prepare, Ready, Released, Held, Command, LookAtTicks,
              LookAtInterrupt, HoldController, ReleaseController, Running, Goto
<1>3. ~Recalibrated /\ ~Program /\ ~TimedOut
  BY DEF Recalibrated, Program, TimedOut, Return, Goto, Transfers
<1>4. Results /\ pc = "results"
  BY <1>2, <1>3 DEF Results, Running
<1>5. ~Failed
  BY <1>4 DEF Results, Return, Goto
<1> QED
  BY <1>4, <1>5 DEF BInv, Follows

LEMMA AllHaveMoved ==
  ASSUME NEW r, Wants(r), NEW x, HasMoved(x, r), Len(x.sectors) = r.n,
         r.fn = "write" => OnDiskette(r)
  PROVE  x.sectors = Wanted(r)
<1> DEFINE s == x.sectors
<1>1. s \in Seq(Int) /\ Len(s) = r.n /\ \A i \in 1..r.n : s[i] = Wanted(r)[i]
  BY DEF HasMoved
<1> HIDE DEF s
<1>2. s \in [1..r.n -> Int]
  BY <1>1, LenProperties
<1>3. Wanted(r) = [i \in 1..r.n |-> Wanted(r)[i]]
  BY DEF Wanted
<1>4. s = Wanted(r)
  BY <1>1, <1>2, <1>3
<1> QED
  BY <1>4 DEF s

(* A call that returns success has moved the sectors it was asked for, all  *)
(* of them and in order, over the ends of tracks and cylinders: unless its  *)
(* command was given while the timer of an earlier reset was still running. *)
THEOREM SuccessIsComplete == BSpec => SuccessMovesAll
<1>1. BInit => Serving
  BY InitServing
<1>2. BInv /\ Serving /\ [BNext]_bvars => Serving'
  BY ServingStep
<1>3. ASSUME BInv, Serving, [BNext]_bvars,
             call.fn \in Transfers, pc # "caller", pc' = "caller", answer' = 0,
             call.fn = "write" => OnDiskette(call), ~rushed
      PROVE  xfer.sectors = Wanted(call)
  <2>1. pc = "results" /\ ~Failed /\ fdc.result # <<>>
    BY <1>3, SuccessIsNormal
  <2>2. Wants(call) /\ Delivered(fdc, dma, xfer, call)
    BY <1>3, <2>1, ServedWants DEF Told
  <2>3. HasMoved(xfer, call) /\ Len(xfer.sectors) = call.n
    BY <2>1, <2>2 DEF Delivered, Failed
  <2> QED
    BY <1>3, <2>2, <2>3, AllHaveMoved
<1> QED
  BY <1>1, <1>2, <1>3, BiosInvariance, PTL DEF BSpec, SuccessMovesAll

-----------------------------------------------------------------------------
(* The ranges of the registers: each member function keeps them, whatever   *)
(* the others do.                                                           *)
ResultBytes == {r \in Seq({"st0", "st3", "version", "cyl", "size"}) : Len(r) <= 2}

Senseis == 0..4
Eots    == 0..255
Indices == 0..BytesPerSec
Buffers == -1..(Tracks * NumHeads * SecPerTrk - 1)

Registers ==
  [drive : Drives, normal : BOOLEAN, motors : SUBSET Drives, msr : SUBSET Bits,
   active : SUBSET Drives, pending : Commands \cup {Idle, "reset"},
   command : Commands \cup {Idle, "reset"}, complete : BOOLEAN, result : ResultBytes,
   irq : BOOLEAN, sensei : Senseis, st0 : St0, at : [Drives -> Chs], eot : Eots,
   multi : BOOLEAN, tc : BOOLEAN, index : Indices,
   buffer : Buffers, timer : BOOLEAN, drq : BOOLEAN,
   present : SUBSET Drives, changed : SUBSET Drives, protected : SUBSET Drives]

LEMMA Zeros == <<>> \in ResultBytes /\ 0 \in Senseis /\ 0 \in Eots /\ 0 \in Indices
BY GeometryAssumption DEF ResultBytes, Senseis, Eots, Indices

LEMMA EnterIdleTyped == ASSUME NEW f \in Registers PROVE EnterIdle(f) \in Registers
<1>1. [f EXCEPT !.msr = {"RQM"}, !.complete = TRUE, !.pending = Idle] \in Registers
  BY DEF Registers, Bits
<1>2. ASSUME NEW g \in Registers
      PROVE  [g EXCEPT !.command = Idle, !.result = <<>>, !.index = 0] \in Registers
  BY Zeros DEF Registers
<1> QED
  BY <1>1, <1>2 DEF EnterIdle

LEMMA RaiseTyped == ASSUME NEW f \in Registers PROVE RaiseInterrupt(f) \in Registers
BY Zeros DEF Registers, RaiseInterrupt

LEMMA LowerTyped == ASSUME NEW f \in Registers PROVE LowerInterrupt(f) \in Registers
BY DEF Registers, LowerInterrupt

LEMMA ResultTyped == ASSUME NEW f PROVE ResultOf(f) \in ResultBytes
BY DEF ResultOf, ResultBytes

LEMMA EnterResultTyped == ASSUME NEW f \in Registers PROVE EnterResult(f) \in Registers
<1> DEFINE g == [f EXCEPT !.msr = @ \cup {"RQM", "DIO", "BUSY"}, !.result = ResultOf(f)]
<1>1. g \in Registers
  BY ResultTyped DEF Registers, Bits
<1> QED
  BY <1>1, RaiseTyped DEF EnterResult

LEMMA ChangelineTyped == ASSUME NEW f \in Registers PROVE ResetChangeline(f) \in Registers
BY DEF Registers, ResetChangeline

LEMMA StTyped ==
  ASSUME NEW ic \in {"normal", "abnormal", "invalid", "ready"}, NEW end \in BOOLEAN,
         NEW drive \in Drives
  PROVE  St(ic, end, drive) \in St0
BY FloppyAssumption DEF St, St0

LEMMA StatusTyped ==
  ASSUME NEW f \in Registers, NEW s \in St0 PROVE [f EXCEPT !.st0 = s] \in Registers
BY DEF Registers

LEMMA HeadsTyped ==
  ASSUME NEW f \in Registers, NEW d, NEW a \in Chs PROVE [f EXCEPT !.at[d] = a] \in Registers
BY DEF Registers

LEMMA HomeTyped == [cyl |-> 0, head |-> 0, sec |-> 0] \in Chs
BY FloppyAssumption, GeometryAssumption DEF Chs

LEMMA ResetTyped == ASSUME NEW f \in Registers PROVE Reset(f) \in Registers
<1> DEFINE home == [d \in Drives |-> [cyl |-> 0, head |-> 0, sec |-> 0]]
           s == St("normal", FALSE, 0)
           g == [f EXCEPT !.irq = FALSE, !.sensei = 0, !.msr = {}, !.active = {}, !.st0 = s,
                          !.at = home, !.eot = 0, !.drq = FALSE]
<1>1. Reset(f) = EnterIdle(g)
  BY DEF Reset
<1>2. s \in St0 /\ home \in [Drives -> Chs]
  BY HomeTyped, StTyped, FloppyAssumption
<1> HIDE DEF s, home
<1>3. [f EXCEPT !.irq = FALSE, !.sensei = 0, !.msr = {}, !.active = {}, !.st0 = s] \in Registers
  BY <1>2, Zeros DEF Registers
<1>4. ASSUME NEW h \in Registers
      PROVE  [h EXCEPT !.at = home, !.eot = 0, !.drq = FALSE] \in Registers
  BY <1>2, Zeros DEF Registers
<1>5. g \in Registers
  BY <1>3, <1>4
<1> QED
  BY <1>1, <1>5, EnterIdleTyped

LEMMA LogicalTyped ==
  ASSUME NEW chs \in Chs PROVE Logical(chs) \in Int /\ Logical(chs) >= -1
<1>1. /\ chs.cyl \in Nat /\ chs.head \in 0..1 /\ chs.sec \in Nat
      /\ SecPerTrk \in Nat /\ NumHeads = 2
  BY FloppyAssumption, GeometryAssumption DEF Chs, NumHeads
<1>2. (chs.cyl * NumHeads + chs.head) * SecPerTrk \in Nat
  BY <1>1
<1> QED
  BY <1>1, <1>2 DEF Logical, LogicalSector

LEMMA FetchTyped ==
  ASSUME NEW f \in Registers, NEW chs \in Chs PROVE Fetch(f, chs) \in Registers
<1> DEFINE size == Tracks * NumHeads * SecPerTrk
           b == IF Logical(chs) < size THEN Logical(chs) ELSE -1
<1>1. size \in Nat
  BY FloppyAssumption, GeometryAssumption DEF NumHeads
<1>2. b \in -1 .. (size - 1)
  BY <1>1, LogicalTyped
<1>3. Fetch(f, chs) = [f EXCEPT !.buffer = b]
  BY DEF Fetch
<1> HIDE DEF b
<1>4. b \in Buffers
  BY <1>2 DEF Buffers
<1> QED
  BY <1>3, <1>4 DEF Registers

LEMMA IncrementSectorTyped == ASSUME NEW f \in Registers PROVE IncrementSector(f) \in Registers
<1> DEFINE at   == f.at[f.drive]
           wrap == EndOfTrack(f, at.sec + 1)
           step == wrap /\ (f.multi => at.head = 1)
           new  == [cyl  |-> IF step THEN NextCylinder(at.cyl) ELSE at.cyl,
                    head |-> IF wrap /\ f.multi THEN 1 - at.head ELSE at.head,
                    sec  |-> IF wrap THEN 1 ELSE at.sec + 1]
           g    == [f EXCEPT !.at[f.drive] = new]
<1>1. IncrementSector(f) = IF step THEN ResetChangeline(g) ELSE g
  BY DEF IncrementSector
<1>2. at \in Chs
  BY DEF Registers
<1>3. at.cyl \in 0..Tracks /\ at.head \in {0, 1} /\ at.sec \in Nat
  BY <1>2, GeometryAssumption DEF Chs
<1>4. ~wrap => at.sec + 1 <= SecPerTrk
  BY <1>3, GeometryAssumption DEF EndOfTrack
<1>5. NextCylinder(at.cyl) \in 0..Tracks
  BY <1>3, FloppyAssumption DEF NextCylinder
<1> HIDE DEF wrap, step
<1>6. new \in Chs
  BY <1>3, <1>4, <1>5, GeometryAssumption DEF Chs
<1> HIDE DEF new
<1>7. g \in Registers
  BY <1>6, HeadsTyped
<1> HIDE DEF g
<1> QED
  BY <1>1, <1>7, ChangelineTyped

LEMMA AdvanceTyped == ASSUME NEW f \in Registers PROVE Advance(f) \in Registers
<1>1. ASSUME NEW g \in Registers PROVE [g EXCEPT !.index = 0] \in Registers
  BY <1>1, Zeros DEF Registers
<1> QED
  BY <1>1, IncrementSectorTyped DEF Advance

LEMMA StepToTyped == ASSUME NEW f \in Registers, NEW p PROVE StepTo(f, p) \in Registers
BY ChangelineTyped DEF StepTo

LEMMA SelectTyped ==
  ASSUME NEW f \in Registers, NEW drive \in Drives PROVE Select(f, drive) \in Registers
BY DEF Registers, Select

(* What the BIOS gives along with a command.                                *)
Givens ==
  [drive : Drives, at : Chs, eot : Eots, multi : BOOLEAN, headsAgree : BOOLEAN]

LEMMA RecalibrateTyped ==
  ASSUME NEW f \in Registers, NEW p \in Givens PROVE Recalibrate(f, p) \in Registers
<1> DEFINE g == StepTo(Select(f, p.drive), [p EXCEPT !.at.cyl = 0])
           a == [g.at[p.drive] EXCEPT !.cyl = 0]
<1>1. p.drive \in Drives
  BY DEF Givens
<1>2. g \in Registers
  BY <1>1, SelectTyped, StepToTyped
<1>3. Recalibrate(f, p) = [g EXCEPT !.timer = TRUE, !.at[p.drive].cyl = 0, !.msr = {},
                                    !.active = {p.drive}]
  BY DEF Recalibrate
<1> HIDE DEF g
<1>4. g.at[p.drive] \in Chs
  BY <1>1, <1>2 DEF Registers
<1>5. a \in Chs
  BY <1>4, FloppyAssumption DEF Chs
<1>6. [g EXCEPT !.timer = TRUE, !.at[p.drive].cyl = 0, !.msr = {}, !.active = {p.drive}]
      = [g EXCEPT !.timer = TRUE, !.at[p.drive] = a, !.msr = {}, !.active = {p.drive}]
  BY <1>1, <1>2 DEF Registers
<1> HIDE DEF a
<1>7. [g EXCEPT !.timer = TRUE, !.at[p.drive] = a, !.msr = {}, !.active = {p.drive}] \in Registers
  BY <1>1, <1>2, <1>5 DEF Registers
<1> QED
  BY <1>3, <1>6, <1>7

LEMMA SenseTyped == ASSUME NEW f \in Registers PROVE Sense(f) \in Registers
<1> DEFINE g == [f EXCEPT !.sensei = @ - 1, !.st0.drive = 4 - f.sensei]
<1>1. ASSUME f.sensei > 0 PROVE g \in Registers
  <2> DEFINE s == [f.st0 EXCEPT !.drive = 4 - f.sensei]
             n == f.sensei - 1
  <2>1. f.sensei \in 0..4 /\ f.st0 \in St0
    BY DEF Registers, Senseis
  <2>2. s \in St0 /\ n \in Senseis
    BY <1>1, <2>1 DEF St0, Senseis
  <2>3. g = [f EXCEPT !.sensei = n, !.st0 = s]
    BY DEF Registers
  <2> HIDE DEF s, n, g
  <2>4. [f EXCEPT !.sensei = n, !.st0 = s] \in Registers
    BY <2>2 DEF Registers
  <2> QED
    BY <2>3, <2>4
<1>2. St("invalid", FALSE, 0) \in St0
  BY StTyped, FloppyAssumption
<1>3. [f EXCEPT !.st0 = St("invalid", FALSE, 0)] \in Registers
  BY <1>2, StatusTyped
<1> HIDE DEF g
<1> DEFINE k == IF f.sensei > 0 THEN g ELSE IF f.irq THEN f
                ELSE [f EXCEPT !.st0 = St("invalid", FALSE, 0)]
<1>4. k \in Registers
  BY <1>1, <1>3
<1>5. Sense(f) = EnterResult(k)
  BY DEF Sense, g
<1> HIDE DEF k
<1> QED
  BY <1>4, <1>5, EnterResultTyped

LEMMA EndTyped ==
  ASSUME NEW f \in Registers, NEW ic \in {"normal", "abnormal", "invalid", "ready"},
         NEW end \in BOOLEAN, NEW drive \in Drives
  PROVE  [f EXCEPT !.st0 = St(ic, end, drive)] \in Registers
BY StTyped, StatusTyped

LEMMA ReadWriteTyped ==
  ASSUME NEW f \in Registers, NEW c, NEW p \in Givens PROVE ReadWrite(f, c, p) \in Registers
<1> DEFINE g     == [Select(f, p.drive) EXCEPT !.multi = p.multi]
           moved == IF p.at.cyl = g.at[p.drive].cyl THEN g ELSE ResetChangeline(g)
           e     == IF p.eot = 0 THEN SecPerTrk ELSE p.eot
           ready == [moved EXCEPT !.at[p.drive] = p.at, !.msr = {"BUSY"}, !.active = {},
                                  !.eot = e]
           past  == [g EXCEPT !.at[p.drive] = p.at]
<1>1. p.drive \in Drives /\ p.at \in Chs /\ p.eot \in Eots /\ p.multi \in BOOLEAN
  BY DEF Givens
<1>2. Select(f, p.drive) \in Registers
  BY <1>1, SelectTyped
<1>3. g \in Registers
  BY <1>1, <1>2 DEF Registers
<1>4. ReadWrite(f, c, p) =
        CASE ~p.headsAgree -> Refused(g, p)
          [] p.headsAgree /\ p.drive \notin f.present -> g
          [] p.headsAgree /\ p.drive \in f.present /\ p.at.sec > SecPerTrk -> Refused(past, p)
          [] OTHER -> IF c = "read" THEN [Fetch(ready, p.at) EXCEPT !.timer = TRUE]
                                    ELSE [ready EXCEPT !.drq = TRUE]
  BY DEF ReadWrite
<1>5. e \in Eots
  BY <1>1, GeometryAssumption DEF Eots
<1> HIDE DEF g, e
<1>6. moved \in Registers
  BY <1>3, ChangelineTyped
<1> HIDE DEF moved
<1>7. ready \in Registers
  BY <1>1, <1>5, <1>6 DEF Registers, Bits
<1>8. past \in Registers
  BY <1>1, <1>3, HeadsTyped
<1> HIDE DEF ready, past
<1>9. Refused(g, p) \in Registers /\ Refused(past, p) \in Registers
  BY <1>1, <1>3, <1>8, EndTyped, EnterResultTyped DEF Refused
<1>10. Fetch(ready, p.at) \in Registers
  BY <1>1, <1>7, FetchTyped
<1>11. ASSUME NEW h \in Registers
       PROVE  [h EXCEPT !.timer = TRUE] \in Registers /\ [h EXCEPT !.drq = TRUE] \in Registers
  BY DEF Registers
<1> QED
  BY <1>3, <1>4, <1>7, <1>9, <1>10, <1>11

LEMMA AcceptTyped ==
  ASSUME NEW f \in Registers, NEW c \in Commands PROVE Accept(f, c) \in Registers
BY DEF Registers, Accept, Bits

(* The commands of the BIOS.                                                *)
LEMMA ExecuteTyped ==
  ASSUME NEW f \in Registers, NEW c \in {"recal", "sense", "read", "write"}, NEW p \in Givens
  PROVE  Execute(Accept(f, c), c, p) \in Registers
<1> DEFINE g == [Accept(f, c) EXCEPT !.pending = c]
           h == FloppyCommand(Accept(f, c), c, p)
<1>1. c \in Commands
  BY BiosAssumption
<1>2. Accept(f, c) \in Registers
  BY <1>1, AcceptTyped
<1>3. g \in Registers
  BY <1>1, <1>2 DEF Registers
<1>4. h \in {Recalibrate(g, p), Sense(g), ReadWrite(g, c, p)}
  BY DEF FloppyCommand
<1> HIDE DEF g
<1>5. h \in Registers
  BY <1>3, <1>4, RecalibrateTyped, SenseTyped, ReadWriteTyped
<1>6. Execute(Accept(f, c), c, p) = [h EXCEPT !.complete = TRUE, !.command = Idle]
  BY DEF Execute
<1> HIDE DEF h
<1> QED
  BY <1>5, <1>6 DEF Registers

LEMMA ReadAllTyped == ASSUME NEW f \in Registers PROVE ReadAll(f) \in Registers
<1>1. [f EXCEPT !.active = {}] \in Registers
  BY DEF Registers
<1> QED
  BY <1>1, LowerTyped, EnterIdleTyped DEF ReadAll

LEMMA OutDorTyped ==
  ASSUME NEW f \in Registers, NEW drive \in Drives, NEW motors \in SUBSET Drives,
         NEW normal \in BOOLEAN
  PROVE  OutDor(f, drive, motors, normal) \in Registers
<1> DEFINE g == [f EXCEPT !.drive = drive, !.motors = motors, !.normal = normal]
<1>1. g \in Registers
  BY DEF Registers
<1>2. ASSUME NEW h \in Registers
      PROVE  /\ [h EXCEPT !.msr = {}, !.active = {}, !.pending = "reset"] \in Registers
             /\ [h EXCEPT !.timer = TRUE] \in Registers
  BY DEF Registers
<1> HIDE DEF g
<1>3. OutDor(f, drive, motors, normal) \in
        {[g EXCEPT !.msr = {}, !.active = {}, !.pending = "reset"], [g EXCEPT !.timer = TRUE], g}
  BY DEF OutDor, g
<1> QED
  BY <1>1, <1>2, <1>3

(* Nothing moves if the last sector has been refused and not put away.      *)
LEMMA MovedTyped ==
  ASSUME NEW f \in Registers, dma.left \in Nat, dma.left > 0
  PROVE  LET m == Moved(f) IN
         /\ m \in Registers /\ m.pending = f.pending /\ m.drive = f.drive
         /\ m.index - f.index \in 0..dma.left
         /\ m.index - f.index = 0 => f.index = BytesPerSec
         /\ m.index < BytesPerSec \/ m.index = BytesPerSec
<1> DEFINE len == IF BytesPerSec - f.index < MaxLen THEN BytesPerSec - f.index ELSE MaxLen
           n   == f.index + len
           t   == dma.left <= BytesPerSec /\ len = MaxLen
<1>1. f.index \in 0..BytesPerSec /\ BytesPerSec \in Nat \ {0}
  BY GeometryAssumption DEF Registers, Indices
<1>2. MaxLen \in 1..dma.left
  BY <1>1 DEF MaxLen
<1>3. /\ len \in 0..dma.left /\ n \in Indices /\ n - f.index = len
      /\ len = 0 => f.index = BytesPerSec
      /\ n < BytesPerSec \/ n = BytesPerSec
  BY <1>1, <1>2 DEF Indices
<1>4. t \in BOOLEAN
  OBVIOUS
<1>5. Moved(f) = [f EXCEPT !.index = n, !.tc = t]
  BY DEF Moved, Registers
<1> HIDE DEF len, n, t
<1>6. /\ [f EXCEPT !.index = n, !.tc = t] \in Registers
      /\ [f EXCEPT !.index = n, !.tc = t].index = n
      /\ [f EXCEPT !.index = n, !.tc = t].pending = f.pending
      /\ [f EXCEPT !.index = n, !.tc = t].drive = f.drive
  BY <1>3, <1>4 DEF Registers
<1> QED
  BY <1>3, <1>5, <1>6

LEMMA LinesTyped ==
  ASSUME NEW f \in Registers, NEW b \in BOOLEAN
  PROVE  /\ [f EXCEPT !.drq = b] \in Registers /\ [f EXCEPT !.timer = b] \in Registers
         /\ [f EXCEPT !.drq = b].drive = f.drive
BY DEF Registers

LEMMA AwaitTyped == ASSUME NEW f \in Registers PROVE AwaitSector(f) \in Registers
BY DEF Registers, AwaitSector

LEMMA AfterResetTyped == ASSUME NEW f \in Registers PROVE AfterReset(f) \in Registers
<1>1. Reset(f) \in Registers
  BY ResetTyped
<1>2. [Reset(f) EXCEPT !.st0 = St("ready", FALSE, 0)] \in Registers
  BY <1>1, EndTyped, FloppyAssumption
<1>3. RaiseInterrupt([Reset(f) EXCEPT !.st0 = St("ready", FALSE, 0)]) \in Registers
  BY <1>2, RaiseTyped
<1>4. ASSUME NEW g \in Registers PROVE [g EXCEPT !.sensei = 4] \in Registers
  BY DEF Registers, Senseis
<1> QED
  BY <1>3, <1>4 DEF AfterReset

LEMMA ExpireTyped == ASSUME NEW f \in Registers PROVE Expire(f) \in Registers
<1>1. f.drive \in Drives
  BY DEF Registers
<1> DEFINE ic == IF f.drive \in f.motors THEN "normal" ELSE "abnormal"
           r  == [f EXCEPT !.st0 = St(ic, TRUE, f.drive)]
           s  == [f EXCEPT !.st0 = St("normal", TRUE, f.drive)]
           w  == [f EXCEPT !.st0 = St("normal", FALSE, f.drive)]
<1>2. r \in Registers /\ s \in Registers /\ w \in Registers
  BY <1>1, EndTyped
<1>3. /\ RaiseInterrupt(EnterIdle(r)) \in Registers /\ RaiseInterrupt(EnterIdle(s)) \in Registers
      /\ EnterResult(w) \in Registers /\ EnterResult(f) \in Registers
      /\ [f EXCEPT !.drq = TRUE] \in Registers /\ AfterReset(f) \in Registers
  BY <1>2, EnterIdleTyped, RaiseTyped, EnterResultTyped, LinesTyped, AfterResetTyped
<1>4. Expire(f) \in {RaiseInterrupt(EnterIdle(r)), RaiseInterrupt(EnterIdle(s)), EnterResult(w),
                     EnterResult(f), [f EXCEPT !.drq = TRUE], AfterReset(f), f}
  BY DEF Expire
<1> QED
  BY <1>3, <1>4

LEMMA MediaTyped ==
  ASSUME NEW f \in Registers, NEW d \in Drives, NEW inserted
  PROVE  SetMediaStatus(f, d, inserted) \in Registers
<1>1. [f EXCEPT !.present = @ \cup {d}] \in Registers
  BY DEF Registers
<1>2. [f EXCEPT !.present = @ \ {d}, !.changed = @ \cup {d}] \in Registers
  BY DEF Registers
<1> QED
  BY <1>1, <1>2 DEF SetMediaStatus

-----------------------------------------------------------------------------
(* What the history remembers of a transfer, and the DMA channel has left.  *)
Remembers(x) ==
  /\ {"units", "intact", "sectors"} \subseteq DOMAIN x
  /\ x.units \in 0..MaxUnits /\ x.sectors \in Seq(Int)

Channels == [dir : Transfers, left : 0..(MaxSectors * BytesPerSec)]

(* A sector that has moved has taken a unit at least of those programmed,   *)
(* and so has one that a protected diskette has refused.                    *)
Withheld(f) == IF f.index = BytesPerSec THEN 1 ELSE 0

Accounted ==
  /\ dma \in Channels /\ Remembers(xfer)
  /\ Len(xfer.sectors) + dma.left + Withheld(fdc) <= MaxUnits
  /\ fdc.pending \notin Positioned => xfer = NoTransfer

Areas == [intr : BOOLEAN, ticks : 0..OnCount, known : SUBSET Drives]

(* What INT 13h keeps.                                                      *)
BiosRanges ==
  /\ call \in Requests /\ call.n \in 1..MaxSectors
  /\ answer \in {0, 1, 3, 9, 32, 128}
  /\ bda \in Areas
  /\ {request, granted, ticked, rushed} \subseteq BOOLEAN

Ranges == fdc \in Registers /\ Accounted /\ BiosRanges

LEMMA MostUnits ==
  /\ MaxSectors * BytesPerSec \in Nat /\ MaxUnits \in Nat /\ MaxSectors * BytesPerSec <= MaxUnits
  /\ \A n \in 1..MaxSectors : n * BytesPerSec \in 0..(MaxSectors * BytesPerSec)
<1>1. MaxSectors \in Nat /\ BytesPerSec \in Nat /\ MaxUnits \in Nat
  BY BiosAssumption, GeometryAssumption, FloppyAssumption
<1>2. MaxSectors * BytesPerSec \in Nat
  BY <1>1
<1>3. ASSUME NEW n \in 1..MaxSectors PROVE n * BytesPerSec \in 0..(MaxSectors * BytesPerSec)
  <2>1. MaxSectors - n \in Nat /\ n \in Nat
    BY <1>1
  <2>2. (MaxSectors - n) * BytesPerSec \in Nat /\ n * BytesPerSec \in Nat
    BY <1>1, <2>1
  <2>3. (MaxSectors - n) * BytesPerSec = MaxSectors * BytesPerSec - n * BytesPerSec
    BY <1>1, <2>1
  <2> QED
    BY <1>2, <2>2, <2>3
<1> QED
  BY <1>1, <1>2, <1>3, BiosAssumption

LEMMA NothingRemembered == Remembers(NoTransfer) /\ Len(NoTransfer.sectors) = 0
BY FloppyAssumption DEF Remembers, NoTransfer

(* Without a move of the channel.                                           *)
LEMMA BecomesAccounted ==
  ASSUME Accounted, NEW f, NEW x, Becomes(f, x), dma' = dma, f.index \in {fdc.index, 0},
         Remembers(x), x.sectors = xfer.sectors \/ x.sectors = <<>>
  PROVE  Accounted'
<1> DEFINE w == Withheld(fdc)
           v == Withheld(f)
<1>1. dma \in Channels /\ dma.left \in Nat /\ Len(xfer.sectors) \in Nat
  BY MostUnits DEF Accounted, Channels, Remembers
<1>2. /\ Len(xfer.sectors) + dma.left + w <= MaxUnits /\ MaxUnits \in Nat
      /\ w \in {0, 1} /\ v \in {0, 1} /\ v <= w
  BY MostUnits, GeometryAssumption DEF Accounted, Withheld
<1>3. fdc' = f /\ xfer' = IF f.pending \in Positioned THEN x ELSE NoTransfer
  BY DEF Becomes
<1>a. Withheld(fdc)' = v
  BY <1>3 DEF Withheld
<1> HIDE DEF w, v
<1>4. Remembers(xfer') /\ Len(xfer'.sectors) + dma.left + v <= MaxUnits
  <2>1. CASE f.pending \in Positioned
    <3>1. CASE x.sectors = xfer.sectors
      BY <1>1, <1>2, <1>3, <2>1, <3>1
    <3>2. CASE x.sectors = <<>>
      <4>1. Len(x.sectors) = 0
        BY <3>2
      <4> QED
        BY <1>1, <1>2, <1>3, <2>1, <4>1
    <3> QED
      BY <3>1, <3>2
  <2>2. CASE f.pending \notin Positioned
    BY <1>1, <1>2, <1>3, <2>2, NothingRemembered
  <2> QED
    BY <2>1, <2>2
<1> QED
  BY <1>1, <1>3, <1>4, <1>a DEF Accounted

LEMMA StillAccounted ==
  ASSUME Accounted, NEW f, Becomes(f, xfer), dma' = dma, f.index \in {fdc.index, 0}
  PROVE  Accounted'
BY BecomesAccounted DEF Accounted

LEMMA SameAccounted == ASSUME Accounted, UNCHANGED vars PROVE Accounted'
BY DEF Accounted, vars, Withheld

(* With one.                                                                *)
LEMMA MovesAccounted ==
  ASSUME Accounted, NEW f, NEW x, Becomes(f, x), NEW k \in 0..dma.left,
         dma' = [dma EXCEPT !.left = @ - k], Remembers(x),
         Len(x.sectors) + Withheld(f) <= Len(xfer.sectors) + Withheld(fdc) + k
  PROVE  Accounted'
<1> DEFINE w == Withheld(fdc)
           v == Withheld(f)
<1>1. dma \in Channels /\ dma.left \in Nat /\ Len(xfer.sectors) \in Nat /\ Len(x.sectors) \in Nat
  BY MostUnits DEF Accounted, Channels, Remembers
<1>2. dma.left - k \in 0..(MaxSectors * BytesPerSec)
  BY <1>1, MostUnits DEF Channels
<1>3. dma' \in Channels /\ dma'.left = dma.left - k
  BY <1>1, <1>2 DEF Channels
<1>4. fdc' = f /\ xfer' = IF f.pending \in Positioned THEN x ELSE NoTransfer
  BY DEF Becomes
<1>5. /\ Len(xfer.sectors) + dma.left + w <= MaxUnits /\ MaxUnits \in Nat
      /\ Len(x.sectors) + v <= Len(xfer.sectors) + w + k
      /\ w \in {0, 1} /\ v \in {0, 1}
  BY MostUnits DEF Accounted, Withheld
<1>a. Withheld(fdc)' = v
  BY <1>4 DEF Withheld
<1> HIDE DEF w, v
<1>b. Len(x.sectors) + dma'.left + v <= MaxUnits
  <2> DEFINE a == Len(xfer.sectors)
             b == Len(x.sectors)
             c == dma.left
             d == dma'.left
  <2>1. a \in Int /\ b \in Int /\ c \in Int /\ k \in Int /\ d = c - k
    BY <1>1, <1>3
  <2>2. a + c + w <= MaxUnits /\ b + v <= a + w + k /\ w \in Int /\ v \in Int /\ MaxUnits \in Int
    BY <1>5
  <2> HIDE DEF a, b, c, d
  <2>3. b + d + v <= MaxUnits
    BY <2>1, <2>2
  <2> QED
    BY <2>3 DEF b, d
<1>6. Remembers(xfer') /\ Len(xfer'.sectors) + dma'.left + v <= MaxUnits
  <2>1. CASE f.pending \in Positioned
    <3>1. xfer' = x
      BY <1>4, <2>1
    <3> QED
      BY <1>b, <3>1
  <2>2. CASE f.pending \notin Positioned
    <3>1. xfer' = NoTransfer
      BY <1>4, <2>2
    <3> QED
      BY <1>1, <1>2, <1>3, <1>5, <1>b, <3>1, NothingRemembered
  <2> QED
    BY <2>1, <2>2
<1> QED
  BY <1>3, <1>4, <1>6, <1>a DEF Accounted

LEMMA DoneRemembers ==
  ASSUME Remembers(xfer), NEW sector \in Int
  PROVE  Remembers(Done(sector)) /\ Len(Done(sector).sectors) = Len(xfer.sectors) + 1
<1>1. /\ DOMAIN Done(sector) = DOMAIN xfer /\ Done(sector).units = xfer.units
      /\ Done(sector).sectors = Append(xfer.sectors, sector)
  BY DEF Done, Remembers
<1> QED
  BY <1>1 DEF Remembers

LEMMA DueAccounted ==
  ASSUME fdc \in Registers, Accounted, Data, TransferDue
  PROVE  LET m == Moved(fdc) IN
         /\ dma.left \in Nat /\ dma.left > 0
         /\ m \in Registers /\ m.drive \in Drives
         /\ m.index - fdc.index \in 0..dma.left
         /\ m.index - fdc.index >= 1 \/ Withheld(fdc) = 1
         /\ m.index \in Indices /\ Withheld(fdc) \in {0, 1}
<1>1. dma.left \in Nat /\ dma.left > 0
  BY DEF Data, TransferDue
<1> DEFINE m == Moved(fdc)
           k == m.index - fdc.index
<1>2. /\ m \in Registers
      /\ k \in 0..dma.left /\ (k = 0 => fdc.index = BytesPerSec)
  BY <1>1, MovedTyped
<1> HIDE DEF m, k
<1>3. k >= 1 \/ Withheld(fdc) = 1
  BY <1>1, <1>2 DEF Withheld
<1>4. m.drive \in Drives /\ m.index \in Indices
  BY <1>2 DEF Registers
<1> QED
  BY <1>1, <1>2, <1>3, <1>4 DEF m, k, Withheld

(* The sector that is full has been put away, and what is left is none.     *)
LEMMA AdvanceWithholds ==
  ASSUME NEW f \in Registers PROVE Advance(f).index = 0 /\ AwaitSector(f).index = f.index
<1>1. ASSUME NEW g \in Registers PROVE [g EXCEPT !.index = 0].index = 0
  BY <1>1 DEF Registers
<1>2. Advance(f).index = 0
  BY <1>1, IncrementSectorTyped DEF Advance
<1>3. AwaitSector(f).index = f.index
  BY DEF AwaitSector, Registers
<1> QED
  BY <1>2, <1>3

LEMMA StatusIndex ==
  ASSUME NEW f \in Registers, NEW s PROVE [f EXCEPT !.st0 = s].index = f.index
BY DEF Registers

LEMMA EnterResultIndex ==
  ASSUME NEW f \in Registers PROVE EnterResult(f).index = f.index
BY DEF EnterResult, RaiseInterrupt, Registers

LEMMA DmaWriteRanges ==
  ASSUME fdc \in Registers, Accounted, Data, DmaWrite PROVE fdc' \in Registers /\ Accounted'
<1> DEFINE f == Moved(fdc)
           g == IF f.index >= BytesPerSec THEN Advance(f) ELSE f
           h == [g EXCEPT !.drq = FALSE]
           e == [h EXCEPT !.st0 = St("normal", FALSE, f.drive)]
           k == f.index - fdc.index
           next == CASE f.tc -> EnterResult(e)
                     [] ~f.tc /\ f.index >= BytesPerSec -> AwaitSector(Fetch(g, g.at[g.drive]))
                     [] OTHER -> f
<1>1. /\ TransferDue /\ Becomes(next, Done(fdc.buffer))
      /\ dma' = [dma EXCEPT !.left = @ - k]
  BY DEF DmaWrite
<1>2. /\ f \in Registers /\ f.drive \in Drives /\ k \in 0..dma.left /\ f.index \in Indices
      /\ k >= 1 \/ Withheld(fdc) = 1
      /\ Withheld(fdc) \in {0, 1} /\ dma.left \in Nat
  BY <1>1, DueAccounted
<1> HIDE DEF f, k
<1>3. g \in Registers /\ g.index # BytesPerSec
  BY <1>2, AdvanceTyped, AdvanceWithholds, GeometryAssumption DEF Indices
<1>4. g.at[g.drive] \in Chs
  BY <1>3 DEF Registers
<1> HIDE DEF g
<1>5. h \in Registers /\ h.index = g.index
  <2>1. h \in Registers
    BY <1>3, LinesTyped
  <2>2. h.index = g.index
    BY <1>3 DEF Registers
  <2> QED
    BY <2>1, <2>2
<1> HIDE DEF h
<1>6. EnterResult(e) \in Registers /\ EnterResult(e).index = g.index
  <2>1. e \in Registers
    BY <1>2, <1>5, EndTyped
  <2>2. e.index = g.index
    BY <1>5, StatusIndex
  <2> HIDE DEF e
  <2> QED
    BY <2>1, <2>2, EnterResultTyped, EnterResultIndex
<1> HIDE DEF e
<1>7. /\ AwaitSector(Fetch(g, g.at[g.drive])) \in Registers
      /\ AwaitSector(Fetch(g, g.at[g.drive])).index = g.index
  <2>1. PICK b : Fetch(g, g.at[g.drive]) = [g EXCEPT !.buffer = b]
    BY DEF Fetch
  <2>2. Fetch(g, g.at[g.drive]).index = g.index
    BY <1>3, <2>1 DEF Registers
  <2> QED
    BY <1>3, <1>4, <2>2, FetchTyped, AwaitTyped, AdvanceWithholds
<1>8. next \in Registers /\ Withheld(next) = 0
  <2>1. g = f \/ f.index >= BytesPerSec
    BY DEF g
  <2>2. next \in Registers /\ next.index # BytesPerSec
    BY <1>2, <1>3, <1>6, <1>7, <2>1, GeometryAssumption DEF Indices
  <2> QED
    BY <2>2 DEF Withheld
<1> HIDE DEF next
<1>9. fdc.buffer \in Int
  BY FloppyAssumption, GeometryAssumption DEF Registers, Buffers, NumHeads
<1>10. /\ Remembers(Done(fdc.buffer))
       /\ Len(Done(fdc.buffer).sectors) = Len(xfer.sectors) + 1
  BY <1>9, DoneRemembers DEF Accounted
<1>11. Len(Done(fdc.buffer).sectors) + Withheld(next) <= Len(xfer.sectors) + Withheld(fdc) + k
  <2>1. Len(xfer.sectors) \in Nat
    BY DEF Accounted, Remembers
  <2> QED
    BY <1>2, <1>8, <1>10, <2>1
<1>12. Accounted'
  BY <1>1, <1>2, <1>10, <1>11, MovesAccounted
<1> QED
  BY <1>1, <1>8, <1>12 DEF Becomes

LEMMA DmaReadRanges ==
  ASSUME fdc \in Registers, Accounted, Data, DmaRead PROVE fdc' \in Registers /\ Accounted'
<1> DEFINE f == Moved(fdc)
           here == Logical(f.at[f.drive])
           full == f.index >= BytesPerSec \/ f.tc
           k == f.index - fdc.index
           e == [f EXCEPT !.drq = FALSE, !.st0 = St("abnormal", FALSE, f.drive)]
           next == IF full THEN AwaitSector(Advance(f)) ELSE f
           x == IF full THEN Done(here) ELSE xfer
<1>1. /\ TransferDue
      /\ \/ Becomes(EnterResult(e), xfer) /\ dma' = [dma EXCEPT !.left = @ - 1]
         \/ Becomes(next, x) /\ dma' = [dma EXCEPT !.left = @ - k]
  BY DEF DmaRead
<1>2. /\ f \in Registers /\ f.drive \in Drives /\ k \in 0..dma.left
      /\ dma.left \in Nat /\ dma.left > 0 /\ f.index \in Indices
      /\ k >= 1 \/ Withheld(fdc) = 1
      /\ Withheld(fdc) \in {0, 1}
  BY <1>1, DueAccounted
<1> HIDE DEF f, k
<1>3. f.at[f.drive] \in Chs
  BY <1>2 DEF Registers
<1>4. here \in Int
  BY <1>3, LogicalTyped
<1>5. EnterResult(e) \in Registers
  <2>1. St("abnormal", FALSE, f.drive) \in St0
    BY <1>2, StTyped
  <2>2. e \in Registers
    BY <1>2, <2>1 DEF Registers
  <2> QED
    BY <2>2, EnterResultTyped
<1>6. next \in Registers /\ Withheld(next) = 0
  <2>1. Advance(f) \in Registers /\ Advance(f).index = 0
    BY <1>2, AdvanceTyped, AdvanceWithholds
  <2>2. AwaitSector(Advance(f)) \in Registers /\ AwaitSector(Advance(f)).index = 0
    BY <2>1, AwaitTyped, AdvanceWithholds
  <2>3. ~full => f.index # BytesPerSec
    BY <1>2, GeometryAssumption DEF Indices
  <2> QED
    BY <1>2, <2>2, <2>3, GeometryAssumption DEF Withheld
<1>6a. Withheld(EnterResult(e)) \in {0, 1}
  BY DEF Withheld
<1> HIDE DEF e, next, here
<1>7. /\ Remembers(Done(here)) /\ Len(Done(here).sectors) = Len(xfer.sectors) + 1
      /\ Remembers(xfer) /\ Len(xfer.sectors) \in Nat
  <2>1. Remembers(xfer)
    BY DEF Accounted
  <2>2. Len(xfer.sectors) \in Nat
    BY <2>1 DEF Remembers
  <2> QED
    BY <1>4, <2>1, <2>2, DoneRemembers
<1>8. /\ Remembers(x)
      /\ Len(x.sectors) + Withheld(next) <= Len(xfer.sectors) + Withheld(fdc) + k
      /\ Len(xfer.sectors) + Withheld(EnterResult(e)) <= Len(xfer.sectors) + Withheld(fdc) + 1
  BY <1>2, <1>6, <1>6a, <1>7
<1> HIDE DEF x
<1>9. CASE Becomes(EnterResult(e), xfer) /\ dma' = [dma EXCEPT !.left = @ - 1]
  <2>1. 1 \in 0..dma.left
    BY <1>2
  <2>2. Accounted'
    BY <1>7, <1>8, <1>9, <2>1, MovesAccounted
  <2> QED
    BY <1>5, <1>9, <2>2 DEF Becomes
<1>10. CASE Becomes(next, x) /\ dma' = [dma EXCEPT !.left = @ - k]
  <2>1. Accounted'
    BY <1>2, <1>8, <1>10, MovesAccounted
  <2> QED
    BY <1>6, <1>10, <2>1 DEF Becomes
<1> QED
  BY <1>1, <1>9, <1>10

LEMMA EnterIdleIndex == ASSUME NEW f \in Registers PROVE EnterIdle(f).index = 0
BY DEF EnterIdle, Registers

LEMMA RaiseIndex == ASSUME NEW f \in Registers PROVE RaiseInterrupt(f).index = f.index
BY DEF RaiseInterrupt, Registers

LEMMA ExpireIndex == ASSUME NEW f \in Registers PROVE Expire(f).index \in {f.index, 0}
<1> DEFINE ic == IF f.drive \in f.motors THEN "normal" ELSE "abnormal"
           r  == [f EXCEPT !.st0 = St(ic, TRUE, f.drive)]
           s  == [f EXCEPT !.st0 = St("normal", TRUE, f.drive)]
           w  == [f EXCEPT !.st0 = St("normal", FALSE, f.drive)]
           q  == [Reset(f) EXCEPT !.st0 = St("ready", FALSE, 0)]
<1>1. f.drive \in Drives
  BY DEF Registers
<1>2. r \in Registers /\ s \in Registers /\ w \in Registers /\ w.index = f.index
  BY <1>1, EndTyped, StatusIndex
<1>3. q \in Registers
  BY ResetTyped, EndTyped, FloppyAssumption
<1> HIDE DEF r, s, w
<1>4. /\ RaiseInterrupt(EnterIdle(r)).index = 0 /\ RaiseInterrupt(EnterIdle(s)).index = 0
      /\ EnterResult(w).index = f.index /\ EnterResult(f).index = f.index
  BY <1>2, EnterIdleTyped, EnterIdleIndex, RaiseIndex, EnterResultIndex
<1>5. [f EXCEPT !.drq = TRUE].index = f.index
  BY DEF Registers
<1>6. AfterReset(f).index = 0
  <2> DEFINE home == [d \in Drives |-> [cyl |-> 0, head |-> 0, sec |-> 0]]
             z == St("normal", FALSE, 0)
             g == [f EXCEPT !.irq = FALSE, !.sensei = 0, !.msr = {}, !.active = {}, !.st0 = z,
                            !.at = home, !.eot = 0, !.drq = FALSE]
             i == RaiseInterrupt(q)
  <2>1. Reset(f) = EnterIdle(g)
    BY DEF Reset
  <2>2. EnterIdle(g).index = 0
    BY DEF EnterIdle, Registers
  <2>3. q.index = 0
    BY <2>1, <2>2, ResetTyped, StatusIndex
  <2> HIDE DEF q, g
  <2>4. i \in Registers /\ i.index = 0
    BY <1>3, <2>3, RaiseTyped, RaiseIndex
  <2> HIDE DEF i
  <2>5. [i EXCEPT !.sensei = 4].index = 0
    BY <2>4 DEF Registers
  <2> QED
    BY <2>5 DEF AfterReset, i, q
<1>7. Expire(f) \in {RaiseInterrupt(EnterIdle(r)), RaiseInterrupt(EnterIdle(s)), EnterResult(w),
                     EnterResult(f), [f EXCEPT !.drq = TRUE], AfterReset(f), f}
  BY DEF Expire, r, s, w
<1> QED
  BY <1>4, <1>5, <1>6, <1>7

LEMMA TimerRanges ==
  ASSUME fdc \in Registers, Accounted, Timer PROVE fdc' \in Registers /\ Accounted'
<1> DEFINE f == [fdc EXCEPT !.timer = FALSE]
<1>1. f \in Registers /\ f.index = fdc.index
  <2>1. f \in Registers
    BY LinesTyped
  <2>2. f.index = fdc.index
    BY DEF Registers
  <2> QED
    BY <2>1, <2>2
<1>2. Becomes(Expire(f), xfer) /\ dma' = dma
  BY DEF Timer
<1> HIDE DEF f
<1>3. Expire(f) \in Registers /\ Expire(f).index \in {fdc.index, 0}
  BY <1>1, ExpireTyped, ExpireIndex
<1> QED
  BY <1>2, <1>3, StillAccounted DEF Becomes

LEMMA DeviceRanges == ASSUME BInv, Ranges, DeviceMoves PROVE Ranges'
<1>1. fdc' \in Registers /\ Accounted'
  BY TimerRanges, DmaWriteRanges, DmaReadRanges DEF DeviceMoves, BInv, Ranges
<1>2. request' \in BOOLEAN /\ granted' \in BOOLEAN
  BY DEF DeviceMoves, Latch, Ranges, BiosRanges
<1> QED
  BY <1>1, <1>2 DEF Ranges, BiosRanges, DeviceMoves

LEMMA MediaIndex ==
  ASSUME NEW f \in Registers, NEW d, NEW inserted
  PROVE  SetMediaStatus(f, d, inserted).index = f.index
BY DEF SetMediaStatus, Registers

LEMMA DisketteRanges == ASSUME Ranges, DisketteChanges PROVE Ranges'
<1>1. PICK d \in Drives, inserted \in BOOLEAN, readonly \in BOOLEAN :
        RuntimeConfig(d, inserted, readonly)
  BY DEF DisketteChanges
<1> DEFINE out == SetMediaStatus(fdc, d, FALSE)
           new == IF inserted THEN SetMediaStatus(out, d, TRUE) ELSE out
           set == IF readonly THEN new.protected \cup {d} ELSE new.protected \ {d}
           g   == [new EXCEPT !.protected = set]
<1>2. Becomes(g, Touched(d)) /\ dma' = dma
  BY <1>1 DEF RuntimeConfig
<1>3. out \in Registers /\ out.index = fdc.index
  BY MediaTyped, MediaIndex DEF Ranges
<1> HIDE DEF out
<1>4. new \in Registers /\ new.index = fdc.index
  BY <1>3, MediaTyped, MediaIndex
<1> HIDE DEF new
<1>5. g \in Registers /\ g.index = fdc.index
  BY <1>4 DEF Registers
<1> HIDE DEF g
<1>6. /\ DOMAIN Touched(d) = DOMAIN xfer /\ Touched(d).units = xfer.units
      /\ Touched(d).sectors = xfer.sectors
  BY DEF Ranges, Accounted, Remembers, Touched
<1>7. Remembers(Touched(d))
  BY <1>6 DEF Ranges, Accounted, Remembers
<1>8. Accounted'
  BY <1>2, <1>5, <1>6, <1>7, BecomesAccounted DEF Ranges
<1> QED
  BY <1>2, <1>5, <1>8 DEF Becomes, Ranges, BiosRanges, DisketteChanges, bios

-----------------------------------------------------------------------------
(* The steps of INT 13h.                                                    *)
LEMMA AreaTyped ==
  ASSUME NEW b \in Areas
  PROVE  /\ \A v \in BOOLEAN : [b EXCEPT !.intr = v] \in Areas
         /\ \A n \in 0..OnCount : [b EXCEPT !.ticks = n] \in Areas
         /\ \A v \in BOOLEAN, n \in 0..OnCount : [b EXCEPT !.intr = v, !.ticks = n] \in Areas
         /\ \A v \in BOOLEAN, d \in Drives : [b EXCEPT !.intr = v, !.known = @ \cup {d}] \in Areas
BY DEF Areas

(* What a step that leaves the machine alone has to keep.                   *)
LEMMA QuietRanges ==
  ASSUME Ranges, UNCHANGED <<vars, request>>, {granted', ticked', rushed'} \subseteq BOOLEAN,
         call' \in Requests, call'.n \in 1..MaxSectors, answer' \in {0, 1, 3, 9, 32, 128},
         bda' \in Areas
  PROVE  Ranges'
<1>1. Accounted'
  BY SameAccounted DEF Ranges, vars
<1> QED
  BY <1>1 DEF Ranges, BiosRanges, vars

LEMMA RequestTyped == NoRequest \in Requests /\ NoRequest.n \in 1..MaxSectors
BY BiosAssumption, FloppyAssumption, GeometryAssumption DEF NoRequest, Requests, NoTransfer

LEMMA CallRanges == ASSUME Ranges, Call PROVE Ranges'
<1>1. /\ vars' = vars /\ request' = request /\ bda' = bda
      /\ {granted', ticked', rushed'} \subseteq BOOLEAN
  BY DEF Call, Running, Quiet, vars, Return, Ranges, BiosRanges
<1>2. \A r \in Requests : Refusal(r) \in {0, 1, 128}
  BY DEF Refusal
<1>3. Refusals \subseteq {1, 128}
  BY <1>2 DEF Refusals
<1>4. ASSUME NEW r \in Accepted PROVE r \in Requests /\ r.n \in 1..MaxSectors
  <2>1. r \in Requests /\ Refusal(r) = 0
    BY DEF Accepted
  <2>2. r.n \in 0..(MaxSectors + 1) /\ MaxSectors \in Nat
    BY <2>1, BiosAssumption DEF Requests
  <2>3. r.n # 0 /\ ~(r.n > MaxSectors)
    BY <2>1 DEF Refusal
  <2> QED
    BY <2>1, <2>2, <2>3
<1>5. \/ call' = NoRequest /\ answer' \in {0, 1, 128}
      \/ call' \in Accepted /\ answer' = 0
  BY <1>3 DEF Call, Return
<1>6. call' \in Requests /\ call'.n \in 1..MaxSectors /\ answer' \in {0, 1, 3, 9, 32, 128}
  BY <1>4, <1>5, RequestTyped
<1> QED
  BY <1>1, <1>6, QuietRanges DEF Ranges, BiosRanges

LEMMA ReturnTyped ==
  ASSUME Ranges,
         UNCHANGED <<call, answer, rushed>> \/ \E ah \in {0, 3, 9, 32, 128} : Return(ah)
  PROVE  /\ call' \in Requests /\ call'.n \in 1..MaxSectors
         /\ answer' \in {0, 1, 3, 9, 32, 128} /\ rushed' \in BOOLEAN
BY RequestTyped DEF Return, Ranges, BiosRanges

LEMMA WaitsRanges ==
  ASSUME Ranges, Ready \/ Released \/ Held \/ LookAtTicks \/ LookAtInterrupt \/ TimedOut
  PROVE  Ranges'
<1>1. vars' = vars /\ request' = request /\ ticked' = FALSE /\ granted' = FALSE
  BY DEF Ready, Released, Held, LookAtTicks, LookAtInterrupt, TimedOut, Running, Quiet, vars
<1>2. bda' = bda \/ bda' = [bda EXCEPT !.intr = FALSE]
  BY DEF Ready, Released, Held, LookAtTicks, LookAtInterrupt, TimedOut
<1>3. bda \in Areas
  BY DEF Ranges, BiosRanges
<1>4. bda' \in Areas
  BY <1>2, <1>3, AreaTyped
<1>5. UNCHANGED <<call, answer, rushed>> \/ \E ah \in {0, 3, 9, 32, 128} : Return(ah)
  BY DEF Ready, Released, Held, LookAtTicks, LookAtInterrupt, TimedOut, Goto
<1> QED
  BY <1>1, <1>4, <1>5, ReturnTyped, QuietRanges

LEMMA RecalibratedRanges == ASSUME BInv, Ranges, Recalibrated PROVE Ranges'
<1>1. vars' = vars /\ request' = request /\ ticked' = FALSE /\ granted' = FALSE
  BY DEF Recalibrated, Running, Quiet, vars
<1>2. call.drive \in Drives
  BY DEF Recalibrated, Running, BInv, Served
<1>3. bda' = bda \/ bda' = [bda EXCEPT !.intr = FALSE, !.known = @ \cup {call.drive}]
  BY DEF Recalibrated
<1>4. bda \in Areas
  BY DEF Ranges, BiosRanges
<1>5. bda' \in Areas
  BY <1>2, <1>3, <1>4, AreaTyped
<1>6. UNCHANGED <<call, answer, rushed>> \/ \E ah \in {0, 3, 9, 32, 128} : Return(ah)
  BY DEF Recalibrated, Goto
<1> QED
  BY <1>1, <1>5, <1>6, ReturnTyped, QuietRanges

LEMMA ProgramRanges == ASSUME BInv, Ranges, Program PROVE Ranges'
<1>1. /\ fdc' = fdc /\ xfer' = xfer /\ bda' = bda /\ request' = request /\ ticked' = FALSE /\ granted' = FALSE
      /\ call.fn \in Transfers
      /\ Resting(fdc) \/ HeldInReset(fdc)
  BY DEF Program, Running, BInv, Served, Follows
<1>2. \/ dma' = dma
      \/ dma' = [dir |-> call.fn, left |-> call.n * BytesPerSec]
  BY DEF Program
<1>3. UNCHANGED <<call, answer, rushed>> \/ \E ah \in {0, 3, 9, 32, 128} : Return(ah)
  BY DEF Program, Goto
<1>4. fdc.pending \notin Positioned /\ Withheld(fdc) = 0
  BY <1>1, GeometryAssumption
     DEF Resting, AtRest, HeldInReset, Stopped, Positioned, Idle, Withheld
<1>5. xfer = NoTransfer /\ Len(xfer.sectors) = 0
  BY <1>4, NothingRemembered DEF Ranges, Accounted
<1>6. call.n * BytesPerSec \in 0..(MaxSectors * BytesPerSec)
  BY MostUnits DEF Ranges, BiosRanges
<1>7. dma' \in Channels
  <2>1. dma \in Channels
    BY DEF Ranges, Accounted
  <2>2. [dir |-> call.fn, left |-> call.n * BytesPerSec] \in Channels
    BY <1>1, <1>6 DEF Channels
  <2> QED
    BY <1>2, <2>1, <2>2
<1>8. dma'.left \in Nat /\ dma'.left <= MaxUnits
  BY <1>7, MostUnits DEF Channels
<1>9. Accounted'
  BY <1>1, <1>4, <1>5, <1>7, <1>8, NothingRemembered DEF Accounted, Withheld
<1> QED
  BY <1>1, <1>3, <1>9, ReturnTyped DEF Ranges, BiosRanges

(* The controller is spoken to.                                             *)
LEMMA SpokenRanges ==
  ASSUME Ranges, NEW g \in Registers, DeviceTo(g, xfer), dma' = dma,
         g.index \in {fdc.index, 0}
  PROVE  fdc' \in Registers /\ Accounted' /\ request' \in BOOLEAN
BY StillAccounted DEF DeviceTo, Becomes, Latch, Ranges

LEMMA NormalTyped ==
  ASSUME Ranges PROVE fdc.normal \in BOOLEAN /\ fdc.drive \in Drives /\ fdc.motors \in SUBSET Drives
BY DEF Ranges, Registers

LEMMA OutDorIndex ==
  ASSUME NEW f \in Registers, NEW drive, NEW motors, NEW normal
  PROVE  OutDor(f, drive, motors, normal).index = f.index
BY DEF OutDor, Registers

LEMMA ReadAllIndex == ASSUME NEW f \in Registers PROVE ReadAll(f).index = 0
<1>1. [f EXCEPT !.active = {}] \in Registers
  BY DEF Registers
<1> QED
  BY <1>1, LowerTyped, EnterIdleIndex DEF ReadAll

LEMMA PrepareRanges == ASSUME BInv, Ranges, Prepare PROVE Ranges'
<1> DEFINE g == OutDor(fdc, call.drive, {call.drive}, TRUE)
<1>1. /\ DeviceTo(g, xfer) /\ dma' = dma /\ ticked' = FALSE /\ granted' = FALSE
      /\ call' = call /\ answer' = answer /\ rushed' = rushed
      /\ bda' = [bda EXCEPT !.intr = FALSE, !.ticks = OnCount] /\ call.drive \in Drives
  BY DEF Prepare, Running, Goto, NoInterruptYet, BInv, Served
<1>2. g \in Registers
  BY <1>1, OutDorTyped DEF Ranges
<1>2a. g.index = fdc.index
  BY OutDorIndex DEF Ranges
<1> HIDE DEF g
<1>3. fdc' \in Registers /\ Accounted' /\ request' \in BOOLEAN
  BY <1>1, <1>2, <1>2a, SpokenRanges
<1>4. bda \in Areas /\ OnCount \in 0..OnCount
  BY BiosAssumption DEF Ranges, BiosRanges
<1>5. bda' \in Areas
  BY <1>1, <1>4, AreaTyped
<1> QED
  BY <1>1, <1>3, <1>5 DEF Ranges, BiosRanges

LEMMA GivenTyped ==
  ASSUME BInv, Ranges, pc = "command"
  PROVE  Given.c \in {"recal", "sense", "read", "write"} /\ Given.p \in Givens
<1>1. /\ call \in Requests /\ call.drive \in Drives /\ call.n \in 1..MaxSectors
      /\ call.drive \in bda.known => call.fn \in Transfers
  BY DEF BInv, Served, Ranges, BiosRanges
<1>2. CASE call.drive \notin bda.known
  <2>1. Given.c = "recal" /\ Given.p = [NoParameters EXCEPT !.drive = call.drive]
    BY <1>2 DEF Given
  <2>2. NoParameters \in Givens
    BY FloppyAssumption, GeometryAssumption DEF NoParameters, Givens, NoTransfer, Chs, Eots
  <2>3. [NoParameters EXCEPT !.drive = call.drive] \in Givens
    BY <1>1, <2>2 DEF Givens
  <2> QED
    BY <2>1, <2>3
<1>3. CASE call.drive \in bda.known
  <2> DEFINE p == [drive |-> call.drive, at |-> call.at, eot |-> call.at.sec + call.n - 1,
                   multi |-> TRUE, headsAgree |-> TRUE]
  <2>1. Given.c = call.fn /\ Given.p = p
    BY <1>3 DEF Given
  <2>2. /\ call.at.cyl \in 0..(Tracks - 1) /\ call.at.head \in {0, 1}
        /\ call.at.sec \in 0..(SecPerTrk + 1)
        /\ call.at = [cyl |-> call.at.cyl, head |-> call.at.head, sec |-> call.at.sec]
    BY <1>1 DEF Requests
  <2>3. call.at \in Chs
    <3>1. call.at.cyl \in 0..Tracks
      BY <2>2, FloppyAssumption
    <3> QED
      BY <2>2, <3>1 DEF Chs
  <2>4. call.at.sec + call.n - 1 \in Eots
    <3>1. call.n \in 1..MaxSectors /\ call.at.sec \in 0..(SecPerTrk + 1)
      BY <1>1, <2>2
    <3>2. /\ MaxSectors \in Nat /\ SecPerTrk \in Nat /\ SecPerTrk + MaxSectors <= 255
      BY BiosAssumption, GeometryAssumption
    <3>3. ASSUME NEW n \in 1..MaxSectors, NEW k \in 0..(SecPerTrk + 1) PROVE k + n - 1 \in Eots
      <4>1. k + n - 1 >= 0 /\ k + n - 1 <= SecPerTrk + MaxSectors /\ k + n - 1 \in Int
        BY <3>2
      <4> QED
        BY <3>2, <4>1 DEF Eots
    <3> QED
      BY <3>1, <3>3
  <2>5. p \in Givens
    BY <1>1, <2>3, <2>4 DEF Givens
  <2> QED
    BY <1>1, <1>3, <2>1, <2>5 DEF Transfers
<1> QED
  BY <1>2, <1>3

LEMMA AskedRemembers ==
  ASSUME Accounted, NEW p PROVE Remembers(Asked(p)) /\ Asked(p).sectors = <<>>
<1>1. dma.left \in 0..MaxUnits
  BY MostUnits DEF Accounted, Channels
<1> QED
  BY <1>1 DEF Asked, Remembers

LEMMA GivenIndex ==
  ASSUME BInv, pc = "command"
  PROVE  fdc.index = 0 /\ Execute(Accept(fdc, Given.c), Given.c, Given.p).index = 0
<1>1. Shape(fdc) /\ Resting(fdc) /\ ~fdc.irq
  BY KnownState DEF BInv, Follows, Wires, Closed, Resting
<1>2. CASE call.drive \notin bda.known
  <2>1. Given.c = "recal"
    BY <1>2 DEF Given
  <2> QED
    BY <1>1, <2>1, RecalibrationGiven DEF Recalibrating, Resting, AtRest
<1>3. CASE call.drive \in bda.known
  <2>1. Given.c = call.fn /\ call.fn \in Transfers /\ Given.p.headsAgree
    BY <1>3 DEF Given, BInv, Served
  <2> QED
    BY <1>1, <2>1, TransferGiven DEF Resting, AtRest
<1> QED
  BY <1>2, <1>3

LEMMA CommandRanges == ASSUME BInv, Ranges, Command PROVE Ranges'
<1> DEFINE g == Execute(Accept(fdc, Given.c), Given.c, Given.p)
<1>1. /\ DeviceTo(g, Asked(Given.p)) /\ dma' = dma /\ ticked' = FALSE /\ granted' = FALSE
      /\ rushed' \in BOOLEAN /\ call' = call /\ answer' = answer /\ bda' = bda /\ pc = "command"
  BY DEF Command, Running, Goto
<1>2. g \in Registers /\ g.index = 0
  BY <1>1, GivenTyped, ExecuteTyped, GivenIndex DEF Ranges
<1> HIDE DEF g
<1>3. Becomes(g, Asked(Given.p)) /\ request' \in BOOLEAN
  BY <1>1 DEF DeviceTo, Latch
<1>4. Accounted'
  BY <1>1, <1>2, <1>3, AskedRemembers, BecomesAccounted DEF Ranges
<1> QED
  BY <1>1, <1>2, <1>3, <1>4 DEF Ranges, BiosRanges, Becomes

LEMMA ResetRanges ==
  ASSUME Ranges, HoldController \/ ReleaseController PROVE Ranges'
<1>1. PICK normal \in BOOLEAN : DeviceTo(OutDor(fdc, fdc.drive, fdc.motors, normal), xfer)
  BY DEF HoldController, ReleaseController
<1>2. /\ dma' = dma /\ ticked' = FALSE /\ granted' = FALSE /\ rushed' = rushed
      /\ call' = call /\ answer' = answer /\ bda' = bda
  BY DEF HoldController, ReleaseController, Running, Goto
<1>3. /\ OutDor(fdc, fdc.drive, fdc.motors, normal) \in Registers
      /\ OutDor(fdc, fdc.drive, fdc.motors, normal).index = fdc.index
  BY NormalTyped, OutDorTyped, OutDorIndex DEF Ranges
<1>4. fdc' \in Registers /\ Accounted' /\ request' \in BOOLEAN
  BY <1>1, <1>2, <1>3, SpokenRanges
<1> QED
  BY <1>2, <1>4 DEF Ranges, BiosRanges

LEMMA ResultsRanges == ASSUME Ranges, Results PROVE Ranges'
<1>1. bda' = bda /\ ticked' = FALSE /\ granted' = FALSE
  BY DEF Results, Running
<1>2. UNCHANGED <<call, answer, rushed>> \/ \E ah \in {0, 3, 9, 32, 128} : Return(ah)
  BY DEF Results, Goto
<1>3. UNCHANGED <<vars, request>> \/ (DeviceTo(ReadAll(fdc), xfer) /\ dma' = dma)
  BY DEF Results, Quiet
<1>4. fdc' \in Registers /\ Accounted' /\ request' \in BOOLEAN
  BY <1>3, ReadAllTyped, ReadAllIndex, SpokenRanges, SameAccounted DEF Ranges, BiosRanges, vars
<1> QED
  BY <1>1, <1>2, <1>4, ReturnTyped DEF Ranges, BiosRanges

(* The handlers.                                                            *)
LEMMA Int0eRanges == ASSUME Ranges, Int0e PROVE Ranges'
<1>1. /\ vars' = vars /\ request' = FALSE /\ granted' = FALSE /\ ticked' = ticked
      /\ rushed' = rushed /\ call' = call /\ answer' = answer
      /\ bda' = [bda EXCEPT !.intr = @ \/ ResultsReady]
  BY DEF Int0e, vars
<1>2. bda \in Areas /\ ResultsReady \in BOOLEAN /\ (bda.intr \/ ResultsReady) \in BOOLEAN
  BY DEF Ranges, BiosRanges, ResultsReady
<1>3. bda' \in Areas
  BY <1>1, <1>2, AreaTyped
<1>4. Accounted'
  BY <1>1, SameAccounted DEF Ranges
<1> QED
  BY <1>1, <1>3, <1>4 DEF Ranges, BiosRanges, vars

LEMMA SenseRanges == ASSUME Ranges, SenseInterrupt PROVE Ranges'
<1> DEFINE g == ReadAll(Execute(Accept(fdc, "sense"), "sense", NoParameters))
<1>1. /\ DeviceTo(g, xfer) /\ dma' = dma /\ UNCHANGED <<ticked, granted, rushed>>
      /\ call' = call /\ answer' = answer /\ bda' = [bda EXCEPT !.intr = TRUE]
  BY DEF SenseInterrupt
<1>2. NoParameters \in Givens
  BY FloppyAssumption, GeometryAssumption DEF NoParameters, Givens, NoTransfer, Chs, Eots
<1>3. g \in Registers /\ g.index = 0
  BY <1>2, ExecuteTyped, ReadAllTyped, ReadAllIndex DEF Ranges
<1> HIDE DEF g
<1>4. fdc' \in Registers /\ Accounted' /\ request' \in BOOLEAN
  BY <1>1, <1>3, SpokenRanges
<1>5. bda \in Areas
  BY DEF Ranges, BiosRanges
<1>6. bda' \in Areas
  BY <1>1, <1>5, AreaTyped
<1> QED
  BY <1>1, <1>4, <1>6 DEF Ranges, BiosRanges

LEMMA Int08Ranges == ASSUME Ranges, Int08 PROVE Ranges'
<1> DEFINE g == OutDor(fdc, fdc.drive, {}, fdc.normal)
<1>1. /\ UNCHANGED <<fdc, xfer, request>> \/ DeviceTo(g, xfer)
      /\ dma' = dma /\ call' = call /\ answer' = answer
      /\ ticked' \in BOOLEAN /\ granted' = FALSE /\ rushed' = rushed
      /\ bda' = [bda EXCEPT !.ticks = CountDown]
  BY DEF Int08
<1>2. g \in Registers /\ g.index = fdc.index
  <2>1. fdc \in Registers
    BY DEF Ranges
  <2>2. fdc.drive \in Drives /\ fdc.normal \in BOOLEAN
    BY <2>1 DEF Registers
  <2>3. g \in Registers
    BY <2>1, <2>2, OutDorTyped
  <2>4. g.index = fdc.index
    BY <2>1, OutDorIndex
  <2> QED
    BY <2>3, <2>4
<1> HIDE DEF g
<1>3. fdc' \in Registers /\ Accounted' /\ request' \in BOOLEAN
  BY <1>1, <1>2, SpokenRanges, SameAccounted DEF Ranges, BiosRanges, vars
<1>4. CountDown \in 0..OnCount
  BY BiosAssumption DEF CountDown, Ranges, BiosRanges, Areas
<1>5. bda \in Areas
  BY DEF Ranges, BiosRanges
<1>6. bda' \in Areas
  BY <1>1, <1>4, <1>5, AreaTyped
<1> QED
  BY <1>1, <1>3, <1>6 DEF Ranges, BiosRanges

LEMMA CallerRanges == ASSUME Ranges, CallerHoldsReset PROVE Ranges'
<1> DEFINE g == OutDor(fdc, fdc.drive, fdc.motors, FALSE)
<1>1. /\ DeviceTo(g, xfer) /\ dma' = dma /\ ticked' = FALSE /\ granted' = FALSE
      /\ rushed' = rushed /\ call' = call /\ answer' = answer /\ bda' = bda
  BY DEF CallerHoldsReset, Running
<1>2. g \in Registers /\ g.index = fdc.index
  <2>1. fdc \in Registers
    BY DEF Ranges
  <2>2. fdc.drive \in Drives /\ fdc.motors \in SUBSET Drives
    BY <2>1 DEF Registers
  <2>3. g \in Registers
    BY <2>1, <2>2, OutDorTyped
  <2>4. g.index = fdc.index
    BY <2>1, OutDorIndex
  <2> QED
    BY <2>3, <2>4
<1> HIDE DEF g
<1>3. fdc' \in Registers /\ Accounted' /\ request' \in BOOLEAN
  BY <1>1, <1>2, SpokenRanges
<1> QED
  BY <1>1, <1>3 DEF Ranges, BiosRanges

LEMMA InitRanges == ASSUME BInit PROVE Ranges
<1>1. PICK inserted \in SUBSET Drives, readonly \in SUBSET Drives :
        fdc = [PowerOn EXCEPT !.present = inserted, !.protected = readonly]
  BY DEF BInit, Init
<1>2. PowerOn \in Registers
  <2>1. St("normal", FALSE, 0) \in St0 /\ -1 \in Buffers /\ 0 \in Drives
    <3>1. Tracks * NumHeads * SecPerTrk \in Nat
      BY FloppyAssumption, GeometryAssumption DEF NumHeads
    <3>2. -1 \in Buffers
      BY <3>1 DEF Buffers
    <3>3. 0 \in Drives
      BY FloppyAssumption
    <3> QED
      BY <3>2, <3>3, StTyped
  <2>2. [d \in Drives |-> [cyl |-> 0, head |-> 0, sec |-> 0]] \in [Drives -> Chs]
    BY HomeTyped
  <2> QED
    BY <2>1, <2>2, Zeros DEF PowerOn, Registers, Bits
<1>3. fdc \in Registers
  BY <1>1, <1>2 DEF Registers
<1>4. dma = [dir |-> "read", left |-> 0] /\ xfer = NoTransfer
  BY DEF BInit, Init
<1>5. dma \in Channels /\ dma.left = 0
  BY <1>4, MostUnits DEF Channels, Transfers
<1>6. Accounted
  <2>1. Withheld(fdc) = 0
    BY <1>1, GeometryAssumption DEF PowerOn, Withheld
  <2> QED
    BY <1>4, <1>5, <2>1, NothingRemembered, MostUnits DEF Accounted
<1>7. BiosRanges
  <2>1. bda = [intr |-> FALSE, ticks |-> 0, known |-> {}]
    BY DEF BInit
  <2>2. 0 \in 0..OnCount
    BY BiosAssumption
  <2>3. bda \in Areas
    BY <2>1, <2>2 DEF Areas
  <2> QED
    BY <2>3, RequestTyped DEF BInit, BiosRanges
<1> QED
  BY <1>3, <1>6, <1>7 DEF Ranges

LEMMA RangesStep == ASSUME BInv, Ranges, [BNext]_bvars PROVE Ranges'
<1>1. CASE Int13
  BY <1>1, CallRanges, WaitsRanges, PrepareRanges, CommandRanges, RecalibratedRanges,
     ProgramRanges, ResetRanges, ResultsRanges DEF Int13
<1>2. CASE UNCHANGED bvars
  BY <1>2, QuietRanges DEF bvars, bios, Ranges, BiosRanges, vars
<1> QED
  BY <1>1, <1>2, Int0eRanges, SenseRanges, Int08Ranges, CallerRanges, DeviceRanges,
     DisketteRanges DEF BNext

LEMMA RegistersTyped ==
  ASSUME fdc \in Registers
  PROVE  /\ fdc.msr \subseteq Bits /\ fdc.drive \in Drives /\ fdc.sensei \in 0..4
         /\ {fdc.pending, fdc.command} \subseteq Commands \cup {Idle, "reset"}
         /\ fdc.st0 \in St0 /\ Len(fdc.result) <= 2
         /\ fdc.at \in [Drives -> Chs] /\ fdc.eot \in 0..255
         /\ fdc.index \in 0..BytesPerSec
         /\ fdc.buffer \in -1..(Tracks * NumHeads * SecPerTrk - 1)
         /\ \A line \in {fdc.normal, fdc.complete, fdc.irq, fdc.multi, fdc.tc, fdc.timer, fdc.drq} :
              line \in BOOLEAN
         /\ fdc.active \cup fdc.motors \cup fdc.present \cup fdc.changed \cup fdc.protected \subseteq Drives
<1>1. /\ fdc.msr \subseteq Bits /\ fdc.drive \in Drives /\ fdc.sensei \in Senseis
      /\ fdc.pending \in Commands \cup {Idle, "reset"} /\ fdc.command \in Commands \cup {Idle, "reset"}
      /\ fdc.st0 \in St0 /\ fdc.result \in ResultBytes
      /\ fdc.at \in [Drives -> Chs] /\ fdc.eot \in Eots
      /\ fdc.index \in Indices /\ fdc.buffer \in Buffers
  BY DEF Registers
<1>2. /\ fdc.normal \in BOOLEAN /\ fdc.complete \in BOOLEAN /\ fdc.irq \in BOOLEAN
      /\ fdc.multi \in BOOLEAN /\ fdc.tc \in BOOLEAN /\ fdc.timer \in BOOLEAN /\ fdc.drq \in BOOLEAN
      /\ fdc.active \subseteq Drives /\ fdc.motors \subseteq Drives /\ fdc.present \subseteq Drives
      /\ fdc.changed \subseteq Drives /\ fdc.protected \subseteq Drives
  BY DEF Registers
<1> QED
  BY <1>1, <1>2 DEF Senseis, Eots, Indices, Buffers, ResultBytes

(* Whatever INT 13h and its callers do, the registers of the controller,    *)
(* the count of the DMA channel and the BIOS data keep their ranges, and no *)
(* more sectors move than units were programmed.                            *)
THEOREM BiosTypesAreKept == BSpec => []BTypeOK
<1>1. BInit => Ranges
  BY InitRanges
<1>2. BInv /\ Ranges /\ [BNext]_bvars => Ranges'
  BY RangesStep
<1>3. ASSUME BInv, Ranges PROVE BTypeOK
  <2>1. TypeOK
    <3>1. dma \in [dir : Transfers, left : 0..MaxUnits]
      BY <1>3, MostUnits DEF Ranges, Accounted, Channels
    <3>2. xfer.units \in 0..MaxUnits /\ Len(xfer.sectors) <= MaxUnits
      <4>1. Len(xfer.sectors) \in Nat /\ dma.left \in Nat /\ Withheld(fdc) \in {0, 1}
        BY <1>3, <3>1 DEF Ranges, Accounted, Remembers, Withheld
      <4>2. Len(xfer.sectors) + dma.left + Withheld(fdc) <= MaxUnits
        BY <1>3 DEF Ranges, Accounted
      <4>3. Len(xfer.sectors) <= MaxUnits
        BY <4>1, <4>2, MostUnits
      <4>4. xfer.units \in 0..MaxUnits
        BY <1>3 DEF Ranges, Accounted, Remembers
      <4> QED
        BY <4>3, <4>4
    <3> QED
      BY <1>3, <3>1, <3>2, RegistersTyped DEF TypeOK, Ranges
  <2>2. pc \in Waiting \cup {"caller", "prepare", "ready", "released", "command", "program",
                             "results", "halted"}
    BY <1>3 DEF BInv, Follows, Places, Closed
  <2> QED
    BY <1>3, <2>1, <2>2 DEF BTypeOK, Ranges, BiosRanges, Areas, Accounted, Channels, BInv, Wires
<1> QED
  BY <1>1, <1>2, <1>3, BiosInvariance, PTL DEF BSpec
=============================================================================
