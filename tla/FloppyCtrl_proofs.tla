-------------------------- MODULE FloppyCtrl_proofs --------------------------
(***************************************************************************)
(* The diskette controller with any number of drives, any geometry, any     *)
(* commands and any events: its status register, its interrupts and its     *)
(* change line; and, where no timer is left over by a reset or a pause, the *)
(* sectors and bytes its transfers hand to the DMA.                         *)
(***************************************************************************)
EXTENDS FloppyCtrl, Geometry_proofs, TLAPS

Invites(f) == "RQM" \in f.msr /\ "DIO" \notin f.msr

(* The controller is a record; what else its fields hold does not matter.   *)
Fields ==
  {"drive", "normal", "motors", "msr", "active", "pending", "command", "complete", "result",
   "irq", "sensei", "st0", "at", "eot", "multi", "tc", "index", "buffer", "timer", "drq",
   "present", "changed", "protected"}

Shape(f) == DOMAIN f = Fields /\ DOMAIN f.st0 = {"ic", "end", "drive"}

(* The properties of a state of the controller, and what they rest on;      *)
(* began: the transfer in progress was given for a drive that turns.        *)
Status(f) ==
  /\ "DIO" \in f.msr => f.result # <<>> /\ {"RQM", "BUSY"} \subseteq f.msr
  /\ f.result # <<>> => "DIO" \in f.msr \/ f.pending = "reset"

Invitation(f, began) ==
  /\ Invites(f) /\ f.complete => f.pending = Idle \/ (f.pending \in Transfers /\ ~began)
  /\ Invites(f) => f.pending # "reset"
  /\ Invites(f) /\ ~f.complete => f.command \in AllCommands \ {"version", "invalid"}

(* A command without result bytes is not pending once it is executed.       *)
Pending == (AllCommands \ {"specify", "invalid"}) \cup {Idle, "reset"}

Moves(f, began) ==
  /\ f.pending # Idle =>
       \/ f.timer \/ f.drq \/ f.result # <<>>
       \/ f.pending = "reset" /\ ~f.normal
       \/ f.pending \in Positioned /\ ~began
  /\ f.pending \in {"sense", "getstatus", "version"} => f.result # <<>>
  /\ f.pending \in Pending

Senses(f) ==
  /\ f.irq /\ f.result = <<>> => f.st0.ic # "invalid" /\ (f.st0.ic = "ready" => f.sensei > 0)
  /\ f.pending = "sense" /\ f.irq => Len(f.result) = 2
  /\ f.pending = "sense" /\ f.st0.ic = "ready" => f.st0.drive + f.sensei = 3

ChangeLine(f) == Drives \ f.present \subseteq f.changed

Sound(f, began) ==
  /\ Shape(f) /\ f.sensei \in 0..4
  /\ Status(f) /\ Invitation(f, began) /\ Moves(f, began) /\ Senses(f) /\ ChangeLine(f)

IInv == Sound(fdc, xfer.began) /\ "began" \in DOMAIN xfer

-----------------------------------------------------------------------------
(* What the member functions do to the fields these look at.                *)

(* Nothing, but that the change line may go off of a drive with a diskette. *)
Like(f, g) ==
  /\ Shape(g)
  /\ g.msr = f.msr /\ g.result = f.result /\ g.pending = f.pending
  /\ g.command = f.command /\ g.complete = f.complete /\ g.normal = f.normal
  /\ g.irq = f.irq /\ g.sensei = f.sensei /\ g.st0 = f.st0
  /\ g.timer = f.timer /\ g.drq = f.drq
  /\ ChangeLine(f) => ChangeLine(g)

LEMMA LikeLike ==
  ASSUME NEW f, NEW g, NEW h, Like(f, g), Like(g, h) PROVE Like(f, h)
BY DEF Like

LEMMA ResetChangelineEffect ==
  ASSUME NEW f, Shape(f) PROVE Like(f, ResetChangeline(f))
BY DEF Like, Shape, Fields, ResetChangeline, ChangeLine

LEMMA AtEffect ==
  ASSUME NEW f, Shape(f), NEW a PROVE Like(f, [f EXCEPT !.at = a])
BY DEF Like, Shape, Fields, ChangeLine

LEMMA IncrementSectorEffect ==
  ASSUME NEW f, Shape(f) PROVE Like(f, IncrementSector(f))
<1> DEFINE wrap == EndOfTrack(f, f.at[f.drive].sec + 1)
           step == wrap /\ (f.multi => f.at[f.drive].head = 1)
           new  == [cyl  |-> IF step THEN NextCylinder(f.at[f.drive].cyl) ELSE f.at[f.drive].cyl,
                    head |-> IF wrap /\ f.multi THEN 1 - f.at[f.drive].head ELSE f.at[f.drive].head,
                    sec  |-> IF wrap THEN 1 ELSE f.at[f.drive].sec + 1]
           g    == [f EXCEPT !.at[f.drive] = new]
<1>1. IncrementSector(f) = IF step THEN ResetChangeline(g) ELSE g
  BY DEF IncrementSector
<1> HIDE DEF step, new
<1>2. Like(f, g)
  BY DEF Like, Shape, Fields, ChangeLine
<1>3. Like(g, ResetChangeline(g))
  BY <1>2, ResetChangelineEffect DEF Like
<1> QED
  BY <1>1, <1>2, <1>3, LikeLike

LEMMA AdvanceEffect ==
  ASSUME NEW f, Shape(f) PROVE Like(f, Advance(f))
<1>1. Like(f, IncrementSector(f))
  BY IncrementSectorEffect
<1>2. ASSUME NEW g, Like(f, g) PROVE Like(f, [g EXCEPT !.index = 0])
  BY <1>2 DEF Like, Shape, Fields, ChangeLine
<1> QED
  BY <1>1, <1>2 DEF Advance

LEMMA FetchEffect ==
  ASSUME NEW f, Shape(f), NEW chs PROVE Like(f, Fetch(f, chs))
<1>1. \A b : Like(f, [f EXCEPT !.buffer = b])
  BY DEF Like, Shape, Fields, ChangeLine
<1> QED
  BY <1>1 DEF Fetch

LEMMA MovedEffect ==
  ASSUME NEW f, Shape(f) PROVE Like(f, Moved(f))
<1>1. \A i, b : Like(f, [f EXCEPT !.index = i, !.tc = b])
  BY DEF Like, Shape, Fields, ChangeLine
<1> QED
  BY <1>1 DEF Moved

(* The ends of a command.                                                   *)
Kept(f, g) ==
  /\ Shape(g) /\ g.normal = f.normal
  /\ g.st0 = f.st0 /\ g.timer = f.timer /\ g.drq = f.drq
  /\ g.present = f.present /\ g.changed = f.changed

LEMMA EnterIdleEffect ==
  ASSUME NEW f, Shape(f)
  PROVE  LET g == EnterIdle(f) IN
         /\ Kept(f, g) /\ g.irq = f.irq /\ g.sensei = f.sensei
         /\ g.msr = {"RQM"} /\ g.complete /\ g.pending = Idle /\ g.command = Idle
         /\ g.result = <<>>
BY DEF Kept, Shape, Fields, EnterIdle

LEMMA ResultIsSome ==
  ASSUME NEW f
  PROVE  /\ ResultOf(f) # <<>>
         /\ f.pending = "sense" /\ f.st0.ic # "invalid" => Len(ResultOf(f)) = 2
BY DEF ResultOf, Transfers

LEMMA EnterResultEffect ==
  ASSUME NEW f, Shape(f)
  PROVE  LET g == EnterResult(f)
             ends == f.pending \in Transfers \cup {"readid"} /\ f.st0.ic # "invalid"
         IN
         /\ Kept(f, g) /\ g.complete = f.complete /\ g.command = f.command
         /\ g.msr = f.msr \cup {"RQM", "DIO", "BUSY"} /\ g.pending = f.pending
         /\ g.result = ResultOf(f)
         /\ ends => g.irq /\ g.sensei = 0
         /\ ~ends => g.irq = f.irq /\ g.sensei = f.sensei
BY DEF Kept, Shape, Fields, EnterResult, RaiseInterrupt

-----------------------------------------------------------------------------
(* The commands.  A command is given to a controller that invites it ...    *)
Taken(f) ==
  /\ Shape(f) /\ f.sensei \in 0..4 /\ ChangeLine(f)
  /\ Invites(f) /\ f.result = <<>>
  /\ f.irq => f.st0.ic # "invalid" /\ (f.st0.ic = "ready" => f.sensei > 0)

(* ... and leaves one whose command is complete.                            *)
Settled(f, began) ==
  /\ Shape(f) /\ f.sensei \in 0..4
  /\ Status(f) /\ Moves(f, began) /\ Senses(f) /\ ChangeLine(f)
  /\ Invites(f) => f.pending = Idle \/ (f.pending \in Transfers /\ ~began)

LEMMA TakenLike ==
  ASSUME NEW f, NEW g, Taken(f), Like(f, g)
  PROVE  Taken(g) /\ g.pending = f.pending
BY DEF Taken, Like, Invites

LEMMA SelectEffect ==
  ASSUME NEW f, Shape(f), NEW drive PROVE Like(f, Select(f, drive))
BY DEF Like, Shape, Fields, ChangeLine, Select

LEMMA StepToEffect ==
  ASSUME NEW f, Shape(f), NEW p PROVE Like(f, StepTo(f, p))
<1>1. Like(f, f)
  BY DEF Like
<1> QED
  BY <1>1, ResetChangelineEffect DEF StepTo

LEMMA SpecifySettled ==
  ASSUME NEW f, Taken(f), NEW began PROVE Settled(EnterIdle(f), began)
<1> DEFINE g == EnterIdle(f)
<1>1. /\ Kept(f, g) /\ g.irq = f.irq /\ g.sensei = f.sensei
      /\ g.msr = {"RQM"} /\ g.pending = Idle /\ g.result = <<>>
  BY EnterIdleEffect DEF Taken
<1> HIDE DEF g
<1>2. Status(g) /\ Moves(g, began)
  BY <1>1 DEF Status, Moves, Pending, Idle
<1>3. Senses(g) /\ ChangeLine(g)
  BY <1>1 DEF Taken, Kept, Senses, ChangeLine, Idle
<1>4. Settled(g, began)
  BY <1>1, <1>2, <1>3 DEF Settled, Taken, Kept
<1> QED
  BY <1>4 DEF g

(* A result of a command that has one.                                      *)
LEMMA ResultSettled ==
  ASSUME NEW f, NEW began, Shape(f), f.sensei \in 0..4, ChangeLine(f),
         f.pending \in Pending,
         f.pending = "sense" =>
           /\ f.irq => f.st0.ic # "invalid"
           /\ f.st0.ic = "ready" => f.st0.drive + f.sensei = 3
  PROVE  Settled(EnterResult(f), began)
<1> DEFINE g == EnterResult(f)
           ends == f.pending \in Transfers \cup {"readid"} /\ f.st0.ic # "invalid"
<1>1. /\ Kept(f, g) /\ g.msr = f.msr \cup {"RQM", "DIO", "BUSY"} /\ g.pending = f.pending
      /\ g.result = ResultOf(f)
      /\ ends => g.irq /\ g.sensei = 0
      /\ ~ends => g.irq = f.irq /\ g.sensei = f.sensei
  BY EnterResultEffect
<1>2. /\ g.result # <<>>
      /\ f.pending = "sense" /\ f.st0.ic # "invalid" => Len(g.result) = 2
  BY <1>1, ResultIsSome
<1>3. f.pending = "sense" => ~ends
  BY DEF Transfers
<1> HIDE DEF g, ends
<1>4. Senses(g)
  BY <1>1, <1>2, <1>3 DEF Senses, Kept
<1>5. g.sensei \in 0..4
  BY <1>1
<1>6. Status(g)
  BY <1>1, <1>2 DEF Status
<1>7. Moves(g, began)
  BY <1>1, <1>2 DEF Moves
<1>8. ChangeLine(g)
  BY <1>1 DEF ChangeLine, Kept
<1>9. ~Invites(g)
  BY <1>1 DEF Invites
<1>10. Settled(g, began)
  BY <1>1, <1>4, <1>5, <1>6, <1>7, <1>8, <1>9 DEF Settled, Kept
<1> QED
  BY <1>10 DEF g

LEMMA GetStatusSettled ==
  ASSUME NEW f, Taken(f), f.pending = "getstatus", NEW p, NEW began
  PROVE  Settled(GetStatus(f, p), began)
<1> DEFINE g == [f EXCEPT !.at[p.drive].head = p.at.head]
<1>1. Like(f, g)
  BY DEF Like, Taken, Shape, Fields, ChangeLine
<1> HIDE DEF g
<1>2. Taken(g) /\ g.pending = "getstatus"
  BY <1>1, TakenLike
<1>3. Settled(EnterResult(g), began)
  BY <1>2, ResultSettled DEF Taken, Pending, AllCommands, Idle
<1> QED
  BY <1>3 DEF GetStatus, g

(* The heads move: until the timer expires no byte is asked for.            *)
LEMMA PositioningSettled ==
  ASSUME NEW f, Taken(f), f.pending \in {"recal", "seek"}, NEW a, NEW d, NEW began
  PROVE  Settled([f EXCEPT !.timer = TRUE, !.at = a, !.msr = {}, !.active = d], began)
<1> DEFINE g == [f EXCEPT !.timer = TRUE, !.at = a, !.msr = {}, !.active = d]
<1>1. /\ Shape(g) /\ g.timer /\ g.msr = {} /\ g.pending = f.pending /\ g.result = f.result
      /\ g.irq = f.irq /\ g.sensei = f.sensei /\ g.st0 = f.st0
      /\ g.present = f.present /\ g.changed = f.changed
  BY DEF Taken, Shape, Fields
<1> HIDE DEF g
<1>2. Settled(g, began)
  BY <1>1 DEF Settled, Taken, Status, Moves, Pending, AllCommands, Senses, ChangeLine, Invites
<1> QED
  BY <1>2 DEF g

LEMMA RecalibrateSettled ==
  ASSUME NEW f, Taken(f), f.pending = "recal", NEW p, NEW began
  PROVE  Settled(Recalibrate(f, p), began)
<1> DEFINE q == [p EXCEPT !.at.cyl = 0]
           g == StepTo(Select(f, p.drive), q)
           a == [g.at EXCEPT ![p.drive].cyl = 0]
<1>1. Like(f, Select(f, p.drive))
  BY SelectEffect DEF Taken
<1>2. Like(f, g)
  BY <1>1, StepToEffect, LikeLike DEF Like
<1>3. Taken(g) /\ g.pending = "recal"
  BY <1>2, TakenLike
<1>4. Recalibrate(f, p) = [g EXCEPT !.timer = TRUE, !.at[p.drive].cyl = 0, !.msr = {},
                                    !.active = {p.drive}]
  BY DEF Recalibrate
<1> HIDE DEF g
<1>5. [g EXCEPT !.timer = TRUE, !.at[p.drive].cyl = 0, !.msr = {}, !.active = {p.drive}]
      = [g EXCEPT !.timer = TRUE, !.at = a, !.msr = {}, !.active = {p.drive}]
  BY <1>3 DEF Taken, Shape, Fields
<1> HIDE DEF a
<1>6. Settled([g EXCEPT !.timer = TRUE, !.at = a, !.msr = {}, !.active = {p.drive}], began)
  BY <1>3, PositioningSettled
<1> QED
  BY <1>4, <1>5, <1>6

LEMMA SeekSettled ==
  ASSUME NEW f, Taken(f), f.pending = "seek", NEW p, NEW began
  PROVE  Settled(Seek(f, p), began)
<1> DEFINE s == Select(f, p.drive)
           h == [s EXCEPT !.at[p.drive].head = p.at.head]
           g == StepTo(h, p)
           a == [g.at EXCEPT ![p.drive].cyl = p.at.cyl]
<1>1. Like(f, s)
  BY SelectEffect DEF Taken
<1> HIDE DEF s
<1>2. Like(s, h)
  BY <1>1 DEF Like, Shape, Fields, ChangeLine
<1> HIDE DEF h
<1>3. Like(h, g)
  BY <1>2, StepToEffect DEF Like
<1> HIDE DEF g
<1>9. Like(f, g)
  BY <1>1, <1>2, <1>3, LikeLike
<1>4. Taken(g) /\ g.pending = "seek"
  BY <1>9, TakenLike
<1>5. Seek(f, p) = [g EXCEPT !.timer = TRUE, !.at[p.drive].cyl = p.at.cyl, !.msr = {},
                             !.active = {p.drive}]
  BY DEF Seek, s, h, g
<1>6. [g EXCEPT !.timer = TRUE, !.at[p.drive].cyl = p.at.cyl, !.msr = {}, !.active = {p.drive}]
      = [g EXCEPT !.timer = TRUE, !.at = a, !.msr = {}, !.active = {p.drive}]
  BY <1>4 DEF Taken, Shape, Fields
<1> HIDE DEF a
<1>7. Settled([g EXCEPT !.timer = TRUE, !.at = a, !.msr = {}, !.active = {p.drive}], began)
  BY <1>4, PositioningSettled
<1> QED
  BY <1>5, <1>6, <1>7

(* Sense interrupt status: after a reset, for an interrupt, for none.       *)
LEMMA SenseSettled ==
  ASSUME NEW f, Taken(f), f.pending = "sense", NEW began
  PROVE  Settled(Sense(f), began)
<1>1. CASE f.sensei > 0
  <2> DEFINE g == [f EXCEPT !.sensei = @ - 1, !.st0.drive = 4 - f.sensei]
  <2>1. /\ Shape(g) /\ g.sensei = f.sensei - 1 /\ g.st0.drive = 4 - f.sensei
        /\ g.st0.ic = f.st0.ic /\ g.irq = f.irq /\ g.pending = "sense"
        /\ g.present = f.present /\ g.changed = f.changed
    BY DEF Taken, Shape, Fields
  <2> HIDE DEF g
  <2>2. g.sensei \in 0..4 /\ g.st0.drive + g.sensei = 3
    BY <1>1, <2>1 DEF Taken
  <2>3. ChangeLine(g)
    BY <2>1 DEF Taken, ChangeLine
  <2>4. f.irq => f.st0.ic # "invalid"
    BY DEF Taken
  <2>5. Settled(EnterResult(g), began)
    BY <2>1, <2>2, <2>3, <2>4, ResultSettled DEF Pending, AllCommands, Idle
  <2> QED
    BY <1>1, <2>5 DEF Sense, g
<1>2. CASE ~(f.sensei > 0) /\ f.irq
  <2>1. Settled(EnterResult(f), began)
    BY <1>2, ResultSettled DEF Taken, Pending, AllCommands, Idle
  <2> QED
    BY <1>2, <2>1 DEF Sense
<1>3. CASE ~(f.sensei > 0) /\ ~f.irq
  <2> DEFINE g == [f EXCEPT !.st0 = St("invalid", FALSE, 0)]
  <2>1. /\ Shape(g) /\ g.sensei = f.sensei /\ g.st0.ic = "invalid"
        /\ g.irq = f.irq /\ g.pending = "sense"
        /\ g.present = f.present /\ g.changed = f.changed
    BY DEF Taken, Shape, Fields, St
  <2> HIDE DEF g
  <2>2. ChangeLine(g) /\ g.sensei \in 0..4
    BY <2>1 DEF Taken, ChangeLine
  <2>3. Settled(EnterResult(g), began)
    BY <1>3, <2>1, <2>2, ResultSettled DEF Pending, AllCommands, Idle
  <2> QED
    BY <1>3, <2>3 DEF Sense, g
<1> QED
  BY <1>1, <1>2, <1>3

(* With a diskette that turns the timer is on its way; otherwise the        *)
(* controller hangs.                                                        *)
LEMMA ReadIdSettled ==
  ASSUME NEW f, Taken(f), f.pending = "readid", NEW p, NEW began,
         began <=> p.drive \in f.motors \cap f.present
  PROVE  Settled(ReadId(f, p), began)
<1> DEFINE s == Select(f, p.drive)
           g == [s EXCEPT !.at[p.drive].head = p.at.head, !.msr = {"BUSY"}, !.active = {}]
           h == [g EXCEPT !.st0 = St("normal", FALSE, p.drive), !.timer = TRUE]
<1>1. Like(f, s)
  BY SelectEffect DEF Taken
<1>2. Taken(s) /\ s.pending = "readid"
  BY <1>1, TakenLike
<1> HIDE DEF s
<1>3. /\ Shape(g) /\ g.msr = {"BUSY"} /\ g.pending = "readid" /\ g.result = <<>>
      /\ g.irq = s.irq /\ g.sensei = s.sensei /\ g.st0 = s.st0
      /\ g.present = s.present /\ g.changed = s.changed
  BY <1>2 DEF Taken, Shape, Fields
<1> HIDE DEF g
<1>4. /\ Shape(h) /\ h.msr = {"BUSY"} /\ h.pending = "readid" /\ h.result = <<>>
      /\ h.irq = s.irq /\ h.sensei = s.sensei /\ h.st0.ic = "normal" /\ h.timer
      /\ h.present = s.present /\ h.changed = s.changed
  BY <1>3 DEF Shape, Fields, St
<1> HIDE DEF h
<1>5. ReadId(f, p) = IF began THEN h ELSE g
  BY DEF ReadId, s, g, h
<1>6. ASSUME ~began PROVE Settled(g, began)
  <2>1. Moves(g, began) /\ Status(g) /\ ~Invites(g)
    BY <1>3, <1>6 DEF Moves, Pending, AllCommands, Positioned, Status, Invites, Idle
  <2>2. Senses(g) /\ ChangeLine(g) /\ g.sensei \in 0..4
    BY <1>2, <1>3 DEF Taken, Senses, ChangeLine
  <2> QED
    BY <1>3, <2>1, <2>2 DEF Settled
<1>7. Settled(h, began)
  <2>1. Moves(h, began) /\ Status(h) /\ ~Invites(h)
    BY <1>4 DEF Moves, Pending, AllCommands, Positioned, Status, Invites, Idle
  <2>2. Senses(h) /\ ChangeLine(h) /\ h.sensei \in 0..4
    BY <1>2, <1>4 DEF Taken, Senses, ChangeLine
  <2> QED
    BY <1>4, <2>1, <2>2 DEF Settled
<1> QED
  BY <1>5, <1>6, <1>7

LEMMA RefusedSettled ==
  ASSUME NEW f, Taken(f), f.pending \in Transfers, NEW p, NEW began
  PROVE  Settled(Refused(f, p), began)
<1> DEFINE g == [f EXCEPT !.st0 = St("abnormal", FALSE, p.drive)]
<1>1. /\ Shape(g) /\ g.sensei \in 0..4 /\ g.pending = f.pending
      /\ g.present = f.present /\ g.changed = f.changed
  BY DEF Taken, Shape, Fields, St
<1> HIDE DEF g
<1>2. ChangeLine(g)
  BY <1>1 DEF ChangeLine, Taken
<1>3. Settled(EnterResult(g), began)
  BY <1>1, <1>2, ResultSettled DEF Transfers, Pending, AllCommands, Idle
<1> QED
  BY <1>3 DEF Refused, g

(* A transfer: refused, hung for want of a diskette, or begun, its first    *)
(* sector with the timer or with the DMA channel.                           *)
LEMMA ReadWriteSettled ==
  ASSUME NEW f, Taken(f), NEW c \in Transfers, f.pending = c, NEW p, NEW began,
         began => p.drive \in f.present
  PROVE  Settled(ReadWrite(f, c, p), began)
<1> DEFINE s     == Select(f, p.drive)
           g     == [s EXCEPT !.multi = p.multi]
           moved == IF p.at.cyl = g.at[p.drive].cyl THEN g ELSE ResetChangeline(g)
           e     == IF p.eot = 0 THEN SecPerTrk ELSE p.eot
           ready == [moved EXCEPT !.at[p.drive] = p.at, !.msr = {"BUSY"}, !.active = {}, !.eot = e]
           refused == Refused([g EXCEPT !.at[p.drive] = p.at], p)
           first == [Fetch(ready, p.at) EXCEPT !.timer = TRUE]
           ask   == [ready EXCEPT !.drq = TRUE]
<1>1. ReadWrite(f, c, p) =
        CASE ~p.headsAgree -> Refused(g, p)
          [] p.headsAgree /\ p.drive \notin f.present -> g
          [] p.headsAgree /\ p.drive \in f.present /\ p.at.sec > SecPerTrk -> refused
          [] OTHER -> IF c = "read" THEN first ELSE ask
  BY DEF ReadWrite
<1>2. Like(f, s)
  BY SelectEffect DEF Taken
<1> HIDE DEF s
<1>3. Like(s, g)
  BY <1>2 DEF Like, Shape, Fields, ChangeLine
<1> HIDE DEF g
<1>4. Like(f, g)
  BY <1>2, <1>3, LikeLike
<1>5. Taken(g) /\ g.pending = c
  BY <1>4, TakenLike
<1>6. Settled(Refused(g, p), began)
  BY <1>5, RefusedSettled
<1>7. Settled(refused, began)
  <2> DEFINE h == [g EXCEPT !.at[p.drive] = p.at]
  <2>1. Like(g, h)
    BY <1>4 DEF Like, Shape, Fields, ChangeLine
  <2> HIDE DEF h
  <2>2. Taken(h) /\ h.pending = c
    BY <1>5, <2>1, TakenLike
  <2>3. Settled(Refused(h, p), began)
    BY <2>2, RefusedSettled
  <2> QED
    BY <2>3 DEF h
<1>8. ASSUME p.drive \notin f.present PROVE Settled(g, began)
  <2>1. Moves(g, began) /\ ~began /\ c # Idle
    BY <1>5, <1>8 DEF Moves, Pending, AllCommands, Positioned, Transfers, Idle
  <2>2. Status(g) /\ Senses(g)
    BY <1>5 DEF Taken, Status, Senses, Transfers, Invites
  <2> QED
    BY <1>5, <2>1, <2>2 DEF Settled, Taken
<1>9. Taken(moved) /\ moved.pending = c
  <2>1. Like(g, ResetChangeline(g))
    BY <1>4, ResetChangelineEffect DEF Like
  <2> QED
    BY <1>5, <2>1, TakenLike
<1> HIDE DEF moved, e
<1>10. /\ Shape(ready) /\ ready.msr = {"BUSY"} /\ ready.pending = c /\ ready.result = <<>>
       /\ ready.irq = moved.irq /\ ready.sensei = moved.sensei /\ ready.st0 = moved.st0
       /\ ready.present = moved.present /\ ready.changed = moved.changed
  BY <1>9 DEF Taken, Shape, Fields
<1> HIDE DEF ready
<1>11. ASSUME NEW h, Shape(h), h.msr = {"BUSY"}, h.pending = c, h.result = <<>>,
              h.irq = moved.irq, h.sensei = moved.sensei, h.st0 = moved.st0,
              h.present = moved.present, h.changed = moved.changed, h.timer \/ h.drq
       PROVE  Settled(h, began)
  <2>1. Moves(h, began) /\ Status(h) /\ ~Invites(h)
    BY <1>11 DEF Moves, Pending, AllCommands, Status, Invites, Transfers
  <2>2. Senses(h) /\ ChangeLine(h) /\ h.sensei \in 0..4
    BY <1>9, <1>11 DEF Taken, Senses, ChangeLine, Transfers
  <2> QED
    BY <1>11, <2>1, <2>2 DEF Settled
<1>12. Settled(ask, began)
  <2>1. /\ Shape(ask) /\ ask.msr = ready.msr /\ ask.pending = ready.pending
        /\ ask.result = ready.result /\ ask.irq = ready.irq /\ ask.sensei = ready.sensei
        /\ ask.st0 = ready.st0 /\ ask.present = ready.present /\ ask.changed = ready.changed
        /\ ask.drq
    BY <1>10 DEF Shape, Fields
  <2> HIDE DEF ask
  <2> QED
    BY <1>10, <1>11, <2>1
<1>13. Settled(first, began)
  <2>1. PICK b : Fetch(ready, p.at) = [ready EXCEPT !.buffer = b]
    BY DEF Fetch
  <2>2. /\ Shape(first) /\ first.msr = ready.msr /\ first.pending = ready.pending
        /\ first.result = ready.result /\ first.irq = ready.irq /\ first.sensei = ready.sensei
        /\ first.st0 = ready.st0 /\ first.present = ready.present
        /\ first.changed = ready.changed /\ first.timer
    BY <1>10, <2>1 DEF Shape, Fields
  <2> HIDE DEF first
  <2> QED
    BY <1>10, <1>11, <2>2
<1> HIDE DEF refused, first, ask
<1> QED
  BY <1>1, <1>6, <1>7, <1>8, <1>12, <1>13

LEMMA FloppyCommandSettled ==
  ASSUME NEW f, Taken(f), NEW c \in AllCommands \ {"version", "invalid"}, NEW p, NEW began,
         began <=> p.drive \in f.motors \cap f.present
  PROVE  Settled(FloppyCommand(f, c, p), began)
<1> DEFINE g == [f EXCEPT !.pending = c]
<1>1. /\ Taken(g) /\ g.pending = c
      /\ g.motors = f.motors /\ g.present = f.present
  BY DEF Taken, Shape, Fields, ChangeLine, Invites
<1>2. FloppyCommand(f, c, p) =
        CASE c = "specify"    -> EnterIdle(g)
          [] c = "getstatus"  -> GetStatus(g, p)
          [] c = "recal"      -> Recalibrate(g, p)
          [] c = "seek"       -> Seek(g, p)
          [] c = "sense"      -> Sense(g)
          [] c = "readid"     -> ReadId(g, p)
          [] OTHER            -> ReadWrite(g, c, p)
  BY DEF FloppyCommand
<1> HIDE DEF g
<1>3. CASE c = "specify"
  BY <1>1, <1>2, <1>3, SpecifySettled
<1>4. CASE c = "getstatus"
  BY <1>1, <1>2, <1>4, GetStatusSettled
<1>5. CASE c = "recal"
  BY <1>1, <1>2, <1>5, RecalibrateSettled
<1>6. CASE c = "seek"
  BY <1>1, <1>2, <1>6, SeekSettled
<1>7. CASE c = "sense"
  BY <1>1, <1>2, <1>7, SenseSettled
<1>8. CASE c = "readid"
  BY <1>1, <1>2, <1>8, ReadIdSettled
<1>9. CASE c \in Transfers
  <2>1. Settled(ReadWrite(g, c, p), began)
    BY <1>1, <1>9, ReadWriteSettled
  <2> QED
    BY <1>2, <1>9, <2>1 DEF Transfers
<1> QED
  BY <1>3, <1>4, <1>5, <1>6, <1>7, <1>8, <1>9 DEF AllCommands, Transfers

(* Everything in Sound but what the command phase is about.                 *)
LEMMA SettledSound ==
  ASSUME NEW g, NEW began, Settled(g, began)
  PROVE  Sound([g EXCEPT !.complete = TRUE, !.command = Idle], began)
<1> DEFINE h == [g EXCEPT !.complete = TRUE, !.command = Idle]
<1>1. /\ Shape(h) /\ h.complete /\ h.msr = g.msr /\ h.pending = g.pending
      /\ h.result = g.result /\ h.irq = g.irq /\ h.sensei = g.sensei /\ h.st0 = g.st0
      /\ h.timer = g.timer /\ h.drq = g.drq /\ h.normal = g.normal
      /\ h.present = g.present /\ h.changed = g.changed
  BY DEF Settled, Shape, Fields
<1> HIDE DEF h
<1>2. Status(h) /\ Senses(h) /\ ChangeLine(h)
  BY <1>1 DEF Settled, Status, Senses, ChangeLine
<1>3. Moves(h, began)
  BY <1>1 DEF Settled, Moves
<1>4. Invitation(h, began)
  BY <1>1 DEF Settled, Invitation, Invites, Transfers, Idle
<1>5. Sound(h, began)
  BY <1>1, <1>2, <1>3, <1>4 DEF Sound, Settled
<1> QED
  BY <1>5 DEF h

LEMMA ExecuteSound ==
  ASSUME NEW f, Taken(f), NEW c \in AllCommands \ {"version", "invalid"}, NEW p, NEW began,
         began <=> p.drive \in f.motors \cap f.present
  PROVE  Sound(Execute(f, c, p), began)
<1>1. Settled(FloppyCommand(f, c, p), began)
  BY FloppyCommandSettled
<1>2. Sound([FloppyCommand(f, c, p) EXCEPT !.complete = TRUE, !.command = Idle], began)
  BY <1>1, SettledSound
<1> QED
  BY <1>2 DEF Execute

(* A controller that is not invited to anything.                            *)
LEMMA SettledSilent ==
  ASSUME NEW g, NEW began, Settled(g, began), ~Invites(g) PROVE Sound(g, began)
BY DEF Settled, Sound, Invitation

LEMMA ResultSound ==
  ASSUME NEW f, NEW began, Shape(f), f.sensei \in 0..4, ChangeLine(f),
         f.pending \in Pending,
         f.pending = "sense" =>
           /\ f.irq => f.st0.ic # "invalid"
           /\ f.st0.ic = "ready" => f.st0.drive + f.sensei = 3
  PROVE  Sound(EnterResult(f), began)
<1>1. Settled(EnterResult(f), began)
  BY ResultSettled
<1>2. ~Invites(EnterResult(f))
  BY EnterResultEffect DEF Invites
<1> QED
  BY <1>1, <1>2, SettledSilent

LEMMA LikeSound ==
  ASSUME NEW f, NEW g, NEW began, Sound(f, began), Like(f, g) PROVE Sound(g, began)
<1>1. Status(g) /\ Senses(g) /\ ChangeLine(g)
  BY DEF Like, Sound, Status, Senses
<1>2. Moves(g, began) /\ Invitation(g, began)
  BY DEF Like, Sound, Moves, Invitation, Invites
<1> QED
  BY <1>1, <1>2 DEF Sound, Like

LEMMA SoundTaken ==
  ASSUME NEW f, NEW began, Sound(f, began), Invites(f) PROVE Taken(f)
BY DEF Sound, Status, Invitation, Senses, Taken, Invites

-----------------------------------------------------------------------------
(* The handlers.                                                            *)

(* Only a command with a position of its own has a history.                 *)
LEMMA BecomesSound ==
  ASSUME NEW f, NEW x, Becomes(f, x), Sound(f, x.began), "began" \in DOMAIN x PROVE IInv'
<1>1. fdc' = f /\ xfer' = IF f.pending \in Positioned THEN x ELSE NoTransfer
  BY DEF Becomes
<1>2. CASE f.pending \in Positioned
  BY <1>1, <1>2 DEF IInv
<1>3. CASE f.pending \notin Positioned
  <2>1. xfer' = NoTransfer /\ "began" \in DOMAIN NoTransfer
    BY <1>1, <1>3 DEF NoTransfer
  <2>2. Sound(f, NoTransfer.began)
    BY <1>3 DEF Sound, Invitation, Moves, Positioned, Transfers
  <2> QED
    BY <1>1, <2>1, <2>2 DEF IInv
<1> QED
  BY <1>2, <1>3

LEMMA InitIInv ==
  ASSUME Init PROVE IInv
<1>1. PICK inserted \in SUBSET Drives, readonly \in SUBSET Drives :
        fdc = [PowerOn EXCEPT !.present = inserted, !.protected = readonly]
  BY DEF Init
<1>2. /\ Shape(fdc) /\ fdc.msr = {"RQM"} /\ fdc.pending = Idle /\ fdc.complete
      /\ fdc.result = <<>> /\ ~fdc.irq /\ fdc.sensei = 0 /\ fdc.changed = Drives
  BY <1>1 DEF PowerOn, Shape, Fields, St
<1>3. Status(fdc) /\ Invitation(fdc, xfer.began) /\ Moves(fdc, xfer.began)
  BY <1>2 DEF Status, Invitation, Invites, Moves, Pending, Idle
<1>4. Senses(fdc) /\ ChangeLine(fdc)
  BY <1>2 DEF Senses, ChangeLine, Idle
<1>5. "began" \in DOMAIN xfer
  BY DEF Init, NoTransfer
<1> QED
  BY <1>2, <1>3, <1>4, <1>5 DEF IInv, Sound

LEMMA AcceptTaken ==
  ASSUME NEW f, NEW began, Sound(f, began), Invites(f), f.pending = Idle, NEW c
  PROVE  LET g == Accept(f, c) IN
         /\ Taken(g) /\ g.pending = Idle /\ ~g.complete /\ g.command = c
         /\ g.motors = f.motors /\ g.present = f.present
<1> DEFINE g == Accept(f, c)
<1>1. Taken(f)
  BY SoundTaken
<1>2. /\ Shape(g) /\ g.msr = (f.msr \ {"DIO"}) \cup {"RQM", "BUSY"} /\ g.pending = Idle
      /\ ~g.complete /\ g.command = c /\ g.result = f.result /\ g.irq = f.irq
      /\ g.sensei = f.sensei /\ g.st0 = f.st0 /\ g.motors = f.motors
      /\ g.present = f.present /\ g.changed = f.changed
  BY DEF Sound, Shape, Fields, Accept
<1> HIDE DEF g
<1>3. Taken(g)
  BY <1>1, <1>2 DEF Taken, Invites, ChangeLine
<1> QED
  BY <1>2, <1>3 DEF g

LEMMA WriteCommandStep ==
  ASSUME IInv, NEW c \in Commands, WriteCommand(c) PROVE IInv'
<1> DEFINE g == Accept(fdc, c)
           v == [g EXCEPT !.pending = c]
           i == [g EXCEPT !.st0 = St("invalid", FALSE, 0)]
<1>1. Sound(fdc, xfer.began) /\ Invites(fdc) /\ fdc.pending = Idle
  BY DEF IInv, WriteCommand, Listens, Invites
<1>2. Taken(g) /\ g.pending = Idle /\ ~g.complete /\ g.command = c
  BY <1>1, AcceptTaken
<1>3. Becomes(CASE c = "version" -> EnterResult(v)
                [] c = "invalid" -> EnterResult(i)
                [] c = "sense"   -> Execute(g, c, NoParameters)
                [] OTHER         -> g, xfer)
  BY DEF WriteCommand
<1> HIDE DEF g
<1>4. CASE c = "version"
  <2>1. Shape(v) /\ v.sensei \in 0..4 /\ ChangeLine(v) /\ v.pending = "version"
    BY <1>2, <1>4 DEF Taken, Shape, Fields, ChangeLine
  <2> HIDE DEF v
  <2>2. Sound(EnterResult(v), xfer.began)
    BY <2>1, ResultSound DEF Pending, AllCommands
  <2>3. Becomes(EnterResult(v), xfer)
    BY <1>3, <1>4
  <2> QED
    BY <2>2, <2>3, BecomesSound DEF IInv
<1>5. CASE c = "invalid"
  <2>1. Shape(i) /\ i.sensei \in 0..4 /\ ChangeLine(i) /\ i.pending = Idle
    BY <1>2 DEF Taken, Shape, Fields, ChangeLine, St
  <2> HIDE DEF i
  <2>2. Sound(EnterResult(i), xfer.began)
    BY <2>1, ResultSound DEF Pending, Idle
  <2>3. Becomes(EnterResult(i), xfer)
    BY <1>3, <1>5
  <2> QED
    BY <2>2, <2>3, BecomesSound DEF IInv
<1>6. CASE c = "sense"
  <2>1. Taken([g EXCEPT !.pending = c]) /\ [g EXCEPT !.pending = c].pending = "sense"
    BY <1>2, <1>6 DEF Taken, Shape, Fields, ChangeLine, Invites
  <2>2. FloppyCommand(g, c, NoParameters) = Sense([g EXCEPT !.pending = c])
    BY <1>6 DEF FloppyCommand
  <2>3. Sound(Execute(g, c, NoParameters), xfer.began)
    BY <2>1, <2>2, SenseSettled, SettledSound DEF Execute
  <2>4. Becomes(Execute(g, c, NoParameters), xfer)
    BY <1>3, <1>6
  <2> QED
    BY <2>3, <2>4, BecomesSound DEF IInv
<1>7. CASE c \notin {"version", "invalid", "sense"}
  <2>1. Status(g) /\ Senses(g)
    BY <1>2 DEF Taken, Status, Senses, Idle, Invites
  <2>2. Invitation(g, xfer.began) /\ Moves(g, xfer.began)
    BY <1>2, <1>7, FloppyAssumption DEF Invitation, Moves, Pending, Idle
  <2>3. Sound(g, xfer.began)
    BY <1>2, <2>1, <2>2 DEF Sound, Taken
  <2>4. Becomes(g, xfer)
    BY <1>3, <1>7
  <2> QED
    BY <2>3, <2>4, BecomesSound DEF IInv
<1> QED
  BY <1>4, <1>5, <1>6, <1>7

LEMMA WriteParameterStep ==
  ASSUME IInv, WriteParameter PROVE IInv'
<1>1. Sound(fdc, xfer.began) /\ Invites(fdc) /\ ~fdc.complete
  BY DEF IInv, WriteParameter, Listens, Invites
<1>2. Taken(fdc) /\ fdc.command \in AllCommands \ {"version", "invalid"}
  BY <1>1, SoundTaken DEF Sound, Invitation
<1>3. PICK p \in ParametersOf(fdc.command) :
        Becomes(Execute(fdc, fdc.command, p), Asked(p))
  BY DEF WriteParameter
<1>4. /\ "began" \in DOMAIN Asked(p)
      /\ Asked(p).began <=> p.drive \in fdc.motors \cap fdc.present
  BY DEF Asked
<1>5. Sound(Execute(fdc, fdc.command, p), Asked(p).began)
  BY <1>2, <1>4, ExecuteSound
<1> QED
  BY <1>3, <1>4, <1>5, BecomesSound

(* A controller with nothing to do and nothing to say.                      *)
LEMMA IdleSound ==
  ASSUME NEW f, NEW began, Shape(f), f.sensei \in 0..4, ChangeLine(f),
         f.msr = {"RQM"}, f.complete, f.pending = Idle, f.result = <<>>,
         f.irq => f.st0.ic # "invalid" /\ (f.st0.ic = "ready" => f.sensei > 0)
  PROVE  Sound(f, began)
BY DEF Sound, Status, Invitation, Invites, Moves, Pending, Senses, Idle

LEMMA ReadResultStep ==
  ASSUME IInv, ReadResult PROVE IInv'
<1> DEFINE g == LowerInterrupt([fdc EXCEPT !.result = Tail(@), !.active = {}])
<1>1. Sound(fdc, xfer.began) /\ {"RQM", "DIO"} \subseteq fdc.msr /\ fdc.result # <<>>
  BY DEF IInv, ReadResult
<1>2. /\ Shape(g) /\ ~g.irq /\ g.msr = fdc.msr /\ g.pending = fdc.pending
      /\ g.sensei = fdc.sensei /\ g.st0 = fdc.st0
      /\ g.present = fdc.present /\ g.changed = fdc.changed
  BY <1>1 DEF Sound, Shape, Fields, LowerInterrupt
<1>3. Becomes(IF g.result = <<>> THEN EnterIdle(g) ELSE g, xfer)
  BY DEF ReadResult
<1> HIDE DEF g
<1>4. ChangeLine(g) /\ g.sensei \in 0..4
  BY <1>1, <1>2 DEF Sound, ChangeLine
<1>5. CASE g.result = <<>>
  <2> DEFINE h == EnterIdle(g)
  <2>1. /\ Shape(h) /\ ~h.irq /\ h.sensei = g.sensei /\ h.msr = {"RQM"} /\ h.complete
        /\ h.pending = Idle /\ h.result = <<>>
        /\ h.present = g.present /\ h.changed = g.changed
    BY <1>2, EnterIdleEffect DEF Kept
  <2> HIDE DEF h
  <2>2. ChangeLine(h)
    BY <1>4, <2>1 DEF ChangeLine
  <2>3. Sound(h, xfer.began)
    BY <1>4, <2>1, <2>2, IdleSound
  <2> QED
    BY <1>3, <1>5, <2>3, BecomesSound DEF h, IInv
<1>6. CASE g.result # <<>>
  <2>1. Status(g) /\ Invitation(g, xfer.began) /\ Moves(g, xfer.began)
    BY <1>1, <1>2, <1>6 DEF Sound, Status, Invitation, Invites, Moves
  <2>2. Senses(g)
    BY <1>1, <1>2, <1>6 DEF Sound, Senses
  <2>3. Sound(g, xfer.began)
    BY <1>2, <1>4, <2>1, <2>2 DEF Sound
  <2> QED
    BY <1>3, <1>6, <2>3, BecomesSound DEF IInv
<1> QED
  BY <1>5, <1>6

LEMMA ReadNoResultStep ==
  ASSUME IInv, ReadNoResult PROVE IInv'
<1> DEFINE g == [fdc EXCEPT !.msr = {}, !.active = {}, !.st0 = St("invalid", FALSE, 0)]
<1>1. Sound(fdc, xfer.began) /\ fdc.result = <<>>
  BY DEF IInv, ReadNoResult
<1>2. /\ Shape(g) /\ g.sensei = fdc.sensei /\ g.pending = fdc.pending
      /\ g.present = fdc.present /\ g.changed = fdc.changed
  BY <1>1 DEF Sound, Shape, Fields, St
<1>3. Becomes(EnterResult(g), xfer)
  BY DEF ReadNoResult
<1> HIDE DEF g
<1>4. g.pending \in Pending /\ g.pending # "sense"
  BY <1>1, <1>2 DEF Sound, Moves
<1>5. ChangeLine(g) /\ g.sensei \in 0..4
  BY <1>1, <1>2 DEF Sound, ChangeLine
<1>6. Sound(EnterResult(g), xfer.began)
  BY <1>2, <1>4, <1>5, ResultSound
<1> QED
  BY <1>3, <1>6, BecomesSound DEF IInv

(* A reset is on its way: nothing is asked for until it is there.           *)
LEMMA ResetPendingSound ==
  ASSUME NEW f, NEW g, NEW began, Sound(f, began),
         Shape(g), g.msr = {}, g.pending = "reset", g.timer \/ ~g.normal,
         g.result = f.result, g.irq = f.irq, g.sensei = f.sensei, g.st0 = f.st0,
         g.present = f.present, g.changed = f.changed
  PROVE  Sound(g, began)
<1>1. Status(g) /\ Senses(g) /\ ChangeLine(g)
  BY DEF Sound, Status, Senses, ChangeLine
<1>2. Invitation(g, began) /\ Moves(g, began)
  BY DEF Invitation, Invites, Moves, Pending
<1> QED
  BY <1>1, <1>2 DEF Sound

LEMMA OutDorSound ==
  ASSUME NEW f, NEW began, Sound(f, began), NEW drive, NEW motors, NEW normal
  PROVE  Sound(OutDor(f, drive, motors, normal), began)
<1> DEFINE g == [f EXCEPT !.drive = drive, !.motors = motors, !.normal = normal]
<1>1. /\ Shape(g) /\ g.msr = f.msr /\ g.result = f.result /\ g.pending = f.pending
      /\ g.command = f.command /\ g.complete = f.complete /\ g.normal = normal
      /\ g.irq = f.irq /\ g.sensei = f.sensei /\ g.st0 = f.st0
      /\ g.timer = f.timer /\ g.drq = f.drq
      /\ g.present = f.present /\ g.changed = f.changed
  BY DEF Sound, Shape, Fields
<1>2. OutDor(f, drive, motors, normal) =
        CASE f.normal /\ ~normal -> [g EXCEPT !.msr = {}, !.active = {}, !.pending = "reset"]
          [] ~f.normal /\ normal -> [g EXCEPT !.timer = TRUE]
          [] OTHER               -> g
  BY DEF OutDor
<1> HIDE DEF g
<1>3. CASE f.normal /\ ~normal
  <2> DEFINE h == [g EXCEPT !.msr = {}, !.active = {}, !.pending = "reset"]
  <2>1. /\ Shape(h) /\ h.msr = {} /\ h.pending = "reset" /\ ~h.normal
        /\ h.result = f.result /\ h.irq = f.irq /\ h.sensei = f.sensei /\ h.st0 = f.st0
        /\ h.present = f.present /\ h.changed = f.changed
    BY <1>1, <1>3 DEF Shape, Fields
  <2> HIDE DEF h
  <2>2. Sound(h, began)
    BY <2>1, ResetPendingSound
  <2> QED
    BY <1>2, <1>3, <2>2 DEF h
<1>4. CASE ~f.normal /\ normal
  <2> DEFINE h == [g EXCEPT !.timer = TRUE]
  <2>1. /\ Shape(h) /\ h.msr = f.msr /\ h.pending = f.pending /\ h.timer
        /\ h.command = f.command /\ h.complete = f.complete
        /\ h.result = f.result /\ h.irq = f.irq /\ h.sensei = f.sensei /\ h.st0 = f.st0
        /\ h.present = f.present /\ h.changed = f.changed
    BY <1>1 DEF Shape, Fields
  <2> HIDE DEF h
  <2>2. Status(h) /\ Senses(h) /\ ChangeLine(h)
    BY <2>1 DEF Sound, Status, Senses, ChangeLine
  <2>3. Invitation(h, began) /\ Moves(h, began)
    BY <2>1 DEF Sound, Invitation, Invites, Moves
  <2>4. Sound(h, began)
    BY <2>1, <2>2, <2>3 DEF Sound
  <2> QED
    BY <1>2, <1>4, <2>4 DEF h
<1>5. CASE ~(f.normal /\ ~normal) /\ ~(~f.normal /\ normal)
  <2>1. Status(g) /\ Senses(g) /\ ChangeLine(g)
    BY <1>1 DEF Sound, Status, Senses, ChangeLine
  <2>2. Invitation(g, began)
    BY <1>1 DEF Sound, Invitation, Invites
  <2>3. Moves(g, began)
    BY <1>1, <1>5 DEF Sound, Moves
  <2>4. Sound(g, began)
    BY <1>1, <2>1, <2>2, <2>3 DEF Sound
  <2> QED
    BY <1>2, <1>5, <2>4
<1> QED
  BY <1>3, <1>4, <1>5

LEMMA SoftwareDorStep ==
  ASSUME IInv, (\E d \in Drives : SelectDrive(d)) \/ MotorsOff \/ ToggleReset \/ HoldReset
  PROVE  IInv'
<1>1. Sound(fdc, xfer.began) /\ "began" \in DOMAIN xfer
  BY DEF IInv
<1>2. CASE \E d \in Drives : SelectDrive(d)
  BY <1>1, <1>2, OutDorSound, BecomesSound DEF SelectDrive
<1>3. CASE ToggleReset
  <2> DEFINE held == OutDor(fdc, fdc.drive, fdc.motors, FALSE)
  <2>1. Sound(held, xfer.began)
    BY <1>1, OutDorSound
  <2>2. Becomes(OutDor(held, fdc.drive, fdc.motors, TRUE), xfer)
    BY <1>3 DEF ToggleReset
  <2> HIDE DEF held
  <2>3. Sound(OutDor(held, fdc.drive, fdc.motors, TRUE), xfer.began)
    BY <2>1, OutDorSound
  <2> QED
    BY <1>1, <2>2, <2>3, BecomesSound
<1>4. CASE MotorsOff
  BY <1>1, <1>4, OutDorSound, BecomesSound DEF MotorsOff
<1>5. CASE HoldReset
  BY <1>1, <1>5, OutDorSound, BecomesSound DEF HoldReset
<1> QED
  BY <1>2, <1>3, <1>4, <1>5

LEMMA ResetByDsrStep ==
  ASSUME IInv, ResetByDsr PROVE IInv'
<1> DEFINE g == [fdc EXCEPT !.msr = {}, !.active = {}, !.pending = "reset", !.timer = TRUE]
<1>1. Sound(fdc, xfer.began) /\ Becomes(g, xfer) /\ "began" \in DOMAIN xfer
  BY DEF IInv, ResetByDsr
<1>2. /\ Shape(g) /\ g.msr = {} /\ g.pending = "reset" /\ g.timer
      /\ g.result = fdc.result /\ g.irq = fdc.irq /\ g.sensei = fdc.sensei /\ g.st0 = fdc.st0
      /\ g.present = fdc.present /\ g.changed = fdc.changed
  BY <1>1 DEF Sound, Shape, Fields
<1> HIDE DEF g
<1>3. Sound(g, xfer.began)
  BY <1>1, <1>2, ResetPendingSound
<1> QED
  BY <1>1, <1>3, BecomesSound

LEMMA ResetEffect ==
  ASSUME NEW f, Shape(f)
  PROVE  LET g == Reset(f) IN
         /\ Shape(g) /\ ~g.irq /\ g.sensei = 0 /\ g.msr = {"RQM"} /\ g.complete
         /\ g.pending = Idle /\ g.result = <<>>
         /\ g.present = f.present /\ g.changed = f.changed
<1> DEFINE at == [d \in Drives |-> [cyl |-> 0, head |-> 0, sec |-> 0]]
           h  == [f EXCEPT !.irq = FALSE, !.sensei = 0, !.msr = {}, !.active = {},
                           !.st0 = St("normal", FALSE, 0), !.at = at, !.eot = 0, !.drq = FALSE]
<1> HIDE DEF at
<1>1. /\ Shape(h) /\ ~h.irq /\ h.sensei = 0
      /\ h.present = f.present /\ h.changed = f.changed
  BY DEF Shape, Fields, St
<1>2. Reset(f) = EnterIdle(h)
  BY DEF Reset, at
<1> HIDE DEF h
<1>3. LET g == EnterIdle(h) IN
         /\ Shape(g) /\ ~g.irq /\ g.sensei = 0 /\ g.msr = {"RQM"} /\ g.complete
         /\ g.pending = Idle /\ g.result = <<>>
         /\ g.present = f.present /\ g.changed = f.changed
  BY <1>1, EnterIdleEffect DEF Kept
<1> QED
  BY <1>2, <1>3

LEMMA HardResetStep ==
  ASSUME IInv, HardReset PROVE IInv'
<1> DEFINE f == [fdc EXCEPT !.drive = 0, !.motors = {}, !.normal = TRUE, !.changed = Drives]
<1>1. /\ Shape(fdc) /\ Becomes(Reset(f), xfer) /\ "began" \in DOMAIN xfer
  BY DEF IInv, Sound, HardReset
<1>2. Shape(f) /\ f.changed = Drives
  BY <1>1 DEF Shape, Fields
<1> HIDE DEF f
<1> DEFINE g == Reset(f)
<1>3. /\ Shape(g) /\ ~g.irq /\ g.sensei = 0 /\ g.msr = {"RQM"} /\ g.complete
      /\ g.pending = Idle /\ g.result = <<>> /\ g.changed = Drives
  BY <1>2, ResetEffect
<1> HIDE DEF g
<1>4. Sound(g, xfer.began)
  BY <1>3, IdleSound DEF ChangeLine
<1> QED
  BY <1>1, <1>4, BecomesSound DEF g

LEMMA RaisedEffect ==
  ASSUME NEW f, Shape(f)
  PROVE  LET g == RaiseInterrupt(f) IN
         /\ Shape(g) /\ g.irq /\ g.sensei = 0
         /\ g.msr = f.msr /\ g.complete = f.complete /\ g.pending = f.pending
         /\ g.result = f.result /\ g.st0 = f.st0
         /\ g.present = f.present /\ g.changed = f.changed
BY DEF Shape, Fields, RaiseInterrupt

(* The heads are where they should be: an interrupt, and no result.         *)
LEMMA PositionedSound ==
  ASSUME NEW f, NEW began, Shape(f), ChangeLine(f), NEW ic \in {"normal", "abnormal"}
  PROVE  Sound(RaiseInterrupt(EnterIdle([f EXCEPT !.st0 = St(ic, TRUE, f.drive)])), began)
<1> DEFINE s == [f EXCEPT !.st0 = St(ic, TRUE, f.drive)]
           i == EnterIdle(s)
           g == RaiseInterrupt(i)
<1>1. Shape(s) /\ s.st0.ic = ic /\ s.present = f.present /\ s.changed = f.changed
  BY DEF Shape, Fields, St
<1> HIDE DEF s
<1>2. /\ Shape(i) /\ i.st0 = s.st0 /\ i.present = f.present /\ i.changed = f.changed
      /\ i.msr = {"RQM"} /\ i.complete /\ i.pending = Idle /\ i.result = <<>>
  BY <1>1, EnterIdleEffect DEF Kept
<1> HIDE DEF i
<1>3. /\ Shape(g) /\ g.st0.ic = ic /\ g.present = f.present /\ g.changed = f.changed
      /\ g.msr = {"RQM"} /\ g.complete /\ g.pending = Idle /\ g.result = <<>> /\ g.sensei = 0
  BY <1>1, <1>2, RaisedEffect
<1> HIDE DEF g
<1>4. Sound(g, began)
  BY <1>3, IdleSound DEF ChangeLine
<1> QED
  BY <1>4 DEF g, i, s

LEMMA AfterResetSound ==
  ASSUME NEW f, NEW began, Shape(f), ChangeLine(f) PROVE Sound(AfterReset(f), began)
<1> DEFINE r == Reset(f)
           s == [r EXCEPT !.st0 = St("ready", FALSE, 0)]
           i == RaiseInterrupt(s)
           g == [i EXCEPT !.sensei = 4]
<1>1. /\ Shape(r) /\ r.msr = {"RQM"} /\ r.complete /\ r.pending = Idle /\ r.result = <<>>
      /\ r.present = f.present /\ r.changed = f.changed
  BY ResetEffect
<1> HIDE DEF r
<1>2. /\ Shape(s) /\ s.msr = {"RQM"} /\ s.complete /\ s.pending = Idle /\ s.result = <<>>
      /\ s.st0.ic = "ready" /\ s.present = f.present /\ s.changed = f.changed
  BY <1>1 DEF Shape, Fields, St
<1> HIDE DEF s
<1>3. /\ Shape(i) /\ i.msr = {"RQM"} /\ i.complete /\ i.pending = Idle /\ i.result = <<>>
      /\ i.st0.ic = "ready" /\ i.present = f.present /\ i.changed = f.changed
  BY <1>2, RaisedEffect
<1> HIDE DEF i
<1>4. /\ Shape(g) /\ g.msr = {"RQM"} /\ g.complete /\ g.pending = Idle /\ g.result = <<>>
      /\ g.st0.ic = "ready" /\ g.sensei = 4
      /\ g.present = f.present /\ g.changed = f.changed
  BY <1>3 DEF Shape, Fields
<1> HIDE DEF g
<1>5. Sound(g, began)
  BY <1>4, IdleSound DEF ChangeLine
<1> QED
  BY <1>5 DEF AfterReset, g, i, s, r

(* A result that says how a transfer or an identification ended.            *)
LEMMA EndSound ==
  ASSUME NEW f, NEW began, Shape(f), f.sensei \in 0..4, ChangeLine(f), f.pending \in Pending,
         NEW ic \in {"normal", "abnormal"}, NEW d
  PROVE  Sound(EnterResult([f EXCEPT !.st0 = St(ic, FALSE, d)]), began)
<1> DEFINE g == [f EXCEPT !.st0 = St(ic, FALSE, d)]
<1>1. /\ Shape(g) /\ g.sensei = f.sensei /\ g.pending = f.pending /\ g.st0.ic = ic
      /\ g.present = f.present /\ g.changed = f.changed
  BY DEF Shape, Fields, St
<1> HIDE DEF g
<1>2. ChangeLine(g)
  BY <1>1 DEF ChangeLine
<1>3. Sound(EnterResult(g), began)
  BY <1>1, <1>2, ResultSound
<1> QED
  BY <1>3 DEF g

(* The transfer goes on: with the DMA channel, or with the timer.           *)
LEMMA GoesOnSound ==
  ASSUME NEW f, NEW g, NEW began, Sound(f, began), Shape(g), g.timer \/ g.drq,
         g.msr = f.msr, g.pending = f.pending, g.command = f.command,
         g.complete = f.complete, g.result = f.result, g.irq = f.irq, g.sensei = f.sensei,
         g.st0 = f.st0, ChangeLine(g)
  PROVE  Sound(g, began)
<1>1. Status(g) /\ Senses(g)
  BY DEF Sound, Status, Senses
<1>2. Invitation(g, began) /\ Moves(g, began)
  BY DEF Sound, Invitation, Invites, Moves
<1> QED
  BY <1>1, <1>2 DEF Sound

LEMMA ExpireSound ==
  ASSUME NEW f, NEW began, Sound(f, began)
  PROVE  Sound(Expire([f EXCEPT !.timer = FALSE]), began)
<1> DEFINE g == [f EXCEPT !.timer = FALSE]
<1>1. /\ Shape(g) /\ g.msr = f.msr /\ g.pending = f.pending /\ g.command = f.command
      /\ g.complete = f.complete /\ g.result = f.result /\ g.irq = f.irq
      /\ g.sensei = f.sensei /\ g.st0 = f.st0 /\ g.drq = f.drq /\ g.normal = f.normal
      /\ g.present = f.present /\ g.changed = f.changed
  BY DEF Sound, Shape, Fields
<1> HIDE DEF g
<1>2. ChangeLine(g) /\ g.sensei \in 0..4 /\ g.pending \in Pending
  BY <1>1 DEF Sound, ChangeLine, Moves
<1>3. CASE g.pending \in {"recal", "seek"}
  <2>1. ASSUME NEW ic \in {"normal", "abnormal"}
        PROVE  Sound(RaiseInterrupt(EnterIdle([g EXCEPT !.st0 = St(ic, TRUE, g.drive)])), began)
    BY <1>1, <1>2, PositionedSound
  <2>2. \E ic \in {"normal", "abnormal"} :
          Expire(g) = RaiseInterrupt(EnterIdle([g EXCEPT !.st0 = St(ic, TRUE, g.drive)]))
    BY <1>3 DEF Expire
  <2> QED
    BY <2>1, <2>2 DEF g
<1>4. CASE g.pending = "readid"
  <2>1. Sound(EnterResult(g), began)
    BY <1>1, <1>2, <1>4, ResultSound
  <2> QED
    BY <1>4, <2>1 DEF Expire, g
<1>5. CASE g.pending = "write" /\ g.tc
  <2>1. Sound(EnterResult([g EXCEPT !.st0 = St("normal", FALSE, g.drive)]), began)
    BY <1>1, <1>2, EndSound
  <2> QED
    BY <1>5, <2>1 DEF Expire, g
<1>6. CASE (g.pending = "write" /\ ~g.tc) \/ g.pending = "read"
  <2> DEFINE h == [g EXCEPT !.drq = TRUE]
  <2>1. /\ Shape(h) /\ h.drq
        /\ h.msr = f.msr /\ h.pending = f.pending /\ h.command = f.command
        /\ h.complete = f.complete /\ h.result = f.result /\ h.irq = f.irq
        /\ h.sensei = f.sensei /\ h.st0 = f.st0
        /\ h.present = f.present /\ h.changed = f.changed
    BY <1>1 DEF Shape, Fields
  <2>2. Expire(g) = h
    BY <1>6 DEF Expire
  <2> HIDE DEF h
  <2>3. ChangeLine(h)
    BY <2>1 DEF Sound, ChangeLine
  <2> QED
    BY <2>1, <2>2, <2>3, GoesOnSound DEF g
<1>7. CASE g.pending = "reset"
  <2>1. Expire(g) = AfterReset(g)
    BY <1>7 DEF Expire
  <2> QED
    BY <1>1, <1>2, <2>1, AfterResetSound DEF g
<1>8. CASE g.pending \notin {"recal", "seek", "readid", "write", "read", "reset"}
  <2>1. Expire(g) = g
    BY <1>8 DEF Expire
  <2>2. Status(g) /\ Senses(g)
    BY <1>1 DEF Sound, Status, Senses
  <2>3. Invitation(g, began)
    BY <1>1 DEF Sound, Invitation, Invites
  <2>4. Moves(g, began)
    BY <1>1, <1>2, <1>8 DEF Sound, Moves, Pending, AllCommands, Positioned
  <2>5. Sound(g, began)
    BY <1>1, <1>2, <2>2, <2>3, <2>4 DEF Sound
  <2> QED
    BY <2>1, <2>5 DEF g
<1> QED
  BY <1>3, <1>4, <1>5, <1>6, <1>7, <1>8

LEMMA TimerStep ==
  ASSUME IInv, Timer PROVE IInv'
BY ExpireSound, BecomesSound DEF IInv, Timer

LEMMA DoneKeeps ==
  ASSUME "began" \in DOMAIN xfer, NEW sector
  PROVE  Done(sector).began = xfer.began /\ "began" \in DOMAIN Done(sector)
BY DEF Done

LEMMA AwaitSectorSound ==
  ASSUME NEW f, NEW g, NEW began, Sound(f, began), Like(f, g) PROVE Sound(AwaitSector(g), began)
<1> DEFINE h == AwaitSector(g)
<1>1. Sound(g, began)
  BY LikeSound
<1>2. /\ Shape(h) /\ h.timer
      /\ h.msr = g.msr /\ h.pending = g.pending /\ h.command = g.command
      /\ h.complete = g.complete /\ h.result = g.result /\ h.irq = g.irq
      /\ h.sensei = g.sensei /\ h.st0 = g.st0
      /\ h.present = g.present /\ h.changed = g.changed
  BY <1>1 DEF Sound, Shape, Fields, AwaitSector
<1> HIDE DEF h
<1>3. ChangeLine(h)
  BY <1>1, <1>2 DEF Sound, ChangeLine
<1>4. Sound(h, began)
  BY <1>1, <1>2, <1>3, GoesOnSound
<1> QED
  BY <1>4 DEF h

LEMMA EndOfTransferSound ==
  ASSUME NEW f, NEW g, NEW began, Sound(f, began), Like(f, g),
         NEW ic \in {"normal", "abnormal"}, NEW d
  PROVE  Sound(EnterResult([[g EXCEPT !.drq = FALSE] EXCEPT !.st0 = St(ic, FALSE, d)]), began)
<1> DEFINE h == [g EXCEPT !.drq = FALSE]
<1>1. Sound(g, began)
  BY LikeSound
<1>2. /\ Shape(h) /\ h.pending = g.pending /\ h.sensei = g.sensei
      /\ h.present = g.present /\ h.changed = g.changed
  BY <1>1 DEF Sound, Shape, Fields
<1> HIDE DEF h
<1>3. ChangeLine(h) /\ h.sensei \in 0..4 /\ h.pending \in Pending
  BY <1>1, <1>2 DEF Sound, ChangeLine, Moves
<1>4. Sound(EnterResult([h EXCEPT !.st0 = St(ic, FALSE, d)]), began)
  BY <1>2, <1>3, EndSound
<1> QED
  BY <1>4 DEF h

LEMMA DmaWriteStep ==
  ASSUME IInv, DmaWrite PROVE IInv'
<1> DEFINE f == Moved(fdc)
           g == IF f.index >= BytesPerSec THEN Advance(f) ELSE f
           h == [g EXCEPT !.drq = FALSE]
           end == EnterResult([h EXCEPT !.st0 = St("normal", FALSE, f.drive)])
           await == AwaitSector(Fetch(g, g.at[g.drive]))
           next == CASE f.tc -> end
                     [] ~f.tc /\ f.index >= BytesPerSec -> await
                     [] OTHER -> f
<1>1. Becomes(next, Done(fdc.buffer))
  BY DEF DmaWrite
<1>2. Sound(fdc, xfer.began) /\ "began" \in DOMAIN xfer /\ Shape(fdc)
  BY DEF IInv, Sound
<1>3. Like(fdc, f)
  BY <1>2, MovedEffect
<1> HIDE DEF f
<1>4. Like(fdc, g)
  <2>1. Like(f, Advance(f))
    BY <1>3, AdvanceEffect DEF Like
  <2> QED
    BY <1>3, <2>1, LikeLike
<1> HIDE DEF g
<1>5. Sound(end, xfer.began)
  BY <1>2, <1>4, EndOfTransferSound
<1>6. Sound(await, xfer.began)
  <2>1. Like(g, Fetch(g, g.at[g.drive]))
    BY <1>4, FetchEffect DEF Like
  <2>2. Like(fdc, Fetch(g, g.at[g.drive]))
    BY <1>4, <2>1, LikeLike
  <2> QED
    BY <1>2, <2>2, AwaitSectorSound
<1>7. Sound(f, xfer.began)
  BY <1>2, <1>3, LikeSound
<1> HIDE DEF end, await
<1>8. Sound(next, xfer.began)
  BY <1>5, <1>6, <1>7
<1> HIDE DEF next
<1> QED
  BY <1>1, <1>2, <1>8, DoneKeeps, BecomesSound

LEMMA DmaReadStep ==
  ASSUME IInv, DmaRead PROVE IInv'
<1> DEFINE f    == Moved(fdc)
           full == f.index >= BytesPerSec \/ f.tc
           end  == EnterResult([f EXCEPT !.drq = FALSE, !.st0 = St("abnormal", FALSE, f.drive)])
           next == IF full THEN AwaitSector(Advance(f)) ELSE f
           done == IF full THEN Done(Logical(f.at[f.drive])) ELSE xfer
<1>1. Becomes(end, xfer) \/ Becomes(next, done)
  BY DEF DmaRead
<1>2. Sound(fdc, xfer.began) /\ "began" \in DOMAIN xfer /\ Shape(fdc)
  BY DEF IInv, Sound
<1>3. Like(fdc, f)
  BY <1>2, MovedEffect
<1> HIDE DEF f
<1>4. Sound(end, xfer.began)
  BY <1>2, <1>3, EndOfTransferSound
<1>5. Sound(AwaitSector(Advance(f)), xfer.began)
  <2>1. Like(f, Advance(f))
    BY <1>3, AdvanceEffect DEF Like
  <2>2. Like(fdc, Advance(f))
    BY <1>3, <2>1, LikeLike
  <2> QED
    BY <1>2, <2>2, AwaitSectorSound
<1>6. Sound(f, xfer.began)
  BY <1>2, <1>3, LikeSound
<1> HIDE DEF end, full
<1>7. Sound(next, xfer.began)
  BY <1>5, <1>6
<1>8. done.began = xfer.began /\ "began" \in DOMAIN done
  BY <1>2, DoneKeeps
<1> HIDE DEF next, done
<1> QED
  BY <1>1, <1>2, <1>4, <1>7, <1>8, BecomesSound

LEMMA SetMediaStatusEffect ==
  ASSUME NEW f, Shape(f), NEW d, NEW inserted PROVE Like(f, SetMediaStatus(f, d, inserted))
BY DEF Like, Shape, Fields, ChangeLine, SetMediaStatus

LEMMA RuntimeConfigStep ==
  ASSUME IInv, NEW d, NEW inserted, NEW readonly, RuntimeConfig(d, inserted, readonly)
  PROVE  IInv'
<1> DEFINE out == SetMediaStatus(fdc, d, FALSE)
           new == IF inserted THEN SetMediaStatus(out, d, TRUE) ELSE out
           set == IF readonly THEN new.protected \cup {d} ELSE new.protected \ {d}
           g   == [new EXCEPT !.protected = set]
<1>1. Becomes(g, Touched(d))
  BY DEF RuntimeConfig
<1>2. Sound(fdc, xfer.began) /\ "began" \in DOMAIN xfer /\ Shape(fdc)
  BY DEF IInv, Sound
<1>3. Like(fdc, out)
  BY <1>2, SetMediaStatusEffect
<1> HIDE DEF out
<1>4. Like(fdc, new)
  <2>1. Like(out, SetMediaStatus(out, d, TRUE))
    BY <1>3, SetMediaStatusEffect DEF Like
  <2> QED
    BY <1>3, <2>1, LikeLike
<1> HIDE DEF new, set
<1>5. Like(new, g)
  BY <1>4 DEF Like, Shape, Fields, ChangeLine
<1> HIDE DEF g
<1>6. Sound(g, xfer.began)
  BY <1>2, <1>4, <1>5, LikeLike, LikeSound
<1>7. Touched(d).began = xfer.began /\ "began" \in DOMAIN Touched(d)
  BY <1>2 DEF Touched
<1> QED
  BY <1>1, <1>6, <1>7, BecomesSound

LEMMA SoftwareStep ==
  ASSUME IInv, Software PROVE IInv'
<1>1. CASE \E c \in Commands : WriteCommand(c)
  BY <1>1, WriteCommandStep
<1>2. CASE WriteParameter
  BY <1>2, WriteParameterStep
<1>3. CASE ReadResult
  BY <1>3, ReadResultStep
<1>4. CASE ReadNoResult
  BY <1>4, ReadNoResultStep
<1>5. CASE (\E d \in Drives : SelectDrive(d)) \/ MotorsOff \/ ToggleReset \/ HoldReset
  BY <1>5, SoftwareDorStep
<1>6. CASE ResetByDsr
  BY <1>6, ResetByDsrStep
<1>7. CASE \E dir \in Transfers \cap Commands, n \in 0..MaxUnits : ProgramDma(dir, n)
  BY <1>7 DEF ProgramDma, IInv
<1> QED
  BY <1>1, <1>2, <1>3, <1>4, <1>5, <1>6, <1>7 DEF Software

LEMMA NextStep ==
  ASSUME IInv, [Next]_vars PROVE IInv'
<1>1. CASE Software
  BY <1>1, SoftwareStep
<1>2. CASE Device
  BY <1>2, TimerStep, DmaWriteStep, DmaReadStep DEF Device
<1>3. CASE User
  BY <1>3, RuntimeConfigStep, HardResetStep DEF User
<1>4. CASE UNCHANGED vars
  BY <1>4 DEF vars, IInv
<1> QED
  BY <1>1, <1>2, <1>3, <1>4 DEF Next

(* The inductive invariant.                                                 *)
THEOREM Invariance == Spec => []IInv
<1>1. Init => IInv
  BY InitIInv
<1>2. IInv /\ [Next]_vars => IInv'
  BY NextStep
<1> QED
  BY <1>1, <1>2, PTL DEF Spec

-----------------------------------------------------------------------------
(* The properties.                                                          *)

(* The status register tells of the result bytes, and "old one pending" of  *)
(* write() is out of reach but for a transfer without a diskette, whatever  *)
(* commands, resets, power failures and timers come in whatever order.      *)
THEOREM StatusIsTrue == Spec => []StatusTellsTruth
<1>1. IInv => StatusTellsTruth
  BY DEF IInv, Sound, Status, Invitation, Invites, Listens, StatusTellsTruth
<1> QED
  BY <1>1, Invariance, PTL

(* A pending command has a next mover, but where the code hangs on purpose. *)
THEOREM NoCommandIsForgotten == Spec => []SomebodyMovesOn
<1>1. IInv => SomebodyMovesOn
  BY DEF IInv, Sound, Moves, SomebodyMovesOn
<1> QED
  BY <1>1, Invariance, PTL

(* A sense command for a pending interrupt is answered with two bytes, and  *)
(* after a reset the drives are reported in turn.                           *)
THEOREM InterruptsAreExplained == Spec => []SenseExplainsInterrupt
<1>1. IInv => SenseExplainsInterrupt
  BY DEF IInv, Sound, Senses, SenseExplainsInterrupt
<1> QED
  BY <1>1, Invariance, PTL

(* A drive without diskette has its change line on.                         *)
THEOREM AbsenceIsTold == Spec => []ChangeLineTellsAbsence
<1>1. IInv => ChangeLineTellsAbsence
  BY DEF IInv, Sound, ChangeLine, ChangeLineTellsAbsence
<1> QED
  BY <1>1, Invariance, PTL

-----------------------------------------------------------------------------
(* The sectors of a transfer.  The i-th one counted through the tracks, as  *)
(* Nth does: its number, its track, and its place there.                    *)
LastSector(x) == IF x.eot = 0 THEN SecPerTrk ELSE x.eot

Linear(x, i) ==
  (IF x.multi THEN NumHeads * x.at.cyl + x.at.head ELSE x.at.cyl) * LastSector(x)
  + ((IF x.at.sec > LastSector(x) THEN LastSector(x) ELSE x.at.sec) - 1) + (i - 1)

TrackOf(x, i) == Linear(x, i) \div LastSector(x)
CylOf(x, i)   == IF x.multi THEN TrackOf(x, i) \div NumHeads ELSE TrackOf(x, i)
HeadOf(x, i)  == IF x.multi THEN TrackOf(x, i) % NumHeads ELSE x.at.head
SecOf(x, i)   == (Linear(x, i) % LastSector(x)) + 1

(* Where the heads are for it: past the last cylinder they stay at the stop.*)
Stop(cyl) == IF cyl > Tracks THEN Tracks ELSE cyl

Place(x, i) ==
  IF i = 1 THEN x.at
  ELSE [cyl |-> Stop(CylOf(x, i)), head |-> HeadOf(x, i), sec |-> SecOf(x, i)]

Asks(x) ==
  /\ DOMAIN x = {"at", "eot", "multi", "units", "began", "intact", "sectors"}
  /\ x.at \in [cyl : 0..(Tracks - 1), head : {0, 1}, sec : 1..(SecPerTrk + 1)]
  /\ x.eot \in 0..SecPerTrk /\ x.multi \in BOOLEAN

LEMMA Sizes ==
  /\ SecPerTrk \in Nat \ {0} /\ BytesPerSec \in Nat \ {0} /\ Tracks \in Nat \ {0}
BY GeometryAssumption, FloppyAssumption

LEMMA LastSectorIs ==
  ASSUME NEW x, Asks(x) PROVE LastSector(x) \in Nat \ {0} /\ LastSector(x) \in 1..SecPerTrk
BY Sizes DEF Asks, LastSector

(* The first sector is on its own track, the next ones follow one by one.   *)
LEMMA FirstPlace ==
  ASSUME NEW x, Asks(x)
  PROVE  /\ Linear(x, 1) \in Nat
         /\ CylOf(x, 1) = x.at.cyl /\ HeadOf(x, 1) = x.at.head
         /\ SecOf(x, 1) = IF x.at.sec > LastSector(x) THEN LastSector(x) ELSE x.at.sec
<1> DEFINE last  == LastSector(x)
           track == IF x.multi THEN NumHeads * x.at.cyl + x.at.head ELSE x.at.cyl
           first == IF x.at.sec > last THEN last ELSE x.at.sec
<1>1. last \in Nat \ {0}
  BY LastSectorIs
<1>2. /\ x.at.cyl \in Nat /\ x.at.head \in {0, 1} /\ x.at.sec \in Nat \ {0}
      /\ x.multi \in BOOLEAN
  BY Sizes DEF Asks
<1>3. Linear(x, 1) = track * last + (first - 1) + (1 - 1)
  BY DEF Linear
<1>4. TrackOf(x, 1) = Linear(x, 1) \div last /\ SecOf(x, 1) = (Linear(x, 1) % last) + 1
  BY DEF TrackOf, SecOf
<1> HIDE DEF last
<1>5. track \in Nat /\ first \in Nat /\ first - 1 \in 0..(last - 1)
  BY <1>1, <1>2 DEF NumHeads
<1>9. x.multi => track = 2 * x.at.cyl + x.at.head
  BY DEF NumHeads
<1>10. ~x.multi => track = x.at.cyl
  OBVIOUS
<1> HIDE DEF track
<1>6. Linear(x, 1) = last * track + (first - 1) /\ Linear(x, 1) \in Nat
  <2>1. track * last = last * track /\ last * track \in Nat
    BY <1>1, <1>5
  <2> QED
    BY <1>1, <1>3, <1>5, <2>1
<1>7. Linear(x, 1) \div last = track /\ Linear(x, 1) % last = first - 1
  BY <1>1, <1>5, <1>6, QuotientIs
<1>8. x.multi => track \div 2 = x.at.cyl /\ track % 2 = x.at.head
  <2>1. \A c \in Nat, h \in {0, 1} : (2 * c + h) \div 2 = c /\ (2 * c + h) % 2 = h
    OBVIOUS
  <2>2. SUFFICES ASSUME x.multi PROVE track \div 2 = x.at.cyl /\ track % 2 = x.at.head
    OBVIOUS
  <2>3. track = 2 * x.at.cyl + x.at.head
    BY <1>9, <2>2
  <2> HIDE DEF first
  <2>4. (2 * x.at.cyl + x.at.head) \div 2 = x.at.cyl /\ (2 * x.at.cyl + x.at.head) % 2 = x.at.head
    BY <1>2, <2>1
  <2> QED
    BY <2>3, <2>4
<1>11. SecOf(x, 1) = first
  BY <1>4, <1>5, <1>7
<1> QED
  BY <1>4, <1>6, <1>7, <1>8, <1>10, <1>11 DEF CylOf, HeadOf, NumHeads, last

LEMMA LinearIs ==
  ASSUME NEW x, Asks(x), NEW i \in Nat \ {0}
  PROVE  Linear(x, i) \in Nat /\ Linear(x, i + 1) = Linear(x, i) + 1
<1> DEFINE m == (IF x.multi THEN NumHeads * x.at.cyl + x.at.head ELSE x.at.cyl) * LastSector(x)
                + ((IF x.at.sec > LastSector(x) THEN LastSector(x) ELSE x.at.sec) - 1)
<1>1. \A j : Linear(x, j) = m + (j - 1)
  BY DEF Linear
<1>2. Linear(x, 1) \in Nat
  BY FirstPlace
<1>3. m \in Int
  <2>1. /\ x.at.cyl \in Nat /\ x.at.head \in Nat /\ x.at.sec \in Nat
    BY Sizes DEF Asks
  <2>2. LastSector(x) \in Nat
    BY LastSectorIs
  <2>3. (IF x.multi THEN NumHeads * x.at.cyl + x.at.head ELSE x.at.cyl) \in Nat
    BY <2>1 DEF NumHeads
  <2>4. ((IF x.at.sec > LastSector(x) THEN LastSector(x) ELSE x.at.sec) - 1) \in Int
    BY <2>1, <2>2
  <2> QED
    BY <2>2, <2>3, <2>4
<1> HIDE DEF m
<1> QED
  BY <1>1, <1>2, <1>3

LEMMA PlaceTypes ==
  ASSUME NEW x, Asks(x), NEW i \in Nat \ {0}
  PROVE  /\ TrackOf(x, i) \in Nat /\ CylOf(x, i) \in Nat
         /\ HeadOf(x, i) \in {0, 1} /\ SecOf(x, i) \in 1..LastSector(x)
<1>1. LastSector(x) \in Nat \ {0}
  BY LastSectorIs
<1>2. Linear(x, i) \in Nat
  BY LinearIs
<1>3. /\ Linear(x, i) \div LastSector(x) \in Nat
      /\ Linear(x, i) % LastSector(x) \in 0..(LastSector(x) - 1)
  BY <1>1, <1>2, DivMod
<1>4. TrackOf(x, i) \in Nat /\ SecOf(x, i) \in 1..LastSector(x)
  BY <1>1, <1>3 DEF TrackOf, SecOf
<1>5. x.at.head \in {0, 1}
  BY DEF Asks
<1>6. TrackOf(x, i) \div 2 \in Nat /\ TrackOf(x, i) % 2 \in {0, 1}
  BY <1>4
<1> QED
  BY <1>4, <1>5, <1>6 DEF CylOf, HeadOf, NumHeads

(* From one sector to the next: over the end of the track to sector 1 of    *)
(* the next one, which with multi_track is that of the other head.          *)
LEMMA NextPlace ==
  ASSUME NEW x, Asks(x), NEW i \in Nat \ {0}
  PROVE  LET wrap == SecOf(x, i) = LastSector(x)
             step == wrap /\ (x.multi => HeadOf(x, i) = 1)
         IN
         /\ CylOf(x, i + 1)  = IF step THEN CylOf(x, i) + 1 ELSE CylOf(x, i)
         /\ HeadOf(x, i + 1) = IF wrap /\ x.multi THEN 1 - HeadOf(x, i) ELSE HeadOf(x, i)
         /\ SecOf(x, i + 1)  = IF wrap THEN 1 ELSE SecOf(x, i) + 1
<1> DEFINE last == LastSector(x)
           n    == Linear(x, i)
<1>1. last \in Nat \ {0} /\ n \in Nat /\ Linear(x, i + 1) = n + 1 /\ i + 1 \in Nat \ {0}
  BY LastSectorIs, LinearIs
<1>2. /\ n % last = last - 1 => (n + 1) % last = 0 /\ (n + 1) \div last = (n \div last) + 1
      /\ n % last # last - 1 =>
           (n + 1) % last = (n % last) + 1 /\ (n + 1) \div last = n \div last
  BY <1>1, NextQuotient
<1>3. /\ TrackOf(x, i) = n \div last /\ TrackOf(x, i + 1) = (n + 1) \div last
      /\ SecOf(x, i) = (n % last) + 1 /\ SecOf(x, i + 1) = ((n + 1) % last) + 1
  BY <1>1 DEF TrackOf, SecOf
<1>4. n % last \in 0..(last - 1)
  BY <1>1, DivMod
<1> DEFINE wrap == SecOf(x, i) = last
           t    == TrackOf(x, i)
           u    == TrackOf(x, i + 1)
<1>5. t \in Nat /\ u \in Nat
  BY <1>1, PlaceTypes
<1> HIDE DEF last, n
<1>6. wrap <=> n % last = last - 1
  BY <1>1, <1>3, <1>4
<1>7. /\ SecOf(x, i + 1) = IF wrap THEN 1 ELSE SecOf(x, i) + 1
      /\ u = IF wrap THEN t + 1 ELSE t
  BY <1>2, <1>3, <1>4, <1>6
<1>8. /\ CylOf(x, i) = IF x.multi THEN t \div 2 ELSE t
      /\ HeadOf(x, i) = IF x.multi THEN t % 2 ELSE x.at.head
      /\ CylOf(x, i + 1) = IF x.multi THEN u \div 2 ELSE u
      /\ HeadOf(x, i + 1) = IF x.multi THEN u % 2 ELSE x.at.head
  BY DEF CylOf, HeadOf, NumHeads
<1> HIDE DEF wrap, t, u
<1>9. /\ t % 2 = 1 => (t + 1) \div 2 = (t \div 2) + 1 /\ (t + 1) % 2 = 0
      /\ t % 2 # 1 => (t + 1) \div 2 = t \div 2 /\ (t + 1) % 2 = 1 /\ t % 2 = 0
  BY <1>5
<1>10. HeadOf(x, i + 1) = IF wrap /\ x.multi THEN 1 - HeadOf(x, i) ELSE HeadOf(x, i)
  BY <1>7, <1>8, <1>9
<1>11. CylOf(x, i + 1) = IF wrap /\ (x.multi => HeadOf(x, i) = 1)
                         THEN CylOf(x, i) + 1 ELSE CylOf(x, i)
  BY <1>7, <1>8, <1>9
<1> QED
  BY <1>7, <1>10, <1>11 DEF wrap, last

(* A sector of the image is on a cylinder the diskette has.                 *)
Image == Tracks * NumHeads * SecPerTrk

LEMMA InImage ==
  ASSUME NEW cyl \in Nat, NEW head \in {0, 1}, NEW sec \in 1..SecPerTrk
  PROVE  LET chs == [cyl |-> cyl, head |-> head, sec |-> sec] IN
         Logical(chs) \in Nat /\ (Logical(chs) < Image <=> cyl < Tracks)
<1> DEFINE chs == [cyl |-> cyl, head |-> head, sec |-> sec]
           a   == cyl * 2 + head
           b   == Tracks * 2
           s   == SecPerTrk
<1>1. Logical(chs) = a * s + (sec - 1) /\ Image = b * s
  BY DEF Logical, LogicalSector, Image, NumHeads
<1>2. s \in Nat \ {0} /\ a \in Nat /\ b \in Nat /\ sec - 1 \in 0..(s - 1)
  BY Sizes
<1>3. a < b <=> cyl < Tracks
  BY Sizes
<1> HIDE DEF a, b, s, chs
<1>4. a * s \in Nat /\ b * s \in Nat
  BY <1>2
<1>5. CASE a < b
  <2>1. a * s + s <= b * s
    BY <1>2, <1>5, ProductGrows
  <2> QED
    BY <1>1, <1>2, <1>3, <1>4, <1>5, <2>1 DEF chs
<1>6. CASE a = b
  BY <1>1, <1>2, <1>3, <1>4, <1>6 DEF chs
<1>7. CASE b < a
  <2>1. b * s + s <= a * s
    BY <1>2, <1>7, ProductGrows
  <2> QED
    BY <1>1, <1>2, <1>3, <1>4, <1>7, <2>1 DEF chs
<1> QED
  BY <1>2, <1>5, <1>6, <1>7
(* The i-th sector asked for, in these terms.                               *)
LEMMA NthIs ==
  ASSUME NEW x, Asks(x), NEW i \in Nat \ {0}
  PROVE  /\ i = 1 => Nth(x, i) = Logical(x.at)
         /\ i > 1 /\ CylOf(x, i) >= Tracks => Nth(x, i) = -1
         /\ i > 1 /\ ~(CylOf(x, i) >= Tracks) =>
              Nth(x, i) = Logical([cyl |-> CylOf(x, i), head |-> HeadOf(x, i), sec |-> SecOf(x, i)])
<1>1. Nth(x, i) =
        CASE i = 1                           -> Logical(x.at)
          [] i > 1 /\ CylOf(x, i) >= Tracks  -> -1
          [] OTHER -> Logical([cyl |-> CylOf(x, i), head |-> HeadOf(x, i), sec |-> SecOf(x, i)])
  BY DEF Nth, CylOf, HeadOf, SecOf, TrackOf, Linear, LastSector
<1>2. ~(i = 1 /\ i > 1)
  OBVIOUS
<1> HIDE DEF Nth
<1> QED
  BY <1>1, <1>2

(* A sector the heads are at is the one asked for, unless that is past the  *)
(* end of the diskette, which is where the image ends too.                  *)
LEMMA HereIsNth ==
  ASSUME NEW x, Asks(x), NEW i \in Nat \ {0}
  PROVE  LET here == Logical(Place(x, i)) IN
         /\ here \in Int /\ Nth(x, i) \in Int
         /\ here = Nth(x, i) \/ Nth(x, i) = -1
         /\ i > 1 => Nth(x, i) = (IF here < Image THEN here ELSE -1)
<1> DEFINE at   == Place(x, i)
           here == Logical(at)
<1>1. CASE i = 1
  <2>1. at = x.at /\ Nth(x, i) = here
    BY <1>1, NthIs DEF Place
  <2>2. /\ x.at.cyl \in Int /\ x.at.head \in Int /\ x.at.sec \in Int
        /\ SecPerTrk \in Int
    BY Sizes DEF Asks
  <2>3. here \in Int
    BY <2>1, <2>2 DEF Logical, LogicalSector, NumHeads
  <2> QED
    BY <1>1, <2>1, <2>3
<1>2. CASE i > 1
  <2> DEFINE c == CylOf(x, i)
             h == HeadOf(x, i)
             s == SecOf(x, i)
  <2>1. at = [cyl |-> Stop(c), head |-> h, sec |-> s]
    BY <1>2 DEF Place
  <2>2. c \in Nat /\ h \in {0, 1} /\ s \in 1..SecPerTrk
    BY PlaceTypes, LastSectorIs, Sizes
  <2>3. /\ c >= Tracks => Nth(x, i) = -1
        /\ ~(c >= Tracks) => Nth(x, i) = Logical([cyl |-> c, head |-> h, sec |-> s])
    BY <1>2, NthIs
  <2> HIDE DEF c, h, s
  <2>4. Stop(c) \in Nat /\ (Stop(c) < Tracks <=> ~(c >= Tracks)) /\ (~(c >= Tracks) => Stop(c) = c)
    BY <2>2, Sizes DEF Stop
  <2>5. here \in Nat /\ (here < Image <=> Stop(c) < Tracks)
    BY <2>1, <2>2, <2>4, InImage
  <2>6. ~(c >= Tracks) => Nth(x, i) = here
    BY <2>1, <2>3, <2>4
  <2> HIDE DEF at, here
  <2> QED
    BY <1>2, <2>3, <2>4, <2>5, <2>6 DEF at, here
<1> QED
  BY <1>1, <1>2

-----------------------------------------------------------------------------
(* A transfer is running: it has begun, and no result tells of its end.     *)
Ongoing(f) == f.pending \in Transfers /\ f.result = <<>> /\ "RQM" \notin f.msr

(* The one timer belongs to a command that runs or to a reset, and so does  *)
(* the DMA request; the byte index is zero wherever a command may begin.    *)
Timed == {"recal", "seek", "readid", "read", "write", "reset"}

Machinery(f, d) ==
  /\ f.normal /\ f.drive \in Drives /\ DOMAIN f.at = Drives
  /\ d.left \in Nat
  /\ f.timer => f.pending \in Timed /\ "RQM" \notin f.msr
  /\ f.pending = "reset" => f.timer /\ "RQM" \notin f.msr /\ (f.drq => d.left = 0)
  /\ f.drq => f.pending = "reset" \/ (Ongoing(f) /\ ~f.timer)
  /\ f.index # 0 => f.result # <<>> \/ f.pending = "reset"
  /\ f.pending \in Transfers => d.dir = f.pending

(* What has been moved and what the DMA channel still has to move add up;   *)
(* a write whose last sector is on its way has nothing left.                *)
Counted(f, d, x) ==
  /\ x.units \in Nat /\ x.sectors \in Seq(Int)
  /\ x.sectors # <<>> => f.pending \in Transfers
  /\ Ongoing(f) => Len(x.sectors) * BytesPerSec + d.left >= x.units
  /\ Ongoing(f) /\ f.timer /\ f.pending = "write" /\ f.tc => d.left = 0
  /\ f.pending \in Transfers /\ f.result # <<>> /\ f.st0.ic = "normal" =>
       Len(x.sectors) * BytesPerSec >= x.units

(* The sectors moved are the ones asked for, and the heads are at the next. *)
Ordered(f, x) ==
  /\ \A i \in DOMAIN x.sectors :
       x.sectors[i] = Nth(x, i) \/ (f.pending = "write" /\ Nth(x, i) = -1)
  /\ Ongoing(f) =>
       /\ f.multi = x.multi /\ f.eot = LastSector(x)
       /\ f.at[f.drive] = Place(x, Len(x.sectors) + 1)
       /\ f.pending = "read" => f.buffer = Nth(x, Len(x.sectors) + 1)

Faithful(f, d, x) ==
  Shape(f) /\ Machinery(f, d) /\ Counted(f, d, x) /\ Asks(x) /\ Ordered(f, x)

TInv == Faithful(fdc, dma, xfer)

LEMMA NoTransferAsks == Asks(NoTransfer) /\ NoTransfer.units = 0 /\ NoTransfer.sectors = <<>>
BY Sizes DEF Asks, NoTransfer

(* Outside of transfers there is nothing to count.                          *)
LEMMA NothingMoved ==
  ASSUME NEW f, NEW d, NEW x, Shape(f), Machinery(f, d), f.pending \notin Transfers,
         Asks(x), x.units \in Nat, x.sectors = <<>>
  PROVE  Faithful(f, d, x)
<1>1. Counted(f, d, x)
  BY DEF Counted, Ongoing
<1>2. Ordered(f, x)
  BY DEF Ordered, Ongoing
<1> QED
  BY <1>1, <1>2 DEF Faithful

LEMMA BecomesFaithful ==
  ASSUME NEW f, NEW x, Becomes(f, x), Faithful(f, dma', x) PROVE TInv'
<1>1. fdc' = f /\ xfer' = IF f.pending \in Positioned THEN x ELSE NoTransfer
  BY DEF Becomes
<1>2. CASE f.pending \in Positioned
  BY <1>1, <1>2 DEF TInv
<1>3. CASE f.pending \notin Positioned
  <2>1. f.pending \notin Transfers
    BY <1>3 DEF Positioned, Transfers
  <2>2. Shape(f) /\ Machinery(f, dma')
    BY DEF Faithful
  <2>3. Faithful(f, dma', NoTransfer)
    BY <2>1, <2>2, NoTransferAsks, NothingMoved
  <2> QED
    BY <1>1, <1>3, <2>3 DEF TInv
<1> QED
  BY <1>2, <1>3

LEMMA BecomesIdle ==
  ASSUME NEW f, NEW x, Becomes(f, x), Shape(f), Machinery(f, dma'), f.pending \notin Positioned
  PROVE  TInv'
<1>1. fdc' = f /\ xfer' = NoTransfer
  BY DEF Becomes
<1>2. f.pending \notin Transfers
  BY DEF Positioned, Transfers
<1>3. Faithful(f, dma', NoTransfer)
  BY <1>2, NoTransferAsks, NothingMoved
<1> QED
  BY <1>1, <1>3 DEF TInv

(* Two controllers that differ in nothing these formulas look at.           *)
Same(f, g) ==
  /\ Shape(g)
  /\ g.drive = f.drive /\ g.normal = f.normal /\ g.msr = f.msr /\ g.pending = f.pending
  /\ g.result = f.result /\ g.st0 = f.st0 /\ g.at = f.at /\ g.eot = f.eot
  /\ g.multi = f.multi /\ g.tc = f.tc /\ g.index = f.index /\ g.buffer = f.buffer
  /\ g.timer = f.timer /\ g.drq = f.drq

LEMMA SameFaithful ==
  ASSUME NEW f, NEW g, NEW d, NEW x, Faithful(f, d, x), Same(f, g) PROVE Faithful(g, d, x)
<1>1. Machinery(g, d)
  BY DEF Faithful, Machinery, Ongoing, Same
<1>2. Counted(g, d, x)
  BY DEF Faithful, Counted, Ongoing, Same
<1>3. Ordered(g, x)
  BY DEF Faithful, Ordered, Ongoing, Same
<1> QED
  BY <1>1, <1>2, <1>3 DEF Faithful, Same

LEMMA ResetChangelineSame ==
  ASSUME NEW f, Shape(f) PROVE Same(f, ResetChangeline(f))
BY DEF Same, Shape, Fields, ResetChangeline

(* A controller without timer and DMA request, and not in a reset.          *)
Calm(f) ==
  /\ Shape(f) /\ f.normal /\ f.drive \in Drives /\ DOMAIN f.at = Drives
  /\ ~f.timer /\ ~f.drq /\ f.pending # "reset"

LEMMA CalmMachinery ==
  ASSUME NEW f, NEW d, Calm(f), d.left \in Nat, f.index # 0 => f.result # <<>>,
         f.pending \in Transfers => d.dir = f.pending
  PROVE  Machinery(f, d)
BY DEF Calm, Machinery

LEMMA RestsCalm ==
  ASSUME TInv, "RQM" \in fdc.msr PROVE Calm(fdc)
BY DEF TInv, Faithful, Machinery, Calm, Ongoing

LEMMA EnterResultCalm ==
  ASSUME NEW f, Calm(f)
  PROVE  LET g == EnterResult(f) IN
         /\ Calm(g) /\ g.result # <<>> /\ g.pending = f.pending /\ g.st0 = f.st0
<1>1. ResultOf(f) # <<>>
  BY ResultIsSome
<1>2. EnterResult(f).result = ResultOf(f)
  BY EnterResultEffect DEF Calm
<1>3. LET g == EnterResult(f) IN Calm(g) /\ g.pending = f.pending /\ g.st0 = f.st0
  BY DEF Calm, Shape, Fields, EnterResult, RaiseInterrupt
<1> QED
  BY <1>1, <1>2, <1>3

LEMMA EnterIdleCalm ==
  ASSUME NEW f, Calm(f)
  PROVE  LET g == EnterIdle(f) IN
         Calm(g) /\ g.pending = Idle /\ g.index = 0 /\ g.result = <<>>
BY DEF Calm, Shape, Fields, EnterIdle, Idle
-----------------------------------------------------------------------------
(* The commands, given to a controller that has nothing else to do.         *)
Free(f) == Calm(f) /\ f.result = <<>> /\ f.index = 0 /\ "RQM" \in f.msr

(* What the history remembers of a transfer nothing is moved of yet.        *)
Fresh(x, p, d) ==
  /\ Asks(x) /\ x.at = p.at /\ x.eot = p.eot /\ x.multi = p.multi
  /\ x.units = d.left /\ d.left \in Nat /\ x.sectors = <<>>

LEMMA ResultFaithful ==
  ASSUME NEW f, NEW d, NEW x, NEW p, Calm(f), Fresh(x, p, d),
         f.pending \in Transfers => d.dir = f.pending /\ f.st0.ic # "normal"
  PROVE  Faithful(EnterResult(f), d, x)
<1> DEFINE g == EnterResult(f)
<1>1. Calm(g) /\ g.result # <<>> /\ g.pending = f.pending /\ g.st0 = f.st0
  BY EnterResultCalm
<1> HIDE DEF g
<1>2. Machinery(g, d)
  BY <1>1, CalmMachinery DEF Fresh
<1>3. Counted(g, d, x)
  BY <1>1 DEF Counted, Ongoing, Fresh
<1>4. Ordered(g, x)
  BY <1>1 DEF Ordered, Ongoing, Fresh
<1>5. Faithful(g, d, x)
  BY <1>1, <1>2, <1>3, <1>4 DEF Faithful, Fresh, Calm
<1> QED
  BY <1>5 DEF g

LEMMA SpecifyFaithful ==
  ASSUME NEW f, Free(f), NEW d, NEW x, NEW p, Fresh(x, p, d)
  PROVE  Faithful(EnterIdle(f), d, x)
<1> DEFINE g == EnterIdle(f)
<1>1. Calm(g) /\ g.pending = Idle /\ g.index = 0
  BY EnterIdleCalm DEF Free
<1> HIDE DEF g
<1>2. Machinery(g, d) /\ g.pending \notin Transfers
  BY <1>1, CalmMachinery DEF Fresh, Idle, Transfers
<1>3. Faithful(g, d, x)
  BY <1>1, <1>2, NothingMoved DEF Fresh, Calm
<1> QED
  BY <1>3 DEF g

LEMMA GetStatusFaithful ==
  ASSUME NEW f, Free(f), f.pending = "getstatus", NEW d, NEW x, NEW p, Fresh(x, p, d)
  PROVE  Faithful(GetStatus(f, p), d, x)
<1> DEFINE g == [f EXCEPT !.at[p.drive].head = p.at.head]
<1>1. Calm(g) /\ g.pending = "getstatus"
  BY DEF Free, Calm, Shape, Fields
<1> HIDE DEF g
<1>2. Faithful(EnterResult(g), d, x)
  BY <1>1, ResultFaithful DEF Transfers
<1> QED
  BY <1>2 DEF GetStatus, g

(* Selecting and stepping leave the controller calm.                        *)
Selected(f, g, drive) ==
  /\ Free(g) /\ g.pending = f.pending /\ g.drive = drive /\ g.st0 = f.st0

LEMMA SelectFree ==
  ASSUME NEW f, Free(f), NEW drive \in Drives PROVE Selected(f, Select(f, drive), drive)
BY DEF Selected, Free, Calm, Shape, Fields, Select

LEMMA SameFree ==
  ASSUME NEW f, NEW g, NEW h, NEW drive, Selected(f, g, drive), Same(g, h)
  PROVE  Selected(f, h, drive)
BY DEF Selected, Free, Calm, Same

LEMMA ResetChangelineFree ==
  ASSUME NEW f, NEW g, NEW drive, Selected(f, g, drive)
  PROVE  Selected(f, ResetChangeline(g), drive)
BY ResetChangelineSame, SameFree DEF Selected, Free, Calm

(* The heads move.                                                          *)
LEMMA PositioningFaithful ==
  ASSUME NEW f, Free(f), f.pending \in {"recal", "seek"}, NEW d, NEW x, NEW p, Fresh(x, p, d),
         NEW g, Shape(g), g.timer, ~g.drq, g.msr = {}, g.pending = f.pending,
         g.index = 0, g.normal = f.normal, g.drive = f.drive, DOMAIN g.at = DOMAIN f.at
  PROVE  Faithful(g, d, x)
<1>1. Machinery(g, d)
  BY DEF Free, Calm, Machinery, Timed, Fresh, Transfers
<1>2. g.pending \notin Transfers
  BY DEF Transfers
<1> QED
  BY <1>1, <1>2, NothingMoved DEF Fresh

LEMMA RecalibrateFaithful ==
  ASSUME NEW f, Free(f), f.pending = "recal", NEW d, NEW x, NEW p, Fresh(x, p, d),
         p.drive \in Drives
  PROVE  Faithful(Recalibrate(f, p), d, x)
<1> DEFINE q == [p EXCEPT !.at.cyl = 0]
           s == Select(f, p.drive)
           g == StepTo(s, q)
           h == [g EXCEPT !.timer = TRUE, !.at[p.drive].cyl = 0, !.msr = {}, !.active = {p.drive}]
<1>1. Selected(f, s, p.drive)
  BY SelectFree
<1> HIDE DEF s
<1>2. Selected(f, g, p.drive)
  BY <1>1, ResetChangelineFree DEF StepTo
<1>3. Recalibrate(f, p) = h
  BY DEF Recalibrate, s
<1> HIDE DEF g
<1>4. /\ Shape(h) /\ h.timer /\ ~h.drq /\ h.msr = {} /\ h.pending = g.pending
      /\ h.index = 0 /\ h.normal = g.normal /\ h.drive = g.drive /\ DOMAIN h.at = DOMAIN g.at
  BY <1>2 DEF Selected, Free, Calm, Shape, Fields
<1> HIDE DEF h
<1>5. Faithful(h, d, x)
  BY <1>2, <1>4, PositioningFaithful DEF Selected
<1> QED
  BY <1>3, <1>5

LEMMA SeekFaithful ==
  ASSUME NEW f, Free(f), f.pending = "seek", NEW d, NEW x, NEW p, Fresh(x, p, d),
         p.drive \in Drives
  PROVE  Faithful(Seek(f, p), d, x)
<1> DEFINE s == Select(f, p.drive)
           r == [s EXCEPT !.at[p.drive].head = p.at.head]
           g == StepTo(r, p)
           h == [g EXCEPT !.timer = TRUE, !.at[p.drive].cyl = p.at.cyl, !.msr = {},
                          !.active = {p.drive}]
<1>1. Selected(f, s, p.drive)
  BY SelectFree
<1> HIDE DEF s
<1>2. Selected(f, r, p.drive)
  BY <1>1 DEF Selected, Free, Calm, Shape, Fields
<1> HIDE DEF r
<1>3. Selected(f, g, p.drive)
  BY <1>2, ResetChangelineFree DEF StepTo
<1>4. Seek(f, p) = h
  BY DEF Seek, s, r
<1> HIDE DEF g
<1>5. /\ Shape(h) /\ h.timer /\ ~h.drq /\ h.msr = {} /\ h.pending = g.pending
      /\ h.index = 0 /\ h.normal = g.normal /\ h.drive = g.drive /\ DOMAIN h.at = DOMAIN g.at
  BY <1>3 DEF Selected, Free, Calm, Shape, Fields
<1> HIDE DEF h
<1>6. Faithful(h, d, x)
  BY <1>3, <1>5, PositioningFaithful DEF Selected
<1> QED
  BY <1>4, <1>6

LEMMA SenseIsResult ==
  ASSUME NEW f, Free(f), f.pending = "sense"
  PROVE  \E g : Sense(f) = EnterResult(g) /\ Calm(g) /\ g.pending = "sense"
<1> DEFINE a == [f EXCEPT !.sensei = @ - 1, !.st0.drive = 4 - f.sensei]
           b == [f EXCEPT !.st0 = St("invalid", FALSE, 0)]
<1>1. Calm(a) /\ a.pending = "sense"
  BY DEF Free, Calm, Shape, Fields
<1>2. Calm(b) /\ b.pending = "sense"
  BY DEF Free, Calm, Shape, Fields, St
<1>3. Calm(f)
  BY DEF Free
<1>4. Sense(f) = EnterResult(IF f.sensei > 0 THEN a ELSE IF f.irq THEN f ELSE b)
  BY DEF Sense
<1> HIDE DEF a, b
<1> QED
  BY <1>1, <1>2, <1>3, <1>4

LEMMA SenseFaithful ==
  ASSUME NEW f, Free(f), f.pending = "sense", NEW d, NEW x, NEW p, Fresh(x, p, d)
  PROVE  Faithful(Sense(f), d, x)
BY SenseIsResult, ResultFaithful DEF Transfers

LEMMA ReadIdFaithful ==
  ASSUME NEW f, Free(f), f.pending = "readid", NEW d, NEW x, NEW p, Fresh(x, p, d),
         p.drive \in Drives
  PROVE  Faithful(ReadId(f, p), d, x)
<1> DEFINE s == Select(f, p.drive)
           g == [s EXCEPT !.at[p.drive].head = p.at.head, !.msr = {"BUSY"}, !.active = {}]
           h == [g EXCEPT !.st0 = St("normal", FALSE, p.drive), !.timer = TRUE]
<1>1. Selected(f, s, p.drive)
  BY SelectFree
<1>2. ReadId(f, p) = IF p.drive \in f.motors \cap f.present THEN h ELSE g
  BY DEF ReadId
<1> HIDE DEF s
<1>3. Calm(g) /\ g.msr = {"BUSY"} /\ g.pending = "readid" /\ g.index = 0
  BY <1>1 DEF Selected, Free, Calm, Shape, Fields
<1> HIDE DEF g
<1>4. Machinery(g, d)
  BY <1>3, CalmMachinery DEF Fresh, Transfers
<1>5. /\ Shape(h) /\ h.msr = {"BUSY"} /\ h.pending = "readid" /\ h.index = 0 /\ h.timer
      /\ ~h.drq /\ h.normal /\ h.drive \in Drives /\ DOMAIN h.at = Drives
  BY <1>3 DEF Calm, Shape, Fields, St
<1> HIDE DEF h
<1>6. Machinery(h, d)
  BY <1>5 DEF Machinery, Timed, Fresh, Transfers
<1>7. Faithful(g, d, x) /\ Faithful(h, d, x)
  BY <1>3, <1>4, <1>5, <1>6, NothingMoved DEF Fresh, Calm, Transfers
<1> QED
  BY <1>2, <1>7

LEMMA RefusedFaithful ==
  ASSUME NEW f, Calm(f), NEW d, NEW x, NEW p, Fresh(x, p, d), NEW q,
         f.pending \in Transfers => d.dir = f.pending
  PROVE  Faithful(Refused(f, q), d, x)
<1> DEFINE g == [f EXCEPT !.st0 = St("abnormal", FALSE, q.drive)]
<1>1. Calm(g) /\ g.pending = f.pending /\ g.st0.ic = "abnormal"
  BY DEF Calm, Shape, Fields, St
<1> HIDE DEF g
<1>2. Faithful(EnterResult(g), d, x)
  BY <1>1, ResultFaithful
<1> QED
  BY <1>2 DEF Refused, g
(* A transfer begins, its first sector with the timer or the DMA channel.   *)
LEMMA BegunFaithful ==
  ASSUME NEW f, NEW d, NEW x, NEW p, Fresh(x, p, d),
         Shape(f), f.normal, f.drive \in Drives, DOMAIN f.at = Drives,
         f.pending \in Transfers, d.dir = f.pending, f.result = <<>>, f.index = 0,
         f.msr = {"BUSY"}, f.pending = "read" => f.timer /\ ~f.drq,
         f.pending = "write" => ~f.timer /\ f.drq,
         f.multi = p.multi, f.eot = (IF p.eot = 0 THEN SecPerTrk ELSE p.eot),
         f.at[f.drive] = p.at, f.pending = "read" => f.buffer = Logical(p.at)
  PROVE  Faithful(f, d, x)
<1>1. Machinery(f, d)
  BY DEF Machinery, Timed, Ongoing, Fresh, Transfers
<1>2. Len(x.sectors) = 0
  BY DEF Fresh
<1>3. Counted(f, d, x)
  <2>1. f.pending = "write" => ~f.timer
    OBVIOUS
  <2>2. Len(x.sectors) * BytesPerSec + d.left >= x.units
    BY <1>2, Sizes DEF Fresh
  <2> QED
    BY <2>1, <2>2 DEF Counted, Fresh
<1>4. Ordered(f, x)
  <2>1. Place(x, 1) = p.at /\ f.eot = LastSector(x)
    BY DEF Place, Fresh, LastSector
  <2>2. 1 \in Nat \ {0} /\ Asks(x) /\ x.at = p.at
    BY DEF Fresh
  <2>3. Nth(x, 1) = Logical(p.at)
    BY <2>2, NthIs
  <2>4. \A i \in DOMAIN x.sectors : FALSE
    BY DEF Fresh
  <2> QED
    BY <1>2, <2>1, <2>3, <2>4 DEF Ordered, Fresh
<1> QED
  BY <1>1, <1>3, <1>4 DEF Faithful, Fresh

LEMMA ReadWriteFaithful ==
  ASSUME NEW f, Free(f), NEW c \in Transfers, f.pending = c, NEW d, d.dir = c,
         NEW x, NEW p \in Parameters, Fresh(x, p, d)
  PROVE  Faithful(ReadWrite(f, c, p), d, x)
<1> DEFINE s     == Select(f, p.drive)
           g     == [s EXCEPT !.multi = p.multi]
           moved == IF p.at.cyl = g.at[p.drive].cyl THEN g ELSE ResetChangeline(g)
           e     == IF p.eot = 0 THEN SecPerTrk ELSE p.eot
           ready == [moved EXCEPT !.at[p.drive] = p.at, !.msr = {"BUSY"}, !.active = {}, !.eot = e]
           there == [g EXCEPT !.at[p.drive] = p.at]
           first == [Fetch(ready, p.at) EXCEPT !.timer = TRUE]
           ask   == [ready EXCEPT !.drq = TRUE]
<1>1. ReadWrite(f, c, p) =
        CASE ~p.headsAgree -> Refused(g, p)
          [] p.headsAgree /\ p.drive \notin f.present -> g
          [] p.headsAgree /\ p.drive \in f.present /\ p.at.sec > SecPerTrk -> Refused(there, p)
          [] OTHER -> IF c = "read" THEN first ELSE ask
  BY DEF ReadWrite
<1>2. /\ p.drive \in Drives
      /\ p.at \in [cyl : 0..(Tracks - 1), head : {0, 1}, sec : 1..(SecPerTrk + 1)]
  BY DEF Parameters
<1>3. Selected(f, s, p.drive)
  BY <1>2, SelectFree
<1> HIDE DEF s
<1>4. Selected(f, g, p.drive) /\ g.multi = p.multi
  BY <1>3 DEF Selected, Free, Calm, Shape, Fields
<1> HIDE DEF g
<1>5. Faithful(Refused(g, p), d, x)
  BY <1>4, RefusedFaithful DEF Selected, Free
<1>6. Faithful(Refused(there, p), d, x)
  <2>1. Calm(there) /\ there.pending = c
    BY <1>4 DEF Selected, Free, Calm, Shape, Fields
  <2> HIDE DEF there
  <2> QED
    BY <2>1, RefusedFaithful
<1>7. Faithful(g, d, x)
  <2>1. Machinery(g, d)
    BY <1>4, CalmMachinery DEF Selected, Free, Fresh
  <2>2. Counted(g, d, x) /\ Ordered(g, x)
    BY <1>4 DEF Counted, Ordered, Ongoing, Selected, Free, Fresh
  <2> QED
    BY <1>4, <2>1, <2>2 DEF Faithful, Selected, Free, Calm, Fresh
<1>8. Selected(f, moved, p.drive) /\ moved.multi = p.multi
  BY <1>4, ResetChangelineFree, ResetChangelineSame DEF Same, Selected, Free, Calm
<1> HIDE DEF moved, e
<1>9. /\ Shape(ready) /\ ready.normal /\ ready.drive = p.drive /\ DOMAIN ready.at = Drives
      /\ ready.pending = c /\ ready.result = <<>> /\ ready.index = 0 /\ ready.msr = {"BUSY"}
      /\ ~ready.timer /\ ~ready.drq /\ ready.multi = p.multi /\ ready.eot = e
      /\ ready.at[p.drive] = p.at
  BY <1>2, <1>8 DEF Selected, Free, Calm, Shape, Fields
<1> HIDE DEF ready
<1>10. ASSUME c = "write" PROVE Faithful(ask, d, x)
  <2>1. /\ Shape(ask) /\ ask.normal /\ ask.drive = p.drive /\ DOMAIN ask.at = Drives
        /\ ask.pending = c /\ ask.result = <<>> /\ ask.index = 0 /\ ask.msr = {"BUSY"}
        /\ ~ask.timer /\ ask.drq /\ ask.multi = p.multi /\ ask.eot = e
        /\ ask.at[p.drive] = p.at
    BY <1>9 DEF Shape, Fields
  <2> HIDE DEF ask
  <2>2. e = IF p.eot = 0 THEN SecPerTrk ELSE p.eot
    BY DEF e
  <2> QED
    BY <1>2, <1>9, <1>10, <2>1, <2>2, BegunFaithful
<1>11. ASSUME c = "read", p.at.sec <= SecPerTrk PROVE Faithful(first, d, x)
  <2>1. Logical(p.at) < Image
    <3>1. p.at = [cyl |-> p.at.cyl, head |-> p.at.head, sec |-> p.at.sec]
      BY <1>2
    <3>2. p.at.cyl \in Nat /\ p.at.cyl < Tracks /\ p.at.head \in {0, 1} /\ p.at.sec \in 1..SecPerTrk
      BY <1>2, <1>11, Sizes
    <3> QED
      BY <3>1, <3>2, InImage
  <2>2. Fetch(ready, p.at) = [ready EXCEPT !.buffer = Logical(p.at)]
    BY <2>1 DEF Fetch, Image
  <2>3. /\ Shape(first) /\ first.normal /\ first.drive = p.drive /\ DOMAIN first.at = Drives
        /\ first.pending = c /\ first.result = <<>> /\ first.index = 0 /\ first.msr = {"BUSY"}
        /\ first.timer /\ ~first.drq /\ first.multi = p.multi /\ first.eot = e
        /\ first.at[p.drive] = p.at /\ first.buffer = Logical(p.at)
    BY <1>9, <2>2 DEF Shape, Fields
  <2> HIDE DEF first
  <2>4. e = IF p.eot = 0 THEN SecPerTrk ELSE p.eot
    BY DEF e
  <2> QED
    BY <1>2, <1>9, <1>11, <2>3, <2>4, BegunFaithful
<1>12. p.at.sec > SecPerTrk \/ p.at.sec <= SecPerTrk
  BY <1>2, Sizes
<1> HIDE DEF there, first, ask
<1> QED
  BY <1>1, <1>5, <1>6, <1>7, <1>10, <1>11, <1>12 DEF Transfers

LEMMA FloppyCommandFaithful ==
  ASSUME NEW f, Free(f), NEW c \in AllCommands \ {"version", "invalid"}, NEW d,
         c \in Transfers => d.dir = c, NEW x, NEW p \in Parameters, Fresh(x, p, d)
  PROVE  Faithful(FloppyCommand(f, c, p), d, x)
<1> DEFINE g == [f EXCEPT !.pending = c]
<1>1. Free(g) /\ g.pending = c
  BY DEF Free, Calm, Shape, Fields, AllCommands
<1>2. FloppyCommand(f, c, p) =
        CASE c = "specify"    -> EnterIdle(g)
          [] c = "getstatus"  -> GetStatus(g, p)
          [] c = "recal"      -> Recalibrate(g, p)
          [] c = "seek"       -> Seek(g, p)
          [] c = "sense"      -> Sense(g)
          [] c = "readid"     -> ReadId(g, p)
          [] OTHER            -> ReadWrite(g, c, p)
  BY DEF FloppyCommand
<1>3. p.drive \in Drives
  BY DEF Parameters
<1> HIDE DEF g
<1>4. CASE c = "specify"
  BY <1>1, <1>2, <1>4, SpecifyFaithful
<1>5. CASE c = "getstatus"
  BY <1>1, <1>2, <1>5, GetStatusFaithful
<1>6. CASE c = "recal"
  BY <1>1, <1>2, <1>3, <1>6, RecalibrateFaithful
<1>7. CASE c = "seek"
  BY <1>1, <1>2, <1>3, <1>7, SeekFaithful
<1>8. CASE c = "sense"
  BY <1>1, <1>2, <1>8, SenseFaithful
<1>9. CASE c = "readid"
  BY <1>1, <1>2, <1>3, <1>9, ReadIdFaithful
<1>10. CASE c \in Transfers
  <2>1. Faithful(ReadWrite(g, c, p), d, x)
    BY <1>1, <1>10, ReadWriteFaithful
  <2> QED
    BY <1>2, <1>10, <2>1 DEF Transfers
<1> QED
  BY <1>4, <1>5, <1>6, <1>7, <1>8, <1>9, <1>10 DEF AllCommands, Transfers

LEMMA ExecuteFaithful ==
  ASSUME NEW f, Free(f), NEW c \in AllCommands \ {"version", "invalid"}, NEW d,
         c \in Transfers => d.dir = c, NEW x, NEW p \in Parameters, Fresh(x, p, d)
  PROVE  Faithful(Execute(f, c, p), d, x)
<1> DEFINE g == FloppyCommand(f, c, p)
<1>1. Faithful(g, d, x)
  BY FloppyCommandFaithful
<1> HIDE DEF g
<1>2. Same(g, [g EXCEPT !.complete = TRUE, !.command = Idle])
  BY <1>1 DEF Faithful, Same, Shape, Fields
<1>3. Faithful([g EXCEPT !.complete = TRUE, !.command = Idle], d, x)
  BY <1>1, <1>2, SameFaithful
<1> QED
  BY <1>3 DEF Execute, g
-----------------------------------------------------------------------------
(* The handlers.                                                            *)

LEMMA InitFaithful ==
  ASSUME Init PROVE TInv
<1>1. PICK inserted \in SUBSET Drives, readonly \in SUBSET Drives :
        fdc = [PowerOn EXCEPT !.present = inserted, !.protected = readonly]
  BY DEF Init
<1>2. Calm(fdc) /\ fdc.pending = Idle /\ fdc.index = 0
  BY <1>1, FloppyAssumption DEF PowerOn, Calm, Shape, Fields, St, Idle
<1>3. dma.left \in Nat /\ xfer = NoTransfer
  BY DEF Init
<1>4. Machinery(fdc, dma) /\ fdc.pending \notin Transfers
  BY <1>2, <1>3, CalmMachinery DEF Idle, Transfers
<1> QED
  BY <1>2, <1>3, <1>4, NothingMoved, NoTransferAsks DEF TInv, Calm

(* A controller that listens is free, unless it hangs with a transfer.      *)
LEMMA ListensFree ==
  ASSUME IInv, TInv, Listens
  PROVE  /\ Free(fdc) /\ dma.left \in Nat
         /\ ~fdc.complete => fdc.command \in AllCommands \ {"version", "invalid"}
<1>1. Calm(fdc)
  BY RestsCalm DEF Listens
<1>2. fdc.result = <<>>
  BY <1>1 DEF IInv, Sound, Status, Listens, Calm
<1>3. fdc.index = 0 /\ dma.left \in Nat
  BY <1>1, <1>2 DEF TInv, Faithful, Machinery, Calm
<1>4. ~fdc.complete => fdc.command \in AllCommands \ {"version", "invalid"}
  BY DEF IInv, Sound, Invitation, Invites, Listens
<1> QED
  BY <1>1, <1>2, <1>3, <1>4 DEF Free, Listens

LEMMA AcceptFree ==
  ASSUME NEW f, Free(f), NEW c
  PROVE  Free(Accept(f, c)) /\ Accept(f, c).pending = f.pending
BY DEF Free, Calm, Shape, Fields, Accept

(* A command of one byte is answered or done with at once.                  *)
LEMMA WriteCommandFaithful ==
  ASSUME IInv, TInv, NEW c \in Commands, WriteCommand(c) PROVE TInv'
<1> DEFINE g == Accept(fdc, c)
           v == [g EXCEPT !.pending = c]
           i == [g EXCEPT !.st0 = St("invalid", FALSE, 0)]
           next == CASE c = "version" -> EnterResult(v)
                     [] c = "invalid" -> EnterResult(i)
                     [] c = "sense"   -> Execute(g, c, NoParameters)
                     [] OTHER         -> g
<1>1. Listens /\ fdc.pending = Idle /\ Becomes(next, xfer) /\ dma' = dma
  BY DEF WriteCommand
<1>2. Free(g) /\ g.pending = Idle /\ dma.left \in Nat
  BY <1>1, ListensFree, AcceptFree
<1> HIDE DEF g
<1>3. CASE c = "version"
  <2>1. Calm(v) /\ v.pending = "version"
    BY <1>2, <1>3 DEF Free, Calm, Shape, Fields
  <2> HIDE DEF v
  <2>2. Calm(EnterResult(v)) /\ EnterResult(v).result # <<>> /\ EnterResult(v).pending = "version"
    BY <2>1, EnterResultCalm
  <2>3. Machinery(EnterResult(v), dma)
    BY <1>2, <2>2, CalmMachinery DEF Transfers
  <2>4. Becomes(EnterResult(v), xfer)
    BY <1>1, <1>3
  <2> QED
    BY <1>1, <2>2, <2>3, <2>4, BecomesIdle DEF Calm, Positioned
<1>4. CASE c = "invalid"
  <2>1. Calm(i) /\ i.pending = Idle
    BY <1>2 DEF Free, Calm, Shape, Fields, St
  <2> HIDE DEF i
  <2>2. Calm(EnterResult(i)) /\ EnterResult(i).result # <<>> /\ EnterResult(i).pending = Idle
    BY <2>1, EnterResultCalm
  <2>3. Machinery(EnterResult(i), dma)
    BY <1>2, <2>2, CalmMachinery DEF Transfers, Idle
  <2>4. Becomes(EnterResult(i), xfer)
    BY <1>1, <1>4
  <2> QED
    BY <1>1, <2>2, <2>3, <2>4, BecomesIdle DEF Calm, Positioned, Idle
<1>5. CASE c = "sense"
  <2> DEFINE s == [g EXCEPT !.pending = c]
             r == Sense(s)
             h == [r EXCEPT !.complete = TRUE, !.command = Idle]
  <2>1. Free(s) /\ s.pending = "sense"
    BY <1>2, <1>5 DEF Free, Calm, Shape, Fields
  <2>2. next = h
    BY <1>5 DEF Execute, FloppyCommand
  <2> HIDE DEF s
  <2>3. Calm(r) /\ r.result # <<>> /\ r.pending = "sense"
    BY <2>1, SenseIsResult, EnterResultCalm
  <2> HIDE DEF r, next
  <2>4. Calm(h) /\ h.result # <<>> /\ h.pending = "sense"
    BY <2>3 DEF Calm, Shape, Fields
  <2> HIDE DEF h
  <2>5. Machinery(h, dma)
    BY <1>2, <2>4, CalmMachinery DEF Transfers
  <2> QED
    BY <1>1, <2>2, <2>4, <2>5, BecomesIdle DEF Calm, Positioned
<1>6. CASE c \notin {"version", "invalid", "sense"}
  <2>1. next = g
    BY <1>6
  <2>2. Machinery(g, dma)
    BY <1>2, CalmMachinery DEF Free, Transfers, Idle
  <2> QED
    BY <1>1, <1>2, <2>1, <2>2, BecomesIdle DEF Free, Calm, Positioned, Idle
<1> QED
  BY <1>3, <1>4, <1>5, <1>6

LEMMA WriteParameterFaithful ==
  ASSUME IInv, TInv, WriteParameter PROVE TInv'
<1> DEFINE c == fdc.command
<1>1. PICK p \in ParametersOf(c) : Becomes(Execute(fdc, c, p), Asked(p))
  BY DEF WriteParameter
<1>2. p \in Parameters
  BY DEF ParametersOf
<1>3. /\ Free(fdc) /\ dma.left \in Nat /\ c \in AllCommands \ {"version", "invalid"}
      /\ c \in Transfers => dma.dir = c
  BY ListensFree DEF WriteParameter
<1>4. Fresh(Asked(p), p, dma)
  BY <1>2, <1>3 DEF Fresh, Asked, Asks, Parameters
<1>5. Faithful(Execute(fdc, c, p), dma, Asked(p))
  BY <1>2, <1>3, <1>4, ExecuteFaithful
<1>6. dma' = dma
  BY DEF WriteParameter
<1> QED
  BY <1>1, <1>5, <1>6, BecomesFaithful

(* The last byte read ends the command.                                     *)
LEMMA ReadResultFaithful ==
  ASSUME IInv, TInv, ReadResult PROVE TInv'
<1> DEFINE g == LowerInterrupt([fdc EXCEPT !.result = Tail(@), !.active = {}])
<1>1. /\ Becomes(IF g.result = <<>> THEN EnterIdle(g) ELSE g, xfer)
      /\ dma' = dma /\ "RQM" \in fdc.msr /\ fdc.result # <<>>
  BY DEF ReadResult
<1>2. Calm(fdc) /\ dma.left \in Nat
  BY <1>1, RestsCalm DEF TInv, Faithful, Machinery
<1>3. Calm(g) /\ g.pending = fdc.pending /\ g.msr = fdc.msr /\ g.st0 = fdc.st0
  BY <1>2 DEF Calm, Shape, Fields, LowerInterrupt
<1> HIDE DEF g
<1>4. CASE g.result = <<>>
  <2> DEFINE h == EnterIdle(g)
  <2>1. Calm(h) /\ h.pending = Idle /\ h.index = 0
    BY <1>3, EnterIdleCalm
  <2>2. Becomes(h, xfer)
    BY <1>1, <1>4
  <2> HIDE DEF h
  <2>3. Machinery(h, dma)
    BY <1>2, <2>1, CalmMachinery DEF Idle, Transfers
  <2> QED
    BY <1>1, <2>1, <2>2, <2>3, BecomesIdle DEF Calm, Idle, Positioned
<1>5. CASE g.result # <<>>
  <2>1. Machinery(g, dma)
    BY <1>2, <1>3, <1>5, CalmMachinery DEF TInv, Faithful, Machinery
  <2>2. Counted(g, dma, xfer) /\ Ordered(g, xfer)
    BY <1>1, <1>3, <1>5 DEF TInv, Faithful, Counted, Ordered, Ongoing
  <2>3. Faithful(g, dma, xfer)
    BY <1>3, <2>1, <2>2 DEF TInv, Faithful, Calm
  <2> QED
    BY <1>1, <1>5, <2>3, BecomesFaithful
<1> QED
  BY <1>4, <1>5

LEMMA ReadNoResultFaithful ==
  ASSUME IInv, TInv, ReadNoResult PROVE TInv'
<1> DEFINE g == [fdc EXCEPT !.msr = {}, !.active = {}, !.st0 = St("invalid", FALSE, 0)]
           h == EnterResult(g)
<1>1. Becomes(h, xfer) /\ dma' = dma /\ Listens
  BY DEF ReadNoResult
<1>2. Free(fdc) /\ dma.left \in Nat
  BY <1>1, ListensFree
<1>3. Calm(g) /\ g.pending = fdc.pending /\ g.st0.ic = "invalid"
  BY <1>2 DEF Free, Calm, Shape, Fields, St
<1> HIDE DEF g
<1>4. Calm(h) /\ h.result # <<>> /\ h.pending = fdc.pending /\ h.st0.ic = "invalid"
  BY <1>3, EnterResultCalm
<1> HIDE DEF h
<1>5. Machinery(h, dma)
  BY <1>2, <1>4, CalmMachinery DEF TInv, Faithful, Machinery
<1>6. Counted(h, dma, xfer) /\ Ordered(h, xfer)
  BY <1>4 DEF TInv, Faithful, Counted, Ordered, Ongoing
<1>7. Faithful(h, dma, xfer)
  BY <1>4, <1>5, <1>6 DEF TInv, Faithful, Calm
<1> QED
  BY <1>1, <1>7, BecomesFaithful

(* A reset is on its way: its timer runs, and the DMA channel is not waited *)
(* for, since software has run.                                             *)
LEMMA ResetPendingFaithful ==
  ASSUME TInv, ~TransferDue, dma' = dma, NEW g, NEW x, Becomes(g, x),
         Shape(g), g.msr = {}, g.pending = "reset", g.timer, g.normal,
         g.drive = fdc.drive, g.at = fdc.at, g.drq = fdc.drq
  PROVE  TInv'
<1>1. g.drq => dma.left = 0
  <2>1. dma.left \in Nat
    BY DEF TInv, Faithful, Machinery
  <2> QED
    BY <2>1 DEF TransferDue
<1>2. Machinery(g, dma)
  BY <1>1 DEF TInv, Faithful, Machinery, Timed, Transfers
<1> QED
  BY <1>2, BecomesIdle DEF Positioned

LEMMA ResetByDsrFaithful ==
  ASSUME TInv, ~TransferDue, ResetByDsr PROVE TInv'
<1> DEFINE g == [fdc EXCEPT !.msr = {}, !.active = {}, !.pending = "reset", !.timer = TRUE]
<1>1. Becomes(g, xfer) /\ dma' = dma
  BY DEF ResetByDsr
<1>2. /\ Shape(g) /\ g.msr = {} /\ g.pending = "reset" /\ g.timer /\ g.normal
      /\ g.drive = fdc.drive /\ g.at = fdc.at /\ g.drq = fdc.drq
  BY DEF TInv, Faithful, Machinery, Shape, Fields
<1> HIDE DEF g
<1> QED
  BY <1>1, <1>2, ResetPendingFaithful

LEMMA ToggleResetFaithful ==
  ASSUME TInv, ~TransferDue, ToggleReset PROVE TInv'
<1> DEFINE held == OutDor(fdc, fdc.drive, fdc.motors, FALSE)
           g    == OutDor(held, fdc.drive, fdc.motors, TRUE)
<1>1. Becomes(g, xfer) /\ dma' = dma /\ Shape(fdc) /\ fdc.normal
  BY DEF ToggleReset, TInv, Faithful, Machinery
<1>2. /\ Shape(held) /\ held.msr = {} /\ held.pending = "reset" /\ ~held.normal
      /\ held.drive = fdc.drive /\ held.at = fdc.at /\ held.drq = fdc.drq
  BY <1>1 DEF OutDor, Shape, Fields
<1> HIDE DEF held
<1>3. /\ Shape(g) /\ g.msr = {} /\ g.pending = "reset" /\ g.timer /\ g.normal
      /\ g.drive = fdc.drive /\ g.at = fdc.at /\ g.drq = fdc.drq
  BY <1>2 DEF OutDor, Shape, Fields
<1> HIDE DEF g
<1> QED
  BY <1>1, <1>3, ResetPendingFaithful

LEMMA MotorsOffFaithful ==
  ASSUME TInv, MotorsOff PROVE TInv'
<1> DEFINE g == OutDor(fdc, fdc.drive, {}, fdc.normal)
<1>1. Becomes(g, xfer) /\ dma' = dma /\ Shape(fdc) /\ fdc.normal
  BY DEF MotorsOff, TInv, Faithful, Machinery
<1>2. Same(fdc, g)
  BY <1>1 DEF OutDor, Same, Shape, Fields
<1> HIDE DEF g
<1> QED
  BY <1>1, <1>2, SameFaithful, BecomesFaithful DEF TInv

LEMMA SelectDriveFaithful ==
  ASSUME IInv, TInv, NEW d \in Drives, SelectDrive(d) PROVE TInv'
<1> DEFINE g == OutDor(fdc, d, {d}, TRUE)
<1>1. Becomes(g, xfer) /\ dma' = dma /\ Listens /\ fdc.pending = Idle
  BY DEF SelectDrive
<1>2. Free(fdc) /\ dma.left \in Nat
  BY <1>1, ListensFree
<1>3. Calm(g) /\ g.pending = Idle /\ g.index = 0
  BY <1>1, <1>2 DEF OutDor, Free, Calm, Shape, Fields
<1> HIDE DEF g
<1>4. Machinery(g, dma)
  BY <1>2, <1>3, CalmMachinery DEF Idle, Transfers
<1> QED
  BY <1>1, <1>3, <1>4, BecomesIdle DEF Calm, Idle, Positioned

LEMMA ProgramDmaFaithful ==
  ASSUME TInv, NEW dir, NEW n \in Nat, ProgramDma(dir, n) PROVE TInv'
<1>1. /\ fdc' = fdc /\ xfer' = xfer /\ dma'.left = n /\ fdc.pending = Idle
      /\ fdc.pending \notin Transfers
  BY DEF ProgramDma, Idle, Transfers
<1>2. Machinery(fdc, dma')
  BY <1>1 DEF TInv, Faithful, Machinery, Ongoing, Idle
<1>3. Faithful(fdc, dma', xfer)
  BY <1>1, <1>2, NothingMoved DEF TInv, Faithful, Counted
<1> QED
  BY <1>1, <1>3 DEF TInv
-----------------------------------------------------------------------------
(* The timer and the DMA channel.                                           *)

LEMMA TimerFaithful ==
  ASSUME IInv, TInv, Timer PROVE TInv'
<1> DEFINE f == [fdc EXCEPT !.timer = FALSE]
<1>1. Becomes(Expire(f), xfer) /\ dma' = dma /\ fdc.timer
  BY DEF Timer
<1>2. /\ Shape(f) /\ ~f.timer /\ f.normal = fdc.normal /\ f.drive = fdc.drive
      /\ f.msr = fdc.msr /\ f.pending = fdc.pending /\ f.result = fdc.result
      /\ f.st0 = fdc.st0 /\ f.at = fdc.at /\ f.eot = fdc.eot /\ f.multi = fdc.multi
      /\ f.tc = fdc.tc /\ f.index = fdc.index /\ f.buffer = fdc.buffer /\ f.drq = fdc.drq
  BY DEF TInv, Faithful, Shape, Fields
<1>3. /\ fdc.pending \in Timed /\ "RQM" \notin fdc.msr /\ dma.left \in Nat
      /\ fdc.pending # "reset" => Calm(f)
  BY <1>1, <1>2 DEF TInv, Faithful, Machinery, Calm
<1> HIDE DEF f
<1>4. CASE fdc.pending \in {"recal", "seek"}
  <2>1. PICK ic \in {"normal", "abnormal"} :
          Expire(f) = RaiseInterrupt(EnterIdle([f EXCEPT !.st0 = St(ic, TRUE, f.drive)]))
    BY <1>2, <1>4 DEF Expire
  <2> DEFINE g == [f EXCEPT !.st0 = St(ic, TRUE, f.drive)]
             h == EnterIdle(g)
             r == RaiseInterrupt(h)
  <2>2. Calm(g)
    BY <1>3, <1>4, <2>1 DEF Calm, Shape, Fields, St
  <2> HIDE DEF g
  <2>3. Calm(h) /\ h.pending = Idle /\ h.index = 0
    BY <2>2, EnterIdleCalm
  <2> HIDE DEF h
  <2>4. Calm(r) /\ r.pending = Idle /\ r.index = 0
    BY <2>3 DEF Calm, Shape, Fields, RaiseInterrupt
  <2>5. Expire(f) = r
    BY <2>1 DEF g, h
  <2> HIDE DEF r
  <2>6. Machinery(r, dma)
    BY <1>3, <2>4, CalmMachinery DEF Idle, Transfers
  <2> QED
    BY <1>1, <2>4, <2>5, <2>6, BecomesIdle DEF Calm, Idle, Positioned
<1>5. CASE fdc.pending = "readid"
  <2> DEFINE g == EnterResult(f)
  <2>1. Calm(g) /\ g.result # <<>> /\ g.pending = "readid"
    BY <1>2, <1>3, <1>5, EnterResultCalm
  <2>2. Expire(f) = g
    BY <1>2, <1>5 DEF Expire
  <2> HIDE DEF g
  <2>3. Machinery(g, dma) /\ g.pending \notin Transfers
    BY <1>3, <2>1, CalmMachinery DEF Transfers
  <2>4. Asks(xfer) /\ xfer.units \in Nat /\ xfer.sectors = <<>>
    BY <1>5 DEF TInv, Faithful, Counted, Transfers
  <2>5. Faithful(g, dma, xfer)
    BY <2>1, <2>3, <2>4, NothingMoved DEF Calm
  <2> QED
    BY <1>1, <2>2, <2>5, BecomesFaithful
<1>6. CASE fdc.pending = "write" /\ fdc.tc
  <2> DEFINE s == [f EXCEPT !.st0 = St("normal", FALSE, f.drive)]
             g == EnterResult(s)
  <2>1. Calm(s) /\ s.pending = "write" /\ s.st0.ic = "normal"
    BY <1>2, <1>3, <1>6 DEF Calm, Shape, Fields, St
  <2>2. Expire(f) = g
    BY <1>2, <1>6 DEF Expire
  <2> HIDE DEF s
  <2>3. Calm(g) /\ g.result # <<>> /\ g.pending = "write" /\ g.st0.ic = "normal"
    BY <2>1, EnterResultCalm
  <2> HIDE DEF g
  <2>4. Ongoing(fdc) /\ dma.dir = "write"
    <3>1. fdc.result = <<>>
      BY <1>3, <1>6 DEF IInv, Sound, Status
    <3> QED
      BY <1>3, <1>6, <3>1 DEF TInv, Faithful, Machinery, Ongoing, Transfers
  <2>5. /\ dma.left = 0 /\ Len(xfer.sectors) * BytesPerSec + dma.left >= xfer.units
        /\ xfer.units \in Nat /\ xfer.sectors \in Seq(Int)
    BY <1>1, <1>6, <2>4 DEF TInv, Faithful, Counted
  <2>6. Len(xfer.sectors) * BytesPerSec >= xfer.units
    BY <2>5, Sizes
  <2>7. Machinery(g, dma)
    BY <1>3, <2>3, <2>4, CalmMachinery
  <2>8. Counted(g, dma, xfer)
    BY <2>3, <2>5, <2>6 DEF Counted, Ongoing, Transfers
  <2>9. Ordered(g, xfer)
    BY <1>6, <2>3 DEF TInv, Faithful, Ordered, Ongoing
  <2>10. Faithful(g, dma, xfer)
    BY <2>3, <2>7, <2>8, <2>9 DEF TInv, Faithful, Calm
  <2> QED
    BY <1>1, <2>2, <2>10, BecomesFaithful
<1>7. CASE (fdc.pending = "write" /\ ~fdc.tc) \/ fdc.pending = "read"
  <2> DEFINE g == [f EXCEPT !.drq = TRUE]
  <2>1. Expire(f) = g
    BY <1>2, <1>7 DEF Expire
  <2>2. /\ Shape(g) /\ ~g.timer /\ g.drq /\ g.normal = fdc.normal /\ g.drive = fdc.drive
        /\ g.msr = fdc.msr /\ g.pending = fdc.pending /\ g.result = fdc.result
        /\ g.st0 = fdc.st0 /\ g.at = fdc.at /\ g.eot = fdc.eot /\ g.multi = fdc.multi
        /\ g.tc = fdc.tc /\ g.index = fdc.index /\ g.buffer = fdc.buffer
    BY <1>2 DEF Shape, Fields
  <2> HIDE DEF g
  <2>3. fdc.result = <<>>
    BY <1>3, <1>7 DEF IInv, Sound, Status
  <2>4. Machinery(g, dma)
    BY <1>3, <1>7, <2>2, <2>3 DEF TInv, Faithful, Machinery, Ongoing, Transfers
  <2>5. Counted(g, dma, xfer) /\ Ordered(g, xfer)
    BY <2>2 DEF TInv, Faithful, Counted, Ordered, Ongoing
  <2>6. Faithful(g, dma, xfer)
    BY <2>2, <2>4, <2>5 DEF TInv, Faithful
  <2> QED
    BY <1>1, <2>1, <2>6, BecomesFaithful
<1>8. CASE fdc.pending = "reset"
  <2> DEFINE r == Reset(f)
             s == [r EXCEPT !.st0 = St("ready", FALSE, 0)]
             i == RaiseInterrupt(s)
             g == [i EXCEPT !.sensei = 4]
  <2>1. Expire(f) = g
    BY <1>2, <1>8 DEF Expire, AfterReset
  <2>2. Calm(r) /\ r.pending = Idle /\ r.index = 0
    <3> DEFINE at == [d \in Drives |-> [cyl |-> 0, head |-> 0, sec |-> 0]]
               z  == [f EXCEPT !.irq = FALSE, !.sensei = 0, !.msr = {}, !.active = {},
                               !.st0 = St("normal", FALSE, 0), !.at = at, !.eot = 0, !.drq = FALSE]
    <3>1. DOMAIN at = Drives
      OBVIOUS
    <3>2. r = EnterIdle(z)
      BY DEF Reset
    <3> HIDE DEF at
    <3>3. /\ Shape(z) /\ z.normal /\ z.drive \in Drives /\ DOMAIN z.at = Drives
          /\ ~z.timer /\ ~z.drq
      BY <1>2, <3>1 DEF TInv, Faithful, Machinery, Shape, Fields, St
    <3> HIDE DEF z, r
    <3>4. LET e == EnterIdle(z) IN Calm(e) /\ e.pending = Idle /\ e.index = 0
      BY <3>3 DEF Calm, Shape, Fields, EnterIdle, Idle
    <3> QED
      BY <3>2, <3>4
  <2> HIDE DEF r
  <2>3. Calm(s) /\ s.pending = Idle /\ s.index = 0
    BY <2>2 DEF Calm, Shape, Fields, St
  <2> HIDE DEF s
  <2>4. Calm(i) /\ i.pending = Idle /\ i.index = 0
    BY <2>3 DEF Calm, Shape, Fields, RaiseInterrupt
  <2> HIDE DEF i
  <2>5. Calm(g) /\ g.pending = Idle /\ g.index = 0
    BY <2>4 DEF Calm, Shape, Fields
  <2> HIDE DEF g
  <2>6. Machinery(g, dma)
    BY <1>3, <2>5, CalmMachinery DEF Idle, Transfers
  <2> QED
    BY <1>1, <2>1, <2>5, <2>6, BecomesIdle DEF Calm, Idle, Positioned
<1> QED
  BY <1>3, <1>4, <1>5, <1>6, <1>7, <1>8 DEF Timed

(* One sector on: from the place of the i-th to that of the next.           *)
LEMMA IncrementSectorPlace ==
  ASSUME NEW f, Shape(f), f.drive \in DOMAIN f.at, NEW x, Asks(x), NEW i \in Nat \ {0},
         f.multi = x.multi, f.eot = LastSector(x), f.at[f.drive] = Place(x, i)
  PROVE  LET g == IncrementSector(f) IN
         /\ Shape(g) /\ DOMAIN g.at = DOMAIN f.at /\ g.at[f.drive] = Place(x, i + 1)
         /\ g.drive = f.drive /\ g.normal = f.normal /\ g.msr = f.msr /\ g.pending = f.pending
         /\ g.result = f.result /\ g.st0 = f.st0 /\ g.eot = f.eot
         /\ g.multi = f.multi /\ g.tc = f.tc /\ g.index = f.index /\ g.buffer = f.buffer
         /\ g.timer = f.timer /\ g.drq = f.drq
<1> DEFINE at   == f.at[f.drive]
           wrap == EndOfTrack(f, at.sec + 1)
           step == wrap /\ (f.multi => at.head = 1)
           new  == [cyl  |-> IF step THEN NextCylinder(at.cyl) ELSE at.cyl,
                    head |-> IF wrap /\ f.multi THEN 1 - at.head ELSE at.head,
                    sec  |-> IF wrap THEN 1 ELSE at.sec + 1]
           g    == [f EXCEPT !.at[f.drive] = new]
           h    == IncrementSector(f)
           last == LastSector(x)
           c    == CylOf(x, i)
           s    == SecOf(x, i)
<1>1. h = IF step THEN ResetChangeline(g) ELSE g
  BY DEF IncrementSector
<1>2. /\ last \in Nat \ {0} /\ last \in 1..SecPerTrk /\ c \in Nat /\ s \in 1..last
      /\ HeadOf(x, i) \in {0, 1} /\ x.multi \in BOOLEAN
  BY LastSectorIs, PlaceTypes DEF Asks
<1>3. /\ at.cyl = Stop(c) /\ at.head = HeadOf(x, i)
      /\ at.sec \in Nat /\ (at.sec + 1 > last <=> s = last) /\ (s # last => at.sec = s)
  <2>1. CASE i = 1
    <3>1. at = x.at /\ 1 \in Nat \ {0}
      BY <2>1 DEF Place
    <3>2. /\ c = x.at.cyl /\ HeadOf(x, i) = x.at.head
          /\ s = IF x.at.sec > last THEN last ELSE x.at.sec
      BY <2>1, FirstPlace
    <3>3. x.at.cyl \in 0..(Tracks - 1) /\ x.at.sec \in Nat
      BY Sizes DEF Asks
    <3>4. Stop(x.at.cyl) = x.at.cyl
      BY <3>3, Sizes DEF Stop
    <3> QED
      BY <1>2, <3>1, <3>2, <3>3, <3>4
  <2>2. CASE i # 1
    <3>1. at = [cyl |-> Stop(c), head |-> HeadOf(x, i), sec |-> s]
      BY <2>2 DEF Place
    <3> HIDE DEF c, s, last, at
    <3> QED
      BY <1>2, <3>1
  <2> QED
    BY <2>1, <2>2
<1>4. wrap <=> s = last
  <2>1. wrap <=> at.sec + 1 > last \/ at.sec + 1 > SecPerTrk
    BY DEF EndOfTrack
  <2> HIDE DEF wrap, at, s, last
  <2> QED
    BY <1>2, <1>3, <2>1, Sizes
<1>5. /\ CylOf(x, i + 1)  = IF step THEN c + 1 ELSE c
      /\ HeadOf(x, i + 1) = IF wrap /\ x.multi THEN 1 - HeadOf(x, i) ELSE HeadOf(x, i)
      /\ SecOf(x, i + 1)  = IF wrap THEN 1 ELSE s + 1
  <2>1. step <=> s = last /\ (x.multi => HeadOf(x, i) = 1)
    BY <1>3, <1>4
  <2> HIDE DEF step, wrap
  <2> QED
    BY <1>4, <2>1, NextPlace
<1>6. Stop(c + 1) = NextCylinder(Stop(c))
  BY <1>2, Sizes DEF Stop, NextCylinder
<1>7. Place(x, i + 1) =
        [cyl |-> Stop(CylOf(x, i + 1)), head |-> HeadOf(x, i + 1), sec |-> SecOf(x, i + 1)]
  BY DEF Place
<1>8. new = Place(x, i + 1)
  <2>1. Stop(CylOf(x, i + 1)) = IF step THEN NextCylinder(at.cyl) ELSE at.cyl
    BY <1>3, <1>5, <1>6
  <2>2. HeadOf(x, i + 1) = IF wrap /\ f.multi THEN 1 - at.head ELSE at.head
    BY <1>3, <1>5
  <2>3. SecOf(x, i + 1) = IF wrap THEN 1 ELSE at.sec + 1
    BY <1>3, <1>4, <1>5
  <2> QED
    BY <1>7, <2>1, <2>2, <2>3
<1> HIDE DEF new, step, wrap
<1>9. /\ Shape(g) /\ DOMAIN g.at = DOMAIN f.at /\ g.at[f.drive] = new
      /\ g.drive = f.drive /\ g.normal = f.normal /\ g.msr = f.msr /\ g.pending = f.pending
      /\ g.result = f.result /\ g.st0 = f.st0 /\ g.eot = f.eot
      /\ g.multi = f.multi /\ g.tc = f.tc /\ g.index = f.index /\ g.buffer = f.buffer
      /\ g.timer = f.timer /\ g.drq = f.drq
  BY DEF Shape, Fields
<1> HIDE DEF g, at, h
<1>10. Same(g, h)
  <2>1. Same(g, g)
    BY <1>9 DEF Same
  <2> QED
    BY <1>1, <1>9, <2>1, ResetChangelineSame
<1>11. /\ Shape(h) /\ DOMAIN h.at = DOMAIN f.at /\ h.at[f.drive] = Place(x, i + 1)
       /\ h.drive = f.drive /\ h.normal = f.normal /\ h.msr = f.msr /\ h.pending = f.pending
       /\ h.result = f.result /\ h.st0 = f.st0 /\ h.eot = f.eot
       /\ h.multi = f.multi /\ h.tc = f.tc /\ h.index = f.index /\ h.buffer = f.buffer
       /\ h.timer = f.timer /\ h.drq = f.drq
  BY <1>8, <1>9, <1>10 DEF Same
<1> QED
  BY <1>11 DEF h

(* A transfer of one sector, or of the rest of one, from index zero.        *)
LEMMA MovedIs ==
  ASSUME NEW f, Shape(f), f.index = 0, dma.left \in Nat, dma.left > 0
  PROVE  LET g == Moved(f) IN
         /\ g = [f EXCEPT !.index = MaxLen, !.tc = dma.left <= BytesPerSec]
         /\ MaxLen \in Nat /\ MaxLen <= BytesPerSec /\ MaxLen <= dma.left
         /\ dma.left <= BytesPerSec => MaxLen = dma.left
         /\ ~(dma.left <= BytesPerSec) => MaxLen = BytesPerSec
<1>1. /\ MaxLen \in Nat /\ MaxLen <= BytesPerSec /\ MaxLen <= dma.left
      /\ dma.left <= BytesPerSec => MaxLen = dma.left
      /\ ~(dma.left <= BytesPerSec) => MaxLen = BytesPerSec
  BY Sizes DEF MaxLen
<1> DEFINE len == IF BytesPerSec - f.index < MaxLen THEN BytesPerSec - f.index ELSE MaxLen
<1>2. len = MaxLen
  BY <1>1, Sizes
<1>3. Moved(f) = [f EXCEPT !.index = f.index + len, !.tc = dma.left <= BytesPerSec /\ len = MaxLen]
  BY DEF Moved
<1> HIDE DEF len
<1>4. f.index + len = MaxLen
  BY <1>1, <1>2
<1>5. (dma.left <= BytesPerSec /\ len = MaxLen) = (dma.left <= BytesPerSec)
  BY <1>2
<1> QED
  BY <1>1, <1>3, <1>4, <1>5

(* One sector more in the history.                                          *)
LEMMA DoneIs ==
  ASSUME TInv, NEW sector \in Int
  PROVE  LET x == Done(sector)
             n == Len(xfer.sectors)
         IN
         /\ Asks(x) /\ x.units = xfer.units /\ x.units \in Nat
         /\ x.sectors \in Seq(Int) /\ Len(x.sectors) = n + 1 /\ n \in Nat
         /\ \A i \in DOMAIN x.sectors :
              i \in Nat \ {0} /\ x.sectors[i] = (IF i = n + 1 THEN sector ELSE xfer.sectors[i])
                /\ (i # n + 1 => i \in DOMAIN xfer.sectors)
         /\ \A i : Nth(x, i) = Nth(xfer, i) /\ Place(x, i) = Place(xfer, i)
         /\ LastSector(x) = LastSector(xfer) /\ x.multi = xfer.multi
<1> DEFINE x == Done(sector)
<1>1. Asks(xfer) /\ xfer.units \in Nat /\ xfer.sectors \in Seq(Int)
  BY DEF TInv, Faithful, Counted
<1>2. /\ DOMAIN x = DOMAIN xfer /\ x.sectors = Append(xfer.sectors, sector)
      /\ x.at = xfer.at /\ x.eot = xfer.eot /\ x.multi = xfer.multi /\ x.units = xfer.units
  BY <1>1 DEF Done, Asks
<1> HIDE DEF x
<1>3. Asks(x)
  BY <1>1, <1>2 DEF Asks
<1>4. \A i : Nth(x, i) = Nth(xfer, i) /\ Place(x, i) = Place(xfer, i)
  BY <1>2 DEF Nth, Place, CylOf, HeadOf, SecOf, TrackOf, Linear, LastSector
<1>5. LastSector(x) = LastSector(xfer)
  BY <1>2 DEF LastSector
<1>6. /\ x.sectors \in Seq(Int) /\ Len(x.sectors) = Len(xfer.sectors) + 1
      /\ Len(xfer.sectors) \in Nat
      /\ \A i \in DOMAIN x.sectors :
           i \in Nat \ {0}
             /\ x.sectors[i] = (IF i = Len(xfer.sectors) + 1 THEN sector ELSE xfer.sectors[i])
             /\ (i # Len(xfer.sectors) + 1 => i \in DOMAIN xfer.sectors)
  BY <1>1, <1>2
<1>7. /\ Asks(x) /\ x.units = xfer.units /\ x.units \in Nat
      /\ x.sectors \in Seq(Int) /\ Len(x.sectors) = Len(xfer.sectors) + 1
      /\ Len(xfer.sectors) \in Nat
      /\ \A i \in DOMAIN x.sectors :
           i \in Nat \ {0}
             /\ x.sectors[i] = (IF i = Len(xfer.sectors) + 1 THEN sector ELSE xfer.sectors[i])
             /\ (i # Len(xfer.sectors) + 1 => i \in DOMAIN xfer.sectors)
      /\ \A i : Nth(x, i) = Nth(xfer, i) /\ Place(x, i) = Place(xfer, i)
      /\ LastSector(x) = LastSector(xfer) /\ x.multi = xfer.multi
  BY <1>1, <1>2, <1>3, <1>4, <1>5, <1>6
<1> QED
  BY <1>7 DEF x

(* The DMA channel is a record of a direction and a count.                  *)
Channel == DOMAIN dma = {"dir", "left"}

(* A unit can be due only in a transfer that runs, from its index zero.     *)
LEMMA DueIsOngoing ==
  ASSUME TInv, TransferDue
  PROVE  /\ Ongoing(fdc) /\ ~fdc.timer /\ fdc.index = 0 /\ dma.dir = fdc.pending
         /\ dma.left \in Nat /\ dma.left > 0 /\ Shape(fdc)
         /\ fdc.normal /\ fdc.drive \in Drives /\ DOMAIN fdc.at = Drives
<1>1. dma.left \in Nat /\ dma.left > 0 /\ fdc.drq /\ Machinery(fdc, dma) /\ Shape(fdc)
  BY DEF TInv, Faithful, Machinery, TransferDue
<1>2. fdc.pending # "reset"
  BY <1>1 DEF Machinery
<1> QED
  BY <1>1, <1>2 DEF Machinery, Ongoing

(* The history of a transfer with the sector the heads are at.              *)
LEMMA NextIsOrdered ==
  ASSUME TInv, Ongoing(fdc), NEW sector \in Int,
         LET nth == Nth(xfer, Len(xfer.sectors) + 1)
         IN  sector = nth \/ (fdc.pending = "write" /\ nth = -1)
  PROVE  LET x == Done(sector) IN
         \A i \in DOMAIN x.sectors :
           x.sectors[i] = Nth(x, i) \/ (fdc.pending = "write" /\ Nth(x, i) = -1)
<1> DEFINE x == Done(sector)
           n == Len(xfer.sectors)
<1>1. /\ \A i \in DOMAIN x.sectors :
           i \in Nat \ {0} /\ x.sectors[i] = (IF i = n + 1 THEN sector ELSE xfer.sectors[i])
             /\ (i # n + 1 => i \in DOMAIN xfer.sectors)
      /\ \A i : Nth(x, i) = Nth(xfer, i)
  BY DoneIs
<1>2. \A i \in DOMAIN xfer.sectors :
        xfer.sectors[i] = Nth(xfer, i) \/ (fdc.pending = "write" /\ Nth(xfer, i) = -1)
  BY DEF TInv, Faithful, Ordered
<1> HIDE DEF x, n
<1>3. ASSUME NEW i \in DOMAIN x.sectors
      PROVE  x.sectors[i] = Nth(x, i) \/ (fdc.pending = "write" /\ Nth(x, i) = -1)
  <2>1. CASE i = n + 1
    <3>1. x.sectors[i] = sector /\ Nth(x, i) = Nth(xfer, n + 1)
      BY <1>1, <2>1
    <3> QED
      BY <3>1 DEF n
  <2>2. CASE i # n + 1
    <3>1. i \in DOMAIN xfer.sectors /\ x.sectors[i] = xfer.sectors[i] /\ Nth(x, i) = Nth(xfer, i)
      BY <1>1, <2>2
    <3> QED
      BY <1>2, <3>1
  <2> QED
    BY <2>1, <2>2
<1> QED
  BY <1>3 DEF x

(* The heads go on to the next sector, the index back to zero.              *)
LEMMA AdvancePlace ==
  ASSUME TInv, TransferDue, NEW sector \in Int, NEW f,
         Shape(f), f.at = fdc.at, f.drive = fdc.drive, f.normal = fdc.normal,
         f.msr = fdc.msr, f.pending = fdc.pending, f.result = fdc.result,
         f.eot = fdc.eot, f.multi = fdc.multi, f.timer = fdc.timer, f.drq = fdc.drq
  PROVE  LET g == Advance(f)
             x == Done(sector)
         IN
         /\ Shape(g) /\ DOMAIN g.at = Drives /\ g.at[g.drive] = Place(x, Len(x.sectors) + 1)
         /\ g.drive = fdc.drive /\ g.normal = fdc.normal /\ g.msr = fdc.msr
         /\ g.pending = fdc.pending /\ g.result = fdc.result /\ g.eot = LastSector(x)
         /\ g.multi = x.multi /\ g.tc = f.tc /\ g.index = 0
         /\ g.timer = fdc.timer /\ g.drq = fdc.drq
<1> DEFINE h == IncrementSector(f)
           g == Advance(f)
           x == Done(sector)
           n == Len(xfer.sectors)
<1>1. /\ Ongoing(fdc) /\ Shape(fdc) /\ fdc.drive \in Drives /\ DOMAIN fdc.at = Drives
  BY DueIsOngoing
<1>2. /\ Asks(x) /\ Len(x.sectors) = n + 1 /\ n \in Nat /\ Place(x, n + 1) = Place(xfer, n + 1)
      /\ LastSector(x) = LastSector(xfer) /\ x.multi = xfer.multi
  BY DoneIs
<1>3. /\ fdc.multi = xfer.multi /\ fdc.eot = LastSector(xfer)
      /\ fdc.at[fdc.drive] = Place(xfer, n + 1)
  BY <1>1 DEF TInv, Faithful, Ordered
<1> HIDE DEF x, n
<1>4. /\ f.drive \in DOMAIN f.at /\ n + 1 \in Nat \ {0}
      /\ f.multi = x.multi /\ f.eot = LastSector(x) /\ f.at[f.drive] = Place(x, n + 1)
  BY <1>1, <1>2, <1>3
<1>5. /\ Shape(h) /\ DOMAIN h.at = DOMAIN f.at /\ h.at[f.drive] = Place(x, n + 1 + 1)
      /\ h.drive = f.drive /\ h.normal = f.normal /\ h.msr = f.msr /\ h.pending = f.pending
      /\ h.result = f.result /\ h.eot = f.eot
      /\ h.multi = f.multi /\ h.tc = f.tc /\ h.timer = f.timer /\ h.drq = f.drq
  BY <1>2, <1>4, IncrementSectorPlace
<1>6. g = [h EXCEPT !.index = 0]
  BY DEF Advance
<1> HIDE DEF h, g
<1>7. /\ Shape(g) /\ g.at = h.at /\ g.drive = h.drive /\ g.normal = h.normal /\ g.msr = h.msr
      /\ g.pending = h.pending /\ g.result = h.result /\ g.eot = h.eot /\ g.multi = h.multi
      /\ g.tc = h.tc /\ g.index = 0 /\ g.timer = h.timer /\ g.drq = h.drq
  BY <1>5, <1>6 DEF Shape, Fields
<1>8. /\ Shape(g) /\ DOMAIN g.at = Drives /\ g.at[g.drive] = Place(x, Len(x.sectors) + 1)
      /\ g.drive = fdc.drive /\ g.normal = fdc.normal /\ g.msr = fdc.msr
      /\ g.pending = fdc.pending /\ g.result = fdc.result /\ g.eot = LastSector(x)
      /\ g.multi = x.multi /\ g.tc = f.tc /\ g.index = 0
      /\ g.timer = fdc.timer /\ g.drq = fdc.drq
  BY <1>1, <1>2, <1>4, <1>5, <1>7
<1> QED
  BY <1>8 DEF g, x

(* What is counted after a sector: nothing is lost of what was asked for.   *)
LEMMA CountGoesOn ==
  ASSUME TInv, TransferDue, NEW sector \in Int, NEW len \in Nat, len <= BytesPerSec,
         len <= dma.left
  PROVE  Len(Done(sector).sectors) * BytesPerSec + (dma.left - len) >= xfer.units
<1> DEFINE n == Len(xfer.sectors)
           b == BytesPerSec
<1>1. Len(Done(sector).sectors) = n + 1 /\ n \in Nat
  BY DoneIs
<1>2. n * b + dma.left >= xfer.units /\ xfer.units \in Nat /\ dma.left \in Nat
  BY DueIsOngoing DEF TInv, Faithful, Counted
<1>3. b \in Nat
  BY Sizes
<1> HIDE DEF n, b
<1>4. (n + 1) * b = n * b + b /\ n * b \in Nat
  BY <1>1, <1>3
<1> QED
  BY <1>1, <1>2, <1>3, <1>4 DEF b

(* The next sector is awaited.                                              *)
LEMMA AwaitFaithful ==
  ASSUME TInv, TransferDue, NEW sector \in Int, NEW g, NEW d, NEW len \in Nat,
         len <= BytesPerSec, len <= dma.left, d.left = dma.left - len, d.dir = dma.dir,
         LET nth == Nth(xfer, Len(xfer.sectors) + 1)
         IN  sector = nth \/ (fdc.pending = "write" /\ nth = -1),
         Shape(g), DOMAIN g.at = Drives, g.drive = fdc.drive, g.normal = fdc.normal,
         g.msr = fdc.msr, g.pending = fdc.pending, g.result = fdc.result, g.index = 0,
         g.timer, ~g.drq,
         g.at[g.drive] = Place(Done(sector), Len(Done(sector).sectors) + 1),
         g.eot = LastSector(Done(sector)), g.multi = Done(sector).multi,
         g.pending = "read" => g.buffer = Nth(Done(sector), Len(Done(sector).sectors) + 1),
         g.pending = "write" /\ g.tc => d.left = 0
  PROVE  Faithful(g, d, Done(sector))
<1> DEFINE x == Done(sector)
<1>1. /\ Ongoing(fdc) /\ dma.dir = fdc.pending /\ dma.left \in Nat
      /\ fdc.normal /\ fdc.drive \in Drives
  BY DueIsOngoing
<1>2. /\ Asks(x) /\ x.units = xfer.units /\ x.units \in Nat /\ x.sectors \in Seq(Int)
  BY DoneIs
<1>3. Len(x.sectors) * BytesPerSec + d.left >= x.units
  BY <1>2, CountGoesOn
<1>4. Machinery(g, d)
  BY <1>1 DEF Machinery, Timed, Ongoing, Transfers
<1>5. Counted(g, d, x)
  BY <1>1, <1>2, <1>3 DEF Counted, Ongoing
<1>6. Ordered(g, x)
  BY <1>1, NextIsOrdered DEF Ordered, Ongoing
<1>7. Faithful(g, d, x)
  BY <1>2, <1>4, <1>5, <1>6 DEF Faithful
<1> QED
  BY <1>7

(* From the controller to memory: a sector is delivered, and with the       *)
(* terminal count the transfer ends.                                        *)
LEMMA DmaWriteFaithful ==
  ASSUME TInv, Channel, DmaWrite PROVE TInv'
<1> DEFINE f == Moved(fdc)
           g == IF f.index >= BytesPerSec THEN Advance(f) ELSE f
           h == [g EXCEPT !.drq = FALSE]
           end == EnterResult([h EXCEPT !.st0 = St("normal", FALSE, f.drive)])
           await == AwaitSector(Fetch(g, g.at[g.drive]))
           next == CASE f.tc -> end
                     [] ~f.tc /\ f.index >= BytesPerSec -> await
                     [] OTHER -> f
           x == Done(fdc.buffer)
           n == Len(xfer.sectors)
           tc == dma.left <= BytesPerSec
<1>1. /\ Becomes(next, x) /\ TransferDue /\ dma.dir = "read"
      /\ dma' = [dma EXCEPT !.left = @ - (f.index - fdc.index)]
  BY DEF DmaWrite
<1>2. /\ Ongoing(fdc) /\ ~fdc.timer /\ fdc.index = 0 /\ fdc.pending = "read"
      /\ dma.left \in Nat /\ dma.left > 0 /\ Shape(fdc)
      /\ fdc.normal /\ fdc.drive \in Drives /\ DOMAIN fdc.at = Drives
  BY <1>1, DueIsOngoing
<1>3. /\ f = [fdc EXCEPT !.index = MaxLen, !.tc = tc]
      /\ MaxLen \in Nat /\ MaxLen <= BytesPerSec /\ MaxLen <= dma.left
      /\ tc => MaxLen = dma.left
      /\ ~tc => MaxLen = BytesPerSec
  BY <1>2, MovedIs
<1>4. /\ Shape(f) /\ f.index = MaxLen /\ f.tc = tc /\ f.drive = fdc.drive /\ f.at = fdc.at
      /\ f.normal = fdc.normal /\ f.timer = fdc.timer /\ f.pending = fdc.pending
      /\ f.msr = fdc.msr /\ f.result = fdc.result /\ f.eot = fdc.eot
      /\ f.multi = fdc.multi /\ f.drq = fdc.drq
  BY <1>2, <1>3 DEF Shape, Fields
<1>5. fdc.buffer = Nth(xfer, n + 1) /\ n \in Nat /\ fdc.buffer \in Int
  <2>1. fdc.buffer = Nth(xfer, n + 1) /\ n \in Nat /\ Asks(xfer)
    BY <1>2 DEF TInv, Faithful, Ordered, Counted
  <2> QED
    BY <2>1, HereIsNth
<1>6. dma'.left = dma.left - MaxLen /\ dma'.dir = "read"
  BY <1>1, <1>2, <1>3, <1>4 DEF Channel
<1>7. /\ Asks(x) /\ x.units = xfer.units /\ x.units \in Nat /\ x.sectors \in Seq(Int)
      /\ Len(x.sectors) = n + 1
  BY <1>5, DoneIs
<1>8. /\ Shape(Advance(f)) /\ DOMAIN Advance(f).at = Drives
      /\ Advance(f).at[Advance(f).drive] = Place(x, Len(x.sectors) + 1)
      /\ Advance(f).drive = fdc.drive /\ Advance(f).normal = fdc.normal
      /\ Advance(f).msr = fdc.msr /\ Advance(f).pending = fdc.pending
      /\ Advance(f).result = fdc.result /\ Advance(f).eot = LastSector(x)
      /\ Advance(f).multi = x.multi /\ Advance(f).tc = f.tc /\ Advance(f).index = 0
      /\ Advance(f).timer = fdc.timer /\ Advance(f).drq = fdc.drq
  BY <1>1, <1>4, <1>5, AdvancePlace
<1> HIDE DEF x, n
<1>9. CASE tc
  <2>1. f.tc /\ next = end
    BY <1>4, <1>9
  <2>2. /\ Shape(g) /\ g.normal = fdc.normal /\ g.drive = fdc.drive /\ DOMAIN g.at = Drives
        /\ g.timer = fdc.timer /\ g.pending = fdc.pending
    BY <1>2, <1>4, <1>8
  <2> DEFINE e == [h EXCEPT !.st0 = St("normal", FALSE, f.drive)]
  <2> HIDE DEF g
  <2>3. Calm(e) /\ e.pending = "read" /\ e.st0.ic = "normal"
    BY <1>2, <2>2 DEF Calm, Shape, Fields, St
  <2>4. end = EnterResult(e)
    OBVIOUS
  <2> HIDE DEF e, end
  <2>5. Calm(end) /\ end.result # <<>> /\ end.pending = "read" /\ end.st0.ic = "normal"
    BY <2>3, <2>4, EnterResultCalm
  <2>6. dma'.left = 0
    BY <1>2, <1>3, <1>6, <1>9
  <2>7. Machinery(end, dma')
    BY <1>6, <2>5, <2>6, CalmMachinery
  <2>8. Len(x.sectors) * BytesPerSec >= x.units
    <3>1. Len(x.sectors) * BytesPerSec + (dma.left - MaxLen) >= xfer.units
      BY <1>1, <1>3, <1>5, CountGoesOn DEF x
    <3>2. dma.left - MaxLen = 0 /\ Len(x.sectors) * BytesPerSec \in Nat
      BY <1>2, <1>3, <1>7, <1>9, Sizes
    <3> QED
      BY <1>7, <3>1, <3>2
  <2>9. Counted(end, dma', x)
    BY <1>7, <2>5, <2>8 DEF Counted, Ongoing, Transfers
  <2>10. Ordered(end, x)
    BY <1>2, <1>5, <2>5, NextIsOrdered DEF Ordered, Ongoing, x, n
  <2>11. Faithful(end, dma', x)
    BY <1>7, <2>5, <2>7, <2>9, <2>10 DEF Faithful, Calm
  <2> QED
    BY <1>1, <2>1, <2>11, BecomesFaithful
<1>10. CASE ~tc
  <2>1. ~f.tc /\ f.index >= BytesPerSec /\ BytesPerSec \in Nat
    BY <1>3, <1>4, <1>10, Sizes
  <2>2. next = await /\ g = Advance(f)
    BY <2>1
  <2> HIDE DEF g, f
  <2>3. Logical(g.at[g.drive]) = Logical(Place(x, Len(x.sectors) + 1))
    BY <1>8, <2>2
  <2> DEFINE m == Len(x.sectors) + 1
  <2>4. Nth(x, m) = IF Logical(g.at[g.drive]) < Image THEN Logical(g.at[g.drive]) ELSE -1
    <3>1. m \in Nat \ {0} /\ m > 1
      BY <1>5, <1>7
    <3> QED
      BY <1>7, <2>3, <3>1, HereIsNth
  <2> HIDE DEF m
  <2>5. Fetch(g, g.at[g.drive]) = [g EXCEPT !.buffer = Nth(x, m)]
    BY <2>4 DEF Fetch, Image
  <2>6. /\ Shape(await) /\ DOMAIN await.at = Drives /\ await.at[await.drive] = Place(x, m)
        /\ await.drive = fdc.drive /\ await.normal = fdc.normal /\ await.msr = fdc.msr
        /\ await.pending = fdc.pending /\ await.result = fdc.result
        /\ await.eot = LastSector(x) /\ await.multi = x.multi /\ await.index = 0
        /\ await.timer /\ ~await.drq /\ await.buffer = Nth(x, m)
    BY <1>8, <2>2, <2>5 DEF AwaitSector, Shape, Fields, m
  <2> HIDE DEF await
  <2>7. Faithful(await, dma', x)
    BY <1>1, <1>2, <1>3, <1>5, <1>6, <2>6, AwaitFaithful DEF x, n, m
  <2> QED
    BY <1>1, <2>2, <2>7, BecomesFaithful
<1> QED
  BY <1>9, <1>10

(* From memory to the controller: a sector is written, or the diskette is   *)
(* protected.                                                               *)
LEMMA DmaReadFaithful ==
  ASSUME TInv, Channel, DmaRead PROVE TInv'
<1> DEFINE f == Moved(fdc)
           here == Logical(f.at[f.drive])
           full == f.index >= BytesPerSec \/ f.tc
           h == [f EXCEPT !.drq = FALSE, !.st0 = St("abnormal", FALSE, f.drive)]
           end == EnterResult(h)
           await == AwaitSector(Advance(f))
           x == Done(here)
           n == Len(xfer.sectors)
           tc == dma.left <= BytesPerSec
<1>1. TransferDue /\ dma.dir = "write"
  BY DEF DmaRead
<1>2. /\ Ongoing(fdc) /\ ~fdc.timer /\ fdc.index = 0 /\ fdc.pending = "write"
      /\ dma.left \in Nat /\ dma.left > 0 /\ Shape(fdc)
      /\ fdc.normal /\ fdc.drive \in Drives /\ DOMAIN fdc.at = Drives
  BY <1>1, DueIsOngoing
<1>3. /\ f = [fdc EXCEPT !.index = MaxLen, !.tc = tc]
      /\ MaxLen \in Nat /\ MaxLen <= BytesPerSec /\ MaxLen <= dma.left
      /\ tc => MaxLen = dma.left
      /\ ~tc => MaxLen = BytesPerSec
  BY <1>2, MovedIs
<1>4. /\ Shape(f) /\ f.index = MaxLen /\ f.tc = tc /\ f.drive = fdc.drive /\ f.at = fdc.at
      /\ f.normal = fdc.normal /\ f.timer = fdc.timer /\ f.pending = fdc.pending
      /\ f.msr = fdc.msr /\ f.result = fdc.result /\ f.eot = fdc.eot
      /\ f.multi = fdc.multi /\ f.drq = fdc.drq
  BY <1>2, <1>3 DEF Shape, Fields
<1>5. full
  BY <1>3, <1>4, Sizes
<1>6. \/ Becomes(end, xfer) /\ dma' = [dma EXCEPT !.left = @ - 1]
      \/ Becomes(await, x) /\ dma' = [dma EXCEPT !.left = @ - (f.index - fdc.index)]
  BY <1>5 DEF DmaRead
<1>7. /\ Asks(xfer) /\ n \in Nat /\ here = Logical(Place(xfer, n + 1))
  BY <1>2, <1>4 DEF TInv, Faithful, Ordered, Counted
<1>8. here \in Int /\ (here = Nth(xfer, n + 1) \/ Nth(xfer, n + 1) = -1)
  BY <1>7, HereIsNth
<1> HIDE DEF here
<1>9. CASE Becomes(end, xfer) /\ dma' = [dma EXCEPT !.left = @ - 1]
  <2>1. Calm(h) /\ h.pending = "write" /\ h.st0.ic = "abnormal"
    BY <1>2, <1>4 DEF Calm, Shape, Fields, St
  <2> HIDE DEF h
  <2>2. Calm(end) /\ end.result # <<>> /\ end.pending = "write" /\ end.st0.ic = "abnormal"
    BY <2>1, EnterResultCalm
  <2> HIDE DEF end
  <2>3. dma'.left \in Nat /\ dma'.dir = "write"
    BY <1>1, <1>2, <1>9 DEF Channel
  <2>4. Machinery(end, dma')
    BY <2>2, <2>3, CalmMachinery
  <2>5. Counted(end, dma', xfer) /\ Ordered(end, xfer)
    BY <1>2, <2>2 DEF TInv, Faithful, Counted, Ordered, Ongoing
  <2>6. Faithful(end, dma', xfer)
    BY <1>7, <2>2, <2>4, <2>5 DEF Faithful, Calm
  <2> QED
    BY <1>9, <2>6, BecomesFaithful
<1>10. CASE Becomes(await, x) /\ dma' = [dma EXCEPT !.left = @ - (f.index - fdc.index)]
  <2>1. dma'.left = dma.left - MaxLen /\ dma'.dir = dma.dir
    BY <1>2, <1>3, <1>4, <1>10 DEF Channel
  <2>2. /\ Shape(Advance(f)) /\ DOMAIN Advance(f).at = Drives
        /\ Advance(f).at[Advance(f).drive] = Place(x, Len(x.sectors) + 1)
        /\ Advance(f).drive = fdc.drive /\ Advance(f).normal = fdc.normal
        /\ Advance(f).msr = fdc.msr /\ Advance(f).pending = fdc.pending
        /\ Advance(f).result = fdc.result /\ Advance(f).eot = LastSector(x)
        /\ Advance(f).multi = x.multi /\ Advance(f).tc = f.tc /\ Advance(f).index = 0
        /\ Advance(f).timer = fdc.timer /\ Advance(f).drq = fdc.drq
    BY <1>1, <1>4, <1>8, AdvancePlace
  <2> HIDE DEF f, x
  <2>3. /\ Shape(await) /\ DOMAIN await.at = Drives
        /\ await.at[await.drive] = Place(x, Len(x.sectors) + 1)
        /\ await.drive = fdc.drive /\ await.normal = fdc.normal /\ await.msr = fdc.msr
        /\ await.pending = fdc.pending /\ await.result = fdc.result
        /\ await.eot = LastSector(x) /\ await.multi = x.multi /\ await.index = 0
        /\ await.timer /\ ~await.drq /\ await.tc = f.tc
    BY <2>2 DEF AwaitSector, Shape, Fields
  <2> HIDE DEF await
  <2>4. await.tc => dma'.left = 0
    <3>1. f.tc => MaxLen = dma.left
      BY <1>3, <1>4
    <3>2. await.tc => MaxLen = dma.left
      BY <2>3, <3>1
    <3> QED
      BY <1>2, <1>3, <2>1, <3>2
  <2> HIDE DEF tc
  <2>5. Faithful(await, dma', x)
    BY <1>1, <1>2, <1>3, <1>8, <2>1, <2>3, <2>4, AwaitFaithful DEF x, n
  <2> QED
    BY <1>10, <2>5, BecomesFaithful
<1> QED
  BY <1>6, <1>9, <1>10

LEMMA RuntimeConfigFaithful ==
  ASSUME TInv, NEW d, NEW inserted, NEW readonly, RuntimeConfig(d, inserted, readonly)
  PROVE  TInv'
<1> DEFINE out == SetMediaStatus(fdc, d, FALSE)
           new == IF inserted THEN SetMediaStatus(out, d, TRUE) ELSE out
           set == IF readonly THEN new.protected \cup {d} ELSE new.protected \ {d}
           g   == [new EXCEPT !.protected = set]
<1>1. Becomes(g, Touched(d)) /\ dma' = dma /\ Shape(fdc)
  BY DEF RuntimeConfig, TInv, Faithful
<1>2. ASSUME NEW a, Same(fdc, a), NEW b PROVE Same(fdc, SetMediaStatus(a, d, b))
  BY <1>2 DEF Same, Shape, Fields, SetMediaStatus
<1>3. Same(fdc, fdc)
  BY <1>1 DEF Same
<1>4. Same(fdc, new)
  BY <1>2, <1>3
<1> HIDE DEF new, set
<1>5. Same(fdc, g)
  BY <1>4 DEF Same, Shape, Fields
<1> HIDE DEF g
<1>6. Faithful(g, dma, xfer)
  BY <1>5, SameFaithful DEF TInv
<1>7. Faithful(g, dma, Touched(d))
  <2> DEFINE x == Touched(d)
  <2>1. /\ DOMAIN x = DOMAIN xfer /\ x.at = xfer.at /\ x.eot = xfer.eot /\ x.multi = xfer.multi
        /\ x.units = xfer.units /\ x.sectors = xfer.sectors
    BY <1>6 DEF Faithful, Asks, Touched
  <2> HIDE DEF x
  <2>2. /\ \A i : Nth(x, i) = Nth(xfer, i) /\ Place(x, i) = Place(xfer, i)
        /\ LastSector(x) = LastSector(xfer)
    BY <2>1 DEF Nth, Place, CylOf, HeadOf, SecOf, TrackOf, Linear, LastSector
  <2>3. Asks(x) /\ Counted(g, dma, x)
    BY <1>6, <2>1 DEF Faithful, Asks, Counted
  <2>4. Ordered(g, x)
    BY <1>6, <2>1, <2>2 DEF Faithful, Ordered
  <2>5. Faithful(g, dma, x)
    BY <1>6, <2>3, <2>4 DEF Faithful
  <2> QED
    BY <2>5 DEF x
<1> QED
  BY <1>1, <1>7, BecomesFaithful

-----------------------------------------------------------------------------
(* A timer that is left over from before the controller was held in reset,  *)
(* or reset by the power, fires into the next command: a write whose        *)
(* terminal count still says the last transfer's ends before it begins.     *)
(* What is shown here is shown of machines that do neither.                 *)
NoTimerLeftOver == Events \cap {"hold", "power"} = {}

LEMMA FaithfulStep ==
  ASSUME NoTimerLeftOver, IInv, TInv, Channel, [Next]_vars PROVE TInv' /\ Channel'
<1>1. Channel'
  BY DEF Channel, Next, vars, Software, WriteCommand, WriteParameter, ReadResult, ReadNoResult,
         SelectDrive, MotorsOff, ToggleReset, HoldReset, ResetByDsr, ProgramDma, Device, Timer,
         DmaWrite, DmaRead, User, RuntimeConfig, HardReset
<1> SUFFICES TInv'
  BY <1>1
<1>2. CASE Software
  <2>1. ~TransferDue /\ ~HoldReset
    BY <1>2 DEF Software, HoldReset, NoTimerLeftOver
  <2>2. CASE \E dir \in Transfers \cap Commands, n \in 0..MaxUnits : ProgramDma(dir, n)
    <3>1. PICK dir \in Transfers, n \in Nat : ProgramDma(dir, n)
      BY <2>2, FloppyAssumption
    <3> QED
      BY <3>1, ProgramDmaFaithful
  <2>3. CASE \E d \in Drives : SelectDrive(d)
    BY <2>3, SelectDriveFaithful
  <2> QED
    BY <1>2, <2>1, <2>2, <2>3, WriteCommandFaithful, WriteParameterFaithful, ReadResultFaithful,
       ReadNoResultFaithful, MotorsOffFaithful, ToggleResetFaithful, ResetByDsrFaithful
    DEF Software
<1>3. CASE Device
  BY <1>3, TimerFaithful, DmaWriteFaithful, DmaReadFaithful DEF Device
<1>4. CASE User
  BY <1>4, RuntimeConfigFaithful DEF User, HardReset, NoTimerLeftOver
<1>5. CASE UNCHANGED vars
  BY <1>5 DEF vars, TInv
<1> QED
  BY <1>1, <1>2, <1>3, <1>4, <1>5 DEF Next

(* The inductive invariant of the transfers.                                *)
THEOREM TransfersAreFaithful == NoTimerLeftOver => (Spec => []TInv)
<1> SUFFICES ASSUME NoTimerLeftOver PROVE Spec => []TInv
  OBVIOUS
<1>1. Init => TInv /\ Channel
  BY InitFaithful DEF Init, Channel
<1>2. IInv /\ TInv /\ Channel /\ [Next]_vars => TInv' /\ Channel'
  BY FaithfulStep
<1>3. Spec => []IInv
  BY Invariance
<1> QED
  BY <1>1, <1>2, <1>3, PTL DEF Spec

(* A transfer that ends normally has moved at least what the DMA channel    *)
(* was programmed for, for any geometry, number of units, end of track and  *)
(* drives, and whatever resets and exchanged diskettes come between.        *)
THEOREM NormalEndsAreComplete == NoTimerLeftOver => (Spec => []NormalEndIsComplete)
<1>1. TInv => NormalEndIsComplete
  BY DEF TInv, Faithful, Counted, NormalEndIsComplete
<1> QED
  BY <1>1, TransfersAreFaithful, PTL

(* The sectors moved are those asked for, in order, over the ends of tracks *)
(* and cylinders, with one head or with both.                               *)
THEOREM SectorsAreInOrder == NoTimerLeftOver => (Spec => []SectorsInOrder)
<1>1. TInv => SectorsInOrder
  BY DEF TInv, Faithful, Ordered, SectorsInOrder
<1> QED
  BY <1>1, TransfersAreFaithful, PTL
=============================================================================
