----------------------------- MODULE FloppyCtrl -----------------------------
(***************************************************************************)
(* iodev/floppy.cc of Bochs: the diskette controller.                       *)
(*                                                                         *)
(* The controller is one record, fdc, and its member functions are          *)
(* operators from one such record to the next, called in the source's       *)
(* order.  Of main_status_reg msr holds RQM, DIO and BUSY, and active the   *)
(* drives in positioning mode.  A command of more than two bytes has  *)
(* two here, the first and the last one, with which it is executed; a       *)
(* result of more than two bytes has two, the first and the last one read.  *)
(* specify stands for configure and perpendicular too, version for dump,    *)
(* lock and unlock: commands that change none of the state kept here.       *)
(* Software obeys the main status register: it writes when RQM is set and   *)
(* DIO is not, and programs the DMA channel in the direction of the next    *)
(* transfer.  BX_PANIC ends the program: a step that would reach one is not *)
(* taken.                                                                   *)
(* Left out: the non-DMA mode ("not fully implemented yet", floppy.cc 787), *)
(* format track, the data rate, and DOR bit 3, which software keeps set.    *)
(* A definition whose name ends in _off is the mutated form of the next     *)
(* one.                                                                     *)
(***************************************************************************)
EXTENDS Geometry, Sequences

CONSTANTS
  Drives,      \* drives that exist, numbers from 0 on
  Tracks,      \* cylinders of a diskette
  Commands,    \* the commands software gives
  Events,      \* what else happens
  MaxUnits     \* bound on the units one DMA transfer is programmed for

AllCommands == {"specify", "getstatus", "recal", "sense", "seek", "readid",
                "read", "write", "version", "invalid"}
AllEvents   == {"motors", "toggle", "hold", "dsr", "power", "media", "early"}

ASSUME FloppyAssumption ==
  /\ Drives \subseteq 0..3 /\ 0 \in Drives
  /\ Tracks \in Nat \ {0} /\ MaxUnits \in Nat
  /\ Commands \subseteq AllCommands /\ Events \subseteq AllEvents

VARIABLES
  fdc,        \* the controller, its drives and their diskettes
  dma,        \* channel 2: its direction and the units still to transfer
  xfer        \* history: what the command in progress asked for and has done

vars == <<fdc, dma, xfer>>

Bits      == {"RQM", "DIO", "BUSY"}
Transfers == {"read", "write"}
Idle      == "none"

(* The status register 0: interrupt code, seek end, drive.                  *)
St0 == [ic : {"normal", "abnormal", "invalid", "ready"}, end : BOOLEAN, drive : 0..3]
St(ic, end, drive) == [ic |-> ic, end |-> end, drive |-> drive]

Chs == [cyl : 0..Tracks, head : {0, 1}, sec : 0..(SecPerTrk + 1)]

PowerOn ==
  [drive |-> 0, normal |-> TRUE, motors |-> {},
   msr |-> {"RQM"}, active |-> {}, pending |-> Idle, command |-> Idle, complete |-> TRUE,
   result |-> <<>>, irq |-> FALSE, sensei |-> 0, st0 |-> St("normal", FALSE, 0),
   at |-> [d \in Drives |-> [cyl |-> 0, head |-> 0, sec |-> 0]],
   eot |-> 0, multi |-> FALSE, tc |-> FALSE, index |-> 0, buffer |-> -1,
   timer |-> FALSE, drq |-> FALSE,
   present |-> Drives, changed |-> Drives, protected |-> {}]

(* began: a diskette turned in the drive when the command was given;        *)
(* intact: nobody has touched the diskette since.  units is what the DMA    *)
(* channel was programmed for, sectors the sectors transferred so far.      *)
NoTransfer ==
  [at |-> [cyl |-> 0, head |-> 0, sec |-> 1], eot |-> SecPerTrk, multi |-> FALSE,
   units |-> 0, began |-> FALSE, intact |-> FALSE, sectors |-> <<>>]

(* The configuration says which diskettes are in, and which are read-only.  *)
Init ==
  /\ \E inserted, readonly \in SUBSET Drives :
       fdc = [PowerOn EXCEPT !.present = inserted, !.protected = readonly]
  /\ dma = [dir |-> "read", left |-> 0]
  /\ xfer = NoTransfer

-----------------------------------------------------------------------------
EnterIdle(f) ==
  [f EXCEPT !.msr = {"RQM"}, !.complete = TRUE,
            !.pending = Idle, !.command = Idle, !.result = <<>>, !.index = 0]

RaiseInterrupt(f) == [f EXCEPT !.irq = TRUE, !.sensei = 0]
LowerInterrupt(f) == [f EXCEPT !.irq = FALSE]

(* What the bytes are that a result starts and ends with.                   *)
ResultOf(f) ==
  IF f.st0.ic = "invalid" THEN <<"st0">>
  ELSE CASE f.pending = "getstatus" -> <<"st3">>
         [] f.pending = "version"   -> <<"version">>
         [] f.pending = "sense"     -> <<"st0", "cyl">>
         [] f.pending \in Transfers \cup {"readid"} -> <<"st0", "size">>
         [] OTHER                   -> <<"st0">>

EnterResult(f) ==
  LET g == [f EXCEPT !.msr = @ \cup {"RQM", "DIO", "BUSY"}, !.result = ResultOf(f)]
  IN  IF f.pending \in Transfers \cup {"readid"} /\ f.st0.ic # "invalid"
      THEN RaiseInterrupt(g) ELSE g

ResetChangeline_off(f) == [f EXCEPT !.changed = @ \ {f.drive}]
ResetChangeline(f) ==
  IF f.drive \in f.present THEN [f EXCEPT !.changed = @ \ {f.drive}] ELSE f

(* reset(BX_RESET_SOFTWARE)                                                 *)
Reset(f) ==
  EnterIdle([f EXCEPT
    !.irq = FALSE, !.sensei = 0, !.msr = {}, !.active = {}, !.st0 = St("normal", FALSE, 0),
    !.at = [d \in Drives |-> [cyl |-> 0, head |-> 0, sec |-> 0]],
    !.eot = 0, !.drq = FALSE])

Logical(chs) == LogicalSector(chs, NumHeads, SecPerTrk)

(* floppy_xfer from the image: beyond its end the buffer is filled with     *)
(* zeros (-1).                                                              *)
Fetch(f, chs) ==
  [f EXCEPT !.buffer =
     IF Logical(chs) < Tracks * NumHeads * SecPerTrk THEN Logical(chs) ELSE -1]

EndOfTrack_off(f, sec) == sec >= f.eot
EndOfTrack(f, sec) == sec > f.eot \/ sec > SecPerTrk

NextCylinder(cyl) == IF cyl + 1 > Tracks THEN Tracks ELSE cyl + 1

IncrementSector(f) ==
  LET at   == f.at[f.drive]
      wrap == EndOfTrack(f, at.sec + 1)
      step == wrap /\ (f.multi => at.head = 1)
      new  == [cyl  |-> IF step THEN NextCylinder(at.cyl) ELSE at.cyl,
               head |-> IF wrap /\ f.multi THEN 1 - at.head ELSE at.head,
               sec  |-> IF wrap THEN 1 ELSE at.sec + 1]
      g    == [f EXCEPT !.at[f.drive] = new]
  IN  IF step THEN ResetChangeline(g) ELSE g

-----------------------------------------------------------------------------
(* floppy_command, one operator per command; p holds the parameters.        *)
StepTo(f, p) ==     \* calculate_step_delay: whether the heads move at all
  IF p.at.cyl = f.at[p.drive].cyl THEN f ELSE ResetChangeline(f)

Select(f, drive) == [f EXCEPT !.drive = drive]

GetStatus(f, p) == EnterResult([f EXCEPT !.at[p.drive].head = p.at.head])

Recalibrate(f, p) ==
  LET g == StepTo(Select(f, p.drive), [p EXCEPT !.at.cyl = 0])
  IN  [g EXCEPT !.timer = TRUE, !.at[p.drive].cyl = 0, !.msr = {}, !.active = {p.drive}]

Seek_off(f, p) ==      \* the status register keeps saying ready
  LET g == StepTo([Select(f, p.drive) EXCEPT !.at[p.drive].head = p.at.head], p)
  IN  [g EXCEPT !.timer = TRUE, !.at[p.drive].cyl = p.at.cyl, !.active = {p.drive}]

Seek(f, p) ==
  LET g == StepTo([Select(f, p.drive) EXCEPT !.at[p.drive].head = p.at.head], p)
  IN  [g EXCEPT !.timer = TRUE, !.at[p.drive].cyl = p.at.cyl, !.msr = {}, !.active = {p.drive}]

Sense(f) ==
  EnterResult(
    IF f.sensei > 0
    THEN [f EXCEPT !.sensei = @ - 1, !.st0.drive = 4 - f.sensei]
    ELSE IF f.irq THEN f
    ELSE [f EXCEPT !.st0 = St("invalid", FALSE, 0)])

(* Without motor or diskette the controller hangs, busy.                    *)
ReadId(f, p) ==
  LET g == [Select(f, p.drive) EXCEPT !.at[p.drive].head = p.at.head, !.msr = {"BUSY"}, !.active = {}]
  IN  IF p.drive \in f.motors \cap f.present
      THEN [g EXCEPT !.st0 = St("normal", FALSE, p.drive), !.timer = TRUE]
      ELSE g

Refused(f, p) == EnterResult([f EXCEPT !.st0 = St("abnormal", FALSE, p.drive)])

ReadWrite(f, c, p) ==
  LET g     == [Select(f, p.drive) EXCEPT !.multi = p.multi]
      moved == IF p.at.cyl = g.at[p.drive].cyl THEN g ELSE ResetChangeline(g)
      ready == [moved EXCEPT !.at[p.drive] = p.at, !.msr = {"BUSY"}, !.active = {},
                             !.eot = IF p.eot = 0 THEN SecPerTrk ELSE p.eot]
  IN  CASE ~p.headsAgree -> Refused(g, p)
        [] p.headsAgree /\ p.drive \notin f.present -> g   \* hangs, with RQM set by write()
        [] p.headsAgree /\ p.drive \in f.present /\ p.at.sec > SecPerTrk ->
             Refused([g EXCEPT !.at[p.drive] = p.at], p)
        [] OTHER ->
             IF c = "read" THEN [Fetch(ready, p.at) EXCEPT !.timer = TRUE]
                           ELSE [ready EXCEPT !.drq = TRUE]

FloppyCommand(f, c, p) ==
  LET g == [f EXCEPT !.pending = c] IN
  CASE c = "specify"    -> EnterIdle(g)
    [] c = "getstatus"  -> GetStatus(g, p)
    [] c = "recal"      -> Recalibrate(g, p)
    [] c = "seek"       -> Seek(g, p)
    [] c = "sense"      -> Sense(g)
    [] c = "readid"     -> ReadId(g, p)
    [] OTHER            -> ReadWrite(g, c, p)        \* read, write

(* BX_PANIC: a read or write with the motor off.                            *)
Panics(f, c, p) == c \in Transfers /\ p.drive \notin f.motors

Parameters ==
  [drive : Drives, at : [cyl : 0..(Tracks - 1), head : {0, 1}, sec : 1..(SecPerTrk + 1)],
   eot : 0..SecPerTrk, multi : BOOLEAN, headsAgree : BOOLEAN]

NoParameters ==
  [drive |-> 0, at |-> NoTransfer.at, eot |-> 0, multi |-> FALSE, headsAgree |-> TRUE]

(* What a command looks at of its parameters.                               *)
ParametersOf(c) ==
  IF c \in Transfers THEN Parameters
  ELSE {p \in Parameters :
          /\ p.at.sec = 1 /\ p.eot = 0 /\ ~p.multi /\ p.headsAgree
          /\ (c # "seek" => p.at.cyl = 0)}

Positioned == {"read", "write", "readid"}

(* The history ends with the command it belongs to.                         *)
Becomes(f, x) ==
  /\ fdc' = f
  /\ xfer' = IF f.pending \in Positioned THEN x ELSE NoTransfer

-----------------------------------------------------------------------------
(* The software: ports 3F2, 3F4 and 3F5.                                    *)
Listens == "RQM" \in fdc.msr /\ "DIO" \notin fdc.msr /\ fdc.normal

(* The command byte is taken; the last parameter executes the command.      *)
Accept(f, c) ==
  [f EXCEPT !.complete = FALSE, !.command = c, !.msr = (@ \ {"DIO"}) \cup {"RQM", "BUSY"}]

Execute(f, c, p) == [FloppyCommand(f, c, p) EXCEPT !.complete = TRUE, !.command = Idle]

WriteCommand(c) ==
  LET g == Accept(fdc, c) IN
  /\ Listens /\ fdc.complete
  /\ fdc.pending = Idle                      \* BX_PANIC: old one pending
  /\ Becomes(CASE c = "version" -> EnterResult([g EXCEPT !.pending = c])
               [] c = "invalid" -> EnterResult([g EXCEPT !.st0 = St("invalid", FALSE, 0)])
               [] c = "sense"   -> Execute(g, c, NoParameters)
               [] OTHER         -> g,
             xfer)
  /\ UNCHANGED dma

(* What the history remembers of the command that begins.                   *)
Asked(p) ==
  LET turns == p.drive \in fdc.motors \cap fdc.present
  IN  [at |-> p.at, eot |-> p.eot, multi |-> p.multi, units |-> dma.left,
       began |-> turns, intact |-> turns, sectors |-> <<>>]

WriteParameter ==
  /\ Listens /\ ~fdc.complete
  /\ \E p \in ParametersOf(fdc.command) :
       /\ ~Panics(fdc, fdc.command, p)
       /\ fdc.command \in Transfers => dma.dir = fdc.command
       /\ Becomes(Execute(fdc, fdc.command, p), Asked(p))
  /\ UNCHANGED dma

ReadResult ==
  LET g == LowerInterrupt([fdc EXCEPT !.result = Tail(@), !.active = {}]) IN
  /\ {"RQM", "DIO"} \subseteq fdc.msr /\ fdc.result # <<>>
  /\ Becomes(IF g.result = <<>> THEN EnterIdle(g) ELSE g, xfer)
  /\ UNCHANGED dma

ReadNoResult ==
  /\ "early" \in Events
  /\ Listens /\ fdc.complete /\ fdc.result = <<>>
  /\ Becomes(EnterResult([fdc EXCEPT !.msr = {}, !.active = {}, !.st0 = St("invalid", FALSE, 0)]), xfer)
  /\ UNCHANGED dma

OutDor_off(f, drive, motors, normal) ==    \* leaving reset, no timer is started
  LET g == [f EXCEPT !.drive = drive, !.motors = motors, !.normal = normal] IN
  IF f.normal /\ ~normal THEN [g EXCEPT !.msr = {}, !.active = {}, !.pending = "reset"] ELSE g

OutDor(f, drive, motors, normal) ==
  LET g == [f EXCEPT !.drive = drive, !.motors = motors, !.normal = normal] IN
  CASE f.normal /\ ~normal -> [g EXCEPT !.msr = {}, !.active = {}, !.pending = "reset"]
    [] ~f.normal /\ normal -> [g EXCEPT !.timer = TRUE]
    [] OTHER               -> g

(* Between commands software selects a drive and starts its motor.          *)
SelectDrive(drive) ==
  /\ Listens /\ fdc.complete /\ fdc.pending = Idle
  /\ Becomes(OutDor(fdc, drive, {drive}, TRUE), xfer)
  /\ UNCHANGED dma

(* At any time INT 8 may turn the motors off.                               *)
MotorsOff ==
  /\ "motors" \in Events
  /\ Becomes(OutDor(fdc, fdc.drive, {}, fdc.normal), xfer)
  /\ UNCHANGED dma

(* floppy_reset_controller of the BIOS: both writes in a row.               *)
ToggleReset ==
  /\ "toggle" \in Events /\ fdc.normal
  /\ Becomes(LET held == OutDor(fdc, fdc.drive, fdc.motors, FALSE)
             IN  OutDor(held, fdc.drive, fdc.motors, TRUE),
             xfer)
  /\ UNCHANGED dma

(* Software that holds the controller in reset for a time.                  *)
HoldReset ==
  /\ "hold" \in Events
  /\ Becomes(OutDor(fdc, fdc.drive, fdc.motors, ~fdc.normal), xfer)
  /\ UNCHANGED dma

ResetByDsr ==
  /\ "dsr" \in Events
  /\ Becomes([fdc EXCEPT !.msr = {}, !.active = {}, !.pending = "reset", !.timer = TRUE], xfer)
  /\ UNCHANGED dma

ProgramDma(dir, units) ==
  /\ fdc.pending = Idle /\ fdc.command = Idle
  /\ dma' = [dir |-> dir, left |-> units]
  /\ UNCHANGED <<fdc, xfer>>

-----------------------------------------------------------------------------
AfterReset_off(f) == RaiseInterrupt([Reset(f) EXCEPT !.st0 = St("ready", FALSE, 0), !.sensei = 4])
AfterReset(f) ==
  [RaiseInterrupt([Reset(f) EXCEPT !.st0 = St("ready", FALSE, 0)]) EXCEPT !.sensei = 4]

(* timer(): the one timer of the controller fires.  OTHER is nothing        *)
(* pending, where it does nothing, and the default, a BX_PANIC, by which    *)
(* the model would just go on.                                              *)
Expire(f) ==
  CASE f.pending = "recal" ->
         RaiseInterrupt(EnterIdle([f EXCEPT !.st0 =
           St(IF f.drive \in f.motors THEN "normal" ELSE "abnormal", TRUE, f.drive)]))
    [] f.pending = "seek"   -> RaiseInterrupt(EnterIdle([f EXCEPT !.st0 = St("normal", TRUE, f.drive)]))
    [] f.pending = "readid" -> EnterResult(f)
    [] f.pending = "write" /\ f.tc -> EnterResult([f EXCEPT !.st0 = St("normal", FALSE, f.drive)])
    [] (f.pending = "write" /\ ~f.tc) \/ f.pending = "read" -> [f EXCEPT !.drq = TRUE]
    [] f.pending = "reset" -> AfterReset(f)
    [] OTHER -> f

Timer ==
  /\ fdc.timer
  /\ Becomes(Expire([fdc EXCEPT !.timer = FALSE]), xfer)
  /\ UNCHANGED dma

(* handleAsyncEvent grants the bus before the processor goes on: software   *)
(* does nothing while a transfer is due.                                    *)
TransferDue == fdc.drq /\ dma.left > 0

(* raise_HLDA grants channel 2 up to a sector at a time, and masks it when  *)
(* its count is exhausted.                                                  *)
MaxLen == IF dma.left < BytesPerSec THEN dma.left ELSE BytesPerSec

Moved_off(f) ==   \* the count register, one less than the units left
  LET len == IF BytesPerSec - f.index < MaxLen THEN BytesPerSec - f.index ELSE MaxLen
  IN  [f EXCEPT !.index = @ + len, !.tc = dma.left - 1 <= BytesPerSec /\ len = MaxLen]

Moved(f) ==
  LET len == IF BytesPerSec - f.index < MaxLen THEN BytesPerSec - f.index ELSE MaxLen
  IN  [f EXCEPT !.index = @ + len, !.tc = dma.left <= BytesPerSec /\ len = MaxLen]

Done(sector) == [xfer EXCEPT !.sectors = Append(@, sector)]

Advance(f) == [IncrementSector(f) EXCEPT !.index = 0]

AwaitSector(f) == [f EXCEPT !.drq = FALSE, !.timer = TRUE]

DmaWrite ==       \* dma_write: from the controller to memory
  LET f == Moved(fdc)
      g == IF f.index >= BytesPerSec THEN Advance(f) ELSE f
      h == [g EXCEPT !.drq = FALSE]
      next == CASE f.tc -> EnterResult([h EXCEPT !.st0 = St("normal", FALSE, f.drive)])
                [] ~f.tc /\ f.index >= BytesPerSec ->
                     AwaitSector(Fetch(g, g.at[g.drive]))
                [] OTHER -> f
  IN  /\ TransferDue /\ dma.dir = "read"
      /\ Becomes(next, Done(fdc.buffer))
      /\ dma' = [dma EXCEPT !.left = @ - (f.index - fdc.index)]

DmaRead ==        \* dma_read: from memory to the controller
  LET f == Moved(fdc)
      here == Logical(f.at[f.drive])
      full == f.index >= BytesPerSec \/ f.tc
  IN  /\ TransferDue /\ dma.dir = "write"
      /\ IF full /\ f.drive \in f.protected
         THEN /\ Becomes(EnterResult([f EXCEPT !.drq = FALSE, !.st0 = St("abnormal", FALSE, f.drive)]),
                         xfer)
              /\ dma' = [dma EXCEPT !.left = @ - 1]
         ELSE /\ Becomes(IF full THEN AwaitSector(Advance(f)) ELSE f,
                         IF full THEN Done(here) ELSE xfer)
              /\ dma' = [dma EXCEPT !.left = @ - (f.index - fdc.index)]

-----------------------------------------------------------------------------
(* The user: the diskettes and the power.                                   *)
Touched(d) == [xfer EXCEPT !.intact = @ /\ d # fdc.drive]

SetMediaStatus(f, d, inserted) ==
  IF inserted THEN [f EXCEPT !.present = @ \cup {d}]
  ELSE IF d \in f.present
       THEN [f EXCEPT !.present = @ \ {d}, !.changed = @ \cup {d}]
       ELSE f

(* A diskette is taken out, put in, or put in again with its read-only      *)
(* switch changed.                                                          *)
RuntimeConfig(d, inserted, readonly) ==
  LET out == SetMediaStatus(fdc, d, FALSE)
      new == IF inserted THEN SetMediaStatus(out, d, TRUE) ELSE out
  IN  /\ "media" \in Events
      /\ Becomes([new EXCEPT !.protected = IF readonly THEN @ \cup {d} ELSE @ \ {d}],
                 Touched(d))
      /\ UNCHANGED dma

(* reset(BX_RESET_HARDWARE); the DMA controller masks its channels.         *)
HardReset ==
  /\ "power" \in Events
  /\ Becomes(Reset([fdc EXCEPT !.drive = 0, !.motors = {}, !.normal = TRUE,
                               !.changed = Drives]),
             xfer)
  /\ dma' = [dma EXCEPT !.left = 0]

Software ==
  /\ ~TransferDue
  /\ \/ \E c \in Commands : WriteCommand(c)
     \/ WriteParameter \/ ReadResult \/ ReadNoResult
     \/ \E d \in Drives : SelectDrive(d)
     \/ MotorsOff \/ ToggleReset \/ HoldReset \/ ResetByDsr
     \/ \E dir \in Transfers \cap Commands, n \in 0..MaxUnits : ProgramDma(dir, n)

Device == Timer \/ DmaWrite \/ DmaRead

User ==
  \/ \E d \in Drives, inserted, readonly \in BOOLEAN : RuntimeConfig(d, inserted, readonly)
  \/ HardReset

(* BX_PANIC: lseek() on the image of a diskette that has been taken out.    *)
NoImage ==
  /\ TransferDue /\ fdc.drive \notin fdc.present
  /\ IF dma.dir = "read" THEN dma.left > BytesPerSec ELSE fdc.drive \notin fdc.protected

Next == ~NoImage /\ (Software \/ Device \/ User)

Spec == Init /\ [][Next]_vars

(* The machine's timers expire and the bus is granted to the DMA channel;   *)
(* the software and the user owe nothing.                                   *)
FairSpec == Spec /\ WF_vars(Timer) /\ WF_vars(DmaWrite) /\ WF_vars(DmaRead)

-----------------------------------------------------------------------------
(* Properties                                                               *)

(* The ranges of the controller's registers, and of the history.            *)
TypeOK ==
  /\ fdc.msr \subseteq Bits /\ fdc.drive \in Drives /\ fdc.sensei \in 0..4
  /\ {fdc.pending, fdc.command} \subseteq Commands \cup {Idle, "reset"}
  /\ fdc.st0 \in St0 /\ Len(fdc.result) <= 2
  /\ fdc.at \in [Drives -> Chs] /\ fdc.eot \in 0..255
  /\ fdc.index \in 0..BytesPerSec
  /\ fdc.buffer \in -1..(Tracks * NumHeads * SecPerTrk - 1)
  /\ \A line \in {fdc.normal, fdc.complete, fdc.irq, fdc.multi, fdc.tc, fdc.timer, fdc.drq} :
       line \in BOOLEAN
  /\ fdc.active \cup fdc.motors \cup fdc.present \cup fdc.changed \cup fdc.protected \subseteq Drives
  /\ dma \in [dir : Transfers, left : 0..MaxUnits]
  /\ xfer.units \in 0..MaxUnits /\ Len(xfer.sectors) <= MaxUnits

(* main_status_reg tells software what it can do, in whatever order         *)
(* commands, resets and the timer come: told to read it finds a byte to     *)
(* read; a byte is not withheld unless a reset is on its way; and when a    *)
(* new command is invited there is none pending, so that the BX_PANIC of    *)
(* write() (650) is out of reach, unless a read or write was given for a    *)
(* drive without diskette.                                                  *)
StatusTellsTruth ==
  /\ "DIO" \in fdc.msr => fdc.result # <<>> /\ {"RQM", "BUSY"} \subseteq fdc.msr
  /\ fdc.result # <<>> => "DIO" \in fdc.msr \/ fdc.pending = "reset"
  /\ Listens /\ fdc.complete =>
       fdc.pending = Idle \/ (fdc.pending \in Transfers /\ ~xfer.began)

(* No command is forgotten: whatever is pending, the timer, the DMA channel *)
(* or software has the next move, except for the branches marked "Hang      *)
(* controller" (a drive that does not turn a diskette).                     *)
SomebodyMovesOn ==
  fdc.pending # Idle =>
    \/ fdc.timer \/ fdc.drq \/ fdc.result # <<>>
    \/ fdc.pending = "reset" /\ ~fdc.normal
    \/ fdc.pending \in Positioned /\ ~xfer.began

(* A sense command given while an interrupt is pending reports its cause in *)
(* two bytes, whatever commands went before, and after a reset four of them *)
(* report the drives 0 to 3 in turn: what is left of reset_sensei always    *)
(* tells which one comes next.                                              *)
SenseExplainsInterrupt ==
  fdc.pending = "sense" =>
    /\ fdc.irq => Len(fdc.result) = 2
    /\ fdc.result # <<>> /\ fdc.st0.ic = "ready" => fdc.st0.drive + fdc.sensei = 3

(* The change line (DIR bit 7) of a drive without diskette is on: "diskette *)
(* missing or changed" (floppy.h), however diskettes and heads have moved.  *)
ChangeLineTellsAbsence == Drives \ fdc.present \subseteq fdc.changed

-----------------------------------------------------------------------------
(* The i-th sector of a transfer by arithmetic: sectors 1 to eot of one     *)
(* track after the other, of both heads only with multi_track; -1 past the  *)
(* end of the diskette.                                                     *)
Nth(x, i) ==
  LET last  == IF x.eot = 0 THEN SecPerTrk ELSE x.eot
      first == IF x.at.sec > last THEN last ELSE x.at.sec
      track == IF x.multi THEN NumHeads * x.at.cyl + x.at.head ELSE x.at.cyl
      n     == track * last + (first - 1) + (i - 1)
      t     == n \div last
      cyl   == IF x.multi THEN t \div NumHeads ELSE t
      head  == IF x.multi THEN t % NumHeads ELSE x.at.head
  IN  CASE i = 1             -> Logical(x.at)
        [] i > 1 /\ cyl >= Tracks -> -1
        [] OTHER             -> Logical([cyl |-> cyl, head |-> head, sec |-> (n % last) + 1])

(* The sectors moved are those asked for, in order, over the ends of tracks *)
(* and cylinders; a read beyond the last cylinder brings zeros.             *)
SectorsInOrder ==
  xfer.intact => \A i \in DOMAIN xfer.sectors :
    xfer.sectors[i] = Nth(xfer, i) \/ (fdc.pending = "write" /\ Nth(xfer, i) = -1)

(* A transfer that reports normal termination has moved all that the DMA    *)
(* channel was programmed for: "Terminal Count line, done" (floppy.cc).     *)
NormalEndIsComplete ==
  /\ fdc.pending \in Transfers /\ fdc.result # <<>> /\ fdc.st0.ic = "normal"
  => Len(xfer.sectors) * BytesPerSec >= xfer.units

(* A write touches no sector outside the image ("io: logical sector out of  *)
(* bounds" is checked by a BX_PANIC for its first sector).                  *)
WritesInBounds ==
  fdc.pending = "write" =>
    \A i \in DOMAIN xfer.sectors : xfer.sectors[i] < Tracks * NumHeads * SecPerTrk

(* Every command that does not hang is answered, every reset leaves the     *)
(* controller idle.                                                         *)
Underway ==
  /\ fdc.pending # Idle /\ fdc.result = <<>> /\ fdc.normal
  /\ fdc.pending \in Positioned => xfer.began
  /\ fdc.pending \in Transfers => dma.left > 0

CommandsEnd == Underway ~> fdc.pending = Idle \/ fdc.result # <<>>
=============================================================================
