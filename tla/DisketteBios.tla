---------------------------- MODULE DisketteBios ----------------------------
(***************************************************************************)
(* bios/rombios.c of Bochs: INT 13h for diskettes, composed with the        *)
(* controller it drives.                                                    *)
(*                                                                         *)
(* int13_diskette_function is a process, its place kept in pc; it runs      *)
(* behind the interrupt gate and opens interrupts only in its waiting       *)
(* loops.  There the diskette interrupt (int0e_handler) and the timer tick  *)
(* (int08_handler) come in, and the one tells it through bit 7 of 40:3e     *)
(* what the other may have made it give up through 40:40.  The caller is    *)
(* any sequence of requests.  Functions 00h, 01h, 08h and 15h-18h report or *)
(* set BIOS data no other function looks at; 05h needs format track, which  *)
(* FloppyCtrl leaves out.                                                   *)
(***************************************************************************)
EXTENDS FloppyCtrl

CONSTANTS
  OnCount,     \* BX_FLOPPY_ON_CNT: ticks until the motor is turned off (37)
  MaxSectors   \* the largest number of sectors of a request (72)

ASSUME BiosAssumption ==
  /\ OnCount \in Nat /\ OnCount >= 2     \* the motor survives one tick
  /\ MaxSectors \in Nat \ {0}
  /\ SecPerTrk + MaxSectors <= 255          \* the last sector asked for fits its byte
  /\ MaxSectors * BytesPerSec <= MaxUnits   \* the DMA channel counts any request
  /\ {"recal", "sense", "read", "write"} \subseteq Commands

VARIABLES
  pc,        \* where int13_diskette_function is, "caller" between calls
  call,      \* the request that is served
  answer,    \* AH, as the last one has returned it
  bda,       \* BIOS data area: bit 7 of 40:3e, 40:40, and the drives whose
             \* diskette is known (calibrated in 40:3e, media type in 40:90)
  isr,       \* where int0e_handler is
  request,   \* IRQ 6 is latched in the interrupt controller
  granted,   \* it was raised under the bus grant: a step comes before it is taken
  ticked,    \* a tick has come since the program last made a step
  rushed     \* history: the call's transfer command met a timer still running

bios  == <<pc, call, answer, bda, isr, request, granted, ticked, rushed>>
bvars == <<vars, bios>>

Requests ==
  [fn : {"read", "write", "verify"}, drive : 0..2, n : 0..(MaxSectors + 1), fits : BOOLEAN,
   at : [cyl : 0..(Tracks - 1), head : {0, 1}, sec : 0..(SecPerTrk + 1)]]

NoRequest ==
  [fn |-> "verify", drive |-> 0, n |-> 1, fits |-> TRUE, at |-> NoTransfer.at]

(* After the POST: the controller as the power left it, 40:3e to 40:91 zero.*)
BInit ==
  /\ Init /\ fdc.protected \subseteq fdc.present
  /\ pc = "caller" /\ call = NoRequest /\ answer = 0
  /\ bda = [intr |-> FALSE, ticks |-> 0, known |-> {}]
  /\ isr = "none" /\ request = FALSE /\ granted = FALSE /\ ticked = FALSE /\ rushed = FALSE

-----------------------------------------------------------------------------
(* Interrupts are enabled in the waiting loops, and while the caller runs.  *)
Waiting  == {"held", "recal", "look40", "look3e", "reset", "release", "restarted"}
Enabled  == pc \in Waiting \cup {"caller"}

(* The controller's line as the interrupt controller latches it: an edge,   *)
(* withdrawn with the line.  reset() lowers the line before it is raised.   *)
WasReset(f) == fdc.pending = "reset" /\ f.pending # "reset"
Latch(f)    == request' = (f.irq /\ (request \/ ~fdc.irq \/ WasReset(f)))

DeviceTo(f, x) == Becomes(f, x) /\ Latch(f)

(* The program has the processor: no interrupt is in service or due, the    *)
(* bus is not granted.  Where an instruction ends interrupts are looked for *)
(* first, and the bus is granted only if there are none (handleAsyncEvent): *)
(* one that a DMA transfer raises then waits for another instruction.       *)
Running(place) ==
  /\ pc = place /\ isr = "none" /\ ~TransferDue
  /\ Enabled => ~request \/ granted
  /\ ticked' = FALSE /\ granted' = FALSE

Quiet == UNCHANGED <<vars, isr, request>>

Return(ah) == pc' = "caller" /\ answer' = ah /\ call' = NoRequest /\ rushed' = FALSE

Goto(place) == pc' = place /\ UNCHANGED <<call, answer, rushed>>

-----------------------------------------------------------------------------
(* Parameters out of range, and drives the CMOS does not know.              *)
Refusal(r) ==
  CASE r.drive > 1 \/ r.at.sec = 0 \/ r.n = 0 \/ r.n > MaxSectors -> 1
    [] OTHER -> IF r.drive \notin Drives THEN 128 ELSE 0

Refusals == {Refusal(r) : r \in Requests} \ {0}

(* A verify, and a transfer that will be refused for its buffer, look at    *)
(* nothing else of their request, and move nothing; a transfer that begins  *)
(* at a sector no track has moves nothing: one of each will do.             *)
Accepted ==
  {r \in Requests :
     /\ Refusal(r) = 0
     /\ r.fn = "verify" \/ ~r.fits =>
          r = [NoRequest EXCEPT !.fn = r.fn, !.drive = r.drive, !.fits = r.fits]
     /\ ~r.fits => r.fn = "read"
     /\ r.at.sec > SecPerTrk => r.n = 1 /\ r.at.cyl = 0 /\ r.at.head = 0}

Call ==
  /\ Running("caller")
  /\ \/ \E ah \in Refusals : Return(ah)
     \/ \E r \in Accepted :
          IF r.drive \in bda.known /\ r.fn = "verify" THEN Return(0)
          ELSE /\ call' = r /\ answer' = 0 /\ UNCHANGED rushed
               /\ pc' = IF r.drive \in bda.known THEN "program" ELSE "prepare"
  /\ Quiet /\ UNCHANGED bda

(* floppy_prepare_controller, before the recalibration of an unknown        *)
(* diskette and before the transfer.                                        *)
NoInterruptYet_off == bda.intr
NoInterruptYet     == FALSE

Prepare ==
  /\ Running("prepare")
  /\ DeviceTo(OutDor(fdc, call.drive, {call.drive}, TRUE), xfer)
  /\ bda' = [bda EXCEPT !.intr = NoInterruptYet, !.ticks = OnCount]
  /\ Goto(IF fdc.normal THEN "ready" ELSE "released")
  /\ UNCHANGED <<dma, isr>>

DriveReady     == "RQM" \in fdc.msr /\ "DIO" \notin fdc.msr

Ready ==
  /\ Running("ready") /\ DriveReady
  /\ Goto("command")
  /\ Quiet /\ UNCHANGED bda

(* The controller was held in reset: its interrupt is waited for as well.   *)
Released ==
  /\ Running("released") /\ DriveReady
  /\ Goto("held")
  /\ Quiet /\ UNCHANGED bda

Held ==
  /\ Running("held")
  /\ bda' = [bda EXCEPT !.intr = FALSE]
  /\ Goto(IF bda.intr THEN "command" ELSE "held")
  /\ Quiet

-----------------------------------------------------------------------------
(* The bytes of a command, interrupts disabled.  The end of track given is  *)
(* the last sector asked for, on whatever track it is.                      *)
Given ==
  IF call.drive \notin bda.known
  THEN [c |-> "recal", p |-> [NoParameters EXCEPT !.drive = call.drive]]
  ELSE [c |-> call.fn,
        p |-> [drive |-> call.drive, at |-> call.at, eot |-> call.at.sec + call.n - 1,
               multi |-> TRUE, headsAgree |-> TRUE]]

(* Otherwise the controller panics, or loses the byte.  It also takes one   *)
(* while it is held in reset.                                               *)
Takes(c, p) ==
  /\ DriveReady /\ fdc.complete /\ fdc.pending = Idle
  /\ ~Panics(fdc, c, p)

Command ==
  /\ Running("command") /\ Takes(Given.c, Given.p)
  /\ DeviceTo(Execute(Accept(fdc, Given.c), Given.c, Given.p), Asked(Given.p))
  /\ pc' = IF Given.c = "recal" THEN "recal" ELSE "look40"
  /\ rushed' = (Given.c \in Transfers /\ fdc.timer)
  /\ UNCHANGED <<call, answer, dma, bda, isr>>

(* floppy_drive_recal waits without a limit, floppy_media_sense takes the   *)
(* drive type for the diskette's (a type it knows: of others the diskette   *)
(* stays unknown, and the call fails or recalibrates again).                *)
Recalibrated ==
  /\ Running("recal")
  /\ IF bda.intr
     THEN /\ bda' = [bda EXCEPT !.intr = FALSE, !.known = @ \cup {call.drive}]
          /\ IF call.fn = "verify" THEN Return(0) ELSE Goto("program")
     ELSE Goto("recal") /\ UNCHANGED bda
  /\ Quiet

(* The DMA channel, unless the buffer crosses a 64K boundary (AH = 09h).    *)
Program ==
  /\ Running("program")
  /\ IF call.fits
     THEN dma' = [dir |-> call.fn, left |-> call.n * BytesPerSec] /\ Goto("prepare")
     ELSE Return(9) /\ UNCHANGED dma
  /\ UNCHANGED <<fdc, xfer, bda, isr, request>>

-----------------------------------------------------------------------------
(* The waiting loop: first the tick count, then the interrupt flag.         *)
LookAtTicks_off ==        \* waits without a limit
  /\ Running("look40")
  /\ Goto("look3e")
  /\ Quiet /\ UNCHANGED bda

LookAtTicks_off2 ==       \* gives up and leaves the controller to itself
  /\ Running("look40")
  /\ IF bda.ticks = 0 THEN Return(128) ELSE Goto("look3e")
  /\ Quiet /\ UNCHANGED bda

LookAtTicks ==
  /\ Running("look40")
  /\ Goto(IF bda.ticks = 0 THEN "reset" ELSE "look3e")
  /\ Quiet /\ UNCHANGED bda

LookAtInterrupt ==
  /\ Running("look3e")
  /\ bda' = [bda EXCEPT !.intr = FALSE]
  /\ Goto(IF bda.intr THEN "results" ELSE "look40")
  /\ Quiet

(* floppy_reset_controller, then AH = 80h: two writes of DOR, interrupts    *)
(* and timers between them (the countdown has ended: INT 8 leaves DOR as it *)
(* was read).  A sector's timer that expires there ends the reset early;    *)
(* the second write starts it again, and only RQM is waited for.            *)
HoldController ==
  /\ Running("reset")
  /\ DeviceTo(OutDor(fdc, fdc.drive, fdc.motors, FALSE), xfer)
  /\ Goto("release")
  /\ UNCHANGED <<dma, bda, isr>>

ReleaseController ==
  /\ Running("release")
  /\ DeviceTo(OutDor(fdc, fdc.drive, fdc.motors, TRUE), xfer)
  /\ Goto("restarted")
  /\ UNCHANGED <<dma, bda, isr>>

Restarted_off == TRUE
Restarted     == DriveReady

TimedOut ==
  /\ Running("restarted") /\ Restarted
  /\ Return(128)
  /\ Quiet /\ UNCHANGED bda

(* All bytes of the result are read.                                        *)
ReadAll(f) == EnterIdle(LowerInterrupt([f EXCEPT !.active = {}]))

ResultsReady == {"RQM", "DIO"} \subseteq fdc.msr

(* st1 bit 1, not writable: of a write's abnormal ends dma_read's sets it,  *)
(* the other is that of a sector no track has.                              *)
NotWritable == call.at.sec <= SecPerTrk

Failed_off == FALSE
Failed     == fdc.st0.ic # "normal"

(* BX_PANIC, "ctrl not ready" or "write error": the BIOS halts.             *)
Results ==
  /\ Running("results")
  /\ IF ~ResultsReady
     THEN Goto("halted") /\ Quiet
     ELSE /\ DeviceTo(ReadAll(fdc), xfer)
          /\ CASE ~Failed -> Return(0)
               [] Failed /\ call.fn = "read" -> Return(32)
               [] OTHER -> IF NotWritable THEN Return(3) ELSE Goto("halted")
          /\ UNCHANGED <<dma, isr>>
  /\ UNCHANGED bda

Int13 ==
  \/ Call \/ Prepare \/ Ready \/ Released \/ Held \/ Command \/ Recalibrated \/ Program
  \/ LookAtTicks \/ LookAtInterrupt \/ HoldController \/ ReleaseController \/ TimedOut
  \/ Results

-----------------------------------------------------------------------------
(* int0e_handler: unless result bytes are waiting, the interrupt is that of *)
(* a command without any and is sensed; then the flag is set.               *)
Int0e ==
  /\ Enabled /\ request /\ isr = "none" /\ ~TransferDue
  /\ request' = FALSE /\ granted' = FALSE
  /\ isr' = IF ResultsReady THEN "none" ELSE "sense"
  /\ bda' = [bda EXCEPT !.intr = @ \/ ResultsReady]
  /\ UNCHANGED <<vars, pc, call, answer, ticked, rushed>>

SenseInterrupt ==
  /\ isr = "sense" /\ ~TransferDue /\ Takes("sense", NoParameters)
  /\ DeviceTo(ReadAll(Execute(Accept(fdc, "sense"), "sense", NoParameters)), xfer)
  /\ isr' = "none"
  /\ bda' = [bda EXCEPT !.intr = TRUE]
  /\ UNCHANGED <<dma, pc, call, answer, granted, ticked, rushed>>

(* int08_handler, whose interrupt has the higher priority.  Between two     *)
(* ticks, 55 ms apart, the program makes at least a step.                   *)
CountDown_off == bda.ticks - 1
CountDown     == IF bda.ticks > 0 THEN bda.ticks - 1 ELSE 0

Int08 ==
  /\ Enabled /\ isr = "none" /\ ~TransferDue
  /\ pc # "caller" => ~ticked
  /\ bda' = [bda EXCEPT !.ticks = CountDown]
  /\ IF bda.ticks = 1 THEN DeviceTo(OutDor(fdc, fdc.drive, {}, fdc.normal), xfer)
                      ELSE UNCHANGED <<fdc, xfer, request>>
  /\ ticked' = (pc # "caller") /\ granted' = FALSE
  /\ UNCHANGED <<dma, pc, call, answer, isr, rushed>>

(* The caller, another operating system say, leaves the controller in       *)
(* reset, when it has let the timer of the last one run out: if that ended  *)
(* the reset early, floppy_prepare_controller would wait for ever.          *)
CallerHoldsReset ==
  /\ "hold" \in Events
  /\ Running("caller") /\ fdc.normal /\ ~fdc.timer
  /\ DeviceTo(OutDor(fdc, fdc.drive, fdc.motors, FALSE), xfer)
  /\ UNCHANGED <<dma, pc, call, answer, bda, isr, rushed>>

(* The controller's own moves, and the user's.                              *)
DeviceMoves ==
  /\ \/ Timer /\ Latch(fdc') /\ UNCHANGED granted
     \/ /\ DmaWrite \/ DmaRead
        /\ Latch(fdc') /\ granted' = (granted \/ (request' /\ ~request))
  /\ UNCHANGED <<pc, call, answer, bda, isr, ticked, rushed>>

DisketteChanges ==
  /\ \E d \in Drives, inserted, readonly \in BOOLEAN : RuntimeConfig(d, inserted, readonly)
  /\ UNCHANGED bios

BNext ==
  /\ ~NoImage
  /\ \/ Int13 \/ Int0e \/ SenseInterrupt \/ Int08 \/ CallerHoldsReset
     \/ DeviceMoves \/ DisketteChanges

BSpec == BInit /\ [][BNext]_bvars

(* The processor goes on, the interval timer ticks, the machine's timers    *)
(* expire and its bus is granted; the caller and the user owe nothing.      *)
Proceed == (pc # "caller" /\ Int13) \/ Int0e \/ SenseInterrupt

BFairSpec == BSpec /\ WF_bvars(Proceed) /\ WF_bvars(Int08) /\ WF_bvars(DeviceMoves)

-----------------------------------------------------------------------------
(* Properties                                                               *)

(* The ranges of what the BIOS keeps, of the DMA channel it programs, and,  *)
(* in whatever order the BIOS drives it, of the controller's registers.     *)
BTypeOK ==
  /\ TypeOK
  /\ pc \in Waiting \cup {"caller", "prepare", "ready", "released", "command", "program",
                         "results", "halted"}
  /\ call \in Requests /\ answer \in {0, 1, 3, 9, 32, 128}
  /\ bda \in [intr : BOOLEAN, ticks : 0..OnCount, known : SUBSET Drives]
  /\ isr \in {"none", "sense"} /\ {request, granted, ticked, rushed} \subseteq BOOLEAN
  /\ dma \in [dir : Transfers, left : 0..(MaxSectors * BytesPerSec)]

(* The sectors from the first asked for on, over the ends of tracks and     *)
(* cylinders; past the last cylinder a read brings zeros.                   *)
Wanted(r) ==
  [i \in 1..r.n |->
     IF Logical(r.at) + i - 1 < Tracks * NumHeads * SecPerTrk THEN Logical(r.at) + i - 1 ELSE -1]

OnDiskette(r) == Logical(r.at) + r.n <= Tracks * NumHeads * SecPerTrk

(* A call that returns success has moved exactly the sectors it was asked   *)
(* for, in order: whatever races between the motor's countdown, the         *)
(* controller's interrupt and a user who exchanges diskettes went before.   *)
(* Not claimed of a transfer whose command was given while the timer of a   *)
(* reset that had ended early was still running: it may end it, by the      *)
(* Terminal Count of the transfer before, with nothing moved.               *)
SuccessMovesAll ==
  [][ /\ call.fn \in Transfers /\ pc # "caller" /\ pc' = "caller" /\ answer' = 0
      /\ call.fn = "write" => OnDiskette(call)
      /\ ~rushed
      => xfer.sectors = Wanted(call) ]_bvars

(* When a call has returned, in time or not, the DMA channel is quiet: no   *)
(* late transfer writes to the caller's buffer.                             *)
NothingMovesLater == [][dma'.left < dma.left => pc # "caller"]_bvars

(* The interrupt of a transfer that ends while the program writes DOR to    *)
(* reset the controller: int0e_handler finds it held, and senses.           *)
Overtaken == pc = "release" /\ isr = "sense" /\ fdc.pending = "reset"

(* Every command byte of INT 13h and of int0e_handler meets a controller    *)
(* that takes it: idle, with the drive's motor on ("old one pending" and    *)
(* "motor not on" are BX_PANICs of the controller).  The one case in which  *)
(* the code does run into the first of them is Overtaken.                   *)
CommandsAreTaken ==
  /\ pc = "command" /\ isr = "none" => Takes(Given.c, Given.p)
  /\ isr = "sense" => Takes("sense", NoParameters) \/ Overtaken

(* The BX_PANICs "ctrl not ready" and "write error" are out of reach, but   *)
(* for a write that begins at a sector no track has: bit 7 of 40:3e is set  *)
(* for this command's interrupt, never for an earlier one's.                *)
HaltsOnlyPastTrack ==
  pc = "halted" => call.fn = "write" /\ call.at.sec > SecPerTrk

(* Every call returns: the recalibration and the held reset always          *)
(* interrupt, anything else the countdown cuts short.  Overtaken is a panic.*)
CallsReturn == []<>(pc \in {"caller", "halted"} \/ Overtaken)
=============================================================================
