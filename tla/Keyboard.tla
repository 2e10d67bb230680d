------------------------------ MODULE Keyboard ------------------------------
(***************************************************************************)
(* iodev/keyboard.cc of Bochs: the 8042 controller between a keyboard, a    *)
(* PS/2 mouse and the processor.                                            *)
(*                                                                         *)
(* Three queues feed one output buffer: what the controller and the mouse   *)
(* answer at once (controller_Q), the keyboard's bytes and the mouse's.     *)
(* A timer moves one byte at a time when the buffer is empty, and raises    *)
(* the interrupt lines asked for since it last ran.  The member functions   *)
(* are operators over kbc, called in the source's order; bytes are tokens   *)
(* that say who sent them.  Of the interrupt controllers there are the      *)
(* lines and their edges (pic.cc 447-491), of the system the two interrupt  *)
(* handlers, which read the buffer.                                         *)
(* Left out: scan codes and their translation, A20 and processor reset,     *)
(* wheel and wrap mode, rate, scaling and resolution.                       *)
(***************************************************************************)
EXTENDS Integers, Sequences

CONSTANTS
  KbdElements,     \* BX_KBD_ELEMENTS (16)
  MouseBuffSize,   \* BX_MOUSE_BUFF_SIZE (48)
  QSize,           \* BX_KBD_CONTROLLER_QSIZE (5)
  PacketSize,      \* bytes of a mouse packet (3, with a wheel 4)
  KeyCommands,     \* commands software gives to the keyboard,
  MouseCommands,   \* to the mouse
  Racy,            \* commands are given with a byte unread, too
  MaxInputs        \* bound on what user and software do

AllKeyCommands   == {"ack", "param", "led", "resend", "identify", "scan on", "scan off", "defaults",
                     "reset"}
AllMouseCommands == {"ack", "param", "enable", "disable", "remote", "stream", "id", "info",
                     "reset", "defaults", "read", "ignored"}

ASSUME KeyboardAssumption ==
  /\ {KbdElements, QSize, MaxInputs} \subseteq Nat /\ MouseBuffSize \in Nat \ {0}
  /\ PacketSize \in {3, 4}
  /\ KeyCommands \subseteq AllKeyCommands /\ MouseCommands \subseteq AllMouseCommands
  /\ Racy \in BOOLEAN

VARIABLES
  kbc,       \* the controller, the keyboard and the mouse
  lineUp,    \* the interrupt lines that are high
  request,   \* the lines whose edge the processor has not answered
  inputs     \* inputs so far

vars == <<kbc, lineUp, request, inputs>>

None    == <<"none", 0, 0>>
Senders == {"keyboard", "mouse"}
Byte    == Senders \X (0..MaxInputs) \X (1..4)
Expected == {"none", "command byte", "keyboard output", "mouse output", "mouse"}

(* init(), and the state a mouse driver leaves behind (A8h, D4h F4h).       *)
PowerOn ==
  [outb |-> FALSE, auxb |-> FALSE, kbdOut |-> None, auxOut |-> None,
   controllerQ |-> <<>>, kbd |-> <<>>, mouse |-> <<>>,
   kbdClock |-> TRUE, auxClock |-> FALSE, allow1 |-> TRUE, allow12 |-> TRUE,
   irq1 |-> FALSE, irq12 |-> FALSE, timer |-> FALSE, bat |-> FALSE,
   expecting |-> "none", tested |-> FALSE, parameter |-> FALSE, scanning |-> TRUE,
   enable |-> FALSE, remote |-> FALSE, mouseParameter |-> FALSE, delayed |-> FALSE]

Running == [PowerOn EXCEPT !.auxClock = TRUE, !.enable = TRUE, !.tested = TRUE]

Init ==
  /\ kbc \in {PowerOn, Running}
  /\ lineUp = {} /\ request = {}
  /\ inputs = 0

-----------------------------------------------------------------------------
(* The queues                                                               *)

activate_timer(k) == [k EXCEPT !.timer = TRUE]

(* "The Q is empty" when outb is clear.                                     *)
controller_enQ(k, byte) ==
  IF k.outb THEN [k EXCEPT !.controllerQ = Append(@, byte)]
  ELSE IF byte[1] = "keyboard"
  THEN [k EXCEPT !.kbdOut = byte, !.outb = TRUE, !.auxb = FALSE, !.irq1 = @ \/ k.allow1]
  ELSE [k EXCEPT !.auxOut = byte, !.outb = TRUE, !.auxb = TRUE, !.irq12 = @ \/ k.allow12]

kbd_enQ_imm(k, byte) ==
  [k EXCEPT !.kbdOut = byte, !.outb = TRUE, !.irq1 = @ \/ k.allow1]

KbdFull_off(k) == FALSE
KbdFull(k) == Len(k.kbd) >= KbdElements

kbd_enQ(k, byte) ==
  IF KbdFull(k) THEN k
  ELSE [k EXCEPT !.kbd = Append(@, byte), !.timer = @ \/ (~k.outb /\ k.kbdClock)]

(* n bytes of one sender, in order.                                         *)
Bytes(from, n) == [i \in 1..n |-> <<from, inputs, i>>]

(* The first byte fills the output buffer, if it does not find it full.     *)
ControllerAll(k, bytes) ==
  IF bytes = <<>> THEN k
  ELSE [controller_enQ(k, Head(bytes)) EXCEPT !.controllerQ = @ \o Tail(bytes)]

(* One byte, two or three.                                                  *)
KbdAll(k, bytes) ==
  LET one == kbd_enQ(k, bytes[1])
      two == kbd_enQ(one, bytes[2])
  IN  CASE Len(bytes) = 1 -> one
        [] Len(bytes) = 2 -> two
        [] Len(bytes) = 3 -> kbd_enQ(two, bytes[3])

(* Whole packets only.                                                      *)
mouse_enQ_packet(k) ==
  IF Len(k.mouse) + PacketSize >= MouseBuffSize THEN k
  ELSE [k EXCEPT !.mouse = @ \o Bytes("mouse", PacketSize),
                 !.timer = @ \/ (~k.outb /\ k.auxClock)]

(* Movements are gathered while a packet waits; what a full buffer refuses  *)
(* is forgotten.                                                            *)
create_mouse_packet(k, force) ==
  IF ~force /\ (k.mouse # <<>> \/ ~k.delayed) THEN k
  ELSE mouse_enQ_packet([k EXCEPT !.delayed = FALSE])

-----------------------------------------------------------------------------
(* The timer: lines first, then at most one byte.                           *)
Asked(k) == (IF k.irq1 THEN {1} ELSE {}) \cup (IF k.irq12 THEN {12} ELSE {})

raise_irq(lines) ==
  /\ lineUp'  = lineUp \cup lines
  /\ request' = request \cup (lines \ lineUp)

Vacant(k) == ~k.outb

MoveKey_off(k) ==         \* the byte is not taken out of its buffer
  [k EXCEPT !.kbdOut = Head(k.kbd), !.outb = TRUE, !.irq1 = k.allow1]
MoveKey(k) ==
  [k EXCEPT !.kbdOut = Head(k.kbd), !.kbd = Tail(@), !.outb = TRUE, !.irq1 = k.allow1]

MoveMouse(k) ==
  IF k.auxClock /\ k.mouse # <<>>
  THEN [k EXCEPT !.auxOut = Head(k.mouse), !.mouse = Tail(@), !.outb = TRUE, !.auxb = TRUE,
                 !.irq12 = k.allow12]
  ELSE k

MoveByte(k) ==
  IF k.kbd # <<>> /\ (k.kbdClock \/ k.bat) THEN MoveKey(k)
  ELSE MoveMouse(create_mouse_packet(k, FALSE))

periodic ==
  /\ raise_irq(Asked(kbc))
  /\ LET asked == [kbc EXCEPT !.irq1 = FALSE, !.irq12 = FALSE]
         idle  == [asked EXCEPT !.timer = FALSE]
     IN  kbc' = CASE ~kbc.timer   -> asked
                  [] kbc.timer /\ Vacant(kbc)  -> MoveByte(idle)
                  [] kbc.timer /\ ~Vacant(kbc) -> idle
  /\ UNCHANGED inputs

-----------------------------------------------------------------------------
(* Port 60h read.  The next queued byte follows at once, as a mouse byte,   *)
(* with the interrupt of the byte that was read.                            *)
NextQueued(k) ==
  IF k.controllerQ = <<>> THEN k
  ELSE [k EXCEPT !.auxOut = Head(k.controllerQ), !.controllerQ = Tail(@),
                 !.outb = TRUE, !.auxb = TRUE]

AuxTaken_off(k) == [k EXCEPT !.auxOut = None, !.outb = FALSE, !.irq12 = FALSE]
AuxTaken(k) == [k EXCEPT !.auxOut = None, !.outb = FALSE, !.auxb = FALSE, !.irq12 = FALSE]

ReadAux(k) ==
  LET next == NextQueued(AuxTaken(k))
  IN  activate_timer([next EXCEPT !.irq12 = next.outb /\ k.allow12])

ReadKbd(k) ==
  LET next == NextQueued([k EXCEPT !.outb = FALSE, !.auxb = FALSE, !.irq1 = FALSE, !.bat = FALSE])
  IN  activate_timer([next EXCEPT !.irq1 = next.outb /\ k.allow1])

Lower_off(line) == UNCHANGED lineUp
Lower(line) == lineUp' = lineUp \ {line}

lower_irq(line, requests) ==
  /\ Lower(line)
  /\ request' = requests \ {line}

(* With the requests that stand when it is done.                            *)
read(requests) ==
  \/ /\ kbc.auxb
     /\ kbc' = ReadAux(kbc) /\ lower_irq(12, requests)
  \/ /\ ~kbc.auxb /\ kbc.outb
     /\ kbc' = ReadKbd(kbc) /\ lower_irq(1, requests)
  \/ /\ ~kbc.auxb /\ ~kbc.outb
     /\ request' = requests /\ UNCHANGED <<kbc, lineUp>>

(* The processor takes an interrupt; both handlers read port 60h.           *)
Interrupt(line) ==
  /\ line \in request
  /\ read(request \ {line})
  /\ UNCHANGED inputs

(* Software that polls reads when the status register shows a byte.         *)
PollData ==
  /\ kbc.outb
  /\ read(request)
  /\ UNCHANGED inputs

-----------------------------------------------------------------------------
(* Port 64h and port 60h written                                            *)

Becomes(k) == kbc' = k /\ UNCHANGED <<lineUp, request>>

Input ==
  /\ inputs < MaxInputs
  /\ inputs' = inputs + 1

(* The bytes of an answer find room, or it is a BX_PANIC; software that is  *)
(* not racy has read the buffer before it asks for an answer.               *)
Room(n) ==
  IF kbc.outb THEN Racy /\ Len(kbc.controllerQ) + n <= QSize ELSE n <= QSize + 1

Command == [kbc EXCEPT !.expecting = "none"]

(* 20h, A9h, ABh, C0h, D0h; CAh does not ask for an empty output buffer.    *)
(* With a byte in it 20h does nothing, the others are BX_PANICs.            *)
ReadController(mode) ==
  IF kbc.outb /\ ~mode THEN Becomes(Command)
  ELSE /\ Room(1)
       /\ Becomes(controller_enQ(Command, Bytes("keyboard", 1)[1]))

(* AAh; the first self test empties the buffer itself.                      *)
SelfTest ==
  LET k == IF kbc.tested THEN Command
           ELSE [Command EXCEPT !.controllerQ = <<>>, !.outb = FALSE, !.tested = TRUE]
  IN  /\ kbc.outb => Racy
      /\ Becomes(IF k.outb THEN k ELSE controller_enQ(k, Bytes("keyboard", 1)[1]))

EnableStarts_off(k, was) == k
EnableStarts(k, was) == IF ~was /\ ~k.outb THEN activate_timer(k) ELSE k

set_kbd_clock_enable(k, value) ==
  IF value THEN EnableStarts([k EXCEPT !.kbdClock = TRUE], k.kbdClock)
  ELSE [k EXCEPT !.kbdClock = FALSE]

set_aux_clock_enable(k, value) ==
  IF value THEN EnableStarts([k EXCEPT !.auxClock = TRUE], k.auxClock)
  ELSE [k EXCEPT !.auxClock = FALSE]

SetClock(device, value) ==
  Becomes(IF device = "keyboard" THEN set_kbd_clock_enable(Command, value)
                                 ELSE set_aux_clock_enable(Command, value))

(* 60h, D2h, D3h, D4h: the byte for the command comes next on port 60h.     *)
Expect(what) == Becomes([kbc EXCEPT !.expecting = what])

(* The command byte.  A byte that waits is announced again; careful         *)
(* software does not turn the mouse's interrupt off with its byte unread.   *)
WriteCommandByte(one, twelve, kbd, aux) ==
  /\ kbc.expecting = "command byte"
  /\ kbc.auxb /\ ~twelve => Racy
  /\ LET k == set_aux_clock_enable(
                set_kbd_clock_enable([Command EXCEPT !.allow1 = one, !.allow12 = twelve], kbd), aux)
     IN  Becomes([k EXCEPT !.irq12 = @ \/ (twelve /\ k.auxb),
                           !.irq1  = @ \/ (~(twelve /\ k.auxb) /\ one /\ k.outb)])

(* D2h and D3h: the byte appears in the buffer as if it came from there.    *)
WriteOutputBuffer(from) ==
  /\ kbc.expecting = (IF from = "keyboard" THEN "keyboard output" ELSE "mouse output")
  /\ Room(1)
  /\ Becomes(controller_enQ(Command, Bytes(from, 1)[1]))

AnswerLength(c) ==
  CASE c = "id" -> 2 [] c = "info" -> 4 [] c = "reset" -> 3 [] c = "ignored" -> 0 [] OTHER -> 1

(* kbd_ctrl_to_mouse; a parameter is only acknowledged.                     *)
kbd_ctrl_to_mouse(c) ==
  /\ kbc.expecting = "mouse"
  /\ LET n == IF kbc.mouseParameter THEN 1 ELSE AnswerLength(c)
         answered == ControllerAll([Command EXCEPT !.mouseParameter = FALSE], Bytes("mouse", n))
     IN  /\ Room(n)
         /\ Becomes(
              CASE kbc.mouseParameter            -> answered
                [] OTHER ->
                   CASE c = "param"              -> [answered EXCEPT !.mouseParameter = TRUE]
                     [] c = "enable"             -> [answered EXCEPT !.enable = TRUE]
                     [] c = "disable"            -> [answered EXCEPT !.enable = FALSE]
                     [] c \in {"reset", "defaults"} -> [answered EXCEPT !.enable = FALSE, !.remote = FALSE]
                     [] c = "remote"             -> [answered EXCEPT !.remote = TRUE]
                     [] c = "stream"             -> [answered EXCEPT !.remote = FALSE]
                     [] c = "read"               -> mouse_enQ_packet(answered)
                     [] OTHER                    -> answered)

resetinternals(k) == [k EXCEPT !.kbd = <<>>, !.parameter = FALSE]

(* kbd_ctrl_to_kbd; ED and 05 ("led", "resend") answer past the keyboard's  *)
(* own buffer, and the parameter of F0 may be answered by a byte more.      *)
kbd_ctrl_to_kbd(c) ==
  /\ kbc.expecting = "none"
  /\ LET k   == set_kbd_clock_enable(kbc, TRUE)
         ack(old) == KbdAll(old, Bytes("keyboard", 1))
     IN  IF kbc.parameter
         THEN \E n \in 1..2 : Becomes(KbdAll([k EXCEPT !.parameter = FALSE], Bytes("keyboard", n)))
         ELSE /\ c \in {"led", "resend"} => ~KbdFull(k) /\ (k.outb => Racy)
              /\ Becomes(
                   CASE c = "ack"      -> ack(k)
                     [] c = "param"    -> ack([k EXCEPT !.parameter = TRUE])
                     [] c = "led"      -> kbd_enQ_imm([k EXCEPT !.parameter = TRUE], Bytes("keyboard", 1)[1])
                     [] c = "resend"   -> kbd_enQ_imm(k, Bytes("keyboard", 1)[1])
                     [] c = "identify" -> KbdAll(k, Bytes("keyboard", 3))
                     [] c = "scan on"  -> ack([k EXCEPT !.scanning = TRUE])
                     [] c = "scan off" -> ack([resetinternals(k) EXCEPT !.scanning = FALSE])
                     [] c = "defaults" -> ack([resetinternals(k) EXCEPT !.scanning = TRUE])
                     [] c = "reset"    -> KbdAll([resetinternals(k) EXCEPT !.bat = TRUE], Bytes("keyboard", 2)))

Software ==
  /\ Input
  /\ \/ \E mode \in BOOLEAN : ReadController(mode)
     \/ SelfTest
     \/ \E device \in Senders, value \in BOOLEAN : SetClock(device, value)
     \/ \E what \in Expected \ {"none"} : Expect(what)
     \/ \E one, twelve, kbd, aux \in BOOLEAN : WriteCommandByte(one, twelve, kbd, aux)
     \/ \E from \in Senders : WriteOutputBuffer(from)
     \/ \E c \in MouseCommands : kbd_ctrl_to_mouse(c)
     \/ \E c \in KeyCommands : kbd_ctrl_to_kbd(c)

-----------------------------------------------------------------------------
(* The user                                                                 *)

(* A key of one byte or two is pressed or released.                         *)
gen_scancode(n) ==
  /\ kbc.kbdClock /\ kbc.scanning
  /\ Becomes(KbdAll(kbc, Bytes("keyboard", n)))

(* The mouse moves, or a button changes, which forces a packet.             *)
mouse_motion(moves, button) ==
  /\ kbc.enable /\ ~kbc.remote
  /\ moves \/ button
  /\ Becomes(create_mouse_packet([kbc EXCEPT !.delayed = @ \/ moves], button))

(* The window takes or leaves the host's mouse.                             *)
mouse_enabled_changed ==
  /\ kbc.delayed
  /\ Becomes(create_mouse_packet(kbc, TRUE))

User ==
  /\ Input
  /\ \/ \E n \in 1..2 : gen_scancode(n)
     \/ \E moves, button \in BOOLEAN : mouse_motion(moves, button)
     \/ mouse_enabled_changed

Next ==
  \/ periodic
  \/ \E line \in {1, 12} : Interrupt(line)
  \/ PollData
  \/ Software
  \/ User

(* The emulator's main loop runs the timer, the processor its interrupts;   *)
(* software need not poll.                                                  *)
Fairness ==
  /\ WF_vars(periodic)
  /\ \A line \in {1, 12} : WF_vars(Interrupt(line))

Spec == Init /\ [][Next]_vars /\ Fairness

-----------------------------------------------------------------------------
(* Properties                                                               *)

(* No queue is beyond its array.                                            *)
TypeOK ==
  /\ {kbc.kbdOut, kbc.auxOut} \subseteq Byte \cup {None}
  /\ Len(kbc.controllerQ) <= QSize /\ Len(kbc.kbd) <= KbdElements /\ Len(kbc.mouse) < MouseBuffSize
  /\ {kbc.controllerQ, kbc.kbd, kbc.mouse} \subseteq Seq(Byte)
  /\ kbc.expecting \in Expected
  /\ request \subseteq lineUp /\ lineUp \subseteq {1, 12}

(* No byte waits behind an empty buffer without the timer on its way,       *)
(* whatever clocks were stopped and started, however often, around it; a    *)
(* buffer bit of the mouse is never left behind ("auxb == 1 && outb == 0    *)
(* => not used", keyboard.cc 31), and "the Q is empty" when outb is clear   *)
(* (keyboard.cc 753).                                                       *)
NothingStranded ==
  ~kbc.outb =>
    /\ ~kbc.auxb /\ kbc.controllerQ = <<>>
    /\ kbc.kbd # <<>> /\ kbc.kbdClock => kbc.timer
    /\ (kbc.mouse # <<>> \/ kbc.delayed) /\ kbc.auxClock => kbc.timer

(* The status register says whose byte is in the buffer (keyboard.cc 28-32):*)
(* "auxb == 1 && outb == 1 => mouse output buffer full".                    *)
BufferTellsSource ==
  kbc.outb => IF kbc.auxb THEN kbc.auxOut[1] = "mouse" ELSE kbc.kbdOut[1] = "keyboard"

(* What each device has sent and software has not read.                     *)
KbdStream(k)   == (IF k.outb /\ ~k.auxb THEN <<k.kbdOut>> ELSE <<>>) \o k.kbd
MouseStream(k) == (IF k.outb /\ k.auxb THEN <<k.auxOut>> ELSE <<>>) \o k.controllerQ \o k.mouse

(* What one step sends: bytes that are new, behind all that is unread.      *)
Behind(from, old, new) == \E n \in 0..4 : new = old \o Bytes(from, n)

(* With an answer that the controller puts into the empty buffer at once,   *)
(* past what waits in the device's own queue.                               *)
Ahead(from, old, new) ==
  \E m \in 1..4, n \in 0..4 : new = Bytes(from, m) \o (old \o Bytes(from, n))

Reading == PollData \/ \E line \in {1, 12} : Interrupt(line)

KeyCommand(commands) == ~kbc.parameter /\ \E c \in KeyCommands \cap commands : kbd_ctrl_to_kbd(c)
Flush      == KeyCommand({"scan off", "defaults", "reset"})

AnswersKeys ==
  \/ \E mode \in BOOLEAN : ReadController(mode)
  \/ SelfTest \/ WriteOutputBuffer("keyboard") \/ KeyCommand({"led", "resend"})

AnswersMouse == WriteOutputBuffer("mouse") \/ \E c \in MouseCommands : kbd_ctrl_to_mouse(c)

(* A byte sent leaves its stream by being read, in its turn, once, or with  *)
(* the keyboard's buffer when that is reset.  What is sent later stays      *)
(* behind it, whatever the timer, the clocks and the commands do meanwhile, *)
(* with one exception: the answers of the controller and of the mouse, and  *)
(* of the keyboard to ED and 05 (keyboard.cc 802), go ahead of what waits.  *)
StreamsKeepOrder ==
  [][IF Reading
     THEN /\ KbdStream(kbc') =
               IF kbc.outb /\ ~kbc.auxb THEN Tail(KbdStream(kbc)) ELSE KbdStream(kbc)
          /\ MouseStream(kbc') =
               IF kbc.outb /\ kbc.auxb THEN Tail(MouseStream(kbc)) ELSE MouseStream(kbc)
     ELSE /\ \/ Behind("keyboard", KbdStream(kbc), KbdStream(kbc'))
             \/ AnswersKeys /\ Ahead("keyboard", KbdStream(kbc), KbdStream(kbc'))
             \/ Flush /\ Behind("keyboard", KbdStream([kbc EXCEPT !.kbd = <<>>]), KbdStream(kbc'))
          /\ \/ Behind("mouse", MouseStream(kbc), MouseStream(kbc'))
             \/ AnswersMouse /\ Ahead("mouse", MouseStream(kbc), MouseStream(kbc'))]_vars

(* Interrupts alone empty the controller: once both clocks run and both     *)
(* interrupts are allowed for good, every byte is read by a handler.  One   *)
(* edge lost, or raised for nobody, and a stream stops for ever.            *)
Serving == kbc.kbdClock /\ kbc.auxClock /\ kbc.allow1 /\ kbc.allow12

InterruptsDrain ==
  <>[]Serving =>
    <>[](~kbc.outb /\ KbdStream(kbc) = <<>> /\ MouseStream(kbc) = <<>> /\ ~kbc.delayed)
=============================================================================
