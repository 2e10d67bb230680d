--------------------------- MODULE IntervalTimer ---------------------------
(***************************************************************************)
(* The interval timer of Bochs: the three counters of iodev/pit82c54.cc and *)
(* the device around them, iodev/pit.cc.                                    *)
(*                                                                         *)
(* A counter is not clocked: it says after how many clocks something other  *)
(* than its count changes (next, 0 for never), the device sets one virtual  *)
(* timer to the nearest of these times, and the clocks in between are made  *)
(* up for in one step when the timer fires or software accesses a port.     *)
(* OUT of counter 0 is interrupt line 0, so its rises are the timer ticks.  *)
(*                                                                         *)
(* Left out: BCD counting, the bits of the status byte, the speaker.        *)
(***************************************************************************)
EXTENDS Integers, Sequences, FiniteSets

CONSTANTS
  Counters,   \* the counters in use, of 0..2
  Byte,       \* the number of values of a byte: 256
  Programs,   \* the modes and byte orders of the control words for each counter
  Counts,     \* the bytes software writes to each counter
  Latchable,  \* the counters software latches
  MaxClocks   \* most clocks that pass at once while no event is announced

Top    == Byte * Byte
Orders == {"LSB", "MSB", "both"}

ASSUME IntervalTimerAssumption ==
  /\ Byte \in Nat /\ Byte > 1 /\ Byte % 2 = 0
  /\ Counters \subseteq 0..2
  /\ Programs \in [Counters -> SUBSET ((0..7) \X Orders)]
  /\ Counts \in [Counters -> SUBSET (0 .. Byte - 1)]
  /\ MaxClocks \in Nat \ {0}

VARIABLES
  counter,   \* the counters
  owed       \* the bytes that reads of a latched counter are still to give

vars == <<counter, owed>>

Low(count)  == count % Byte
High(count) == count \div Byte

(* A counter_type, as init() leaves it.  null says that a new count has not *)
(* been loaded (null_count), written that there has been one since the      *)
(* control word (count_written), trigger that the gate rose (triggerGATE);  *)
(* odd and reload are state_bit_1 and state_bit_2.  inlatch and outlatch    *)
(* are not initialized, and not read before they are written.               *)
PowerOn ==
  [gate |-> TRUE, out |-> TRUE, count |-> 0, outlatch |-> 0, inlatch |-> 0, mode |-> 4,
   null |-> FALSE, lsbLatched |-> FALSE, msbLatched |-> FALSE, statusLatched |-> FALSE,
   trigger |-> FALSE, write |-> "LSB", read |-> "LSB", written |-> TRUE,
   firstPass |-> FALSE, odd |-> FALSE, reload |-> FALSE, next |-> 0]

Init ==
  /\ counter = [i \in Counters |-> PowerOn]
  /\ owed = [i \in Counters |-> <<>>]

-----------------------------------------------------------------------------
(* clock: one pulse, by mode.  A counter without a count does nothing.      *)
Half(c)  == c.write = "MSB_multiple"
Minus(n, k) == (n - k) % Top
Positive(n) == IF n = 0 THEN 1 ELSE n

Clock0(c) ==
  LET n == Minus(c.count, 1) IN
  CASE c.null -> [c EXCEPT !.count = c.inlatch, !.null = FALSE,
                           !.next = IF c.gate THEN Positive(c.inlatch) ELSE 0]
    [] ~c.null /\ c.gate /\ ~Half(c) ->
         [c EXCEPT !.count = n, !.next = IF c.out THEN 0 ELSE n, !.out = @ \/ n = 0]
    [] OTHER -> [c EXCEPT !.next = 0]

Clock1(c) ==
  LET n == Minus(c.count, 1) IN
  IF c.trigger
  THEN [c EXCEPT !.count = c.inlatch, !.next = Positive(c.inlatch), !.null = FALSE,
                 !.out = FALSE]
  ELSE [c EXCEPT !.count = n, !.next = IF c.out THEN 0 ELSE Positive(n), !.out = @ \/ n = 0]

Clock2(c) ==
  LET n == Minus(c.count, 1) IN
  CASE c.trigger \/ c.firstPass ->
         [c EXCEPT !.count = c.inlatch, !.next = Minus(c.inlatch, 1), !.null = FALSE,
                   !.out = TRUE, !.firstPass = FALSE]
    [] ~(c.trigger \/ c.firstPass) /\ c.gate ->
         IF n = 1 THEN [c EXCEPT !.count = 1, !.next = 1, !.out = FALSE, !.firstPass = TRUE]
         ELSE [c EXCEPT !.count = n, !.next = Minus(n, 1)]
    [] OTHER -> [c EXCEPT !.next = 0]

(* The square wave counts by two; its high half is one clock longer when    *)
(* the count is odd.                                                        *)
Longer(c) == c.out /\ c.odd

Load3(c) ==
  LET o    == c.inlatch % 2 = 1
      n    == c.inlatch - (c.inlatch % 2)
      half == IF ~c.out \/ ~o THEN (n \div 2) - 1 ELSE n \div 2
  IN  [c EXCEPT !.count = n, !.odd = o, !.null = FALSE,
                !.next = IF half = 0 THEN 1 ELSE half % Top,
                !.out = IF c.out THEN c.firstPass ELSE TRUE,
                !.reload = FALSE, !.firstPass = FALSE]

Count3_off(c) ==
  LET n    == Minus(c.count, 2)
      half == IF Longer(c) THEN n \div 2 ELSE (n \div 2) - 1
  IN  [c EXCEPT !.count = n, !.next = IF n = 0 THEN 1 ELSE half % Top, !.reload = @ \/ n = 0]

Count3(c) ==
  LET n    == Minus(c.count, 2)
      last == n = 0 \/ (n = 2 /\ ~Longer(c))
      half == IF Longer(c) THEN n \div 2 ELSE (n \div 2) - 1
  IN  [c EXCEPT !.count = n, !.next = IF last THEN 1 ELSE half % Top, !.reload = @ \/ last]

Clock3(c) ==
  CASE (c.trigger \/ c.firstPass \/ c.reload) /\ c.gate    -> Load3(c)
    [] ~(c.trigger \/ c.firstPass \/ c.reload) /\ c.gate -> Count3(c)
    [] OTHER -> [c EXCEPT !.next = 0]

(* The strobes of modes 4 and 5, one clock low when the count runs out.     *)
Strobe(c) ==
  LET n == Minus(c.count, 1) IN
  CASE ~c.firstPass          -> [c EXCEPT !.count = n, !.next = 0]
    [] c.firstPass /\ n = 0  -> [c EXCEPT !.count = 0, !.next = 1, !.out = FALSE,
                                          !.firstPass = FALSE]
    [] OTHER                 -> [c EXCEPT !.count = n, !.next = n]

Clock4(c) ==
  LET h == [c EXCEPT !.out = TRUE] IN
  CASE c.null -> [h EXCEPT !.count = c.inlatch, !.null = FALSE, !.firstPass = TRUE,
                           !.next = IF c.gate THEN Positive(c.inlatch) ELSE 0]
    [] ~c.null /\ c.gate -> Strobe(h)
    [] OTHER -> [h EXCEPT !.next = 0]

Clock5(c) ==
  LET h == [c EXCEPT !.out = TRUE] IN
  IF c.trigger
  THEN [h EXCEPT !.count = c.inlatch, !.next = Positive(c.inlatch), !.null = FALSE,
                 !.firstPass = TRUE]
  ELSE Strobe(h)

Clock(c) ==
  LET d == IF ~c.written THEN [c EXCEPT !.next = 0]
           ELSE CASE c.mode = 0 -> Clock0(c) [] c.mode = 1 -> Clock1(c)
                  [] c.mode = 2 -> Clock2(c) [] c.mode = 3 -> Clock3(c)
                  [] c.mode = 4 -> Clock4(c) [] c.mode = 5 -> Clock5(c)
                  [] OTHER -> [c EXCEPT !.next = 0]
  IN  [d EXCEPT !.trigger = FALSE]

(* clock_multiple: the count is lowered by as many clocks as change nothing *)
(* else, and the clock that does change something is carried out.           *)
Lower(c, n) == [c EXCEPT !.count = Minus(@, n)]
Step_off(c) == 1
Step(c)     == IF c.mode = 3 THEN 2 ELSE 1

Runs(c) ==
  /\ c.written
  /\ \/ c.mode = 0 /\ c.gate /\ ~Half(c)
     \/ c.mode \in {1, 5}
     \/ c.mode \in {2, 3} /\ ~c.firstPass /\ c.gate
     \/ c.mode = 4 /\ c.gate

(* A while loop: its body, until nothing is left to be done.                *)
Iterate(Body(_), s, n) ==
  LET turn[k \in 0..n] == IF k = 0 THEN s ELSE Body(turn[k - 1])
  IN  turn[n]

Turn(t) ==
  LET c == t.counter
      n == t.clocks
      left(d, m) == [counter |-> d, clocks |-> m]
  IN  CASE n = 0                                -> t
        [] n > 0 /\ c.next = 0                  ->
             left(IF Runs(c) THEN Lower(c, Step(c) * n) ELSE c, 0)
        [] n > 0 /\ c.next > 0 /\ c.mode > 5    -> left(c, 0)
        [] n > 0 /\ c.next > n /\ c.mode <= 5   ->
             left([Lower(c, Step(c) * n) EXCEPT !.next = @ - n], 0)
        [] OTHER -> left(Clock(Lower(c, Step(c) * (c.next - 1))), n - c.next)

ClockMultiple(c, n) == Iterate(Turn, [counter |-> c, clocks |-> n], n).counter

(* get_next_event_time: the time of counter 0, unless another one is less:  *)
(* never, while counter 0 has no event, whatever the others wait for.       *)
NextEvent(cs) ==
  LET time(i) == IF i \in Counters THEN cs[i].next ELSE 0
      nearer  == {time(i) : i \in {j \in 1..2 : time(j) # 0 /\ time(j) < time(0)}}
  IN  IF nearer = {} THEN time(0) ELSE CHOOSE t \in nearer : \A u \in nearer : t <= u

(* periodic: the clocks that have passed, from event to event.              *)
Portion(t) ==
  LET event == NextEvent(t.counters)
      n     == IF event = 0 \/ event > t.clocks THEN t.clocks ELSE event
  IN  [counters |-> [i \in Counters |-> ClockMultiple(t.counters[i], n)],
       clocks   |-> t.clocks - n]

Periodic(cs, clocks) == Iterate(Portion, [counters |-> cs, clocks |-> clocks], clocks).counters

(* handle_timer: called by the virtual timer and first of all by every      *)
(* access.  The timer was set to the next event in microseconds, rounded    *)
(* down but not to 0: it may be a clock late.                               *)
Latest == IF NextEvent(counter) = 0 THEN MaxClocks ELSE NextEvent(counter) + 1

HandleTimer ==
  /\ \E clocks \in 1..Latest : counter' = Periodic(counter, clocks)
  /\ UNCHANGED owed

-----------------------------------------------------------------------------
(* Control words                                                            *)
First(order) == IF order = "both" THEN "LSB_multiple" ELSE order

Programmed(c, mode, order) ==
  [c EXCEPT !.null = TRUE, !.lsbLatched = FALSE, !.msbLatched = FALSE,
            !.statusLatched = FALSE, !.inlatch = 0, !.written = FALSE, !.firstPass = TRUE,
            !.mode = mode, !.read = First(order), !.write = First(order),
            !.out = mode # 0, !.next = 0]

Program(i) ==
  \E p \in Programs[i] :
    /\ counter' = [counter EXCEPT ![i] = Programmed(@, p[1], p[2])]
    /\ owed' = [owed EXCEPT ![i] = <<>>]

(* latch_counter: a count that has not been read is not latched again.      *)
Latched(c) == c.lsbLatched \/ c.msbLatched

LatchCounter_off(c) ==
  [c EXCEPT !.outlatch = c.count, !.lsbLatched = c.read # "MSB", !.msbLatched = c.read # "LSB",
            !.read = IF @ = "MSB_multiple" THEN "LSB_multiple" ELSE @]

LatchCounter(c) ==
  IF Latched(c) THEN c
  ELSE [c EXCEPT !.outlatch = c.count,
                 !.lsbLatched = c.read # "MSB",
                 !.msbLatched = c.read # "LSB",
                 !.read = IF @ = "MSB_multiple" THEN "LSB_multiple" ELSE @]

Promised(c) ==
  CASE c.read = "LSB" -> <<Low(c.count)>> [] c.read = "MSB" -> <<High(c.count)>>
    [] OTHER -> <<Low(c.count), High(c.count)>>

LatchOf(which, count, status) ==
  /\ counter' = [i \in Counters |->
       LET c == IF i \in which /\ count THEN LatchCounter(counter[i]) ELSE counter[i]
       IN  IF i \in which /\ status THEN [c EXCEPT !.statusLatched = TRUE] ELSE c]
  /\ owed' = [i \in Counters |->
       IF i \in which /\ count /\ ~Latched(counter[i]) THEN Promised(counter[i]) ELSE owed[i]]

Latch    == \E i \in Latchable : LatchOf({i}, TRUE, FALSE)
ReadBack == \E which \in SUBSET Latchable, count, status \in BOOLEAN :
              LatchOf(which, count, status)

-----------------------------------------------------------------------------
(* The ports of the counters                                                *)
Toggled(state) ==
  CASE state = "LSB_multiple" -> "MSB_multiple" [] state = "MSB_multiple" -> "LSB_multiple"
    [] OTHER -> state

(* A status byte goes before the count, but not between its two bytes: then *)
(* every read gives 0 and changes nothing.                                  *)
Undefined(c) == c.statusLatched /\ c.msbLatched /\ c.read = "MSB_multiple"

ReadsLow(c) == c.lsbLatched \/ (~c.msbLatched /\ c.read \in {"LSB", "LSB_multiple"})

NextByte(c) ==
  LET value == IF Latched(c) THEN c.outlatch ELSE c.count
  IN  IF ReadsLow(c) THEN Low(value) ELSE High(value)

AfterRead(c) ==
  CASE Undefined(c)                       -> c
    [] ~Undefined(c) /\ c.statusLatched   -> [c EXCEPT !.statusLatched = FALSE]
    [] ~c.statusLatched /\ c.lsbLatched   ->
         [c EXCEPT !.lsbLatched = FALSE,
                   !.read = IF @ = "LSB_multiple" THEN "MSB_multiple" ELSE @]
    [] ~c.statusLatched /\ ~c.lsbLatched /\ c.msbLatched ->
         [c EXCEPT !.msbLatched = FALSE,
                   !.read = IF @ = "MSB_multiple" THEN "LSB_multiple" ELSE @]
    [] OTHER -> [c EXCEPT !.read = Toggled(@)]

Read(i) ==
  /\ counter' = [counter EXCEPT ![i] = AfterRead(@)]
  /\ owed' = [owed EXCEPT ![i] = IF counter[i].statusLatched \/ @ = <<>> THEN @ ELSE Tail(@)]

Taken(c, byte) ==
  CASE c.write = "LSB_multiple" -> [c EXCEPT !.inlatch = byte, !.write = "MSB_multiple"]
    [] c.write = "LSB"          -> [c EXCEPT !.inlatch = byte, !.written = TRUE]
    [] c.write = "MSB_multiple" -> [c EXCEPT !.inlatch = Low(@) + byte * Byte,
                                             !.write = "LSB_multiple", !.written = TRUE]
    [] c.write = "MSB"          -> [c EXCEPT !.inlatch = byte * Byte, !.written = TRUE]

Loaded(c) ==
  IF c.written /\ ~Half(c) THEN [c EXCEPT !.null = TRUE, !.count = c.inlatch] ELSE c

Written(c, byte) ==
  LET d == Loaded(Taken(c, byte)) IN
  [d EXCEPT !.out  = @ /\ ~(c.mode = 0 /\ Half(d)),
            !.next = IF c.mode \in {1, 5} /\ ~c.trigger THEN @ ELSE 1]

Write(i) ==
  /\ \E byte \in Counts[i] : counter' = [counter EXCEPT ![i] = Written(@, byte)]
  /\ UNCHANGED owed

(* set_GATE: the gate of counter 2 is bit 0 of port 61h.                    *)
Resumes(c) == IF c.count = 0 THEN 1 ELSE c.count

Gated(c, on) ==
  LET g == [c EXCEPT !.gate = on, !.trigger = @ \/ on] IN
  CASE c.mode = 0 ->
         [g EXCEPT !.next =
            CASE c.null -> 1
              [] ~c.null /\ on /\ c.written /\ ~c.out /\ ~Half(c) -> Resumes(c)
              [] OTHER -> 0]
    [] c.mode \in {1, 5} -> [g EXCEPT !.next = IF on /\ c.written THEN 1 ELSE @]
    [] c.mode \in {2, 3} ->
         [g EXCEPT !.out = @ \/ ~on,
                   !.firstPass = @ \/ (c.mode = 3 /\ ~on),
                   !.next = IF on /\ c.written THEN 1 ELSE 0]
    [] c.mode = 4 ->
         [g EXCEPT !.next =
            CASE ~c.out \/ c.null -> 1
              [] c.out /\ ~c.null /\ on /\ c.written /\ c.firstPass -> Resumes(c)
              [] OTHER -> 0]
    [] OTHER -> g

SetGate ==
  /\ 2 \in Counters
  /\ counter' = [counter EXCEPT ![2] = Gated(@, ~@.gate)]
  /\ UNCHANGED owed

-----------------------------------------------------------------------------
Software ==
  \/ \E i \in Counters : Program(i) \/ Read(i) \/ Write(i)
  \/ Latch \/ ReadBack \/ SetGate

Next == HandleTimer \/ Software

Spec == Init /\ [][Next]_vars

-----------------------------------------------------------------------------
(* Properties                                                               *)

(* The counters for which the clocks skipped are those that would have come.*)
(* The others, each for a reason of the code: a half-written count, once    *)
(* loaded, counts although it stands still (pit82c54.cc 350, 357); mode 2   *)
(* announces an event, and counts, also with the gate closed (414), and     *)
(* stops for ever with a count of 1, which is invalid (416); mode 3 takes   *)
(* the half period of a count of 0 for 65536 clocks instead of 32768 (454), *)
(* and that of an odd one by OUT before it changes (450, 467); modes 1 and  *)
(* 5 count on before their trigger, unseen (391, 566), and take a new count *)
(* at once (784).                                                           *)
Exact(c) ==
  /\ ~Half(c)
  /\ c.mode = 2 => c.gate /\ c.inlatch # 1
  /\ c.mode = 3 => c.inlatch # 0 /\ c.inlatch % 2 = 0
  /\ c.mode \in {1, 5} => ~c.null

Clocked(c, n) == Iterate(Clock, c, n)

Seen(c) == [c EXCEPT !.trigger = FALSE, !.next = 0]

(* To make up for n clocks at once is to be clocked n times: count, OUT and *)
(* the loads and reloads on the way are the same (clock_multiple, 257-333,  *)
(* against clock, 335-590), whatever was written or gated before, over an   *)
(* event and the one after it, and for as long as the count can run when    *)
(* "0 means never" (pit82c54.h 94-95).  The virtual timer, if it runs, is   *)
(* not set past the event of any counter.                                   *)
SkippingIsClocking ==
  \A i \in Counters :
    LET c     == counter[i]
        event == NextEvent(counter)
    IN  /\ Exact(c) =>
             \A n \in 1 .. (IF c.next = 0 THEN Top ELSE c.next + 2) :
               Seen(ClockMultiple(c, n)) = Seen(Clocked(c, n))
        /\ event # 0 /\ c.next # 0 => event <= c.next

(* A running rate generator or square wave: the count of 2 of mode 3 takes  *)
(* four clocks, as each half is loaded in one and counted out in another.   *)
Oscillates(c) ==
  /\ c.written /\ c.gate /\ ~c.null /\ ~c.trigger /\ ~Half(c)
  /\ \/ c.mode = 2 /\ c.inlatch # 1
     \/ c.mode = 3 /\ c.inlatch % 2 = 0 /\ c.inlatch > 2

Period(c) == IF c.inlatch = 0 THEN Top ELSE c.inlatch

Rises(c) == {n \in 1 .. Period(c) : ~ClockMultiple(c, n - 1).out /\ ClockMultiple(c, n).out}

(* Time is kept: from any moment on OUT rises once in as many clocks as the *)
(* count says, a count of 0 standing for 2^16 (pit.cc 323), however the     *)
(* clocks come in (pit82c54.cc 410-504).                                    *)
PeriodsTick ==
  \A i \in Counters : Oscillates(counter[i]) => Cardinality(Rises(counter[i])) = 1

(* The bytes read after a latch are those of the count at the latch, low    *)
(* byte first, with clocks, further latches, read-back commands, status     *)
(* reads and writes in between (latch_counter, 75-112; read, 616-642).      *)
LatchesAreKept ==
  \A i \in Counters : owed[i] # <<>> =>
    Latched(counter[i]) /\ NextByte(counter[i]) = Head(owed[i])
=============================================================================
