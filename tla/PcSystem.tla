------------------------------ MODULE PcSystem ------------------------------
(***************************************************************************)
(* pc_system.cc of Bochs: the timers all devices share.                     *)
(*                                                                         *)
(* Time is counted down in one 32-bit counter, from the last event to the   *)
(* next timer that is due; the current time is the ticks up to the last     *)
(* event and what has been counted since.  Whoever sets a timer that is due *)
(* earlier shortens the countdown under way.  At an event the timers that   *)
(* are due are noted first and their callbacks called afterwards, in the    *)
(* order of their slots; a callback may do to any timer what a device may   *)
(* do between instructions.  tickn(n) is n times tick1.                     *)
(* Left out: the conversion of microseconds to ticks, the callbacks' work.  *)
(***************************************************************************)
EXTENDS Integers

CONSTANTS
  MaxTimers,          \* BX_MAX_TIMERS: slots, the null timer's included (64)
  NullTimerInterval,  \* the period of timer 0 (2^32 - 1)
  MaxCountdown,       \* the counter's width: values below this one (2^32)
  Periods,            \* the ticks devices ask for
  MaxTime             \* bound on the time, for the model checker

ASSUME PcSystemAssumption ==
  /\ MaxTimers \in Nat /\ MaxTimers > 1
  /\ NullTimerInterval \in Nat \ {0} /\ MaxCountdown \in Nat
  /\ NullTimerInterval < MaxCountdown
  /\ Periods \subseteq Nat /\ MaxTime \in Nat

VARIABLES
  timer,                \* the slots
  numTimers,            \* slots from this one on have never been used, or again
  ticksTotal,           \* time of the last event
  currCountdownPeriod,  \* from the last event to the next
  currCountdown,        \* what is left of it
  triggered,            \* timers due at this event, not yet called
  triggeredTimer,       \* the timer whose callback runs; 0 for none
  touched               \* history: timers set or stopped since the event

clock == <<ticksTotal, currCountdownPeriod, currCountdown>>
vars  == <<timer, numTimers, clock, triggered, triggeredTimer, touched>>

Slots == 0..(MaxTimers - 1)
Timer == [inUse : BOOLEAN, active : BOOLEAN, continuous : BOOLEAN,
          period : Nat, timeToFire : Nat]

Unused == [inUse |-> FALSE, active |-> FALSE, continuous |-> FALSE, period |-> 0, timeToFire |-> 0]
Null   == [inUse |-> TRUE, active |-> TRUE, continuous |-> TRUE,
           period |-> NullTimerInterval, timeToFire |-> NullTimerInterval]

Init ==
  /\ timer = [i \in Slots |-> IF i = 0 THEN Null ELSE Unused]
  /\ numTimers = 1
  /\ ticksTotal = 0
  /\ currCountdown = NullTimerInterval /\ currCountdownPeriod = NullTimerInterval
  /\ triggered = {} /\ triggeredTimer = 0 /\ touched = {}

time_ticks == ticksTotal + (currCountdownPeriod - currCountdown)

-----------------------------------------------------------------------------
(* The processor: between instructions nothing is left of an event.         *)
BetweenEvents == triggered = {} /\ triggeredTimer = 0

Tick ==
  /\ BetweenEvents /\ time_ticks < MaxTime
  /\ currCountdown > 1
  /\ currCountdown' = currCountdown - 1
  /\ touched' = {}
  /\ UNCHANGED <<timer, numTimers, ticksTotal, currCountdownPeriod, triggered, triggeredTimer>>

(* countdownEvent: the counter has come to zero.                            *)
Now     == ticksTotal + currCountdownPeriod
IsDue(i) == i < numTimers /\ timer[i].active /\ timer[i].timeToFire = Now

Fired_off(t) ==          \* the next period begins with the next event
  IF t.continuous THEN [t EXCEPT !.timeToFire = @ + t.period + 1] ELSE [t EXCEPT !.active = FALSE]
Fired(t) ==
  IF t.continuous THEN [t EXCEPT !.timeToFire = @ + t.period] ELSE [t EXCEPT !.active = FALSE]

NextDue(timers) ==
  CHOOSE d \in {timers[i].timeToFire : i \in {j \in Slots : j < numTimers /\ timers[j].active}} :
    \A i \in Slots : i < numTimers /\ timers[i].active => d <= timers[i].timeToFire

CountdownEvent ==
  /\ BetweenEvents /\ time_ticks < MaxTime
  /\ currCountdown = 1
  /\ ticksTotal' = Now
  /\ triggered' = {i \in Slots : IsDue(i)}
  /\ timer' = [i \in Slots |-> IF IsDue(i) THEN Fired(timer[i]) ELSE timer[i]]
  /\ currCountdownPeriod' = (NextDue(timer') - Now) % MaxCountdown
  /\ currCountdown' = currCountdownPeriod'
  /\ touched' = {}
  /\ UNCHANGED <<numTimers, triggeredTimer>>

(* The callbacks, in the order of the slots.  A slot without one is skipped,*)
(* and so is the null timer, whose callback does nothing.                   *)
Call ==
  /\ triggeredTimer = 0
  /\ \E i \in triggered :
       /\ \A j \in triggered : i <= j
       /\ triggered' = triggered \ {i}
       /\ triggeredTimer' = IF timer[i].inUse THEN i ELSE 0
  /\ UNCHANGED <<timer, numTimers, clock, touched>>

Return ==
  /\ triggeredTimer # 0
  /\ triggeredTimer' = 0
  /\ UNCHANGED <<timer, numTimers, clock, triggered, touched>>

-----------------------------------------------------------------------------
(* The devices, between instructions or in a callback.                      *)
DeviceRuns == BetweenEvents \/ triggeredTimer # 0

Sane(ticks) == IF ticks < 1 THEN 1 ELSE ticks      \* MinAllowableTimerPeriod

(* "This new timer needs to fire before the current countdown."             *)
Skew_off(ticks) ==       \* compared in the counter's width
  IF ticks % MaxCountdown < currCountdown
  THEN /\ currCountdownPeriod' = currCountdownPeriod - (currCountdown - (ticks % MaxCountdown))
       /\ currCountdown' = ticks % MaxCountdown
  ELSE UNCHANGED <<currCountdownPeriod, currCountdown>>

Skew_off2(ticks) ==      \* the period is forgotten
  /\ currCountdown' = IF ticks < currCountdown THEN ticks ELSE currCountdown
  /\ UNCHANGED currCountdownPeriod

Skew(ticks) ==
  IF ticks < currCountdown
  THEN /\ currCountdownPeriod' = currCountdownPeriod - (currCountdown - ticks)
       /\ currCountdown' = ticks
  ELSE UNCHANGED <<currCountdownPeriod, currCountdown>>

Touch(i) ==
  /\ touched' = touched \cup {i}
  /\ UNCHANGED <<ticksTotal, triggered, triggeredTimer>>

(* The first free slot.  With the last slot in use register is a BX_PANIC,  *)
(* free slots before it or not.                                             *)
FreeSlot(i) ==
  /\ i \in 1..numTimers /\ \A j \in 1..(i - 1) : timer[j].inUse
  /\ i < numTimers => ~timer[i].inUse

register_timer_ticks(ticks, continuous, active) ==
  /\ DeviceRuns /\ numTimers < MaxTimers
  /\ \E i \in Slots :
       /\ FreeSlot(i)
       /\ timer' = [timer EXCEPT ![i] =
            [inUse |-> TRUE, active |-> active, continuous |-> continuous,
             period |-> ticks, timeToFire |-> time_ticks + ticks]]
       /\ numTimers' = IF i = numTimers THEN numTimers + 1 ELSE numTimers
       /\ Touch(i)
  /\ IF active THEN Skew(ticks) ELSE UNCHANGED <<currCountdownPeriod, currCountdown>>

activate_timer_ticks(i, ticks, continuous) ==
  /\ DeviceRuns /\ timer[i].inUse
  /\ timer' = [timer EXCEPT ![i] =
       [@ EXCEPT !.period = ticks, !.timeToFire = time_ticks + ticks,
                 !.active = TRUE, !.continuous = continuous]]
  /\ Skew(ticks)
  /\ Touch(i)
  /\ UNCHANGED numTimers

deactivate_timer(i) ==
  /\ DeviceRuns /\ timer[i].inUse
  /\ timer' = [timer EXCEPT ![i] = [@ EXCEPT !.active = FALSE]]
  /\ Touch(i)
  /\ UNCHANGED <<numTimers, currCountdownPeriod, currCountdown>>

(* "still active!" is a BX_PANIC.                                           *)
unregisterTimer_off(i) ==
  /\ DeviceRuns /\ timer[i].inUse /\ ~timer[i].active
  /\ timer' = [timer EXCEPT ![i] = Unused]
  /\ numTimers' = numTimers - 1
  /\ Touch(i)
  /\ UNCHANGED <<currCountdownPeriod, currCountdown>>

unregisterTimer(i) ==
  /\ DeviceRuns /\ timer[i].inUse /\ ~timer[i].active
  /\ timer' = [timer EXCEPT ![i] = Unused]
  /\ numTimers' = IF i = numTimers - 1 THEN numTimers - 1 ELSE numTimers
  /\ Touch(i)
  /\ UNCHANGED <<currCountdownPeriod, currCountdown>>

DeviceStep ==
  \/ \E t \in Periods, continuous, active \in BOOLEAN :
       register_timer_ticks(Sane(t), continuous, active)
  \/ \E i \in Slots \ {0} :
       \/ \E t \in Periods \cup {timer[i].period}, continuous \in BOOLEAN :
            activate_timer_ticks(i, Sane(t), continuous)
       \/ deactivate_timer(i)
       \/ unregisterTimer(i)

Next == Tick \/ CountdownEvent \/ Call \/ Return \/ DeviceStep

Spec == Init /\ [][Next]_vars

-----------------------------------------------------------------------------
(* Properties                                                               *)

TypeOK ==
  /\ timer \in [Slots -> Timer]
  /\ numTimers \in 1..MaxTimers
  /\ ticksTotal \in Nat
  /\ currCountdownPeriod \in 1..(MaxCountdown - 1) /\ currCountdown \in 1..currCountdownPeriod
  /\ triggered \subseteq Slots /\ triggeredTimer \in Slots /\ touched \subseteq Slots

(* Neither the countdown nor the search for due timers can pass one by:     *)
(* whatever was set, stopped, registered and taken out in callbacks, an     *)
(* active timer is among the slots searched, and not due before the next    *)
(* event ("ticksTotal > timeToFire" is a BX_PANIC of the debugging build).  *)
NoTimerIsPassed ==
  \A i \in Slots : timer[i].active =>
    /\ timer[i].inUse /\ i < numTimers
    /\ Now <= timer[i].timeToFire

(* A callback comes at the very tick its timer was set for, and a periodic  *)
(* timer is then set a period later; except for what callbacks of the same  *)
(* tick have done to it, which comes too late to call it off.               *)
CallsAreDue ==
  triggeredTimer # 0 /\ triggeredTimer \notin touched =>
    LET t == timer[triggeredTimer] IN
    /\ t.active <=> t.continuous
    /\ t.timeToFire = ticksTotal + (IF t.continuous THEN t.period ELSE 0)

(* The countdown implements the alarm clock.                                *)
Clock == INSTANCE AlarmClock WITH
  Timers  <- Slots,
  Off     <- -1,
  now     <- time_ticks,
  alarm   <- [i \in Slots |-> IF timer[i].active THEN timer[i].timeToFire ELSE -1],
  ringing <- triggered

KeepsTime == Clock!Spec
=============================================================================
