--------------------------- MODULE PcSystem_proofs ---------------------------
(***************************************************************************)
(* The timers of the machine with any number of slots, any width of the     *)
(* counter that holds the null timer's period, and any periods.             *)
(***************************************************************************)
EXTENDS PcSystem, WellFoundedInduction, TLAPS

(* What the properties do not say of themselves: the null timer always runs *)
(* and is due in the counter's reach, and a slot in use is searched.        *)
NullRuns ==
  /\ timer[0].inUse /\ timer[0].active /\ timer[0].continuous
  /\ timer[0].period = NullTimerInterval
  /\ timer[0].timeToFire <= ticksTotal + NullTimerInterval

Searched == \A i \in Slots : timer[i].inUse => i < numTimers /\ timer[i].period > 0

IInv == TypeOK /\ NullRuns /\ Searched /\ NoTimerIsPassed

LEMMA SlotZero == 0 \in Slots
BY PcSystemAssumption DEF Slots

LEMMA InitIInv ==
  ASSUME Init PROVE IInv
<1> USE PcSystemAssumption DEF Init
<1>1. timer[0] = Null /\ \A i \in Slots : i # 0 => timer[i] = Unused
  BY SlotZero
<1>2. TypeOK
  BY <1>1 DEF TypeOK, Timer, Null, Unused, Slots
<1>3. NullRuns /\ Searched /\ NoTimerIsPassed
  BY <1>1 DEF NullRuns, Searched, NoTimerIsPassed, Null, Unused, Now, Slots
<1> QED
  BY <1>2, <1>3 DEF IInv

LEMMA Least ==
  ASSUME NEW S, S \subseteq Nat, S # {}
  PROVE  \E x \in S : \A y \in S : x <= y
<1> DEFINE Below == OpToRel(<, Nat)
<1>1. IsWellFoundedOn(Below, Nat)
  BY NatLessThanWellFounded
<1> HIDE DEF Below
<1>2. PICK x \in S : \A y \in S : ~(<<y, x>> \in Below)
  BY <1>1, WFMin, Zenon
<1>3. ASSUME NEW y \in S PROVE x <= y
  <2>1. <<y, x>> \notin Below
    BY <1>2
  <2>2. ~(y < x)
    BY <2>1 DEF Below, OpToRel
  <2> QED
    BY <2>2
<1> QED
  BY <1>3

(* The earliest of the active timers, which there is: the null timer.       *)
LEMMA NextDueIsLeast ==
  ASSUME NEW t \in [Slots -> Timer], numTimers \in Nat, 0 < numTimers, t[0].active
  PROVE  /\ \E i \in Slots : i < numTimers /\ t[i].active /\ NextDue(t) = t[i].timeToFire
         /\ \A i \in Slots : i < numTimers /\ t[i].active => NextDue(t) <= t[i].timeToFire
<1> DEFINE S == {t[i].timeToFire : i \in {j \in Slots : j < numTimers /\ t[j].active}}
<1>1. S \subseteq Nat
  BY DEF Timer
<1>2. t[0].timeToFire \in S
  BY SlotZero
<1>3. \E x \in S : \A y \in S : x <= y
  BY <1>1, <1>2, Least
<1>4. \E d \in S : \A i \in Slots : i < numTimers /\ t[i].active => d <= t[i].timeToFire
  BY <1>3
<1>5. /\ NextDue(t) \in S
      /\ \A i \in Slots : i < numTimers /\ t[i].active => NextDue(t) <= t[i].timeToFire
  BY <1>4 DEF NextDue
<1> QED
  BY <1>5

-----------------------------------------------------------------------------
(* The steps of the processor.                                              *)

LEMMA TickStep ==
  ASSUME IInv, Tick PROVE IInv'
<1> USE DEF IInv, Tick
<1>1. TypeOK'
  BY DEF TypeOK
<1>2. NullRuns' /\ Searched' /\ NoTimerIsPassed'
  BY DEF NullRuns, Searched, NoTimerIsPassed, Now
<1> QED
  BY <1>1, <1>2

(* What becomes of a timer at an event.                                     *)
LEMMA FiredTimer ==
  ASSUME NEW t \in Timer
  PROVE  /\ Fired(t) \in Timer
         /\ Fired(t).inUse = t.inUse /\ Fired(t).continuous = t.continuous
         /\ Fired(t).period = t.period
         /\ Fired(t).active => t.continuous /\ t.active /\ Fired(t).timeToFire = t.timeToFire + t.period
         /\ t.active /\ t.continuous => Fired(t).active
<1> DEFINE later == [t EXCEPT !.timeToFire = t.timeToFire + t.period]
           off   == [t EXCEPT !.active = FALSE]
<1>1. t.timeToFire + t.period \in Nat
  BY DEF Timer
<1>2. later \in Timer /\ off \in Timer
  BY <1>1 DEF Timer
<1> QED
  BY <1>1, <1>2 DEF Fired, Timer

LEMMA AfterEvent ==
  ASSUME IInv, CountdownEvent
  PROVE  /\ timer' \in [Slots -> Timer]
         /\ NullRuns' /\ Searched'
         /\ timer'[0].timeToFire <= Now + NullTimerInterval
         /\ \A i \in Slots : timer'[i].active =>
              timer'[i].inUse /\ i < numTimers /\ Now < timer'[i].timeToFire
<1> USE DEF IInv, CountdownEvent
<1> USE PcSystemAssumption
<1>1. timer \in [Slots -> Timer] /\ Now \in Nat /\ ticksTotal' = Now /\ ticksTotal <= Now
  BY DEF TypeOK, Now
<1>2. timer' \in [Slots -> Timer]
  BY <1>1, FiredTimer
<1>3. ASSUME NEW i \in Slots
      PROVE /\ timer'[i].inUse = timer[i].inUse /\ timer'[i].period = timer[i].period
            /\ timer'[i].active => timer'[i].inUse /\ i < numTimers /\ Now < timer'[i].timeToFire
  <2>1. CASE IsDue(i)
    <3>1. timer'[i] = Fired(timer[i]) /\ timer[i].timeToFire = Now /\ timer[i].active
      BY <2>1 DEF IsDue
    <3>2. timer[i] \in Timer /\ timer[i].inUse /\ i < numTimers /\ timer[i].period > 0
      BY <1>1, <3>1 DEF NoTimerIsPassed, Searched
    <3>3. timer[i].period \in Nat
      BY <3>2 DEF Timer
    <3>4. /\ timer'[i].inUse = timer[i].inUse /\ timer'[i].period = timer[i].period
          /\ timer'[i].active => timer'[i].timeToFire = timer[i].timeToFire + timer[i].period
      <4>1. /\ Fired(timer[i]).inUse = timer[i].inUse /\ Fired(timer[i]).period = timer[i].period
            /\ Fired(timer[i]).active =>
                 Fired(timer[i]).timeToFire = timer[i].timeToFire + timer[i].period
        BY ONLY <3>2, FiredTimer
      <4> QED
        BY <3>1, <4>1
    <3>5. timer'[i].active => Now < timer'[i].timeToFire
      BY <1>1, <3>1, <3>2, <3>3, <3>4
    <3> QED
      BY <3>2, <3>4, <3>5
  <2>2. CASE ~IsDue(i)
    <3>1. timer'[i] = timer[i] /\ timer[i].timeToFire \in Nat
      BY <1>1, <2>2 DEF Timer
    <3> QED
      BY <1>1, <2>2, <3>1 DEF IsDue, NoTimerIsPassed
  <2> QED
    BY <2>1, <2>2
<1>4. Searched'
  BY <1>3 DEF Searched
<1>5. /\ timer'[0].inUse /\ timer'[0].active /\ timer'[0].continuous
      /\ timer'[0].period = NullTimerInterval
      /\ timer'[0].timeToFire <= Now + NullTimerInterval
  <2>1. CASE IsDue(0)
    <3>1. timer'[0] = Fired(timer[0]) /\ timer[0].timeToFire = Now /\ timer[0] \in Timer
      BY <1>1, <2>1, SlotZero DEF IsDue
    <3> QED
      BY <1>1, <3>1, FiredTimer DEF NullRuns
  <2>2. CASE ~IsDue(0)
    <3>1. timer'[0] = timer[0] /\ timer[0].timeToFire \in Nat /\ ticksTotal \in Nat
      BY <1>1, <2>2, SlotZero DEF Timer, TypeOK
    <3> QED
      BY <1>1, <3>1 DEF NullRuns
  <2> QED
    BY <2>1, <2>2
<1>6. NullRuns'
  BY <1>1, <1>5 DEF NullRuns
<1> QED
  BY <1>2, <1>3, <1>4, <1>5, <1>6

LEMMA SmallModulo ==
  ASSUME NEW a \in Nat, NEW b \in Nat, a < b
  PROVE  a % b = a
BY SMT

LEMMA EventStep ==
  ASSUME IInv, CountdownEvent PROVE IInv'
<1> USE PcSystemAssumption
<1>1. /\ timer' \in [Slots -> Timer] /\ numTimers \in Nat /\ 0 < numTimers /\ timer'[0].active
      /\ Now \in Nat /\ ticksTotal' = Now /\ numTimers' = numTimers
  BY AfterEvent DEF IInv, TypeOK, NullRuns, CountdownEvent, Now
<1> DEFINE due == NextDue(timer')
<1>2. /\ \E i \in Slots : i < numTimers /\ timer'[i].active /\ due = timer'[i].timeToFire
      /\ \A i \in Slots : i < numTimers /\ timer'[i].active => due <= timer'[i].timeToFire
  BY <1>1, NextDueIsLeast
<1>3. currCountdownPeriod' = (due - Now) % MaxCountdown /\ currCountdown' = currCountdownPeriod'
  BY DEF CountdownEvent
<1> HIDE DEF due
<1>4. due \in Nat /\ Now < due
  BY <1>1, <1>2, AfterEvent DEF Timer
<1>5. due <= Now + NullTimerInterval
  <2>1. due <= timer'[0].timeToFire /\ timer'[0].timeToFire \in Nat
    BY <1>1, <1>2, SlotZero DEF Timer
  <2> QED
    BY <1>1, <1>4, <2>1, AfterEvent
<1>6. due - Now \in Nat /\ due - Now < MaxCountdown /\ due - Now > 0
  BY <1>1, <1>4, <1>5
<1>7. currCountdownPeriod' = due - Now /\ currCountdown' = due - Now
  BY <1>3, <1>6, SmallModulo
<1>8. TypeOK'
  <2>1. currCountdownPeriod' \in 1..(MaxCountdown - 1) /\ currCountdown' \in 1..currCountdownPeriod'
    BY <1>6, <1>7
  <2> QED
    BY <1>1, <2>1 DEF IInv, TypeOK, CountdownEvent
<1>9. NoTimerIsPassed'
  <2>1. Now' = due
    BY <1>1, <1>4, <1>7 DEF Now
  <2> QED
    BY <1>1, <1>2, <2>1, AfterEvent DEF NoTimerIsPassed
<1> QED
  BY <1>8, <1>9, AfterEvent DEF IInv

LEMMA CallStep ==
  ASSUME IInv, Call \/ Return PROVE IInv'
<1>1. /\ UNCHANGED <<timer, numTimers, ticksTotal, currCountdownPeriod, currCountdown, touched>>
      /\ triggered' \subseteq Slots /\ triggeredTimer' \in Slots
  BY SlotZero DEF IInv, TypeOK, Call, Return, clock
<1> QED
  BY <1>1 DEF IInv, TypeOK, NullRuns, Searched, NoTimerIsPassed, Now

-----------------------------------------------------------------------------
(* The steps of the devices.                                                *)

(* Skewing moves the next event, never the time, and never past the timer.  *)
LEMMA SkewEffect ==
  ASSUME TypeOK, NEW ticks \in Nat, ticks > 0, Skew(ticks), UNCHANGED ticksTotal
  PROVE  /\ currCountdownPeriod' \in 1..(MaxCountdown - 1)
         /\ currCountdown' \in 1..currCountdownPeriod'
         /\ time_ticks \in Nat /\ time_ticks' = time_ticks
         /\ Now' \in Nat /\ Now' <= Now /\ Now' <= time_ticks + ticks
<1>1. /\ currCountdownPeriod \in 1..(MaxCountdown - 1) /\ currCountdown \in 1..currCountdownPeriod
      /\ ticksTotal \in Nat /\ MaxCountdown \in Nat
  BY PcSystemAssumption DEF TypeOK
<1>2. CASE ticks < currCountdown
  BY <1>1, <1>2 DEF Skew, time_ticks, Now
<1>3. CASE ~(ticks < currCountdown)
  BY <1>1, <1>3 DEF Skew, time_ticks, Now
<1> QED
  BY <1>2, <1>3

LEMMA TimeIsNat == ASSUME TypeOK PROVE time_ticks \in Nat /\ Now \in Nat
BY PcSystemAssumption DEF TypeOK, time_ticks, Now

LEMMA SumIsNat == ASSUME NEW a \in Nat, NEW b \in Nat PROVE a + b \in Nat
OBVIOUS

LEMMA NextTimeIsNat == ASSUME TypeOK' PROVE Now' \in Nat
<1>1. ticksTotal' \in Nat /\ currCountdownPeriod' \in 1..(MaxCountdown - 1) /\ MaxCountdown \in Nat
  BY PcSystemAssumption DEF TypeOK
<1>2. ticksTotal' \in Nat
  BY <1>1
<1>3. currCountdownPeriod' \in Nat
  BY <1>1
<1>4. ticksTotal' + currCountdownPeriod' \in Nat
  BY <1>2, <1>3, SumIsNat, Zenon
<1> QED
  BY <1>4 DEF Now

(* A slot that is changed, and the countdown shortened for it if it is      *)
(* active: what any of the four device calls does.                          *)
LEMMA SlotChanged ==
  ASSUME IInv, NEW i \in Slots, i # 0, NEW t \in Timer,
         timer' = [timer EXCEPT ![i] = t],
         numTimers' \in 1..MaxTimers,
         \A j \in Slots : j # i /\ timer[j].inUse => j < numTimers',
         t.inUse => i < numTimers' /\ t.period > 0,
         t.active => t.inUse /\ Now' <= t.timeToFire,
         Now' <= Now,
         currCountdownPeriod' \in 1..(MaxCountdown - 1), currCountdown' \in 1..currCountdownPeriod',
         Touch(i)
  PROVE  IInv'
<1>1. /\ timer \in [Slots -> Timer] /\ timer' \in [Slots -> Timer] /\ timer'[i] = t
      /\ \A j \in Slots : j # i => timer'[j] = timer[j]
      /\ ticksTotal' = ticksTotal
  BY DEF IInv, TypeOK, Touch
<1>2. TypeOK'
  BY <1>1 DEF IInv, TypeOK, Touch
<1>3. NullRuns'
  BY <1>1, SlotZero DEF IInv, NullRuns
<1>4. Searched'
  <2>1. ASSUME NEW j \in Slots, timer'[j].inUse
        PROVE j < numTimers' /\ timer'[j].period > 0
    <3>1. CASE j = i
      BY <1>1, <2>1, <3>1
    <3>2. CASE j # i
      BY <1>1, <2>1, <3>2 DEF IInv, Searched
    <3> QED
      BY <3>1, <3>2
  <2> QED
    BY <2>1 DEF Searched
<1>6. Now \in Nat
  BY TimeIsNat DEF IInv
<1>7. Now' \in Nat
  BY <1>2, NextTimeIsNat
<1>5. NoTimerIsPassed'
  <2>1. ASSUME NEW j \in Slots, timer'[j].active
        PROVE timer'[j].inUse /\ j < numTimers' /\ Now' <= timer'[j].timeToFire
    <3>1. CASE j = i
      BY <1>1, <2>1, <3>1
    <3>2. CASE j # i
      <4>1. /\ timer'[j] = timer[j] /\ timer[j].inUse /\ Now <= timer[j].timeToFire
            /\ timer[j].timeToFire \in Nat
        BY <1>1, <2>1, <3>2 DEF IInv, NoTimerIsPassed, Timer
      <4> QED
        BY <1>6, <1>7, <3>2, <4>1
    <3> QED
      BY <3>1, <3>2
  <2> QED
    BY <2>1 DEF NoTimerIsPassed
<1> QED
  BY <1>2, <1>3, <1>4, <1>5 DEF IInv

LEMMA FreeSlotIsOurs ==
  ASSUME IInv, numTimers < MaxTimers, NEW i \in Slots, FreeSlot(i)
  PROVE  i # 0 /\ i <= numTimers /\ numTimers \in Nat
BY DEF FreeSlot, IInv, TypeOK, Slots

LEMMA RegisterStep ==
  ASSUME IInv, NEW ticks \in Nat, ticks > 0, NEW continuous \in BOOLEAN, NEW active \in BOOLEAN,
         register_timer_ticks(ticks, continuous, active)
  PROVE  IInv'
<1>1. PICK i \in Slots :
        /\ FreeSlot(i)
        /\ timer' = [timer EXCEPT ![i] =
             [inUse |-> TRUE, active |-> active, continuous |-> continuous,
              period |-> ticks, timeToFire |-> time_ticks + ticks]]
        /\ numTimers' = IF i = numTimers THEN numTimers + 1 ELSE numTimers
        /\ Touch(i)
  BY DEF register_timer_ticks
<1> DEFINE t == [inUse |-> TRUE, active |-> active, continuous |-> continuous,
                 period |-> ticks, timeToFire |-> time_ticks + ticks]
<1>2. TypeOK /\ UNCHANGED ticksTotal /\ numTimers < MaxTimers
  BY <1>1 DEF IInv, Touch, register_timer_ticks
<1>3. i # 0 /\ i <= numTimers /\ numTimers \in Nat
  BY <1>1, <1>2, FreeSlotIsOurs
<1>4. /\ t \in Timer /\ timer' = [timer EXCEPT ![i] = t]
      /\ t.inUse /\ t.period = ticks /\ t.timeToFire = time_ticks + ticks /\ t.active = active
  BY <1>1, <1>2, TimeIsNat DEF Timer
<1> HIDE DEF t
<1>5. numTimers' \in 1..MaxTimers /\ i < numTimers' /\ numTimers <= numTimers'
  BY <1>1, <1>2, <1>3, PcSystemAssumption DEF TypeOK, Slots
<1>6. \A j \in Slots : j # i /\ timer[j].inUse => j < numTimers'
  BY <1>3, <1>5, PcSystemAssumption DEF IInv, Searched, Slots
<1>7. CASE active
  <2>1. Skew(ticks)
    BY <1>7 DEF register_timer_ticks
  <2>2. /\ currCountdownPeriod' \in 1..(MaxCountdown - 1) /\ currCountdown' \in 1..currCountdownPeriod'
        /\ Now' <= Now /\ Now' <= time_ticks + ticks
    BY <1>2, <2>1, SkewEffect
  <2> QED
    BY <1>1, <1>3, <1>4, <1>5, <1>6, <2>2, SlotChanged
<1>8. CASE ~active
  <2>1. UNCHANGED <<currCountdownPeriod, currCountdown, ticksTotal>> /\ t.active = FALSE
    BY <1>2, <1>4, <1>8 DEF register_timer_ticks
  <2>2. /\ currCountdownPeriod' \in 1..(MaxCountdown - 1) /\ currCountdown' \in 1..currCountdownPeriod'
        /\ Now' <= Now
    BY <1>2, <2>1, TimeIsNat DEF TypeOK, Now
  <2> QED
    BY <1>1, <1>3, <1>4, <1>5, <1>6, <2>1, <2>2, SlotChanged
<1> QED
  BY <1>7, <1>8

LEMMA ActivateStep ==
  ASSUME IInv, NEW i \in Slots \ {0}, NEW ticks \in Nat, ticks > 0, NEW continuous \in BOOLEAN,
         activate_timer_ticks(i, ticks, continuous)
  PROVE  IInv'
<1> DEFINE t == [timer[i] EXCEPT !.period = ticks, !.timeToFire = time_ticks + ticks,
                                 !.active = TRUE, !.continuous = continuous]
<1>1. /\ TypeOK /\ UNCHANGED ticksTotal /\ timer[i].inUse /\ Skew(ticks) /\ Touch(i)
      /\ UNCHANGED numTimers /\ timer' = [timer EXCEPT ![i] = t]
  BY DEF IInv, Touch, activate_timer_ticks, TypeOK
<1>2. timer[i] \in Timer /\ time_ticks + ticks \in Nat
  BY <1>1, TimeIsNat DEF TypeOK
<1>3. t \in Timer /\ t.inUse = timer[i].inUse /\ t.period = ticks /\ t.timeToFire = time_ticks + ticks
  BY <1>2 DEF Timer
<1>4. /\ currCountdownPeriod' \in 1..(MaxCountdown - 1) /\ currCountdown' \in 1..currCountdownPeriod'
      /\ Now' <= Now /\ Now' <= time_ticks + ticks
  BY <1>1, SkewEffect
<1>5. numTimers' \in 1..MaxTimers /\ \A j \in Slots : timer[j].inUse => j < numTimers'
  BY <1>1 DEF IInv, Searched, TypeOK
<1> HIDE DEF t
<1> QED
  BY <1>1, <1>3, <1>4, <1>5, SlotChanged

LEMMA DeactivateStep ==
  ASSUME IInv, NEW i \in Slots \ {0}, deactivate_timer(i)
  PROVE  IInv'
<1> DEFINE t == [timer[i] EXCEPT !.active = FALSE]
<1>1. /\ TypeOK /\ timer[i].inUse /\ Touch(i) /\ timer' = [timer EXCEPT ![i] = t]
      /\ UNCHANGED <<numTimers, currCountdownPeriod, currCountdown, ticksTotal>>
  BY DEF IInv, Touch, deactivate_timer, TypeOK
<1>2. timer[i] \in Timer
  BY <1>1 DEF TypeOK
<1>3. t \in Timer /\ t.inUse = timer[i].inUse /\ t.period = timer[i].period /\ t.active = FALSE
  BY <1>2 DEF Timer
<1>4. /\ currCountdownPeriod' \in 1..(MaxCountdown - 1) /\ currCountdown' \in 1..currCountdownPeriod'
      /\ Now' <= Now
  BY <1>1, TimeIsNat DEF TypeOK, Now
<1>5. /\ numTimers' \in 1..MaxTimers /\ timer[i].period > 0
      /\ \A j \in Slots : timer[j].inUse => j < numTimers'
  BY <1>1 DEF IInv, Searched, TypeOK
<1> HIDE DEF t
<1> QED
  BY <1>1, <1>3, <1>4, <1>5, SlotChanged

LEMMA UnregisterStep ==
  ASSUME IInv, NEW i \in Slots \ {0}, unregisterTimer(i)
  PROVE  IInv'
<1>1. /\ TypeOK /\ timer[i].inUse /\ Touch(i) /\ timer' = [timer EXCEPT ![i] = Unused]
      /\ UNCHANGED <<currCountdownPeriod, currCountdown, ticksTotal>>
      /\ numTimers' = IF i = numTimers - 1 THEN numTimers - 1 ELSE numTimers
  BY DEF IInv, Touch, unregisterTimer, TypeOK
<1>2. Unused \in Timer /\ Unused.inUse = FALSE /\ Unused.active = FALSE
  BY DEF Unused, Timer
<1>3. /\ currCountdownPeriod' \in 1..(MaxCountdown - 1) /\ currCountdown' \in 1..currCountdownPeriod'
      /\ Now' <= Now
  BY <1>1, TimeIsNat DEF TypeOK, Now
<1>4. \A j \in Slots : timer[j].inUse => j < numTimers
  BY DEF IInv, Searched
<1>5. numTimers \in Nat /\ numTimers <= MaxTimers /\ i < numTimers /\ i \in Nat /\ i # 0
  BY <1>1, <1>4, PcSystemAssumption DEF TypeOK, Slots
<1>6. /\ numTimers' \in 1..MaxTimers
      /\ \A j \in Slots : j # i /\ timer[j].inUse => j < numTimers'
  BY <1>1, <1>4, <1>5, PcSystemAssumption DEF Slots
<1> QED
  BY <1>1, <1>2, <1>3, <1>6, SlotChanged

LEMMA NextStep ==
  ASSUME IInv, [Next]_vars PROVE IInv'
<1>1. \A n \in Nat : Sane(n) \in Nat /\ Sane(n) > 0
  BY DEF Sane
<1>2. \A i \in Slots : timer[i].period \in Nat
  BY DEF IInv, TypeOK, Timer
<1>3. CASE Tick \/ CountdownEvent \/ Call \/ Return
  BY <1>3, TickStep, EventStep, CallStep
<1>4. CASE \E t \in Periods, continuous, active \in BOOLEAN :
             register_timer_ticks(Sane(t), continuous, active)
  <2>1. PICK t \in Periods, continuous \in BOOLEAN, active \in BOOLEAN :
          register_timer_ticks(Sane(t), continuous, active)
    BY <1>4
  <2>2. Sane(t) \in Nat /\ Sane(t) > 0
    BY <1>1, PcSystemAssumption
  <2> QED
    BY <2>1, <2>2, RegisterStep
<1>5. ASSUME NEW i \in Slots \ {0}, NEW t \in Periods \cup {timer[i].period},
             NEW continuous \in BOOLEAN, activate_timer_ticks(i, Sane(t), continuous)
      PROVE  IInv'
  <2>1. Sane(t) \in Nat /\ Sane(t) > 0
    BY <1>1, <1>2, PcSystemAssumption
  <2> QED
    BY <1>5, <2>1, ActivateStep
<1>6. ASSUME NEW i \in Slots \ {0}, deactivate_timer(i) \/ unregisterTimer(i) PROVE IInv'
  BY <1>6, DeactivateStep, UnregisterStep
<1>7. CASE UNCHANGED vars
  BY <1>7 DEF vars, clock, IInv, TypeOK, NullRuns, Searched, NoTimerIsPassed, Now
<1> QED
  BY <1>3, <1>4, <1>5, <1>6, <1>7 DEF Next, DeviceStep

LEMMA Invariance == Spec => []IInv
<1>1. Init => IInv
  BY InitIInv
<1>2. IInv /\ [Next]_vars => IInv'
  BY NextStep
<1> QED
  BY <1>1, <1>2, PTL DEF Spec

(* The countdown stays in the counter's width and never at zero, and the    *)
(* fields of the slots keep their types.                                    *)
THEOREM TypeCorrect == Spec => []TypeOK
<1>1. IInv => TypeOK
  BY DEF IInv
<1> QED
  BY <1>1, Invariance, PTL

(* No active timer is left out of the search or passed by the countdown.    *)
THEOREM NeverPassed == Spec => []NoTimerIsPassed
<1>1. IInv => NoTimerIsPassed
  BY DEF IInv
<1> QED
  BY <1>1, Invariance, PTL

-----------------------------------------------------------------------------
(* The countdown and the slots implement the alarm clock.                   *)

Alarm == [i \in Slots |-> IF timer[i].active THEN timer[i].timeToFire ELSE -1]

LEMMA ClockStarts ==
  ASSUME Init PROVE Clock!Init
<1>1. time_ticks = 0 /\ triggered = {}
  BY PcSystemAssumption DEF Init, time_ticks
<1>2. timer \in [Slots -> Timer]
  BY InitIInv DEF IInv, TypeOK
<1>3. Alarm \in [Slots -> Int \cup {-1}]
  BY <1>2 DEF Alarm, Timer
<1> QED
  BY <1>1, <1>3 DEF Clock!Init, Alarm

LEMMA ClockTicks ==
  ASSUME IInv, Tick PROVE Clock!Pass
<1>1. /\ ticksTotal \in Nat /\ currCountdownPeriod \in Nat /\ currCountdown \in Nat
      /\ 1 < currCountdown /\ currCountdown <= currCountdownPeriod
  BY PcSystemAssumption DEF IInv, TypeOK, Tick
<1>2. time_ticks' = time_ticks + 1 /\ time_ticks + 1 < Now /\ time_ticks \in Nat /\ Now \in Nat
  BY <1>1 DEF Tick, time_ticks, Now
<1>3. timer' = timer /\ triggered = {} /\ triggered' = {}
  BY DEF Tick, BetweenEvents
<1>4. ASSUME NEW i \in Slots PROVE Alarm[i] # time_ticks'
  <2>1. timer[i].active => Now <= timer[i].timeToFire /\ timer[i].timeToFire \in Nat
    BY DEF IInv, TypeOK, NoTimerIsPassed, Timer
  <2>2. Alarm[i] = IF timer[i].active THEN timer[i].timeToFire ELSE -1
    BY DEF Alarm
  <2> QED
    BY <1>2, <2>1, <2>2
<1>5. /\ triggered' = {i \in Slots : Alarm[i] = time_ticks'}
      /\ Alarm' = Alarm /\ DOMAIN Alarm' = Slots
  BY <1>3, <1>4 DEF Alarm
<1> QED
  BY <1>2, <1>3, <1>5 DEF Clock!Pass, Clock!Set, Alarm

LEMMA NothingCounted == ASSUME NEW n \in Nat, NEW p \in Nat PROVE n + (p - p) = n
OBVIOUS

LEMMA ClockRings ==
  ASSUME IInv, CountdownEvent PROVE Clock!Pass
<1>1. /\ ticksTotal \in Nat /\ currCountdownPeriod \in Nat /\ currCountdown = 1
      /\ ticksTotal' = Now /\ currCountdown' = currCountdownPeriod'
  BY PcSystemAssumption DEF IInv, TypeOK, CountdownEvent
<1>2. currCountdownPeriod' \in Nat
  <2>1. TypeOK'
    BY EventStep DEF IInv
  <2> QED
    BY <2>1, PcSystemAssumption DEF TypeOK
<1>3. time_ticks' = time_ticks + 1 /\ time_ticks' = Now /\ Now \in Nat
  <2>1. Now = time_ticks + 1 /\ Now \in Nat
    BY ONLY <1>1 DEF time_ticks, Now
  <2>2. Now + (currCountdownPeriod' - currCountdownPeriod') = Now
    BY <1>2, <2>1, NothingCounted, Zenon
  <2>3. time_ticks' = ticksTotal' + (currCountdownPeriod' - currCountdown')
    BY DEF time_ticks
  <2>4. time_ticks' = Now
    BY <1>1, <2>2, <2>3, Zenon
  <2> QED
    BY <2>1, <2>4
<1>4. triggered = {} /\ triggered' = {i \in Slots : IsDue(i)}
  BY DEF CountdownEvent, BetweenEvents
<1>5. ASSUME NEW i \in Slots
      PROVE  /\ IsDue(i) <=> Alarm[i] = Now
             /\ ~IsDue(i) => timer'[i] = timer[i]
             /\ Alarm'[i] # -1 => Alarm'[i] > Now \/ ~IsDue(i)
  <2>1. timer[i] \in Timer /\ timer'[i] \in Timer
    BY AfterEvent DEF IInv, TypeOK
  <2>2. IsDue(i) <=> timer[i].active /\ timer[i].timeToFire = Now
    BY DEF IsDue, IInv, NoTimerIsPassed
  <2>3. timer'[i].active => Now < timer'[i].timeToFire
    BY AfterEvent
  <2>4. Alarm[i] = IF timer[i].active THEN timer[i].timeToFire ELSE -1
    BY DEF Alarm
  <2>5. Alarm'[i] = IF timer'[i].active THEN timer'[i].timeToFire ELSE -1
    BY DEF Alarm
  <2>6. ~IsDue(i) => timer'[i] = timer[i]
    BY DEF CountdownEvent
  <2>7. IsDue(i) <=> Alarm[i] = Now
    BY <1>3, <2>2, <2>4
  <2>8. timer'[i].timeToFire \in Nat
    BY <2>1 DEF Timer
  <2>9. Alarm'[i] # -1 => Alarm'[i] > Now
    BY <1>3, <2>3, <2>5, <2>8
  <2> QED
    BY <2>6, <2>7, <2>9
<1>6. triggered' = {i \in Slots : Alarm[i] = time_ticks'}
  BY <1>3, <1>4, <1>5
<1>7. \A i \in Slots \ triggered' : Alarm'[i] = Alarm[i]
  BY <1>4, <1>5 DEF Alarm
<1>8. \A i \in triggered' : Alarm'[i] # -1 => Alarm'[i] > time_ticks'
  BY <1>3, <1>4, <1>5
<1>9. DOMAIN Alarm' = Slots
  BY DEF Alarm
<1> QED
  BY <1>3, <1>4, <1>6, <1>7, <1>8, <1>9 DEF Clock!Pass, Alarm

LEMMA ClockHears ==
  ASSUME Call PROVE Clock!Hear
<1>1. UNCHANGED <<timer, time_ticks>> /\ \E i \in triggered : triggered' = triggered \ {i}
  BY DEF Call, clock, time_ticks
<1> QED
  BY <1>1 DEF Clock!Hear

(* What the device calls have in common, as the alarms see it.              *)
LEMMA ClockArms ==
  ASSUME NEW i \in Slots, NEW t \in Timer, timer \in [Slots -> Timer],
         timer' = [timer EXCEPT ![i] = t],
         t.active => t.timeToFire > time_ticks,
         UNCHANGED <<time_ticks, triggered>>
  PROVE  Clock!Arm
<1>1. timer'[i] = t /\ \A j \in Slots : j # i => timer'[j] = timer[j]
  OBVIOUS
<1>2. Alarm' = [Alarm EXCEPT ![i] = Alarm'[i]]
  BY <1>1 DEF Alarm
<1>3. Alarm'[i] # -1 => Alarm'[i] > time_ticks
  BY <1>1 DEF Alarm
<1> QED
  BY <1>2, <1>3 DEF Clock!Arm, Clock!Set, Alarm

LEMMA ClockRegisters ==
  ASSUME IInv, NEW ticks \in Nat, ticks > 0, NEW continuous \in BOOLEAN, NEW active \in BOOLEAN,
         register_timer_ticks(ticks, continuous, active)
  PROVE  Clock!Arm
<1>1. PICK i \in Slots :
        /\ timer' = [timer EXCEPT ![i] =
             [inUse |-> TRUE, active |-> active, continuous |-> continuous,
              period |-> ticks, timeToFire |-> time_ticks + ticks]]
        /\ Touch(i)
  BY DEF register_timer_ticks
<1> DEFINE t == [inUse |-> TRUE, active |-> active, continuous |-> continuous,
                 period |-> ticks, timeToFire |-> time_ticks + ticks]
<1>2. TypeOK /\ time_ticks \in Nat /\ UNCHANGED <<ticksTotal, triggered>>
  BY <1>1, TimeIsNat DEF IInv, Touch
<1>3. t \in Timer /\ timer' = [timer EXCEPT ![i] = t] /\ t.timeToFire > time_ticks
  BY <1>1, <1>2 DEF Timer
<1>4. UNCHANGED time_ticks
  <2>1. CASE active
    BY <1>2, <2>1, SkewEffect DEF register_timer_ticks
  <2>2. CASE ~active
    BY <1>2, <2>2 DEF register_timer_ticks, time_ticks
  <2> QED
    BY <2>1, <2>2
<1>5. timer \in [Slots -> Timer]
  BY <1>2 DEF TypeOK
<1> HIDE DEF t
<1> QED
  BY <1>2, <1>3, <1>4, <1>5, ClockArms

LEMMA ClockActivates ==
  ASSUME IInv, NEW i \in Slots \ {0}, NEW ticks \in Nat, ticks > 0, NEW continuous \in BOOLEAN,
         activate_timer_ticks(i, ticks, continuous)
  PROVE  Clock!Arm
<1> DEFINE t == [timer[i] EXCEPT !.period = ticks, !.timeToFire = time_ticks + ticks,
                                 !.active = TRUE, !.continuous = continuous]
<1>1. /\ TypeOK /\ UNCHANGED <<ticksTotal, triggered>> /\ Skew(ticks)
      /\ timer' = [timer EXCEPT ![i] = t]
  BY DEF IInv, Touch, activate_timer_ticks
<1>2. timer[i] \in Timer /\ time_ticks \in Nat /\ UNCHANGED time_ticks
  BY <1>1, TimeIsNat, SkewEffect DEF TypeOK
<1>3. t \in Timer /\ t.timeToFire > time_ticks
  <2>1. time_ticks + ticks \in Nat /\ time_ticks + ticks > time_ticks
    BY <1>2
  <2>2. t \in Timer /\ t.timeToFire = time_ticks + ticks
    BY <1>2, <2>1 DEF Timer
  <2> QED
    BY <2>1, <2>2
<1>4. timer \in [Slots -> Timer]
  BY <1>1 DEF TypeOK
<1> HIDE DEF t
<1> QED
  BY <1>1, <1>2, <1>3, <1>4, ClockArms

LEMMA ClockStops ==
  ASSUME IInv, NEW i \in Slots \ {0}, deactivate_timer(i) \/ unregisterTimer(i)
  PROVE  Clock!Arm
<1>1. UNCHANGED <<time_ticks, triggered>> /\ timer \in [Slots -> Timer]
  BY DEF IInv, TypeOK, Touch, deactivate_timer, unregisterTimer, time_ticks
<1>2. CASE deactivate_timer(i)
  <2> DEFINE t == [timer[i] EXCEPT !.active = FALSE]
  <2>1. t \in Timer /\ ~t.active /\ timer' = [timer EXCEPT ![i] = t]
    BY <1>1, <1>2 DEF deactivate_timer, Timer
  <2> HIDE DEF t
  <2> QED
    BY <1>1, <2>1, ClockArms
<1>3. CASE unregisterTimer(i)
  <2>1. Unused \in Timer /\ ~Unused.active /\ timer' = [timer EXCEPT ![i] = Unused]
    BY <1>3 DEF unregisterTimer, Unused, Timer
  <2> QED
    BY <1>1, <2>1, ClockArms
<1> QED
  BY <1>2, <1>3

LEMMA ClockSteps ==
  ASSUME IInv, [Next]_vars PROVE [Clock!Next]_(Clock!avars)
<1>1. \A n \in Nat : Sane(n) \in Nat /\ Sane(n) > 0
  BY DEF Sane
<1>2. \A i \in Slots : timer[i].period \in Nat
  BY DEF IInv, TypeOK, Timer
<1>3. CASE Tick \/ CountdownEvent
  BY <1>3, ClockTicks, ClockRings DEF Clock!Next
<1>4. CASE Call
  BY <1>4, ClockHears DEF Clock!Next
<1>5. CASE Return \/ UNCHANGED vars
  <2>1. UNCHANGED <<timer, time_ticks, triggered>>
    BY <1>5 DEF Return, vars, clock, time_ticks
  <2> QED
    BY <2>1 DEF Clock!avars
<1>6. ASSUME NEW t \in Periods, NEW continuous \in BOOLEAN, NEW active \in BOOLEAN,
             register_timer_ticks(Sane(t), continuous, active)
      PROVE  Clock!Arm
  <2>1. Sane(t) \in Nat /\ Sane(t) > 0
    BY <1>1, PcSystemAssumption
  <2> QED
    BY <1>6, <2>1, ClockRegisters
<1>7. ASSUME NEW i \in Slots \ {0}, NEW t \in Periods \cup {timer[i].period},
             NEW continuous \in BOOLEAN, activate_timer_ticks(i, Sane(t), continuous)
      PROVE  Clock!Arm
  <2>1. Sane(t) \in Nat /\ Sane(t) > 0
    BY <1>1, <1>2, PcSystemAssumption
  <2> QED
    BY <1>7, <2>1, ClockActivates
<1>8. ASSUME NEW i \in Slots \ {0}, deactivate_timer(i) \/ unregisterTimer(i) PROVE Clock!Arm
  BY <1>8, ClockStops
<1>9. CASE DeviceStep
  BY <1>6, <1>7, <1>8, <1>9 DEF DeviceStep, Clock!Next
<1> QED
  BY <1>3, <1>4, <1>5, <1>9 DEF Next

(* The countdown, the order of the callbacks and what they do to the slots  *)
(* keep what AlarmClock promises, for any number of slots and any width of  *)
(* the counter: no alarm is passed, doubled or lost.                        *)
THEOREM Implements == Spec => KeepsTime
<1>1. Init => Clock!Init
  BY ClockStarts
<1>2. IInv /\ [Next]_vars => [Clock!Next]_(Clock!avars)
  BY ClockSteps
<1> QED
  BY <1>1, <1>2, Invariance, PTL DEF Spec, KeepsTime, Clock!Spec

-----------------------------------------------------------------------------
(* The callbacks.  What CallsAreDue says of the timer whose callback runs   *)
(* holds from the event on of all that wait to be called.                   *)
OnTime(i) ==
  LET t == timer[i] IN
  /\ t.active <=> t.continuous
  /\ t.timeToFire = ticksTotal + (IF t.continuous THEN t.period ELSE 0)

Waiting == triggered \cup ({triggeredTimer} \ {0})

WaitingOnTime == \A i \in Waiting \ touched : OnTime(i)

LEMMA EventIsOnTime ==
  ASSUME IInv, CountdownEvent PROVE WaitingOnTime'
<1>1. /\ Waiting' = {i \in Slots : IsDue(i)} /\ ticksTotal' = Now /\ timer \in [Slots -> Timer]
      /\ \A i \in Slots : timer'[i] = IF IsDue(i) THEN Fired(timer[i]) ELSE timer[i]
  BY DEF CountdownEvent, BetweenEvents, Waiting, IInv, TypeOK
<1>2. ASSUME NEW i \in Slots, IsDue(i) PROVE OnTime(i)'
  <2>1. timer'[i] = Fired(timer[i]) /\ timer[i] \in Timer /\ timer[i].active
        /\ timer[i].timeToFire = Now /\ Now \in Nat
    BY <1>1, <1>2 DEF IsDue, Timer
  <2>2. CASE timer[i].continuous
    BY <1>1, <2>1, <2>2, FiredTimer DEF OnTime
  <2>3. CASE ~timer[i].continuous
    <3>1. Fired(timer[i]) = [timer[i] EXCEPT !.active = FALSE]
      BY <2>3 DEF Fired
    <3>2. ~timer'[i].active /\ timer'[i].continuous = timer[i].continuous /\ timer'[i].timeToFire = Now
      BY <2>1, <3>1 DEF Timer
    <3> QED
      BY <1>1, <2>1, <2>3, <3>2 DEF OnTime
  <2> QED
    BY <2>2, <2>3
<1> QED
  BY <1>1, <1>2 DEF WaitingOnTime

(* A device changes one slot, and is known to have.                         *)
LEMMA DeviceTouches ==
  ASSUME IInv, WaitingOnTime, DeviceStep PROVE WaitingOnTime'
<1>1. /\ \E i \in Slots : touched' = touched \cup {i} /\ \A j \in Slots : j # i => timer'[j] = timer[j]
      /\ UNCHANGED <<ticksTotal, triggered, triggeredTimer>>
  BY DEF DeviceStep, register_timer_ticks, activate_timer_ticks, deactivate_timer,
         unregisterTimer, Touch, IInv, TypeOK
<1>2. Waiting' = Waiting /\ Waiting \subseteq Slots
  BY <1>1 DEF Waiting, IInv, TypeOK
<1>3. ASSUME NEW j \in Waiting \ touched' PROVE OnTime(j)'
  <2>1. j \in Waiting \ touched /\ timer'[j] = timer[j]
    BY <1>1, <1>2, <1>3
  <2> QED
    BY <1>1, <2>1 DEF WaitingOnTime, OnTime
<1> QED
  BY <1>2, <1>3 DEF WaitingOnTime

LEMMA StaysOnTime ==
  ASSUME IInv, WaitingOnTime, [Next]_vars PROVE WaitingOnTime'
<1>1. CASE Tick
  BY <1>1 DEF Tick, BetweenEvents, Waiting, WaitingOnTime
<1>2. CASE CountdownEvent
  BY <1>2, EventIsOnTime
<1>3. CASE Call \/ Return \/ UNCHANGED vars
  <2>1. UNCHANGED <<timer, ticksTotal, touched>> /\ Waiting' \subseteq Waiting
    BY <1>3 DEF Call, Return, vars, clock, Waiting
  <2> QED
    BY <2>1 DEF WaitingOnTime, OnTime
<1>4. CASE DeviceStep
  BY <1>4, DeviceTouches
<1> QED
  BY <1>1, <1>2, <1>3, <1>4 DEF Next

(* Whatever the callbacks of a tick register, set, stop and take out, each  *)
(* callback comes at the very tick its timer was set for, unless one of     *)
(* them has just set that timer anew (countdownEvent, 321-385).             *)
THEOREM CallsOnTime == Spec => []CallsAreDue
<1>1. Init => WaitingOnTime
  BY DEF Init, Waiting, WaitingOnTime
<1>2. IInv /\ WaitingOnTime /\ [Next]_vars => WaitingOnTime'
  BY StaysOnTime
<1>3. WaitingOnTime => CallsAreDue
  BY DEF WaitingOnTime, Waiting, OnTime, CallsAreDue
<1> QED
  BY <1>1, <1>2, <1>3, Invariance, PTL DEF Spec
=============================================================================
