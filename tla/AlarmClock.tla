----------------------------- MODULE AlarmClock -----------------------------
(***************************************************************************)
(* What a machine's timers promise the devices: time passes one tick at a   *)
(* time and never past an alarm that is set; the alarms of a tick ring in   *)
(* it, each of them once, and time stands still until they have.            *)
(***************************************************************************)
EXTENDS Integers

CONSTANTS
  Timers,      \* the alarms
  Off          \* an alarm that is not set

VARIABLES
  now,         \* the time
  alarm,       \* when each alarm rings next
  ringing      \* the alarms that ring at this tick and have not been heard

avars == <<now, alarm, ringing>>

Set(i) == alarm[i] # Off

Init == now = 0 /\ ringing = {} /\ alarm \in [Timers -> Int \cup {Off}]

(* An alarm that rings is off, or set for later, if it is periodic.         *)
Pass ==
  /\ ringing = {}
  /\ now' = now + 1
  /\ ringing' = {i \in Timers : alarm[i] = now'}
  /\ \A i \in Timers \ ringing' : alarm'[i] = alarm[i]
  /\ \A i \in ringing' : alarm'[i] # Off => alarm'[i] > now'
  /\ DOMAIN alarm' = Timers

Hear ==
  /\ \E i \in ringing : ringing' = ringing \ {i}
  /\ UNCHANGED <<now, alarm>>

(* A device sets its alarm for later, or turns it off, which does not       *)
(* silence it when it rings already.                                        *)
Arm ==
  /\ \E i \in Timers :
       /\ alarm' = [alarm EXCEPT ![i] = alarm'[i]]
       /\ Set(i)' => alarm'[i] > now
  /\ UNCHANGED <<now, ringing>>

Next == Pass \/ Hear \/ Arm

Spec == Init /\ [][Next]_avars
=============================================================================
