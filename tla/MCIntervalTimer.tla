-------------------------- MODULE MCIntervalTimer --------------------------
(***************************************************************************)
(* Counters 0 and 2 with bytes of two bits.  All that both can do at once   *)
(* is too much, so a behaviour is of one of three styles: counter 2 alone   *)
(* in every mode; both running, 0 as the tick and 2 as the speaker's tone;  *)
(* counter 0 latched and read back.                                         *)
(***************************************************************************)
EXTENDS IntervalTimer

VARIABLE style

MCPrograms == [i \in Counters |->
  IF i = 0 THEN {2} \X Orders
  ELSE {<<0, "both">>, <<1, "LSB">>, <<2, "LSB">>, <<3, "LSB">>, <<3, "MSB">>, <<4, "LSB">>,
        <<5, "LSB">>}]

MCCounts == [i \in Counters |-> IF i = 0 THEN {3} ELSE {0, 1, 2}]

Silent(c)    == c.mode = 2 /\ ~c.written /\ c.write = "LSB" /\ c.gate
Unlatched(c) == ~Latched(c) /\ ~c.statusLatched

Alone == Silent(counter[0]) /\ Unlatched(counter[0])

Together ==
  /\ Unlatched(counter[0]) /\ counter[0].mode = 2 /\ counter[0].write = "LSB"
  /\ \/ counter[2].mode = 4 /\ counter[2].count = 0 /\ counter[2].gate
     \/ counter[2].mode \in {2, 3} /\ counter[2].write = "LSB"

Latching == Silent(counter[2])

MCInit == Init /\ style \in {"alone", "together", "latching"}

MCNext ==
  /\ Next
  /\ style = "alone" => Alone'
  /\ style = "together" => Together'
  /\ style = "latching" => Latching'
  /\ UNCHANGED style

MCSpec == MCInit /\ [][MCNext]_<<vars, style>>
=============================================================================
