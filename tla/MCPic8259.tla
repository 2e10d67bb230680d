----------------------------- MODULE MCPic8259 -----------------------------
(***************************************************************************)
(* The chips with all their optional commands.  Their settings are too many *)
(* to be mixed: one chip at a time is set in an unusual way, by the         *)
(* commands that ask it, those that make it sense levels or those that      *)
(* rotate it, and initialization mixes with the last alone.                 *)
(***************************************************************************)
EXTENDS Pic8259

Asked(chip)   == chip.special \/ chip.polled
Levels(chip)  == chip.level # {}
Rotated(chip) == chip.autoEoi \/ chip.rotate \/ chip.lowest # N - 1
Started(chip) == chip.expected = 0

Usual(chip) == ~Asked(chip) /\ ~Levels(chip) /\ ~Rotated(chip)

OneIsUnusual ==
  /\ Usual(master) \/ Usual(slave)
  /\ \A chip \in {master, slave} :
       /\ Asked(chip)  => ~Levels(chip) /\ ~Rotated(chip)
       /\ Levels(chip) => ~Rotated(chip)
       /\ Asked(chip) \/ Levels(chip) => Started(master) /\ Started(slave)
=============================================================================
