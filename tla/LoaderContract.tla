--------------------------- MODULE LoaderContract ---------------------------
(***************************************************************************)
(* What the boot sector promises, without registers, buffers or retries:   *)
(* the first directory entry with the loader's name decides what is loaded, *)
(* the sectors of its cluster chain arrive in chain order, and control is   *)
(* handed over exactly when the entry of the last one is the end mark.      *)
(***************************************************************************)
EXTENDS Integers, Sequences

CONSTANTS
  RootDir,          \* indices of the directory entries, in search order
  Matches(_, _),    \* the name of entry e of diskette d is the loader's
  First(_, _),      \* the first cluster of entry e of diskette d
  SectorOf(_),      \* the sector that holds a cluster
  EntryOf(_, _),    \* the table entry of the cluster a sector of d holds
  EndOfChain        \* the end mark

VARIABLES disk, phase, image

avars == <<disk, phase, image>>

IsFirstMatch(e) ==
  /\ Matches(disk, e)
  /\ \A f \in RootDir : f < e => ~Matches(disk, f)

Init == phase = "search" /\ image = <<>>

Find ==
  /\ phase = "search"
  /\ \E e \in RootDir : IsFirstMatch(e)
  /\ phase' = "load"
  /\ UNCHANGED <<disk, image>>

GiveUp ==
  /\ phase = "search"
  /\ \A e \in RootDir : ~Matches(disk, e)
  /\ phase' = "none"
  /\ UNCHANGED <<disk, image>>

LoadFirst ==
  /\ phase = "load" /\ image = <<>>
  /\ \E e \in RootDir : IsFirstMatch(e) /\ image' = <<SectorOf(First(disk, e))>>
  /\ UNCHANGED <<disk, phase>>

Last == image[Len(image)]

LoadNext ==
  /\ phase = "load" /\ image # <<>>
  /\ EntryOf(disk, Last) # EndOfChain
  /\ image' = Append(image, SectorOf(EntryOf(disk, Last)))
  /\ UNCHANGED <<disk, phase>>

Run ==
  /\ phase = "load" /\ image # <<>>
  /\ EntryOf(disk, Last) = EndOfChain
  /\ phase' = "run"
  /\ UNCHANGED <<disk, image>>

(* A chain longer than the segment, or a cluster number too large for the   *)
(* 8086's divisions: nothing is promised of what is in memory.              *)
Fault ==
  /\ phase = "load"
  /\ phase' = "stuck" /\ image' = <<>>
  /\ UNCHANGED disk

Next == Find \/ GiveUp \/ LoadFirst \/ LoadNext \/ Run \/ Fault

Spec == Init /\ [][Next]_avars
=============================================================================
