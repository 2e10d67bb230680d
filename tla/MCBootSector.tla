---------------------------- MODULE MCBootSector ----------------------------
(* Small diskettes for BootSector: two root directory sectors of two        *)
(* entries, sectors of 8 bytes (entry 5 of the table is cut by the end of   *)
(* its first sector), a two-byte loader name, a segment of three pages, so  *)
(* that a chain of four clusters overruns it.                               *)
EXTENDS BootSectorInv

MCName == <<"L", "B">>
MCBad  == {7}          \* the sector of cluster 4

Entries == [e \in 0..3 |-> [name |-> <<"-", "-">>, first |-> 3]]
Fat(c2, c3, c5) ==
  [c \in 0..8 |-> CASE c = 0 -> 4080 [] c = 2 -> c2 [] c = 3 -> c3
                    [] c = 4 -> 2    [] c = 5 -> c5
                    [] c = 6 -> 4095 [] OTHER -> 0]

Names == {<<"L", "B">>, <<"L", "-">>, <<"-", "B">>, <<"L", "L">>}

(* Every directory of four names, the chain being the one cluster 5.        *)
SearchDisks ==
  {[dir |-> [e \in 0..3 |-> [name |-> n[e], first |-> IF e = 2 THEN 5 ELSE 3]],
    fat |-> Fat(0, 4095, 4095)] : n \in [0..3 -> Names]}

(* Every table over clusters 2, 3 and 5 for every first cluster; 4088 is an *)
(* end mark boot.asm does not know, 4 a cluster on a bad sector.            *)
ChainDisks ==
  {[dir |-> [Entries EXCEPT ![1] = [name |-> MCName, first |-> f]],
    fat |-> Fat(v[2], v[3], v[5])] :
      f \in {0, 2, 3, 4, 5, 5000, 65534}, v \in [{2, 3, 5} -> {2, 3, 4, 5, 6, 4088, 4095}]}

MCDisks == SearchDisks \cup ChainDisks

(* Diskettes whose chain is one of a few well-formed ones: they must boot.  *)
Chains == {<<2>>, <<5>>, <<3, 5>>, <<5, 2, 6>>, <<2, 3, 5>>, <<3, 6>>}

WellFormed(d) ==
  \E chain \in Chains :
    \E e \in RootDir :
      /\ Matches(d, e) /\ \A f \in 0..(e - 1) : ~Matches(d, f)
      /\ d.dir[e].first = chain[1]
      /\ \A i \in DOMAIN chain :
           d.fat[chain[i]] = IF i = Len(chain) THEN 4095 ELSE chain[i + 1]

(* A diskette with a well-formed loader boots (boot.asm 81-240), and one    *)
(* without any ends in the message and JMP $, if the drive delivers its     *)
(* sectors at last: the search ends, the retry loop is left, the chain is   *)
(* followed to its end.                                                     *)
BootEnds ==
  /\ WellFormed(disk) ~> pc = "FileLoaded"
  /\ (\A e \in RootDir : ~Matches(disk, e)) ~> pc = "Halted"
=============================================================================
