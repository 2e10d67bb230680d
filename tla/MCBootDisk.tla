----------------------------- MODULE MCBootDisk -----------------------------
(* BootSector with the constants of boot.asm: a 1.44M diskette, an          *)
(* 11-byte name, 224 directory entries, a segment of 128 pages.             *)
EXTENDS BootSector

MCName  == <<"L", "O", "A", "D", "E", "R", " ", " ", "B", "I", "N">>
Decoys  == <<MCName,
             <<"L", "O", "A", "D", "E", "R", " ", " ", "B", "I", "M">>,
             <<"K", "E", "R", "N", "E", "L", " ", " ", "B", "I", "N">>>>

(* A diskette whose entry e is the loader with the given chain; the other   *)
(* entries hold the decoy name k, from entry `from` on.                     *)
Disk(e, chain, k, from) ==
  LET next == [i \in 1..Len(chain) |-> IF i = Len(chain) THEN 4095 ELSE chain[i + 1]]
  IN  [dir |-> [x \in 0..223 |->
                  [name  |-> IF x = e THEN MCName
                             ELSE IF x >= from THEN Decoys[k] ELSE <<>>,
                   first |-> IF x = e THEN chain[1] ELSE 2]],
       fat |-> [c \in 0..2848 |->
                  IF \E i \in DOMAIN chain : chain[i] = c
                  THEN next[CHOOSE i \in DOMAIN chain : chain[i] = c] ELSE 0]]

Upward(n) == [i \in 1..n |-> 1 + i]

(* Entries 340, 341 and 1365 lie on sector boundaries of the table; 2848 is *)
(* the last cluster of the diskette; 128 sectors fill the segment exactly.  *)
MCDisks ==
  {Disk(0, <<2848>>, 2, 1), Disk(223, <<341, 340, 1365, 342, 2>>, 2, 0),
   Disk(16, Upward(128), 3, 0), Disk(15, <<682, 683, 1024>>, 1, 200)}

(* Each of these diskettes boots once the drive delivers what it is asked.  *)
BootableBoots == <>(pc = "FileLoaded")
=============================================================================
