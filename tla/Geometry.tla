------------------------------ MODULE Geometry ------------------------------
(***************************************************************************)
(* Pure arithmetic of the boot path: how boot.asm turns a logical sector   *)
(* into the cylinder/head/sector of INT 13h, how the Bochs floppy          *)
(* controller turns them back into a sector of the image, and how boot.asm *)
(* takes a 12-bit entry out of the file allocation table.  All values are  *)
(* the integers the registers hold, so the widths are written as bounds.   *)
(***************************************************************************)
EXTENDS Integers

CONSTANTS
  SecPerTrk,    \* BPB_SecPerTrk: sectors of one track (18)
  BytesPerSec   \* BPB_BytesPerSec: bytes of one sector (512)

ASSUME GeometryAssumption ==
  /\ SecPerTrk \in 1..255
  /\ BytesPerSec \in Nat \ {0}

Byte  == 0..255
WordSize == 65536    \* a name of its own: the provers are slow with large numerals
Word  == {n \in Nat : n < WordSize}
Entry == 0..4095     \* what AND ax, 0fffh can leave

NumHeads == 2        \* BPB_NumHeads; ReadOneSector has it as SHR al,1 / AND dh,1

-----------------------------------------------------------------------------
(* ReadOneSector divides the 16-bit sector number by an 8-bit register: a   *)
(* quotient that does not fit al raises the divide error.                   *)
DivFaults_off(lba) == lba \div SecPerTrk > 127     \* a signed division

DivFaults(lba) == lba \div SecPerTrk > 255

ToChs_off(lba) ==     \* SHR al, 1 forgotten
  LET track == lba \div SecPerTrk IN
    [cyl |-> track, head |-> track % 2, sec |-> (lba % SecPerTrk) + 1]

ToChs(lba) ==
  LET track == lba \div SecPerTrk IN
    [cyl |-> track \div 2, head |-> track % 2, sec |-> (lba % SecPerTrk) + 1]

(* logical_sector of floppy_command, for the media's heads and spt.         *)
LogicalSector(chs, heads, spt) ==
  (chs.cyl * heads + chs.head) * spt + (chs.sec - 1)

-----------------------------------------------------------------------------
(* GetFATEntry: entry c starts at byte c*3/2 of the table, in its high      *)
(* nibbles when c*3 is odd.  The quotient must fit ax.                      *)
FatOffset(c) == (3 * c) \div 2
FatOdd(c) == (3 * c) % 2 = 1
FatFaults(c) == FatOffset(c) >= WordSize

FatSector(c) == FatOffset(c) \div BytesPerSec    \* relative to the first FAT sector
FatIndex(c)  == FatOffset(c) % BytesPerSec       \* dx, kept on the stack during the read

FatDecode(odd, lo, hi) ==                        \* odd is the flag [Odd]
  LET word == lo + 256 * hi IN
    (IF odd THEN word \div 16 ELSE word) % 4096

(* The on-disk table itself: two entries share three bytes.  fat is the     *)
(* sequence of entries the formatter wrote, 0 past its end.                 *)
FatEntry(fat, c) == IF c \in DOMAIN fat THEN fat[c] ELSE 0

FatByte(fat, i) ==
  LET lower == FatEntry(fat, 2 * (i \div 3))
      upper == FatEntry(fat, 2 * (i \div 3) + 1)
  IN  CASE i % 3 = 0 -> lower % 256
        [] i % 3 = 1 -> (lower \div 256) + 16 * (upper % 16)
        [] i % 3 = 2 -> upper \div 16
=============================================================================
