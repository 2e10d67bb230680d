# X64OperatingSystem: a TLA+ model of the boot path

The repository holds a boot sector under construction (`src/Chapters/Chapter03/boot.asm`) and,
under `src/Prerequisites/bochs-2.7`, the complete source of the machine it is run on, the Bochs 2.7
emulator. This directory specifies and verifies the path a boot takes: the boot sector itself, the
diskette service of the BIOS it calls, the emulated devices that carry it out (diskette controller,
interrupt controllers, interval timer, keyboard controller), and the timers all devices share. TLC checks small
instances; TLAPS proves the central results for every value of the constants.

In what follows `pic.cc`, `floppy.cc`, `keyboard.cc` and so on are files of
`src/Prerequisites/bochs-2.7/iodev/`, `pc_system.cc` and `bios/rombios.c` of
`src/Prerequisites/bochs-2.7/`.

## 1. Inventory

### Components, their state and operations

| Component | Source | State | Operations | Status |
|---|---|---|---|---|
| Boot sector | `Chapters/Chapter03/boot.asm` | registers, stack, the buffer at 8000h, the segment 1000h, four variables | one block per label: reset, search of the root directory, name comparison, chain walk, `GetFATEntry`, `ReadOneSector` | modelled: `BootSector` |
| Boot arithmetic | `boot.asm` 250-266, 288-347 | none | sector to CHS, FAT12 entry decoding | modelled: `Geometry` |
| Interrupt controllers | `pic.cc`, `pic.h` | two chips: irr, imr, isr, line levels, INT latch, latched irq, priorities, modes, initialization state; INTR of the CPU | raise/lower a line, ICW1-4, OCW1-3, polled read, acknowledge (IAC) | modelled: `Pic8259` |
| Diskette controller | `floppy.cc`, `floppy.h` | DOR, main status, command and result buffers, interrupt, `reset_sensei`, st0, position per drive, buffer, TC, timer, media | ports 3F2-3F5, `timer()`, `dma_write`, `dma_read`, resets, media changes | partly: `FloppyCtrl` |
| DMA controller | `dma.cc` | channels, masks, modes, flip-flops, count | register file, `set_DRQ`, `raise_HLDA` | partly: channel 2 as the diskette sees it, in `FloppyCtrl` |
| Diskette BIOS | `bios/rombios.c` | BIOS data area 40:3E-40:91, motor countdown | INT 13h, INT 0Eh, motor part of INT 8 | partly: `DisketteBios`; its interface in `BootSector` |
| Keyboard controller | `keyboard.cc`, `keyboard.h` | status bits, output buffer, three queues, clocks, interrupt permissions, timer, command expected | ports 60h/64h, `periodic`, keys and mouse movements | partly: `Keyboard` |
| Timer service of the machine | `pc_system.cc`, `pc_system.h` | table of timers, countdown, ticks so far | register, activate, stop, take out, `countdownEvent` and callbacks | partly: `PcSystem` |
| Interval timer | `pit82c54.cc`, `pit.cc` | three counters: count, latches, mode, gate, OUT, time of the next event | ports 40-43, bit 0 of port 61, virtual timer | partly: `IntervalTimer` |
| CMOS clock | `cmos.cc` | registers, update cycle, interrupt causes | port accesses, timers | planned |
| Disk images (redolog) | `hdimage/hdimage.cc` | catalog, bitmaps, extents | read, write, commit | planned |
| ATA drives, display, network, sound, USB, PCI, serial, debugger, start-up, vendored code | see `PROJECT.json` | | | not modelled |
| Instruction set, paging, FPU, memory | `cpu/`, `memory/` | | | not modelled: a data-path emulation whose reference is the processor manual |
| Earlier boot experiments | `boot1.asm`, `3.1.*` | | | not modelled: fragments `boot.asm` grew out of |

### How they interact

    boot.asm --INT 13h--> rombios.c --ports 3F2/3F4/3F5--> floppy.cc --set_DRQ--> dma.cc
                            ^    ^                         |   ^  ^                  |
                            |    |                         |   |  +- dma_write/read -+
                         INT 8   +-- INT 0Eh <-- CPU <-- pic.cc | <-- raise_irq(6)
                            |                              ^   |
                      interval timer                       |   +-- timer() -- pc_system.cc
                                             keyboard.cc --+ raise_irq(1), raise_irq(12)

* The boot sector calls INT 13h and looks only at the carry flag; it retries for ever.
* INT 13h programs the DMA channel, gives the command and waits, interrupts open, for a bit that the
  diskette interrupt sets or for a count that the timer tick runs down.
* The devices' handlers run to completion; what interleaves is the software's port accesses, the
  devices' timers, the DMA grants (taken before the processor's next instruction, `cpu/event.cc`
  328-338), the interrupts, and the user, who ejects and inserts diskettes, presses keys and moves
  the mouse.
* The slave interrupt controller talks to the master by calling its `raise_irq` and `lower_irq`
  inside its own `pic_service`, so a command to one chip changes both and the CPU's INTR.
* Every device's timer is a slot of `pc_system.cc`; a callback may set, stop and take out any of them,
  those that are due at the same tick included.

### Which behaviours are hard

The hazards are listed, each at its line, in `PROJECT.json`. In short: an endless retry whose partial
transfers share a buffer with the data in use; 8- and 16-bit registers at their limits; an `INT` latch,
a cascade line and an `INTR` pin that must move together whatever order edges, masks, acknowledges and
re-initializations come in; a latched request that is stale when acknowledged; a single timer for seeks,
sectors and resets which no reset stops; a status register that alone keeps software away from a
`BX_PANIC`; a terminal count that outlives its transfer; a call cut short by the motor's countdown in
the moment its answer comes; a late interrupt taken for the next command's; a countdown that is
shortened while it runs; counters that are not clocked, but caught up with; callbacks that undo what the
same event has done; one output buffer fed by three queues, two devices and a timer; an edge lost
because a line stays high.

## 2. Modules

| Module | What it is |
|---|---|
| `Geometry` | the arithmetic of `boot.asm` and of the controller's sector address, with the registers' widths |
| `Geometry_proofs` | that these operators invert the layouts they decode |
| `BootSector` | the boot sector, one action per labelled block, and its properties |
| `LoaderContract` | the abstract loader: first match, chain in order, run at the end mark |
| `BootSectorInv` | the inductive invariant of `BootSector`, in named parts |
| `BootSector_proofs` | its proof, the safety theorems that follow, and that `BootSector` implements `LoaderContract` |
| `MCBootSector`, `MCBootDisk` | small diskettes, and diskettes with the constants of `boot.asm` |
| `Pic8259` | both 8259A chips, and their properties |
| `MCPic8259` | the chips with every optional command, one chip at a time in an unusual setting |
| `Pic8259_proofs` | their inductive invariant, its proof, and the theorems that follow |
| `FloppyCtrl` | the diskette controller with its DMA channel, timer and user, and their properties |
| `FloppyCtrl_proofs` | their inductive invariants, of the protocol and of the transfers, with proofs and the theorems that follow |
| `DisketteBios` | INT 13h, INT 0Eh and INT 8 as a process composed with the whole of `FloppyCtrl` |
| `DisketteBios_proofs` | the inductive invariants of the composition, of the protocol and of the service, with proofs and safety theorems |
| `Keyboard` | the keyboard controller with keyboard, mouse, interrupt lines, user and software |
| `Keyboard_proofs` | its types, and that bytes are neither stranded nor misattributed, and read once, in order |
| `IntervalTimer` | the interval timer's counters, latches and gates, clocked lazily |
| `MCIntervalTimer` | two counters in three styles of use |
| `IntervalTimer_proofs` | that announced times are true, and what follows: skipping is clocking, running counters tick, latches are kept |
| `AlarmClock` | the abstract timers: time passes tick by tick and never past an alarm |
| `PcSystem` | the machine's timers, shown to implement `AlarmClock` |
| `PcSystem_proofs` | their inductive invariant, its proof, and the refinement |

`BootSector` and `FloppyCtrl` extend `Geometry`, `DisketteBios` extends `FloppyCtrl`; `BootSector`
instantiates `LoaderContract` and `PcSystem` instantiates `AlarmClock` with a refinement mapping.
Definitions keep the source's names where TLA+ allows. A definition whose name ends in `_off` is the
mutated form of the next one; no action uses it.

### BootSector

`pc` is the label to run next, and each block between two labels is one action. `ret` stands for the
return address of the two `CALL`s and `stk`, `sp` for pushed data; the other variables are the
registers and the four variables at the end of `boot.asm`. A page of memory holds the *number* of
the sector read into it (or `NoSector`), and a byte is looked up in the diskette at the moment it is
read, so a transfer into the wrong place, a stale buffer or a restored-too-early register shows in
what the next block sees. INT 13h is an environment: `ReadSucceeds` fills the pages, `ReadFails`
fills any prefix of them and sets the carry. Bad sectors always fail. INT 10h is left out.

### Pic8259

A chip is a record with the fields of `bx_pic_t`; bit registers are sets of lines. Since
`pic_service` of the slave re-enters the master, a handler is an operator from a pair of chips (and
INTR) to another; an action applies it. `Features` says which optional commands the software of a run
uses. The vector offset and the register-read select, which choose only a number, are left out.

### FloppyCtrl

`fdc` is the controller, `dma` the mode and remaining count of channel 2, `xfer` history: what the
current transfer was asked for and the sectors it has moved. Member functions are operators over
`fdc`, called in the source's order. A command of many bytes is its first byte and its last
(`WriteCommand`, `WriteParameter`), a result its first and last. Software obeys the main status
register and selects drives between commands; it may turn motors off, reset in three ways, read when
there is nothing to read. `Events` says which of these, and which of the user's actions, a run has.
A `BX_PANIC` ends the program, so a step that would reach one is not taken; the one that can strike
in the middle of a DMA grant (`lseek` on an ejected image, `floppy.cc` 1136) ends the behaviour
(`NoImage`).

### DisketteBios

`int13_diskette_function` is a process whose place is `pc`: preparation (motor on, reset released,
wait for RQM), recalibration of an unknown diskette, programming of the DMA channel, the command, the
waiting loop, the results; and the reset of the controller when the count at 40:40 has run out, which
is two writes of DOR, one action each (`HoldController`, `ReleaseController`), and a wait for RQM. It
runs with interrupts closed except in its waiting loops, and there `int0e_handler` (which senses the
interrupt unless result bytes wait, `isr`) and `int08_handler` (which counts down and turns the motors
off) come in between any two of its steps. `request` is the edge of IRQ 6 as the interrupt controller
latches it, withdrawn with the line. An interrupt comes before the program's next step, with one
exception: `handleAsyncEvent` looks for interrupts first and grants the bus after (`event.cc` 322,
334-338), so the program makes another step before it takes the one that a DMA transfer raises
(`granted`). The controller's actions are those of `FloppyCtrl`, called with
the ports' values; its guards say when a command byte would be a panic, and `CommandsAreTaken` that
the BIOS gives one then in one case only (`Overtaken`, see the findings). `rushed` is history: the
command of the transfer that is served was given while a timer still ran. The interval between ticks is arbitrary, except that the program makes
at least a step between two of them. The caller asks for anything `Requests` holds, and as `hold` may
leave the controller in reset, as an operating system's own driver does, once no timer runs (one that
ended that reset early would leave `floppy_prepare_controller` waiting for ever); that the transfer's buffer
would cross a 64K boundary is the Boolean `fits`.

### Keyboard

`kbc` holds the status bits, the output buffer, the three queues and the two devices' modes. A byte is
a token: who sent it, for which input, and its place in the answer. `lineUp` and `request` are the two
interrupt lines and their edges as `pic.cc` latches them. `periodic` raises the lines asked for and
moves one byte; `Interrupt` is the processor with a handler that reads port 60h; `PollData` is
software that looks at the status register instead; `Software` writes the commands, `User` presses
keys and moves the mouse. The interrupt handlers are external: the repository's operating system has
none yet. `Racy` says whether software asks for an answer with a byte unread.

### PcSystem and AlarmClock

The table of timers, the countdown and what the callbacks of an event have still to be called.
`Tick` and `CountdownEvent` are the processor's `tick1`; `Call` and `Return` bracket a callback,
within which any device operation may be made, as between two instructions. `AlarmClock` is what the
devices count on: time passes one tick at a time, the alarms set for a tick ring in it, once each, and
time stands still until they have been heard. The mapping reads the time off the countdown
(`time_ticks`) and the alarms off the slots in use, and so says at once that no timer is passed by,
fired twice or moved, and that shortening the countdown does not change the time.

### IntervalTimer

A counter is a record with the fields of `counter_type`; `Clock` is one clock pulse in each of the six
modes, `ClockMultiple` the jump over many that the code makes instead. The member functions are
operators from a counter to a counter. `HandleTimer` lets any number of clocks pass, up to the nearest
announced event and the one clock that the conversion to microseconds may be late; every access to a
port calls it first, which here is the order of two actions. `owed` is history: the bytes a latch has
promised. The reference for the jumps is the code's own single clock, so the module says *for which
counters* the two agree (`Exact`), and the comment there names the line at which each of the others
goes wrong.

## 3. What TLC checks

| Run | Instance | Question |
|---|---|---|
| `boot_small` | 2 root sectors of 2 entries, 8-byte sectors (one entry cut by a sector end), 3-page segment, 2-letter name; 2657 diskettes | is what is run the whole file; does only an absent name halt; are entries decoded right; does every well-formed diskette boot; is it the abstract loader |
| `boot_disk` | the constants of `boot.asm`: 224 entries, 2880 sectors, 128 pages; four diskettes | does it boot at the real edges: last entry, last cluster, entries 340/341/1365 across sectors, exactly full segment |
| `pic_nested` | 3 lines a chip, cascade on the middle one, 2 edges, fixed priorities | does it nest, is no request starved, does the slave stay heard |
| `pic_modes` | 2 lines a chip, 2 edges; every command, but one chip at a time with special mask or polling, with level lines, or with automatic EOI or rotation; ICW1-4 at any moment, the first two settings aside | is no request lost or forgotten, do INT latches, cascade wire and INTR agree |
| `floppy_commands` | 2 drives, all commands without data, every event | status register, interrupts, sense commands, change line |
| `floppy_transfers` | 1 drive, 2 cylinders of 2 heads of 2 sectors of 2 units, transfers of up to 3 units, resets | sectors in order, no early normal end, commands end |
| `diskette_bios` | 1 drive, 1 cylinder of 2 heads of 1 sector, requests of up to 2 sectors, motor count 2; diskettes exchanged, controller found in reset | does every call return, does success mean the sectors asked for, does a call given up leave nothing behind, are the panics out of reach |
| `keyboard` | all commands, 4 inputs, queues of 3, 8 and 5 bytes | is no byte stranded, lost, misattributed or read twice, is the order sent the order read; do the interrupts drain it |
| `interval_timer` | counters 0 and 2, bytes of 2 bits, every mode and byte order | is a jump over many clocks the same as the clocks, does a counter tick once a period, are latched counts kept |
| `pc_system` | 3 slots, null period 4, counter of 5 values, periods 1, 2, 3, 5, time up to 8 | is no timer passed, do callbacks come in their tick, is it the alarm clock |
| `floppy_past_end` | multi-sector writes | **violated**: a write runs past the end of the image (finding) |
| `keyboard_racy` | commands given with a byte unread | **violated**: a keyboard byte comes out as the mouse's (finding) |

Every property of a passing run has a mutant in `PROJECT.json`: a change of the modelled code, of the
kind a slip would be, under which TLC finds it violated.

### Why the bounds are enough

* *Boot sector.* Control depends on positions in the directory, name prefixes, the parity of an entry
  and whether it straddles a sector, and the next cluster. Four entries over two sectors give first,
  last, and both sides of the boundary; all 256 directories of four
  short names (equal, equal at first, equal at last, other) occur; five clusters with every table over
  three of them (seven values each, free, end mark, unknown end mark, a bad sector, cycles) give every
  shape of chain, including one longer than the segment. The widths that small numbers cannot reach
  are the subject of `boot_disk`, and everything numeric is proved for every value.
* *Interrupt controllers.* With three lines and the cascade in the middle there is a line above and
  one below it. `MaxRaises` bounds device edges only: masking and unmasking a pending slave line
  raises the cascade line any number of times, so two edges give three requests on the master. A
  request, a second one, and what happens to the first between latch and acknowledge need two edges;
  one would hide, for instance, the withdrawn slave request that leaves a master without EOI silent.
  The optional commands run with two lines, and `OneIsUnusual` keeps one chip at a time in an unusual
  setting: special mask or polling, level lines, or automatic EOI or rotation; settings are not mixed,
  and only the last is tried while a chip is being initialized.
* *Diskette controller.* Two sectors, two heads and two cylinders give every kind of successor of a
  sector (same track, other head, next cylinder, end of diskette), from every starting sector; three
  units of two per sector end inside the second sector, on its predecessor's end, and before it. Two
  drives show a drive mistaken for another. Durations are abstracted: the timer, once started, may
  expire at any time.
* *Diskette BIOS.* A track of one sector makes every request of two sectors run over an end: from the
  first head over the end of the track, from the second past the last cylinder (that sectors follow one
  another inside a track is the business of `floppy_transfers`); sector numbers 0 and one past the track
  are asked for, as are sector counts 0 and one too many, and drives that do not exist. A motor count of
  two lets a tick fall between the setting of the count and its use, and run out in any step of any
  loop. A second drive shares nothing with the first but the DOR, which `floppy_commands` covers.
  Between two calls anything that the first has left, a count, a flag, an interrupt, a running timer,
  meets the second. These are 440,000 states; longer tracks multiply
  them and hold no new order of events.
* *Keyboard.* A byte needs a sender, a place and something that may overtake it: four inputs put bytes
  of both devices and of two commands behind one in the buffer, and a keyboard queue of three is filled
  and refuses by the way. Longer queues add only more of the same.
* *Timers.* Three slots are the null timer and two that meet in a tick, set each other, and are taken
  out and used again; period 5 is one past the counter's width, 4 the null timer's own.
* *Interval timer.* A byte of two bits gives counts of four bits, with borrows between the bytes, odd
  and even counts, 0 for 16 and the invalid 1; every property looks ahead over a whole run of the
  count. Counters share nothing but the virtual timer, so two show what three would; what both can do at
  once is split into three styles, counter 2 alone in every mode, both running, counter 0 latched.
  Where no event is announced two clocks at a time are as many as needed to reach any count.

### Fairness

* `BootSector`: weak fairness of the program, strong fairness of a successful read of a sector that
  is not bad. The CPU does not stop; that a drive delivers at last what is not damaged is the
  assumption the endless retry of `boot.asm` 278 rests on, and `BootEnds` is stated under it.
* `Pic8259`: the CPU takes a pending interrupt, and handlers end with an EOI. `RequestsAreTaken`
  also assumes that software stops rewriting the masks: without that, each rewrite of the slave's
  mask pulses the cascade line and can overtake a lower line for ever.
* `FloppyCtrl` (`FairSpec`, used by `floppy_transfers` only): started timers expire and granted DMA
  transfers happen, as the main loop of the emulator guarantees. Nothing is assumed of software or of
  the user. `CommandsEnd` excepts commands given for a drive that does not turn a diskette, which the
  code hangs on purpose ("Hang controller"), and transfers whose DMA count is exhausted.
* `DisketteBios` (`BFairSpec`): the processor goes on, with the program of a call or with the diskette
  interrupt (`Proceed`), the ticks come, and so do the device's timers and grants. A caller need not call, a user need not act;
  the ticks may be as fast as a step of the program each.
* `Keyboard`: the main loop runs `periodic`, the processor takes its interrupts. `InterruptsDrain`
  assumes that clocks and interrupts are enabled for good from some time on, and then wants the two
  handlers alone, without polling, to read every byte.
* `PcSystem`, `AlarmClock` and `IntervalTimer` have none: what they promise is safety.

### Findings

1. `floppy_past_end`: only the first sector of a transfer is checked against the image
   (`floppy.cc` 1058-1060); a write over the last cylinder goes on past its end (1431).
2. `keyboard_racy`: `controller_enQ` keeps the source of a queued byte (`keyboard.cc` 768), and the
   read handler never looks at it: every queued byte comes out as the mouse's, with `auxb` set
   (302-309, 328-330), announced by the interrupt of the byte read before it. Software that asks while
   a byte is unread is told a keyboard byte came from the mouse. With `Racy` the line
   of the byte before can also stay high, and with it further edges are lost (`InterruptsDrain` fails).

Also seen, and kept as hazards or notes, since nothing in the repository promises otherwise: after a
sense command without interrupt `status_reg0` is 80h and `enter_result_phase` (`floppy.cc` 1829) tests it before the
command, so that version answers one byte 80h; a read or write without diskette hangs with RQM set
(1018-1022), and the byte that software may then write runs into the panic at 650; the INT latch is
dropped for a masked request only if no other is pending (`pic.cc` 580-581), and otherwise the masked
line enters service; with automatic EOI a withdrawn slave request returns from `IAC` before the master
is served again (`NothingForgotten` excepts exactly that master); a timer left over from before a
*held* or hardware reset that expires with the last parameter of a write, while TC is still set from
the transfer before, ends the write as done (`NormalEndIsComplete` fails with the event `hold`, so
`floppy_transfers` has resets written in a row, as software writes them; with the BIOS as the only
software it takes a call that has timed out: a sector's timer that expires between its two writes of
DOR, `rombios.c` 7055 and 7056, ends the reset at once (`floppy.cc` 1260), the second write starts it
again (609), only RQM is waited for (7059-7061), and so it may still run when the next write is given;
`SuccessMovesAll` excepts the transfers whose command finds a timer running); the interrupt of a
transfer that ends in the DMA grant before the instruction at 7055 is taken after it, when the controller
is held in reset: `int0e_handler` finds a status of 0 and sends 08h while 0xfe is pending, the `BX_PANIC`
of `floppy.cc` 650 (`CommandsAreTaken` and `CallsReturn` except exactly this state, `Overtaken`; on the instance of
`diskette_bios` TLC reaches it, and without `rushed` finds `SuccessMovesAll` violated);
INT 13h with a write that begins at a sector no track has runs into the BIOS's own panic "write
error" (`HaltsOnlyPastTrack` excepts exactly that); and of the interval timer: the square wave (mode 3) with
count 0 has a half period of 65536 clocks instead of 32768 (`pit82c54.cc` 454, while `pit.cc` 323
takes 0 for 65536 as the whole), with an odd count a period one clock too long (450, before OUT changes
at 467), with 2 a period of 4, and stalls when an odd count is rewritten; a half-written count of mode 0
once loaded, and mode 2 with its gate closed, count although they stand still; a count written to mode
1 or 5 is taken at once (784, though 796 says "Otherwise, no change"); counters 1 and 2 are not waited
for while counter 0 has no event (953); status latched between the two bytes of a latched count makes every
read give 0 (618).

## 4. What is proved

TLAPS checks the following for every value of the constants under the modules' assumptions.

| Theorem | For every value of the constants |
|---|---|
| `Geometry_proofs!ChsRoundTrip`, `FatRoundTrip` | the arithmetic of the boot sector inverts the layouts it decodes |
| `BootSector_proofs!TypeCorrect` | registers, memory and stack keep their widths |
| `BootSector_proofs!LoaderIsWhole` | control reaches the loader only with its whole chain in memory, in order |
| `BootSector_proofs!NeverHaltsInVain` | "no loader" is said only of a directory without it |
| `BootSector_proofs!EntriesAreRead` | a decoded table entry is that of the cluster just loaded |
| `BootSector_proofs!NeverDividesInVain` | with 12-bit clusters in the directory, the division of `ReadOneSector` never faults |
| `BootSector_proofs!KeepsContract` | the boot sector implements the abstract loader |
| `Pic8259_proofs!TypeCorrect` | the registers of both chips keep their widths |
| `Pic8259_proofs!WiresAreTrue` | INTR is the master's INT, the cascade line the slave's |
| `Pic8259_proofs!NothingIsForgotten` | a servable request has INT, or an end of interrupt is due |
| `Pic8259_proofs!SlaveIsAlwaysHeard` | without ICW1 after boot, a waiting slave has its request at the master |
| `Pic8259_proofs!RequestsAreNeverLost` | without ICW1 after boot, a request goes only by its line or into service |
| `Pic8259_proofs!InterruptsNest` | with fixed priorities, interrupts nest by priority on each chip |
| `FloppyCtrl_proofs!StatusIsTrue` | software is asked to read exactly while result bytes wait, and a command the status register invites finds none pending |
| `FloppyCtrl_proofs!NoCommandIsForgotten` | whatever is pending, somebody has the next move |
| `FloppyCtrl_proofs!InterruptsAreExplained` | sense commands account for interrupts and resets |
| `FloppyCtrl_proofs!AbsenceIsTold` | the change line of an empty drive is on |
| `FloppyCtrl_proofs!TransfersAreFaithful` | sectors moved, units left, heads and timer agree throughout a transfer |
| `FloppyCtrl_proofs!NormalEndsAreComplete` | a transfer that ends normally has moved all it was asked for |
| `FloppyCtrl_proofs!SectorsAreInOrder` | a transfer moves the sectors asked for, one after the other |
| `DisketteBios_proofs!BiosCommandsAreTaken` | no command of the BIOS meets a busy, held or stopped drive, but that of an interrupt between the two writes of a reset |
| `DisketteBios_proofs!BiosHaltsOnlyPastTrack` | INT 13h never waits for results that do not come |
| `DisketteBios_proofs!BiosLeavesNothingMoving` | nothing moves over the DMA channel after a call |
| `DisketteBios_proofs!SuccessIsComplete` | success of INT 13h means the sectors asked for, all and in order, if no timer of an earlier reset met the command |
| `DisketteBios_proofs!BiosTypesAreKept` | registers, DMA count and BIOS data keep their ranges; no more sectors move than units were programmed |
| `Keyboard_proofs!TypeCorrect` | no queue outgrows its array |
| `Keyboard_proofs!NobodyIsStranded` | no byte waits behind an empty buffer without a timer |
| `Keyboard_proofs!SourceIsTold` | the status register tells whose byte the buffer holds, to software that reads before it asks |
| `Keyboard_proofs!OrderIsKept` | to the same software: each device's bytes come in order, once each, and only named commands answer ahead of what waits |
| `IntervalTimer_proofs!CountersRight` | the announced times are true of the counts, and the latches hold what is owed |
| `IntervalTimer_proofs!SkippedClocksAreClocked` | to make up for clocks at once is to be clocked as often |
| `IntervalTimer_proofs!RunningTicks` | a running counter raises OUT once in every period |
| `IntervalTimer_proofs!LatchedBytesAreRead` | a latched count is read as it was latched |
| `PcSystem_proofs!TypeCorrect` | the countdown stays within its counter and is never zero between events |
| `PcSystem_proofs!NeverPassed` | an active timer is searched for and is not due before the next event |
| `PcSystem_proofs!CallsOnTime` | a callback comes in the tick its timer was set for |
| `PcSystem_proofs!Implements` | the countdown and its events are the abstract alarm clock |

`SlaveIsAlwaysHeard` and `RequestsAreNeverLost` have the hypothesis `"reinit" \notin Features` because
ICW1 clears an irr outright (`pic.cc` 280), the slave's request at the master included. (With it,
`RequestsAreKept` is checked for every step but those of a chip that is still being initialized.)
`InterruptsNest` has the hypothesis `FixedPriorities`: a rotation changes what "above" means, and with
the special mask a lower line may enter service on purpose; polling, automatic EOI, level lines and
re-initialization are allowed. The three theorems on transfers assume `NoTimerLeftOver`, that the events `hold` and `power` do not happen:
TLC shows that with either a timer left over from before the reset ends the next write as done
before it begins (the hazard at `floppy.cc` 1213). The theorems on `DisketteBios` hold with such a timer: none
of them assumes it away, and only `SuccessMovesAll` says nothing of the one transfer whose command it
meets (`rushed`); that afterwards nothing moves, that commands are taken and that the BIOS halts for no
missing result is proved in its presence. `SourceIsTold` and
`OrderIsKept` assume `~Racy`; the run `keyboard_racy` is the counterexample without.

Assumptions, all named and evaluated by TLC on the instances: `GeometryAssumption`, `BootAssumption`
(numbers fit their registers, the segment is a whole number of pages, directories hold 16-bit and tables
12-bit values, the loader's name has 1 to 11 bytes), `ReachAssumption` (every sector number the program
computes has a track number that fits AL: 18 sectors a track reach 4608 sectors, while the directory ends
at sector 33 and the largest table entry, 4095, names sector 4126), `PicAssumption`, `PcSystemAssumption` (at least one
slot besides the null timer's, whose period fits the counter), `FloppyAssumption`, `BiosAssumption` (the
motor survives one tick, the end of track of a request fits its byte, the DMA channel counts any request), `KeyboardAssumption` (arrays of at least a
byte, packets of 3 or 4 bytes), `IntervalTimerAssumption`. A diskette of the proofs is
any record with such a directory and table: damaged, cyclic, unterminated.

**Geometry_proofs.** `ChsRoundTrip`: the cylinder, head and sector `ReadOneSector` computes name the
sector it was given, in the controller's own formula. `FatRoundTrip`: byte index, parity, shift and
mask of `GetFATEntry` give back the entry that the FAT12 packing stores, for every cluster, odd or even.

**BootSector_proofs.** The four safety theorems are consequences of one inductive invariant,
`IInv == TypeOK /\ SectorsInv /\ EntriesInv /\ ReadsInv /\ PagesInv`. The properties are not inductive:
"the whole chain has been loaded" says nothing of a state in the middle of `GetFATEntry`, when the
page, the segment and the cluster are on the stack and the buffer is being overwritten. `SectorsInv`
says which directory sector is in the buffer and that all entries before it have been tried;
`EntriesInv` where in the entry the comparison stands and that the prefix agrees; `ReadsInv` what each
pending read is for and what the stack holds meanwhile; `PagesInv` that the pages up to `LoadPage`
hold the chain so far, in order. Each action has a lemma `...Step` with one step per conjunct;
`Invariance` puts them together.

`KeepsContract` is the refinement: under `IInv` the initial states map to the
contract's, the block that finishes the comparison is its `Find`, the return of a read into the segment its
`LoadFirst` or `LoadNext`, the end mark its `Run`, an overrun or a faulting division its `Fault`, the
exhausted directory its `GiveUp`, and every other block a stutter. `Phases` tabulates the mapping, so that the steps
need not expand it. One fact had to be added in `BootSectorInv`, `NoMarkFollowed`: the program goes on to the
next page only with an entry it has compared with the end mark; without it a step could map to a load
behind the mark, which the contract does not allow. `NeverDividesInVain` needs `FitsInv`: whatever is about to
be read is a sector of the directory, the table or a 12-bit cluster, so its track number fits AL.

**Pic8259_proofs.** The wires are inductive, the rest is not: that the slave's request is at the master
follows from the wires *and* from what each handler does to the other chip. `Sound`, a predicate on a
pair of chips, joins `Wired`, `Heard`, that each chip is `Attended`, and that a chip ends its own
interrupts only after ICW4 (`Settled`, `Plain`): the slave is never excepted, the master only with
automatic EOI. `ServiceMasterEffect` and `ServiceSlaveEffect` say what `pic_service` does to a pair,
the second one also how little it changes on the master (`Related`); `Touched` and
`TouchedAndServed` what a command does without and with it; then one short lemma per handler shows
`SoundStep`, and `IacSound` follows IAC through its four ways out. `BestIsOne`, that the search finds
one of its lines whatever the rotation, rests on the least number principle. `InterruptsNest` has an invariant of its
own, `Nested`: the line a chip has latched, even if the latch is long stale, is never below one in
service. `pic_service` latches only above what is in service (`LatchNests`), commands only take lines
out (`CommandInherits`), and IAC puts in the latched line and no other (`LatchedOutranks`), which with
fixed priorities is strictly above the rest unless it is there already.

**FloppyCtrl_proofs.** `Sound`, a predicate on the controller's record, is the properties and what they
rest on: that a command without result phase is not pending once executed, that an interrupt without
result bytes has a cause in ST0 (and drives left to sense, if the cause is a reset), that parameters
are only collected for known commands. The member functions are chained (a command selects a drive,
resets a change line, steps a head, enters a phase), so each has a lemma that says what it does to the
fields `Sound` looks at; `Like` is the most frequent answer, "nothing, but that the change line of a
drive with a diskette may go off". Every action then follows from the effects of the functions it
calls, in order, without their definitions. The transfers have a second invariant on top, `TInv`:
`Machinery` says whose the one timer and the DMA request are, so that nothing but the transfer itself moves
it on; `Counted` that sectors moved and units left make up what was asked for, and that a write whose
last sector is on its way has nothing left; `Ordered` that the sectors moved are the first of those asked
for and the heads at the next. The arithmetic is apart: `Place` gives the cylinder, head and sector of
the i-th sector in closed form, `NextPlace` and `IncrementSectorPlace` show that `increment_sector` goes
from one to the next, and `HereIsNth` that the image's sector number is the one the property wants.

**DisketteBios_proofs.** None of the three properties is inductive: whether the controller takes the
next command byte depends on where its last interrupt has got to. `BInv` extends the controller's
invariant by `Follows`, what the controller is doing (`AtRest`, `HeldInReset`, `Restarting`,
`Recalibrating`, `Transferring`) at each place of INT 13h, and by who knows of its interrupt: it is
latched (`Announced`), being sensed (`Sensing`), or flagged in 40:3e (`Flagged`). In `AtRest` a timer may
run, that of a reset ended early: its expiry must do nothing there, and to a transfer nothing that leaves
the controller asking for a DMA channel with no units left. That is `Fed`: a timer that runs or a
DMA request during a transfer has units to move (`Owed`), or it is the end of a write. `Spins` bounds the
motor's countdown: one tick may come between its start and the command, not two, which is why
`BiosAssumption` is needed. The lemmas on the controller of `FloppyCtrl_proofs` are reused; `Alike`
adds motors and buffer to `Like`. `SuccessIsComplete` adds `Serving`: that the DMA channel is
programmed for the call that is served (`Programmed`) from the moment the program has done so, and while the command
runs and until its result is read, that the sectors moved are the first of `Wanted`, the heads at the
next, and the units left those of the rest (`Delivered`, `Proceeds`, `Reached`), unless the call is
`rushed`. Success is a result with
normal end, for which nothing is left. A call that fails or is given up may leave any of this undone,
and need not be followed further. The ranges (`BTypeOK`) are mostly kept function by function
(`Registers`, a lemma each); on `BInv` rest the end of track the BIOS gives, a byte because the
request was accepted, and that no more sectors are recorded than units were programmed (`Accounted`): the
channel grants while the buffer has room, so that every sector takes a unit at least, and one more may be
in a buffer that a protected diskette refused and that a leftover timer makes the channel find full
(`Withheld`).

**Keyboard_proofs.** `NothingStranded` (`Moving`) is inductive with the types (`Held`): whatever queues a
byte, sets a clock going or empties the buffer starts the timer in the same call. `BufferTellsSource` is
not: a queued byte may come out as the mouse's. `Told` adds that the controller's queue holds nothing but the
mouse's answers, which is so as long as software reads before it asks. For the order each handler has a
lemma on the two streams: what it sends is the first bytes of one answer, behind what is there (`Safe`,
`Grows`), or, for the commands that answer past the devices' queues, in front of it too (`AnswerSafe`);
`TypedByte` adds one byte of an answer, if there is room. `MoveKeeps` takes the head of a queue to an empty buffer and leaves the
stream as it is, and `readTakes` takes the head of one stream and leaves the other.

**PcSystem_proofs.** `IInv == TypeOK /\ NullRuns /\ Searched /\ NoTimerIsPassed`. That no timer is
passed is not inductive alone: an event must find some active timer to count down to, and not further
than the counter reaches. `NullRuns` says that the null timer is always active and at most its period
away, so the remainder modulo the counter's width changes nothing; `Searched` that slots from
`numTimers` on are free, so that registering finds its slot and lowering `numTimers` hides no timer.
`CallsOnTime` has to speak of all callbacks that an event has still to make, not just of the one that is
made (`WaitingOnTime`). `Implements` maps the initial state and every step under this invariant: a tick and an event are
`Pass`, the return from `Call` is `Hear`, a device operation is `Arm` or stutters.

**IntervalTimer_proofs.** `IInv == TypeOK` and, of every counter, `Told`, `Paced` and `Owes`. `Told` is what the
announced time (`next_change_time`) says of the count, mode by mode: how far the count is from
where OUT changes, and what OUT is until then. `Paced` says where in its period a running counter of
mode 2 or 3 is, `Owes` that the latches hold the bytes still owed and the read state their order. Each
single `Clock` keeps them in each mode; that waiting up to the announced time (`Waits`) is being clocked
as often is the case of a whole `Turn`. The loops of the jump are orbits of their body: `Iterate` is
a function, and induction is over a set of numbers, since the library's induction theorems take an
operator. `OneMore` is the step: to make up for one clock more is to be clocked first and to make up
for the others then. For the periods, `Position` is the number of clocks to the end of the period; it
counts down by one a clock and starts again from the reload value, so that OUT rises exactly once
before it returns to where it was (`OncePerPeriod`). The parts of `IInv` were checked by TLC on one
counter in every mode before they were proved.

Only model-checked: liveness everywhere (`BootEnds`, `BootableBoots`, `RequestsAreTaken`, `CommandsEnd`, `CallsReturn`,
`InterruptsDrain`), which is out of the prover's reach. Every safety property of a passing run is a theorem, some under the
hypotheses above. The two violations are shown by TLC.

## 5. What is not modelled

The repository is a boot sector of some hundred lines and the 360,000 lines of the emulator it is
tried on. Most of the latter is data path: instruction decoding and execution, floating point,
graphics, host windows, sound and network back ends, option parsing, a debugger, tables. There is no
state machine in them that a model would make clearer, and no bound under which one would be checked.
What is modelled is what the boot path runs through and where orders of events matter; the coverage of
the whole is therefore small and will remain so.

In the modelled components:

* *Boot sector*: the screen, and the difference between the two copies of the table.
* *Interrupt controllers*: vector offsets and register reads.
* *Diskette controller*: format track, non-DMA mode ("not fully implemented yet", `floppy.cc` 787), the
  data rate and the bytes of dump, configure and lock, DOR bit 3, software that rewrites DOR's drive
  number in the middle of a command.
* *Diskette BIOS*: function 05h, which needs format track, and those that only report or set BIOS data
  (00h resets no controller; 01h, 08h, 15h to 18h). Function 04h verifies nothing beyond recalibrating
  an unknown diskette, and so does the model. A caller that toggles the reset itself between two calls
  leaves an interrupt that the next call takes for its own; only a controller left held is modelled.
  Drives whose type `floppy_media_sense` does not know stay unknown and fail or are recalibrated again.
* *Keyboard*: scan codes and their translation, A20 and processor reset, wheel and wrap mode, rate,
  scaling and resolution. A packet carries all movement gathered so far; that one carries at most 254
  or 255 and leaves the rest for the next is left out.
* *Interval timer*: BCD counting, the bits of the status byte, the speaker (its frequency is computed from
  the count written, not from OUT), and the conversion between microseconds and clocks, but for the clock
  it may be late.
* *Timers*: the conversion of microseconds to ticks, `setTimerParam`, and `virt_timer.cc`, which
  shares one of these timers among many. A callback that stops or moves another timer due in the same
  tick does not call it off; `CallsAreDue` excepts exactly those.

The components marked so in section 1 are not modelled at all; `PROJECT.json` gives each reason.

## 6. Plan

Written in this order, the most important behaviour first; items 1 to 5, the first part of 7, and 8 are done.

1. `Geometry`, `BootSector`, `LoaderContract`, their runs and proofs.
2. `Pic8259`: wires, priorities, liveness, proofs.
3. `FloppyCtrl`: commands, transfers, faults.
4. `DisketteBios`: INT 13h composed with the controller. This closes the loop with the environment
   `BootSector` assumes: a read without carry has moved the sectors asked for, and any other leaves
   the controller usable.
5. `PcSystem` with `AlarmClock`, proofs; `Keyboard`.
6. `Dma8237`: the register file with its flip-flop, masks, modes and the cascaded pair; `FloppyCtrl`'s
   `dma` shown to be what channel 2 implements.
7. `IntervalTimer` (done); then the virtual timers over `PcSystem`, the CMOS update cycle; the redolog of disk
   images; format track.
8. Proofs: the refinement of `LoaderContract`, nesting of `Pic8259`, the order of transfers against
   `Nth`, `Keyboard`, `IntervalTimer`, the ranges of `DisketteBios` and of the controller under it (done).
