# A TLA+ model of the Voja4 nibbler

The repository is an emulator of the Voja4 four-bit badge: a virtual machine
(`vm.c`, `ops.c`, `rng.c`) and a terminal user interface (`ui.c`) that loads a
program (`program.c`) and runs it in one event loop.  These modules model the
machine, the loop around it, the loading of a program and the life of the
process.  TLC checks them on chosen programs, files and times; TLAPS proves
what does not depend on the program.

## 1. The system

| component | state | operations | what makes it correct |
|---|---|---|---|
| Operations and flags (`ops.c`) | 256 words of memory, flags C, V, Z | 21 operations, 31 rows of two instruction tables | chained nibble arithmetic is integer arithmetic; V is the same in both its places; stores stay in their footprint |
| Call stack (`ops.c`) | `reg_sp`, the nibbles 0x10..0x1e of memory | a write to JSR calls, RET returns | returns go where the call came from; a sixth call and an unmatched return end the process |
| Machine cycle (`vm.c`) | program memory, `reg_pc`, sync timer | `vm_init`, `vm_execute_cycle` | the counter stays in program memory, no sync is lost, pins read 1 |
| Random numbers (`rng.c`) | 32-bit state, its nibble in RANDOM | seed, read-and-advance | register and state stay in step |
| Key handling (`ui.c`) | KEY_STATUS, KEY_REG, PAGE, time of the last press | press, artificial release, page move | no press is lost to a polling program; a key comes up |
| Event loop (`ui.c`) | `paused`, `single_step`, `vm_dirty`, time stamps | `ui_run`, `ui_update` | no cycle starts early; every cycle comes unless paused; a step is one step |
| Display (`ui.c`) | what was drawn last, time stamps | `maybe_update_display` | no change is mistaken; the screen of a running machine catches up |
| Status panel (`ui.c`, `ops.c`) | the panel, a line buffer | `maybe_update_status`, `disassemble_instruction`, the `get_info_` functions | current while paused; text fits its buffer and says which instruction it is |
| Loader (`program.c`) | the file, a buffer, the program | `read_file`, `load_program` | what runs is what the file says; every block is freed once |
| Clock (`clock.c`) | the reference time | `timespec_subtract`, `get_vm_clock`, `vm_clock_as_usec` | exact differences; rounding never shortens a wait |
| Process (`main.c`, `ui.c`) | `need_cleanup`, signal handlers, the terminal | options, init, signals, cleanup, exit | the terminal is restored; errors are reported; signals end the process |

How they interact.  There is one thread.  `ui_run` loads the program, creates
the machine and goes round a loop: it reads the keyboard, which may change the
machine (`handle_keys`), redraws what is due, and executes a cycle if the
machine is not paused and the time given by the Clock register has passed.
The machine knows nothing of the loop; the only shared state is the
`vm_state`.  A cycle is synchronous: it serves the sync timer, writes the
input port, fetches, moves the program counter on and then runs the operation,
which may end the process (by a signal to itself, a message and `exit`) or
fail an assertion.  Signals may arrive anywhere.

What is hard in it:

- *Order inside a cycle*: the timer sets USER_SYNC before the instruction that
  may read and clear it; the program counter has wrapped before a call saves it.
- *Order between cycle and user*: a second key before the first is read, a
  release before the press is read, a page move between two instructions,
  pause and single step between two rounds.
- *Decide, sleep, act*: the loop computes a delay, sleeps, and executes without
  looking again; a signal may cut the sleep short.
- *Marks and rate limits*: a change is marked, the update may be skipped, and
  the mark is cleared nevertheless.
- *State held twice*: overflow in the flags and in RD_FLAGS, next to
  USER_SYNC; RANDOM and the generator; the input port that WR_FLAGS moves; the
  copy of two pages that the change detection keeps.
- *Side effects by address*: the same store calls, jumps, seeds, or does
  nothing of the kind, depending on the instruction that makes it.
- *Arithmetic ends*: a carry into a carry, inverted borrow, counts that mean
  sixteen or four when zero, a 16-bit counter over a 12-bit memory, unsigned
  constants in signed time arithmetic, a buffer whose room is counted by hand.
- *Partial failure*: four allocations, a read that may be short, a file that
  changes between measuring and reading it.
- *Signals*: handlers that run the cleanup a step of the main program, or of
  another handler, is in the middle of.

`PROJECT.json` lists each of these at its line, with the property that
watches it or, for the few that none does, the reason.

## 2. The modules

| module | models | remarks |
|---|---|---|
| `Nibbles` | arithmetic of 4, 8 and 16 bits, masks | constants only |
| `Rng` | `rng.c` | 32-bit state as four bytes, so that TLC's integers suffice |
| `Ops` | `ops.c`, constants of `vm.h` | each `op_xxx` is a function from a machine to the machine after it |
| `Vm` | `vm.c`, the instruction tables, `handle_keys` | state machine; one action per operation |
| `CallStack` | nothing: what calls promise | abstract, worked by what the instruction at the counter asks for; `Vm` refines it |
| `Alu` | nothing: programs that compute, and what they should | EXTENDS `Vm`; a constant set of programs and invariants of it |
| `Ui` | `ui_run`, `ui_update`, `handle_keys`, `maybe_update_display`, `maybe_update_status`, `vm_get_cycle_wait_usec` | EXTENDS `Vm`, whose actions are the cycles and keys of the loop; implements `Pacer` and `Keypad` |
| `Pacer` | nothing: what the loop promises of the pace | abstract; `Ui` refines it |
| `Keypad` | nothing: what a program is promised of its keys | abstract; `Ui` refines it |
| `Clock` | `clock.c` | words of 64 bits by their modulus |
| `Disassembler` | the text of an instruction (`ops.c`) | a row of the panel |
| `Loader` | `program.c`, the start of `ui_run` | state machine; one action per call that can fail |
| `Lifecycle` | `main.c`, `ui_start`, `ui_destroy`, cleanup and signal handlers | EXTENDS `Loader`, which runs inside it |
| `VmProofs` | | theorem: types; what each operation returns |
| `FootprintProofs` | | theorems: what each operation leaves alone, presses, `Vm` implements `CallStack` |
| `DeviceProofs` | | theorems: overflow, sync, random numbers, pins, pointers |
| `AluProofs` | | theorems: what the programs of `Alu` compute, for all operands |
| `UiProofs` | | theorems: `Ui` implements `Pacer` and `Keypad`; interrupted sleeps; the matrix, the panel, types of `Ui` |
| `ClockProofs` | | theorems: `Clock` computes differences of times |
| `LoaderProofs` | | lemmas: the file format for every radix and length, the invariant of `Loader` |
| `LifecycleProofs` | | theorems: what the process leaves behind, what it runs |
| `MCAlu`, `MCFlow`, `MCEvents`, `MCUi`, `MCFigures`, `MCLifecycle` | | programs, files and small sets for TLC |

### The machine: `Vm`

`vm` is the part of `vm_state` that execution depends on:

| field | in the code |
|---|---|
| `vm.mem` | `user_mem`, 256 words in `uint8_t`; that they stay nibbles is a theorem |
| `vm.pc` | `reg_pc`, 16 bits |
| `vm.sp` | `reg_sp` |
| `vm.flags` | `reg_flags`, as the set of names of the flags that are up |
| `vm.seed` | `rng_state`, four bytes |
| `vm.exit` | why the process ended: `"none"`, `"overflow"` and `"underflow"` (the two `exit(EXIT_FAILURE)` of the call stack), `"assert"` |

`prg` is `prg->instructions`.  It is a variable, chosen from `Programs` at the
start, so that one run covers a family of programs; that it never changes is
part of every action, because nothing in the code writes program memory.

An action named after an operation is one whole call of `vm_execute_cycle`
that decodes to it: timer, input port, fetch, increment, operand fetch,
operation.  Its disjuncts are the rows of the instruction tables for that
operation.  An operation that ends the process leaves what it had done until
then.  `AssertFails` is the cycle in which the assertion of `vm_decode_next`
fails (the Makefile compiles with `-O3` and without `-DNDEBUG`, so it is
active).  `KeyPress`, `KeyRelease` and `MovePage` are what `handle_keys` does
to the machine.

In `Vm` time is a choice: `sync` says whether the sync period has passed when
the cycle starts, and the release may come at any time while LAST_PRESS is up,
so every timing is covered.  A paused machine is one that takes no cycle for a
while.  `Ui` narrows these choices to those the clock allows.  `getrandom` is
a choice from `RandomSeeds`.  Constants are those of firmware revision 4,
which `rng.h` selects by default; with `FIRMWARE_R3` the code has other
constants and is not modelled.

### The loop: `Ui`

A round of `ui_run` is divided where the code reads the clock or sleeps:

    loop -> keys -> release -> display -> status -> wait -> execute -> loop

`phase` is the step that comes next.  The branches are the code's: a badge key
skips the release, an update without changes skips display and status, a
paused machine skips wait and execute, and `Wait` goes back to `loop` when the
cycle is further away than `MAX_UI_SLEEP_USEC`.

| variable | in the code |
|---|---|
| `age` | for each time stamp (`t_start`, the last key press, display update, status update, cycle and user sync), the time since; counted up to `Horizon`, the largest value it is compared with |
| `sleep` | what is left of a `usleep`; no phase goes on before it is zero |
| `paused`, `single_step`, `quit`, `vm_dirty` | the fields of `struct ui` |
| `last` | `last_pages`, `last_dimmer`, `last_matrix_off` |
| `screen` | the two pages drawn and their brightness |
| `panel` | what the status panel shows: registers, ports, program counter, rows |

`Tick` lets time pass at any point, by one unit, also when the loop sleeps no
more: how long a step of the code takes is open.  `Interrupt` is a signal
handler that returns (a resized window) and ends a `usleep`; the constant
`Interrupts` switches it.  `PastMemory` is what may lie behind `user_mem`, read
when the drawing loop indexes page 16.

### Clock, disassembler, loader, process

`Clock` keeps the two times of `get_vm_clock` and computes their difference as
the code does: `NSEC_PER_SEC` is unsigned, so part of the expression is taken
modulo `Modulus` (2^64 in the code) and stored back into a signed word.

`Disassembler` has the mnemonics and operand kinds of both tables and the text
they give.  It models the line buffer as the code uses it: the pointer `out`,
the remaining room `size`, which is not reduced by the comma, and how far into
the array anything was written.

`Loader` has one action per call of `read_file` and `load_program` that may
fail, `heap` with the blocks allocated, and `Rewrite`, by which the file
changes before it is read.  `ReadFails` is an error of the device while a file
that has not changed is read.  `Copy` copies a word; `Overrun` is the same step
beyond `instructions[4096]`, after which the process may or may not survive.

`Lifecycle` keeps a stack of frames, each with the steps it has still to do:
the main program at the bottom, above it the signal handlers that interrupted
it.  Only the top frame runs.  A signal whose handler has not returned is
blocked, as `signal()` of glibc does it; one without a handler kills the
process.  `Outside` is the set of signals that come from elsewhere; SIGUSR1 is
what the machine sends itself before an error message.  The loop appears as
one step that redraws: what it does is `Ui`.  `Usage` stands for the two
failures of `main` before `ui_run`, a wrong command line and no memory for
`struct ui`: both print a message and exit.

### The abstract specifications

`Vm` and `Ui` are about registers and rounds; three small modules say what a
program or a user may rely on, and refinement mappings in `Vm` and `Ui` say
where it is to be seen.

`CallStack` has a stack of return addresses and a variable `asks`, what the
instruction at the counter asks of it: a call, a return, a store, a jump or
nothing.  `Asks` in `Vm` reads it off the nibbles of the instruction, by the
rows of the instruction tables and not by the operations: MOV RX,RY, MOV RX,N,
INC and DEC of JSR ask for a call, RET for a return, the two stores through an
address for a store.  Each abstract action is tied to what was asked for:
`Call` (below depth five) or `Overflow` (at five) is the only way on from an
instruction that writes JSR, `Return` or `Underflow` from RET.  `target` is
where PCH:PCM:JSR points, and a call goes where it points after the
instruction.  So a RET that forgets to take the frame away, a write to JSR
that does not call, a sixth call that is ignored, an exit at any other
instruction and an operation that writes into a frame by accident are no steps
of `CallStack`.  What a jump's destination is it leaves open; `PointerCounts`
and the programs of `Alu` speak of that.

`Keypad` has the three flags of KEY_STATUS, the code, and the time since the
last press.  A press raises all three flags; the release takes two of them
down, no earlier than the delay after the *last* press; and of the
instructions, by `KeyAccess`, only a read by address takes down JUST_PRESS
(and nothing else) and only a store to one of the two registers may do
anything else to it.  `Pacer` has the mode of the machine, the time since the
last cycle and the period in force.

### Faulty variants

A definition `X_bug` (or `X_something_bug`) before `X` is `X` with a plausible
mistake: a dropped guard, a swapped order, a missing carry.  Nothing uses it.
Each property is tried against a variant of the model in which `X` is replaced
by it and must fail there; `PROJECT.json`, "mutants", says which variant each
property detects.

## 3. What TLC checks

| run | states | question |
|---|---|---|
| `MCAlu` | 43 551 | do flags chain nibbles into integers, and do branches decide by them? |
| `MCFlow` | 138 009 | do calls, returns and jumps keep a stack of return addresses? |
| `MCEvents` | 34 080 | do device registers survive all interleavings with keys, page moves and syncs? |
| `MCEventsLive` | 2 130 | does a polling program see each press and each sync? |
| `MCUiPace` | 77 009 | do cycles keep their distance, and do they come? |
| `MCUiKeys` | 168 946 | what do keys, pauses and cut sleeps do to machine and panel? |
| `MCUiScreen` | 143 730 | is every change drawn, now or later? |
| `MCFigures` | 9 102 | are times exact, and do texts fit and tell instructions apart? |
| `MCLifecycle` | 105 824 | what runs, what is freed, and how does the process end? |
| `MCFlowPc`, `MCEventsRead`, `MCUiStale` | | three statements of the repository that the code contradicts |

**`MCAlu`.**  Straight-line programs load two eight-bit numbers in four
registers, combine them, and stop in place.  `SumOfHalves`,
`DifferenceOfHalves`, `ShiftOfHalves` and `LogicOfHalves` compare the result
and the flags with integer arithmetic, whose definition shares nothing with
the code.  Each half is 0, 1, 7, 8 or 15: zero and one, both sides of the sign
and all ones, so that each combination of half-carry, carry, signed overflow
and borrow occurs.  `BranchOnDifference` takes all 256 pairs of nibbles for
each of the four conditions, `LoopCounts` all sixteen counts.  The programs
and their properties are in `Alu`, for any set of halves; `AluProofs` proves
them for all sixteen.

**`MCFlow`.**  All 4096 programs of three instructions over an alphabet of
sixteen: every instruction that calls, jumps, skips or returns, two that write
the stack page or next to it, and two that touch registers in bulk.  Five
nested calls, a call from the last word of program memory and the overwriting
of each nibble of the stack page need longer programs and have their own.
`ImplementsCallStack` is the refinement of `CallStack`, whose frames are
decoded from memory and whose requests are read off the instruction: a write
to JSR always calls or, as the sixth, ends the process; a return always goes
back to where its call came from and takes the frame away, or ends the process
if there is none; nothing but a program's store changes an open frame, and
nothing else ends the process but a counter outside program memory.  Its
mutant is a RET that leaves the stack pointer alone.  `PointerCounts` is the three-register carry of INC and DEC on
JSR and PCL; `Footprint` lists who may change the words between the registers
and the special page.  Program memory is zero beyond a program, 4000 times the
same instruction `CP R0,0`; the constraint `NearCode` follows a program for
`CodeEnd` = 24 words and, below address 0, from 4076 on.  `CHECK_DEADLOCK` is
off because a program that ends the process has no next step.

**`MCEvents`.**  Seven programs poll, store to, point to or move the special
function registers while keys 0 and 13 are pressed and released, the page
moves in both directions and the sync timer may elapse in each cycle.  Two
keys and two seeds suffice for one to overwrite the other; the programs are
loops, so every event meets every instruction of them in every state of the
registers.  `NoSyncLost` and `NoPressLost` say that a flag comes down only in
a step that hands it to the program, or by the program's own store.
`OverflowMirrored` relates the two copies of V.  `RandomInStep` relates RANDOM
to the generator: a store through a pointer is the only way to separate them.
`PinsReadOne`: a test of an input pin is never zero, even though a program may
have stored zero to the register and moved the port.

**`MCEventsLive`.**  `PressSeen` and `SyncSeen` under weak fairness of
`RunCycle`, the disjunction of all cycles, and of nothing else: presses,
releases and the timer are never forced.  The code justifies it: `ui_run`
executes a cycle on each round whose time has come unless the user has paused,
and a cycle is always possible while the process lives; `CyclesCome` below
checks just that of the loop.  The properties hold only of the polling
programs.  A sync that elapses in the cycle that reads the register is set
first and delivered by that very read; a press that follows on the heels of
another merges with it.  Page moves are left out of this run: they touch
neither register.

**The three runs of `Ui`.**  Time is counted in ticks, the constants in the
proportions the code has between them: the longest sleep of the loop is two
ticks, so that periods of 1, 2, 3 and 6 ticks of the Clock register are one
that is slept through, one that just is, one just beyond and one that takes
several rounds.  Every delay and rate limit is 0, 1 or 2 in one run or
another, so that it is met both before and after it has passed.  Fairness is
`WF(Loop)` and `WF(Tick)`: the loop never blocks, because `wgetch` has a
timeout of zero and `usleep` an end, and time passes.  No key and no signal is
ever forced.  `CHECK_DEADLOCK` is off because the loop may be left.

- `MCUiPace`: a program that goes through the settings of the Clock register
  while the user pauses, steps and goes on.  `KeepsPace` is the refinement of
  `Pacer`: no cycle before a full period since the start of the last one, by
  the period in force then, although the loop decides before it sleeps; one
  cycle for one step, and none while paused.  `CyclesCome`: with every period,
  also those waited for in several rounds.
- `MCUiKeys`: programs that poll the keys, store over the two key registers,
  jump to the last word of program memory and leave it, with one badge key,
  pauses, and signals that cut sleeps short.  `KeepsKeys` is the refinement of
  `Keypad`: no release comes early, be it that a key is held, that other keys
  come in between or that the press falls between two phases of a round; the
  release leaves JUST_PRESS for the program to read; and no other instruction
  and no other phase touches the flags or the code.  Its mutant notes the time
  of the first press only as long as the key is down, so that a key pressed
  again comes up too soon.  `AlmostOnTime`: a cut sleep brings a cycle forward by at most
  `MAX_UI_SLEEP_USEC`, and several do not add up.  `KeysComeUp` needs the
  release to be looked at in every round and to count from the last press.
  `PanelCurrent` and `RowsInMemory` are about the panel; `UiTypeOK` includes
  that no negative time is slept.  The type of `screen` allows bytes on its
  second page, for the reason below.
- `MCUiScreen`: a program that toggles a pixel and the dimmer, while the user
  moves through all sixteen pages.  `ChangesDrawn`: after an update that is
  not too early the screen shows the active page and the next one, so the
  change detection mistakes nothing for unchanged.  `ScreenFollows`: as long
  as the machine runs, the screen is in step again and again, although updates
  are skipped and their marks cleared: the next cycle sets the mark again.

**`MCFigures`.**  Seconds of six units, microseconds of two, times up to five
seconds and words of sixty values, the fewest that `WidthAssumption` allows:
all pairs of a start and a reading, with every borrow and wrap.  `Normalised`,
`ReadsElapsed` (the reading is the difference in integers) and `SleepsEnough`
(the rounded wait is never shorter than the period, nor a microsecond longer).
`TextFits` and `Unambiguous` take all 4096 instructions and sixteen words with
the four bits that are not executed set.

**`MCLifecycle`.**  The whole process on every file of up to nine bytes of one
bit: a magic of one byte, words of two bits, and a program memory of two
words, so that files that are too short, too long, without magic, with a wrong
length or sum and with up to two words all occur; and two files whose declared
length exceeds program memory.  The file may be rewritten (by an empty one or
a good one) before it is read; every allocation, the read and `initscr` may
fail; SIGINT and SIGTERM arrive between any two steps, nested as they fall,
and no bound is put on them, because a signal is blocked while its handler
runs.  `RunsTheFile`: the words that run are those whose encoding, defined on
its own, is the file.  `NeverTurnedAway` is the converse, `AlterationNoticed`
what the checksum is for: a change of any one word is refused.  `Balanced`:
nothing is freed twice, used after it was freed or left behind, but the
program when there is no memory for a machine.  `TerminalRestored`,
`ErrorReported`, `StartEnds` and `SignalEnds` are about the end.  Fairness is
`WF(Busy)`: the process goes on, but it need not leave the loop, and nobody
has to rewrite the file.

**Disagreements found.**

1. `PcInProgramMemory`.  The comment above the assertion of `vm_decode_next`
   says it should not happen.  JR takes the counter below 0, to the top of 16
   bits; SKIP and DSZ take it past 4095; only the increment wraps.
2. `ReadResetsJustPress`.  The repository's README says JustPress is reset
   when the program reads the register; `MOV R0,[XY]` reads it as plain memory.
3. `PausedScreenFollows`.  The README says that the matrix shows the active
   page.  `ui_update` clears `vm_dirty` even when `maybe_update_display` has
   returned early by its rate limit; after a single step the machine is
   paused, nothing sets the mark again, and the old picture stays.

**Noticed while modelling**, and modelled as the code does it, without a run
of its own:

- The README says that AnyPress and LastPress stay up once set; the artificial
  release clears them after 200 ms (`KeysComeUp`).
- With page 15 active the drawing loop reads `vm->pages[16]`, whatever follows
  `user_mem` (`Drawings`), where the change detection looks at page 0.
- The artificial release does not set `vm_dirty`: a panel that is paused shows
  the key until the next update.  `ButForRelease` takes the two flags out of
  what `PanelCurrent` compares, so that no property is about them there.
- `t_last_update` is never set to anything but zero, so that the rate limit of
  the loop ends a millisecond after the start and a paused machine is polled
  without rest.
- A file whose declared length exceeds program memory, and which is otherwise
  consistent, is copied beyond the array (`Overrun`).
- A SIGUSR1 from elsewhere clears `need_cleanup` while the program goes on
  drawing; with `Outside = Signals`, `TerminalRestored` fails.
- A failed assertion ends the process without any handler; the terminal stays
  with curses (`Abort`).
- The program is not freed when there is no memory for a machine.

## 4. What is proved

Thirty theorems, for every value of the constants that the named assumptions
admit: every set of programs of at most 4096 words, every set of seeds, keys,
page moves and sync outcomes (`ProgramsAssumption`, `EnvironmentAssumption`);
every choice of periods and delays, with horizons no smaller than what is
compared with them (`TimingAssumption`, `HorizonAssumption`,
`LoopAssumption`, `PanelAssumption`); every unit of time, lifetime of the clock
and width of words that holds it twice (`UnitsAssumption`, `WidthAssumption`);
every radix of a byte, magic, size of program memory and set of files
(`FormatAssumption`: a file is shorter than the size `ftell` returns for one it
cannot measure, which is `(size_t) -1`).

| theorem | statement | what it says of the code |
|---|---|---|
| `VmProofs!TypeCorrect` | `Spec => []TypeOK` | although a memory word is a `uint8_t`, none ever exceeds 15, and `reg_sp` never exceeds 5: no index derived from them leaves its array |
| `FootprintProofs!FootprintKept` | `Spec => Footprint` | the stack page, the alternate registers and the display memory change by a store, a call or EXR only, each within its own words |
| `FootprintProofs!PressKept` | `Spec => NoPressLost` | JustPress comes down only in a cycle that hands it to the program, or that stores over it |
| `FootprintProofs!StackImplemented` | `Spec => ImplementsCallStack` | what an instruction asks of the stack of five addresses is what happens, at the sixth call and the unmatched return too, and nothing else happens to it, for every program, not only those of `MCFlow` |
| `DeviceProofs!OverflowAlwaysMirrored` | `Spec => OverflowMirrored` | no instruction separates V from its copy in RD_FLAGS, but the program's own store there |
| `DeviceProofs!SyncKept` | `Spec => NoSyncLost` | USER_SYNC stays up until the program has it, whenever the timer elapses |
| `DeviceProofs!RandomAlwaysInStep` | `Spec => RandomInStep` | RANDOM shows the generator, for every seed; an indirect store alone separates them |
| `DeviceProofs!PinsAlwaysOne` | `Spec => PinsReadOne` | an input pin tests as 1 wherever the port is and whatever was stored there |
| `DeviceProofs!PointersAlwaysCount` | `Spec => PointerCounts` | INC and DEC of PCL and JSR count modulo 4096, from every value |
| `AluProofs!AddsBytes` | `P => (Spec => []SumOfHalves)` | ADD then ADC add any two bytes: the sum, C its carry, V its signed overflow, in both places |
| `AluProofs!SubtractsBytes` | `P => (Spec => []DifferenceOfHalves)` | SUB then SBB subtract them; C compares them without a sign, V and the result with one |
| `AluProofs!ShiftsBytes` | `P => (Spec => []ShiftOfHalves)` | RRC of both halves shifts any byte, with the carry that AND clears and OR sets |
| `AluProofs!LogicAgrees` | `P => (Spec => []LogicOfHalves)` | XOR exchanges, AND and OR add up to the sum, XOR with 15 toggles C so that ADC negates, for all operands |
| `AluProofs!SkipsCompare` | `P => (Spec => []BranchOnDifference)` | SKIP after SUB compares without a sign on C, NC, Z and NZ, and a count of zero skips four |
| `AluProofs!LoopsCount` | `P => (Spec => []LoopCounts)` | a loop closed by DSZ runs as often as its counter says, sixteen times for zero |
| `UiProofs!KeysKept` | `UiSpec => KeepsKeys` | LAST_PRESS and ANY_PRESS come down no earlier than the delay after the last press, JUST_PRESS by a read by address, and nothing else but the program's stores touches the key registers |
| `UiProofs!PaceKept` | `~Interrupts` implies `UiSpec => KeepsPace` | no cycle before its period is over, one cycle for a step, none while paused, unless a signal cuts a sleep short |
| `UiProofs!CyclesAlmostOnTime` | `UiSpec => AlmostOnTime` | ... and then it is early by the longest sleep of the loop at most |
| `UiProofs!ChangesAlwaysDrawn` | `UiSpec => ChangesDrawn` | an update of the display that is not too early mistakes no change |
| `UiProofs!PanelAlwaysCurrent` | `UiSpec => []PanelCurrent` | the panel of a paused machine is current but for a key that came up |
| `UiProofs!RowsAlwaysInMemory` | `UiSpec => []RowsInMemory` | the panel disassembles no word outside program memory, wherever the counter is |
| `UiProofs!UiTypeCorrect` | `UiSpec => []UiTypeOK` | no negative sleep; only the second page of the screen can hold more than nibbles |
| `ClockProofs!AlwaysNormalised` | `Spec => []Normalised` | differences of times are normalised although they pass through unsigned words |
| `ClockProofs!ElapsedRead` | `Spec => ReadsElapsed` | a reading is exactly the time since the start |
| `ClockProofs!SleepsAlwaysEnough` | `Spec => []SleepsEnough` | rounding to microseconds never shortens a wait |
| `LifecycleProofs!TerminalAlwaysRestored` | `"USR1" \notin Outside` implies `ProcessSpec => []TerminalRestored` | the cleanup reaches `endwin` before any of the ways out, whatever interrupts whatever |
| `LifecycleProofs!AlwaysRunsTheFile` | `ProcessSpec => []RunsTheFile` | the words loaded are those of the file as it was encoded, for files of every length |
| `LifecycleProofs!AlterationAlwaysNoticed` | `ProcessSpec => []AlterationNoticed` | no single word of a file can be altered without its being refused |
| `LifecycleProofs!AlwaysBalanced` | `ProcessSpec => []Balanced` | the buffer is freed on every way out, and not before its last use |
| `LifecycleProofs!WellFormedNeverTurnedAway` | `ProcessSpec => NeverTurnedAway` | `load_program` refuses no well-formed file |

`P` stands for `Programs \subseteq AluPrograms(Nibble)`: the program is one of
those that `Alu` defines, with any operands.  It says which programs the six
theorems are about and nothing of the environment, so that the timer may
elapse and keys may be pressed between any two instructions.  `MCAlu` is an
instance of it.

**Types.**  `TypeOK` is inductive as it stands.  The argument goes bottom up:
bits and masks of nibbles are nibbles (`Bits`, `OneBit`, `Masks`); the two ways
of writing a machine, a store and a flag, keep its type (`StoreType`,
`SetFlagType`); then each operation does (`MoveTypes`, `CallOrJumpType`,
`ReturnType`, `CountTypes`, `SkipTypes`, `BitTypes`, `ExchangeType`); then a
cycle up to its operation (`SampledType`, `FetchedType`, `InstrType`); then
each action (`CycleType`, `KeyTypes`) and the initial state (`InitType`).

**Footprints.**  `Touches(v, w, D)` says that from machine `v` to machine `w`
no word outside `D` changes and that no call, return or exit happens.  It is
closed under composition (`TouchChain`), so the footprint of an operation
follows from those of its stores (lemmas `Touch...`).  Calls, returns and
their failures are described apart (`Calls`, `Overflows`, `Returns`,
`Underflows`).  `CycleEffects` then says that every cycle, after its fetch,
has one of eight effects; `KeyEffects` and `AssertEffect` describe the other
actions.  `Footprint` and `NoPressLost` are action properties: one case per
effect, in states where `TypeOK` holds, and no stronger invariant is needed.

**The call stack.**  The frames of the five slots take fifteen different words
(`FramesApart`), a frame depends on its own three only (`FrameKept`) and three
nibbles are always an address (`FrameType`).  So an effect outside the stack
page leaves all frames, a store changes at most one (`OneFrame`), and a call
writes exactly the frame it opens.  Each disjunct of `Effects` also says what
the instruction that has it asks for (`NarrowAsks`, `WideAsks`: by its first
nibble and, if that is zero, its second) and whether it goes on to the next
word; `Stays`, `GoesOn` and `MayJump` follow that through the operations, and
the operations that can call are followed by the register they write
(`AskedBy`).  So the effects of a call and of a sixth one belong to the
instructions that ask for a call and to no other, and the same of returns.
`StackStep` goes through the effects once more and gives each the abstract
action it implements; the keys and the page moves are stutters, because they
change neither the counter nor a register (`TargetWhere`).  The invariant it rests on is `TypeOK`, before and
after.

Constants such as 4096 and 65535 are used through `AddrRange` and
`CounterRange`, which state the two ranges by their ends.

**Devices.**  `Footprint` says which words an operation may touch;
`DeviceProofs` adds what it does *to* the registers the devices share with the
program.  `DeviceEffects` has one disjunct for each way an operation may treat
the flags, RD_FLAGS and RANDOM: it leaves them all, shows the overflow in both
places, stores over one of the two registers, moves the generator and RANDOM
on together, or takes RD_FLAGS to R0.  `StepDevices` gives every step one of
them, after what the cycle did first (`Samples`: the timer and the port).  The
first three theorems take one case per effect.  `PinsAlwaysOne` follows the
port through `Sampled`: it is written before the fetch, at the place WR_FLAGS
says then.
`PointersAlwaysCount` reduces three nibbles to one number and its carries.
Each of these is an action property in states of `TypeOK`.

**Programs.**  What a program computes is proved by the inductive invariant
`InPlace`, the assertions of Floyd's method: `Placed` says for each program
and each value of the counter what the registers and flags hold there
(`AddAt`, `SubAt`, `ShiftAt`, `SwapAt`, `LogicAt`, `NegateAt`, `BranchAt`,
`LoopAt`), and which values the counter takes at all, without which nothing
would be known of the next instruction.  For the additions and subtractions it
also says that the two copies of V agree, for which `StoresNothing` shows that
they never store to RD_FLAGS, and `MirroredStep` of `DeviceProofs` does the
rest.  The argument has three layers.  What the operations compute on nibbles
is stated without the machine (`Wraps`, `FourBits`, `Masking`, `Arithmetic`):
what of a sum or a difference is kept in a nibble, and when it sets C and V.
Then `Execution` says that every step of `Vm` from within program memory
either executes the word at the counter or leaves counter, flags and R0 to R6
alone, which is what the keys and the page moves do, and what the timer and
the port do before the fetch; and the lemmas `Does...` say what each
word does, be it an operation on two registers, with a literal, a count, a
jump or a skip.  Then there is one lemma for each program (`AddStep`,
`SubStep`, `ShiftStep`, `SwapStep`, `LogicStep`, `NegateStep`, `BranchStep`,
`LoopStep`), with one case for each place of the counter.  The loop's invariant
is that counter and count add up, modulo 16, to what the counter was.  Last,
the halves are put together in integers (`ByteSum`, `ByteDifference`,
`ByteShift`, `LowNibbles`); that the signed overflow of the high nibbles, with
the carry between, is that of the bytes is a part of `ByteSum`.  TLC has
checked `Placed` as an invariant of `MCAlu`.

**The loop and its pace.**  Each action of `Ui` contains an action of `Vm` or
leaves the machine alone (`VmStep`), so what is proved of `Vm` holds of the
running program (`RunsVm`): that is how `Ui` is put together and no result of
its own.  For the pace `Pacer` asks at `Execute` what `Wait` knew some ticks before, so the
invariant `OnTime` carries it across the sleep: in phase `execute` the age of
the last cycle and what is left of the sleep add up to the period (`Due`), or,
if the sleep may have been cut short, the age and the longest sleep do
(`Soon`); and a loop on its way to a cycle is not paused (`Awake`).  A tick
moves one unit from the sleep to the age; at the horizon the age stops, but
every period is over there (`GainAndLoss`, `TickOnTime`).  That the period
itself stands still meanwhile follows from the footprint of the keys
(`PeriodKept`, by `KeyEffects`).

**The keys.**  `KeyFlags` reads the three bits one by one, and `FlagChanges`
says what 7, a cleared JUST_PRESS and a cleared LAST_PRESS and ANY_PRESS are as
sets of flags.  `CycleKeys` takes the effects of a cycle through the two key
registers: all but the program's stores leave both alone, and MOV R0,[NN] of
KEY_STATUS (`ReadExecuted`: no other action is possible then) takes one bit
down.  `PressEffect`, `ReleaseEffect` and `PageEffect` do the same for the
user's side.  What the next instruction will do to the registers stays as it
is meanwhile (`AccessKept`), also when it is a store through two registers,
whose address depends on the sampled port (`RegisterSampled`).  `KeysStep`
puts them together, with `ReleaseDue` for the delay.  The invariants are
`TypeOK` and the part of `OnTime` that gives ages their type.

**The screen.**  `DrawnOK` relates what is remembered to what is on the
screen: they agree on the active page and the brightness, always, and on the
second page unless bytes from behind the memory were drawn there, which
`InStepWith` in the property says.  `PanelCurrent` is inductive with `TypeOK`:
every action that changes the machine marks it, but for the release, whose two
bits `ButForRelease` takes away (`ReleaseHidden`).

**The clock.**  `Words` says when an unsigned word, read as signed, is the
integer it came from; `Subtraction` reduces `timespec_subtract` to subtraction
by columns, `Difference` and `Reading` give it its meaning.  The invariant
`ClockOK` is that time does not go back.

**The file format.**  `computed_checksum` in `Loader` adds up with a reduction
in each step, as the code's `uint16_t` does; `Total`, which the reference
encoding uses, adds up in integers and is reduced once.  Both are recursive
functions over a file of any length.  A fact about all their values is proved
by way of the least index at which it would fail (`LeastNumber`, from the
well-foundedness of `<` on the naturals): `OneSum` and `OneReducedSum` say that
the equations determine the function, `ChecksumIsTotal` that the two agree,
`TotalShifted` that two lists that differ in one word differ by just that in
their sum.  `Good` says of a buffer what the checks of `load_program` say
together.  `EncodedIsGood` and `GoodIsEncoded` show that a buffer passes
them exactly if it is the encoding of its words, and `AlteredIsRefused` that
an alteration of one word makes it fail: an altered length no longer fits the
size, an altered instruction or checksum shifts the sum by less than the
radix squared, which is no multiple of it (`RestsDiffer`).

**The loader.**  `LoaderInv` says what is known at each step: what was read is
as long as what was measured (`ReadInFull`), the words copied so far are those
of the buffer, in order (`CopiedInOrder`), what was accepted had a good sum
(`AcceptedInFull`), and which blocks are allocated (`BufferKept`,
`ProgramKept`).  `LoaderStep` shows it inductive, one case per action; the
properties of `Loader` follow from it state by state.  Inside the process two
more actions free blocks, `Destroy` and `Free`, which is harmless once the
machine runs.  So `ChargeInv` adds `MachineThere`: a frame that is starting,
running or destroying a machine is on the stack only in `at = "running"`.  It
needs no assumption on who sends which signal.

**The terminal.**  `TerminalRestored` speaks of the end only; the invariant has
to say why each way there leads past `endwin`.  What a frame has left to do is
always one of thirty-four lists (`Todos`; `ByHead` and `NextLines` compute with
them), divided by where the cleanup stands: `Undoing`, if it is still to reach
`endwin`, and `Undone`, if it has been there or there is no need.
`Frames` says which of them a frame may hold at which place of the stack,
`Prepared` that the handlers are installed and `need_cleanup` is up before
`initscr` runs, and `GivenBack` that while curses has the terminal
`need_cleanup` is up, every signal has a handler, and *every* handler on the
stack is still to undo.  The last is what several signals at once come to: the
one on top restores the terminal, and the process never gets back to the
others, or finds nothing to do there.  `GivenBack` also holds the order of the
code: `need_cleanup` goes down after `endwin`, never before it (`Resetting`).
The assumption on SIGUSR1 is needed: its handler returns, and a loop that draws
again after it has a terminal to restore and no mark to say so (see section
3).  TLC has checked `ProcessInv` as an invariant of `MCLifecycle`.

Only model-checked: `TextFits` and `Unambiguous`.  They are about the
characters of texts, and to the provers a string is a value without a length
or parts; TLC checks them for each of the 4096 words there are.  Liveness
(`PressSeen`, `SyncSeen`, `CyclesCome`, `KeysComeUp`, `ScreenFollows`,
`ErrorReported`, `StartEnds`, `SignalEnds`) is out of the prover's reach and
stays with TLC.

## 5. What is not modelled

- The layout of the panel, its colours, the pixel characters and the six
  durations it measures and shows: no state depends on them.
- The windows, colours and modes of curses that `ui_start` sets after
  `initscr`, and the release of `struct ui` at the end of `main`.
- The example programs, which are data, and `FIRMWARE_R3`.
- Libraries are taken at their word: `signal` of glibc blocks a signal during
  its own handler, `usleep` may be cut short by any handler, `endwin` restores
  the terminal, `exit` runs what `atexit` registered once.  SIGTSTP, which
  curses handles by itself, is left out.
- The loop inside `Lifecycle` is one step; that it can be left only by `q`, an
  error or a signal is read off `Ui`, where `phase` reaches `"ended"` in
  `Leave` and `Execute` only.
- The width of time stamps in `Ui`: a 64-bit word of nanoseconds holds 292
  years.

## 6. Plan

1. Done: `Nibbles`, `Rng`, `Ops`, `Vm`, `CallStack`; `Ui`, `Pacer`, `Keypad`;
   `Clock`, `Disassembler`; `Alu`; `Loader`, `Lifecycle`; the theorems of section 4,
   which state every safety property the runs check but those about texts.
2. Numbers of more than two nibbles: a chain of ADC or SBB of any length is
   addition or subtraction in base 16, with C and V those of the number.
3. The disassembler, whose texts are sequences put together by cases.
