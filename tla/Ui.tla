---------------------------------- MODULE Ui ----------------------------------
(***************************************************************************)
(* The event loop of ui.c around the machine of Vm: keyboard, pacing of    *)
(* the cycles, the LED matrix and the status panel.  A round of ui_run is  *)
(* divided at the points where the code reads the clock or sleeps, and     *)
(* time may pass at each of them.  The phases of a round:                  *)
(*    loop     the test of quit and the rate limit of updates              *)
(*    keys     handle_keys: a key is fetched and served                    *)
(*    release  handle_keys: no badge key came, the last one may come up    *)
(*    display  maybe_update_display                                        *)
(*    status   maybe_update_status                                         *)
(*    wait     how long until the next cycle is due                        *)
(*    execute  a cycle, after sleeping until it is due                     *)
(*    ended    the loop has been left or the process is gone               *)
(* A time stamp is represented by its age, counted up to a horizon beyond  *)
(* which no comparison can tell it from older ones.  The unit of time is   *)
(* that of the constants, a microsecond in the code.                       *)
(***************************************************************************)
EXTENDS Vm

CONSTANTS
    UI_UPDATE_PERIOD_USEC, MAX_UI_SLEEP_USEC,
    KEY_UP_DELAY_USEC, DISPLAY_UPDATE_USEC, STATUS_UPDATE_USEC,
    CLOCK_PERIODS_USEC,  \* indexed by the Clock register
    SYNC_PERIODS_USEC,   \* indexed by the Sync register
    Horizon,      \* Horizon[t]: up to where the age of time stamp t is counted
    StartPaused,  \* the settings of option -p to start with
    Interrupts,   \* whether a signal (a resized window) may cut a usleep short
    PastMemory,   \* what the page of bytes behind user_mem may hold
    NoPanel       \* the status panel before it is first filled

(* t_start, the times of the last key press, display and status update,    *)
(* t_cycle_start and t_last_user_sync.                                     *)
Stamps == {"start", "key", "display", "status", "cycle", "sync"}

ASSUME TimingAssumption ==
    /\ {UI_UPDATE_PERIOD_USEC, MAX_UI_SLEEP_USEC, KEY_UP_DELAY_USEC,
        DISPLAY_UPDATE_USEC, STATUS_UPDATE_USEC} \subseteq Nat
    /\ CLOCK_PERIODS_USEC \in [Nibble -> Nat \ {0}]
    /\ SYNC_PERIODS_USEC \in [Nibble -> Nat]
    /\ Horizon \in [Stamps -> Nat]
ASSUME HorizonAssumption ==
    /\ \A c \in Nibble : CLOCK_PERIODS_USEC[c] <= Horizon["cycle"]
    /\ \A c \in Nibble : SYNC_PERIODS_USEC[c] <= Horizon["sync"]
    /\ UI_UPDATE_PERIOD_USEC <= Horizon["start"]
    /\ KEY_UP_DELAY_USEC <= Horizon["key"]
    /\ DISPLAY_UPDATE_USEC <= Horizon["display"]
    /\ STATUS_UPDATE_USEC <= Horizon["status"]
ASSUME LoopAssumption ==
    /\ StartPaused \subseteq BOOLEAN
    /\ Interrupts \in BOOLEAN
    /\ PastMemory \subseteq [Nibble -> Byte]
    /\ Syncs = BOOLEAN

VARIABLES
    phase,
    sleep,        \* what is left of a usleep
    age,          \* age[t]: the time that has passed since time stamp t
    paused, single_step, quit, vm_dirty,
    last,         \* last_pages, last_dimmer, last_matrix_off
    screen,       \* what the matrix shows
    panel         \* what the status panel shows

uivars == <<prg, vm, phase, sleep, age, paused, single_step, quit, vm_dirty,
            last, screen, panel>>

-----------------------------------------------------------------------------
(* The matrix.                                                             *)

PageOf(v, p) == [i \in Nibble |-> v.mem[16 * p + i]]
Dark == [i \in Nibble |-> 0]

(* What the matrix ought to show: the active page and the one after it, at *)
(* the brightness of the DIMMER register.                                  *)
View(v) ==
    [pages  |-> <<PageOf(v, v.mem[PAGE]), PageOf(v, (v.mem[PAGE] + 1) % 16)>>,
     dimmer |-> v.mem[DIMMER]]

(* What maybe_update_display draws: behind page 15 it finds no page 0 but  *)
(* whatever lies behind the memory of the machine.                         *)
Drawings(v) ==
    IF v.mem[PAGE] < 15 THEN {View(v)}
    ELSE {[View(v) EXCEPT !.pages[2] = p] : p \in PastMemory}

MATRIX_OFF == 2

(* ... and what it remembers in order to notice a change.                  *)
Remembered(v) ==
    [pages  |-> View(v).pages,
     dimmer |-> v.mem[DIMMER],
     matrix_off |-> Bit(v.mem[WR_FLAGS], MATRIX_OFF) = 1]

Unchanged_bug(v) == last.pages[1] = View(v).pages[1] /\ last.dimmer = v.mem[DIMMER]
Unchanged(v) == last = Remembered(v)

(* The status panel: the registers, with the port at the place WR_FLAGS    *)
(* selects, and the instructions around the program counter.               *)
DISASSEMBLE_CONTEXT_SIZE == 5
ShownRegisters == {PAGE, CLOCK, SYNC, KEY_STATUS, KEY_REG, WR_FLAGS, RD_FLAGS, DIMMER}

Rows_bug(c) == (c - DISASSEMBLE_CONTEXT_SIZE)..(c + DISASSEMBLE_CONTEXT_SIZE)

Rows(c) ==
    LET first_pc == c - DISASSEMBLE_CONTEXT_SIZE
        last_pc  == c + DISASSEMBLE_CONTEXT_SIZE
    IN  (IF first_pc < 0 THEN 0 ELSE first_pc)
        ..(IF last_pc >= PROGRAM_MEMORY_SIZE THEN PROGRAM_MEMORY_SIZE - 1 ELSE last_pc)

Shown(v) ==
    LET io_pos == Bit(v.mem[WR_FLAGS], IN_OUT_POS) = 1 IN
    [pc |-> v.pc, sp |-> v.sp, flags |-> v.flags,
     registers |-> PageOf(v, 0),
     special   |-> [a \in ShownRegisters |-> v.mem[a]],
     out  |-> v.mem[IF io_pos THEN OUT_B ELSE OUT],
     in_  |-> v.mem[IF io_pos THEN IN_B ELSE IN_],
     rows |-> Rows(v.pc)]

-----------------------------------------------------------------------------
(* Time.                                                                   *)

Stamp(now) == [t \in Stamps |-> IF t \in now THEN 0 ELSE age[t]]

Remaining_bug(period, elapsed) == period - elapsed
Remaining(period, elapsed) == IF period >= elapsed THEN period - elapsed ELSE 0

Tick ==
    /\ phase # "ended"
    /\ age' = [t \in Stamps |-> IF age[t] < Horizon[t] THEN age[t] + 1 ELSE age[t]]
    /\ sleep' = IF sleep > 0 THEN sleep - 1 ELSE 0
    /\ UNCHANGED <<prg, vm, phase, paused, single_step, quit, vm_dirty,
                   last, screen, panel>>

(* usleep is not resumed after the handler of a signal.                    *)
Interrupt ==
    /\ Interrupts
    /\ sleep > 0
    /\ sleep' = 0
    /\ UNCHANGED <<prg, vm, phase, age, paused, single_step, quit, vm_dirty,
                   last, screen, panel>>

-----------------------------------------------------------------------------
(* A round.                                                                *)

UiInit ==
    /\ Init
    /\ phase = "loop"
    /\ sleep = 0
    /\ age = [t \in Stamps |-> 0]
    /\ paused \in StartPaused
    /\ single_step = FALSE
    /\ quit = FALSE
    /\ vm_dirty = TRUE
    /\ last = [pages |-> <<Dark, Dark>>, dimmer |-> 0, matrix_off |-> FALSE]
    /\ screen = [pages |-> <<Dark, Dark>>, dimmer |-> 0]
    /\ panel = NoPanel

Enters(from, to) == phase = from /\ sleep = 0 /\ phase' = to

(* t_last_update is never set to anything but zero, the time of t_start.   *)
RateLimit ==
    /\ ~quit
    /\ Enters("loop", "keys")
    /\ sleep' = Remaining(UI_UPDATE_PERIOD_USEC, age["start"])
    /\ UNCHANGED <<prg, vm, age, paused, single_step, quit, vm_dirty,
                   last, screen, panel>>

Leave ==
    /\ quit
    /\ Enters("loop", "ended")
    /\ UNCHANGED <<prg, vm, sleep, age, paused, single_step, quit, vm_dirty,
                   last, screen, panel>>

(* Where ui_update goes on after handle_keys, and ui_run after ui_update.  *)
AfterUpdate == IF paused THEN "loop" ELSE "wait"
AfterKeys   == IF quit \/ ~vm_dirty THEN AfterUpdate ELSE "display"

(* The time noted of the first press only, as long as the key is down.     *)
PressKey_bug(k) ==
    /\ Enters("keys", "display")
    /\ KeyPress(k)
    /\ vm_dirty' = TRUE
    /\ age' = IF Bit(vm.mem[KEY_STATUS], LAST_PRESS) = 1 THEN age ELSE Stamp({"key"})
    /\ UNCHANGED <<sleep, paused, single_step, quit, last, screen, panel>>

(* A badge key.                                                            *)
PressKey(k) ==
    /\ Enters("keys", "display")
    /\ KeyPress(k)
    /\ vm_dirty' = TRUE
    /\ age' = Stamp({"key"})
    /\ UNCHANGED <<sleep, paused, single_step, quit, last, screen, panel>>

PageKey(d) ==
    /\ Enters("keys", "release")
    /\ MovePage(d)
    /\ vm_dirty' = TRUE
    /\ UNCHANGED <<sleep, age, paused, single_step, quit, last, screen, panel>>

(* Space asks for a single step, Enter to go on, q to quit; most often     *)
(* there is no key or none that means anything.                            *)
OtherKey_bug(p, s, q) ==
    /\ Enters("keys", "release")
    /\ <<p, s, q>> \in {<<paused, single_step, TRUE>>,
                        <<FALSE, FALSE, quit>>,
                        <<FALSE, TRUE, quit>>,
                        <<paused, single_step, quit>>}
    /\ paused' = p /\ single_step' = s /\ quit' = q
    /\ age' = Stamp({"key"})
    /\ UNCHANGED <<prg, vm, sleep, vm_dirty, last, screen, panel>>

OtherKey(p, s, q) ==
    /\ Enters("keys", "release")
    /\ <<p, s, q>> \in {<<paused, single_step, TRUE>>,
                        <<FALSE, FALSE, quit>>,
                        <<FALSE, TRUE, quit>>,
                        <<paused, single_step, quit>>}
    /\ paused' = p /\ single_step' = s /\ quit' = q
    /\ UNCHANGED <<prg, vm, sleep, age, vm_dirty, last, screen, panel>>

(* The artificial release: vm_dirty stays as it is.                        *)
ReleaseDue == Bit(vm.mem[KEY_STATUS], LAST_PRESS) = 1 /\ age["key"] >= KEY_UP_DELAY_USEC
ReleaseKey ==
    /\ Enters("release", AfterKeys)
    /\ \/ ReleaseDue /\ KeyRelease
       \/ ~ReleaseDue /\ UNCHANGED vars
    /\ UNCHANGED <<sleep, age, paused, single_step, quit, vm_dirty,
                   last, screen, panel>>

UpdateDisplay_bug ==
    /\ Enters("display", "status")
    /\ age' = Stamp({"display"})
    /\ IF age["display"] < DISPLAY_UPDATE_USEC
       THEN UNCHANGED <<last, screen>>
       ELSE last' = Remembered(vm) /\ screen' \in Drawings(vm)
    /\ UNCHANGED <<prg, vm, sleep, paused, single_step, quit, vm_dirty, panel>>

UpdateDisplay ==
    /\ Enters("display", "status")
    /\ \/ /\ age["display"] < DISPLAY_UPDATE_USEC
          /\ UNCHANGED <<age, last, screen>>
       \/ /\ age["display"] >= DISPLAY_UPDATE_USEC
          /\ age' = Stamp({"display"})
          /\ IF Unchanged(vm)
             THEN UNCHANGED <<last, screen>>
             ELSE last' = Remembered(vm) /\ screen' \in Drawings(vm)
    /\ UNCHANGED <<prg, vm, sleep, paused, single_step, quit, vm_dirty, panel>>

(* The end of ui_update: the changes are considered shown.                 *)
UpdateStatus ==
    /\ Enters("status", AfterUpdate)
    /\ IF ~paused /\ age["status"] < STATUS_UPDATE_USEC
       THEN UNCHANGED <<age, panel>>
       ELSE panel' = Shown(vm) /\ age' = Stamp({"status"})
    /\ vm_dirty' = FALSE
    /\ UNCHANGED <<prg, vm, sleep, paused, single_step, quit, last, screen>>

Period(v) == CLOCK_PERIODS_USEC[v.mem[CLOCK]]

(* A cycle is due, or so soon that the loop sleeps until it is; or the     *)
(* loop goes round again meanwhile.                                        *)
Wait_early_bug ==
    LET cycle_delay == Remaining(Period(vm), age["cycle"]) IN
    /\ Enters("wait", "execute")
    /\ sleep' = IF cycle_delay <= MAX_UI_SLEEP_USEC THEN cycle_delay ELSE MAX_UI_SLEEP_USEC
    /\ UNCHANGED <<prg, vm, age, paused, single_step, quit, vm_dirty,
                   last, screen, panel>>

Wait_bug ==
    LET cycle_delay == Remaining(Period(vm), age["cycle"]) IN
    /\ IF cycle_delay > 0 /\ cycle_delay <= MAX_UI_SLEEP_USEC
       THEN Enters("wait", "execute") /\ sleep' = cycle_delay
       ELSE Enters("wait", "loop") /\ sleep' = 0
    /\ UNCHANGED <<prg, vm, age, paused, single_step, quit, vm_dirty,
                   last, screen, panel>>

Wait ==
    LET cycle_delay == Remaining(Period(vm), age["cycle"]) IN
    /\ IF cycle_delay <= MAX_UI_SLEEP_USEC
       THEN Enters("wait", "execute") /\ sleep' = cycle_delay
       ELSE Enters("wait", "loop") /\ sleep' = 0
    /\ UNCHANGED <<prg, vm, age, paused, single_step, quit, vm_dirty,
                   last, screen, panel>>

(* A cycle has begun; in single step mode it is the last for now.  It may  *)
(* end the process.                                                        *)
Execute_bug(sync) ==
    /\ sync = (age["sync"] >= SYNC_PERIODS_USEC[vm.mem[SYNC]])
    /\ Cycle(sync)
    /\ Enters("execute", IF vm'.exit = "none" THEN "loop" ELSE "ended")
    /\ age' = Stamp(IF sync THEN {"cycle", "sync"} ELSE {"cycle"})
    /\ paused' = (paused \/ single_step)
    /\ UNCHANGED <<sleep, single_step, quit, vm_dirty, last, screen, panel>>

Execute(sync) ==
    /\ sync = (age["sync"] >= SYNC_PERIODS_USEC[vm.mem[SYNC]])
    /\ Cycle(sync)
    /\ Enters("execute", IF vm'.exit = "none" THEN "loop" ELSE "ended")
    /\ age' = Stamp(IF sync THEN {"cycle", "sync"} ELSE {"cycle"})
    /\ vm_dirty' = TRUE
    /\ paused' = (paused \/ single_step)
    /\ UNCHANGED <<sleep, single_step, quit, last, screen, panel>>

(* Everything the program does by itself; the keys are the user's.         *)
Loop ==
    \/ RateLimit
    \/ Leave
    \/ \E k \in Keys : PressKey(k)
    \/ \E d \in PageMoves : PageKey(d)
    \/ \E p, s, q \in BOOLEAN : OtherKey(p, s, q)
    \/ ReleaseKey
    \/ UpdateDisplay
    \/ UpdateStatus
    \/ Wait
    \/ \E sync \in Syncs : Execute(sync)

UiNext == Loop \/ Tick \/ Interrupt

UiSpec == UiInit /\ [][UiNext]_uivars

(* The loop never blocks: wgetch has a timeout of zero and usleep an end.  *)
(* Time passes.  No key is ever forced.                                    *)
UiFairSpec == UiSpec /\ WF_uivars(Loop) /\ WF_uivars(Tick)

-----------------------------------------------------------------------------
(* Properties.                                                             *)

PanelRecord ==
    [pc: Counter, sp: Depth, flags: Flags, registers: [Nibble -> Nibble],
     special: [ShownRegisters -> Nibble], out: Nibble, in_: Nibble,
     rows: SUBSET Nat]

ASSUME PanelAssumption == NoPanel \notin PanelRecord

(* A usleep is never asked for a negative time, ages stay within their     *)
(* horizons, and only the second page of the screen can hold more than     *)
(* nibbles.                                                                *)
UiTypeOK ==
    /\ TypeOK
    /\ phase \in {"loop", "keys", "release", "display", "status", "wait", "execute", "ended"}
    /\ sleep \in Nat
    /\ age \in [Stamps -> Nat] /\ \A t \in Stamps : age[t] <= Horizon[t]
    /\ {paused, single_step, quit, vm_dirty} \subseteq BOOLEAN
    /\ \A i \in {1, 2} : last.pages[i] \in [Nibble -> Nibble]
    /\ last.dimmer \in Nibble /\ last.matrix_off \in BOOLEAN
    /\ screen.pages[1] \in [Nibble -> Nibble] /\ screen.pages[2] \in [Nibble -> Byte]
    /\ screen.dimmer \in Nibble
    /\ panel = NoPanel \/ panel \in PanelRecord

Ended == phase = "ended"

(* The pace of Pacer.                                                      *)
Mode == CASE Ended -> "ended"
          [] ~Ended /\ paused -> "paused"
          [] ~Ended /\ ~paused /\ single_step -> "stepping"
          [] OTHER -> "running"
Pace == INSTANCE Pacer
           WITH Periods <- {CLOCK_PERIODS_USEC[c] : c \in Nibble},
                Longest <- Horizon["cycle"],
                mode    <- Mode,
                since   <- age["cycle"],
                period  <- Period(vm)

(* No cycle starts early although the loop decides before it sleeps and    *)
(* does not look again afterwards; a step asked for is one cycle, however  *)
(* the keys fall between the rounds, and a paused machine stands still.    *)
KeepsPace == Pace!Spec

(* A sleep that a signal cuts short brings the cycle forward, but only by  *)
(* what the loop would have slept at most: a cycle further away than that  *)
(* is waited for in rounds, and signals do not add up.                     *)
AlmostOnTime ==
    [][\A sync \in Syncs :
          Execute(sync) => age["cycle"] + MAX_UI_SLEEP_USEC >= Period(vm)]_uivars

(* The keys of Keypad, seen by a program through KEY_STATUS and KEY_REG.    *)
KeyFlags(n) ==
    {f \in {"just", "last", "any"} :
        Bit(n, CASE f = "just" -> JUST_PRESS
                 [] f = "last" -> LAST_PRESS
                 [] f = "any"  -> ANY_PRESS) = 1}
KeyAccess ==
    CASE ReadsDirectly(KEY_STATUS) -> "read"
      [] StoresTo(KEY_STATUS)      -> "write"
      [] StoresTo(KEY_REG)         -> "code"
      [] OTHER                     -> "none"
Pad == INSTANCE Keypad
          WITH Codes    <- Keys,
               Contents <- Nibble,
               Delay    <- KEY_UP_DELAY_USEC,
               Longest  <- Horizon["key"],
               flags    <- KeyFlags(vm.mem[KEY_STATUS]),
               code     <- vm.mem[KEY_REG],
               since    <- age["key"],
               access   <- KeyAccess

(* No release comes early: the time of the last press counts, however many *)
(* presses, other keys, updates and cycles there were in between.  And the *)
(* flags show the press until the program has read them or written to them *)
(* itself; no other operation and no other part of the loop touches them.  *)
KeepsKeys == Pad!Spec

(* A machine that is not paused gets its next cycle, also when the period  *)
(* is too long to be slept through and the loop goes round in between, and *)
(* whatever keys are pressed meanwhile.                                    *)
CyclesCome == (~paused /\ age["cycle"] > 0) ~> (age["cycle"] = 0 \/ Ended)

(* A key that is not pressed again comes up, paused or not, however slow   *)
(* the machine runs.                                                       *)
KeysComeUp ==
    \/ []<><<\E k \in Keys : PressKey(k)>>_uivars
    \/ []<>(Bit(vm.mem[KEY_STATUS], LAST_PRESS) = 0)
    \/ <>Ended

(* While the machine is paused and nothing is marked as changed, the panel *)
(* shows the machine as it is, but for the flags of a key that came up.    *)
ButForRelease(p) ==
    [p EXCEPT !.special[KEY_STATUS] = WithoutBit(WithoutBit(@, LAST_PRESS), ANY_PRESS)]
PanelCurrent ==
    (paused /\ ~vm_dirty /\ ~Ended) =>
        panel # NoPanel /\ ButForRelease(panel) = ButForRelease(Shown(vm))

(* The panel disassembles words of program memory only, and the current    *)
(* instruction is among them, wherever the program counter has got to.     *)
RowsInMemory ==
    panel # NoPanel =>
        panel.rows \subseteq Addr /\ (panel.pc \in Addr => panel.pc \in panel.rows)

(* An update of the display that is not too early leaves the active page   *)
(* and its successor on the screen, drawn now or still there from before:  *)
(* the change detection never mistakes a change.  Beside page 15 there are *)
(* bytes from behind the memory, and they stay until the screen is drawn   *)
(* anew; the active page itself is right even then.                        *)
InStepWith(l) == screen = [pages |-> l.pages, dimmer |-> l.dimmer]
DisplayDue == phase = "display" /\ age["display"] >= DISPLAY_UPDATE_USEC
ChangesDrawn ==
    [][(DisplayDue /\ phase' = "status") =>
          /\ screen'.pages[1] = View(vm).pages[1] /\ screen'.dimmer = View(vm).dimmer
          /\ (vm.mem[PAGE] # 15 /\ InStepWith(last)) => screen' = View(vm)]_uivars

(* As long as the machine runs, the screen is brought up to date again and *)
(* again, although updates are skipped and their marks cleared.            *)
ScreenFollows ==
    []<>(paused \/ Ended \/ vm.mem[PAGE] = 15 \/ screen = View(vm))

-----------------------------------------------------------------------------
(* Claims of the repository that the code does not keep.                   *)

(* "Simulated LED matrix shows active page" (README): also once the        *)
(* machine stays paused.                                                   *)
PausedScreenFollows ==
    <>[](paused /\ ~Ended) => <>[](vm.mem[PAGE] = 15 \/ screen = View(vm))
=============================================================================
