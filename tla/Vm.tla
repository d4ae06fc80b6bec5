---------------------------------- MODULE Vm ----------------------------------
(***************************************************************************)
(* The virtual machine of vm.c, running one program.  One action per       *)
(* operation executes a cycle of it (vm_execute_cycle); between cycles the *)
(* user interface changes the machine as handle_keys of ui.c does.  Time   *)
(* is left out: whether the sync period has elapsed when a cycle starts,   *)
(* and whether a key has been down long enough, is chosen.  Definitions    *)
(* ending in _bug are used as in Ops.                                      *)
(***************************************************************************)
EXTENDS Ops, Sequences, FiniteSets

CONSTANTS
    Programs,     \* the programs the machine may be started with
    RandomSeeds,  \* what getrandom() may deliver
    Syncs,        \* the outcomes of the sync timer: TRUE when it has elapsed
    Keys,         \* the badge keys the user may press, of 0..13
    PageMoves     \* the moves of the PAGE register by the arrow keys: -1, 1

ASSUME ProgramsAssumption ==
    \A p \in Programs : p \in Seq(Word) /\ Len(p) <= PROGRAM_MEMORY_SIZE
ASSUME EnvironmentAssumption ==
    /\ RandomSeeds \subseteq Seed
    /\ Syncs \subseteq BOOLEAN
    /\ Keys \subseteq 0..13
    /\ PageMoves \subseteq {-1, 1}

VARIABLES
    prg,  \* the loaded program
    vm    \* the machine, an element of VmState

vars == <<prg, vm>>

-----------------------------------------------------------------------------
(* Program memory is zero beyond the loaded program.                       *)
ZeroWord == [nibble1 |-> 0, nibble2 |-> 0, nibble3 |-> 0]
instructions(a) == IF a < Len(prg) THEN prg[a + 1] ELSE ZeroWord

vm_init(seed) ==
    [mem   |-> [a \in Byte |-> CASE a = SER_CTRL -> 3
                                 [] a = AUTO_OFF -> 2
                                 [] a = DIMMER   -> 15
                                 [] a = RANDOM   -> seed_to_nibble(seed)
                                 [] OTHER        -> 0],
     pc    |-> 0,
     sp    |-> 0,
     flags |-> {},
     seed  |-> seed,
     exit  |-> "none"]

Init == prg \in Programs /\ \E seed \in RandomSeeds : vm = vm_init(seed)

-----------------------------------------------------------------------------
(* A cycle up to the call of the operation.                                *)

vm_update_user_sync(v, elapsed) ==
    IF elapsed THEN SetBit(v, RD_FLAGS, USER_SYNC) ELSE v

vm_update_in_reg_bug(v) == Store(v, IN_, 15)

(* The pins are not connected: the port, wherever it is, reads all ones.   *)
vm_update_in_reg(v) ==
    Store(v, IF Bit(v.mem[WR_FLAGS], IN_OUT_POS) = 1 THEN IN_B ELSE IN_, 15)

Sampled(sync) == vm_update_in_reg(vm_update_user_sync(vm, sync))

(* The program counter moves on before the operation runs.                 *)
NextAddr(a)   == IF a + 1 = PROGRAM_MEMORY_SIZE THEN 0 ELSE a + 1
Fetched(sync) == [Sampled(sync) EXCEPT !.pc = NextAddr(@)]

(* The instruction at pc, and its descriptor: one nibble selects a narrow  *)
(* operation, a zero and a second nibble a wide one.                       *)
Running   == vm.exit = "none"
CanFetch  == Running /\ vm.pc \in Addr
Instr     == instructions(vm.pc)
Narrow(k) == CanFetch /\ Instr.nibble1 = k
Wide(k)   == CanFetch /\ Instr.nibble1 = 0 /\ Instr.nibble2 = k

(* The machine after the operation; the program never changes.             *)
Becomes(v) == vm' = v /\ prg' = prg

-----------------------------------------------------------------------------
(* The operations, each with the rows of the instruction tables it serves. *)

Add(sync) ==
    LET v == Fetched(sync) IN
    \/ Narrow(1) /\ Becomes(op_add(v, get_addr_rx(Instr), get_val_ry(v, Instr)))
    \/ Wide(1)   /\ Becomes(op_add(v, R0, get_val_literal(Instr)))

Adc(sync) ==
    LET v == Fetched(sync) IN
    Narrow(2) /\ Becomes(op_adc(v, get_addr_rx(Instr), get_val_ry(v, Instr)))

Sub(sync) ==
    LET v == Fetched(sync) IN
    Narrow(3) /\ Becomes(op_sub(v, get_addr_rx(Instr), get_val_ry(v, Instr)))

Sbb(sync) ==
    LET v == Fetched(sync) IN
    Narrow(4) /\ Becomes(op_sbb(v, get_addr_rx(Instr), get_val_ry(v, Instr)))

Or(sync) ==
    LET v == Fetched(sync) IN
    \/ Narrow(5) /\ Becomes(op_or(v, get_addr_rx(Instr), get_val_ry(v, Instr), FALSE))
    \/ Wide(5)   /\ Becomes(op_or(v, R0, get_val_literal(Instr), TRUE))

And(sync) ==
    LET v == Fetched(sync) IN
    \/ Narrow(6) /\ Becomes(op_and(v, get_addr_rx(Instr), get_val_ry(v, Instr), FALSE))
    \/ Wide(6)   /\ Becomes(op_and(v, R0, get_val_literal(Instr), TRUE))

Xor(sync) ==
    LET v == Fetched(sync) IN
    \/ Narrow(7) /\ Becomes(op_xor(v, get_addr_rx(Instr), get_val_ry(v, Instr), FALSE))
    \/ Wide(7)   /\ Becomes(op_xor(v, R0, get_val_literal(Instr), TRUE))

Mov(sync) ==
    LET v == Fetched(sync) IN
    \/ Narrow(8)  /\ Becomes(op_mov_jump(v, get_addr_rx(Instr), get_val_ry(v, Instr)))
    \/ Narrow(9)  /\ Becomes(op_mov_jump(v, get_addr_rx(Instr), get_val_literal(Instr)))
    \/ Narrow(10) /\ Becomes(op_mov(v, get_addr_indirect(v, Instr), get_val_r0(v)))
    \/ Narrow(11) /\ Becomes(op_mov(v, R0, get_val_indirect(v, Instr)))
    \/ Narrow(12) /\ \E fresh \in RandomSeeds :
                        Becomes(op_mov_to(v, get_addr_pointer(Instr), fresh))
    \/ Narrow(13) /\ Becomes(op_mov_from(v, get_addr_pointer(Instr)))
    \/ Narrow(14) /\ Becomes(op_mov_byte(v, PCM, get_val_byte_literal(Instr)))

Jr(sync) ==
    Narrow(15) /\ Becomes(op_jr(Fetched(sync), get_val_byte_literal(Instr)))

Cp(sync) ==
    Wide(0) /\ Becomes(op_cp(Fetched(sync), R0, get_val_literal(Instr)))

Inc(sync) == Wide(2) /\ Becomes(op_inc(Fetched(sync), get_addr_ry(Instr)))
Dec(sync) == Wide(3) /\ Becomes(op_dec(Fetched(sync), get_addr_ry(Instr)))
Dsz(sync) == Wide(4) /\ Becomes(op_dsz(Fetched(sync), get_addr_ry(Instr)))
Exr(sync) == Wide(8) /\ Becomes(op_exr(Fetched(sync), get_val_literal(Instr)))

BitTest(sync) ==
    LET v == Fetched(sync) IN
    Wide(9) /\ Becomes(op_bit(v, get_addr_rg_in(v, Instr), get_val_crumb_literal(Instr)))

Bset(sync) ==
    LET v == Fetched(sync) IN
    Wide(10) /\ Becomes(op_bset(v, get_addr_rg_out(v, Instr), get_val_crumb_literal(Instr)))

Bclr(sync) ==
    LET v == Fetched(sync) IN
    Wide(11) /\ Becomes(op_bclr(v, get_addr_rg_out(v, Instr), get_val_crumb_literal(Instr)))

Btg(sync) ==
    LET v == Fetched(sync) IN
    Wide(12) /\ Becomes(op_btg(v, get_addr_rg_out(v, Instr), get_val_crumb_literal(Instr)))

Rrc(sync) == Wide(13) /\ Becomes(op_rrc(Fetched(sync), get_addr_ry(Instr)))
Ret(sync) == Wide(14) /\ Becomes(op_ret(Fetched(sync), get_val_literal(Instr)))
SkipIf(sync) ==
    Wide(15) /\ Becomes(op_skip(Fetched(sync), get_condition_flag(Instr),
                                get_val_crumb_literal(Instr)))

(* The assertion of vm_decode_next fails: the timers have been served, no  *)
(* instruction is fetched, and the process aborts.                         *)
AssertFails(sync) ==
    /\ Running
    /\ vm.pc \notin Addr
    /\ Becomes([Sampled(sync) EXCEPT !.exit = "assert"])

Cycle(sync) ==
    \/ Add(sync) \/ Adc(sync) \/ Sub(sync)  \/ Sbb(sync)
    \/ Or(sync)  \/ And(sync) \/ Xor(sync)  \/ Mov(sync)
    \/ Jr(sync)  \/ Cp(sync)  \/ Inc(sync)  \/ Dec(sync) \/ Dsz(sync)
    \/ Exr(sync) \/ BitTest(sync) \/ Bset(sync) \/ Bclr(sync) \/ Btg(sync)
    \/ Rrc(sync) \/ Ret(sync) \/ SkipIf(sync)
    \/ AssertFails(sync)

-----------------------------------------------------------------------------
(* What handle_keys does to the machine between two cycles.                *)

(* A badge key: JUST_PRESS, LAST_PRESS and ANY_PRESS up, nothing else.     *)
KeyPress(k) ==
    Running /\ Becomes(Store(Store(vm, KEY_STATUS, 7), KEY_REG, k))

KeyRelease_bug ==
    /\ Running
    /\ Bit(vm.mem[KEY_STATUS], LAST_PRESS) = 1
    /\ Becomes(Store(vm, KEY_STATUS, 0))

(* The artificial release, 200 ms after the last press.                    *)
KeyRelease ==
    /\ Running
    /\ Bit(vm.mem[KEY_STATUS], LAST_PRESS) = 1
    /\ Becomes(ClearBit(ClearBit(vm, KEY_STATUS, LAST_PRESS), KEY_STATUS, ANY_PRESS))

MovePage_bug(d) == Running /\ Becomes(Store(vm, PAGE, UInt8(vm.mem[PAGE] + d)))

(* The arrow keys move the PAGE register around the sixteen pages.         *)
MovePage(d) ==
    Running /\ Becomes(Store(vm, PAGE, (vm.mem[PAGE] + d) % 16))

Next ==
    \/ \E sync \in Syncs : Cycle(sync)
    \/ \E k \in Keys : KeyPress(k)
    \/ KeyRelease
    \/ \E d \in PageMoves : MovePage(d)

Spec == Init /\ [][Next]_vars

(* The event loop of ui_run executes one cycle after another as long as    *)
(* the machine is not paused.                                              *)
RunCycle == \E sync \in Syncs : Cycle(sync)
FairSpec == Spec /\ WF_vars(RunCycle)

-----------------------------------------------------------------------------
(* Properties.                                                             *)

(* Every word of memory stays a nibble although it is held in a uint8_t,   *)
(* the stack pointer never passes its five frames, the program is one of   *)
(* those that were loaded.                                                 *)
TypeOK == prg \in Programs /\ vm \in VmState

(* The instruction about to be executed stores to address a as a program   *)
(* can choose: by MOV [NN],R0 or by MOV [XY],R0.                           *)
StoresTo(a) ==
    \/ Narrow(12) /\ get_addr_pointer(Instr) = a
    \/ Narrow(10) /\ get_addr_indirect(Sampled(FALSE), Instr) = a

(* ... reads it by MOV R0,[NN].                                            *)
ReadsDirectly(a) == Narrow(13) /\ get_addr_pointer(Instr) = a

UserSync  == Bit(vm.mem[RD_FLAGS], USER_SYNC) = 1
JustPress == Bit(vm.mem[KEY_STATUS], JUST_PRESS) = 1

(* No sync is lost: once up, USER_SYNC comes down only in a step that hands *)
(* it to the program in R0, or by a store of the program's own.            *)
NoSyncLost ==
    [][(UserSync /\ ~UserSync') =>
          \/ (ReadsDirectly(RD_FLAGS) /\ Bit(vm'.mem[R0], USER_SYNC) = 1)
          \/ StoresTo(RD_FLAGS)]_vars

(* No key press is lost: neither the release of the key nor any other step *)
(* takes JUST_PRESS down before the program has read it.                   *)
NoPressLost ==
    [][(JustPress /\ ~JustPress') =>
          \/ (ReadsDirectly(KEY_STATUS) /\ Bit(vm'.mem[R0], JUST_PRESS) = 1)
          \/ StoresTo(KEY_STATUS)]_vars

(* The two copies of the overflow flag, in the flags and in RD_FLAGS, go   *)
(* together until the program stores to RD_FLAGS itself.                   *)
Mirrored == ("V" \in vm.flags) <=> Bit(vm.mem[RD_FLAGS], V_FLAG) = 1
OverflowMirrored == [][Mirrored => Mirrored' \/ StoresTo(RD_FLAGS)]_vars

(* RANDOM shows the nibble of the generator's state, so that a read always *)
(* returns the number generated last; only an indirect store, which does   *)
(* not seed, separates the two.                                            *)
InStep == vm.mem[RANDOM] = seed_to_nibble(vm.seed)
RandomInStep ==
    [][InStep => InStep' \/ (Narrow(10) /\ StoresTo(RANDOM))]_vars

(* INC and DEC of PCL (JSR) count the twelve bits PCH:PCM:PCL (JSR) up and *)
(* down by one, modulo the program memory, and control arrives there.      *)
Counts(k, step, low) ==
    (RunCycle /\ Wide(k) /\ get_addr_ry(Instr) = low
        /\ (low = JSR => vm.sp < MAX_STACK_DEPTH))
        => /\ vm'.pc = (Target(vm, low) + step) % PROGRAM_MEMORY_SIZE
           /\ Target(vm', low) = vm'.pc
PointerCounts ==
    [][\A low \in {JSR, PCL} : Counts(2, 1, low) /\ Counts(3, -1, low)]_vars

(* The pins of the GPIO port read 1 wherever WR_FLAGS puts the port, even  *)
(* if the program has just stored zero to its register: BIT never finds a  *)
(* zero there (README: "pins will always show as 1").                      *)
PinsReadOne ==
    [][(RunCycle /\ Wide(9) /\ Instr.nibble3 \div 4 = 3) => "Z" \notin vm'.flags]_vars

(* A word outside the registers and the special page changes only by a     *)
(* store to its address, in the stack page by a call, in the alternate     *)
(* page by EXR of enough registers.                                        *)
Opens(a)     == vm'.sp = vm.sp + 1 /\ a \in FrameAddr(vm.sp)..(FrameAddr(vm.sp) + 2)
Exchanges(a) == /\ Wide(8)
                /\ a - ALT \in 0..(PAGE_SIZE - 1)
                /\ a - ALT < Instr.nibble3 \/ Instr.nibble3 = 0
Footprint ==
    [][\A a \in STACK..(PAGE - 1) :
          vm'.mem[a] # vm.mem[a] => StoresTo(a) \/ Opens(a) \/ Exchanges(a)]_vars

(* What the instruction at pc asks of the call stack.  MOV RX,RY, MOV RX,N, *)
(* INC and DEC that write JSR are calls, those that write PCL are jumps.    *)
Writes(reg) ==
    \/ Instr.nibble1 \in {8, 9} /\ Instr.nibble2 = reg
    \/ Instr.nibble1 = 0 /\ Instr.nibble2 \in {2, 3} /\ Instr.nibble3 = reg
Asks ==
    CASE Writes(JSR) -> "call"
      [] Instr.nibble1 = 0 /\ Instr.nibble2 = 14 -> "return"      \* RET
      [] Instr.nibble1 \in {10, 12} -> "store"                    \* MOV [XY],R0 and [NN],R0
      [] \/ Writes(PCL)
         \/ Instr.nibble1 = 15                                   \* JR
         \/ Instr.nibble1 = 0 /\ Instr.nibble2 \in {4, 15} -> "jump"  \* DSZ and SKIP
      [] OTHER -> "plain"

(* The call stack of CallStack, its frames decoded from the stack page.    *)
Frame(mem, f) ==
    mem[FrameAddr(f)] + 16 * mem[FrameAddr(f) + 1] + 256 * mem[FrameAddr(f) + 2]
Stack == INSTANCE CallStack
            WITH Depth  <- MAX_STACK_DEPTH,
                 Memory <- PROGRAM_MEMORY_SIZE,
                 pc     <- vm.pc,
                 asks   <- Asks,
                 target <- Target(vm, JSR),
                 depth  <- vm.sp,
                 frames <- [f \in 0..(MAX_STACK_DEPTH - 1) |-> Frame(vm.mem, f)],
                 status <- vm.exit

(* The instructions work the call stack as CallStack has it: a write to    *)
(* JSR by an instruction that can jump always opens a call to the address  *)
(* then in PCH:PCM:JSR or, as the sixth, ends the process; RET always goes *)
(* back to the address its call has saved in three nibbles and takes the   *)
(* frame away, or ends the process; no instruction but a store reaches     *)
(* into an open frame; and nothing else ends the process but a program     *)
(* counter outside program memory.                                         *)
ImplementsCallStack == Stack!Spec

-----------------------------------------------------------------------------
(* Claims of the repository that the code does not keep.                   *)

(* "Should not happen as the program counter cannot exceed the size of     *)
(* program memory", above the assertion of vm_decode_next.                 *)
PcInProgramMemory == vm.exit # "assert"

(* "JustPress ... will be reset when the program reads the register": the  *)
(* register can be read by MOV R0,[XY] as well.                            *)
Reads(a) ==
    \/ ReadsDirectly(a)
    \/ Narrow(11) /\ get_addr_indirect(Sampled(FALSE), Instr) = a
ReadResetsJustPress == [][(RunCycle /\ Reads(KEY_STATUS)) => ~JustPress']_vars
=============================================================================
