--------------------------------- MODULE Ops ---------------------------------
(***************************************************************************)
(* The operations of ops.c.  Every C function that changes the machine     *)
(* through `struct vm_state *vm` is an operator from the machine before it *)
(* to the machine after it; its name is the name of the function.  A       *)
(* machine is a record, an element of VmState:                             *)
(*    mem    user_mem, the 256 nibbles every program can address           *)
(*    pc     reg_pc, a uint16_t                                            *)
(*    sp     reg_sp, the number of frames on the call stack                *)
(*    flags  reg_flags, as the set of the flags that are up                *)
(*    seed   rng.seed                                                      *)
(*    exit   why the process has ended, or "none"                          *)
(* Where an operation has a definition whose name ends in _bug just before *)
(* it, that definition is the operation with a plausible slip in it: the   *)
(* properties are tried against it, and no other definition uses it.       *)
(***************************************************************************)
EXTENDS Rng

MAX_STACK_DEPTH     == 5
PROGRAM_MEMORY_SIZE == 4096
PAGE_SIZE           == 16

(* The registers with a role: R0 to R9 have none but R0's.                 *)
R0 == 0   OUT == 10   IN_ == 11   JSR == 12   PCL == 13   PCM == 14   PCH == 15

(* Base addresses of the stack page and of the alternate registers.        *)
STACK == 16
ALT   == 224

(* The special function registers, 0xf0 to 0xff.                           *)
PAGE     == 240   CLOCK    == 241   SYNC       == 242   WR_FLAGS == 243
RD_FLAGS == 244   SER_CTRL == 245   AUTO_OFF   == 249   OUT_B    == 250
IN_B     == 251   KEY_STATUS == 252 KEY_REG    == 253   DIMMER   == 254
RANDOM   == 255

(* Bit positions of the flags kept in special function registers.          *)
IN_OUT_POS == 1
USER_SYNC  == 0   V_FLAG == 1
JUST_PRESS == 0   LAST_PRESS == 1   ANY_PRESS == 2

Addr    == 0..(PROGRAM_MEMORY_SIZE - 1)
Counter == 0..UINT16_MAX
Depth   == 0..MAX_STACK_DEPTH
Flag    == {"C", "Z", "V"}
Flags   == SUBSET Flag
Exit    == {"none", "overflow", "underflow", "assert"}

VmState == [mem: [Byte -> Nibble], pc: Counter, sp: Depth, flags: Flags,
            seed: Seed, exit: Exit]

Store(v, a, x)     == [v EXCEPT !.mem = [@ EXCEPT ![a] = x]]
SetFlag(v, f, up)  == [v EXCEPT !.flags = IF up THEN @ \cup {f} ELSE @ \ {f}]
SetBit(v, a, k)    == Store(v, a, WithBit(v.mem[a], k))
ClearBit(v, a, k)  == Store(v, a, WithoutBit(v.mem[a], k))
Carry(v)           == IF "C" \in v.flags THEN 1 ELSE 0

-----------------------------------------------------------------------------
(* Operands.  An instruction is a record of its three nibbles.             *)

Word == [nibble1: Nibble, nibble2: Nibble, nibble3: Nibble]

get_addr_rx(i) == i.nibble2
get_addr_ry(i) == i.nibble3

(* The register operand of BIT, and of BSET, BCLR and BTG: R0 to R2, or    *)
(* the input (output) port at the place WR_FLAGS selects.                  *)
get_addr_rg_in(v, i) ==
    LET rg == i.nibble3 \div 4
    IN  IF rg < 3 THEN rg
        ELSE IF Bit(v.mem[WR_FLAGS], IN_OUT_POS) = 1 THEN IN_B ELSE IN_

get_addr_rg_out(v, i) ==
    LET rg == i.nibble3 \div 4
    IN  IF rg < 3 THEN rg
        ELSE IF Bit(v.mem[WR_FLAGS], IN_OUT_POS) = 1 THEN OUT_B ELSE OUT

get_addr_pointer(i)     == 16 * i.nibble2 + i.nibble3
get_addr_indirect(v, i) == 16 * v.mem[i.nibble2] + v.mem[i.nibble3]

get_condition_flag(i)    == i.nibble3 \div 4
get_val_ry(v, i)         == v.mem[i.nibble3]
get_val_r0(v)            == v.mem[R0]
get_val_indirect(v, i)   == v.mem[get_addr_indirect(v, i)]
get_val_literal(i)       == i.nibble3
get_val_byte_literal(i)  == 16 * i.nibble2 + i.nibble3
get_val_crumb_literal(i) == i.nibble3 % 4

-----------------------------------------------------------------------------
(* Flags.  The results tested are those of uint8_t arithmetic.             *)

update_zero_flag(result, v)   == SetFlag(v, "Z", result % 16 = 0)
update_carry_flag(result, v)  == SetFlag(v, "C", (result \div 16) % 2 = 1)
update_borrow_flag_bug(result, v) == update_carry_flag(result, v)
update_borrow_flag(result, v) == SetFlag(v, "C", (result \div 16) % 2 = 0)

update_overflow_flag_bug(sresult, v) == SetFlag(v, "V", sresult < -8 \/ sresult > 7)

(* Overflow is shown twice: in the flags and, for programs to read, as a   *)
(* bit of RD_FLAGS.                                                        *)
update_overflow_flag(sresult, v) ==
    IF sresult < -8 \/ sresult > 7
    THEN SetBit(SetFlag(v, "V", TRUE), RD_FLAGS, V_FLAG)
    ELSE ClearBit(SetFlag(v, "V", FALSE), RD_FLAGS, V_FLAG)

nibble_to_int8(n) == IF n < 8 THEN n ELSE n - 16

-----------------------------------------------------------------------------
(* Arithmetic and logic: dst is an address, src the value of the source.   *)

op_add(v, dst, src) ==
    LET d       == v.mem[dst]
        result  == UInt8(d + src)
        sresult == nibble_to_int8(d) + nibble_to_int8(src)
    IN  update_overflow_flag(sresult,
          update_carry_flag(result,
            update_zero_flag(result, Store(v, dst, result % 16))))

op_adc_bug(v, dst, src) == op_add(v, dst, src)

op_adc(v, dst, src) ==
    LET d       == v.mem[dst]
        result  == UInt8(d + src + Carry(v))
        sresult == nibble_to_int8(d) + nibble_to_int8(src) + Carry(v)
    IN  update_overflow_flag(sresult,
          update_carry_flag(result,
            update_zero_flag(result, Store(v, dst, result % 16))))

op_sub(v, dst, src) ==
    LET d       == v.mem[dst]
        result  == UInt8(d - src)
        sresult == nibble_to_int8(d) - nibble_to_int8(src)
    IN  update_overflow_flag(sresult,
          update_borrow_flag(result,
            update_zero_flag(result, Store(v, dst, result % 16))))

(* C is the inverse of a borrow: clear, it takes one more from dst.        *)
op_sbb(v, dst, src) ==
    LET d       == v.mem[dst]
        borrow  == 1 - Carry(v)
        result  == UInt8(d - src - borrow)
        sresult == nibble_to_int8(d) - nibble_to_int8(src) - borrow
    IN  update_overflow_flag(sresult,
          update_borrow_flag(result,
            update_zero_flag(result, Store(v, dst, result % 16))))

(* SUB whose difference is not stored.                                     *)
op_cp(v, dst, src) ==
    LET d       == v.mem[dst]
        result  == UInt8(d - src)
        sresult == nibble_to_int8(d) - nibble_to_int8(src)
    IN  update_overflow_flag(sresult,
          update_borrow_flag(result, update_zero_flag(result, v)))

(* `literal` is OP_FLAG_UPDATE_CARRY: the forms with a literal set, clear  *)
(* and toggle C.                                                           *)
op_or(v, dst, src, literal) ==
    LET result == Or4(v.mem[dst], src)
        w      == update_zero_flag(result, Store(v, dst, result))
    IN  IF literal THEN SetFlag(w, "C", TRUE) ELSE w

op_and(v, dst, src, literal) ==
    LET result == And4(v.mem[dst], src)
        w      == update_zero_flag(result, Store(v, dst, result))
    IN  IF literal THEN SetFlag(w, "C", FALSE) ELSE w

op_xor_bug(v, dst, src, literal) ==
    LET result == Xor4(v.mem[dst], src)
    IN  update_zero_flag(result, Store(v, dst, result))

op_xor(v, dst, src, literal) ==
    LET result == Xor4(v.mem[dst], src)
        w      == update_zero_flag(result, Store(v, dst, result))
    IN  IF literal THEN SetFlag(w, "C", "C" \notin w.flags) ELSE w

op_rrc_bug(v, dst) ==
    LET d      == v.mem[dst]
        result == d \div 2 + 8 * (d % 2)
    IN  update_zero_flag(result, Store(SetFlag(v, "C", d % 2 = 1), dst, result))

op_rrc(v, dst) ==
    LET d      == v.mem[dst]
        result == d \div 2 + 8 * Carry(v)
    IN  update_zero_flag(result, Store(SetFlag(v, "C", d % 2 = 1), dst, result))

-----------------------------------------------------------------------------
(* Calls, jumps and moves.                                                 *)

(* The three registers that hold the high nibbles of a target and its low  *)
(* nibble, in JSR for a call and in PCL for a jump.                        *)
Target(v, low) == 256 * v.mem[PCH] + 16 * v.mem[PCM] + v.mem[low]

(* Frame f of the stack page: the low, middle and high nibble of a return  *)
(* address.                                                                *)
FrameAddr(f) == STACK + 3 * f
push(v) ==
    LET a == FrameAddr(v.sp)
    IN  Store(Store(Store(v, a, v.pc % 16), a + 1, (v.pc \div 16) % 16),
              a + 2, v.pc \div 256)

maybe_call_or_jump(dst, v) ==
    CASE dst = JSR /\ v.sp = MAX_STACK_DEPTH -> [v EXCEPT !.exit = "overflow"]
      [] dst = JSR /\ v.sp # MAX_STACK_DEPTH ->
            [push(v) EXCEPT !.sp = @ + 1, !.pc = Target(v, JSR)]
      [] dst = PCL -> [v EXCEPT !.pc = Target(v, PCL)]
      [] OTHER -> v

op_ret_bug(v, n) ==
    IF v.sp = 0 THEN [v EXCEPT !.exit = "underflow"]
    ELSE [Store(v, R0, n) EXCEPT !.pc =
             LET a == FrameAddr(v.sp - 1)
             IN  v.mem[a] + 16 * v.mem[a + 1] + 256 * v.mem[a + 2]]

op_ret(v, n) ==
    IF v.sp = 0 THEN [v EXCEPT !.exit = "underflow"]
    ELSE LET a == FrameAddr(v.sp - 1)
         IN  [Store(v, R0, n) EXCEPT !.sp = @ - 1,
                 !.pc = v.mem[a] + 16 * v.mem[a + 1] + 256 * v.mem[a + 2]]

is_sfr_address(a) == a \in PAGE..RANDOM

sfr_read_bug(v, a) ==
    LET w == IF a \in {RD_FLAGS, KEY_STATUS} THEN ClearBit(v, a, 0) ELSE v
    IN  Store(w, R0, w.mem[a])

(* MOV R0,[NN] of a special function register: reading takes USER_SYNC and *)
(* JUST_PRESS down and advances the generator.                             *)
sfr_read(v, a) ==
    LET w == Store(v, R0, v.mem[a])
    IN  CASE a = RD_FLAGS   -> ClearBit(w, a, USER_SYNC)
          [] a = KEY_STATUS -> ClearBit(w, a, JUST_PRESS)
          [] a = RANDOM     ->
                LET s == next_seed(v.seed)
                IN  [Store(w, a, seed_to_nibble(s)) EXCEPT !.seed = s]
          [] OTHER -> w

sfr_write_bug(v, a, fresh) == Store(v, a, v.mem[R0])

(* MOV [NN],R0 of a special function register: writing RANDOM seeds.       *)
sfr_write(v, a, fresh) ==
    IF a = RANDOM
    THEN LET s == set_rng_seed(v.mem[R0], fresh)
         IN  [Store(v, a, seed_to_nibble(s)) EXCEPT !.seed = s]
    ELSE Store(v, a, v.mem[R0])

(* op_mov by its flags: none, CAN_JUMP, DST_BYTE, CAN_RD_SFR, CAN_WR_SFR.  *)
op_mov(v, dst, src)      == Store(v, dst, src)
op_mov_jump(v, dst, src) == maybe_call_or_jump(dst, Store(v, dst, src))
op_mov_byte(v, dst, src) ==
    Store(Store(v, dst, LowNibble(src)), dst + 1, HighNibble(src))
op_mov_from(v, a) ==
    IF is_sfr_address(a) THEN sfr_read(v, a) ELSE Store(v, R0, v.mem[a])
op_mov_to(v, a, fresh) ==
    IF is_sfr_address(a) THEN sfr_write(v, a, fresh) ELSE Store(v, a, v.mem[R0])

(* INC and DEC of JSR or PCL count on into PCM and PCH, then call or jump. *)
op_inc(v, dst) ==
    LET result == UInt8(v.mem[dst] + 1)
        w      == update_carry_flag(result,
                    update_zero_flag(result, Store(v, dst, result % 16)))
        m      == w.mem[PCM] + 1
        ripple == IF Carry(w) = 1 /\ dst \in {JSR, PCL}
                  THEN Store(Store(w, PCM, m % 16), PCH,
                             (w.mem[PCH] + m \div 16) % 16)
                  ELSE w
    IN  maybe_call_or_jump(dst, ripple)

op_dec_bug(v, dst) ==
    LET result == UInt8(v.mem[dst] - 1)
        w      == update_borrow_flag(result,
                    update_zero_flag(result, Store(v, dst, result % 16)))
    IN  maybe_call_or_jump(dst,
            IF Carry(w) = 0 /\ dst \in {JSR, PCL}
            THEN Store(w, PCM, UInt8(w.mem[PCM] - 1) % 16) ELSE w)

op_dec(v, dst) ==
    LET result == UInt8(v.mem[dst] - 1)
        w      == update_borrow_flag(result,
                    update_zero_flag(result, Store(v, dst, result % 16)))
        m      == UInt8(w.mem[PCM] - 1)
        ripple == IF Carry(w) = 0 /\ dst \in {JSR, PCL}
                  THEN Store(Store(w, PCM, m % 16), PCH,
                             (w.mem[PCH] - ((m \div 16) % 2)) % 16)
                  ELSE w
    IN  maybe_call_or_jump(dst, ripple)

-----------------------------------------------------------------------------
(* Skips, relative jumps, bits and the exchange of registers.              *)

Skip(v, n) == [v EXCEPT !.pc = UInt16(@ + n)]

op_jr(v, nn) == Skip(v, IF nn < 128 THEN nn ELSE nn - 256)

op_dsz_bug(v, dst) ==
    LET w == Store(v, dst, UInt8(v.mem[dst] - 1) % 16)
    IN  IF v.mem[dst] = 0 THEN Skip(w, 1) ELSE w

op_dsz(v, dst) ==
    LET result == UInt8(v.mem[dst] - 1) % 16
        w      == Store(v, dst, result)
    IN  IF result = 0 THEN Skip(w, 1) ELSE w

op_skip_bug(v, cnd, m) ==
    LET up == IF cnd < 2 THEN "C" \in v.flags ELSE "Z" \in v.flags
    IN  IF up = (cnd % 2 = 0) THEN Skip(v, m) ELSE v

op_skip(v, cnd, m) ==
    LET holds == CASE cnd = 0 -> "C" \in v.flags
                   [] cnd = 1 -> "C" \notin v.flags
                   [] cnd = 2 -> "Z" \in v.flags
                   [] OTHER   -> "Z" \notin v.flags
    IN  IF holds THEN Skip(v, IF m = 0 THEN 4 ELSE m) ELSE v

op_bit(v, dst, m)  == SetFlag(v, "Z", Bit(v.mem[dst], m) = 0)
op_bset(v, dst, m) == SetBit(v, dst, m)
op_bclr(v, dst, m) == ClearBit(v, dst, m)
op_btg(v, dst, m)  ==
    IF Bit(v.mem[dst], m) = 1 THEN ClearBit(v, dst, m) ELSE SetBit(v, dst, m)

op_exr_bug(v, n) ==
    [v EXCEPT !.mem = [a \in Byte |->
        IF a <= n THEN v.mem[ALT + a]
        ELSE IF a >= ALT /\ a <= ALT + n THEN v.mem[a - ALT] ELSE v.mem[a]]]

(* The first n registers, all sixteen for 0, trade places with the first n *)
(* words of the alternate page.                                            *)
op_exr(v, n) ==
    LET size == IF n = 0 THEN PAGE_SIZE ELSE n
    IN  [v EXCEPT !.mem = [a \in Byte |->
            IF a < size THEN v.mem[ALT + a]
            ELSE IF a >= ALT /\ a < ALT + size THEN v.mem[a - ALT] ELSE v.mem[a]]]
=============================================================================
