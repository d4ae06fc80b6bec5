----------------------------- MODULE DeviceProofs -----------------------------
(***************************************************************************)
(* The machine's devices - the overflow flag and the sync bit of RD_FLAGS, *)
(* the generator behind RANDOM, the input port, the counters PC and JSR -  *)
(* for every program and every environment.                                *)
(***************************************************************************)
EXTENDS FootprintProofs

-----------------------------------------------------------------------------
(* Bits of a nibble.                                                       *)

(* Bits 0 and 1, which hold the sync and the overflow, are set and cleared *)
(* independently of each other.                                            *)
LEMMA TwoBits ==
    ASSUME NEW n \in Nibble
    PROVE  /\ Bit(WithBit(n, 0), 0) = 1 /\ Bit(WithBit(n, 0), 1) = Bit(n, 1)
           /\ Bit(WithBit(n, 1), 1) = 1 /\ Bit(WithBit(n, 1), 0) = Bit(n, 0)
           /\ Bit(WithoutBit(n, 0), 1) = Bit(n, 1)
           /\ Bit(WithoutBit(n, 1), 1) = 0 /\ Bit(WithoutBit(n, 1), 0) = Bit(n, 0)
  BY DEF WithBit, WithoutBit, Bit, Weight, Nibble

(* The bits of the pins.                                                   *)
LEMMA AllOnes == \A k \in 0..3 : Bit(15, k) = 1
  BY DEF Bit, Weight

-----------------------------------------------------------------------------
(* Operations that leave the devices alone.                                *)

(* The generator is where it was and shows what it showed.                 *)
SameRandom(v, w) == w.seed = v.seed /\ w.mem[RANDOM] = v.mem[RANDOM]

(* The overflow flag is as it was, and so is RD_FLAGS.                     *)
SameFlags(v, w) ==
    /\ "V" \in w.flags <=> "V" \in v.flags
    /\ w.mem[RD_FLAGS] = v.mem[RD_FLAGS]

Leaves(v, w) == v \in VmState /\ w \in VmState /\ SameRandom(v, w) /\ SameFlags(v, w)

(* One after the other, such operations are one more of them.              *)
LEMMA LeaveChain ==
    ASSUME NEW u, NEW v, NEW w, Leaves(u, v), Leaves(v, w)
    PROVE  Leaves(u, w)
  BY DEF Leaves, SameRandom, SameFlags

(* No operation at all is one.                                             *)
LEMMA LeaveNothing ==
    ASSUME NEW v \in VmState
    PROVE  Leaves(v, v)
  BY DEF Leaves, SameRandom, SameFlags

(* A store elsewhere.                                                      *)
LEMMA LeaveStore ==
    ASSUME NEW v \in VmState, NEW a \in Byte, a # RD_FLAGS, a # RANDOM, NEW x \in Nibble
    PROVE  Leaves(v, Store(v, a, x))
  <1>1. Store(v, a, x) \in VmState
    BY StoreType
  <1>2. Store(v, a, x).mem = [v.mem EXCEPT ![a] = x] /\ v.mem \in [Byte -> Nibble]
    BY StoreMem, FieldTypes
  <1>3. Store(v, a, x).seed = v.seed /\ Store(v, a, x).flags = v.flags
    BY StoreFields
  <1>4. Store(v, a, x).mem[RD_FLAGS] = v.mem[RD_FLAGS]
        /\ Store(v, a, x).mem[RANDOM] = v.mem[RANDOM]
    BY <1>2, Addresses
  <1> QED BY <1>1, <1>3, <1>4 DEF Leaves, SameRandom, SameFlags

(* A bit set or cleared elsewhere.                                         *)
LEMMA LeaveBit ==
    ASSUME NEW v \in VmState, NEW a \in Byte, a # RD_FLAGS, a # RANDOM, NEW k \in 0..3
    PROVE  Leaves(v, SetBit(v, a, k)) /\ Leaves(v, ClearBit(v, a, k))
  BY MemType, OneBit, LeaveStore DEF SetBit, ClearBit

(* The flags C and Z.                                                      *)
LEMMA LeaveFlag ==
    ASSUME NEW v \in VmState, NEW f \in {"C", "Z"}, NEW up
    PROVE  Leaves(v, SetFlag(v, f, up))
  <1>1. f \in Flag /\ f # "V"
    BY DEF Flag
  <1>2. SetFlag(v, f, up) \in VmState
    BY <1>1, SetFlagType
  <1>3. SetFlag(v, f, up).mem = v.mem /\ SetFlag(v, f, up).seed = v.seed
    BY DEF SetFlag, VmState
  <1>4. "V" \in SetFlag(v, f, up).flags <=> "V" \in v.flags
    BY <1>1 DEF SetFlag, VmState
  <1> QED BY <1>2, <1>3, <1>4 DEF Leaves, SameRandom, SameFlags

(* The updates of the flags C and Z.                                       *)
LEMMA LeaveUpdates ==
    ASSUME NEW v, NEW w, Leaves(v, w), NEW r
    PROVE  /\ Leaves(v, update_zero_flag(r, w))
           /\ Leaves(v, update_carry_flag(r, update_zero_flag(r, w)))
           /\ Leaves(v, update_borrow_flag(r, update_zero_flag(r, w)))
  <1> DEFINE z == update_zero_flag(r, w)
  <1>1. Leaves(w, z)
    BY LeaveFlag DEF update_zero_flag, Leaves
  <1>2. Leaves(v, z) /\ z \in VmState
    <2>1. Leaves(v, z) BY <1>1, LeaveChain
    <2> QED BY <2>1 DEF Leaves
  <1> HIDE DEF z
  <1>3. Leaves(z, update_carry_flag(r, z)) /\ Leaves(z, update_borrow_flag(r, z))
    BY <1>2, LeaveFlag DEF update_carry_flag, update_borrow_flag
  <1>4. Leaves(v, update_carry_flag(r, z)) /\ Leaves(v, update_borrow_flag(r, z))
    BY <1>2, <1>3, LeaveChain
  <1> QED BY <1>2, <1>4 DEF z

(* A new program counter, stack pointer or end of the process.             *)
LEMMA LeaveControl ==
    ASSUME NEW v \in VmState, NEW w \in VmState,
           w.mem = v.mem, w.flags = v.flags, w.seed = v.seed
    PROVE  Leaves(v, w)
  BY DEF Leaves, SameRandom, SameFlags

(* A jump.                                                                 *)
LEMMA LeavePc ==
    ASSUME NEW v \in VmState, NEW n \in Counter
    PROVE  Leaves(v, [v EXCEPT !.pc = n])
  <1>1. /\ [v EXCEPT !.pc = n].mem = v.mem /\ [v EXCEPT !.pc = n].flags = v.flags
        /\ [v EXCEPT !.pc = n].seed = v.seed
    BY DEF VmState
  <1> QED BY <1>1, PcType, LeaveControl

(* OR, AND, XOR and RRC of a register.                                     *)
LEMMA LeaveLogic ==
    ASSUME NEW v \in VmState, NEW dst \in Nibble, NEW src \in Nibble, NEW literal
    PROVE  /\ Leaves(v, op_or(v, dst, src, literal)) /\ Leaves(v, op_and(v, dst, src, literal))
           /\ Leaves(v, op_xor(v, dst, src, literal)) /\ Leaves(v, op_rrc(v, dst))
  <1>1. dst \in Byte /\ dst # RD_FLAGS /\ dst # RANDOM /\ v.mem[dst] \in Nibble
    <2>1. dst \in Byte /\ dst # RD_FLAGS /\ dst # RANDOM
      BY DEF Nibble, Byte, RD_FLAGS, RANDOM
    <2> QED BY <2>1, MemType
  <1>2. \A r \in Nibble : Leaves(v, update_zero_flag(r, Store(v, dst, r)))
    BY <1>1, LeaveStore, LeaveUpdates
  <1>3. \A w : \A up : Leaves(v, w) => Leaves(v, SetFlag(w, "C", up))
    <2> SUFFICES ASSUME NEW w, NEW up, Leaves(v, w) PROVE Leaves(v, SetFlag(w, "C", up))
      OBVIOUS
    <2>1. Leaves(w, SetFlag(w, "C", up)) BY LeaveFlag DEF Leaves
    <2> QED BY <2>1, LeaveChain
  <1>4. Leaves(v, op_or(v, dst, src, literal)) BY <1>1, <1>2, <1>3, Bits DEF op_or
  <1>5. Leaves(v, op_and(v, dst, src, literal)) BY <1>1, <1>2, <1>3, Bits DEF op_and
  <1>6. Leaves(v, op_xor(v, dst, src, literal)) BY <1>1, <1>2, <1>3, Bits DEF op_xor
  <1>7. Leaves(v, op_rrc(v, dst))
    <2> DEFINE result == v.mem[dst] \div 2 + 8 * Carry(v)
               w      == SetFlag(v, "C", v.mem[dst] % 2 = 1)
    <2>1. result \in Nibble BY <1>1 DEF Nibble, Carry
    <2>2. Leaves(v, w) BY <1>3, LeaveNothing
    <2> HIDE DEF result, w
    <2>3. Leaves(w, Store(w, dst, result)) BY <1>1, <2>1, <2>2, LeaveStore DEF Leaves
    <2>4. Leaves(v, update_zero_flag(result, Store(w, dst, result)))
      BY <2>2, <2>3, LeaveChain, LeaveUpdates
    <2> QED BY <2>4 DEF op_rrc, w, result
  <1> QED BY <1>4, <1>5, <1>6, <1>7

(* JR, SKIP, and DSZ of a register.                                        *)
LEMMA LeaveSkip ==
    ASSUME NEW v \in VmState, NEW dst \in Nibble, NEW nn \in Byte, NEW m \in 0..3, NEW cnd
    PROVE  /\ Leaves(v, op_jr(v, nn)) /\ Leaves(v, op_dsz(v, dst))
           /\ Leaves(v, op_skip(v, cnd, m))
  <1>1. \A w : \A n \in Int : Leaves(v, w) => Leaves(v, Skip(w, n))
    <2> SUFFICES ASSUME NEW w, NEW n \in Int, Leaves(v, w) PROVE Leaves(v, Skip(w, n))
      OBVIOUS
    <2>1. w \in VmState BY DEF Leaves
    <2>2. UInt16(w.pc + n) \in Counter BY <2>1, FieldTypes, Relative
    <2>3. Leaves(w, Skip(w, n)) BY <2>1, <2>2, LeavePc DEF Skip
    <2> QED BY <2>3, LeaveChain
  <1>2. Leaves(v, op_jr(v, nn))
    <2>1. (IF nn < 128 THEN nn ELSE nn - 256) \in Int BY DEF Byte
    <2> QED BY <1>1, <2>1, LeaveNothing DEF op_jr
  <1>3. Leaves(v, op_dsz(v, dst))
    <2> DEFINE result == UInt8(v.mem[dst] - 1) % 16
               w      == Store(v, dst, result)
    <2>1. dst \in Byte /\ dst # RD_FLAGS /\ dst # RANDOM
      BY DEF Nibble, Byte, RD_FLAGS, RANDOM
    <2>2. result \in Nibble
      <3>1. v.mem[dst] \in Nibble BY <2>1, MemType
      <3> QED BY <3>1 DEF UInt8, Nibble
    <2> HIDE DEF result
    <2>3. Leaves(v, w) BY <2>1, <2>2, LeaveStore
    <2> HIDE DEF w
    <2> QED BY <1>1, <2>3 DEF op_dsz, w, result
  <1>4. Leaves(v, op_skip(v, cnd, m))
    BY <1>1, LeaveNothing DEF op_skip
  <1> QED BY <1>2, <1>3, <1>4

(* BIT, BSET, BCLR and BTG of a register or a port.                        *)
LEMMA LeaveBits ==
    ASSUME NEW v \in VmState, NEW dst \in Byte, dst # RD_FLAGS, dst # RANDOM, NEW m \in 0..3
    PROVE  /\ Leaves(v, op_bit(v, dst, m)) /\ Leaves(v, op_bset(v, dst, m))
           /\ Leaves(v, op_bclr(v, dst, m)) /\ Leaves(v, op_btg(v, dst, m))
  BY LeaveFlag, LeaveBit DEF op_bit, op_bset, op_bclr, op_btg

(* EXR: the alternate page ends below the special function registers.      *)
LEMMA LeaveExchange ==
    ASSUME NEW v \in VmState, NEW n \in Nibble
    PROVE  Leaves(v, op_exr(v, n))
  <1>1. /\ RD_FLAGS \in Byte /\ RD_FLAGS \notin Exchanged(n)
        /\ RANDOM \in Byte /\ RANDOM \notin Exchanged(n)
    BY DEF Exchanged, RD_FLAGS, RANDOM, ALT, PAGE, Nibble, Byte
  <1>2. Touches(v, op_exr(v, n), Exchanged(n))
    BY TouchExchange DEF Exchanged
  <1>3. op_exr(v, n).seed = v.seed /\ op_exr(v, n).flags = v.flags
    BY DEF op_exr, VmState
  <1> QED BY <1>1, <1>2, <1>3 DEF Touches, Leaves, SameRandom, SameFlags

(* MOV of a byte into PCM and PCH.                                         *)
LEMMA LeaveMovByte ==
    ASSUME NEW v \in VmState, NEW nn \in Byte
    PROVE  Leaves(v, op_mov_byte(v, PCM, nn))
  <1> DEFINE w == Store(v, PCM, LowNibble(nn))
  <1>1. /\ PCM \in Byte /\ PCM # RD_FLAGS /\ PCM # RANDOM
        /\ PCM + 1 \in Byte /\ PCM + 1 # RD_FLAGS /\ PCM + 1 # RANDOM
    BY DEF PCM, RD_FLAGS, RANDOM, Byte
  <1>2. LowNibble(nn) \in Nibble /\ HighNibble(nn) \in Nibble
    BY Masks
  <1>3. Leaves(v, w) BY <1>1, <1>2, LeaveStore
  <1> HIDE DEF w
  <1>4. Leaves(w, Store(w, PCM + 1, HighNibble(nn)))
    BY <1>1, <1>2, <1>3, LeaveStore DEF Leaves
  <1>5. Leaves(v, Store(w, PCM + 1, HighNibble(nn)))
    BY <1>3, <1>4, LeaveChain
  <1> QED BY <1>5 DEF op_mov_byte, w

-----------------------------------------------------------------------------
(* Calls, jumps and returns.                                               *)

(* The stack page is below the special function registers.                 *)
LEMMA LeavePush ==
    ASSUME NEW v \in VmState, v.pc \in Addr, v.sp # MAX_STACK_DEPTH
    PROVE  Leaves(v, push(v))
  <1>1. RD_FLAGS \in Byte \ FrameWords(v.sp) /\ RANDOM \in Byte \ FrameWords(v.sp)
    <2>1. v.sp \in Depth BY FieldTypes
    <2> QED BY <2>1 DEF FrameWords, FrameAddr, Depth, MAX_STACK_DEPTH, STACK, RD_FLAGS, RANDOM,
               Byte
  <1>2. push(v).mem[RD_FLAGS] = v.mem[RD_FLAGS] /\ push(v).mem[RANDOM] = v.mem[RANDOM]
    BY <1>1, PushEffect
  <1>3. push(v) \in VmState
    BY PushType
  <1>4. push(v).seed = v.seed /\ push(v).flags = v.flags
    BY DEF push, Store, VmState
  <1> QED BY <1>2, <1>3, <1>4 DEF Leaves, SameRandom, SameFlags

(* What follows a write to a register.                                     *)
LEMMA LeaveCallOrJump ==
    ASSUME NEW u, NEW v, Leaves(u, v), v.pc \in Addr, NEW dst \in Nibble
    PROVE  Leaves(u, maybe_call_or_jump(dst, v))
  <1> DEFINE w == maybe_call_or_jump(dst, v)
  <1>0. v \in VmState
    BY DEF Leaves
  <1>1. w \in VmState
    BY <1>0, CallOrJumpType
  <1>2. /\ Target(v, JSR) \in Counter /\ Target(v, PCL) \in Counter /\ JSR # PCL
    BY <1>0, TargetType, AddrIsCounter DEF JSR, PCL
  <1>3. CASE dst = JSR /\ v.sp = MAX_STACK_DEPTH
    <2>1. w = [v EXCEPT !.exit = "overflow"]
      BY <1>3, <1>2 DEF maybe_call_or_jump
    <2>2. w.mem = v.mem /\ w.flags = v.flags /\ w.seed = v.seed
      BY <2>1, <1>0 DEF VmState
    <2> HIDE DEF w
    <2>3. Leaves(v, w) BY <1>0, <1>1, <2>2, LeaveControl
    <2> QED BY <2>3, LeaveChain DEF w
  <1>4. CASE dst = JSR /\ v.sp # MAX_STACK_DEPTH
    <2> DEFINE x == push(v)
    <2>1. w = [x EXCEPT !.sp = @ + 1, !.pc = Target(v, JSR)]
      BY <1>4, <1>2 DEF maybe_call_or_jump
    <2>2. Leaves(v, x) /\ x \in VmState
      BY <1>0, <1>4, LeavePush, PushType
    <2> HIDE DEF x
    <2>3. w.mem = x.mem /\ w.flags = x.flags /\ w.seed = x.seed
      BY <2>1, <2>2 DEF VmState
    <2> HIDE DEF w
    <2>4. Leaves(x, w) BY <1>1, <2>2, <2>3, LeaveControl
    <2>5. Leaves(u, w) BY <2>2, <2>4, LeaveChain
    <2> QED BY <2>5 DEF w
  <1>5. CASE dst = PCL
    <2>1. w = [v EXCEPT !.pc = Target(v, PCL)]
      BY <1>5, <1>2 DEF maybe_call_or_jump
    <2>2. Leaves(v, w)
      BY <1>0, <1>2, <2>1, LeavePc
    <2> HIDE DEF w
    <2>3. Leaves(u, w) BY <2>2, LeaveChain
    <2> QED BY <2>3 DEF w
  <1>6. CASE dst # JSR /\ dst # PCL
    BY <1>6 DEF maybe_call_or_jump
  <1> QED BY <1>3, <1>4, <1>5, <1>6

(* RET, with a frame or without.                                           *)
LEMMA LeaveReturn ==
    ASSUME NEW v \in VmState, NEW n \in Nibble
    PROVE  Leaves(v, op_ret(v, n))
  <1> DEFINE r == op_ret(v, n)
             w == Store(v, R0, n)
  <1>1. r \in VmState
    BY ReturnType
  <1>2. R0 \in Byte /\ R0 # RD_FLAGS /\ R0 # RANDOM
    BY DEF R0, RD_FLAGS, RANDOM, Byte
  <1>3. Leaves(v, w) /\ w \in VmState
    BY <1>2, LeaveStore, StoreType
  <1>4. CASE v.sp = 0
    <2>1. r.mem = v.mem /\ r.flags = v.flags /\ r.seed = v.seed
      BY <1>4 DEF op_ret, VmState
    <2> QED BY <1>1, <2>1, LeaveControl
  <1>5. CASE v.sp # 0
    <2> DEFINE a == FrameAddr(v.sp - 1)
               p == v.mem[a] + 16 * v.mem[a + 1] + 256 * v.mem[a + 2]
    <2>1. r = [w EXCEPT !.sp = @ - 1, !.pc = p]
      BY <1>5 DEF op_ret
    <2> HIDE DEF w, p
    <2>2. r.mem = w.mem /\ r.flags = w.flags /\ r.seed = w.seed
      BY <1>3, <2>1 DEF VmState
    <2> HIDE DEF r
    <2>3. Leaves(w, r) BY <1>1, <1>3, <2>2, LeaveControl
    <2>4. Leaves(v, r) BY <1>3, <2>3, LeaveChain
    <2> QED BY <2>4 DEF r
  <1> QED BY <1>4, <1>5

-----------------------------------------------------------------------------
(* INC and DEC.                                                            *)

(* The three nibbles of a counter count up: the carry leaves the low one   *)
(* exactly when it was 15, and the middle one when that was 15 as well.    *)
LEMMA CountUp ==
    ASSUME NEW h \in Nibble, NEW m \in Nibble, NEW l \in Nibble
    PROVE  LET r == UInt8(l + 1)
               c == (r \div 16) % 2 = 1
           IN  256 * (IF c THEN (h + (m + 1) \div 16) % 16 ELSE h)
                 + 16 * (IF c THEN (m + 1) % 16 ELSE m) + (r % 16)
               = (256 * h + 16 * m + l + 1) % 4096
  <1>1. /\ h \in Int /\ 0 <= h /\ h <= 15
        /\ m \in Int /\ 0 <= m /\ m <= 15
        /\ l \in Int /\ 0 <= l /\ l <= 15
    BY DEF Nibble
  <1>2. CASE l < 15
    BY <1>1, <1>2 DEF UInt8
  <1>3. CASE l = 15 /\ m < 15
    BY <1>1, <1>3 DEF UInt8
  <1>4. CASE l = 15 /\ m = 15 /\ h < 15
    BY <1>1, <1>4 DEF UInt8
  <1>5. CASE l = 15 /\ m = 15 /\ h = 15
    BY <1>5 DEF UInt8
  <1> QED BY <1>1, <1>2, <1>3, <1>4, <1>5

(* ... and down: a borrow is taken where a nibble was 0.                   *)
LEMMA CountDown ==
    ASSUME NEW h \in Nibble, NEW m \in Nibble, NEW l \in Nibble
    PROVE  LET r == UInt8(l - 1)
               c == (r \div 16) % 2 = 0
               d == UInt8(m - 1)
           IN  256 * (IF ~c THEN (h - ((d \div 16) % 2)) % 16 ELSE h)
                 + 16 * (IF ~c THEN d % 16 ELSE m) + (r % 16)
               = ((256 * h + 16 * m + l) - 1) % 4096
  <1>1. /\ h \in Int /\ 0 <= h /\ h <= 15
        /\ m \in Int /\ 0 <= m /\ m <= 15
        /\ l \in Int /\ 0 <= l /\ l <= 15
    BY DEF Nibble
  <1>2. CASE l > 0
    BY <1>1, <1>2 DEF UInt8
  <1>3. CASE l = 0 /\ m > 0
    BY <1>1, <1>3 DEF UInt8
  <1>4. CASE l = 0 /\ m = 0 /\ h > 0
    BY <1>1, <1>4 DEF UInt8
  <1>5. CASE l = 0 /\ m = 0 /\ h = 0
    BY <1>5 DEF UInt8
  <1> QED BY <1>1, <1>2, <1>3, <1>4, <1>5

(* From v to r the registers are counted by step and nothing else moves.   *)
Counted(v, r, dst, step) ==
    /\ Leaves(v, r)
    /\ r.pc = v.pc /\ r.sp = v.sp
    /\ dst \in {JSR, PCL} => Target(r, dst) = (Target(v, dst) + step) % PROGRAM_MEMORY_SIZE

(* The carry of one register into the two upper ones of a counter.         *)
LEMMA Ripple ==
    ASSUME NEW v \in VmState, NEW dst \in Nibble, NEW x \in Nibble,
           NEW w \in VmState, Leaves(Store(v, dst, x), w),
           w.mem = Store(v, dst, x).mem, w.pc = v.pc, w.sp = v.sp,
           NEW m \in Nibble, NEW h \in Nibble, NEW c \in BOOLEAN
    PROVE  LET r == IF c /\ dst \in {JSR, PCL} THEN Store(Store(w, PCM, m), PCH, h) ELSE w
           IN  /\ Leaves(v, r) /\ r.pc = v.pc /\ r.sp = v.sp
               /\ dst \in {JSR, PCL} =>
                     Target(r, dst) = 256 * (IF c THEN h ELSE v.mem[PCH])
                                        + 16 * (IF c THEN m ELSE v.mem[PCM]) + x
  <1>1. /\ dst \in Byte /\ dst # RD_FLAGS /\ dst # RANDOM
        /\ PCM \in Byte /\ PCM # RD_FLAGS /\ PCM # RANDOM
        /\ PCH \in Byte /\ PCH # RD_FLAGS /\ PCH # RANDOM
        /\ PCM # PCH /\ JSR # PCM /\ JSR # PCH /\ PCL # PCM /\ PCL # PCH
    BY DEF Nibble, Byte, RD_FLAGS, RANDOM, PCM, PCH, JSR, PCL
  <1>2. Leaves(v, w)
    BY <1>1, LeaveStore, LeaveChain
  <1>3. w.mem = [v.mem EXCEPT ![dst] = x] /\ v.mem \in [Byte -> Nibble]
    BY <1>1, StoreMem, FieldTypes
  <1> DEFINE p == Store(w, PCM, m)
             q == Store(p, PCH, h)
  <1>4. /\ Leaves(w, p) /\ p \in VmState /\ p.mem = [w.mem EXCEPT ![PCM] = m]
        /\ p.pc = w.pc /\ p.sp = w.sp
    <2>1. Leaves(w, p) BY <1>1, LeaveStore
    <2>2. p \in VmState BY <1>1, StoreType
    <2>3. p.mem = [w.mem EXCEPT ![PCM] = m] BY <1>1, StoreMem
    <2>4. p.pc = w.pc /\ p.sp = w.sp BY <1>1, StoreFields
    <2> QED BY <2>1, <2>2, <2>3, <2>4
  <1> HIDE DEF p
  <1>5. /\ Leaves(p, q) /\ q.mem = [p.mem EXCEPT ![PCH] = h]
        /\ q.pc = p.pc /\ q.sp = p.sp
    <2>1. Leaves(p, q) BY <1>1, <1>4, LeaveStore
    <2>2. q.mem = [p.mem EXCEPT ![PCH] = h] BY <1>1, <1>4, StoreMem
    <2>3. q.pc = p.pc /\ q.sp = p.sp BY <1>1, <1>4, StoreFields
    <2> QED BY <2>1, <2>2, <2>3
  <1> HIDE DEF q
  <1>6. CASE c /\ dst \in {JSR, PCL}
    <2>1. Leaves(v, q) /\ q.pc = v.pc /\ q.sp = v.sp
      <3>1. Leaves(v, p) BY <1>2, <1>4, LeaveChain
      <3> QED BY <1>4, <1>5, <3>1, LeaveChain
    <2>2. q.mem[PCH] = h /\ q.mem[PCM] = m /\ q.mem[dst] = x
      BY <1>1, <1>3, <1>4, <1>5, <1>6
    <2> QED BY <1>6, <2>1, <2>2 DEF Target, q, p
  <1>7. CASE ~(c /\ dst \in {JSR, PCL})
    <2>1. dst \in {JSR, PCL} =>
             /\ ~c /\ w.mem[PCH] = v.mem[PCH] /\ w.mem[PCM] = v.mem[PCM] /\ w.mem[dst] = x
      BY <1>1, <1>3, <1>7
    <2>2. dst \in {JSR, PCL} =>
             Target(w, dst) = 256 * (IF c THEN h ELSE v.mem[PCH])
                                + 16 * (IF c THEN m ELSE v.mem[PCM]) + x
      BY <2>1 DEF Target
    <2> QED BY <1>2, <1>7, <2>2
  <1> QED BY <1>6, <1>7

(* INC of a register: it counts, then control may follow.                  *)
LEMMA IncEffect ==
    ASSUME NEW v \in VmState, NEW dst \in Nibble
    PROVE  \E r : op_inc(v, dst) = maybe_call_or_jump(dst, r) /\ Counted(v, r, dst, 1)
  <1> DEFINE l      == v.mem[dst]
             result == UInt8(l + 1)
             s      == Store(v, dst, result % 16)
             w      == update_carry_flag(result, update_zero_flag(result, s))
             m      == w.mem[PCM] + 1
             h      == (w.mem[PCH] + m \div 16) % 16
             c      == Carry(w) = 1
             r      == IF c /\ dst \in {JSR, PCL}
                       THEN Store(Store(w, PCM, m % 16), PCH, h) ELSE w
  <1>1. /\ dst \in Byte /\ dst # RD_FLAGS /\ dst # RANDOM
        /\ PCM \in Byte /\ PCH \in Byte
        /\ (dst \in {JSR, PCL} => dst # PCM /\ dst # PCH)
    BY DEF Nibble, Byte, RD_FLAGS, RANDOM, PCM, PCH, JSR, PCL
  <1>2. /\ l \in Nibble /\ l + 1 \in Int
        /\ v.mem[PCM] \in Nibble /\ v.mem[PCH] \in Nibble
    <2>1. l \in Nibble /\ v.mem[PCM] \in Nibble /\ v.mem[PCH] \in Nibble BY <1>1, MemType
    <2> QED BY <2>1 DEF Nibble
  <1> HIDE DEF l
  <1>3. result % 16 \in Nibble /\ result \in Int
    BY <1>2, Masks DEF UInt8
  <1> HIDE DEF result
  <1>4. /\ s \in VmState /\ s.mem = [v.mem EXCEPT ![dst] = result % 16]
        /\ s.pc = v.pc /\ s.sp = v.sp
    <2>1. s \in VmState BY <1>1, <1>3, StoreType
    <2>2. s.mem = [v.mem EXCEPT ![dst] = result % 16] BY <1>1, <1>3, StoreMem
    <2>3. s.pc = v.pc /\ s.sp = v.sp BY <1>1, <1>3, StoreFields
    <2> QED BY <2>1, <2>2, <2>3
  <1> HIDE DEF s
  <1>5. /\ w \in VmState /\ Leaves(s, w)
        /\ w.mem = s.mem /\ w.pc = v.pc /\ w.sp = v.sp
        /\ c <=> (result \div 16) % 2 = 1
    <2>1. w \in VmState BY <1>4, FlagTypes
    <2>2. Leaves(s, w) BY <1>4, LeaveNothing, LeaveUpdates
    <2>3. w.mem = s.mem /\ w.pc = s.pc /\ w.sp = s.sp
      BY <1>4 DEF update_carry_flag, update_zero_flag, SetFlag, VmState
    <2>4. c <=> (result \div 16) % 2 = 1
      BY <1>4 DEF update_carry_flag, update_zero_flag, SetFlag, VmState, Carry
    <2> QED BY <1>4, <2>1, <2>2, <2>3, <2>4
  <1> HIDE DEF w, c
  <1>6. m % 16 \in Nibble /\ h \in Nibble
    <2>1. w.mem[PCM] \in Nibble /\ w.mem[PCH] \in Nibble BY <1>1, <1>5, MemType
    <2> QED BY <2>1 DEF Nibble
  <1> DEFINE C == (result \div 16) % 2 = 1
  <1>7. /\ Leaves(v, r) /\ r.pc = v.pc /\ r.sp = v.sp
        /\ dst \in {JSR, PCL} =>
              Target(r, dst) = 256 * (IF C THEN h ELSE v.mem[PCH])
                                 + 16 * (IF C THEN m % 16 ELSE v.mem[PCM]) + (result % 16)
    <2> HIDE DEF m, h, r
    <2>1. r = IF C /\ dst \in {JSR, PCL}
              THEN Store(Store(w, PCM, m % 16), PCH, h) ELSE w
      BY <1>5 DEF r
    <2> HIDE DEF C
    <2>2. C \in BOOLEAN BY DEF C
    <2> QED BY <1>3, <1>4, <1>5, <1>6, <2>1, <2>2, Ripple DEF s
  <1>8. dst \in {JSR, PCL} => Target(r, dst) = (Target(v, dst) + 1) % PROGRAM_MEMORY_SIZE
    <2> SUFFICES ASSUME dst \in {JSR, PCL}
                 PROVE  Target(r, dst) = (Target(v, dst) + 1) % PROGRAM_MEMORY_SIZE
      OBVIOUS
    <2>1. w.mem[PCM] = v.mem[PCM] /\ w.mem[PCH] = v.mem[PCH]
      <3>1. v.mem \in [Byte -> Nibble] BY FieldTypes
      <3> QED BY <1>1, <1>4, <1>5, <3>1
    <2>2. Target(v, dst) = 256 * v.mem[PCH] + 16 * v.mem[PCM] + l
      BY DEF Target, l
    <2> HIDE DEF r
    <2>3. Target(r, dst) = (256 * v.mem[PCH] + 16 * v.mem[PCM] + l + 1) % 4096
      BY <1>2, <1>7, <2>1, CountUp DEF result
    <2> QED BY <2>2, <2>3 DEF PROGRAM_MEMORY_SIZE
  <1>9. op_inc(v, dst) = maybe_call_or_jump(dst, r)
    BY DEF op_inc, r, h, m, c, w, s, result, l
  <1> QED BY <1>7, <1>8, <1>9 DEF Counted

(* DEC of a register.                                                      *)
LEMMA DecEffect ==
    ASSUME NEW v \in VmState, NEW dst \in Nibble
    PROVE  \E r : op_dec(v, dst) = maybe_call_or_jump(dst, r) /\ Counted(v, r, dst, -1)
  <1> DEFINE l      == v.mem[dst]
             result == UInt8(l - 1)
             s      == Store(v, dst, result % 16)
             w      == update_borrow_flag(result, update_zero_flag(result, s))
             m      == UInt8(w.mem[PCM] - 1)
             h      == (w.mem[PCH] - ((m \div 16) % 2)) % 16
             c      == Carry(w) = 0
             r      == IF c /\ dst \in {JSR, PCL}
                       THEN Store(Store(w, PCM, m % 16), PCH, h) ELSE w
  <1>1. /\ dst \in Byte /\ dst # RD_FLAGS /\ dst # RANDOM
        /\ PCM \in Byte /\ PCH \in Byte
        /\ (dst \in {JSR, PCL} => dst # PCM /\ dst # PCH)
    BY DEF Nibble, Byte, RD_FLAGS, RANDOM, PCM, PCH, JSR, PCL
  <1>2. /\ l \in Nibble /\ l - 1 \in Int
        /\ v.mem[PCM] \in Nibble /\ v.mem[PCH] \in Nibble
    <2>1. l \in Nibble /\ v.mem[PCM] \in Nibble /\ v.mem[PCH] \in Nibble BY <1>1, MemType
    <2> QED BY <2>1 DEF Nibble
  <1> HIDE DEF l
  <1>3. result % 16 \in Nibble /\ result \in Int
    BY <1>2, Masks DEF UInt8
  <1> HIDE DEF result
  <1>4. /\ s \in VmState /\ s.mem = [v.mem EXCEPT ![dst] = result % 16]
        /\ s.pc = v.pc /\ s.sp = v.sp
    <2>1. s \in VmState BY <1>1, <1>3, StoreType
    <2>2. s.mem = [v.mem EXCEPT ![dst] = result % 16] BY <1>1, <1>3, StoreMem
    <2>3. s.pc = v.pc /\ s.sp = v.sp BY <1>1, <1>3, StoreFields
    <2> QED BY <2>1, <2>2, <2>3
  <1> HIDE DEF s
  <1>5. /\ w \in VmState /\ Leaves(s, w)
        /\ w.mem = s.mem /\ w.pc = v.pc /\ w.sp = v.sp
        /\ c <=> ~((result \div 16) % 2 = 0)
    <2>1. w \in VmState BY <1>4, FlagTypes
    <2>2. Leaves(s, w) BY <1>4, LeaveNothing, LeaveUpdates
    <2>3. w.mem = s.mem /\ w.pc = s.pc /\ w.sp = s.sp
      BY <1>4 DEF update_borrow_flag, update_zero_flag, SetFlag, VmState
    <2>4. c <=> ~((result \div 16) % 2 = 0)
      BY <1>4 DEF update_borrow_flag, update_zero_flag, SetFlag, VmState, Carry
    <2> QED BY <1>4, <2>1, <2>2, <2>3, <2>4
  <1> HIDE DEF w, c
  <1>6. m % 16 \in Nibble /\ h \in Nibble
    <2>1. w.mem[PCM] \in Int /\ w.mem[PCH] \in Int
      <3>1. w.mem[PCM] \in Nibble /\ w.mem[PCH] \in Nibble BY <1>1, <1>5, MemType
      <3> QED BY <3>1 DEF Nibble
    <2>2. m \in Int BY <2>1 DEF UInt8
    <2> HIDE DEF m
    <2>3. w.mem[PCH] - ((m \div 16) % 2) \in Int BY <2>1, <2>2
    <2> QED BY <2>2, <2>3, Masks
  <1> DEFINE C == ~((result \div 16) % 2 = 0)
  <1>7. /\ Leaves(v, r) /\ r.pc = v.pc /\ r.sp = v.sp
        /\ dst \in {JSR, PCL} =>
              Target(r, dst) = 256 * (IF C THEN h ELSE v.mem[PCH])
                                 + 16 * (IF C THEN m % 16 ELSE v.mem[PCM]) + (result % 16)
    <2> HIDE DEF m, h, r
    <2>1. r = IF C /\ dst \in {JSR, PCL}
              THEN Store(Store(w, PCM, m % 16), PCH, h) ELSE w
      BY <1>5 DEF r
    <2> HIDE DEF C
    <2>2. C \in BOOLEAN BY DEF C
    <2> QED BY <1>3, <1>4, <1>5, <1>6, <2>1, <2>2, Ripple DEF s
  <1>8. dst \in {JSR, PCL} => Target(r, dst) = (Target(v, dst) - 1) % PROGRAM_MEMORY_SIZE
    <2> SUFFICES ASSUME dst \in {JSR, PCL}
                 PROVE  Target(r, dst) = (Target(v, dst) - 1) % PROGRAM_MEMORY_SIZE
      OBVIOUS
    <2>1. w.mem[PCM] = v.mem[PCM] /\ w.mem[PCH] = v.mem[PCH]
      <3>1. v.mem \in [Byte -> Nibble] BY FieldTypes
      <3> QED BY <1>1, <1>4, <1>5, <3>1
    <2>2. Target(v, dst) = 256 * v.mem[PCH] + 16 * v.mem[PCM] + l
      BY DEF Target, l
    <2> HIDE DEF r
    <2>3. Target(r, dst) = ((256 * v.mem[PCH] + 16 * v.mem[PCM] + l) - 1) % 4096
      BY <1>2, <1>7, <2>1, CountDown DEF result
    <2> QED BY <2>2, <2>3 DEF PROGRAM_MEMORY_SIZE
  <1>9. Target(v, dst) + (-1) = Target(v, dst) - 1 \/ dst \notin {JSR, PCL}
    <2>1. dst \in {JSR, PCL} => Target(v, dst) \in Int
      BY TargetType, AddrRange
    <2> QED BY <2>1
  <1>10. op_dec(v, dst) = maybe_call_or_jump(dst, r)
    BY DEF op_dec, r, h, m, c, w, s, result, l
  <1> HIDE DEF r
  <1> QED BY <1>7, <1>8, <1>9, <1>10 DEF Counted

-----------------------------------------------------------------------------
(* Operations on the devices.                                              *)

(* The overflow is shown in both places, and the sync is as it was.        *)
ShowsOverflow(v, w) ==
    /\ SameRandom(v, w)
    /\ Bit(w.mem[RD_FLAGS], USER_SYNC) = Bit(v.mem[RD_FLAGS], USER_SYNC)
    /\ "V" \in w.flags <=> Bit(w.mem[RD_FLAGS], V_FLAG) = 1

(* The generator and RANDOM move on together.                              *)
Moves(v, w) == w.mem[RANDOM] = seed_to_nibble(w.seed) /\ SameFlags(v, w)

(* R0 takes RD_FLAGS as it was; the overflow stays.                        *)
TakesFlags(v, w) ==
    /\ SameRandom(v, w)
    /\ w.mem[R0] = v.mem[RD_FLAGS]
    /\ "V" \in w.flags <=> "V" \in v.flags
    /\ Bit(w.mem[RD_FLAGS], V_FLAG) = Bit(v.mem[RD_FLAGS], V_FLAG)

(* The update of V changes both its copies.                                *)
LEMMA OverflowShown ==
    ASSUME NEW v \in VmState, NEW s
    PROVE  ShowsOverflow(v, update_overflow_flag(s, v))
  <1> DEFINE n == v.mem[RD_FLAGS]
  <1>1. n \in Nibble /\ v.mem \in [Byte -> Nibble] /\ RD_FLAGS \in Byte /\ RANDOM \in Byte
    BY MemType, FieldTypes, Addresses
  <1>2. RANDOM # RD_FLAGS
    BY DEF RANDOM, RD_FLAGS
  <1>3. /\ Bit(WithBit(n, V_FLAG), V_FLAG) = 1 /\ Bit(WithoutBit(n, V_FLAG), V_FLAG) = 0
        /\ Bit(WithBit(n, V_FLAG), USER_SYNC) = Bit(n, USER_SYNC)
        /\ Bit(WithoutBit(n, V_FLAG), USER_SYNC) = Bit(n, USER_SYNC)
    BY <1>1, TwoBits DEF V_FLAG, USER_SYNC
  <1>4. ASSUME NEW up \in BOOLEAN, NEW x
        PROVE  LET w == Store(SetFlag(v, "V", up), RD_FLAGS, x)
               IN  /\ SameRandom(v, w) /\ w.mem[RD_FLAGS] = x
                   /\ "V" \in w.flags <=> up
    <2> DEFINE f == SetFlag(v, "V", up)
               w == Store(f, RD_FLAGS, x)
    <2>1. f.mem = v.mem /\ f.seed = v.seed /\ ("V" \in f.flags <=> up)
      BY DEF SetFlag, VmState
    <2>2. f \in VmState
      BY SetFlagType DEF Flag
    <2> HIDE DEF f
    <2>3. w.mem = [v.mem EXCEPT ![RD_FLAGS] = x] /\ w.seed = v.seed /\ w.flags = f.flags
      BY <2>1, <2>2 DEF Store, VmState
    <2>4. w.mem[RD_FLAGS] = x /\ w.mem[RANDOM] = v.mem[RANDOM]
      BY <1>1, <1>2, <2>3
    <2>5. "V" \in w.flags <=> up
      BY <2>1, <2>3
    <2>6. SameRandom(v, w)
      BY <2>3, <2>4 DEF SameRandom
    <2> HIDE DEF w
    <2>7. SameRandom(v, w) /\ w.mem[RD_FLAGS] = x /\ ("V" \in w.flags <=> up)
      BY <2>4, <2>5, <2>6
    <2> QED BY <2>7 DEF w, f
  <1>5. \A up \in BOOLEAN : SetFlag(v, "V", up).mem[RD_FLAGS] = n
    BY DEF SetFlag, VmState
  <1>6. CASE s < -8 \/ s > 7
    <2>1. update_overflow_flag(s, v)
            = Store(SetFlag(v, "V", TRUE), RD_FLAGS, WithBit(n, V_FLAG))
      BY <1>5, <1>6 DEF update_overflow_flag, SetBit
    <2> DEFINE w == update_overflow_flag(s, v)
    <2>2. /\ SameRandom(v, w) /\ w.mem[RD_FLAGS] = WithBit(n, V_FLAG)
          /\ "V" \in w.flags
      BY <1>4, <2>1
    <2> HIDE DEF w
    <2>3. ShowsOverflow(v, w)
      BY <1>3, <2>2 DEF ShowsOverflow
    <2> QED BY <2>3 DEF w
  <1>7. CASE ~(s < -8 \/ s > 7)
    <2>1. update_overflow_flag(s, v)
            = Store(SetFlag(v, "V", FALSE), RD_FLAGS, WithoutBit(n, V_FLAG))
      BY <1>5, <1>7 DEF update_overflow_flag, ClearBit
    <2> DEFINE w == update_overflow_flag(s, v)
    <2>2. /\ SameRandom(v, w) /\ w.mem[RD_FLAGS] = WithoutBit(n, V_FLAG)
          /\ "V" \notin w.flags
      BY <1>4, <2>1
    <2> HIDE DEF w
    <2>3. ShowsOverflow(v, w)
      BY <1>3, <2>2 DEF ShowsOverflow
    <2> QED BY <2>3 DEF w
  <1> QED BY <1>6, <1>7

(* ADD, ADC, SUB and SBB of a register, and CP.                            *)
LEMMA ArithmeticShown ==
    ASSUME NEW v \in VmState, NEW dst \in Nibble, NEW src \in Nibble
    PROVE  /\ ShowsOverflow(v, op_add(v, dst, src)) /\ ShowsOverflow(v, op_adc(v, dst, src))
           /\ ShowsOverflow(v, op_sub(v, dst, src)) /\ ShowsOverflow(v, op_sbb(v, dst, src))
           /\ ShowsOverflow(v, op_cp(v, dst, src))
  <1>1. dst \in Byte /\ dst # RD_FLAGS /\ dst # RANDOM /\ v.mem[dst] \in Nibble
    <2>1. dst \in Byte /\ dst # RD_FLAGS /\ dst # RANDOM
      BY DEF Nibble, Byte, RD_FLAGS, RANDOM
    <2> QED BY <2>1, MemType
  <1>2. \A x \in Int : Leaves(v, Store(v, dst, UInt8(x) % 16))
    <2>1. \A x \in Int : UInt8(x) % 16 \in Nibble BY DEF UInt8, Nibble
    <2> QED BY <1>1, <2>1, LeaveStore
  <1>3. \A c : \A s : Leaves(v, c) => ShowsOverflow(v, update_overflow_flag(s, c))
    <2> SUFFICES ASSUME NEW c, NEW s, Leaves(v, c)
                 PROVE  ShowsOverflow(v, update_overflow_flag(s, c))
      OBVIOUS
    <2>1. ShowsOverflow(c, update_overflow_flag(s, c)) BY OverflowShown DEF Leaves
    <2> QED BY <2>1 DEF ShowsOverflow, Leaves, SameRandom, SameFlags
  <1>4. \A w : \A r, s : Leaves(v, w) =>
           /\ ShowsOverflow(v, update_overflow_flag(s,
                                 update_carry_flag(r, update_zero_flag(r, w))))
           /\ ShowsOverflow(v, update_overflow_flag(s,
                                 update_borrow_flag(r, update_zero_flag(r, w))))
    BY <1>3, LeaveUpdates
  <1>5. /\ v.mem[dst] + src \in Int /\ v.mem[dst] + src + Carry(v) \in Int
        /\ v.mem[dst] - src \in Int /\ v.mem[dst] - src - (1 - Carry(v)) \in Int
    <2>1. \A x, y, c \in Int : /\ x + y \in Int /\ x + y + c \in Int
                              /\ x - y \in Int /\ x - y - (1 - c) \in Int
      OBVIOUS
    <2>2. v.mem[dst] \in Int /\ src \in Int /\ Carry(v) \in Int
      BY <1>1 DEF Nibble, Carry
    <2> QED BY ONLY <2>1, <2>2
  <1>6. ShowsOverflow(v, op_add(v, dst, src)) BY <1>2, <1>4, <1>5 DEF op_add
  <1>7. ShowsOverflow(v, op_adc(v, dst, src)) BY <1>2, <1>4, <1>5 DEF op_adc
  <1>8. ShowsOverflow(v, op_sub(v, dst, src)) BY <1>2, <1>4, <1>5 DEF op_sub
  <1>9. ShowsOverflow(v, op_sbb(v, dst, src)) BY <1>2, <1>4, <1>5 DEF op_sbb
  <1>10. ShowsOverflow(v, op_cp(v, dst, src)) BY <1>4, LeaveNothing DEF op_cp
  <1> QED BY <1>6, <1>7, <1>8, <1>9, <1>10

(* A store by the program to either device separates it from its copy at   *)
(* most, and never touches the other.                                      *)
LEMMA StoreShown ==
    ASSUME NEW v \in VmState, NEW x
    PROVE  /\ SameRandom(v, Store(v, RD_FLAGS, x))
           /\ SameFlags(v, Store(v, RANDOM, x))
  <1>1. RANDOM # RD_FLAGS /\ RANDOM \in Byte /\ RD_FLAGS \in Byte
    BY Addresses DEF RANDOM, RD_FLAGS
  <1>2. v.mem \in [Byte -> Nibble]
    BY FieldTypes
  <1>3. \A a : Store(v, a, x).mem = [v.mem EXCEPT ![a] = x]
               /\ Store(v, a, x).seed = v.seed /\ Store(v, a, x).flags = v.flags
    BY DEF Store, VmState
  <1> QED BY <1>1, <1>2, <1>3 DEF SameRandom, SameFlags

(* A new seed, with RANDOM showing it.                                     *)
LEMMA SeedMoves ==
    ASSUME NEW v \in VmState, NEW s \in Seed
    PROVE  Moves(v, [Store(v, RANDOM, seed_to_nibble(s)) EXCEPT !.seed = s])
  <1> DEFINE x == seed_to_nibble(s)
             u == Store(v, RANDOM, x)
             w == [u EXCEPT !.seed = s]
  <1>1. SameFlags(v, u)
    BY StoreShown
  <1>2. u \in VmState /\ u.mem[RANDOM] = x
    <2>1. x \in Nibble BY SeedTypes
    <2> HIDE DEF x
    <2>2. u \in VmState BY <2>1, StoreType, Addresses
    <2>3. u.mem = [v.mem EXCEPT ![RANDOM] = x] /\ v.mem \in [Byte -> Nibble]
      BY <2>1, StoreMem, FieldTypes, Addresses
    <2> QED BY <2>2, <2>3, Addresses
  <1> HIDE DEF u
  <1>3. w.mem = u.mem /\ w.flags = u.flags /\ w.seed = s
    BY <1>2 DEF VmState
  <1> HIDE DEF w
  <1>4. Moves(v, w)
    BY <1>1, <1>2, <1>3 DEF Moves, SameFlags
  <1> QED BY <1>4 DEF w, u, x

(* MOV [NN],R0.                                                            *)
LEMMA MovToShown ==
    ASSUME NEW v \in VmState, NEW a \in Byte, NEW fresh \in Seed
    PROVE  LET w == op_mov_to(v, a, fresh)
           IN  IF a = RANDOM THEN Moves(v, w)
               ELSE IF a = RD_FLAGS THEN SameRandom(v, w) ELSE Leaves(v, w)
  <1>1. v.mem[R0] \in Nibble
    BY MemType, Addresses
  <1>2. CASE a = RANDOM
    <2>1. set_rng_seed(v.mem[R0], fresh) \in Seed
      <3>1. \A n \in Nibble : seed_from_nibble(n) \in Seed
        BY DEF seed_from_nibble, Seed, Nibble, Byte
      <3> QED BY <1>1, <3>1 DEF set_rng_seed
    <2>2. is_sfr_address(a) BY <1>2 DEF is_sfr_address, RANDOM, PAGE
    <2> QED BY <1>2, <2>1, <2>2, SeedMoves DEF op_mov_to, sfr_write
  <1>3. CASE a # RANDOM
    <2>1. op_mov_to(v, a, fresh) = Store(v, a, v.mem[R0])
      BY <1>3 DEF op_mov_to, sfr_write
    <2> QED BY <1>1, <1>3, <2>1, StoreShown, LeaveStore
  <1> QED BY <1>2, <1>3

(* MOV [XY],R0, which knows no special function registers.                 *)
LEMMA MovShown ==
    ASSUME NEW v \in VmState, NEW a \in Byte, NEW x \in Nibble
    PROVE  IF a = RANDOM THEN SameFlags(v, op_mov(v, a, x))
           ELSE IF a = RD_FLAGS THEN SameRandom(v, op_mov(v, a, x))
           ELSE Leaves(v, op_mov(v, a, x))
  BY StoreShown, LeaveStore DEF op_mov

(* MOV R0,[NN].                                                            *)
LEMMA MovFromShown ==
    ASSUME NEW v \in VmState, NEW a \in Byte
    PROVE  LET w == op_mov_from(v, a)
           IN  IF a = RANDOM THEN Moves(v, w)
               ELSE IF a = RD_FLAGS THEN TakesFlags(v, w) ELSE Leaves(v, w)
  <1> DEFINE n == v.mem[a]
             r == Store(v, R0, n)
             w == op_mov_from(v, a)
  <1>1. /\ R0 \in Byte /\ R0 # RD_FLAGS /\ R0 # RANDOM /\ RD_FLAGS # RANDOM
        /\ RD_FLAGS \in Byte /\ RANDOM \in Byte
    BY DEF R0, RD_FLAGS, RANDOM, Byte
  <1>2. Leaves(v, r) /\ r \in VmState /\ r.mem[R0] = n
    <2>1. n \in Nibble BY MemType
    <2>2. r.mem = [v.mem EXCEPT ![R0] = n] /\ v.mem \in [Byte -> Nibble]
      BY <1>1, <2>1, StoreMem, FieldTypes
    <2> QED BY <1>1, <2>1, <2>2, LeaveStore, StoreType
  <1>3. CASE a = RANDOM
    <2> DEFINE s == next_seed(v.seed)
    <2>1. s \in Seed BY FieldTypes, SeedTypes
    <2>2. w = [Store(r, RANDOM, seed_to_nibble(s)) EXCEPT !.seed = s]
      BY <1>3 DEF op_mov_from, sfr_read, is_sfr_address, RANDOM, PAGE, RD_FLAGS, KEY_STATUS
    <2> HIDE DEF r, s, w
    <2>3. Moves(r, w) BY <1>2, <2>1, <2>2, SeedMoves
    <2>4. Moves(v, w) BY <1>2, <2>3 DEF Moves, Leaves, SameFlags
    <2> QED BY <1>3, <2>4 DEF w
  <1>4. CASE a = RD_FLAGS
    <2>1. w = ClearBit(r, RD_FLAGS, USER_SYNC)
      BY <1>4 DEF op_mov_from, sfr_read, is_sfr_address, RANDOM, PAGE, RD_FLAGS, KEY_STATUS
    <2> HIDE DEF r, w
    <2>2. r.mem[RD_FLAGS] = n BY <1>2, <1>4 DEF Leaves, SameFlags, n
    <2> DEFINE x == WithoutBit(n, USER_SYNC)
    <2>3. n \in Nibble BY MemType
    <2> HIDE DEF n
    <2>4. w = Store(r, RD_FLAGS, x)
      BY <2>1, <2>2 DEF ClearBit
    <2>5. x \in Nibble /\ Bit(x, V_FLAG) = Bit(n, V_FLAG)
      BY <2>3, OneBit, TwoBits DEF USER_SYNC, V_FLAG
    <2> HIDE DEF x
    <2>6. w.mem = [r.mem EXCEPT ![RD_FLAGS] = x] /\ r.mem \in [Byte -> Nibble]
      BY <1>1, <1>2, <2>4, <2>5, StoreMem, FieldTypes
    <2>7. w.flags = r.flags
      BY <1>1, <1>2, <2>4, <2>5, StoreFields
    <2>8. SameRandom(r, w)
      BY <1>2, <2>4, StoreShown
    <2>9. w.mem[RD_FLAGS] = x /\ w.mem[R0] = n
      BY <1>1, <1>2, <2>6
    <2>10. TakesFlags(v, w)
      BY <1>2, <1>4, <2>5, <2>7, <2>8, <2>9 DEF TakesFlags, Leaves, SameRandom, SameFlags, n
    <2> QED BY <1>1, <1>4, <2>10 DEF w
  <1>5. CASE a # RANDOM /\ a # RD_FLAGS
    <2>1. w \in {r, ClearBit(r, a, JUST_PRESS)}
      BY <1>5 DEF op_mov_from, sfr_read
    <2> HIDE DEF r, w
    <2>2. Leaves(r, ClearBit(r, a, JUST_PRESS))
      BY <1>2, <1>5, LeaveBit, Addresses
    <2>3. Leaves(v, w) BY <1>2, <2>1, <2>2, LeaveChain
    <2> QED BY <1>5, <2>3 DEF w
  <1> QED BY <1>3, <1>4, <1>5

-----------------------------------------------------------------------------
(* A whole cycle.                                                          *)

(* Until the fetch the sync can only come up.                              *)
Samples(v, w) ==
    /\ SameRandom(v, w)
    /\ w.flags = v.flags
    /\ Bit(w.mem[RD_FLAGS], V_FLAG) = Bit(v.mem[RD_FLAGS], V_FLAG)
    /\ Bit(v.mem[RD_FLAGS], USER_SYNC) = 1 => Bit(w.mem[RD_FLAGS], USER_SYNC) = 1

LEMMA SampledShown ==
    ASSUME vm \in VmState, NEW sync
    PROVE  Samples(vm, Sampled(sync))
  <1> DEFINE n == vm.mem[RD_FLAGS]
             u == vm_update_user_sync(vm, sync)
             b == IF Bit(u.mem[WR_FLAGS], IN_OUT_POS) = 1 THEN IN_B ELSE IN_
  <1>1. RANDOM # RD_FLAGS /\ RANDOM \in Byte /\ RD_FLAGS \in Byte
    BY Addresses DEF RANDOM, RD_FLAGS
  <1>2. b \in Byte /\ b # RD_FLAGS /\ b # RANDOM /\ 15 \in Nibble
    BY DEF IN_B, IN_, RD_FLAGS, RANDOM, Byte, Nibble
  <1>3. n \in Nibble /\ vm.mem \in [Byte -> Nibble]
    BY <1>1, MemType, FieldTypes
  <1>4. Samples(vm, u) /\ u \in VmState
    <2>1. CASE ~sync
      BY <2>1 DEF vm_update_user_sync, Samples, SameRandom
    <2>2. CASE sync
      <3> DEFINE x == WithBit(n, USER_SYNC)
      <3>1. x \in Nibble /\ Bit(x, V_FLAG) = Bit(n, V_FLAG) /\ Bit(x, USER_SYNC) = 1
        BY <1>3, OneBit, TwoBits DEF USER_SYNC, V_FLAG
      <3>2. u = Store(vm, RD_FLAGS, x)
        BY <2>2 DEF vm_update_user_sync, SetBit
      <3> HIDE DEF x, u
      <3>3. u.mem = [vm.mem EXCEPT ![RD_FLAGS] = x] /\ u.flags = vm.flags /\ u \in VmState
        <4>1. u.mem = [vm.mem EXCEPT ![RD_FLAGS] = x] BY <1>1, <3>1, <3>2, StoreMem
        <4>2. u.flags = vm.flags /\ u \in VmState BY <1>1, <3>1, <3>2, StoreFields, StoreType
        <4> QED BY <4>1, <4>2
      <3>4. u.mem[RD_FLAGS] = x BY <1>1, <1>3, <3>3
      <3>5. SameRandom(vm, u) BY <3>2, StoreShown
      <3> QED BY <3>1, <3>3, <3>4, <3>5 DEF Samples
    <2> QED BY <2>1, <2>2
  <1>5. Sampled(sync) = Store(u, b, 15)
    BY DEF Sampled, vm_update_in_reg
  <1> HIDE DEF b, u
  <1>6. Leaves(u, Store(u, b, 15)) /\ Store(u, b, 15).flags = u.flags
    BY <1>2, <1>4, LeaveStore, StoreFields
  <1> QED BY <1>4, <1>5, <1>6 DEF Samples, Leaves, SameRandom, SameFlags

(* The fetch itself changes the counter only.                              *)
LEMMA FetchedShown ==
    ASSUME vm \in VmState, vm.pc \in Addr, NEW sync
    PROVE  Samples(vm, Fetched(sync))
  <1> DEFINE s == Sampled(sync)
             f == Fetched(sync)
  <1>1. s \in VmState /\ Samples(vm, s)
    BY SampledType, SampledShown
  <1>2. f = [s EXCEPT !.pc = NextAddr(@)]
    BY DEF Fetched
  <1> HIDE DEF s
  <1>3. f.mem = s.mem /\ f.flags = s.flags /\ f.seed = s.seed
    BY <1>1, <1>2 DEF VmState
  <1> QED BY <1>1, <1>3 DEF Samples, SameRandom

(* What a cycle may do to the devices after its fetch.                     *)
DeviceEffects(v) ==
    \/ Leaves(v, vm')
    \/ ShowsOverflow(v, vm')
    \/ StoresTo(RD_FLAGS) /\ SameRandom(v, vm')
    \/ Narrow(10) /\ StoresTo(RANDOM) /\ SameFlags(v, vm')
    \/ Moves(v, vm')
    \/ ReadsDirectly(RD_FLAGS) /\ TakesFlags(v, vm')

(* Every operation has one of these effects.                               *)
LEMMA CycleDevices ==
    ASSUME TypeOK, NEW sync \in Syncs, Cycle(sync), vm.pc \in Addr
    PROVE  DeviceEffects(Fetched(sync))
  <1> DEFINE v == Fetched(sync)
  <1>0. prg \in Programs /\ vm \in VmState
    BY DEF TypeOK
  <1>1. v \in VmState /\ v.pc \in Addr /\ Instr \in Word
    BY <1>0, FetchedType, InstrType
  <1>2. \A r \in Nibble : v.mem[r] = Sampled(FALSE).mem[r]
    BY <1>0, FetchedEffect
  <1> HIDE DEF v
  <1> SUFFICES DeviceEffects(v)
    BY DEF v
  <1>3. /\ get_addr_rx(Instr) \in Nibble /\ get_addr_ry(Instr) \in Nibble
        /\ get_addr_rg_in(v, Instr) \in Byte /\ get_addr_rg_out(v, Instr) \in Byte
        /\ get_addr_pointer(Instr) \in Byte /\ get_addr_indirect(v, Instr) \in Byte
        /\ get_val_ry(v, Instr) \in Nibble /\ get_val_r0(v) \in Nibble
        /\ get_val_indirect(v, Instr) \in Nibble /\ get_val_literal(Instr) \in Nibble
        /\ get_val_byte_literal(Instr) \in Byte /\ get_val_crumb_literal(Instr) \in 0..3
        /\ R0 \in Nibble
    BY <1>1, OperandTypes, Addresses
  <1>4. \A d \in {get_addr_rg_in(v, Instr), get_addr_rg_out(v, Instr)} :
           d # RD_FLAGS /\ d # RANDOM
    <2>1. Instr.nibble3 \in Nibble BY <1>1 DEF Word
    <2> QED BY <2>1 DEF get_addr_rg_in, get_addr_rg_out, OUT, OUT_B, IN_, IN_B, RD_FLAGS,
               RANDOM, Nibble
  <1>5. \A w : Leaves(v, w) /\ vm' = w => DeviceEffects(v)
    BY DEF DeviceEffects
  <1>6. \A w : ShowsOverflow(v, w) /\ vm' = w => DeviceEffects(v)
    BY DEF DeviceEffects
  <1>7. \A dst \in Nibble : Leaves(v, op_inc(v, dst)) /\ Leaves(v, op_dec(v, dst))
    <2> SUFFICES ASSUME NEW dst \in Nibble
                 PROVE  Leaves(v, op_inc(v, dst)) /\ Leaves(v, op_dec(v, dst))
      OBVIOUS
    <2>1. \A r, k : Counted(v, r, dst, k) => Leaves(v, maybe_call_or_jump(dst, r))
      BY <1>1, LeaveCallOrJump DEF Counted
    <2> QED BY <1>1, <2>1, IncEffect, DecEffect
  <1> USE <1>1, <1>3
  <1>10. CASE Add(sync) BY <1>6, <1>10, ArithmeticShown DEF Add, v, Becomes
  <1>11. CASE Adc(sync) BY <1>6, <1>11, ArithmeticShown DEF Adc, v, Becomes
  <1>12. CASE Sub(sync) BY <1>6, <1>12, ArithmeticShown DEF Sub, v, Becomes
  <1>13. CASE Sbb(sync) BY <1>6, <1>13, ArithmeticShown DEF Sbb, v, Becomes
  <1>14. CASE Or(sync)  BY <1>5, <1>14, LeaveLogic DEF Or, v, Becomes
  <1>15. CASE And(sync) BY <1>5, <1>15, LeaveLogic DEF And, v, Becomes
  <1>16. CASE Xor(sync) BY <1>5, <1>16, LeaveLogic DEF Xor, v, Becomes
  <1>17. CASE Mov(sync)
    <2>0. \A d \in Nibble : d \in Byte /\ d # RD_FLAGS /\ d # RANDOM
      BY DEF Nibble, Byte, RD_FLAGS, RANDOM
    <2>j. \A r, src \in Nibble : Leaves(v, op_mov_jump(v, r, src))
      <3> SUFFICES ASSUME NEW r \in Nibble, NEW src \in Nibble
                   PROVE  Leaves(v, maybe_call_or_jump(r, Store(v, r, src)))
        BY DEF op_mov_jump
      <3>1. Leaves(v, Store(v, r, src)) /\ Store(v, r, src).pc = v.pc
        BY <2>0, LeaveStore, StoreFields
      <3> QED BY <3>1, LeaveCallOrJump
    <2>1. CASE Narrow(8) /\ Becomes(op_mov_jump(v, get_addr_rx(Instr), get_val_ry(v, Instr)))
      BY <1>5, <2>1, <2>j DEF Becomes
    <2>2. CASE Narrow(9) /\ Becomes(op_mov_jump(v, get_addr_rx(Instr), get_val_literal(Instr)))
      BY <1>5, <2>2, <2>j DEF Becomes
    <2>3. CASE Narrow(10) /\ Becomes(op_mov(v, get_addr_indirect(v, Instr), get_val_r0(v)))
      <3> DEFINE a == get_addr_indirect(v, Instr)
      <3>1. a = get_addr_indirect(Sampled(FALSE), Instr)
        BY <1>2 DEF get_addr_indirect, Word
      <3>2. StoresTo(a) /\ Narrow(10) BY <2>3, <3>1 DEF StoresTo
      <3>3. vm' = op_mov(v, a, get_val_r0(v)) /\ a \in Byte BY <2>3 DEF Becomes
      <3> HIDE DEF a
      <3> QED BY MovShown, <3>2, <3>3 DEF DeviceEffects
    <2>4. CASE Narrow(11) /\ Becomes(op_mov(v, R0, get_val_indirect(v, Instr)))
      BY <1>5, <2>0, <2>4, LeaveStore DEF Becomes, op_mov
    <2>5. ASSUME NEW fresh \in RandomSeeds, Narrow(12),
                 Becomes(op_mov_to(v, get_addr_pointer(Instr), fresh))
          PROVE  DeviceEffects(v)
      <3> DEFINE a == get_addr_pointer(Instr)
      <3>1. StoresTo(a) BY <2>5 DEF StoresTo
      <3>2. vm' = op_mov_to(v, a, fresh) /\ a \in Byte BY <2>5 DEF Becomes
      <3> HIDE DEF a
      <3>3. fresh \in Seed BY EnvironmentAssumption
      <3> QED BY MovToShown, <3>1, <3>2, <3>3 DEF DeviceEffects
    <2>6. CASE Narrow(13) /\ Becomes(op_mov_from(v, get_addr_pointer(Instr)))
      <3> DEFINE a == get_addr_pointer(Instr)
      <3>1. ReadsDirectly(a) BY <2>6 DEF ReadsDirectly
      <3>2. a \in Byte /\ vm' = op_mov_from(v, a) BY <2>6 DEF Becomes
      <3> HIDE DEF a
      <3> QED BY MovFromShown, <3>1, <3>2 DEF DeviceEffects
    <2>7. CASE Narrow(14) /\ Becomes(op_mov_byte(v, PCM, get_val_byte_literal(Instr)))
      BY <1>5, <2>7, LeaveMovByte DEF Becomes
    <2> QED BY <1>17, <2>1, <2>2, <2>3, <2>4, <2>5, <2>6, <2>7 DEF Mov, v
  <1>18. CASE Jr(sync)  BY <1>5, <1>18, LeaveSkip DEF Jr, v, Becomes
  <1>19. CASE Cp(sync)  BY <1>6, <1>19, ArithmeticShown DEF Cp, v, Becomes
  <1>20. CASE Inc(sync) BY <1>5, <1>7, <1>20 DEF Inc, v, Becomes
  <1>21. CASE Dec(sync) BY <1>5, <1>7, <1>21 DEF Dec, v, Becomes
  <1>22. CASE Dsz(sync) BY <1>5, <1>22, LeaveSkip DEF Dsz, v, Becomes
  <1>23. CASE Exr(sync) BY <1>5, <1>23, LeaveExchange DEF Exr, v, Becomes
  <1>24. CASE BitTest(sync) BY <1>4, <1>5, <1>24, LeaveBits DEF BitTest, v, Becomes
  <1>25. CASE Bset(sync) BY <1>4, <1>5, <1>25, LeaveBits DEF Bset, v, Becomes
  <1>26. CASE Bclr(sync) BY <1>4, <1>5, <1>26, LeaveBits DEF Bclr, v, Becomes
  <1>27. CASE Btg(sync)  BY <1>4, <1>5, <1>27, LeaveBits DEF Btg, v, Becomes
  <1>28. CASE Rrc(sync)  BY <1>5, <1>28, LeaveLogic DEF Rrc, v, Becomes
  <1>29. CASE Ret(sync)  BY <1>5, <1>29, LeaveReturn DEF Ret, v, Becomes
  <1>30. CASE SkipIf(sync) BY <1>5, <1>30, LeaveSkip DEF SkipIf, v, Becomes
  <1>31. ~AssertFails(sync)
    BY DEF AssertFails
  <1> QED
    BY <1>10, <1>11, <1>12, <1>13, <1>14, <1>15, <1>16, <1>17, <1>18, <1>19, <1>20, <1>21,
       <1>22, <1>23, <1>24, <1>25, <1>26, <1>27, <1>28, <1>29, <1>30, <1>31 DEF Cycle, v

(* The user reaches neither device.                                        *)
LEMMA KeyDevices ==
    ASSUME TypeOK,
           (\E k \in Keys : KeyPress(k)) \/ KeyRelease \/ (\E d \in PageMoves : MovePage(d))
    PROVE  Leaves(vm, vm')
  <1>0. vm \in VmState
    BY DEF TypeOK
  <1>1. \A a \in {KEY_STATUS, KEY_REG, PAGE} : a \in Byte /\ a # RD_FLAGS /\ a # RANDOM
    BY DEF KEY_STATUS, KEY_REG, PAGE, RD_FLAGS, RANDOM, Byte
  <1>2. ASSUME NEW k \in Keys, KeyPress(k) PROVE Leaves(vm, vm')
    <2>1. 7 \in Nibble /\ k \in Nibble BY EnvironmentAssumption DEF Nibble
    <2> DEFINE u == Store(vm, KEY_STATUS, 7)
    <2>2. Leaves(vm, u) BY <1>0, <1>1, <2>1, LeaveStore
    <2>3. vm' = Store(u, KEY_REG, k) BY <1>2 DEF KeyPress, Becomes
    <2> HIDE DEF u
    <2>4. Leaves(u, vm') BY <1>1, <2>1, <2>2, <2>3, LeaveStore DEF Leaves
    <2> QED BY <2>2, <2>4, LeaveChain
  <1>3. CASE KeyRelease
    <2> DEFINE u == ClearBit(vm, KEY_STATUS, LAST_PRESS)
    <2>1. Leaves(vm, u) BY <1>0, <1>1, LeaveBit, Addresses
    <2>2. vm' = ClearBit(u, KEY_STATUS, ANY_PRESS) BY <1>3 DEF KeyRelease, Becomes
    <2> HIDE DEF u
    <2>3. Leaves(u, vm') BY <1>1, <2>1, <2>2, LeaveBit, Addresses DEF Leaves
    <2> QED BY <2>1, <2>3, LeaveChain
  <1>4. ASSUME NEW d \in PageMoves, MovePage(d) PROVE Leaves(vm, vm')
    <2>1. (vm.mem[PAGE] + d) % 16 \in Nibble
      <3>1. vm.mem[PAGE] \in Nibble /\ d \in Int
        BY <1>0, MemType, Addresses, EnvironmentAssumption
      <3>2. vm.mem[PAGE] + d \in Int BY <3>1 DEF Nibble
      <3> QED BY <3>2, Masks
    <2> QED BY <1>0, <1>1, <1>4, <2>1, LeaveStore DEF MovePage, Becomes
  <1> QED BY <1>2, <1>3, <1>4

(* A failed assertion comes after the sync timer and the input port.       *)
LEMMA AssertDevices ==
    ASSUME TypeOK, NEW sync, AssertFails(sync)
    PROVE  Samples(vm, vm')
  <1> DEFINE s == Sampled(sync)
  <1>1. s \in VmState /\ Samples(vm, s)
    BY SampledType, SampledShown DEF TypeOK
  <1>2. vm' = [s EXCEPT !.exit = "assert"]
    BY DEF AssertFails, Becomes
  <1> HIDE DEF s
  <1>3. vm'.mem = s.mem /\ vm'.flags = s.flags /\ vm'.seed = s.seed
    BY <1>1, <1>2 DEF VmState
  <1> QED BY <1>1, <1>3 DEF Samples, SameRandom

(* A step of the machine: a cycle in which the fetch succeeds, one in      *)
(* which it does not, or none.                                             *)
LEMMA StepDevices ==
    ASSUME TypeOK, [Next]_vars
    PROVE  \/ \E v \in VmState : Samples(vm, v) /\ DeviceEffects(v)
           \/ Samples(vm, vm')
           \/ Leaves(vm, vm')
  <1>0. vm \in VmState
    BY DEF TypeOK
  <1>1. ASSUME NEW sync \in Syncs, Cycle(sync), vm.pc \in Addr
        PROVE  \E v \in VmState : Samples(vm, v) /\ DeviceEffects(v)
    BY <1>0, <1>1, CycleDevices, FetchedShown, FetchedType
  <1>2. ASSUME NEW sync \in Syncs, AssertFails(sync)
        PROVE  Samples(vm, vm')
    BY <1>2, AssertDevices
  <1>3. CASE (\E k \in Keys : KeyPress(k)) \/ KeyRelease \/ (\E d \in PageMoves : MovePage(d))
    BY <1>3, KeyDevices
  <1>4. CASE UNCHANGED vars
    <2>1. vm' = vm BY <1>4 DEF vars
    <2> QED BY <1>0, <2>1, LeaveNothing
  <1> QED BY <1>1, <1>2, <1>3, <1>4, CycleGuard DEF Next

-----------------------------------------------------------------------------
(* The overflow flag, the sync and the generator.                          *)

(* Every step respects OverflowMirrored.                                   *)
LEMMA MirroredStep ==
    ASSUME TypeOK, [Next]_vars, Mirrored
    PROVE  Mirrored' \/ StoresTo(RD_FLAGS)
  <1>1. CASE Leaves(vm, vm') \/ Samples(vm, vm')
    BY <1>1 DEF Mirrored, Leaves, SameFlags, Samples
  <1>2. ASSUME NEW v, Samples(vm, v), DeviceEffects(v)
        PROVE  Mirrored' \/ StoresTo(RD_FLAGS)
    BY <1>2 DEF Mirrored, Samples, DeviceEffects, Leaves, SameFlags, ShowsOverflow, Moves,
       TakesFlags
  <1> QED BY <1>1, <1>2, StepDevices

(* Whatever the program: the two copies of the overflow flag agree after   *)
(* every step that starts with them agreeing, unless the program itself    *)
(* stores to RD_FLAGS.                                                     *)
THEOREM OverflowAlwaysMirrored == Spec => OverflowMirrored
  <1>1. TypeOK /\ [Next]_vars => [Mirrored => Mirrored' \/ StoresTo(RD_FLAGS)]_vars
    BY MirroredStep
  <1> QED BY <1>1, TypeCorrect, PTL DEF Spec, OverflowMirrored

(* Every step respects NoSyncLost.                                         *)
LEMMA NoSyncLostStep ==
    ASSUME TypeOK, [Next]_vars, UserSync, ~UserSync'
    PROVE  \/ ReadsDirectly(RD_FLAGS) /\ Bit(vm'.mem[R0], USER_SYNC) = 1
           \/ StoresTo(RD_FLAGS)
  <1>1. ~Leaves(vm, vm') /\ ~Samples(vm, vm')
    BY DEF UserSync, Leaves, SameFlags, Samples
  <1>2. ASSUME NEW v, Samples(vm, v), DeviceEffects(v)
        PROVE  \/ ReadsDirectly(RD_FLAGS) /\ Bit(vm'.mem[R0], USER_SYNC) = 1
               \/ StoresTo(RD_FLAGS)
    <2>1. Bit(v.mem[RD_FLAGS], USER_SYNC) = 1
      BY <1>2 DEF UserSync, Samples
    <2> QED BY <1>2, <2>1 DEF UserSync, DeviceEffects, Leaves, SameFlags, ShowsOverflow, Moves,
               TakesFlags
  <1> QED BY <1>1, <1>2, StepDevices

(* No sync is lost, whatever the program and whenever the period elapses:  *)
(* USER_SYNC stays up until the program has it in R0, unless it stores to  *)
(* the register itself.                                                    *)
THEOREM SyncKept == Spec => NoSyncLost
  <1>1. TypeOK /\ [Next]_vars =>
          [(UserSync /\ ~UserSync') =>
              \/ (ReadsDirectly(RD_FLAGS) /\ Bit(vm'.mem[R0], USER_SYNC) = 1)
              \/ StoresTo(RD_FLAGS)]_vars
    BY NoSyncLostStep
  <1> QED BY <1>1, TypeCorrect, PTL DEF Spec, NoSyncLost

(* Every step respects RandomInStep.                                       *)
LEMMA RandomStep ==
    ASSUME TypeOK, [Next]_vars, InStep
    PROVE  InStep' \/ (Narrow(10) /\ StoresTo(RANDOM))
  <1>1. CASE Leaves(vm, vm') \/ Samples(vm, vm')
    BY <1>1 DEF InStep, Leaves, Samples, SameRandom
  <1>2. ASSUME NEW v, Samples(vm, v), DeviceEffects(v)
        PROVE  InStep' \/ (Narrow(10) /\ StoresTo(RANDOM))
    BY <1>2 DEF InStep, Samples, SameRandom, DeviceEffects, Leaves, ShowsOverflow, Moves,
       TakesFlags
  <1> QED BY <1>1, <1>2, StepDevices

(* RANDOM shows the state of the generator after every step that starts so *)
(* - for every seed, and across seeding and reading - but for an indirect  *)
(* store to it.                                                            *)
THEOREM RandomAlwaysInStep == Spec => RandomInStep
  <1>1. TypeOK /\ [Next]_vars => [InStep => InStep' \/ (Narrow(10) /\ StoresTo(RANDOM))]_vars
    BY RandomStep
  <1> QED BY <1>1, TypeCorrect, PTL DEF Spec, RandomInStep

-----------------------------------------------------------------------------
(* The input port.                                                         *)

(* BIT of the port finds a one: the port was filled in this very cycle,    *)
(* where WR_FLAGS has it, and WR_FLAGS has not moved since.                *)
LEMMA PinsStep ==
    ASSUME TypeOK, RunCycle, Wide(9), Instr.nibble3 \div 4 = 3
    PROVE  "Z" \notin vm'.flags
  <1>0. vm \in VmState /\ prg \in Programs
    BY DEF TypeOK
  <1>1. vm.pc \in Addr
    BY DEF Wide, CanFetch
  <1>2. PICK sync \in Syncs : BitTest(sync)
    BY <1>1 DEF RunCycle, Cycle, Add, Adc, Sub, Sbb, Or, And, Xor, Mov, Jr, Cp, Inc, Dec, Dsz,
       Exr, Bset, Bclr, Btg, Rrc, Ret, SkipIf, Narrow, Wide, AssertFails
  <1> DEFINE u == vm_update_user_sync(vm, sync)
             b == IF Bit(u.mem[WR_FLAGS], IN_OUT_POS) = 1 THEN IN_B ELSE IN_
             s == Sampled(sync)
             v == Fetched(sync)
             m == get_val_crumb_literal(Instr)
  <1>3. b \in Byte /\ WR_FLAGS \in Byte /\ b # WR_FLAGS /\ 15 \in Nibble
    BY DEF IN_B, IN_, WR_FLAGS, Byte, Nibble
  <1>4. u \in VmState
    BY <1>0, SetBitType, Addresses DEF vm_update_user_sync
  <1>5. s = Store(u, b, 15)
    BY DEF Sampled, vm_update_in_reg
  <1> HIDE DEF u
  <1>6. s.mem[b] = 15 /\ s.mem[WR_FLAGS] = u.mem[WR_FLAGS] /\ s \in VmState
    <2> HIDE DEF b, s
    <2>1. s.mem = [u.mem EXCEPT ![b] = 15] /\ u.mem \in [Byte -> Nibble]
      BY <1>3, <1>4, <1>5, StoreMem, FieldTypes
    <2> QED BY <1>3, <1>4, <1>5, <2>1, StoreType
  <1>7. v.mem = s.mem
    <2>1. v = [s EXCEPT !.pc = NextAddr(@)] BY DEF Fetched
    <2> HIDE DEF s
    <2> QED BY <1>6, <2>1 DEF VmState
  <1> HIDE DEF s
  <1>8. v.mem[get_addr_rg_in(v, Instr)] = 15
    BY <1>6, <1>7 DEF get_addr_rg_in, b
  <1>9. vm' = SetFlag(v, "Z", Bit(15, m) = 0)
    BY <1>2, <1>8 DEF BitTest, op_bit, Becomes
  <1>10. Bit(15, m) = 1
    <2>1. Instr \in Word BY <1>0, <1>1, InstrType
    <2>2. m \in 0..3 BY <1>0, <2>1, OperandTypes
    <2> QED BY <2>2, AllOnes
  <1>11. v \in VmState
    BY <1>0, <1>1, FetchedType
  <1> HIDE DEF v, m
  <1> QED BY <1>9, <1>10, <1>11 DEF SetFlag, VmState

(* The pins always show as 1, wherever the program puts the port and       *)
(* whatever it stores to its register.                                     *)
THEOREM PinsAlwaysOne == Spec => PinsReadOne
  <1>1. TypeOK /\ [Next]_vars =>
          [(RunCycle /\ Wide(9) /\ Instr.nibble3 \div 4 = 3) => "Z" \notin vm'.flags]_vars
    BY PinsStep
  <1> QED BY <1>1, TypeCorrect, PTL DEF Spec, PinsReadOne

-----------------------------------------------------------------------------
(* The counters.                                                           *)

(* Control arrives at the target, and the frame a call opens is not among  *)
(* the registers the target is read from.                                  *)
LEMMA Arrives ==
    ASSUME NEW r \in VmState, r.pc \in Addr, NEW low \in {JSR, PCL},
           low = JSR => r.sp < MAX_STACK_DEPTH
    PROVE  LET w == maybe_call_or_jump(low, r)
           IN  w.pc = Target(r, low) /\ Target(w, low) = Target(r, low)
  <1> DEFINE w == maybe_call_or_jump(low, r)
  <1>1. JSR # PCL
    BY DEF JSR, PCL
  <1>2. CASE low = JSR
    <2> DEFINE x == push(r)
               t == Target(r, JSR)
    <2>1. r.sp \in Depth /\ r.sp < MAX_STACK_DEPTH /\ r.sp # MAX_STACK_DEPTH
      BY <1>2, FieldTypes DEF Depth, MAX_STACK_DEPTH
    <2>2. w = [x EXCEPT !.sp = @ + 1, !.pc = t]
      BY <1>1, <1>2, <2>1 DEF maybe_call_or_jump
    <2>3. x \in VmState
      BY <2>1, PushType
    <2>4. \A a \in Nibble : x.mem[a] = r.mem[a]
      <3>1. \A a \in Nibble : a \in Byte \ FrameWords(r.sp)
        BY <2>1 DEF FrameWords, FrameAddr, Depth, MAX_STACK_DEPTH, STACK, Nibble, Byte
      <3> QED BY <2>1, <3>1, PushEffect
    <2> HIDE DEF x, t
    <2>5. w.pc = t /\ w.mem = x.mem
      BY <2>2, <2>3 DEF VmState
    <2>6. PCH \in Nibble /\ PCM \in Nibble /\ JSR \in Nibble
      BY DEF PCH, PCM, JSR, Nibble
    <2> HIDE DEF w
    <2>7. Target(w, JSR) = Target(r, JSR)
      BY <2>4, <2>5, <2>6 DEF Target
    <2> QED BY <1>2, <2>5, <2>7 DEF w, t
  <1>3. CASE low = PCL
    <2>1. w = [r EXCEPT !.pc = Target(r, PCL)]
      BY <1>1, <1>3 DEF maybe_call_or_jump
    <2>2. w.pc = Target(r, PCL) /\ w.mem = r.mem
      BY <2>1 DEF VmState
    <2> HIDE DEF w
    <2>3. Target(w, PCL) = Target(r, PCL)
      BY <2>2 DEF Target
    <2> QED BY <1>3, <2>2, <2>3 DEF w
  <1> QED BY <1>2, <1>3

(* INC and DEC count in one cycle, whichever of them it is.                *)
LEMMA CountsStep ==
    ASSUME TypeOK, NEW low \in {JSR, PCL}
    PROVE  Counts(2, 1, low) /\ Counts(3, -1, low)
  <1>0. vm \in VmState /\ prg \in Programs
    BY DEF TypeOK
  <1>1. ASSUME NEW sync, vm.pc \in Addr, low = JSR => vm.sp < MAX_STACK_DEPTH,
               NEW step \in Int, NEW w,
               \E r : w = maybe_call_or_jump(low, r) /\ Counted(Fetched(sync), r, low, step)
        PROVE  /\ w.pc = (Target(vm, low) + step) % PROGRAM_MEMORY_SIZE
               /\ Target(w, low) = w.pc
    <2> DEFINE v == Fetched(sync)
    <2>1. v \in VmState /\ v.pc \in Addr
      BY <1>0, <1>1, FetchedType
    <2>2. Touches(vm, v, {RD_FLAGS, IN_, IN_B})
      BY <1>0, <1>1, FetchedEffect
    <2> PICK r : w = maybe_call_or_jump(low, r) /\ Counted(v, r, low, step)
      BY <1>1
    <2> HIDE DEF v
    <2>3. \A a \in {PCH, PCM, JSR, PCL} : v.mem[a] = vm.mem[a]
      <3>1. \A a \in {PCH, PCM, JSR, PCL} : a \in Byte \ {RD_FLAGS, IN_, IN_B}
        BY DEF PCH, PCM, JSR, PCL, RD_FLAGS, IN_, IN_B, Byte
      <3> QED BY <2>2, <3>1 DEF Touches
    <2>4. Target(v, low) = Target(vm, low) /\ v.sp = vm.sp
      BY <2>2, <2>3 DEF Target, Touches
    <2>5. r \in VmState /\ r.pc \in Addr /\ (low = JSR => r.sp < MAX_STACK_DEPTH)
      BY <1>1, <2>1, <2>4 DEF Counted, Leaves
    <2>6. w.pc = Target(r, low) /\ Target(w, low) = Target(r, low)
      BY <2>5, Arrives
    <2>7. Target(r, low) = (Target(v, low) + step) % PROGRAM_MEMORY_SIZE
      BY DEF Counted
    <2> QED BY <2>4, <2>6, <2>7
  <1>2. ASSUME RunCycle
        PROVE  /\ Wide(2) => vm.pc \in Addr /\ \E sync \in Syncs : Inc(sync)
               /\ Wide(3) => vm.pc \in Addr /\ \E sync \in Syncs : Dec(sync)
    <2>1. PICK sync \in Syncs : Cycle(sync)
      BY <1>2 DEF RunCycle
    <2>2. Wide(2) => vm.pc \in Addr /\ Inc(sync)
      BY <2>1 DEF Cycle, Add, Adc, Sub, Sbb, Or, And, Xor, Mov, Jr, Cp, Dec, Dsz, Exr, BitTest,
         Bset, Bclr, Btg, Rrc, Ret, SkipIf, Narrow, Wide, CanFetch, AssertFails
    <2>3. Wide(3) => vm.pc \in Addr /\ Dec(sync)
      BY <2>1 DEF Cycle, Add, Adc, Sub, Sbb, Or, And, Xor, Mov, Jr, Cp, Inc, Dsz, Exr, BitTest,
         Bset, Bclr, Btg, Rrc, Ret, SkipIf, Narrow, Wide, CanFetch, AssertFails
    <2> QED BY <2>2, <2>3
  <1>3. low \in Nibble
    BY DEF JSR, PCL, Nibble
  <1>4. Counts(2, 1, low)
    <2> SUFFICES ASSUME RunCycle, Wide(2), get_addr_ry(Instr) = low,
                        low = JSR => vm.sp < MAX_STACK_DEPTH
                 PROVE  /\ vm'.pc = (Target(vm, low) + 1) % PROGRAM_MEMORY_SIZE
                        /\ Target(vm', low) = vm'.pc
      BY DEF Counts
    <2>1. vm.pc \in Addr /\ \E sync \in Syncs : Inc(sync)
      BY <1>2
    <2>2. PICK sync \in Syncs : vm' = op_inc(Fetched(sync), low)
      BY <2>1 DEF Inc, Becomes
    <2>3. Fetched(sync) \in VmState
      BY <1>0, <2>1, FetchedType
    <2>4. \E r : vm' = maybe_call_or_jump(low, r) /\ Counted(Fetched(sync), r, low, 1)
      BY <1>3, <2>2, <2>3, IncEffect
    <2> QED BY <1>1, <2>1, <2>4
  <1>5. Counts(3, -1, low)
    <2> SUFFICES ASSUME RunCycle, Wide(3), get_addr_ry(Instr) = low,
                        low = JSR => vm.sp < MAX_STACK_DEPTH
                 PROVE  /\ vm'.pc = (Target(vm, low) + (-1)) % PROGRAM_MEMORY_SIZE
                        /\ Target(vm', low) = vm'.pc
      BY DEF Counts
    <2>1. vm.pc \in Addr /\ \E sync \in Syncs : Dec(sync)
      BY <1>2
    <2>2. PICK sync \in Syncs : vm' = op_dec(Fetched(sync), low)
      BY <2>1 DEF Dec, Becomes
    <2>3. Fetched(sync) \in VmState
      BY <1>0, <2>1, FetchedType
    <2>4. \E r : vm' = maybe_call_or_jump(low, r) /\ Counted(Fetched(sync), r, low, -1)
      BY <1>3, <2>2, <2>3, DecEffect
    <2> QED BY <1>1, <2>1, <2>4
  <1> QED BY <1>4, <1>5

(* INC and DEC of PCL and JSR count the twelve bits of the counter by one, *)
(* modulo the program memory, from every value of the three registers, and *)
(* control arrives at what they then hold.                                 *)
THEOREM PointersAlwaysCount == Spec => PointerCounts
  <1>1. TypeOK /\ [Next]_vars =>
          [\A low \in {JSR, PCL} : Counts(2, 1, low) /\ Counts(3, -1, low)]_vars
    BY CountsStep
  <1> QED BY <1>1, TypeCorrect, PTL DEF Spec, PointerCounts
=============================================================================
