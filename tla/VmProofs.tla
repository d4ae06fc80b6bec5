------------------------------- MODULE VmProofs -------------------------------
(***************************************************************************)
(* Proofs about Vm, for every set of programs and every environment.       *)
(***************************************************************************)
EXTENDS Vm, TLAPS

-----------------------------------------------------------------------------
(* Nibbles.                                                                *)

(* The ranges of the program counter, by their ends.                       *)
LEMMA AddrRange == \A n : n \in Addr <=> n \in Int /\ 0 <= n /\ n <= 4095
  <1>1. PROGRAM_MEMORY_SIZE \in Int
    BY DEF PROGRAM_MEMORY_SIZE
  <1>2. \A n : n \in Addr <=> n \in Int /\ 0 <= n /\ n <= PROGRAM_MEMORY_SIZE - 1
    BY ONLY <1>1 DEF Addr
  <1> QED BY ONLY <1>2 DEF PROGRAM_MEMORY_SIZE

LEMMA CounterRange == \A n : n \in Counter <=> n \in Int /\ 0 <= n /\ n <= 65535
  <1>1. UINT16_MAX \in Int
    BY DEF UINT16_MAX
  <1>2. \A n : n \in Counter <=> n \in Int /\ 0 <= n /\ n <= UINT16_MAX
    BY ONLY <1>1 DEF Counter
  <1> QED BY ONLY <1>2 DEF UINT16_MAX

(* The ranges of a word of memory and of a byte.                           *)
LEMMA NibbleRange == \A n : n \in Nibble <=> n \in Int /\ 0 <= n /\ n <= 15
  BY DEF Nibble

LEMMA ByteRange == \A n : n \in Byte <=> n \in Int /\ 0 <= n /\ n <= 255
  BY DEF Byte

(* A uint8_t result masked with 0xf is a nibble, and so is a shifted byte. *)
LEMMA Masks ==
    /\ \A x \in Int : x % 16 \in Nibble
    /\ \A b \in Byte : LowNibble(b) \in Nibble /\ HighNibble(b) \in Nibble
    /\ \A x \in Int : UInt8(x) \in Byte
  <1>1. \A x \in Int : x % 16 \in Nibble
    <2> SUFFICES ASSUME NEW x \in Int PROVE x % 16 \in Nibble
      OBVIOUS
    <2>1. x % 16 \in Int /\ 0 <= x % 16 /\ x % 16 <= 15 OBVIOUS
    <2> QED BY ONLY <2>1, NibbleRange
  <1>2. \A x \in Int : UInt8(x) \in Byte
    <2> SUFFICES ASSUME NEW x \in Int PROVE x % 256 \in Byte
      BY DEF UInt8
    <2>1. x % 256 \in Int /\ 0 <= x % 256 /\ x % 256 <= 255 OBVIOUS
    <2> QED BY ONLY <2>1, ByteRange
  <1>3. \A b \in Byte : b \in Int /\ b \div 16 \in Int
    BY DEF Byte
  <1> QED BY <1>1, <1>2, <1>3 DEF LowNibble, HighNibble

(* A cast to sixteen bits is a value of the program counter.               *)
LEMMA SixteenBits ==
    ASSUME NEW x \in Int
    PROVE  UInt16(x) \in Counter
  <1>1. x % 65536 \in Int /\ 0 <= x % 65536 /\ x % 65536 <= 65535
    OBVIOUS
  <1>2. x % 65536 \in Counter
    BY ONLY <1>1, CounterRange
  <1> QED BY <1>2 DEF UInt16

(* A jump relative to the counter, either way, gives a counter.            *)
LEMMA Relative ==
    ASSUME NEW p \in Counter, NEW n \in Int
    PROVE  UInt16(p + n) \in Counter
  <1>1. p \in Int BY CounterRange
  <1>2. p + n \in Int BY <1>1
  <1> QED BY ONLY <1>2, SixteenBits

(* The bit operators of C stay within the nibble.                          *)
LEMMA Bits ==
    ASSUME NEW m \in Nibble, NEW n \in Nibble
    PROVE  And4(m, n) \in Nibble /\ Or4(m, n) \in Nibble /\ Xor4(m, n) \in Nibble
  <1>1. \A p, q : AndBit(p, q) \in 0..1 /\ OrBit(p, q) \in 0..1 /\ XorBit(p, q) \in 0..1
    BY DEF AndBit, OrBit, XorBit
  <1>2. \A a, b, c, d \in 0..1 : FromBits(a, b, c, d) \in Nibble
    BY DEF FromBits, Nibble
  <1> QED
    BY <1>1, <1>2 DEF And4, Or4, Xor4

(* Setting or clearing one of the four bits stays within the nibble.       *)
LEMMA OneBit ==
    ASSUME NEW n \in Nibble, NEW k \in 0..3
    PROVE  WithBit(n, k) \in Nibble /\ WithoutBit(n, k) \in Nibble
  <1>1. CASE k = 0 BY <1>1 DEF WithBit, WithoutBit, Bit, Weight, Nibble
  <1>2. CASE k = 1 BY <1>2 DEF WithBit, WithoutBit, Bit, Weight, Nibble
  <1>3. CASE k = 2 BY <1>3 DEF WithBit, WithoutBit, Bit, Weight, Nibble
  <1>4. CASE k = 3 BY <1>4 DEF WithBit, WithoutBit, Bit, Weight, Nibble
  <1> QED BY <1>1, <1>2, <1>3, <1>4

(* The generator: a seed stays four bytes, and shows a nibble.             *)
LEMMA SeedTypes ==
    ASSUME NEW s \in Seed
    PROVE  next_seed(s) \in Seed /\ seed_to_nibble(s) \in Nibble
  <1>1. /\ s.b0 \in Byte /\ s.b1 \in Byte /\ s.b2 \in Byte /\ s.b3 \in Byte
    BY DEF Seed
  <1>2. \A x \in Int : x % 256 \in Byte
    BY DEF Byte
  <1>3. next_seed(s) \in Seed
    <2> DEFINE A  == RNG_A
               t0 == A.b0 * s.b0 + RNG_C.b0
               t1 == A.b0 * s.b1 + A.b1 * s.b0 + RNG_C.b1 + t0 \div 256
               t2 == A.b0 * s.b2 + A.b1 * s.b1 + A.b2 * s.b0 + RNG_C.b2 + t1 \div 256
               t3 == A.b0 * s.b3 + A.b1 * s.b2 + A.b2 * s.b1 + A.b3 * s.b0 + RNG_C.b3
                     + t2 \div 256
    <2>1. /\ A.b0 \in Int /\ A.b1 \in Int /\ A.b2 \in Int /\ A.b3 \in Int
          /\ RNG_C.b0 \in Int /\ RNG_C.b1 \in Int /\ RNG_C.b2 \in Int /\ RNG_C.b3 \in Int
          /\ s.b0 \in Int /\ s.b1 \in Int /\ s.b2 \in Int /\ s.b3 \in Int
      BY <1>1 DEF RNG_A, RNG_C, Byte
    <2> HIDE DEF A
    <2>0. \A x, y \in Int : x * y \in Int /\ x + y \in Int /\ x \div 256 \in Int
      OBVIOUS
    <2>2. t0 \in Int
      <3>1. A.b0 * s.b0 \in Int BY <2>0, <2>1
      <3> QED BY <3>1, <2>0, <2>1
    <2> HIDE DEF t0
    <2>3. t1 \in Int
      <3>1. A.b0 * s.b1 \in Int /\ A.b1 * s.b0 \in Int BY <2>0, <2>1
      <3> QED BY <3>1, <2>0, <2>1, <2>2
    <2> HIDE DEF t1
    <2>4. t2 \in Int
      <3>1. A.b0 * s.b2 \in Int /\ A.b1 * s.b1 \in Int /\ A.b2 * s.b0 \in Int BY <2>0, <2>1
      <3> QED BY <3>1, <2>0, <2>1, <2>3
    <2> HIDE DEF t2
    <2>5. t3 \in Int
      <3>1. /\ A.b0 * s.b3 \in Int /\ A.b1 * s.b2 \in Int
            /\ A.b2 * s.b1 \in Int /\ A.b3 * s.b0 \in Int
        BY <2>0, <2>1
      <3> QED BY <3>1, <2>0, <2>1, <2>4
    <2> HIDE DEF t3
    <2>6. next_seed(s) = [b0 |-> t0 % 256, b1 |-> t1 % 256, b2 |-> t2 % 256, b3 |-> t3 % 256]
      BY DEF next_seed, A, t0, t1, t2, t3
    <2> QED BY <2>2, <2>3, <2>4, <2>5, <2>6, <1>2 DEF Seed
  <1>4. \A p \in Byte, q \in Byte : Xor8(p, q) \in Int
    <2> SUFFICES ASSUME NEW p \in Byte, NEW q \in Byte PROVE Xor8(p, q) \in Int
      OBVIOUS
    <2> DEFINE h == Xor4(HighNibble(p), HighNibble(q))
               l == Xor4(LowNibble(p), LowNibble(q))
    <2>1. h \in Nibble /\ l \in Nibble
      BY Masks, Bits
    <2>2. Xor8(p, q) = 16 * h + l
      BY DEF Xor8
    <2> HIDE DEF h, l
    <2>3. \A x, y \in Nibble : 16 * x + y \in Int
      BY DEF Nibble
    <2> QED BY ONLY <2>1, <2>2, <2>3
  <1>5. seed_to_nibble(s) \in Nibble
    <2> DEFINE sum == UInt8(Xor8(s.b3, s.b1) + Xor8(s.b2, s.b0))
    <2>1. sum \in Byte
      <3>1. Xor8(s.b3, s.b1) \in Int /\ Xor8(s.b2, s.b0) \in Int
        BY <1>1, <1>4
      <3>2. \A x, y \in Int : UInt8(x + y) \in Byte
        BY Masks
      <3> QED BY ONLY <3>1, <3>2
    <2> QED
      BY <2>1, Masks, Bits DEF seed_to_nibble
  <1> QED BY <1>3, <1>5

-----------------------------------------------------------------------------
(* The assignments the operations are built from keep the machine's type.  *)

(* A store of a nibble leaves a machine of the right type.                 *)
LEMMA StoreType ==
    ASSUME NEW v \in VmState, NEW a \in Byte, NEW x \in Nibble
    PROVE  Store(v, a, x) \in VmState
  BY DEF Store, VmState

(* So does the setting or clearing of a flag.                              *)
LEMMA SetFlagType ==
    ASSUME NEW v \in VmState, NEW f \in Flag, NEW up
    PROVE  SetFlag(v, f, up) \in VmState
  BY DEF SetFlag, VmState, Flags

(* So does the setting or clearing of a bit of a word.                     *)
LEMMA SetBitType ==
    ASSUME NEW v \in VmState, NEW a \in Byte, NEW k \in 0..3
    PROVE  SetBit(v, a, k) \in VmState /\ ClearBit(v, a, k) \in VmState
  <1>1. v.mem[a] \in Nibble BY DEF VmState
  <1> QED BY <1>1, OneBit, StoreType DEF SetBit, ClearBit

(* So does a new program counter.                                          *)
LEMMA PcType ==
    ASSUME NEW v \in VmState, NEW n \in Counter
    PROVE  [v EXCEPT !.pc = n] \in VmState
  BY DEF VmState

(* So does the end of the process.                                         *)
LEMMA ExitType ==
    ASSUME NEW v \in VmState, NEW e \in Exit
    PROVE  [v EXCEPT !.exit = e] \in VmState
  BY DEF VmState

(* So does a new seed.                                                     *)
LEMMA SeedType ==
    ASSUME NEW v \in VmState, NEW s \in Seed
    PROVE  [v EXCEPT !.seed = s] \in VmState
  BY DEF VmState

(* Every word of the memory of a machine is a nibble.                      *)
LEMMA MemType ==
    ASSUME NEW v \in VmState, NEW a \in Byte
    PROVE  v.mem[a] \in Nibble
  BY DEF VmState

(* The types of the other parts of a machine.                              *)
LEMMA FieldTypes ==
    ASSUME NEW v \in VmState
    PROVE  /\ v.mem \in [Byte -> Nibble] /\ v.pc \in Counter /\ v.sp \in Depth
           /\ v.flags \in Flags /\ v.seed \in Seed /\ v.exit \in Exit
  BY DEF VmState

(* Every address an operand names is one of the 256, every value a nibble. *)
LEMMA Addresses ==
    /\ Nibble \subseteq Byte
    /\ R0 \in Byte /\ PCM \in Byte /\ PCH \in Byte /\ PCM + 1 \in Byte
    /\ RD_FLAGS \in Byte /\ KEY_STATUS \in Byte /\ KEY_REG \in Byte /\ PAGE \in Byte
    /\ RANDOM \in Byte /\ IN_B \in Byte /\ IN_ \in Byte /\ OUT \in Byte /\ OUT_B \in Byte
    /\ R0 \in Nibble /\ PCM \in Nibble /\ USER_SYNC \in 0..3 /\ V_FLAG \in 0..3
    /\ JUST_PRESS \in 0..3 /\ LAST_PRESS \in 0..3 /\ ANY_PRESS \in 0..3
  BY DEF Nibble, Byte, R0, PCM, PCH, RD_FLAGS, KEY_STATUS, KEY_REG, PAGE, RANDOM, IN_B,
         IN_, OUT, OUT_B, USER_SYNC, V_FLAG, JUST_PRESS, LAST_PRESS, ANY_PRESS

(* What each addressing mode yields: a nibble, a byte or a bit number.     *)
LEMMA OperandTypes ==
    ASSUME NEW v \in VmState, NEW i \in Word
    PROVE  /\ get_addr_rx(i) \in Nibble /\ get_addr_ry(i) \in Nibble
           /\ get_addr_rg_in(v, i) \in Byte /\ get_addr_rg_out(v, i) \in Byte
           /\ get_addr_pointer(i) \in Byte /\ get_addr_indirect(v, i) \in Byte
           /\ get_val_ry(v, i) \in Nibble /\ get_val_r0(v) \in Nibble
           /\ get_val_indirect(v, i) \in Nibble /\ get_val_literal(i) \in Nibble
           /\ get_val_byte_literal(i) \in Byte /\ get_val_crumb_literal(i) \in 0..3
  <1>1. i.nibble1 \in Nibble /\ i.nibble2 \in Nibble /\ i.nibble3 \in Nibble
    BY DEF Word
  <1>2. v.mem[i.nibble2] \in Nibble /\ v.mem[i.nibble3] \in Nibble /\ v.mem[R0] \in Nibble
    BY <1>1, MemType, Addresses
  <1>3. \A m, n \in Nibble : 16 * m + n \in Byte
    BY DEF Nibble, Byte
  <1>4. get_addr_pointer(i) \in Byte /\ get_addr_indirect(v, i) \in Byte
        /\ get_val_byte_literal(i) \in Byte
    BY <1>1, <1>2, <1>3 DEF get_addr_pointer, get_addr_indirect, get_val_byte_literal
  <1>5. get_val_indirect(v, i) \in Nibble
    BY <1>4, MemType DEF get_val_indirect
  <1>6. get_addr_rg_in(v, i) \in Byte /\ get_addr_rg_out(v, i) \in Byte
    <2>1. i.nibble3 \div 4 \in Byte
      BY <1>1 DEF Nibble, Byte
    <2> QED BY <2>1, Addresses DEF get_addr_rg_in, get_addr_rg_out
  <1>7. get_val_crumb_literal(i) \in 0..3
    BY <1>1 DEF get_val_crumb_literal, Nibble
  <1> QED
    BY <1>1, <1>2, <1>4, <1>5, <1>6, <1>7
       DEF get_addr_rx, get_addr_ry, get_val_ry, get_val_r0, get_val_literal

-----------------------------------------------------------------------------
(* The operations keep it.                                                 *)

(* The updates of the flags keep the type of the machine.                  *)
LEMMA FlagTypes ==
    ASSUME NEW v \in VmState, NEW r, NEW s
    PROVE  /\ update_zero_flag(r, v) \in VmState
           /\ update_carry_flag(r, v) \in VmState
           /\ update_borrow_flag(r, v) \in VmState
           /\ update_overflow_flag(s, v) \in VmState
  <1>1. /\ update_zero_flag(r, v) \in VmState
        /\ update_carry_flag(r, v) \in VmState
        /\ update_borrow_flag(r, v) \in VmState
    BY SetFlagType DEF update_zero_flag, update_carry_flag, update_borrow_flag, Flag
  <1>2. SetFlag(v, "V", TRUE) \in VmState /\ SetFlag(v, "V", FALSE) \in VmState
    BY SetFlagType DEF Flag
  <1>3. update_overflow_flag(s, v) \in VmState
    BY <1>2, SetBitType, Addresses DEF update_overflow_flag
  <1> QED BY <1>1, <1>3

(* ADD, ADC, SUB, SBB and CP: whatever the operands, a nibble is stored.   *)
LEMMA ArithmeticTypes ==
    ASSUME NEW v \in VmState, NEW dst \in Byte, NEW src \in Nibble
    PROVE  /\ op_add(v, dst, src) \in VmState /\ op_adc(v, dst, src) \in VmState
           /\ op_sub(v, dst, src) \in VmState /\ op_sbb(v, dst, src) \in VmState
           /\ op_cp(v, dst, src) \in VmState
  <1>1. v.mem[dst] \in Nibble
    BY MemType
  <1>2. \A x \in Int : UInt8(x) % 16 \in Nibble
    BY DEF UInt8, Nibble
  <1>3. \A x \in Int : Store(v, dst, UInt8(x) % 16) \in VmState
    BY <1>2, StoreType
  <1>4. Carry(v) \in 0..1
    BY DEF Carry
  <1>5. /\ v.mem[dst] + src \in Int /\ v.mem[dst] + src + Carry(v) \in Int
        /\ v.mem[dst] - src \in Int /\ v.mem[dst] - src - (1 - Carry(v)) \in Int
    <2>1. \A x, y, c \in Int : /\ x + y \in Int /\ x + y + c \in Int
                              /\ x - y \in Int /\ x - y - (1 - c) \in Int
      OBVIOUS
    <2>2. v.mem[dst] \in Int BY <1>1 DEF Nibble
    <2>3. src \in Int /\ Carry(v) \in Int BY <1>4 DEF Nibble
    <2> QED BY ONLY <2>1, <2>2, <2>3
  <1>6. op_add(v, dst, src) \in VmState BY <1>3, <1>5, FlagTypes DEF op_add
  <1>7. op_adc(v, dst, src) \in VmState BY <1>3, <1>5, FlagTypes DEF op_adc
  <1>8. op_sub(v, dst, src) \in VmState BY <1>3, <1>5, FlagTypes DEF op_sub
  <1>9. op_sbb(v, dst, src) \in VmState BY <1>3, <1>5, FlagTypes DEF op_sbb
  <1>10. op_cp(v, dst, src) \in VmState BY FlagTypes DEF op_cp
  <1> QED BY <1>6, <1>7, <1>8, <1>9, <1>10

(* OR, AND, XOR and RRC.                                                   *)
LEMMA LogicTypes ==
    ASSUME NEW v \in VmState, NEW dst \in Byte, NEW src \in Nibble, NEW literal
    PROVE  /\ op_or(v, dst, src, literal) \in VmState
           /\ op_and(v, dst, src, literal) \in VmState
           /\ op_xor(v, dst, src, literal) \in VmState
           /\ op_rrc(v, dst) \in VmState
  <1>1. v.mem[dst] \in Nibble
    BY MemType
  <1>2. \A r \in Nibble : update_zero_flag(r, Store(v, dst, r)) \in VmState
    BY StoreType, FlagTypes
  <1>3. \A w \in VmState : \A up : SetFlag(w, "C", up) \in VmState
    BY SetFlagType DEF Flag
  <1>4. op_or(v, dst, src, literal) \in VmState
    BY <1>1, <1>2, <1>3, Bits DEF op_or
  <1>5. op_and(v, dst, src, literal) \in VmState
    BY <1>1, <1>2, <1>3, Bits DEF op_and
  <1>6. op_xor(v, dst, src, literal) \in VmState
    BY <1>1, <1>2, <1>3, Bits DEF op_xor
  <1>7. op_rrc(v, dst) \in VmState
    <2> DEFINE result == v.mem[dst] \div 2 + 8 * Carry(v)
    <2>1. result \in Nibble
      BY <1>1 DEF Nibble, Carry
    <2> HIDE DEF result
    <2>2. Store(SetFlag(v, "C", v.mem[dst] % 2 = 1), dst, result) \in VmState
      BY <1>3, <2>1, StoreType
    <2> QED
      BY <2>2, FlagTypes DEF op_rrc, result
  <1> QED BY <1>4, <1>5, <1>6, <1>7

(* A store and a flag leave the other fields of the machine alone.         *)
LEMMA StoreFields ==
    ASSUME NEW v \in VmState, NEW a \in Byte, NEW x \in Nibble
    PROVE  /\ Store(v, a, x).pc = v.pc /\ Store(v, a, x).sp = v.sp
           /\ Store(v, a, x).flags = v.flags /\ Store(v, a, x).exit = v.exit
           /\ Store(v, a, x).seed = v.seed
  BY DEF Store, VmState

(* And it changes one word.                                                *)
LEMMA StoreMem ==
    ASSUME NEW v \in VmState, NEW a \in Byte, NEW x \in Nibble
    PROVE  Store(v, a, x).mem = [v.mem EXCEPT ![a] = x]
  BY DEF Store, VmState

(* A flag set or cleared changes that flag and nothing else.               *)
LEMMA SetFlagFields ==
    ASSUME NEW v \in VmState, NEW f \in Flag, NEW up
    PROVE  /\ SetFlag(v, f, up).mem = v.mem
           /\ SetFlag(v, f, up).pc = v.pc /\ SetFlag(v, f, up).sp = v.sp
           /\ SetFlag(v, f, up).exit = v.exit /\ SetFlag(v, f, up).seed = v.seed
           /\ SetFlag(v, f, up).flags = IF up THEN v.flags \cup {f} ELSE v.flags \ {f}
  BY DEF SetFlag, VmState

(* The nibbles of a frame are within the stack page.                       *)
LEMMA FrameAddrs ==
    ASSUME NEW f \in 0..(MAX_STACK_DEPTH - 1)
    PROVE  FrameAddr(f) \in Byte /\ FrameAddr(f) + 1 \in Byte /\ FrameAddr(f) + 2 \in Byte
  BY DEF FrameAddr, STACK, Byte, MAX_STACK_DEPTH

(* Three nibbles make an address in program memory.                        *)
LEMMA TwelveBits ==
    ASSUME NEW h \in Nibble, NEW m \in Nibble, NEW l \in Nibble
    PROVE  /\ 256 * h + 16 * m + l \in Addr
           /\ l + 16 * m + 256 * h \in Addr
  <1>1. /\ h \in Int /\ 0 <= h /\ h <= 15
        /\ m \in Int /\ 0 <= m /\ m <= 15
        /\ l \in Int /\ 0 <= l /\ l <= 15
    BY DEF Nibble
  <1> DEFINE n == 256 * h + 16 * m + l
  <1>2. n \in Int /\ 0 <= n /\ n <= 4095 /\ l + 16 * m + 256 * h = n
    BY ONLY <1>1
  <1> HIDE DEF n
  <1>3. n \in Addr
    BY ONLY <1>2, AddrRange
  <1> QED BY <1>2, <1>3 DEF n

(* Sixteen bits hold every address of program memory.                      *)
LEMMA AddrIsCounter == \A a \in Addr : a \in Counter
  BY AddrRange, CounterRange

(* The increment of an address wraps within program memory.                *)
LEMMA NextAddrType == \A a \in Addr : NextAddr(a) \in Addr /\ NextAddr(a) \in Counter
  <1>1. \A a \in Addr : NextAddr(a) \in Addr
    BY AddrRange DEF NextAddr, PROGRAM_MEMORY_SIZE
  <1> QED BY <1>1, AddrIsCounter

(* The three registers of a jump make an address.                          *)
LEMMA TargetType ==
    ASSUME NEW v \in VmState, NEW low \in {JSR, PCL}
    PROVE  Target(v, low) \in Addr
  <1>1. v.mem[PCH] \in Nibble /\ v.mem[PCM] \in Nibble /\ v.mem[low] \in Nibble
    BY MemType DEF PCH, PCM, JSR, PCL, Byte
  <1> QED BY <1>1, TwelveBits DEF Target

(* A call stores the three nibbles of a twelve-bit return address.         *)
LEMMA PushType ==
    ASSUME NEW v \in VmState, v.pc \in Addr, v.sp # MAX_STACK_DEPTH
    PROVE  push(v) \in VmState /\ push(v).sp = v.sp
  <1>1. v.sp \in 0..(MAX_STACK_DEPTH - 1)
    <2>1. v.sp \in Depth BY FieldTypes
    <2> QED BY <2>1 DEF Depth, MAX_STACK_DEPTH
  <1>2. /\ FrameAddr(v.sp) \in Byte /\ FrameAddr(v.sp) + 1 \in Byte
        /\ FrameAddr(v.sp) + 2 \in Byte
    BY <1>1, FrameAddrs
  <1>3. v.pc % 16 \in Nibble /\ (v.pc \div 16) % 16 \in Nibble /\ v.pc \div 256 \in Nibble
    <2> DEFINE p == v.pc
    <2>1. p \in Addr OBVIOUS
    <2> HIDE DEF p
    <2>2. p \in Int /\ p \div 16 \in Int
      BY <2>1, AddrRange
    <2>3. p \div 256 \in Nibble
      <3>1. p \in Int /\ 0 <= p /\ p <= 4095
        BY <2>1, AddrRange
      <3>2. p \div 256 \in Int /\ 0 <= p \div 256 /\ p \div 256 <= 15
        BY ONLY <3>1
      <3> QED BY ONLY <3>2, NibbleRange
    <2>4. p % 16 \in Nibble /\ (p \div 16) % 16 \in Nibble
      BY <2>2, Masks
    <2> QED BY <2>3, <2>4 DEF p
  <1> DEFINE a  == FrameAddr(v.sp)
             w1 == Store(v, a, v.pc % 16)
             w2 == Store(w1, a + 1, (v.pc \div 16) % 16)
  <1>4. w1 \in VmState /\ w1.sp = v.sp
    BY <1>2, <1>3, StoreType, StoreFields
  <1> HIDE DEF w1
  <1>5. w2 \in VmState /\ w2.sp = v.sp
    BY <1>2, <1>3, <1>4, StoreType, StoreFields
  <1> HIDE DEF w2
  <1>6. push(v) = Store(w2, a + 2, v.pc \div 256)
    BY DEF push, w1, w2
  <1>7. Store(w2, a + 2, v.pc \div 256) \in VmState
    BY <1>2, <1>3, <1>5, StoreType
  <1>8. Store(w2, a + 2, v.pc \div 256).sp = v.sp
    <2> DEFINE b == a + 2
               n == v.pc \div 256
    <2>1. b \in Byte /\ n \in Nibble BY <1>2, <1>3
    <2> HIDE DEF b, n
    <2>2. Store(w2, b, n).sp = w2.sp BY <1>5, <2>1, StoreFields
    <2> QED BY <1>5, <2>2 DEF b, n
  <1> QED BY <1>6, <1>7, <1>8

(* A write to JSR or PCL keeps the type, whether it calls, jumps or ends.  *)
LEMMA CallOrJumpType ==
    ASSUME NEW v \in VmState, v.pc \in Addr, NEW dst \in Nibble
    PROVE  maybe_call_or_jump(dst, v) \in VmState
  <1>0. Target(v, JSR) \in Counter /\ Target(v, PCL) \in Counter /\ JSR # PCL
    BY TargetType, AddrIsCounter DEF JSR, PCL
  <1>1. CASE dst = JSR /\ v.sp = MAX_STACK_DEPTH
    <2>1. maybe_call_or_jump(dst, v) = [v EXCEPT !.exit = "overflow"]
      BY <1>1, <1>0 DEF maybe_call_or_jump
    <2> QED BY <2>1, ExitType DEF Exit
  <1>2. CASE dst = JSR /\ v.sp # MAX_STACK_DEPTH
    <2> DEFINE w == push(v)
    <2>1. maybe_call_or_jump(dst, v) = [w EXCEPT !.sp = @ + 1, !.pc = Target(v, JSR)]
      BY <1>2, <1>0 DEF maybe_call_or_jump
    <2>2. w \in VmState /\ w.sp = v.sp
      BY <1>2, PushType
    <2>3. w.sp + 1 \in Depth
      <3>1. w.sp \in Depth /\ w.sp # MAX_STACK_DEPTH
        BY <1>2, <2>2, FieldTypes
      <3> HIDE DEF w
      <3> QED BY <3>1 DEF Depth, MAX_STACK_DEPTH
    <2> HIDE DEF w
    <2> QED BY <2>1, <2>2, <2>3, <1>0 DEF VmState
  <1>3. CASE dst = PCL
    <2>1. maybe_call_or_jump(dst, v) = [v EXCEPT !.pc = Target(v, PCL)]
      BY <1>3, <1>0 DEF maybe_call_or_jump
    <2> QED BY <2>1, <1>0, PcType
  <1>4. CASE dst # JSR /\ dst # PCL
    <2>1. maybe_call_or_jump(dst, v) = v
      BY <1>4 DEF maybe_call_or_jump
    <2> QED BY <2>1
  <1> QED BY <1>1, <1>2, <1>3, <1>4

(* So does RET, whether it returns or ends the process.                    *)
LEMMA ReturnType ==
    ASSUME NEW v \in VmState, NEW n \in Nibble
    PROVE  op_ret(v, n) \in VmState
  <1>1. CASE v.sp = 0
    <2>1. op_ret(v, n) = [v EXCEPT !.exit = "underflow"]
      BY <1>1 DEF op_ret
    <2> QED BY <2>1, ExitType DEF Exit
  <1>2. CASE v.sp # 0
    <2> DEFINE d == v.sp - 1
               a == FrameAddr(d)
               w == Store(v, R0, n)
               p == v.mem[a] + 16 * v.mem[a + 1] + 256 * v.mem[a + 2]
    <2>1. d \in 0..(MAX_STACK_DEPTH - 1) /\ d \in Depth
      <3>1. v.sp \in Depth BY FieldTypes
      <3> QED BY <1>2, <3>1 DEF Depth, MAX_STACK_DEPTH
    <2>2. a \in Byte /\ a + 1 \in Byte /\ a + 2 \in Byte
      BY <2>1, FrameAddrs
    <2>3. p \in Counter
      <3>1. v.mem[a] \in Nibble /\ v.mem[a + 1] \in Nibble /\ v.mem[a + 2] \in Nibble
        BY <2>2, MemType
      <3> QED BY <3>1, TwelveBits, AddrIsCounter
    <2>4. w \in VmState /\ w.sp = v.sp
      BY StoreType, StoreFields, Addresses
    <2>5. op_ret(v, n) = [w EXCEPT !.sp = @ - 1, !.pc = p]
      BY <1>2 DEF op_ret
    <2>6. w.sp - 1 \in Depth
      BY <2>1, <2>4
    <2> HIDE DEF w, p
    <2> QED BY <2>3, <2>4, <2>5, <2>6 DEF VmState
  <1> QED BY <1>1, <1>2

(* The five forms of MOV.                                                  *)
LEMMA MoveTypes ==
    ASSUME NEW v \in VmState, v.pc \in Addr, NEW a \in Byte, NEW r \in Nibble,
           NEW src \in Nibble, NEW nn \in Byte, NEW fresh \in Seed
    PROVE  /\ op_mov(v, a, src) \in VmState
           /\ op_mov_jump(v, r, src) \in VmState
           /\ op_mov_byte(v, PCM, nn) \in VmState
           /\ op_mov_from(v, a) \in VmState
           /\ op_mov_to(v, a, fresh) \in VmState
  <1>1. op_mov(v, a, src) \in VmState
    BY StoreType DEF op_mov
  <1>2. op_mov_jump(v, r, src) \in VmState
    <2>1. r \in Byte
      BY Addresses
    <2>2. Store(v, r, src) \in VmState /\ Store(v, r, src).pc \in Addr
      BY <2>1, StoreType, StoreFields
    <2> QED BY <2>2, CallOrJumpType DEF op_mov_jump
  <1>3. op_mov_byte(v, PCM, nn) \in VmState
    BY StoreType, Masks, Addresses DEF op_mov_byte
  <1>4. v.mem[R0] \in Nibble /\ v.mem[a] \in Nibble
    BY MemType, Addresses
  <1>5. Store(v, R0, v.mem[a]) \in VmState /\ Store(v, R0, v.mem[a]).seed = v.seed
    <2> DEFINE x == v.mem[a]
    <2>1. x \in Nibble /\ R0 \in Byte
      BY <1>4, Addresses
    <2> HIDE DEF x
    <2>2. Store(v, R0, x) \in VmState /\ Store(v, R0, x).seed = v.seed
      BY <2>1, StoreType, StoreFields
    <2> QED BY <2>2 DEF x
  <1>6. sfr_read(v, a) \in VmState
    <2> DEFINE w == Store(v, R0, v.mem[a])
               s == next_seed(v.seed)
    <2>1. s \in Seed /\ seed_to_nibble(s) \in Nibble
      <3>1. v.seed \in Seed BY FieldTypes
      <3>2. s \in Seed BY <3>1, SeedTypes
      <3> HIDE DEF s
      <3> QED BY <3>2, SeedTypes
    <2>2. ClearBit(w, a, USER_SYNC) \in VmState /\ ClearBit(w, a, JUST_PRESS) \in VmState
      BY <1>5, SetBitType, Addresses
    <2>3. [Store(w, a, seed_to_nibble(s)) EXCEPT !.seed = s] \in VmState
      BY <1>5, <2>1, StoreType, SeedType
    <2> HIDE DEF w, s
    <2>4. sfr_read(v, a) \in {w, ClearBit(w, a, USER_SYNC), ClearBit(w, a, JUST_PRESS),
                              [Store(w, a, seed_to_nibble(s)) EXCEPT !.seed = s]}
      BY DEF sfr_read, w, s
    <2>5. w \in VmState
      BY <1>5 DEF w
    <2> QED BY <2>2, <2>3, <2>4, <2>5
  <1>7. op_mov_from(v, a) \in VmState
    BY <1>5, <1>6 DEF op_mov_from
  <1>8. sfr_write(v, a, fresh) \in VmState
    <2> DEFINE s == set_rng_seed(v.mem[R0], fresh)
    <2>1. s \in Seed
      <3>1. \A n \in Nibble : seed_from_nibble(n) \in Seed
        BY DEF seed_from_nibble, Seed, Nibble, Byte
      <3> QED BY <1>4, <3>1 DEF set_rng_seed
    <2>2. [Store(v, a, seed_to_nibble(s)) EXCEPT !.seed = s] \in VmState
      BY <2>1, SeedTypes, StoreType, SeedType
    <2>3. Store(v, a, v.mem[R0]) \in VmState
      BY <1>4, StoreType
    <2> HIDE DEF s
    <2> QED BY <2>2, <2>3 DEF sfr_write, s
  <1>9. op_mov_to(v, a, fresh) \in VmState
    BY <1>4, <1>8, StoreType DEF op_mov_to
  <1> QED BY <1>1, <1>2, <1>3, <1>7, <1>9

(* A flag operation leaves everything but the flags alone.                 *)
LEMMA FlagFields ==
    ASSUME NEW v \in VmState, NEW r
    PROVE  /\ update_zero_flag(r, v).pc = v.pc
           /\ update_carry_flag(r, v).pc = v.pc
           /\ update_borrow_flag(r, v).pc = v.pc
  <1>1. "Z" \in Flag /\ "C" \in Flag
    BY DEF Flag
  <1>2. \A up : SetFlag(v, "Z", up).pc = v.pc /\ SetFlag(v, "C", up).pc = v.pc
    BY <1>1, SetFlagFields
  <1> QED BY <1>2 DEF update_zero_flag, update_carry_flag, update_borrow_flag

(* INC and DEC, with the ripple into PCM and PCH and the call or jump.     *)
LEMMA CountTypes ==
    ASSUME NEW v \in VmState, v.pc \in Addr, NEW dst \in Nibble
    PROVE  op_inc(v, dst) \in VmState /\ op_dec(v, dst) \in VmState
  <1>1. dst \in Byte /\ v.mem[dst] \in Nibble
    BY MemType, Addresses
  <1>2. \A x \in Int : /\ Store(v, dst, UInt8(x) % 16) \in VmState
                       /\ Store(v, dst, UInt8(x) % 16).pc = v.pc
    <2>1. \A x \in Int : UInt8(x) % 16 \in Nibble
      BY DEF UInt8, Nibble
    <2> QED BY <1>1, <2>1, StoreType, StoreFields
  <1>3. \A w \in VmState : \A m, h \in Nibble :
            w.pc = v.pc => /\ Store(Store(w, PCM, m), PCH, h) \in VmState
                           /\ Store(Store(w, PCM, m), PCH, h).pc = v.pc
    <2> SUFFICES ASSUME NEW w \in VmState, NEW m \in Nibble, NEW h \in Nibble, w.pc = v.pc
                 PROVE  /\ Store(Store(w, PCM, m), PCH, h) \in VmState
                        /\ Store(Store(w, PCM, m), PCH, h).pc = v.pc
      OBVIOUS
    <2>1. Store(w, PCM, m) \in VmState /\ Store(w, PCM, m).pc = v.pc
      BY StoreType, StoreFields, Addresses
    <2> QED BY <2>1, StoreType, StoreFields, Addresses
  <1>4. op_inc(v, dst) \in VmState
    <2> DEFINE result == UInt8(v.mem[dst] + 1)
               s      == Store(v, dst, result % 16)
               w      == update_carry_flag(result, update_zero_flag(result, s))
               m      == w.mem[PCM] + 1
               h      == (w.mem[PCH] + m \div 16) % 16
               ripple == IF Carry(w) = 1 /\ dst \in {JSR, PCL}
                         THEN Store(Store(w, PCM, m % 16), PCH, h) ELSE w
    <2>1. s \in VmState /\ s.pc = v.pc
      <3>1. v.mem[dst] + 1 \in Int BY <1>1 DEF Nibble
      <3> QED BY <3>1, <1>2
    <2> HIDE DEF s
    <2>2. w \in VmState /\ w.pc = v.pc
      BY <2>1, FlagTypes, FlagFields
    <2> HIDE DEF w
    <2>3. m % 16 \in Nibble /\ h \in Nibble
      <3>1. w.mem[PCM] \in Nibble /\ w.mem[PCH] \in Nibble
        BY <2>2, MemType, Addresses
      <3> QED BY <3>1 DEF Nibble
    <2> HIDE DEF m, h
    <2>4. ripple \in VmState /\ ripple.pc \in Addr
      BY <1>3, <2>2, <2>3
    <2>5. op_inc(v, dst) = maybe_call_or_jump(dst, ripple)
      BY DEF op_inc, ripple, h, m, w, s
    <2> HIDE DEF ripple
    <2> QED BY <2>4, <2>5, CallOrJumpType
  <1>5. op_dec(v, dst) \in VmState
    <2> DEFINE result == UInt8(v.mem[dst] - 1)
               s      == Store(v, dst, result % 16)
               w      == update_borrow_flag(result, update_zero_flag(result, s))
               m      == UInt8(w.mem[PCM] - 1)
               h      == (w.mem[PCH] - ((m \div 16) % 2)) % 16
               ripple == IF Carry(w) = 0 /\ dst \in {JSR, PCL}
                         THEN Store(Store(w, PCM, m % 16), PCH, h) ELSE w
    <2>1. s \in VmState /\ s.pc = v.pc
      <3>1. v.mem[dst] - 1 \in Int BY <1>1 DEF Nibble
      <3> QED BY <3>1, <1>2
    <2> HIDE DEF s
    <2>2. w \in VmState /\ w.pc = v.pc
      BY <2>1, FlagTypes, FlagFields
    <2> HIDE DEF w
    <2>3. m % 16 \in Nibble /\ h \in Nibble
      <3>1. w.mem[PCM] \in Nibble /\ w.mem[PCH] \in Nibble
        BY <2>2, MemType, Addresses
      <3>2. m \in Int
        BY <3>1 DEF Nibble, UInt8
      <3> HIDE DEF m
      <3> QED BY <3>1, <3>2 DEF Nibble
    <2> HIDE DEF m, h
    <2>4. ripple \in VmState /\ ripple.pc \in Addr
      BY <1>3, <2>2, <2>3
    <2>5. op_dec(v, dst) = maybe_call_or_jump(dst, ripple)
      BY DEF op_dec, ripple, h, m, w, s
    <2> HIDE DEF ripple
    <2> QED BY <2>4, <2>5, CallOrJumpType
  <1> QED BY <1>4, <1>5

(* JR, DSZ and SKIP: the program counter wraps at sixteen bits.            *)
LEMMA SkipTypes ==
    ASSUME NEW v \in VmState, NEW dst \in Byte, NEW nn \in Byte, NEW m \in 0..3, NEW cnd
    PROVE  op_jr(v, nn) \in VmState /\ op_dsz(v, dst) \in VmState
           /\ op_skip(v, cnd, m) \in VmState
  <1>1. \A w \in VmState, n \in Int : Skip(w, n) \in VmState
    <2> SUFFICES ASSUME NEW w \in VmState, NEW n \in Int
                 PROVE  Skip(w, n) \in VmState
      OBVIOUS
    <2>1. w.pc \in Counter
      BY FieldTypes
    <2>2. UInt16(w.pc + n) \in Counter
      BY <2>1, Relative
    <2> QED BY <2>2, PcType DEF Skip
  <1>2. op_jr(v, nn) \in VmState
    <2>1. (IF nn < 128 THEN nn ELSE nn - 256) \in Int BY DEF Byte
    <2> QED BY <1>1, <2>1 DEF op_jr
  <1>3. op_dsz(v, dst) \in VmState
    <2>1. UInt8(v.mem[dst] - 1) % 16 \in Nibble
      <3>1. v.mem[dst] \in Nibble BY MemType
      <3> QED BY <3>1 DEF UInt8, Nibble
    <2>2. Store(v, dst, UInt8(v.mem[dst] - 1) % 16) \in VmState
      BY <2>1, StoreType
    <2> QED BY <1>1, <2>2 DEF op_dsz
  <1>4. op_skip(v, cnd, m) \in VmState
    BY <1>1 DEF op_skip
  <1> QED BY <1>2, <1>3, <1>4

(* BIT, BSET, BCLR and BTG.                                                *)
LEMMA BitTypes ==
    ASSUME NEW v \in VmState, NEW dst \in Byte, NEW m \in 0..3
    PROVE  /\ op_bit(v, dst, m) \in VmState /\ op_bset(v, dst, m) \in VmState
           /\ op_bclr(v, dst, m) \in VmState /\ op_btg(v, dst, m) \in VmState
  BY SetFlagType, SetBitType DEF op_bit, op_bset, op_bclr, op_btg, Flag

(* EXR exchanges words of the same memory.                                 *)
LEMMA ExchangeType ==
    ASSUME NEW v \in VmState, NEW n \in Nibble
    PROVE  op_exr(v, n) \in VmState
  <1> DEFINE size == IF n = 0 THEN PAGE_SIZE ELSE n
             mem  == [a \in Byte |->
                        IF a < size THEN v.mem[ALT + a]
                        ELSE IF a >= ALT /\ a < ALT + size THEN v.mem[a - ALT]
                        ELSE v.mem[a]]
  <1>1. size \in 1..16
    BY DEF Nibble, PAGE_SIZE
  <1> HIDE DEF size
  <1>2. \A a \in Byte : /\ a < size => ALT + a \in Byte
                        /\ a >= ALT => a - ALT \in Byte
    BY <1>1 DEF ALT, Byte
  <1>3. \A a \in Byte : v.mem[a] \in Nibble
    BY MemType
  <1>4. mem \in [Byte -> Nibble]
    BY <1>2, <1>3
  <1>5. op_exr(v, n) = [v EXCEPT !.mem = mem]
    BY DEF op_exr, size
  <1> HIDE DEF mem
  <1> QED BY <1>4, <1>5 DEF VmState

-----------------------------------------------------------------------------
(* The machine.                                                            *)

(* A cycle until its fetch: the sync timer and the input port.             *)
LEMMA SampledType ==
    ASSUME vm \in VmState, NEW sync
    PROVE  Sampled(sync) \in VmState /\ Sampled(sync).pc = vm.pc
  <1> DEFINE w == vm_update_user_sync(vm, sync)
  <1>1. w \in VmState
    BY SetBitType, Addresses DEF vm_update_user_sync
  <1>2. w.pc = vm.pc
    <2>1. vm.mem[RD_FLAGS] \in Nibble
      BY MemType, Addresses
    <2>2. WithBit(vm.mem[RD_FLAGS], USER_SYNC) \in Nibble
      BY <2>1, OneBit, Addresses
    <2> QED BY <2>2, StoreFields, Addresses DEF vm_update_user_sync, SetBit
  <1> HIDE DEF w
  <1>3. 15 \in Nibble
    BY DEF Nibble
  <1>4. vm_update_in_reg(w) \in VmState /\ vm_update_in_reg(w).pc = w.pc
    <2> DEFINE b == IF Bit(w.mem[WR_FLAGS], IN_OUT_POS) = 1 THEN IN_B ELSE IN_
    <2>1. b \in Byte
      BY Addresses
    <2>2. vm_update_in_reg(w) = Store(w, b, 15)
      BY DEF vm_update_in_reg
    <2> HIDE DEF b
    <2>3. Store(w, b, 15) \in VmState
      BY <1>1, <1>3, <2>1, StoreType
    <2>4. Store(w, b, 15).pc = w.pc
      BY <1>1, <1>3, <2>1, StoreFields
    <2> QED BY <2>2, <2>3, <2>4
  <1> QED BY <1>2, <1>4 DEF Sampled, w

(* A cycle until its operation.                                            *)
LEMMA FetchedType ==
    ASSUME vm \in VmState, vm.pc \in Addr, NEW sync
    PROVE  Fetched(sync) \in VmState /\ Fetched(sync).pc \in Addr
  <1> DEFINE w == Sampled(sync)
  <1>1. w \in VmState /\ w.pc = vm.pc
    BY SampledType
  <1> HIDE DEF w
  <1>2. NextAddr(w.pc) \in Addr /\ NextAddr(w.pc) \in Counter
    BY <1>1, NextAddrType
  <1>3. Fetched(sync) = [w EXCEPT !.pc = NextAddr(w.pc)]
    BY DEF Fetched, w
  <1>4. [w EXCEPT !.pc = NextAddr(w.pc)].pc = NextAddr(w.pc)
    BY <1>1 DEF VmState
  <1> QED BY <1>1, <1>2, <1>3, <1>4, PcType

(* Every word of program memory, loaded or beyond, is an instruction.      *)
LEMMA InstrType ==
    ASSUME prg \in Programs, vm.pc \in Addr
    PROVE  Instr \in Word
  <1>1. prg \in Seq(Word)
    BY ProgramsAssumption
  <1>2. ZeroWord \in Word
    BY DEF ZeroWord, Word, Nibble
  <1>3. CASE vm.pc < Len(prg)
    <2> DEFINE a == vm.pc
    <2>1. a \in Nat
      BY DEF Addr
    <2> HIDE DEF a
    <2>2. a < Len(prg) => prg[a + 1] \in Word
      BY <1>1, <2>1
    <2> QED BY <1>3, <2>2 DEF Instr, instructions, a
  <1>4. CASE ~(vm.pc < Len(prg))
    BY <1>2, <1>4 DEF Instr, instructions
  <1> QED BY <1>3, <1>4

(* A cycle of the machine, whichever operation it executes.                *)
LEMMA CycleType ==
    ASSUME TypeOK, NEW sync \in Syncs, Cycle(sync)
    PROVE  TypeOK'
  <1> DEFINE v == Fetched(sync)
  <1>0. prg \in Programs /\ vm \in VmState
    BY DEF TypeOK
  <1>1. CASE AssertFails(sync)
    <2>1. Sampled(sync) \in VmState /\ "assert" \in Exit
      BY <1>0, SampledType DEF Exit
    <2> QED BY <1>0, <1>1, <2>1, ExitType DEF AssertFails, Becomes, TypeOK
  <1>2. CASE vm.pc \in Addr
    <2>1. v \in VmState /\ v.pc \in Addr /\ Instr \in Word
      BY <1>0, <1>2, FetchedType, InstrType
    <2> HIDE DEF v
    <2>2. /\ get_addr_rx(Instr) \in Nibble /\ get_addr_ry(Instr) \in Nibble
          /\ get_addr_rx(Instr) \in Byte /\ get_addr_ry(Instr) \in Byte
          /\ get_addr_rg_in(v, Instr) \in Byte /\ get_addr_rg_out(v, Instr) \in Byte
          /\ get_addr_pointer(Instr) \in Byte /\ get_addr_indirect(v, Instr) \in Byte
          /\ get_val_ry(v, Instr) \in Nibble /\ get_val_r0(v) \in Nibble
          /\ get_val_indirect(v, Instr) \in Nibble /\ get_val_literal(Instr) \in Nibble
          /\ get_val_byte_literal(Instr) \in Byte /\ get_val_crumb_literal(Instr) \in 0..3
          /\ R0 \in Byte /\ R0 \in Nibble
      BY <2>1, OperandTypes, Addresses
    <2>3. \A w \in VmState : Becomes(w) => TypeOK'
      BY <1>0 DEF Becomes, TypeOK
    <2>4. CASE Add(sync) BY <2>1, <2>2, <2>3, <2>4, ArithmeticTypes DEF Add, v
    <2>5. CASE Adc(sync) BY <2>1, <2>2, <2>3, <2>5, ArithmeticTypes DEF Adc, v
    <2>6. CASE Sub(sync) BY <2>1, <2>2, <2>3, <2>6, ArithmeticTypes DEF Sub, v
    <2>7. CASE Sbb(sync) BY <2>1, <2>2, <2>3, <2>7, ArithmeticTypes DEF Sbb, v
    <2>8. CASE Or(sync)  BY <2>1, <2>2, <2>3, <2>8, LogicTypes DEF Or, v
    <2>9. CASE And(sync) BY <2>1, <2>2, <2>3, <2>9, LogicTypes DEF And, v
    <2>10. CASE Xor(sync) BY <2>1, <2>2, <2>3, <2>10, LogicTypes DEF Xor, v
    <2>11. CASE Mov(sync)
      <3>1. \E s : s \in Seed
        <4>1. [b0 |-> 0, b1 |-> 0, b2 |-> 0, b3 |-> 0] \in Seed BY DEF Seed, Byte
        <4> QED BY <4>1
      <3>2. \A a \in Byte, r \in Nibble, src \in Nibble, nn \in Byte, fresh \in Seed :
               /\ op_mov(v, a, src) \in VmState
               /\ op_mov_jump(v, r, src) \in VmState
               /\ op_mov_byte(v, PCM, nn) \in VmState
               /\ op_mov_from(v, a) \in VmState
               /\ op_mov_to(v, a, fresh) \in VmState
        BY <2>1, MoveTypes
      <3>3. RandomSeeds \subseteq Seed
        BY EnvironmentAssumption
      <3> QED BY <2>2, <2>3, <2>11, <3>1, <3>2, <3>3 DEF Mov, v
    <2>12. CASE Jr(sync)  BY <2>1, <2>2, <2>3, <2>12, SkipTypes DEF Jr, v
    <2>13. CASE Cp(sync)  BY <2>1, <2>2, <2>3, <2>13, ArithmeticTypes DEF Cp, v
    <2>14. CASE Inc(sync) BY <2>1, <2>2, <2>3, <2>14, CountTypes DEF Inc, v
    <2>15. CASE Dec(sync) BY <2>1, <2>2, <2>3, <2>15, CountTypes DEF Dec, v
    <2>16. CASE Dsz(sync) BY <2>1, <2>2, <2>3, <2>16, SkipTypes DEF Dsz, v
    <2>17. CASE Exr(sync) BY <2>1, <2>2, <2>3, <2>17, ExchangeType DEF Exr, v
    <2>18. CASE BitTest(sync) BY <2>1, <2>2, <2>3, <2>18, BitTypes DEF BitTest, v
    <2>19. CASE Bset(sync) BY <2>1, <2>2, <2>3, <2>19, BitTypes DEF Bset, v
    <2>20. CASE Bclr(sync) BY <2>1, <2>2, <2>3, <2>20, BitTypes DEF Bclr, v
    <2>21. CASE Btg(sync) BY <2>1, <2>2, <2>3, <2>21, BitTypes DEF Btg, v
    <2>22. CASE Rrc(sync) BY <2>1, <2>2, <2>3, <2>22, LogicTypes DEF Rrc, v
    <2>23. CASE Ret(sync) BY <2>1, <2>2, <2>3, <2>23, ReturnType DEF Ret, v
    <2>24. CASE SkipIf(sync) BY <2>1, <2>2, <2>3, <2>24, SkipTypes DEF SkipIf, v
    <2> QED
      BY <1>1, <2>4, <2>5, <2>6, <2>7, <2>8, <2>9, <2>10, <2>11, <2>12, <2>13, <2>14, <2>15,
         <2>16, <2>17, <2>18, <2>19, <2>20, <2>21, <2>22, <2>23, <2>24 DEF Cycle
  <1>3. CASE vm.pc \notin Addr
    BY <1>1, <1>3 DEF Cycle, Add, Adc, Sub, Sbb, Or, And, Xor, Mov, Jr, Cp, Inc, Dec, Dsz,
       Exr, BitTest, Bset, Bclr, Btg, Rrc, Ret, SkipIf, Narrow, Wide, CanFetch
  <1> QED BY <1>2, <1>3

(* A key or a move of the page between two cycles.                         *)
LEMMA KeyTypes ==
    ASSUME TypeOK,
           (\E k \in Keys : KeyPress(k)) \/ KeyRelease \/ (\E d \in PageMoves : MovePage(d))
    PROVE  TypeOK'
  <1>0. prg \in Programs /\ vm \in VmState
    BY DEF TypeOK
  <1>1. \A w \in VmState : Becomes(w) => TypeOK'
    BY <1>0 DEF Becomes, TypeOK
  <1>2. ASSUME NEW k \in Keys, KeyPress(k) PROVE TypeOK'
    <2>1. 7 \in Nibble /\ k \in Nibble
      BY EnvironmentAssumption DEF Nibble
    <2>2. Store(Store(vm, KEY_STATUS, 7), KEY_REG, k) \in VmState
      BY <1>0, <2>1, StoreType, Addresses
    <2> QED BY <1>1, <1>2, <2>2 DEF KeyPress
  <1>3. CASE KeyRelease
    <2>1. ClearBit(ClearBit(vm, KEY_STATUS, LAST_PRESS), KEY_STATUS, ANY_PRESS) \in VmState
      BY <1>0, SetBitType, Addresses
    <2> QED BY <1>1, <1>3, <2>1 DEF KeyRelease
  <1>4. ASSUME NEW d \in PageMoves, MovePage(d) PROVE TypeOK'
    <2>1. vm.mem[PAGE] \in Nibble /\ d \in Int
      BY <1>0, MemType, Addresses, EnvironmentAssumption
    <2>2. (vm.mem[PAGE] + d) % 16 \in Nibble
      <3>1. vm.mem[PAGE] + d \in Int BY <2>1 DEF Nibble
      <3> QED BY <3>1, Masks
    <2>3. Store(vm, PAGE, (vm.mem[PAGE] + d) % 16) \in VmState
      BY <1>0, <2>2, StoreType, Addresses
    <2> QED BY <1>1, <1>4, <2>3 DEF MovePage
  <1> QED BY <1>2, <1>3, <1>4

(* The machine after vm_init.                                              *)
LEMMA InitType == Init => TypeOK
  <1> SUFFICES ASSUME prg \in Programs, NEW seed \in RandomSeeds, vm = vm_init(seed)
               PROVE  TypeOK
    BY DEF Init
  <1>1. seed \in Seed /\ seed_to_nibble(seed) \in Nibble
    BY EnvironmentAssumption, SeedTypes
  <1>2. 3 \in Nibble /\ 2 \in Nibble /\ 15 \in Nibble /\ 0 \in Nibble /\ 0 \in Counter
        /\ 0 \in Depth /\ {} \in Flags /\ "none" \in Exit
    BY NibbleRange, CounterRange DEF Depth, MAX_STACK_DEPTH, Flags, Exit
  <1> DEFINE mem == [a \in Byte |-> CASE a = SER_CTRL -> 3
                                     [] a = AUTO_OFF -> 2
                                     [] a = DIMMER   -> 15
                                     [] a = RANDOM   -> seed_to_nibble(seed)
                                     [] OTHER        -> 0]
  <1>3. mem \in [Byte -> Nibble]
    BY <1>1, <1>2
  <1>4. vm = [mem |-> mem, pc |-> 0, sp |-> 0, flags |-> {}, seed |-> seed, exit |-> "none"]
    BY DEF vm_init
  <1> HIDE DEF mem
  <1> QED BY <1>1, <1>2, <1>3, <1>4 DEF TypeOK, VmState

(* Whatever program is loaded, whenever the sync timer elapses and          *)
(* whichever keys are pressed: every word of memory stays a nibble, the    *)
(* stack pointer stays within its five frames, and the program is the one  *)
(* that was loaded.                                                        *)
THEOREM TypeCorrect == Spec => []TypeOK
  <1>1. Init => TypeOK
    BY InitType
  <1>2. TypeOK /\ [Next]_vars => TypeOK'
    <2> SUFFICES ASSUME TypeOK, [Next]_vars PROVE TypeOK'
      OBVIOUS
    <2>1. CASE \E sync \in Syncs : Cycle(sync)
      BY <2>1, CycleType
    <2>2. CASE (\E k \in Keys : KeyPress(k)) \/ KeyRelease \/ \E d \in PageMoves : MovePage(d)
      BY <2>2, KeyTypes
    <2>3. CASE UNCHANGED vars
      BY <2>3 DEF vars, TypeOK
    <2> QED BY <2>1, <2>2, <2>3 DEF Next
  <1> QED BY <1>1, <1>2, PTL DEF Spec
=============================================================================
