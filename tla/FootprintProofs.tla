--------------------------- MODULE FootprintProofs ---------------------------
(***************************************************************************)
(* What each operation of Vm leaves alone, for every program and every     *)
(* environment, the action properties that follow from it, and that the    *)
(* calls and returns of Vm are those of CallStack.                         *)
(***************************************************************************)
EXTENDS VmProofs

(* From machine v to machine w no word of memory outside D changes, no     *)
(* call or return happens and the process does not end.                    *)
Touches(v, w, D) ==
    /\ v \in VmState /\ w \in VmState
    /\ w.sp = v.sp /\ w.exit = v.exit
    /\ \A a \in Byte \ D : w.mem[a] = v.mem[a]

(* A machine touches nothing on its way to itself.                         *)
LEMMA TouchNothing ==
    ASSUME NEW v \in VmState
    PROVE  Touches(v, v, {})
  BY DEF Touches

(* Two footprints, one after the other.                                    *)
LEMMA TouchChain ==
    ASSUME NEW u, NEW v, NEW w, NEW D, NEW E, NEW F,
           Touches(u, v, D), Touches(v, w, E), D \subseteq F, E \subseteq F
    PROVE  Touches(u, w, F)
  BY DEF Touches

(* A footprint may be named larger than it is.                             *)
LEMMA TouchMore ==
    ASSUME NEW v, NEW w, NEW D, NEW F, Touches(v, w, D), D \subseteq F
    PROVE  Touches(v, w, F)
  BY DEF Touches

(* The footprint of a store is its word.                                   *)
LEMMA TouchStore ==
    ASSUME NEW v \in VmState, NEW b \in Byte, NEW x \in Nibble
    PROVE  Touches(v, Store(v, b, x), {b})
  <1>1. v.mem \in [Byte -> Nibble]
    BY FieldTypes
  <1>2. Store(v, b, x).mem = [v.mem EXCEPT ![b] = x]
    BY StoreMem
  <1>3. \A a \in Byte \ {b} : Store(v, b, x).mem[a] = v.mem[a]
    BY <1>1, <1>2
  <1> QED BY <1>3, StoreType, StoreFields DEF Touches

(* A flag is outside memory.                                               *)
LEMMA TouchFlag ==
    ASSUME NEW v \in VmState, NEW f \in Flag, NEW up
    PROVE  Touches(v, SetFlag(v, f, up), {})
  <1>1. SetFlag(v, f, up) \in VmState
    BY SetFlagType
  <1>2. /\ SetFlag(v, f, up).mem = v.mem /\ SetFlag(v, f, up).sp = v.sp
        /\ SetFlag(v, f, up).exit = v.exit
    BY SetFlagFields
  <1> QED BY <1>1, <1>2 DEF Touches

(* The footprint of a bit set or cleared is its word.                      *)
LEMMA TouchBit ==
    ASSUME NEW v \in VmState, NEW b \in Byte, NEW k \in 0..3
    PROVE  Touches(v, SetBit(v, b, k), {b}) /\ Touches(v, ClearBit(v, b, k), {b})
  BY MemType, OneBit, TouchStore DEF SetBit, ClearBit

(* A jump touches no memory.                                               *)
LEMMA TouchPc ==
    ASSUME NEW v \in VmState, NEW n \in Counter
    PROVE  Touches(v, [v EXCEPT !.pc = n], {})
  <1>1. /\ [v EXCEPT !.pc = n].mem = v.mem /\ [v EXCEPT !.pc = n].sp = v.sp
        /\ [v EXCEPT !.pc = n].exit = v.exit
    BY DEF VmState
  <1> QED BY <1>1, PcType DEF Touches

(* Nor does a new seed.                                                    *)
LEMMA TouchSeed ==
    ASSUME NEW u, NEW v, NEW D, Touches(u, v, D), NEW s \in Seed
    PROVE  Touches(u, [v EXCEPT !.seed = s], D) /\ [v EXCEPT !.seed = s].pc = v.pc
  <1> DEFINE w == [v EXCEPT !.seed = s]
  <1>1. v \in VmState
    BY DEF Touches
  <1>2. w \in VmState
    BY <1>1, SeedType
  <1>3. w.mem = v.mem /\ w.sp = v.sp /\ w.exit = v.exit /\ w.pc = v.pc
    BY <1>1 DEF VmState
  <1> HIDE DEF w
  <1>4. Touches(u, w, D)
    BY <1>2, <1>3 DEF Touches
  <1> QED BY <1>3, <1>4 DEF w

-----------------------------------------------------------------------------
(* The operations that neither call, jump nor skip.                        *)

(* The flags are kept in no other word than RD_FLAGS.                      *)
LEMMA TouchFlags ==
    ASSUME NEW v \in VmState, NEW r, NEW s
    PROVE  /\ Touches(v, update_zero_flag(r, v), {})
           /\ Touches(v, update_carry_flag(r, v), {})
           /\ Touches(v, update_borrow_flag(r, v), {})
           /\ Touches(v, update_overflow_flag(s, v), {RD_FLAGS})
  <1>1. /\ Touches(v, update_zero_flag(r, v), {})
        /\ Touches(v, update_carry_flag(r, v), {})
        /\ Touches(v, update_borrow_flag(r, v), {})
    BY TouchFlag DEF update_zero_flag, update_carry_flag, update_borrow_flag, Flag
  <1>2. \A up \in BOOLEAN : Touches(v, SetFlag(v, "V", up), {})
    BY TouchFlag DEF Flag
  <1>3. Touches(v, SetBit(SetFlag(v, "V", TRUE), RD_FLAGS, V_FLAG), {RD_FLAGS})
    <2> DEFINE w == SetFlag(v, "V", TRUE)
    <2>1. Touches(v, w, {}) /\ w \in VmState BY <1>2 DEF Touches
    <2> HIDE DEF w
    <2>2. Touches(w, SetBit(w, RD_FLAGS, V_FLAG), {RD_FLAGS})
      BY <2>1, TouchBit, Addresses
    <2>3. Touches(v, SetBit(w, RD_FLAGS, V_FLAG), {RD_FLAGS})
      BY <2>1, <2>2, TouchChain
    <2> QED BY <2>3 DEF w
  <1>4. Touches(v, ClearBit(SetFlag(v, "V", FALSE), RD_FLAGS, V_FLAG), {RD_FLAGS})
    <2> DEFINE w == SetFlag(v, "V", FALSE)
    <2>1. Touches(v, w, {}) /\ w \in VmState BY <1>2 DEF Touches
    <2> HIDE DEF w
    <2>2. Touches(w, ClearBit(w, RD_FLAGS, V_FLAG), {RD_FLAGS})
      BY <2>1, TouchBit, Addresses
    <2>3. Touches(v, ClearBit(w, RD_FLAGS, V_FLAG), {RD_FLAGS})
      BY <2>1, <2>2, TouchChain
    <2> QED BY <2>3 DEF w
  <1> QED BY <1>1, <1>3, <1>4 DEF update_overflow_flag

(* Z, then C, then V, after the result is stored or without storing it.    *)
LEMMA TouchResult ==
    ASSUME NEW v, NEW w, NEW D, Touches(v, w, D), NEW r, NEW s
    PROVE  /\ Touches(v, update_overflow_flag(s,
                           update_carry_flag(r, update_zero_flag(r, w))), D \cup {RD_FLAGS})
           /\ Touches(v, update_overflow_flag(s,
                           update_borrow_flag(r, update_zero_flag(r, w))), D \cup {RD_FLAGS})
  <1> DEFINE z == update_zero_flag(r, w)
             c == update_carry_flag(r, z)
             b == update_borrow_flag(r, z)
  <1>1. w \in VmState BY DEF Touches
  <1>2. Touches(w, z, {}) BY <1>1, TouchFlags
  <1>3. z \in VmState BY <1>2 DEF Touches
  <1>4. Touches(v, z, D) BY <1>2, TouchChain
  <1> HIDE DEF z
  <1>5. Touches(z, c, {}) /\ Touches(z, b, {}) BY <1>3, TouchFlags
  <1>6. c \in VmState /\ b \in VmState BY <1>5 DEF Touches
  <1>7. Touches(v, c, D) /\ Touches(v, b, D) BY <1>4, <1>5, TouchChain
  <1> HIDE DEF c, b
  <1>8. /\ Touches(c, update_overflow_flag(s, c), {RD_FLAGS})
        /\ Touches(b, update_overflow_flag(s, b), {RD_FLAGS})
    BY <1>6, TouchFlags
  <1>9. /\ Touches(v, update_overflow_flag(s, c), D \cup {RD_FLAGS})
        /\ Touches(v, update_overflow_flag(s, b), D \cup {RD_FLAGS})
    BY <1>7, <1>8, TouchChain
  <1> QED BY <1>9 DEF c, b, z

(* ADD, ADC, SUB, SBB and CP write their destination and RD_FLAGS.         *)
LEMMA TouchArithmetic ==
    ASSUME NEW v \in VmState, NEW dst \in Byte, NEW src \in Nibble
    PROVE  /\ Touches(v, op_add(v, dst, src), {dst, RD_FLAGS})
           /\ Touches(v, op_adc(v, dst, src), {dst, RD_FLAGS})
           /\ Touches(v, op_sub(v, dst, src), {dst, RD_FLAGS})
           /\ Touches(v, op_sbb(v, dst, src), {dst, RD_FLAGS})
           /\ Touches(v, op_cp(v, dst, src), {dst, RD_FLAGS})
  <1>1. \A x \in Int : Touches(v, Store(v, dst, UInt8(x) % 16), {dst})
    <2>1. \A x \in Int : UInt8(x) % 16 \in Nibble
      BY DEF UInt8, Nibble
    <2> QED BY <2>1, TouchStore
  <1>2. \A r, s : \A w :
           Touches(v, w, {dst}) =>
             /\ Touches(v, update_overflow_flag(s,
                             update_carry_flag(r, update_zero_flag(r, w))), {dst, RD_FLAGS})
             /\ Touches(v, update_overflow_flag(s,
                             update_borrow_flag(r, update_zero_flag(r, w))), {dst, RD_FLAGS})
    <2> SUFFICES ASSUME NEW r, NEW s, NEW w, Touches(v, w, {dst})
                 PROVE  /\ Touches(v, update_overflow_flag(s,
                               update_carry_flag(r, update_zero_flag(r, w))), {dst, RD_FLAGS})
                        /\ Touches(v, update_overflow_flag(s,
                               update_borrow_flag(r, update_zero_flag(r, w))), {dst, RD_FLAGS})
      OBVIOUS
    <2>1. {dst} \cup {RD_FLAGS} = {dst, RD_FLAGS} OBVIOUS
    <2> QED BY <2>1, TouchResult
  <1>3. /\ v.mem[dst] + src \in Int /\ v.mem[dst] + src + Carry(v) \in Int
        /\ v.mem[dst] - src \in Int /\ v.mem[dst] - src - (1 - Carry(v)) \in Int
    <2>1. \A x, y, c \in Int : /\ x + y \in Int /\ x + y + c \in Int
                              /\ x - y \in Int /\ x - y - (1 - c) \in Int
      OBVIOUS
    <2>2. v.mem[dst] \in Int BY MemType DEF Nibble
    <2>3. src \in Int /\ Carry(v) \in Int BY DEF Nibble, Carry
    <2> QED BY ONLY <2>1, <2>2, <2>3
  <1>4. Touches(v, op_add(v, dst, src), {dst, RD_FLAGS}) BY <1>1, <1>2, <1>3 DEF op_add
  <1>5. Touches(v, op_adc(v, dst, src), {dst, RD_FLAGS}) BY <1>1, <1>2, <1>3 DEF op_adc
  <1>6. Touches(v, op_sub(v, dst, src), {dst, RD_FLAGS}) BY <1>1, <1>2, <1>3 DEF op_sub
  <1>7. Touches(v, op_sbb(v, dst, src), {dst, RD_FLAGS}) BY <1>1, <1>2, <1>3 DEF op_sbb
  <1>8. Touches(v, op_cp(v, dst, src), {dst, RD_FLAGS})
    <2>1. Touches(v, v, {dst}) BY TouchNothing, TouchMore
    <2> QED BY <1>2, <2>1 DEF op_cp
  <1> QED BY <1>4, <1>5, <1>6, <1>7, <1>8

(* OR, AND, XOR and RRC write their destination.                           *)
LEMMA TouchLogic ==
    ASSUME NEW v \in VmState, NEW dst \in Byte, NEW src \in Nibble, NEW literal
    PROVE  /\ Touches(v, op_or(v, dst, src, literal), {dst})
           /\ Touches(v, op_and(v, dst, src, literal), {dst})
           /\ Touches(v, op_xor(v, dst, src, literal), {dst})
           /\ Touches(v, op_rrc(v, dst), {dst})
  <1>1. v.mem[dst] \in Nibble
    BY MemType
  <1>2. \A r \in Nibble : Touches(v, update_zero_flag(r, Store(v, dst, r)), {dst})
    <2> SUFFICES ASSUME NEW r \in Nibble
                 PROVE  Touches(v, update_zero_flag(r, Store(v, dst, r)), {dst})
      OBVIOUS
    <2> DEFINE w == Store(v, dst, r)
    <2>1. Touches(v, w, {dst}) /\ w \in VmState BY TouchStore, StoreType
    <2> HIDE DEF w
    <2>2. Touches(w, update_zero_flag(r, w), {}) BY <2>1, TouchFlags
    <2>3. Touches(v, update_zero_flag(r, w), {dst}) BY <2>1, <2>2, TouchChain
    <2> QED BY <2>3 DEF w
  <1>3. \A w : \A up : Touches(v, w, {dst}) => Touches(v, SetFlag(w, "C", up), {dst})
    <2> SUFFICES ASSUME NEW w, NEW up, Touches(v, w, {dst})
                 PROVE  Touches(v, SetFlag(w, "C", up), {dst})
      OBVIOUS
    <2>1. w \in VmState BY DEF Touches
    <2>2. Touches(w, SetFlag(w, "C", up), {}) BY <2>1, TouchFlag DEF Flag
    <2> QED BY <2>2, TouchChain
  <1>4. Touches(v, op_or(v, dst, src, literal), {dst}) BY <1>1, <1>2, <1>3, Bits DEF op_or
  <1>5. Touches(v, op_and(v, dst, src, literal), {dst}) BY <1>1, <1>2, <1>3, Bits DEF op_and
  <1>6. Touches(v, op_xor(v, dst, src, literal), {dst}) BY <1>1, <1>2, <1>3, Bits DEF op_xor
  <1>7. Touches(v, op_rrc(v, dst), {dst})
    <2> DEFINE result == v.mem[dst] \div 2 + 8 * Carry(v)
               w      == SetFlag(v, "C", v.mem[dst] % 2 = 1)
               s      == Store(w, dst, result)
    <2>1. result \in Nibble BY <1>1 DEF Nibble, Carry
    <2>2. Touches(v, w, {}) /\ w \in VmState BY TouchFlag DEF Flag, Touches
    <2> HIDE DEF result, w
    <2>3. Touches(w, s, {dst}) /\ s \in VmState BY <2>1, <2>2, TouchStore, StoreType
    <2> HIDE DEF s
    <2>4. Touches(s, update_zero_flag(result, s), {}) BY <2>3, TouchFlags
    <2>5. Touches(v, s, {dst}) BY <2>2, <2>3, TouchChain
    <2>6. Touches(v, update_zero_flag(result, s), {dst}) BY <2>4, <2>5, TouchChain
    <2> QED BY <2>6 DEF op_rrc, s, w, result
  <1> QED BY <1>4, <1>5, <1>6, <1>7

(* JR and SKIP write nothing, DSZ its register.                            *)
LEMMA TouchSkip ==
    ASSUME NEW v \in VmState, NEW dst \in Byte, NEW nn \in Byte, NEW m \in 0..3, NEW cnd
    PROVE  /\ Touches(v, op_jr(v, nn), {}) /\ Touches(v, op_dsz(v, dst), {dst})
           /\ Touches(v, op_skip(v, cnd, m), {})
  <1>1. \A w \in VmState, n \in Int : Touches(w, Skip(w, n), {})
    <2> SUFFICES ASSUME NEW w \in VmState, NEW n \in Int
                 PROVE  Touches(w, Skip(w, n), {})
      OBVIOUS
    <2>1. UInt16(w.pc + n) \in Counter
      BY FieldTypes, Relative
    <2> QED BY <2>1, TouchPc DEF Skip
  <1>2. Touches(v, op_jr(v, nn), {})
    <2>1. (IF nn < 128 THEN nn ELSE nn - 256) \in Int BY DEF Byte
    <2> QED BY <1>1, <2>1 DEF op_jr
  <1>3. Touches(v, op_dsz(v, dst), {dst})
    <2> DEFINE result == UInt8(v.mem[dst] - 1) % 16
               w      == Store(v, dst, result)
    <2>1. result \in Nibble
      <3>1. v.mem[dst] \in Nibble BY MemType
      <3> QED BY <3>1 DEF UInt8, Nibble
    <2> HIDE DEF result
    <2>2. Touches(v, w, {dst}) /\ w \in VmState BY <2>1, TouchStore, StoreType
    <2> HIDE DEF w
    <2>3. Touches(w, Skip(w, 1), {}) BY <1>1, <2>2
    <2>4. Touches(v, Skip(w, 1), {dst}) BY <2>2, <2>3, TouchChain
    <2> QED BY <2>2, <2>4 DEF op_dsz, w, result
  <1>4. Touches(v, op_skip(v, cnd, m), {})
    BY <1>1, TouchNothing DEF op_skip
  <1> QED BY <1>2, <1>3, <1>4

(* BSET, BCLR and BTG touch their register; BIT touches none.              *)
LEMMA TouchBits ==
    ASSUME NEW v \in VmState, NEW dst \in Byte, NEW m \in 0..3
    PROVE  /\ Touches(v, op_bit(v, dst, m), {}) /\ Touches(v, op_bset(v, dst, m), {dst})
           /\ Touches(v, op_bclr(v, dst, m), {dst}) /\ Touches(v, op_btg(v, dst, m), {dst})
  BY TouchFlag, TouchBit DEF op_bit, op_bset, op_bclr, op_btg, Flag

(* EXR writes the registers and as many words of the alternate page.       *)
LEMMA TouchExchange ==
    ASSUME NEW v \in VmState, NEW n \in Nibble
    PROVE  Touches(v, op_exr(v, n),
                   Nibble \cup {a \in Byte : a >= ALT /\ (a - ALT < n \/ (n = 0 /\ a < PAGE))})
  <1> DEFINE size == IF n = 0 THEN PAGE_SIZE ELSE n
             D    == Nibble \cup {a \in Byte : a >= ALT /\ (a - ALT < n \/ (n = 0 /\ a < PAGE))}
             mem  == [a \in Byte |->
                        IF a < size THEN v.mem[ALT + a]
                        ELSE IF a >= ALT /\ a < ALT + size THEN v.mem[a - ALT]
                        ELSE v.mem[a]]
  <1>1. op_exr(v, n) = [v EXCEPT !.mem = mem]
    BY DEF op_exr
  <1>2. \A a \in Byte \ D : ~(a < size) /\ ~(a >= ALT /\ a < ALT + size)
    BY DEF Nibble, Byte, ALT, PAGE, PAGE_SIZE
  <1>3. \A a \in Byte \ D : mem[a] = v.mem[a]
    BY <1>2
  <1> HIDE DEF D, mem
  <1>4. op_exr(v, n).mem = mem /\ op_exr(v, n).sp = v.sp /\ op_exr(v, n).exit = v.exit
    BY <1>1 DEF VmState
  <1>5. Touches(v, op_exr(v, n), D)
    BY <1>3, <1>4, ExchangeType DEF Touches
  <1> QED BY <1>5 DEF D

-----------------------------------------------------------------------------
(* The operations that go on to the next instruction.                      *)

(* From machine v to machine w the program counter stays.                  *)
Stays(v, w) == w \in VmState /\ w.pc = v.pc

(* Setting flags and storing a nibble move no program counter.             *)
LEMMA StayUpdates ==
    ASSUME NEW v \in VmState, NEW r, NEW s, NEW up, NEW f \in Flag
    PROVE  /\ Stays(v, v) /\ Stays(v, SetFlag(v, f, up))
           /\ Stays(v, update_zero_flag(r, v)) /\ Stays(v, update_carry_flag(r, v))
           /\ Stays(v, update_borrow_flag(r, v)) /\ Stays(v, update_overflow_flag(s, v))
  <1>1. Stays(v, v) /\ Stays(v, SetFlag(v, f, up))
    BY SetFlagType, SetFlagFields DEF Stays
  <1>2. /\ Stays(v, update_zero_flag(r, v)) /\ Stays(v, update_carry_flag(r, v))
        /\ Stays(v, update_borrow_flag(r, v))
    BY FlagTypes, FlagFields DEF Stays
  <1>3. \A x \in BOOLEAN : SetFlag(v, "V", x) \in VmState /\ SetFlag(v, "V", x).pc = v.pc
    BY SetFlagType, SetFlagFields DEF Flag
  <1>4. \A w \in VmState : /\ SetBit(w, RD_FLAGS, V_FLAG).pc = w.pc
                           /\ ClearBit(w, RD_FLAGS, V_FLAG).pc = w.pc
    BY MemType, OneBit, StoreFields, Addresses DEF SetBit, ClearBit
  <1>5. Stays(v, update_overflow_flag(s, v))
    BY <1>3, <1>4, FlagTypes DEF update_overflow_flag, Stays
  <1> QED BY <1>1, <1>2, <1>5

(* Nor does a store.                                                       *)
LEMMA StayStore ==
    ASSUME NEW v \in VmState, NEW b \in Byte, NEW x \in Nibble
    PROVE  Stays(v, Store(v, b, x))
  BY StoreType, StoreFields DEF Stays

(* Nor do the three flags of a result, after it is stored or without.      *)
LEMMA StayResult ==
    ASSUME NEW v \in VmState, NEW w, Stays(v, w), NEW r, NEW s
    PROVE  /\ Stays(v, update_overflow_flag(s, update_carry_flag(r, update_zero_flag(r, w))))
           /\ Stays(v, update_overflow_flag(s, update_borrow_flag(r, update_zero_flag(r, w))))
  <1> DEFINE z == update_zero_flag(r, w)
             c == update_carry_flag(r, z)
             b == update_borrow_flag(r, z)
  <1>1. "Z" \in Flag BY DEF Flag
  <1>2. z \in VmState /\ z.pc = v.pc BY <1>1, StayUpdates DEF Stays
  <1> HIDE DEF z
  <1>3. c \in VmState /\ c.pc = v.pc /\ b \in VmState /\ b.pc = v.pc
    BY <1>1, <1>2, StayUpdates DEF Stays
  <1> HIDE DEF c, b
  <1>4. Stays(v, update_overflow_flag(s, c)) /\ Stays(v, update_overflow_flag(s, b))
    BY <1>1, <1>3, StayUpdates DEF Stays
  <1> QED BY <1>4 DEF c, b, z

(* ADD, ADC, SUB, SBB and CP.                                              *)
LEMMA StayArithmetic ==
    ASSUME NEW v \in VmState, NEW dst \in Byte, NEW src \in Nibble
    PROVE  /\ Stays(v, op_add(v, dst, src)) /\ Stays(v, op_adc(v, dst, src))
           /\ Stays(v, op_sub(v, dst, src)) /\ Stays(v, op_sbb(v, dst, src))
           /\ Stays(v, op_cp(v, dst, src))
  <1>1. \A x \in Int : Stays(v, Store(v, dst, UInt8(x) % 16))
    <2>1. \A x \in Int : UInt8(x) % 16 \in Nibble
      BY DEF UInt8, Nibble
    <2> QED BY <2>1, StayStore
  <1>2. /\ v.mem[dst] + src \in Int /\ v.mem[dst] + src + Carry(v) \in Int
        /\ v.mem[dst] - src \in Int /\ v.mem[dst] - src - (1 - Carry(v)) \in Int
    <2>1. \A x, y, c \in Int : /\ x + y \in Int /\ x + y + c \in Int
                              /\ x - y \in Int /\ x - y - (1 - c) \in Int
      OBVIOUS
    <2>2. v.mem[dst] \in Int BY MemType DEF Nibble
    <2>3. src \in Int /\ Carry(v) \in Int BY DEF Nibble, Carry
    <2> QED BY ONLY <2>1, <2>2, <2>3
  <1>3. Stays(v, v) BY DEF Stays
  <1>4. Stays(v, op_add(v, dst, src)) BY <1>1, <1>2, StayResult DEF op_add
  <1>5. Stays(v, op_adc(v, dst, src)) BY <1>1, <1>2, StayResult DEF op_adc
  <1>6. Stays(v, op_sub(v, dst, src)) BY <1>1, <1>2, StayResult DEF op_sub
  <1>7. Stays(v, op_sbb(v, dst, src)) BY <1>1, <1>2, StayResult DEF op_sbb
  <1>8. Stays(v, op_cp(v, dst, src)) BY <1>3, StayResult DEF op_cp
  <1> QED BY <1>4, <1>5, <1>6, <1>7, <1>8

(* OR, AND, XOR and RRC.                                                   *)
LEMMA StayLogic ==
    ASSUME NEW v \in VmState, NEW dst \in Byte, NEW src \in Nibble, NEW literal
    PROVE  /\ Stays(v, op_or(v, dst, src, literal)) /\ Stays(v, op_and(v, dst, src, literal))
           /\ Stays(v, op_xor(v, dst, src, literal)) /\ Stays(v, op_rrc(v, dst))
  <1>1. v.mem[dst] \in Nibble /\ "C" \in Flag
    BY MemType DEF Flag
  <1>2. \A w, r : Stays(v, w) /\ r \in Nibble => Stays(v, update_zero_flag(r, Store(w, dst, r)))
    <2> SUFFICES ASSUME NEW w, NEW r \in Nibble, Stays(v, w)
                 PROVE  Stays(v, update_zero_flag(r, Store(w, dst, r)))
      OBVIOUS
    <2> DEFINE x == Store(w, dst, r)
    <2>1. w \in VmState /\ w.pc = v.pc BY DEF Stays
    <2>2. x \in VmState /\ x.pc = v.pc BY <2>1, StoreType, StoreFields
    <2> HIDE DEF x
    <2>3. update_zero_flag(r, x) \in VmState /\ update_zero_flag(r, x).pc = v.pc
      BY <2>2, FlagTypes, FlagFields
    <2> QED BY <2>3 DEF x, Stays
  <1>3. \A w, up : Stays(v, w) => Stays(v, SetFlag(w, "C", up))
    <2> SUFFICES ASSUME NEW w, NEW up, Stays(v, w) PROVE Stays(v, SetFlag(w, "C", up))
      OBVIOUS
    <2>1. w \in VmState /\ w.pc = v.pc BY DEF Stays
    <2>2. SetFlag(w, "C", up) \in VmState /\ SetFlag(w, "C", up).pc = w.pc
      BY <1>1, <2>1, SetFlagType, SetFlagFields
    <2> QED BY <2>1, <2>2 DEF Stays
  <1>0. Stays(v, v) BY DEF Stays
  <1>4. Stays(v, op_or(v, dst, src, literal)) BY <1>0, <1>1, <1>2, <1>3, Bits DEF op_or
  <1>5. Stays(v, op_and(v, dst, src, literal)) BY <1>0, <1>1, <1>2, <1>3, Bits DEF op_and
  <1>6. Stays(v, op_xor(v, dst, src, literal)) BY <1>0, <1>1, <1>2, <1>3, Bits DEF op_xor
  <1>7. Stays(v, op_rrc(v, dst))
    <2> DEFINE result == v.mem[dst] \div 2 + 8 * Carry(v)
               w      == SetFlag(v, "C", v.mem[dst] % 2 = 1)
    <2>1. result \in Nibble BY <1>1 DEF Nibble, Carry
    <2>2. Stays(v, w) BY <1>0, <1>3
    <2> HIDE DEF result, w
    <2>3. Stays(v, update_zero_flag(result, Store(w, dst, result)))
      BY <1>2, <2>1, <2>2
    <2> QED BY <2>3 DEF op_rrc, w, result
  <1> QED BY <1>4, <1>5, <1>6, <1>7

(* BIT, BSET, BCLR, BTG and EXR.                                           *)
LEMMA StayBits ==
    ASSUME NEW v \in VmState, NEW dst \in Byte, NEW m \in 0..3, NEW n \in Nibble
    PROVE  /\ Stays(v, op_bit(v, dst, m)) /\ Stays(v, op_bset(v, dst, m))
           /\ Stays(v, op_bclr(v, dst, m)) /\ Stays(v, op_btg(v, dst, m))
           /\ Stays(v, op_exr(v, n))
  <1>1. SetBit(v, dst, m).pc = v.pc /\ ClearBit(v, dst, m).pc = v.pc
    BY MemType, OneBit, StoreFields DEF SetBit, ClearBit
  <1>2. Stays(v, op_bit(v, dst, m))
    BY SetFlagType, SetFlagFields DEF op_bit, Stays, Flag
  <1>3. op_exr(v, n).pc = v.pc
    BY DEF op_exr, VmState
  <1> QED BY <1>1, <1>2, <1>3, BitTypes, ExchangeType DEF op_bset, op_bclr, op_btg, Stays

(* MOV PC,NN and MOV R0,[NN].                                              *)
LEMMA StayMoves ==
    ASSUME NEW v \in VmState, NEW nn \in Byte, NEW a \in Byte
    PROVE  Stays(v, op_mov_byte(v, PCM, nn)) /\ Stays(v, op_mov_from(v, a))
  <1>1. Stays(v, op_mov_byte(v, PCM, nn))
    <2> DEFINE w == Store(v, PCM, LowNibble(nn))
    <2>1. w \in VmState /\ w.pc = v.pc BY Masks, Addresses, StoreType, StoreFields
    <2> HIDE DEF w
    <2>2. Stays(v, Store(w, PCM + 1, HighNibble(nn)))
      BY <2>1, Masks, Addresses, StoreType, StoreFields DEF Stays
    <2> QED BY <2>2 DEF op_mov_byte, w
  <1> DEFINE r == Store(v, R0, v.mem[a])
  <1>2. r \in VmState /\ r.pc = v.pc
    <2>1. v.mem[a] \in Nibble /\ R0 \in Byte BY MemType, Addresses
    <2> QED BY <2>1, StoreType, StoreFields
  <1>3. Stays(v, sfr_read(v, a))
    <2> DEFINE s == next_seed(v.seed)
               u == Store(r, a, seed_to_nibble(s))
    <2> HIDE DEF r
    <2>1. s \in Seed /\ seed_to_nibble(s) \in Nibble BY FieldTypes, SeedTypes
    <2>2. u \in VmState /\ u.pc = v.pc BY <1>2, <2>1, StoreType, StoreFields
    <2>3. /\ Stays(v, ClearBit(r, a, USER_SYNC)) /\ Stays(v, ClearBit(r, a, JUST_PRESS))
      <3>1. /\ ClearBit(r, a, USER_SYNC).pc = r.pc /\ ClearBit(r, a, JUST_PRESS).pc = r.pc
        <4>1. \A k \in 0..3 : WithoutBit(r.mem[a], k) \in Nibble BY <1>2, MemType, OneBit
        <4> QED BY <1>2, <4>1, StoreFields, Addresses DEF ClearBit
      <3> QED BY <1>2, <3>1, SetBitType, Addresses DEF Stays
    <2> HIDE DEF u, s
    <2>4. Stays(v, [u EXCEPT !.seed = s])
      <3>1. [u EXCEPT !.seed = s].pc = u.pc BY <2>2 DEF VmState
      <3> QED BY <2>1, <2>2, <3>1, SeedType DEF Stays
    <2>5. sfr_read(v, a) \in {r, ClearBit(r, a, USER_SYNC), ClearBit(r, a, JUST_PRESS),
                              [u EXCEPT !.seed = s]}
      BY DEF sfr_read, r, u, s
    <2> QED BY <1>2, <2>3, <2>4, <2>5 DEF Stays
  <1> QED BY <1>1, <1>2, <1>3 DEF op_mov_from, Stays

-----------------------------------------------------------------------------
(* Moves, calls and returns.                                               *)

(* The forms of MOV that do not jump: a read of a special function         *)
(* register may change that register, any other write R0 only.             *)
LEMMA TouchMov ==
    ASSUME NEW v \in VmState, NEW a \in Byte, NEW src \in Nibble
    PROVE  Touches(v, op_mov(v, a, src), {a}) /\ op_mov(v, a, src).pc = v.pc
  BY TouchStore, StoreFields DEF op_mov

(* MOV PC,NN touches the two upper registers of the counter.               *)
LEMMA TouchMovByte ==
    ASSUME NEW v \in VmState, NEW nn \in Byte
    PROVE  Touches(v, op_mov_byte(v, PCM, nn), Nibble)
  <1> DEFINE w == Store(v, PCM, LowNibble(nn))
  <1>1. Touches(v, w, {PCM}) /\ w \in VmState BY Masks, Addresses, TouchStore, StoreType
  <1> HIDE DEF w
  <1>2. Touches(w, Store(w, PCM + 1, HighNibble(nn)), {PCM + 1})
    BY <1>1, Masks, Addresses, TouchStore
  <1>3. {PCM} \subseteq Nibble /\ {PCM + 1} \subseteq Nibble BY DEF PCM, Nibble
  <1>4. Touches(v, Store(w, PCM + 1, HighNibble(nn)), Nibble)
    BY <1>1, <1>2, <1>3, TouchChain
  <1> QED BY <1>4 DEF op_mov_byte, w

(* MOV [NN],R0 touches the word it stores to, even when it seeds.          *)
LEMMA TouchMovTo ==
    ASSUME NEW v \in VmState, NEW a \in Byte, NEW fresh \in Seed
    PROVE  Touches(v, op_mov_to(v, a, fresh), {a}) /\ op_mov_to(v, a, fresh).pc = v.pc
  <1>1. v.mem[R0] \in Nibble
    BY MemType, Addresses
  <1>2. Touches(v, Store(v, a, v.mem[R0]), {a}) /\ Store(v, a, v.mem[R0]).pc = v.pc
    BY <1>1, TouchStore, StoreFields
  <1>3. Touches(v, sfr_write(v, a, fresh), {a}) /\ sfr_write(v, a, fresh).pc = v.pc
    <2> DEFINE s == set_rng_seed(v.mem[R0], fresh)
               u == Store(v, a, seed_to_nibble(s))
    <2>1. s \in Seed
      <3>1. \A n \in Nibble : seed_from_nibble(n) \in Seed
        BY DEF seed_from_nibble, Seed, Nibble, Byte
      <3> QED BY <1>1, <3>1 DEF set_rng_seed
    <2> HIDE DEF s
    <2>2. Touches(v, u, {a}) /\ u.pc = v.pc BY <2>1, SeedTypes, TouchStore, StoreFields
    <2> HIDE DEF u
    <2>3. Touches(v, [u EXCEPT !.seed = s], {a}) /\ [u EXCEPT !.seed = s].pc = v.pc
      BY <2>1, <2>2, TouchSeed
    <2>4. sfr_write(v, a, fresh) \in {[u EXCEPT !.seed = s], Store(v, a, v.mem[R0])}
      BY DEF sfr_write, u, s
    <2> QED BY <1>2, <2>3, <2>4
  <1> QED BY <1>2, <1>3 DEF op_mov_to

(* MOV R0,[NN] touches R0 and the special function register it reads.      *)
LEMMA TouchMovFrom ==
    ASSUME NEW v \in VmState, NEW a \in Byte
    PROVE  Touches(v, op_mov_from(v, a), IF is_sfr_address(a) THEN {R0, a} ELSE {R0})
  <1> DEFINE r == Store(v, R0, v.mem[a])
  <1>1. Touches(v, r, {R0}) /\ r \in VmState
    BY MemType, TouchStore, StoreType, Addresses
  <1>2. Touches(v, sfr_read(v, a), {R0, a})
    <2> DEFINE s == next_seed(v.seed)
               u == Store(r, a, seed_to_nibble(s))
    <2> HIDE DEF r
    <2>1. s \in Seed /\ seed_to_nibble(s) \in Nibble BY FieldTypes, SeedTypes
    <2>2. Touches(r, u, {a}) BY <1>1, <2>1, TouchStore
    <2>3. /\ Touches(r, ClearBit(r, a, USER_SYNC), {a})
          /\ Touches(r, ClearBit(r, a, JUST_PRESS), {a})
      BY <1>1, TouchBit, Addresses
    <2> HIDE DEF u, s
    <2>4. \A x : Touches(r, x, {a}) => Touches(v, x, {R0, a})
      BY <1>1, TouchChain
    <2>5. Touches(v, [u EXCEPT !.seed = s], {R0, a})
      BY <2>1, <2>2, <2>4, TouchSeed
    <2>6. Touches(v, r, {R0, a}) BY <1>1, TouchMore
    <2>7. sfr_read(v, a) \in {r, ClearBit(r, a, USER_SYNC), ClearBit(r, a, JUST_PRESS),
                              [u EXCEPT !.seed = s]}
      BY DEF sfr_read, r, u, s
    <2> QED BY <2>3, <2>4, <2>5, <2>6, <2>7
  <1> QED BY <1>1, <1>2 DEF op_mov_from

(* The three words of frame f.                                             *)
FrameWords(f) == FrameAddr(f)..(FrameAddr(f) + 2)

(* The effect of a call, of a sixth one, of a return, and of a return too  *)
(* many: apart from the frame, only registers change.                      *)
Calls(v, w) ==
    /\ w \in VmState
    /\ v.sp < MAX_STACK_DEPTH /\ w.sp = v.sp + 1 /\ w.exit = v.exit
    /\ w.pc \in Addr /\ w.pc = Target(w, JSR)
    /\ \A a \in Byte \ (Nibble \cup FrameWords(v.sp)) : w.mem[a] = v.mem[a]
    /\ Frame(w.mem, v.sp) = v.pc

Overflows(v, w) ==
    /\ w \in VmState
    /\ v.sp = MAX_STACK_DEPTH /\ w.sp = v.sp /\ w.exit = "overflow" /\ w.pc = v.pc
    /\ \A a \in Byte \ Nibble : w.mem[a] = v.mem[a]

Returns(v, w) ==
    /\ w \in VmState
    /\ v.sp > 0 /\ w.sp = v.sp - 1 /\ w.exit = v.exit
    /\ w.pc = Frame(v.mem, v.sp - 1)
    /\ \A a \in Byte \ Nibble : w.mem[a] = v.mem[a]

Underflows(v, w) ==
    /\ w \in VmState
    /\ v.sp = 0 /\ w.sp = v.sp /\ w.exit = "underflow" /\ w.pc = v.pc
    /\ \A a \in Byte \ Nibble : w.mem[a] = v.mem[a]

(* The three nibbles written to the frame are the return address.          *)
LEMMA PushEffect ==
    ASSUME NEW v \in VmState, v.pc \in Addr, v.sp # MAX_STACK_DEPTH
    PROVE  /\ \A a \in Byte \ FrameWords(v.sp) : push(v).mem[a] = v.mem[a]
           /\ Frame(push(v).mem, v.sp) = v.pc
           /\ push(v).exit = v.exit
  <1> DEFINE b0 == FrameAddr(v.sp)
             b1 == b0 + 1
             b2 == b0 + 2
             p  == v.pc
             n0 == p % 16
             n1 == (p \div 16) % 16
             n2 == p \div 256
             w1 == Store(v, b0, n0)
             w2 == Store(w1, b1, n1)
             w3 == Store(w2, b2, n2)
  <1>1. v.sp \in 0..(MAX_STACK_DEPTH - 1)
    <2>1. v.sp \in Depth BY FieldTypes
    <2> QED BY <2>1 DEF Depth, MAX_STACK_DEPTH
  <1>2. b0 \in Byte /\ b1 \in Byte /\ b2 \in Byte
    BY <1>1, FrameAddrs
  <1>3. push(v) = w3
    BY DEF push
  <1>4. FrameWords(v.sp) = {b0, b1, b2} /\ b0 # b1 /\ b0 # b2 /\ b1 # b2
    <2>1. \A x \in Int : /\ x..(x + 2) = {x, x + 1, x + 2}
                         /\ x # x + 1 /\ x # x + 2 /\ x + 1 # x + 2
      OBVIOUS
    <2>2. b0 \in Int
      <3> HIDE DEF b0
      <3> QED BY <1>2 DEF Byte
    <2> HIDE DEF b0
    <2> QED BY <2>1, <2>2 DEF FrameWords, b0
  <1>5. p \in Addr OBVIOUS
  <1> HIDE DEF p
  <1>6. /\ n0 \in Nibble /\ n1 \in Nibble /\ n2 \in Nibble
        /\ n0 + 16 * n1 + 256 * n2 = p
    BY <1>5, AddrRange, NibbleRange
  <1>7. Frame(w3.mem, v.sp) = w3.mem[b0] + 16 * w3.mem[b1] + 256 * w3.mem[b2]
    BY DEF Frame
  <1> HIDE DEF b0, b1, b2, n0, n1, n2
  <1> DEFINE Stored(u, a, x) == /\ Store(u, a, x) \in VmState
                                /\ Store(u, a, x).mem = [u.mem EXCEPT ![a] = x]
                                /\ Store(u, a, x).exit = u.exit
  <1>s. \A u \in VmState, a \in Byte, x \in Nibble : Stored(u, a, x)
    <2> SUFFICES ASSUME NEW u \in VmState, NEW a \in Byte, NEW x \in Nibble
                 PROVE  Stored(u, a, x)
      OBVIOUS
    <2>1. Store(u, a, x) \in VmState
      BY StoreType
    <2>2. Store(u, a, x).mem = [u.mem EXCEPT ![a] = x] /\ Store(u, a, x).exit = u.exit
      BY StoreMem, StoreFields
    <2> QED BY <2>1, <2>2
  <1>8. /\ w1 \in VmState /\ w1.mem = [v.mem EXCEPT ![b0] = n0] /\ w1.exit = v.exit
    BY <1>2, <1>6, <1>s
  <1> HIDE DEF w1
  <1>9. /\ w2 \in VmState /\ w2.mem = [w1.mem EXCEPT ![b1] = n1] /\ w2.exit = v.exit
    BY <1>2, <1>6, <1>8, <1>s
  <1> HIDE DEF w2
  <1>10. w3.mem = [w2.mem EXCEPT ![b2] = n2] /\ w3.exit = v.exit
    BY <1>2, <1>6, <1>9, <1>s
  <1> HIDE DEF w3
  <1>11. v.mem \in [Byte -> Nibble] /\ w1.mem \in [Byte -> Nibble] /\ w2.mem \in [Byte -> Nibble]
    BY <1>8, <1>9, FieldTypes
  <1>12. \A a \in Byte \ {b0, b1, b2} : w3.mem[a] = v.mem[a]
    BY <1>8, <1>9, <1>10, <1>11
  <1>13. w3.mem[b0] = n0 /\ w3.mem[b1] = n1 /\ w3.mem[b2] = n2
    BY <1>2, <1>4, <1>8, <1>9, <1>10, <1>11
  <1>14. Frame(w3.mem, v.sp) = p
    BY <1>6, <1>7, <1>13
  <1> QED BY <1>3, <1>4, <1>10, <1>12, <1>14 DEF p

(* What a write to register dst may do, by the operations that can jump: a *)
(* write to JSR always calls, one to PCL may go anywhere.                  *)
Written(v, w, dst) ==
    IF dst = JSR THEN Calls(v, w) \/ Overflows(v, w)
    ELSE Touches(v, w, Nibble) /\ (dst = PCL \/ w.pc = v.pc)

(* What follows the write.                                                 *)
LEMMA CallOrJumpEffect ==
    ASSUME NEW u, NEW v, Touches(u, v, Nibble), v.pc = u.pc, u.pc \in Addr, NEW dst \in Nibble
    PROVE  Written(u, maybe_call_or_jump(dst, v), dst)
  <1> DEFINE w == maybe_call_or_jump(dst, v)
  <1>0. /\ u \in VmState /\ v \in VmState /\ v.pc \in Addr /\ v.sp = u.sp /\ v.exit = u.exit
        /\ \A a \in Byte \ Nibble : v.mem[a] = u.mem[a]
        /\ JSR # PCL
    BY DEF Touches, JSR, PCL
  <1>1. /\ Target(v, JSR) \in Addr /\ Target(v, PCL) \in Addr
        /\ Target(v, JSR) \in Counter /\ Target(v, PCL) \in Counter
    BY <1>0, TargetType, AddrIsCounter
  <1>2. w \in VmState
    BY <1>0, CallOrJumpType
  <1>3. CASE dst = JSR /\ v.sp = MAX_STACK_DEPTH
    <2>1. w = [v EXCEPT !.exit = "overflow"]
      BY <1>3, <1>0 DEF maybe_call_or_jump
    <2>2. w.mem = v.mem /\ w.sp = v.sp /\ w.pc = v.pc /\ w.exit = "overflow"
      BY <2>1, <1>0 DEF VmState
    <2> HIDE DEF w
    <2>3. Overflows(u, w)
      BY <1>0, <1>2, <1>3, <2>2 DEF Overflows
    <2> QED BY <1>3, <2>3 DEF w, Written
  <1>4. CASE dst = JSR /\ v.sp # MAX_STACK_DEPTH
    <2> DEFINE x == push(v)
    <2>1. w = [x EXCEPT !.sp = @ + 1, !.pc = Target(v, JSR)]
      BY <1>4, <1>0 DEF maybe_call_or_jump
    <2>2. x \in VmState /\ x.sp = v.sp /\ x.exit = v.exit /\ Frame(x.mem, v.sp) = v.pc
          /\ \A a \in Byte \ FrameWords(v.sp) : x.mem[a] = v.mem[a]
      BY <1>0, <1>4, PushType, PushEffect
    <2> HIDE DEF x
    <2>3. w.mem = x.mem /\ w.sp = x.sp + 1 /\ w.pc = Target(v, JSR) /\ w.exit = x.exit
      BY <2>1, <2>2 DEF VmState
    <2>4. u.sp < MAX_STACK_DEPTH
      <3>1. u.sp \in Depth /\ u.sp # MAX_STACK_DEPTH BY <1>0, <1>4, FieldTypes
      <3> QED BY <3>1 DEF Depth, MAX_STACK_DEPTH
    <2> HIDE DEF w
    <2>5. Target(w, JSR) = Target(v, JSR)
      <3>1. v.sp \in Depth BY <1>0, FieldTypes
      <3>2. \A r \in {PCH, PCM, JSR} : r \in Byte \ FrameWords(v.sp)
        BY <3>1 DEF FrameWords, FrameAddr, STACK, Depth, MAX_STACK_DEPTH, PCH, PCM, JSR, Byte
      <3>3. \A r \in {PCH, PCM, JSR} : w.mem[r] = v.mem[r]
        BY <2>2, <2>3, <3>2
      <3> QED BY <3>3 DEF Target
    <2>6. Calls(u, w)
      BY <1>0, <1>1, <1>2, <2>2, <2>3, <2>4, <2>5 DEF Calls
    <2> QED BY <1>4, <2>6 DEF w, Written
  <1>5. CASE dst = PCL
    <2>1. w = [v EXCEPT !.pc = Target(v, PCL)]
      BY <1>5, <1>0 DEF maybe_call_or_jump
    <2>2. Touches(v, w, {})
      BY <1>0, <1>1, <2>1, TouchPc
    <2> HIDE DEF w
    <2>3. Touches(u, w, Nibble)
      BY <2>2, TouchChain
    <2> QED BY <1>0, <1>5, <2>3 DEF w, Written
  <1>6. CASE dst # JSR /\ dst # PCL
    BY <1>6 DEF maybe_call_or_jump, Written
  <1> QED BY <1>3, <1>4, <1>5, <1>6

(* MOV, INC and DEC of a register: the registers, then a call or a jump.   *)
LEMMA JumpEffects ==
    ASSUME NEW v \in VmState, v.pc \in Addr, NEW dst \in Nibble, NEW src \in Nibble
    PROVE  \A w \in {op_mov_jump(v, dst, src), op_inc(v, dst), op_dec(v, dst)} :
              Written(v, w, dst)
  <1>1. dst \in Byte /\ v.mem[dst] \in Nibble /\ {dst} \subseteq Nibble
        /\ {PCM} \subseteq Nibble /\ {PCH} \subseteq Nibble
    BY MemType, Addresses DEF PCM, PCH, Nibble
  <1>2. \A x : x \in Nibble => /\ Touches(v, Store(v, dst, x), Nibble)
                               /\ Store(v, dst, x) \in VmState
                               /\ Store(v, dst, x).pc = v.pc
    <2> SUFFICES ASSUME NEW x \in Nibble
                 PROVE  /\ Touches(v, Store(v, dst, x), Nibble)
                        /\ Store(v, dst, x) \in VmState /\ Store(v, dst, x).pc = v.pc
      OBVIOUS
    <2>1. Touches(v, Store(v, dst, x), {dst})
      BY <1>1, TouchStore
    <2> QED BY <1>1, <2>1, TouchMore, StoreType, StoreFields
  <1>3. \A x \in Int : UInt8(x) % 16 \in Nibble
    BY DEF UInt8, Nibble
  <1>4. \A s, r : Touches(v, s, Nibble) /\ s.pc = v.pc =>
          /\ Touches(v, update_carry_flag(r, update_zero_flag(r, s)), Nibble)
          /\ update_carry_flag(r, update_zero_flag(r, s)).pc = v.pc
          /\ Touches(v, update_borrow_flag(r, update_zero_flag(r, s)), Nibble)
          /\ update_borrow_flag(r, update_zero_flag(r, s)).pc = v.pc
    <2> SUFFICES ASSUME NEW s, NEW r, Touches(v, s, Nibble), s.pc = v.pc
                 PROVE  /\ Touches(v, update_carry_flag(r, update_zero_flag(r, s)), Nibble)
                        /\ update_carry_flag(r, update_zero_flag(r, s)).pc = v.pc
                        /\ Touches(v, update_borrow_flag(r, update_zero_flag(r, s)), Nibble)
                        /\ update_borrow_flag(r, update_zero_flag(r, s)).pc = v.pc
      OBVIOUS
    <2> DEFINE z == update_zero_flag(r, s)
    <2>1. s \in VmState BY DEF Touches
    <2>2. Touches(s, z, {}) /\ z.pc = v.pc BY <2>1, TouchFlags, FlagFields
    <2>3. Touches(v, z, Nibble) /\ z \in VmState
      <3>1. Touches(v, z, Nibble) BY <2>2, TouchChain
      <3> QED BY <3>1 DEF Touches
    <2> HIDE DEF z
    <2>4. /\ Touches(z, update_carry_flag(r, z), {}) /\ update_carry_flag(r, z).pc = v.pc
          /\ Touches(z, update_borrow_flag(r, z), {}) /\ update_borrow_flag(r, z).pc = v.pc
      BY <2>2, <2>3, TouchFlags, FlagFields
    <2>5. /\ Touches(v, update_carry_flag(r, z), Nibble)
          /\ Touches(v, update_borrow_flag(r, z), Nibble)
      BY <2>3, <2>4, TouchChain
    <2> QED BY <2>4, <2>5 DEF z
  <1>5. \A w : \A m, h \in Nibble : Touches(v, w, Nibble) /\ w.pc = v.pc =>
           /\ Touches(v, Store(Store(w, PCM, m), PCH, h), Nibble)
           /\ Store(Store(w, PCM, m), PCH, h).pc = v.pc
    <2> SUFFICES ASSUME NEW w, NEW m \in Nibble, NEW h \in Nibble,
                        Touches(v, w, Nibble), w.pc = v.pc
                 PROVE  /\ Touches(v, Store(Store(w, PCM, m), PCH, h), Nibble)
                        /\ Store(Store(w, PCM, m), PCH, h).pc = v.pc
      OBVIOUS
    <2> DEFINE x == Store(w, PCM, m)
    <2>1. w \in VmState BY DEF Touches
    <2>0. PCM \in Byte /\ PCH \in Byte BY Addresses
    <2>2. Touches(w, x, {PCM}) /\ x.pc = v.pc /\ x \in VmState
      <3>1. Touches(w, x, {PCM}) BY <2>0, <2>1, TouchStore
      <3>2. x.pc = v.pc BY <2>0, <2>1, StoreFields
      <3>3. x \in VmState BY <2>0, <2>1, StoreType
      <3> QED BY <3>1, <3>2, <3>3
    <2>3. Touches(v, x, Nibble) BY <1>1, <2>2, TouchChain
    <2> HIDE DEF x
    <2>4. Touches(x, Store(x, PCH, h), {PCH}) /\ Store(x, PCH, h).pc = v.pc
      BY <2>0, <2>2, TouchStore, StoreFields
    <2>5. Touches(v, Store(x, PCH, h), Nibble) BY <1>1, <2>3, <2>4, TouchChain
    <2> QED BY <2>4, <2>5 DEF x
  <1>6. Written(v, op_mov_jump(v, dst, src), dst)
    BY <1>2, CallOrJumpEffect DEF op_mov_jump
  <1>7. Written(v, op_inc(v, dst), dst)
    <2> DEFINE result == UInt8(v.mem[dst] + 1)
               s      == Store(v, dst, result % 16)
               w      == update_carry_flag(result, update_zero_flag(result, s))
               m      == w.mem[PCM] + 1
               h      == (w.mem[PCH] + m \div 16) % 16
               ripple == IF Carry(w) = 1 /\ dst \in {JSR, PCL}
                         THEN Store(Store(w, PCM, m % 16), PCH, h) ELSE w
    <2>1. Touches(v, s, Nibble) /\ s.pc = v.pc
      <3>1. v.mem[dst] + 1 \in Int BY <1>1 DEF Nibble
      <3> QED BY <3>1, <1>2, <1>3
    <2> HIDE DEF s, result
    <2>2. Touches(v, w, Nibble) /\ w.pc = v.pc
      BY <2>1, <1>4
    <2> HIDE DEF w
    <2>3. m % 16 \in Nibble /\ h \in Nibble
      <3>1. w.mem[PCM] \in Nibble /\ w.mem[PCH] \in Nibble
        BY <2>2, MemType, Addresses DEF Touches
      <3> QED BY <3>1 DEF Nibble
    <2> HIDE DEF m, h
    <2>4. Touches(v, ripple, Nibble) /\ ripple.pc = v.pc
      BY <1>5, <2>2, <2>3
    <2>5. op_inc(v, dst) = maybe_call_or_jump(dst, ripple)
      BY DEF op_inc, ripple, h, m, w, s, result
    <2> HIDE DEF ripple
    <2> QED BY <2>4, <2>5, CallOrJumpEffect
  <1>8. Written(v, op_dec(v, dst), dst)
    <2> DEFINE result == UInt8(v.mem[dst] - 1)
               s      == Store(v, dst, result % 16)
               w      == update_borrow_flag(result, update_zero_flag(result, s))
               m      == UInt8(w.mem[PCM] - 1)
               h      == (w.mem[PCH] - ((m \div 16) % 2)) % 16
               ripple == IF Carry(w) = 0 /\ dst \in {JSR, PCL}
                         THEN Store(Store(w, PCM, m % 16), PCH, h) ELSE w
    <2>1. Touches(v, s, Nibble) /\ s.pc = v.pc
      <3>1. v.mem[dst] - 1 \in Int BY <1>1 DEF Nibble
      <3> QED BY <3>1, <1>2, <1>3
    <2> HIDE DEF s, result
    <2>2. Touches(v, w, Nibble) /\ w.pc = v.pc
      BY <2>1, <1>4
    <2> HIDE DEF w
    <2>3. m % 16 \in Nibble /\ h \in Nibble
      <3>1. w.mem[PCM] \in Nibble /\ w.mem[PCH] \in Nibble
        BY <2>2, MemType, Addresses DEF Touches
      <3>2. m \in Int
        BY <3>1 DEF Nibble, UInt8
      <3> HIDE DEF m
      <3> QED BY <3>1, <3>2 DEF Nibble
    <2> HIDE DEF m, h
    <2>4. Touches(v, ripple, Nibble) /\ ripple.pc = v.pc
      BY <1>5, <2>2, <2>3
    <2>5. op_dec(v, dst) = maybe_call_or_jump(dst, ripple)
      BY DEF op_dec, ripple, h, m, w, s, result
    <2> HIDE DEF ripple
    <2> QED BY <2>4, <2>5, CallOrJumpEffect
  <1> QED BY <1>6, <1>7, <1>8

(* RET returns through the top frame, or there is none.                    *)
LEMMA ReturnEffect ==
    ASSUME NEW v \in VmState, NEW n \in Nibble
    PROVE  Returns(v, op_ret(v, n)) \/ Underflows(v, op_ret(v, n))
  <1> DEFINE r == op_ret(v, n)
  <1>1. r \in VmState
    BY ReturnType
  <1>2. CASE v.sp = 0
    <2>1. r = [v EXCEPT !.exit = "underflow"]
      BY <1>2 DEF op_ret
    <2>2. r.mem = v.mem /\ r.sp = v.sp /\ r.pc = v.pc /\ r.exit = "underflow"
      BY <2>1 DEF VmState
    <2> HIDE DEF r
    <2>3. Underflows(v, r) BY <1>1, <1>2, <2>2 DEF Underflows
    <2> QED BY <2>3 DEF r
  <1>3. CASE v.sp # 0
    <2> DEFINE w == Store(v, R0, n)
               p == Frame(v.mem, v.sp - 1)
    <2>1. w \in VmState /\ Touches(v, w, {R0})
      BY StoreType, TouchStore, Addresses
    <2>2. r = [w EXCEPT !.sp = @ - 1, !.pc = p]
      BY <1>3 DEF op_ret, Frame
    <2>3. {R0} \subseteq Nibble /\ v.sp > 0
      <3>1. v.sp \in Depth BY FieldTypes
      <3> QED BY <1>3, <3>1, Addresses DEF Depth, MAX_STACK_DEPTH
    <2> HIDE DEF w, p
    <2>4. r.mem = w.mem /\ r.sp = w.sp - 1 /\ r.pc = p /\ r.exit = w.exit
      BY <2>1, <2>2 DEF VmState
    <2> HIDE DEF r
    <2>5. Returns(v, r)
      BY <1>1, <2>1, <2>3, <2>4 DEF Returns, Touches, p
    <2> QED BY <2>5 DEF r
  <1> QED BY <1>2, <1>3

-----------------------------------------------------------------------------
(* A whole cycle.                                                          *)

(* Until the operation runs, a cycle writes USER_SYNC and the input port,  *)
(* and the registers of a pointer are read as they were (or as the port).  *)
LEMMA FetchedEffect ==
    ASSUME vm \in VmState, vm.pc \in Addr, NEW sync
    PROVE  /\ Touches(vm, Sampled(sync), {RD_FLAGS, IN_, IN_B})
           /\ Touches(vm, Fetched(sync), {RD_FLAGS, IN_, IN_B})
           /\ Fetched(sync).pc = NextAddr(vm.pc)
           /\ \A r \in Nibble : Fetched(sync).mem[r] = Sampled(FALSE).mem[r]
  <1> DEFINE u(s) == vm_update_user_sync(vm, s)
             b    == IF Bit(vm.mem[WR_FLAGS], IN_OUT_POS) = 1 THEN IN_B ELSE IN_
             D    == {RD_FLAGS, IN_, IN_B}
  <1>1. \A s : Touches(vm, u(s), {RD_FLAGS}) /\ u(s) \in VmState
    <2> SUFFICES ASSUME NEW s PROVE Touches(vm, u(s), {RD_FLAGS})
      BY DEF Touches
    <2>1. Touches(vm, SetBit(vm, RD_FLAGS, USER_SYNC), {RD_FLAGS})
      BY TouchBit, Addresses
    <2>2. Touches(vm, vm, {RD_FLAGS}) BY TouchNothing, TouchMore
    <2> QED BY <2>1, <2>2 DEF vm_update_user_sync
  <1> HIDE DEF u
  <1>2. b \in Byte /\ b \in {IN_, IN_B} /\ 15 \in Nibble /\ RD_FLAGS \notin Nibble
    BY Addresses DEF Nibble, RD_FLAGS
  <1>3. \A s : Sampled(s) = Store(u(s), b, 15)
    <2> SUFFICES ASSUME NEW s PROVE Sampled(s) = Store(u(s), b, 15)
      OBVIOUS
    <2>1. WR_FLAGS \in Byte \ {RD_FLAGS} BY DEF WR_FLAGS, RD_FLAGS, Byte
    <2>2. u(s).mem[WR_FLAGS] = vm.mem[WR_FLAGS] BY <1>1, <2>1 DEF Touches
    <2> QED BY <2>2 DEF Sampled, vm_update_in_reg, u
  <1> HIDE DEF b
  <1>4. \A s : Touches(vm, Sampled(s), D)
    <2> SUFFICES ASSUME NEW s PROVE Touches(vm, Sampled(s), D)
      OBVIOUS
    <2> DEFINE x == u(s)
    <2>1. Touches(vm, x, {RD_FLAGS}) /\ x \in VmState BY <1>1
    <2> HIDE DEF x
    <2>2. Touches(x, Store(x, b, 15), {b}) BY <1>2, <2>1, TouchStore
    <2>3. {b} \subseteq D /\ {RD_FLAGS} \subseteq D BY <1>2
    <2>4. Touches(vm, Store(x, b, 15), D) BY <2>1, <2>2, <2>3, TouchChain
    <2> QED BY <1>3, <2>4 DEF x
  <1>5. \A s : Sampled(s).mem = [u(s).mem EXCEPT ![b] = 15]
    BY <1>1, <1>2, <1>3, StoreMem
  <1>6. \A s : u(s).mem \in [Byte -> Nibble]
    BY <1>1, FieldTypes
  <1>7. \A s : \A r \in Nibble :
           Sampled(s).mem[r] = IF r = b THEN 15 ELSE vm.mem[r]
    <2> SUFFICES ASSUME NEW s, NEW r \in Nibble
                 PROVE  Sampled(s).mem[r] = IF r = b THEN 15 ELSE vm.mem[r]
      OBVIOUS
    <2>1. r \in Byte \ {RD_FLAGS}
      BY <1>2, Addresses
    <2>2. u(s).mem[r] = vm.mem[r]
      BY <1>1, <2>1 DEF Touches
    <2>3. Sampled(s).mem = [u(s).mem EXCEPT ![b] = 15] /\ u(s).mem \in [Byte -> Nibble]
      BY <1>5, <1>6
    <2> QED BY <2>1, <2>2, <2>3
  <1>8. Touches(vm, Fetched(sync), D) /\ Fetched(sync).mem = Sampled(sync).mem
        /\ Fetched(sync).pc = NextAddr(vm.pc)
    <2> DEFINE x == Sampled(sync)
               f == [x EXCEPT !.pc = NextAddr(vm.pc)]
    <2>1. Touches(vm, x, D) /\ x \in VmState /\ x.pc = vm.pc
      BY <1>4, SampledType
    <2>2. Fetched(sync) = f
      BY <2>1 DEF Fetched
    <2> HIDE DEF x
    <2>3. NextAddr(vm.pc) \in Counter
      BY ONLY vm.pc \in Addr, NextAddrType
    <2>4. f.mem = x.mem /\ f.pc = NextAddr(vm.pc)
      BY <2>1 DEF VmState
    <2>5. Touches(x, f, {})
      BY <2>1, <2>3, TouchPc
    <2> HIDE DEF f, D
    <2>6. Touches(vm, f, D)
      BY <2>1, <2>5, TouchChain
    <2> QED BY <2>2, <2>4, <2>6 DEF x
  <1> QED BY <1>4, <1>7, <1>8

(* What EXR of n registers writes.                                         *)
Exchanged(n) == Nibble \cup {a \in Byte : a >= ALT /\ (a - ALT < n \/ (n = 0 /\ a < PAGE))}

(* What most operations write at most: a register, V and the output port.  *)
Ordinary == Nibble \cup {RD_FLAGS, OUT_B}

(* The program goes on to the next instruction, or it may jump.            *)
GoesOn(v)  == Asks = "plain" /\ vm'.pc = v.pc
MayJump(v) == Asks = "jump" \/ GoesOn(v)

(* The effects a cycle may have after its fetch.                           *)
Effects(v) ==
    \/ Touches(v, vm', Ordinary) /\ MayJump(v)
    \/ \E a \in Byte : /\ StoresTo(a) /\ Touches(v, vm', {a})
                       /\ Asks = "store" /\ vm'.pc = v.pc
    \/ \E a \in PAGE..RANDOM :
          ReadsDirectly(a) /\ Touches(v, vm', {R0, a}) /\ vm' = sfr_read(v, a) /\ GoesOn(v)
    \/ Wide(8) /\ Touches(v, vm', Exchanged(Instr.nibble3)) /\ GoesOn(v)
    \/ Asks = "call" /\ (Calls(v, vm') \/ Overflows(v, vm'))
    \/ Asks = "return" /\ (Returns(v, vm') \/ Underflows(v, vm'))

(* What an instruction that writes register d and can jump asks for.       *)
AskedBy(d) == IF d = JSR THEN "call" ELSE IF d = PCL THEN "jump" ELSE "plain"

(* What the instruction asks for, by its first nibble and, if that is      *)
(* zero, by its second.                                                    *)
LEMMA NarrowAsks ==
    /\ \A k \in (1..7) \cup {11, 13, 14} : Narrow(k) => Asks = "plain"
    /\ \A k \in {8, 9} : Narrow(k) => Asks = AskedBy(Instr.nibble2)
    /\ \A k \in {10, 12} : Narrow(k) => Asks = "store"
    /\ Narrow(15) => Asks = "jump"
  BY DEF Narrow, Asks, Writes, AskedBy, JSR, PCL

LEMMA WideAsks ==
    /\ \A k \in {0, 1} \cup (5..13) : Wide(k) => Asks = "plain"
    /\ \A k \in {2, 3} : Wide(k) => Asks = AskedBy(Instr.nibble3)
    /\ \A k \in {4, 15} : Wide(k) => Asks = "jump"
    /\ Wide(14) => Asks = "return"
  BY DEF Wide, Asks, Writes, AskedBy, JSR, PCL

(* Every cycle has one of the effects listed in Effects.                   *)
LEMMA CycleEffects ==
    ASSUME TypeOK, NEW sync \in Syncs, Cycle(sync), vm.pc \in Addr
    PROVE  Effects(Fetched(sync))
  <1> DEFINE v == Fetched(sync)
  <1>0. prg \in Programs /\ vm \in VmState
    BY DEF TypeOK
  <1>1. v \in VmState /\ v.pc \in Addr /\ Instr \in Word
    BY <1>0, FetchedType, InstrType
  <1>2. \A r \in Nibble : v.mem[r] = Sampled(FALSE).mem[r]
    BY <1>0, FetchedEffect
  <1> HIDE DEF v
  <1> SUFFICES Effects(v)
    BY DEF v
  <1>3. /\ get_addr_rx(Instr) \in Nibble /\ get_addr_ry(Instr) \in Nibble
        /\ get_addr_rx(Instr) \in Byte /\ get_addr_ry(Instr) \in Byte
        /\ get_addr_rg_in(v, Instr) \in Byte /\ get_addr_rg_out(v, Instr) \in Byte
        /\ get_addr_pointer(Instr) \in Byte /\ get_addr_indirect(v, Instr) \in Byte
        /\ get_val_ry(v, Instr) \in Nibble /\ get_val_r0(v) \in Nibble
        /\ get_val_indirect(v, Instr) \in Nibble /\ get_val_literal(Instr) \in Nibble
        /\ get_val_byte_literal(Instr) \in Byte /\ get_val_crumb_literal(Instr) \in 0..3
        /\ R0 \in Byte /\ R0 \in Nibble
    BY <1>1, OperandTypes, Addresses
  <1>4. get_addr_rg_out(v, Instr) \in Ordinary
    <2>1. Instr.nibble3 \in Nibble BY <1>1 DEF Word
    <2>2. \A n \in Nibble : n \div 4 \in Nibble BY DEF Nibble
    <2> QED BY <2>1, <2>2 DEF get_addr_rg_out, Ordinary, OUT, Nibble
  <1>5. \A w : Touches(v, w, {}) /\ vm' = w /\ MayJump(v) => Effects(v)
    BY TouchMore DEF Effects
  <1>6. \A w, d : d \in Ordinary /\ (Touches(v, w, {d}) \/ Touches(v, w, {d, RD_FLAGS}))
                    /\ vm' = w /\ MayJump(v) => Effects(v)
    <2> SUFFICES ASSUME NEW w, NEW d \in Ordinary, vm' = w, MayJump(v),
                        Touches(v, w, {d}) \/ Touches(v, w, {d, RD_FLAGS})
                 PROVE  Touches(v, w, Ordinary)
      BY DEF Effects
    <2>1. {d} \subseteq Ordinary /\ {d, RD_FLAGS} \subseteq Ordinary BY DEF Ordinary
    <2> QED BY <2>1, TouchMore
  <1>7. \A r \in Nibble : r \in Ordinary
    BY DEF Ordinary
  <1>8. \A w, d : /\ vm' = w /\ Written(v, w, d)
                  /\ Asks = AskedBy(d)
                  => Effects(v)
    <2> SUFFICES ASSUME NEW w, NEW d, vm' = w, Written(v, w, d),
                        Asks = AskedBy(d)
                 PROVE  Effects(v)
      OBVIOUS
    <2>1. CASE d = JSR
      BY <2>1 DEF Written, AskedBy, Effects
    <2>2. CASE d # JSR
      <3>1. Touches(v, vm', Nibble) /\ MayJump(v)
        BY <2>2 DEF Written, AskedBy, MayJump, GoesOn
      <3>2. Nibble \subseteq Ordinary BY DEF Ordinary
      <3> QED BY <3>1, <3>2, TouchMore DEF Effects
    <2> QED BY <2>1, <2>2
  <1>9. \A w : Stays(v, w) /\ vm' = w /\ Asks = "plain" => GoesOn(v) /\ MayJump(v)
    BY DEF Stays, GoesOn, MayJump
  <1> USE <1>1, <1>3
  <1>10. CASE Add(sync)
    <2>1. MayJump(v) BY <1>9, <1>10, StayArithmetic, NarrowAsks, WideAsks DEF Add, v, Becomes
    <2> QED BY <1>6, <1>7, <1>10, <2>1, TouchArithmetic DEF Add, v, Becomes
  <1>11. CASE Adc(sync)
    <2>1. MayJump(v) BY <1>9, <1>11, StayArithmetic, NarrowAsks, WideAsks DEF Adc, v, Becomes
    <2> QED BY <1>6, <1>7, <1>11, <2>1, TouchArithmetic DEF Adc, v, Becomes
  <1>12. CASE Sub(sync)
    <2>1. MayJump(v) BY <1>9, <1>12, StayArithmetic, NarrowAsks, WideAsks DEF Sub, v, Becomes
    <2> QED BY <1>6, <1>7, <1>12, <2>1, TouchArithmetic DEF Sub, v, Becomes
  <1>13. CASE Sbb(sync)
    <2>1. MayJump(v) BY <1>9, <1>13, StayArithmetic, NarrowAsks, WideAsks DEF Sbb, v, Becomes
    <2> QED BY <1>6, <1>7, <1>13, <2>1, TouchArithmetic DEF Sbb, v, Becomes
  <1>14. CASE Or(sync)
    <2>0. Asks = "plain"
      <3>1. Narrow(5) \/ Wide(5) BY <1>14 DEF Or
      <3> QED BY <3>1, NarrowAsks, WideAsks
    <2>1. MayJump(v)
      <3>1. /\ Stays(v, op_or(v, get_addr_rx(Instr), get_val_ry(v, Instr), FALSE))
            /\ Stays(v, op_or(v, R0, get_val_literal(Instr), TRUE))
        BY StayLogic
      <3> QED BY <1>9, <1>14, <2>0, <3>1 DEF Or, v, Becomes
    <2> QED BY <1>6, <1>7, <1>14, <2>1, TouchLogic DEF Or, v, Becomes
  <1>15. CASE And(sync)
    <2>0. Asks = "plain"
      <3>1. Narrow(6) \/ Wide(6) BY <1>15 DEF And
      <3> QED BY <3>1, NarrowAsks, WideAsks
    <2>1. MayJump(v)
      <3>1. /\ Stays(v, op_and(v, get_addr_rx(Instr), get_val_ry(v, Instr), FALSE))
            /\ Stays(v, op_and(v, R0, get_val_literal(Instr), TRUE))
        BY StayLogic
      <3> QED BY <1>9, <1>15, <2>0, <3>1 DEF And, v, Becomes
    <2> QED BY <1>6, <1>7, <1>15, <2>1, TouchLogic DEF And, v, Becomes
  <1>16. CASE Xor(sync)
    <2>0. Asks = "plain"
      <3>1. Narrow(7) \/ Wide(7) BY <1>16 DEF Xor
      <3> QED BY <3>1, NarrowAsks, WideAsks
    <2>1. MayJump(v)
      <3>1. /\ Stays(v, op_xor(v, get_addr_rx(Instr), get_val_ry(v, Instr), FALSE))
            /\ Stays(v, op_xor(v, R0, get_val_literal(Instr), TRUE))
        BY StayLogic
      <3> QED BY <1>9, <1>16, <2>0, <3>1 DEF Xor, v, Becomes
    <2> QED BY <1>6, <1>7, <1>16, <2>1, TouchLogic DEF Xor, v, Becomes
  <1>17. CASE Mov(sync)
    <2>j. \A r, src \in Nibble :
             Written(v, op_mov_jump(v, r, src), r)
      BY JumpEffects
    <2>1. CASE Narrow(8) /\ Becomes(op_mov_jump(v, get_addr_rx(Instr), get_val_ry(v, Instr)))
      BY <1>8, <2>1, <2>j, NarrowAsks DEF Becomes, get_addr_rx
    <2>2. CASE Narrow(9) /\ Becomes(op_mov_jump(v, get_addr_rx(Instr), get_val_literal(Instr)))
      BY <1>8, <2>2, <2>j, NarrowAsks DEF Becomes, get_addr_rx
    <2>3. CASE Narrow(10) /\ Becomes(op_mov(v, get_addr_indirect(v, Instr), get_val_r0(v)))
      <3> DEFINE a == get_addr_indirect(v, Instr)
      <3>1. a = get_addr_indirect(Sampled(FALSE), Instr)
        BY <1>2 DEF get_addr_indirect, Word
      <3>2. StoresTo(a) BY <2>3, <3>1 DEF StoresTo
      <3> HIDE DEF a
      <3>3. a \in Byte BY DEF a
      <3>4. vm' = op_mov(v, a, get_val_r0(v)) BY <2>3 DEF Becomes, a
      <3>5. Asks = "store" BY <2>3, NarrowAsks
      <3> QED BY TouchMov, <3>2, <3>3, <3>4, <3>5 DEF Effects
    <2>4. CASE Narrow(11) /\ Becomes(op_mov(v, R0, get_val_indirect(v, Instr)))
      BY <1>6, <1>7, <2>4, TouchMov, NarrowAsks DEF Becomes, MayJump, GoesOn
    <2>5. ASSUME NEW fresh \in RandomSeeds, Narrow(12),
                 Becomes(op_mov_to(v, get_addr_pointer(Instr), fresh))
          PROVE  Effects(v)
      <3> DEFINE a == get_addr_pointer(Instr)
      <3>1. StoresTo(a) BY <2>5 DEF StoresTo
      <3> HIDE DEF a
      <3>2. a \in Byte /\ fresh \in Seed BY EnvironmentAssumption DEF a
      <3>3. vm' = op_mov_to(v, a, fresh) BY <2>5 DEF Becomes, a
      <3>4. Asks = "store" BY <2>5, NarrowAsks
      <3> QED BY TouchMovTo, <3>1, <3>2, <3>3, <3>4 DEF Effects
    <2>6. CASE Narrow(13) /\ Becomes(op_mov_from(v, get_addr_pointer(Instr)))
      <3> DEFINE a == get_addr_pointer(Instr)
      <3>1. ReadsDirectly(a) BY <2>6 DEF ReadsDirectly
      <3>2. a \in Byte /\ vm' = op_mov_from(v, a) BY <2>6 DEF Becomes
      <3> HIDE DEF a
      <3>g. GoesOn(v) /\ MayJump(v)
        <4>1. Stays(v, op_mov_from(v, a)) BY <3>2, StayMoves
        <4> QED BY <1>9, <2>6, <3>2, <4>1, NarrowAsks
      <3>3. CASE is_sfr_address(a)
        <4>1. a \in PAGE..RANDOM /\ vm' = sfr_read(v, a) /\ Touches(v, vm', {R0, a})
          BY TouchMovFrom, <3>2, <3>3 DEF op_mov_from, is_sfr_address
        <4> QED BY <3>1, <3>g, <4>1 DEF Effects
      <3>4. CASE ~is_sfr_address(a)
        BY <1>6, <1>7, TouchMovFrom, <3>2, <3>g, <3>4
      <3> QED BY <3>3, <3>4
    <2>7. CASE Narrow(14) /\ Becomes(op_mov_byte(v, PCM, get_val_byte_literal(Instr)))
      <3> DEFINE w == op_mov_byte(v, PCM, get_val_byte_literal(Instr))
      <3>1. vm' = w /\ Touches(v, w, Nibble) /\ Stays(v, w)
        BY <2>7, TouchMovByte, StayMoves DEF Becomes
      <3> HIDE DEF w
      <3>2. GoesOn(v) /\ MayJump(v) BY <1>9, <2>7, <3>1, NarrowAsks
      <3>3. Nibble \subseteq Ordinary BY DEF Ordinary
      <3> QED BY <3>1, <3>2, <3>3, TouchMore DEF Effects
    <2> QED BY <1>17, <2>1, <2>2, <2>3, <2>4, <2>5, <2>6, <2>7 DEF Mov, v
  <1>18. CASE Jr(sync)
    BY <1>5, <1>18, TouchSkip, NarrowAsks DEF Jr, v, Becomes, MayJump
  <1>19. CASE Cp(sync)
    <2>1. MayJump(v) BY <1>9, <1>19, StayArithmetic, NarrowAsks, WideAsks DEF Cp, v, Becomes
    <2> QED BY <1>6, <1>7, <1>19, <2>1, TouchArithmetic DEF Cp, v, Becomes
  <1>20. CASE Inc(sync)
    BY <1>8, <1>20, JumpEffects, WideAsks DEF Inc, v, Becomes, get_addr_ry
  <1>21. CASE Dec(sync)
    BY <1>8, <1>21, JumpEffects, WideAsks DEF Dec, v, Becomes, get_addr_ry
  <1>22. CASE Dsz(sync)
    BY <1>6, <1>7, <1>22, TouchSkip, WideAsks DEF Dsz, v, Becomes, MayJump
  <1>23. CASE Exr(sync)
    BY <1>9, <1>23, TouchExchange, StayBits, WideAsks
       DEF Exr, v, Becomes, Effects, Exchanged, get_val_literal
  <1>24. CASE BitTest(sync)
    <2>1. MayJump(v) BY <1>9, <1>24, StayBits, WideAsks DEF BitTest, v, Becomes
    <2> QED BY <1>5, <1>24, <2>1, TouchBits DEF BitTest, v, Becomes
  <1>25. CASE Bset(sync)
    <2>1. MayJump(v) BY <1>9, <1>25, StayBits, WideAsks DEF Bset, v, Becomes
    <2> QED BY <1>4, <1>6, <1>25, <2>1, TouchBits DEF Bset, v, Becomes
  <1>26. CASE Bclr(sync)
    <2>1. MayJump(v) BY <1>9, <1>26, StayBits, WideAsks DEF Bclr, v, Becomes
    <2> QED BY <1>4, <1>6, <1>26, <2>1, TouchBits DEF Bclr, v, Becomes
  <1>27. CASE Btg(sync)
    <2>1. MayJump(v) BY <1>9, <1>27, StayBits, WideAsks DEF Btg, v, Becomes
    <2> QED BY <1>4, <1>6, <1>27, <2>1, TouchBits DEF Btg, v, Becomes
  <1>28. CASE Rrc(sync)
    <2>1. MayJump(v) BY <1>9, <1>28, StayLogic, NarrowAsks, WideAsks DEF Rrc, v, Becomes
    <2> QED BY <1>6, <1>7, <1>28, <2>1, TouchLogic DEF Rrc, v, Becomes
  <1>29. CASE Ret(sync)
    BY <1>29, ReturnEffect, WideAsks DEF Ret, v, Becomes, Effects
  <1>30. CASE SkipIf(sync)
    BY <1>5, <1>30, TouchSkip, WideAsks DEF SkipIf, v, Becomes, MayJump
  <1>31. ~AssertFails(sync)
    BY DEF AssertFails
  <1> QED
    BY <1>10, <1>11, <1>12, <1>13, <1>14, <1>15, <1>16, <1>17, <1>18, <1>19, <1>20, <1>21,
       <1>22, <1>23, <1>24, <1>25, <1>26, <1>27, <1>28, <1>29, <1>30, <1>31 DEF Cycle, v

-----------------------------------------------------------------------------
(* The steps without a fetch.                                              *)

(* The user touches the three key registers and PAGE.                      *)
LEMMA KeyEffects ==
    ASSUME TypeOK,
           (\E k \in Keys : KeyPress(k)) \/ KeyRelease \/ (\E d \in PageMoves : MovePage(d))
    PROVE  Touches(vm, vm', {KEY_STATUS, KEY_REG, PAGE}) /\ vm'.pc = vm.pc
  <1> DEFINE D == {KEY_STATUS, KEY_REG, PAGE}
  <1>0. vm \in VmState
    BY DEF TypeOK
  <1>1. \A u \in VmState, a \in D, x \in Nibble :
           Touches(vm, u, D) /\ u.pc = vm.pc =>
             /\ Touches(vm, Store(u, a, x), D) /\ Store(u, a, x).pc = vm.pc
             /\ Store(u, a, x) \in VmState
    <2> SUFFICES ASSUME NEW u \in VmState, NEW a \in D, NEW x \in Nibble,
                        Touches(vm, u, D), u.pc = vm.pc
                 PROVE  /\ Touches(vm, Store(u, a, x), D) /\ Store(u, a, x).pc = vm.pc
                        /\ Store(u, a, x) \in VmState
      OBVIOUS
    <2>1. a \in Byte /\ {a} \subseteq D BY Addresses
    <2> HIDE DEF D
    <2>2. Touches(u, Store(u, a, x), {a}) /\ Store(u, a, x).pc = u.pc
      BY <2>1, TouchStore, StoreFields
    <2>3. Touches(vm, Store(u, a, x), D) BY <2>1, <2>2, TouchChain
    <2> QED BY <2>2, <2>3 DEF Touches
  <1>2. Touches(vm, vm, D)
    BY <1>0, TouchNothing, TouchMore
  <1>3. KEY_STATUS \in D /\ KEY_REG \in D /\ PAGE \in D
    OBVIOUS
  <1> HIDE DEF D
  <1> SUFFICES Touches(vm, vm', D) /\ vm'.pc = vm.pc
    BY DEF D
  <1>4. ASSUME NEW k \in Keys, KeyPress(k) PROVE Touches(vm, vm', D) /\ vm'.pc = vm.pc
    <2>1. 7 \in Nibble /\ k \in Nibble BY EnvironmentAssumption DEF Nibble
    <2> DEFINE u == Store(vm, KEY_STATUS, 7)
    <2>2. Touches(vm, u, D) /\ u.pc = vm.pc /\ u \in VmState
      BY <1>0, <1>1, <1>2, <1>3, <2>1
    <2>3. vm' = Store(u, KEY_REG, k) BY <1>4 DEF KeyPress, Becomes
    <2> HIDE DEF u
    <2> QED BY <1>1, <1>3, <2>1, <2>2, <2>3
  <1>5. CASE KeyRelease
    <2> DEFINE u == ClearBit(vm, KEY_STATUS, LAST_PRESS)
    <2>1. \A w \in VmState : \A k \in 0..3 : WithoutBit(w.mem[KEY_STATUS], k) \in Nibble
      BY MemType, OneBit, Addresses
    <2>2. Touches(vm, u, D) /\ u.pc = vm.pc /\ u \in VmState
      BY <1>0, <1>1, <1>2, <1>3, <2>1, Addresses DEF ClearBit
    <2>3. vm' = ClearBit(u, KEY_STATUS, ANY_PRESS) BY <1>5 DEF KeyRelease, Becomes
    <2> HIDE DEF u
    <2> QED BY <1>1, <1>3, <2>1, <2>2, <2>3, Addresses DEF ClearBit
  <1>6. ASSUME NEW d \in PageMoves, MovePage(d) PROVE Touches(vm, vm', D) /\ vm'.pc = vm.pc
    <2>1. (vm.mem[PAGE] + d) % 16 \in Nibble
      <3>1. vm.mem[PAGE] \in Nibble /\ d \in Int
        BY <1>0, MemType, Addresses, EnvironmentAssumption
      <3>2. vm.mem[PAGE] + d \in Int BY <3>1 DEF Nibble
      <3> QED BY <3>2, Masks
    <2>2. vm' = Store(vm, PAGE, (vm.mem[PAGE] + d) % 16) BY <1>6 DEF MovePage, Becomes
    <2> QED BY <1>0, <1>1, <1>2, <1>3, <2>1, <2>2
  <1> QED BY <1>4, <1>5, <1>6

(* A failed assertion leaves what the cycle did before its fetch.          *)
LEMMA AssertEffect ==
    ASSUME TypeOK, NEW sync, AssertFails(sync)
    PROVE  /\ vm'.sp = vm.sp /\ vm'.pc = vm.pc /\ vm'.exit = "assert"
           /\ \A a \in Byte \ {RD_FLAGS, IN_, IN_B} : vm'.mem[a] = vm.mem[a]
  <1> DEFINE u == Sampled(sync)
  <1>0. vm \in VmState
    BY DEF TypeOK
  <1>1. Touches(vm, u, {RD_FLAGS, IN_, IN_B}) /\ u \in VmState /\ u.pc = vm.pc
    <2> DEFINE s == vm_update_user_sync(vm, sync)
               b == IF Bit(s.mem[WR_FLAGS], IN_OUT_POS) = 1 THEN IN_B ELSE IN_
    <2>1. Touches(vm, s, {RD_FLAGS}) /\ s \in VmState
      <3>1. Touches(vm, s, {RD_FLAGS})
        BY <1>0, TouchBit, TouchNothing, TouchMore, Addresses DEF vm_update_user_sync
      <3> QED BY <3>1 DEF Touches
    <2> HIDE DEF s
    <2>2. b \in Byte /\ {b} \subseteq {RD_FLAGS, IN_, IN_B} /\ 15 \in Nibble
      BY Addresses DEF Nibble
    <2>3. u = Store(s, b, 15)
      BY DEF Sampled, vm_update_in_reg, s
    <2> HIDE DEF b, u
    <2>4. Touches(s, u, {b})
      BY <2>1, <2>2, <2>3, TouchStore
    <2>5. Touches(vm, u, {RD_FLAGS, IN_, IN_B})
      BY <2>1, <2>2, <2>4, TouchChain
    <2> QED BY <1>0, <2>5, SampledType DEF u
  <1>2. vm' = [u EXCEPT !.exit = "assert"]
    BY DEF AssertFails, Becomes
  <1> HIDE DEF u
  <1>3. vm'.mem = u.mem /\ vm'.sp = u.sp /\ vm'.pc = u.pc /\ vm'.exit = "assert"
    BY <1>1, <1>2 DEF VmState
  <1> QED BY <1>1, <1>3 DEF Touches

(* A cycle is executed by a running process, at an address of program      *)
(* memory unless the assertion fails.                                      *)
LEMMA CycleGuard ==
    ASSUME NEW sync, Cycle(sync)
    PROVE  Running /\ (vm.pc \in Addr \/ AssertFails(sync))
  BY DEF Cycle, Add, Adc, Sub, Sbb, Or, And, Xor, Mov, Jr, Cp, Inc, Dec, Dsz, Exr, BitTest,
     Bset, Bclr, Btg, Rrc, Ret, SkipIf, Narrow, Wide, CanFetch, AssertFails

-----------------------------------------------------------------------------
(* What these effects amount to.                                           *)

(* Every step respects Footprint.                                          *)
LEMMA FootprintStep ==
    ASSUME TypeOK, [Next]_vars, NEW a \in STACK..(PAGE - 1), vm'.mem[a] # vm.mem[a]
    PROVE  StoresTo(a) \/ Opens(a) \/ Exchanges(a)
  <1>0. vm \in VmState
    BY DEF TypeOK
  <1>1. /\ a \in Byte /\ a \notin Nibble /\ a \notin Ordinary /\ a # R0
        /\ a \notin {RD_FLAGS, IN_, IN_B} /\ a \notin {KEY_STATUS, KEY_REG, PAGE}
        /\ a \notin PAGE..RANDOM
    BY DEF STACK, PAGE, Byte, Nibble, Ordinary, RD_FLAGS, IN_, IN_B, OUT_B, KEY_STATUS,
       KEY_REG, RANDOM, R0
  <1>2. ASSUME NEW sync \in Syncs, Cycle(sync), vm.pc \in Addr
        PROVE  StoresTo(a) \/ Opens(a) \/ Exchanges(a)
    <2> DEFINE v == Fetched(sync)
    <2>1. v.mem[a] = vm.mem[a] /\ v.sp = vm.sp
      BY <1>0, <1>1, <1>2, FetchedEffect DEF Touches
    <2>2. Effects(v)
      BY <1>2, CycleEffects
    <2> HIDE DEF v
    <2>3. ~Touches(v, vm', Ordinary)
      BY <1>1, <2>1 DEF Touches
    <2>4. ASSUME NEW b \in Byte, StoresTo(b), Touches(v, vm', {b})
          PROVE  StoresTo(a)
      <3>1. a = b BY <1>1, <2>1, <2>4 DEF Touches
      <3> QED BY <2>4, <3>1
    <2>5. ASSUME NEW b \in PAGE..RANDOM, Touches(v, vm', {R0, b})
          PROVE  FALSE
      BY <1>1, <2>1, <2>5 DEF Touches
    <2>6. CASE Wide(8) /\ Touches(v, vm', Exchanged(Instr.nibble3))
      <3>1. a \in Exchanged(Instr.nibble3)
        BY <1>1, <2>1, <2>6 DEF Touches
      <3>2. a \in Byte /\ a >= ALT /\ (a - ALT < Instr.nibble3 \/ Instr.nibble3 = 0)
        BY <1>1, <3>1 DEF Exchanged
      <3>3. a - ALT \in 0..(PAGE_SIZE - 1)
        BY <3>2 DEF ALT, PAGE, PAGE_SIZE, STACK, Byte
      <3> QED BY <2>6, <3>2, <3>3 DEF Exchanges
    <2>7. CASE Calls(v, vm')
      BY <1>1, <2>1, <2>7 DEF Calls, Opens, FrameWords
    <2>8. ~Overflows(v, vm') /\ ~Returns(v, vm') /\ ~Underflows(v, vm')
      BY <1>1, <2>1 DEF Overflows, Returns, Underflows
    <2> QED BY <2>2, <2>3, <2>4, <2>5, <2>6, <2>7, <2>8 DEF Effects
  <1>3. ASSUME NEW sync \in Syncs, AssertFails(sync)
        PROVE  FALSE
    BY <1>1, <1>3, AssertEffect
  <1>4. CASE (\E k \in Keys : KeyPress(k)) \/ KeyRelease \/ (\E d \in PageMoves : MovePage(d))
    BY <1>1, <1>4, KeyEffects DEF Touches
  <1>5. CASE UNCHANGED vars
    BY <1>5 DEF vars
  <1> QED BY <1>2, <1>3, <1>4, <1>5, CycleGuard DEF Next

(* Whatever the program: outside the registers and the special page, only  *)
(* a store of its own, an opening call and an exchange of registers change *)
(* memory, each no more than its own words.                                *)
THEOREM FootprintKept == Spec => Footprint
  <1>1. TypeOK /\ [Next]_vars =>
          [\A a \in STACK..(PAGE - 1) :
              vm'.mem[a] # vm.mem[a] => StoresTo(a) \/ Opens(a) \/ Exchanges(a)]_vars
    BY FootprintStep
  <1> QED BY <1>1, TypeCorrect, PTL DEF Spec, Footprint

(* Setting or clearing another bit leaves bit 0 as it is.                  *)
LEMMA BitZero ==
    ASSUME NEW n \in Nibble
    PROVE  Bit(WithoutBit(WithoutBit(n, LAST_PRESS), ANY_PRESS), JUST_PRESS) = Bit(n, JUST_PRESS)
  BY DEF WithoutBit, Bit, Weight, Nibble, LAST_PRESS, ANY_PRESS, JUST_PRESS

(* Every step respects NoPressLost.                                        *)
LEMMA NoPressLostStep ==
    ASSUME TypeOK, [Next]_vars, JustPress, ~JustPress'
    PROVE  \/ ReadsDirectly(KEY_STATUS) /\ Bit(vm'.mem[R0], JUST_PRESS) = 1
           \/ StoresTo(KEY_STATUS)
  <1> DEFINE a == KEY_STATUS
  <1>0. vm \in VmState
    BY DEF TypeOK
  <1>1. /\ a \in Byte /\ a \notin Nibble /\ a \notin Ordinary /\ a # R0
        /\ a \notin {RD_FLAGS, IN_, IN_B} /\ a # KEY_REG /\ a # PAGE
        /\ R0 \in Byte
    BY DEF KEY_STATUS, PAGE, Byte, Nibble, Ordinary, RD_FLAGS, IN_, IN_B, OUT_B, KEY_REG, R0
  <1>2. vm'.mem[a] # vm.mem[a]
    BY DEF JustPress
  <1>3. ASSUME NEW sync \in Syncs, Cycle(sync), vm.pc \in Addr
        PROVE  \/ ReadsDirectly(a) /\ Bit(vm'.mem[R0], JUST_PRESS) = 1
               \/ StoresTo(a)
    <2> DEFINE v == Fetched(sync)
    <2>1. v.mem[a] = vm.mem[a] /\ v.sp = vm.sp /\ v \in VmState
      BY <1>0, <1>1, <1>3, FetchedEffect DEF Touches
    <2>2. Effects(v)
      BY <1>3, CycleEffects
    <2> HIDE DEF v
    <2>3. ~Touches(v, vm', Ordinary)
      BY <1>1, <1>2, <2>1 DEF Touches
    <2>4. ASSUME NEW b \in Byte, StoresTo(b), Touches(v, vm', {b})
          PROVE  StoresTo(a)
      <3>1. a = b BY <1>1, <1>2, <2>1, <2>4 DEF Touches
      <3> QED BY <2>4, <3>1
    <2>5. ASSUME NEW b \in PAGE..RANDOM, ReadsDirectly(b), Touches(v, vm', {R0, b}),
                 vm' = sfr_read(v, b)
          PROVE  ReadsDirectly(a) /\ Bit(vm'.mem[R0], JUST_PRESS) = 1
      <3>1. a = b BY <1>1, <1>2, <2>1, <2>5 DEF Touches
      <3> DEFINE w == Store(v, R0, v.mem[a])
      <3>2. w.mem[R0] = v.mem[a] /\ w \in VmState
        <4>1. v.mem[a] \in Nibble BY <1>1, <2>1, MemType
        <4>2. w.mem = [v.mem EXCEPT ![R0] = v.mem[a]] /\ w \in VmState
          BY <1>1, <2>1, <4>1, StoreMem, StoreType
        <4>3. v.mem \in [Byte -> Nibble] BY <2>1, FieldTypes
        <4> QED BY <1>1, <4>2, <4>3
      <3>3. vm' = ClearBit(w, a, JUST_PRESS)
        BY <2>5, <3>1 DEF sfr_read, KEY_STATUS, RD_FLAGS, RANDOM
      <3> HIDE DEF w
      <3>4. Touches(w, vm', {a})
        BY <1>1, <3>2, <3>3, TouchBit, Addresses
      <3>5. vm'.mem[R0] = vm.mem[a]
        BY <1>1, <2>1, <3>2, <3>4 DEF Touches
      <3> QED BY <2>5, <3>1, <3>5 DEF JustPress
    <2>6. ~(Wide(8) /\ Touches(v, vm', Exchanged(Instr.nibble3)))
      <3>1. vm.pc \in Addr /\ prg \in Programs BY <1>3 DEF TypeOK
      <3>2. Instr.nibble3 \in Nibble BY <3>1, InstrType DEF Word
      <3>3. a \notin Exchanged(Instr.nibble3)
        BY <1>1, <3>2 DEF Exchanged, KEY_STATUS, ALT, PAGE, Nibble
      <3> QED BY <1>1, <1>2, <2>1, <3>3 DEF Touches
    <2>7. ~Calls(v, vm')
      <3>1. ASSUME v.sp < MAX_STACK_DEPTH PROVE a \notin FrameWords(v.sp)
        <4>1. v.sp \in Depth BY <2>1, FieldTypes
        <4> QED BY <3>1, <4>1 DEF FrameWords, FrameAddr, Depth, MAX_STACK_DEPTH, STACK, KEY_STATUS
      <3> QED BY <1>1, <1>2, <2>1, <3>1 DEF Calls
    <2>8. ~Overflows(v, vm') /\ ~Returns(v, vm') /\ ~Underflows(v, vm')
      BY <1>1, <1>2, <2>1 DEF Overflows, Returns, Underflows
    <2> QED BY <2>2, <2>3, <2>4, <2>5, <2>6, <2>7, <2>8 DEF Effects
  <1>4. ASSUME NEW sync \in Syncs, AssertFails(sync)
        PROVE  FALSE
    BY <1>1, <1>2, <1>4, AssertEffect
  <1>5. ASSUME NEW k \in Keys, KeyPress(k)
        PROVE  FALSE
    <2> DEFINE u == Store(vm, KEY_STATUS, 7)
    <2>1. 7 \in Nibble /\ k \in Nibble BY EnvironmentAssumption DEF Nibble
    <2>2. u \in VmState /\ u.mem = [vm.mem EXCEPT ![a] = 7] /\ vm.mem \in [Byte -> Nibble]
      <3>1. u \in VmState BY <1>0, <1>1, <2>1, StoreType
      <3>2. u.mem = [vm.mem EXCEPT ![a] = 7] BY <1>0, <1>1, <2>1, StoreMem
      <3> QED BY <1>0, <3>1, <3>2, FieldTypes
    <2>3. u.mem[a] = 7 BY <1>1, <2>2
    <2>4. vm' = Store(u, KEY_REG, k) BY <1>5 DEF KeyPress, Becomes
    <2> HIDE DEF u
    <2>5. Touches(u, vm', {KEY_REG}) BY <2>1, <2>2, <2>4, TouchStore, Addresses
    <2>6. vm'.mem[a] = 7 BY <1>1, <2>3, <2>5 DEF Touches
    <2> QED BY <2>6 DEF JustPress, Bit, Weight, JUST_PRESS
  <1>6. ASSUME KeyRelease
        PROVE  FALSE
    <2> DEFINE n == vm.mem[a]
               u == ClearBit(vm, a, LAST_PRESS)
    <2>1. n \in Nibble /\ vm.mem \in [Byte -> Nibble] BY <1>0, <1>1, MemType, FieldTypes
    <2>2. u \in VmState BY <1>0, <1>1, SetBitType, Addresses
    <2>3. u.mem = [vm.mem EXCEPT ![a] = WithoutBit(n, LAST_PRESS)]
      BY <1>0, <1>1, <2>1, OneBit, StoreMem, Addresses DEF ClearBit
    <2>4. u.mem[a] = WithoutBit(n, LAST_PRESS) BY <1>1, <2>1, <2>3
    <2>5. vm' = ClearBit(u, a, ANY_PRESS) BY <1>6 DEF KeyRelease, Becomes
    <2> HIDE DEF u
    <2>6. vm'.mem = [u.mem EXCEPT ![a] = WithoutBit(u.mem[a], ANY_PRESS)]
      BY <1>1, <2>2, <2>5, OneBit, MemType, StoreMem, Addresses DEF ClearBit
    <2>7. u.mem \in [Byte -> Nibble] BY <2>2, FieldTypes
    <2>8. vm'.mem[a] = WithoutBit(WithoutBit(n, LAST_PRESS), ANY_PRESS)
      BY <1>1, <2>4, <2>6, <2>7
    <2> QED BY <2>1, <2>8, BitZero DEF JustPress
  <1>7. ASSUME NEW d \in PageMoves, MovePage(d)
        PROVE  FALSE
    <2>1. (vm.mem[PAGE] + d) % 16 \in Nibble
      <3>1. vm.mem[PAGE] \in Nibble /\ d \in Int
        BY <1>0, MemType, Addresses, EnvironmentAssumption
      <3>2. vm.mem[PAGE] + d \in Int BY <3>1 DEF Nibble
      <3> QED BY <3>2, Masks
    <2>2. vm' = Store(vm, PAGE, (vm.mem[PAGE] + d) % 16) BY <1>7 DEF MovePage, Becomes
    <2>3. Touches(vm, vm', {PAGE}) BY <1>0, <2>1, <2>2, TouchStore, Addresses
    <2> QED BY <1>1, <1>2, <2>3 DEF Touches
  <1>8. ASSUME UNCHANGED vars
        PROVE  FALSE
    BY <1>2, <1>8 DEF vars
  <1> QED BY <1>3, <1>4, <1>5, <1>6, <1>7, <1>8, CycleGuard DEF Next

(* No key press is ever lost, whatever the program and however presses,    *)
(* releases and cycles interleave: JUST_PRESS stays up until the program   *)
(* has it in R0, unless it stores to the register itself.                  *)
THEOREM PressKept == Spec => NoPressLost
  <1>1. TypeOK /\ [Next]_vars =>
          [(JustPress /\ ~JustPress') =>
              \/ (ReadsDirectly(KEY_STATUS) /\ Bit(vm'.mem[R0], JUST_PRESS) = 1)
              \/ StoresTo(KEY_STATUS)]_vars
    BY NoPressLostStep
  <1> QED BY <1>1, TypeCorrect, PTL DEF Spec, NoPressLost

-----------------------------------------------------------------------------
(* Vm implements the call stack of CallStack: its frames lie in words that *)
(* nothing but a call, a store or EXR touches.                             *)

(* The frames held in a memory, as Stack sees them.                        *)
Slots == 0..(MAX_STACK_DEPTH - 1)
FramesOf(mem) == [f \in Slots |-> Frame(mem, f)]

-----------------------------------------------------------------------------
(* The stack page.                                                         *)

(* The three words of a frame are in the stack page.                       *)
LEMMA FrameRange ==
    ASSUME NEW f \in Slots
    PROVE  /\ FrameAddr(f) \in FrameWords(f) /\ FrameAddr(f) + 1 \in FrameWords(f)
           /\ FrameAddr(f) + 2 \in FrameWords(f)
           /\ FrameWords(f) \subseteq STACK..(STACK + 14)
  BY DEF FrameWords, FrameAddr, STACK, Slots, MAX_STACK_DEPTH

(* The fifteen words of the five frames are apart from the registers, from *)
(* the alternate registers and from the special page.                      *)
LEMMA StackWords ==
    ASSUME NEW a \in STACK..(STACK + 14)
    PROVE  /\ a \in Byte /\ a \notin Nibble /\ a \notin Ordinary /\ a # R0
           /\ a \notin {RD_FLAGS, IN_, IN_B} /\ a \notin {KEY_STATUS, KEY_REG, PAGE}
           /\ a \notin PAGE..RANDOM
           /\ \A n : a \notin Exchanged(n)
  <1>1. a \in 16..30
    BY DEF STACK
  <1>2. \A n : a \notin Exchanged(n)
    BY <1>1 DEF Exchanged, Nibble, ALT
  <1> QED
    BY <1>1, <1>2 DEF PAGE, Byte, Nibble, Ordinary, RD_FLAGS, IN_, IN_B, OUT_B, KEY_STATUS,
       KEY_REG, RANDOM, R0

(* Frames share no word.                                                   *)
LEMMA FramesApart ==
    ASSUME NEW f \in Slots, NEW g \in Slots, f # g, NEW a \in FrameWords(f)
    PROVE  a \notin FrameWords(g)
  BY DEF FrameWords, FrameAddr, STACK, Slots, MAX_STACK_DEPTH

(* A frame depends on its own three words only.                            *)
LEMMA FrameKept ==
    ASSUME NEW m, NEW n, NEW f \in Slots, \A a \in FrameWords(f) : n[a] = m[a]
    PROVE  Frame(n, f) = Frame(m, f)
  BY FrameRange DEF Frame

(* So all frames stay when the stack page does.                            *)
LEMMA FramesKept ==
    ASSUME NEW m, NEW n, \A a \in STACK..(STACK + 14) : n[a] = m[a]
    PROVE  FramesOf(n) = FramesOf(m)
  <1>1. \A f \in Slots : Frame(n, f) = Frame(m, f)
    BY FrameRange, FrameKept
  <1> QED BY <1>1 DEF FramesOf

(* The three nibbles of a frame make an address.                           *)
LEMMA FrameType ==
    ASSUME NEW v \in VmState, NEW f \in Slots
    PROVE  Frame(v.mem, f) \in Addr
  <1> DEFINE a == FrameAddr(f)
  <1>1. a \in Byte /\ a + 1 \in Byte /\ a + 2 \in Byte
    BY FrameAddrs DEF Slots
  <1>2. v.mem[a] \in Nibble /\ v.mem[a + 1] \in Nibble /\ v.mem[a + 2] \in Nibble
    BY <1>1, MemType
  <1> QED BY <1>2, TwelveBits DEF Frame

(* A single store changes at most one frame.                               *)
LEMMA OneFrame ==
    ASSUME NEW v, NEW w, NEW a \in Byte, Touches(v, w, {a})
    PROVE  \E i \in Slots, x \in Addr : FramesOf(w.mem) = [FramesOf(v.mem) EXCEPT ![i] = x]
  <1>0. v \in VmState /\ w \in VmState /\ \A b \in Byte \ {a} : w.mem[b] = v.mem[b]
    BY DEF Touches
  <1>1. \A b \in STACK..(STACK + 14) : b \in Byte
    BY StackWords
  <1>2. ASSUME NEW i \in Slots, \A f \in Slots \ {i} : a \notin FrameWords(f)
        PROVE  FramesOf(w.mem) = [FramesOf(v.mem) EXCEPT ![i] = Frame(w.mem, i)]
    <2>1. \A f \in Slots \ {i} : Frame(w.mem, f) = Frame(v.mem, f)
      <3> SUFFICES ASSUME NEW f \in Slots \ {i} PROVE Frame(w.mem, f) = Frame(v.mem, f)
        OBVIOUS
      <3>1. \A b \in FrameWords(f) : b \in Byte /\ b # a
        BY <1>1, <1>2, FrameRange
      <3> QED BY <1>0, <3>1, FrameKept
    <2> QED BY <2>1 DEF FramesOf
  <1>3. \E i \in Slots : \A f \in Slots \ {i} : a \notin FrameWords(f)
    <2>1. CASE \E i \in Slots : a \in FrameWords(i)
      BY <2>1, FramesApart
    <2>2. CASE ~ \E i \in Slots : a \in FrameWords(i)
      <3>1. 0 \in Slots BY DEF Slots, MAX_STACK_DEPTH
      <3> QED BY <2>2, <3>1
    <2> QED BY <2>1, <2>2
  <1> QED BY <1>0, <1>2, <1>3, FrameType

-----------------------------------------------------------------------------
(* The counter wraps as the abstract stack has it.                         *)
LEMMA NextWraps ==
    \A p \in Addr : NextAddr(p) = (p + 1) % PROGRAM_MEMORY_SIZE
  BY AddrRange DEF NextAddr, PROGRAM_MEMORY_SIZE

(* What is asked of the stack is one of the five kinds, and the registers  *)
(* of a call hold an address.                                              *)
LEMMA AsksKinds == Asks \in Stack!Kinds
  BY DEF Asks, Stack!Kinds

LEMMA TargetWhere ==
    ASSUME NEW v \in VmState
    PROVE  Target(v, JSR) \in Stack!Where
  BY TargetType DEF Stack!Where, Addr

(* Every step of the machine is a step of the stack.                       *)
LEMMA StackStep ==
    ASSUME TypeOK, TypeOK', [Next]_vars
    PROVE  [Stack!Next]_Stack!vars
  <1> DEFINE frames == FramesOf(vm.mem)
  <1>0. /\ vm \in VmState /\ vm' \in VmState /\ vm.sp \in 0..5 /\ vm'.pc \in Nat
    <2>1. vm \in VmState /\ vm' \in VmState BY DEF TypeOK
    <2>2. vm.sp \in Depth /\ vm'.pc \in Counter BY <2>1, FieldTypes
    <2>3. \A n \in Depth : n \in 0..5
      BY DEF Depth, MAX_STACK_DEPTH
    <2>4. \A n \in Counter : n \in Nat
      BY CounterRange
    <2> QED BY <2>1, <2>2, <2>3, <2>4
  <1>f. /\ frames = [f \in 0..(MAX_STACK_DEPTH - 1) |-> Frame(vm.mem, f)]
        /\ frames' = [f \in 0..(MAX_STACK_DEPTH - 1) |-> Frame(vm.mem, f)]'
        /\ frames' = FramesOf(vm'.mem)
        /\ \A f \in Slots : frames[f] = Frame(vm.mem, f)
    BY DEF FramesOf, Slots
  <1>1. ASSUME NEW sync \in Syncs, Cycle(sync), vm.pc \in Addr
        PROVE  Stack!Next
    <2> DEFINE v == Fetched(sync)
    <2>1. /\ \A a \in STACK..(STACK + 14) : v.mem[a] = vm.mem[a]
          /\ v.sp = vm.sp /\ v.exit = vm.exit /\ v \in VmState
          /\ v.pc = (vm.pc + 1) % PROGRAM_MEMORY_SIZE
      <3>1. /\ Touches(vm, v, {RD_FLAGS, IN_, IN_B}) /\ v.pc = NextAddr(vm.pc)
        BY <1>0, <1>1, FetchedEffect
      <3>2. NextAddr(vm.pc) = (vm.pc + 1) % PROGRAM_MEMORY_SIZE
        BY ONLY <1>1, NextWraps
      <3> HIDE DEF v
      <3> QED BY <3>1, <3>2, StackWords DEF Touches
    <2>2. Effects(v)
      BY <1>1, CycleEffects
    <2>3. \A kind : Asks = kind => Stack!Executes(kind)
      <3>1. Asks' \in Stack!Kinds /\ Target(vm', JSR) \in Stack!Where
        BY <1>0, TargetWhere DEF Asks, Stack!Kinds
      <3>2. vm.exit = "none" /\ vm.pc \in Stack!Where
        BY <1>1, CycleGuard DEF Stack!Where, Addr, Running, AssertFails
      <3> QED BY <3>1, <3>2 DEF Stack!Executes
    <2> HIDE DEF v
    <2>4. FramesOf(v.mem) = frames
      BY <2>1, FramesKept
    <2>5. ASSUME NEW D, Touches(v, vm', D), \A a \in STACK..(STACK + 14) : a \notin D,
                 MayJump(v)
          PROVE  Stack!Next
      <3>1. FramesOf(vm'.mem) = FramesOf(v.mem)
        BY <2>5, StackWords, FramesKept DEF Touches
      <3>2. vm'.sp = vm.sp /\ vm'.exit = vm.exit /\ frames' = frames
        BY <1>f, <2>1, <2>4, <2>5, <3>1 DEF Touches
      <3> HIDE DEF frames
      <3>3. CASE Asks = "jump"
        BY <1>0, <1>f, <2>3, <3>2, <3>3 DEF Stack!Jump, Stack!Next
      <3>4. CASE GoesOn(v)
        BY <1>f, <2>1, <2>3, <3>2, <3>4 DEF GoesOn, Stack!Plain, Stack!After, Stack!Next
      <3> QED BY <2>5, <3>3, <3>4 DEF MayJump
    <2>6. CASE Touches(v, vm', Ordinary) /\ MayJump(v)
      BY <2>5, <2>6, StackWords
    <2>7. ASSUME NEW a \in Byte, Touches(v, vm', {a}), Asks = "store", vm'.pc = v.pc
          PROVE  Stack!Store
      <3>1. PICK i \in Slots, x \in Addr : FramesOf(vm'.mem) = [FramesOf(v.mem) EXCEPT ![i] = x]
        BY <2>7, OneFrame
      <3>2. vm'.sp = vm.sp /\ vm'.exit = vm.exit
        BY <2>1, <2>7 DEF Touches
      <3>3. vm'.pc = (vm.pc + 1) % PROGRAM_MEMORY_SIZE
        BY <2>1, <2>7
      <3>4. frames' = [frames EXCEPT ![i] = x] /\ i \in Stack!Slots /\ x \in Stack!Where
        BY <1>f, <2>4, <3>1 DEF Stack!Slots, Stack!Where, Slots, Addr
      <3> HIDE DEF frames
      <3> QED BY <1>f, <2>3, <2>7, <3>2, <3>3, <3>4 DEF Stack!Store, Stack!After
    <2>8. ASSUME NEW a \in PAGE..RANDOM, Touches(v, vm', {R0, a}), GoesOn(v)
          PROVE  Stack!Next
      BY <2>5, <2>8, StackWords DEF MayJump
    <2>9. CASE Wide(8) /\ Touches(v, vm', Exchanged(Instr.nibble3)) /\ GoesOn(v)
      BY <2>5, <2>9, StackWords DEF MayJump
    <2>10. CASE Asks = "call" /\ Calls(v, vm')
      <3>1. /\ vm.sp < MAX_STACK_DEPTH /\ vm'.sp = vm.sp + 1 /\ vm'.exit = vm.exit
            /\ vm'.pc = Target(vm', JSR) /\ Frame(vm'.mem, vm.sp) = v.pc
            /\ \A a \in Byte \ (Nibble \cup FrameWords(vm.sp)) : vm'.mem[a] = v.mem[a]
        BY <2>1, <2>10 DEF Calls
      <3>2. vm.sp \in Slots
        BY <1>0, <3>1 DEF Slots, MAX_STACK_DEPTH
      <3>3. \A f \in Slots \ {vm.sp} : Frame(vm'.mem, f) = Frame(v.mem, f)
        <4> SUFFICES ASSUME NEW f \in Slots \ {vm.sp}
                     PROVE  Frame(vm'.mem, f) = Frame(v.mem, f)
          OBVIOUS
        <4>1. \A a \in FrameWords(f) : a \in Byte \ (Nibble \cup FrameWords(vm.sp))
          BY <3>2, FrameRange, FramesApart, StackWords
        <4> QED BY <3>1, <4>1, FrameKept
      <3>4. frames' = [frames EXCEPT ![vm.sp] = v.pc]
        <4>1. FramesOf(vm'.mem) = [FramesOf(v.mem) EXCEPT ![vm.sp] = v.pc]
          BY <3>1, <3>2, <3>3 DEF FramesOf
        <4> QED BY <1>f, <2>4, <4>1
      <3> HIDE DEF frames
      <3> QED
        BY <1>f, <2>1, <2>3, <2>10, <3>1, <3>4 DEF Stack!Next, Stack!Call, Stack!After
    <2>11. ASSUME \A a \in Byte \ Nibble : vm'.mem[a] = v.mem[a]
           PROVE  frames' = frames
      BY <1>f, <2>4, <2>11, StackWords, FramesKept
    <2>12. CASE Asks = "call" /\ Overflows(v, vm')
      <3>1. /\ vm.sp = MAX_STACK_DEPTH /\ vm'.sp = vm.sp /\ vm'.exit = "overflow"
            /\ vm'.pc = v.pc /\ frames' = frames
        BY <2>1, <2>11, <2>12 DEF Overflows
      <3> HIDE DEF frames
      <3> QED BY <1>f, <2>1, <2>3, <2>12, <3>1 DEF Stack!Next, Stack!Overflow, Stack!After
    <2>13. CASE Asks = "return" /\ Returns(v, vm')
      <3>1. /\ vm.sp > 0 /\ vm'.sp = vm.sp - 1 /\ vm'.exit = vm.exit
            /\ vm'.pc = Frame(v.mem, vm.sp - 1) /\ frames' = frames
        BY <2>1, <2>11, <2>13 DEF Returns
      <3>2. vm.sp - 1 \in Slots
        BY <1>0, <3>1 DEF Slots, MAX_STACK_DEPTH
      <3>3. vm'.pc = frames[vm.sp - 1]
        <4>1. FramesOf(v.mem)[vm.sp - 1] = Frame(v.mem, vm.sp - 1)
          BY <3>2 DEF FramesOf
        <4> QED BY <2>4, <3>1, <4>1
      <3> HIDE DEF frames
      <3> QED BY <1>f, <2>3, <2>13, <3>1, <3>3 DEF Stack!Next, Stack!Return
    <2>14. CASE Asks = "return" /\ Underflows(v, vm')
      <3>1. /\ vm.sp = 0 /\ vm'.sp = vm.sp /\ vm'.exit = "underflow"
            /\ vm'.pc = v.pc /\ frames' = frames
        BY <2>1, <2>11, <2>14 DEF Underflows
      <3> HIDE DEF frames
      <3> QED BY <1>f, <2>1, <2>3, <2>14, <3>1 DEF Stack!Next, Stack!Underflow, Stack!After
    <2> QED
      BY <2>2, <2>6, <2>7, <2>8, <2>9, <2>10, <2>12, <2>13, <2>14 DEF Effects, Stack!Next
  <1>2. ASSUME NEW sync \in Syncs, AssertFails(sync)
        PROVE  Stack!Next
    <2>1. /\ vm'.sp = vm.sp /\ vm'.pc = vm.pc /\ vm'.exit = "assert"
          /\ \A a \in Byte \ {RD_FLAGS, IN_, IN_B} : vm'.mem[a] = vm.mem[a]
      BY <1>2, AssertEffect
    <2>2. frames' = frames
      BY <1>f, <2>1, StackWords, FramesKept
    <2>3. vm.exit = "none" /\ vm.pc \notin Addr
      BY <1>2 DEF AssertFails, Running
    <2> HIDE DEF frames
    <2>4. Asks' = Asks /\ Target(vm', JSR) = Target(vm, JSR)
      <3>1. prg' = prg BY <1>2 DEF AssertFails, Becomes
      <3>2. \A r \in {PCH, PCM, JSR} : r \in Byte \ {RD_FLAGS, IN_, IN_B}
        BY DEF PCH, PCM, JSR, Byte, RD_FLAGS, IN_, IN_B
      <3> QED BY <2>1, <3>1, <3>2 DEF Asks, Writes, Instr, instructions, Target
    <2> QED BY <1>f, <2>1, <2>2, <2>3, <2>4 DEF Stack!Next, Stack!Lost, Stack!Where, Addr
  <1>3. ASSUME (\E k \in Keys : KeyPress(k)) \/ KeyRelease \/ (\E d \in PageMoves : MovePage(d))
        PROVE  UNCHANGED Stack!vars
    <2>1. Touches(vm, vm', {KEY_STATUS, KEY_REG, PAGE}) /\ vm'.pc = vm.pc
      BY <1>3, KeyEffects
    <2>2. frames' = frames
      BY <1>f, <2>1, StackWords, FramesKept DEF Touches
    <2>3. vm'.sp = vm.sp /\ vm'.exit = vm.exit
      BY <2>1 DEF Touches
    <2>4. Asks' = Asks /\ Target(vm', JSR) = Target(vm, JSR)
      <3>1. prg' = prg BY <1>3 DEF KeyPress, KeyRelease, MovePage, Becomes
      <3>2. \A r \in {PCH, PCM, JSR} : r \in Byte \ {KEY_STATUS, KEY_REG, PAGE}
        BY DEF PCH, PCM, JSR, Byte, KEY_STATUS, KEY_REG, PAGE
      <3> QED BY <2>1, <3>1, <3>2 DEF Asks, Writes, Instr, instructions, Target, Touches
    <2> HIDE DEF frames
    <2> QED BY <1>f, <2>1, <2>2, <2>3, <2>4 DEF Stack!vars
  <1>4. ASSUME UNCHANGED vars
        PROVE  UNCHANGED Stack!vars
    BY <1>4 DEF vars, Stack!vars, Asks, Writes, Instr, instructions
  <1> QED BY <1>1, <1>2, <1>3, <1>4, CycleGuard DEF Next

(* The machine starts with an empty stack.                                 *)
LEMMA StackInit == Init => Stack!Init
  <1> SUFFICES ASSUME NEW seed \in RandomSeeds, vm = vm_init(seed), prg \in Programs
               PROVE  Stack!Init
    BY DEF Init
  <1>1. vm.pc = 0 /\ vm.sp = 0 /\ vm.exit = "none"
    BY DEF vm_init
  <1>3. Asks \in Stack!Kinds /\ Target(vm, JSR) \in Stack!Where
    BY AsksKinds, TargetWhere, InitType DEF TypeOK, Init
  <1>2. \A f \in Slots : Frame(vm.mem, f) = 0
    <2> SUFFICES ASSUME NEW f \in Slots PROVE Frame(vm.mem, f) = 0
      OBVIOUS
    <2>1. \A a \in STACK..(STACK + 14) : vm.mem[a] = 0
      BY StackWords DEF vm_init, STACK, SER_CTRL, AUTO_OFF, DIMMER, RANDOM
    <2>2. /\ vm.mem[FrameAddr(f)] = 0 /\ vm.mem[FrameAddr(f) + 1] = 0
          /\ vm.mem[FrameAddr(f) + 2] = 0
      BY <2>1, FrameRange
    <2> QED BY <2>2 DEF Frame
  <1> QED BY <1>1, <1>2, <1>3 DEF Stack!Init, Stack!Slots, Slots

(* Whatever program runs, its instructions work a stack of five return     *)
(* addresses as CallStack has it: every write to JSR by MOV, INC and DEC   *)
(* opens a call, every RET closes one, a sixth call and a return too many  *)
(* end the process there and then, nothing but a store of the program's    *)
(* own changes a return address, and every other instruction leaves the    *)
(* stack alone.                                                            *)
THEOREM StackImplemented == Spec => ImplementsCallStack
  <1>1. TypeOK /\ TypeOK' /\ [Next]_vars => [Stack!Next]_Stack!vars
    BY StackStep
  <1> QED BY <1>1, StackInit, TypeCorrect, PTL DEF Spec, ImplementsCallStack, Stack!Spec
=============================================================================
