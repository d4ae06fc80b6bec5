------------------------------ MODULE AluProofs ------------------------------
(***************************************************************************)
(* The programs of Alu compute what they are meant to, for all operands,   *)
(* whatever the sync timer and the keys do between their instructions.     *)
(***************************************************************************)
EXTENDS Alu, DeviceProofs, SequenceTheorems

-----------------------------------------------------------------------------
(* Nibbles.                                                                *)

(* What is stored of the sum or the difference of two nibbles, with or     *)
(* without a carry, and the bit that becomes C.                            *)
LEMMA Wraps ==
    ASSUME NEW x \in -16..31
    PROVE  /\ UInt8(x) % 16 = IF x > 15 THEN x - 16 ELSE IF x < 0 THEN x + 16 ELSE x
           /\ x >= 0 => ((UInt8(x) \div 16) % 2 = 1 <=> x > 15)
           /\ x <= 15 => ((UInt8(x) \div 16) % 2 = 0 <=> x >= 0)
           /\ UInt8(x) \in Int
  BY DEF UInt8

(* The four bits of a nibble, and the nibble of four bits.                 *)
LEMMA FourBits ==
    /\ \A n \in Nibble : /\ n = FromBits(Bit(n, 0), Bit(n, 1), Bit(n, 2), Bit(n, 3))
                         /\ \A k \in 0..3 : Bit(n, k) \in 0..1
    /\ \A a, b, c, d \in 0..1 :
          LET n == FromBits(a, b, c, d)
          IN  Bit(n, 0) = a /\ Bit(n, 1) = b /\ Bit(n, 2) = c /\ Bit(n, 3) = d
  <1>1. \A n \in Nibble : n = FromBits(Bit(n, 0), Bit(n, 1), Bit(n, 2), Bit(n, 3))
    BY DEF Nibble, FromBits, Bit, Weight
  <1>2. \A n \in Nibble, k \in 0..3 : Bit(n, k) \in 0..1
    BY DEF Nibble, Bit, Weight
  <1>3. \A a, b, c, d \in 0..1 :
          LET n == FromBits(a, b, c, d)
          IN  Bit(n, 0) = a /\ Bit(n, 1) = b /\ Bit(n, 2) = c /\ Bit(n, 3) = d
    BY DEF FromBits, Bit, Weight
  <1> QED BY <1>1, <1>2, <1>3

(* AND with all ones and OR with none change nothing, XOR with all ones is *)
(* the complement, AND and OR of two nibbles add up to their sum.          *)
LEMMA Masking ==
    ASSUME NEW m \in Nibble, NEW n \in Nibble
    PROVE  /\ And4(m, 15) = m /\ Or4(m, 0) = m /\ Xor4(m, 15) = 15 - m
           /\ And4(m, n) + Or4(m, n) = m + n
  <1>1. \A k \in 0..3 : Bit(15, k) = 1 /\ Bit(0, k) = 0
    BY DEF Bit, Weight
  <1>2. \A p \in 0..1 : AndBit(p, 1) = p /\ OrBit(p, 0) = p /\ XorBit(p, 1) = 1 - p
    BY DEF AndBit, OrBit, XorBit
  <1>4. \A k \in 0..3 : Bit(m, k) \in 0..1 /\ Bit(n, k) \in 0..1
    BY FourBits
  <1>5. /\ m = FromBits(Bit(m, 0), Bit(m, 1), Bit(m, 2), Bit(m, 3))
        /\ n = FromBits(Bit(n, 0), Bit(n, 1), Bit(n, 2), Bit(n, 3))
    BY FourBits
  <1>6. And4(m, 15) = m /\ Or4(m, 0) = m
    BY <1>1, <1>2, <1>4, <1>5 DEF And4, Or4
  <1>7. Xor4(m, 15) = FromBits(1 - Bit(m, 0), 1 - Bit(m, 1), 1 - Bit(m, 2), 1 - Bit(m, 3))
    BY <1>1, <1>2, <1>4 DEF Xor4
  <1>8. \A a, b, c, d \in 0..1 :
           FromBits(1 - a, 1 - b, 1 - c, 1 - d) = 15 - FromBits(a, b, c, d)
    BY DEF FromBits
  <1>9. Xor4(m, 15) = 15 - m
    BY <1>4, <1>5, <1>7, <1>8
  <1>10. \A a, b, c, d, e, f, g, h \in 0..1 :
            FromBits(AndBit(a, e), AndBit(b, f), AndBit(c, g), AndBit(d, h))
              + FromBits(OrBit(a, e), OrBit(b, f), OrBit(c, g), OrBit(d, h))
            = FromBits(a, b, c, d) + FromBits(e, f, g, h)
    BY DEF FromBits, AndBit, OrBit
  <1>11. And4(m, n) + Or4(m, n) = m + n
    BY <1>4, <1>5, <1>10 DEF And4, Or4
  <1> QED BY <1>6, <1>9, <1>11

(* XOR is undone by XOR: after three of them each nibble is the other one. *)
LEMMA Swapping ==
    ASSUME NEW m \in Nibble, NEW n \in Nibble
    PROVE  /\ Xor4(n, Xor4(m, n)) = m
           /\ Xor4(Xor4(m, n), m) = n
  <1>1. \A p, q \in 0..1 : /\ XorBit(p, q) \in 0..1 /\ XorBit(q, XorBit(p, q)) = p
                           /\ XorBit(XorBit(p, q), p) = q
    BY DEF XorBit
  <1>2. \A k \in 0..3 : Bit(m, k) \in 0..1 /\ Bit(n, k) \in 0..1
    BY FourBits
  <1>3. \A k \in 0..3 : Bit(Xor4(m, n), k) = XorBit(Bit(m, k), Bit(n, k))
    BY <1>1, <1>2, FourBits DEF Xor4
  <1>4. \A k \in 0..3 : /\ XorBit(Bit(n, k), Bit(Xor4(m, n), k)) = Bit(m, k)
                        /\ XorBit(Bit(Xor4(m, n), k), Bit(m, k)) = Bit(n, k)
    BY <1>1, <1>2, <1>3
  <1>5. Xor4(n, Xor4(m, n)) = FromBits(Bit(m, 0), Bit(m, 1), Bit(m, 2), Bit(m, 3))
    BY <1>4 DEF Xor4
  <1>6. Xor4(Xor4(m, n), m) = FromBits(Bit(n, 0), Bit(n, 1), Bit(n, 2), Bit(n, 3))
    BY <1>4 DEF Xor4
  <1> QED BY <1>5, <1>6, FourBits

-----------------------------------------------------------------------------
(* What the operations do to the registers R0 to R6 and to the flags.      *)

Lo == 0..6

(* Register d takes x, its neighbours and the counter stay.                *)
Puts(v, w, d, x) ==
    /\ w.pc = v.pc
    /\ \A r \in Lo : w.mem[r] = IF r = d THEN x ELSE v.mem[r]

(* R0 to R6 are registers, and neither of the special ones nor of JSR, PCL *)
(* and the port.                                                           *)
LEMMA LowRegisters ==
    ASSUME NEW d \in Lo
    PROVE  /\ d \in Nibble /\ d \in Byte /\ d # RD_FLAGS /\ d # JSR /\ d # PCL
           /\ d \notin {IN_, IN_B} /\ d \notin {KEY_STATUS, KEY_REG, PAGE}
  BY DEF Lo, Nibble, Byte, RD_FLAGS, JSR, PCL, IN_, IN_B, KEY_STATUS, KEY_REG, PAGE

(* A store to one of them.                                                 *)
LEMMA StorePuts ==
    ASSUME NEW v \in VmState, NEW d \in Lo, NEW x \in Nibble
    PROVE  Puts(v, Store(v, d, x), d, x) /\ Store(v, d, x).flags = v.flags
  <1>1. Store(v, d, x).mem = [v.mem EXCEPT ![d] = x] /\ v.mem \in [Byte -> Nibble]
    BY StoreMem, LowRegisters, FieldTypes
  <1>2. Store(v, d, x).pc = v.pc /\ Store(v, d, x).flags = v.flags
    BY StoreFields, LowRegisters
  <1>3. \A r \in Lo : r \in Byte
    BY LowRegisters
  <1> QED BY <1>1, <1>2, <1>3 DEF Puts

(* A flag is outside memory.                                               *)
LEMMA FlagPuts ==
    ASSUME NEW u, NEW v \in VmState, NEW f \in Flag, NEW up \in BOOLEAN, NEW d, NEW x,
           Puts(u, v, d, x)
    PROVE  /\ Puts(u, SetFlag(v, f, up), d, x)
           /\ SetFlag(v, f, up) \in VmState
           /\ f \in SetFlag(v, f, up).flags <=> up
           /\ \A g \in Flag \ {f} : g \in SetFlag(v, f, up).flags <=> g \in v.flags
  <1>1. /\ SetFlag(v, f, up).mem = v.mem /\ SetFlag(v, f, up).pc = v.pc
        /\ SetFlag(v, f, up).flags = IF up THEN v.flags \cup {f} ELSE v.flags \ {f}
    BY DEF SetFlag, VmState
  <1> QED BY <1>1, SetFlagType DEF Puts

(* The copy of V in RD_FLAGS is not one of these registers.                *)
LEMMA OverflowPuts ==
    ASSUME NEW u, NEW v \in VmState, NEW s, NEW d, NEW x, Puts(u, v, d, x)
    PROVE  LET w == update_overflow_flag(s, v)
           IN  /\ Puts(u, w, d, x)
               /\ "V" \in w.flags <=> s < -8 \/ s > 7
               /\ "C" \in w.flags <=> "C" \in v.flags
               /\ "Z" \in w.flags <=> "Z" \in v.flags
  <1> DEFINE w == update_overflow_flag(s, v)
  <1>1. ASSUME NEW up \in BOOLEAN, NEW n \in Nibble
        PROVE  LET t == Store(SetFlag(v, "V", up), RD_FLAGS, n)
               IN  /\ Puts(u, t, d, x)
                   /\ "V" \in t.flags <=> up
                   /\ "C" \in t.flags <=> "C" \in v.flags
                   /\ "Z" \in t.flags <=> "Z" \in v.flags
    <2> DEFINE f == SetFlag(v, "V", up)
               t == Store(f, RD_FLAGS, n)
    <2>1. /\ Puts(u, f, d, x) /\ f \in VmState /\ ("V" \in f.flags <=> up)
          /\ "C" \in f.flags <=> "C" \in v.flags
          /\ "Z" \in f.flags <=> "Z" \in v.flags
      BY FlagPuts DEF Flag
    <2> HIDE DEF f
    <2>2. t.mem = [f.mem EXCEPT ![RD_FLAGS] = n] /\ t.pc = f.pc /\ t.flags = f.flags
      BY <2>1, StoreMem, StoreFields, Addresses
    <2>3. f.mem \in [Byte -> Nibble]
      BY <2>1, FieldTypes
    <2>4. \A r \in Lo : t.mem[r] = f.mem[r]
      BY <2>2, <2>3, LowRegisters
    <2>5. Puts(u, t, d, x)
      BY <2>1, <2>2, <2>4 DEF Puts
    <2> HIDE DEF t
    <2>6. /\ Puts(u, t, d, x) /\ ("V" \in t.flags <=> up)
          /\ "C" \in t.flags <=> "C" \in v.flags
          /\ "Z" \in t.flags <=> "Z" \in v.flags
      BY <2>1, <2>2, <2>5
    <2> QED BY <2>6 DEF t, f
  <1>2. \A up \in BOOLEAN : /\ WithBit(SetFlag(v, "V", up).mem[RD_FLAGS], V_FLAG) \in Nibble
                            /\ WithoutBit(SetFlag(v, "V", up).mem[RD_FLAGS], V_FLAG) \in Nibble
    <2> SUFFICES ASSUME NEW up \in BOOLEAN
                 PROVE  /\ WithBit(SetFlag(v, "V", up).mem[RD_FLAGS], V_FLAG) \in Nibble
                        /\ WithoutBit(SetFlag(v, "V", up).mem[RD_FLAGS], V_FLAG) \in Nibble
      OBVIOUS
    <2>1. SetFlag(v, "V", up).mem[RD_FLAGS] \in Nibble
      BY SetFlagType, MemType, Addresses DEF Flag
    <2> QED BY <2>1, OneBit, Addresses
  <1>3. CASE s < -8 \/ s > 7
    <2>1. w = Store(SetFlag(v, "V", TRUE), RD_FLAGS,
                    WithBit(SetFlag(v, "V", TRUE).mem[RD_FLAGS], V_FLAG))
      BY <1>3 DEF update_overflow_flag, SetBit
    <2> HIDE DEF w
    <2>2. /\ Puts(u, w, d, x) /\ "V" \in w.flags
          /\ "C" \in w.flags <=> "C" \in v.flags
          /\ "Z" \in w.flags <=> "Z" \in v.flags
      BY <1>1, <1>2, <2>1
    <2> QED BY <1>3, <2>2 DEF w
  <1>4. CASE ~(s < -8 \/ s > 7)
    <2>1. w = Store(SetFlag(v, "V", FALSE), RD_FLAGS,
                    WithoutBit(SetFlag(v, "V", FALSE).mem[RD_FLAGS], V_FLAG))
      BY <1>4 DEF update_overflow_flag, ClearBit
    <2> HIDE DEF w
    <2>2. /\ Puts(u, w, d, x) /\ "V" \notin w.flags
          /\ "C" \in w.flags <=> "C" \in v.flags
          /\ "Z" \in w.flags <=> "Z" \in v.flags
      BY <1>1, <1>2, <2>1
    <2> QED BY <1>4, <2>2 DEF w
  <1> QED BY <1>3, <1>4

(* Storing result modulo sixteen, then Z, then C or its inverse.           *)
LEMMA ResultPuts ==
    ASSUME NEW v \in VmState, NEW d \in Lo, NEW x \in Int
    PROVE  LET z == update_zero_flag(x, Store(v, d, x % 16))
               c == update_carry_flag(x, z)
               b == update_borrow_flag(x, z)
           IN  /\ c \in VmState /\ Puts(v, c, d, x % 16)
               /\ "Z" \in c.flags <=> x % 16 = 0
               /\ "C" \in c.flags <=> (x \div 16) % 2 = 1
               /\ b \in VmState /\ Puts(v, b, d, x % 16)
               /\ "Z" \in b.flags <=> x % 16 = 0
               /\ "C" \in b.flags <=> (x \div 16) % 2 = 0
  <1> DEFINE y    == x % 16
             up   == (x \div 16) % 2 = 1
             down == (x \div 16) % 2 = 0
             zero == y = 0
             s    == Store(v, d, y)
             z    == SetFlag(s, "Z", zero)
             c    == SetFlag(z, "C", up)
             b    == SetFlag(z, "C", down)
  <1>1. y \in Nibble /\ up \in BOOLEAN /\ down \in BOOLEAN /\ zero \in BOOLEAN
    BY Masks
  <1>2. /\ update_zero_flag(x, s) = z
        /\ update_carry_flag(x, z) = c /\ update_borrow_flag(x, z) = b
    BY DEF update_zero_flag, update_carry_flag, update_borrow_flag
  <1>3. /\ "C" \in Flag /\ "Z" \in Flag \ {"C"}
    BY DEF Flag
  <1> HIDE DEF y, up, down, zero, s, z, c, b
  <1>4. s \in VmState /\ Puts(v, s, d, y)
    BY <1>1, StoreType, StorePuts, LowRegisters DEF s
  <1>5. z \in VmState /\ Puts(v, z, d, y) /\ ("Z" \in z.flags <=> zero)
    BY <1>1, <1>3, <1>4, FlagPuts DEF z
  <1>6. c \in VmState /\ Puts(v, c, d, y) /\ ("C" \in c.flags <=> up)
        /\ ("Z" \in c.flags <=> "Z" \in z.flags)
    BY <1>1, <1>3, <1>5, FlagPuts DEF c
  <1>7. b \in VmState /\ Puts(v, b, d, y) /\ ("C" \in b.flags <=> down)
        /\ ("Z" \in b.flags <=> "Z" \in z.flags)
    BY <1>1, <1>3, <1>5, FlagPuts DEF b
  <1>8. /\ c \in VmState /\ Puts(v, c, d, y)
        /\ ("Z" \in c.flags <=> zero) /\ ("C" \in c.flags <=> up)
        /\ b \in VmState /\ Puts(v, b, d, y)
        /\ ("Z" \in b.flags <=> zero) /\ ("C" \in b.flags <=> down)
    BY <1>5, <1>6, <1>7
  <1> QED BY <1>2, <1>8 DEF y, up, down, zero, s

(* The nibble kept of a sum and of a difference.                           *)
Kept(t) == IF t > 15 THEN t - 16 ELSE IF t < 0 THEN t + 16 ELSE t

(* What the machine shows when t was the sum (difference) of two nibbles   *)
(* and s that of what they stand for with a sign.                          *)
Added(v, w, d, t, s) ==
    /\ Puts(v, w, d, Kept(t))
    /\ "C" \in w.flags <=> t > 15
    /\ "Z" \in w.flags <=> Kept(t) = 0
    /\ "V" \in w.flags <=> s < -8 \/ s > 7

Subtracted(v, w, d, t, s) ==
    /\ Puts(v, w, d, Kept(t))
    /\ "C" \in w.flags <=> t >= 0
    /\ "Z" \in w.flags <=> Kept(t) = 0
    /\ "V" \in w.flags <=> s < -8 \/ s > 7

(* The flags are updated from the result before it is cut to a nibble.     *)
LEMMA Shown ==
    ASSUME NEW v \in VmState, NEW d \in Lo, NEW t \in -16..31, NEW s
    PROVE  LET z == update_zero_flag(UInt8(t), Store(v, d, UInt8(t) % 16))
           IN  /\ t >= 0 => Added(v, update_overflow_flag(s, update_carry_flag(UInt8(t), z)), d, t, s)
               /\ t <= 15 =>
                    Subtracted(v, update_overflow_flag(s, update_borrow_flag(UInt8(t), z)), d, t, s)
  <1> DEFINE x == UInt8(t)
             z == update_zero_flag(x, Store(v, d, x % 16))
             c == update_carry_flag(x, z)
             b == update_borrow_flag(x, z)
  <1>1. /\ x \in Int /\ x % 16 = Kept(t)
        /\ t >= 0 => ((x \div 16) % 2 = 1 <=> t > 15)
        /\ t <= 15 => ((x \div 16) % 2 = 0 <=> t >= 0)
    BY Wraps DEF Kept
  <1> HIDE DEF x
  <1>2. /\ c \in VmState /\ Puts(v, c, d, x % 16)
        /\ "Z" \in c.flags <=> x % 16 = 0
        /\ "C" \in c.flags <=> (x \div 16) % 2 = 1
        /\ b \in VmState /\ Puts(v, b, d, x % 16)
        /\ "Z" \in b.flags <=> x % 16 = 0
        /\ "C" \in b.flags <=> (x \div 16) % 2 = 0
    BY <1>1, ResultPuts
  <1> HIDE DEF z, c, b
  <1>3. t >= 0 => Added(v, update_overflow_flag(s, c), d, t, s)
    BY <1>1, <1>2, OverflowPuts DEF Added
  <1>4. t <= 15 => Subtracted(v, update_overflow_flag(s, b), d, t, s)
    BY <1>1, <1>2, OverflowPuts DEF Subtracted
  <1> QED BY <1>3, <1>4 DEF c, b, z, x

(* ADD and ADC, SUB and SBB of one of these registers.                     *)
LEMMA Arithmetic ==
    ASSUME NEW v \in VmState, NEW d \in Lo, NEW n \in Nibble
    PROVE  LET m == v.mem[d]
               k == Carry(v)
               s(a) == nibble_to_int8(a)
           IN  /\ Added(v, op_add(v, d, n), d, m + n, s(m) + s(n))
               /\ Added(v, op_adc(v, d, n), d, m + n + k, s(m) + s(n) + k)
               /\ Subtracted(v, op_sub(v, d, n), d, m - n, s(m) - s(n))
               /\ Subtracted(v, op_sbb(v, d, n), d, m - n - (1 - k), s(m) - s(n) - (1 - k))
  <1> DEFINE m == v.mem[d]
             k == Carry(v)
             s(a) == nibble_to_int8(a)
  <1>1. m \in Nibble /\ k \in 0..1
    BY MemType, LowRegisters DEF Carry
  <1>2. /\ m + n \in -16..31 /\ m + n >= 0
        /\ m + n + k \in -16..31 /\ m + n + k >= 0
        /\ m - n \in -16..31 /\ m - n <= 15
        /\ m - n - (1 - k) \in -16..31 /\ m - n - (1 - k) <= 15
    <2> HIDE DEF m, k
    <2> QED BY <1>1 DEF Nibble
  <1>3. Added(v, op_add(v, d, n), d, m + n, s(m) + s(n))
    BY <1>2, Shown DEF op_add
  <1>4. Added(v, op_adc(v, d, n), d, m + n + k, s(m) + s(n) + k)
    BY <1>2, Shown DEF op_adc
  <1>5. Subtracted(v, op_sub(v, d, n), d, m - n, s(m) - s(n))
    BY <1>2, Shown DEF op_sub
  <1>6. Subtracted(v, op_sbb(v, d, n), d, m - n - (1 - k), s(m) - s(n) - (1 - k))
    BY <1>2, Shown DEF op_sbb
  <1> QED BY <1>3, <1>4, <1>5, <1>6

(* Storing a nibble and updating Z from it.                                *)
LEMMA ZeroPuts ==
    ASSUME NEW v, NEW u \in VmState, NEW d \in Lo, NEW y, Puts(v, u, d, y), NEW x \in Nibble
    PROVE  LET w == update_zero_flag(x, Store(u, d, x))
           IN  w \in VmState /\ Puts(v, w, d, x) /\ ("C" \in w.flags <=> "C" \in u.flags)
  <1> DEFINE s == Store(u, d, x)
             zero == x % 16 = 0
             w == SetFlag(s, "Z", zero)
  <1>1. zero \in BOOLEAN /\ "C" \in Flag \ {"Z"} /\ "Z" \in Flag
    BY DEF Flag
  <1>2. update_zero_flag(x, s) = w
    BY DEF update_zero_flag
  <1> HIDE DEF s, zero, w
  <1>3. s \in VmState /\ Puts(u, s, d, x) /\ s.flags = u.flags
    BY StoreType, StorePuts, LowRegisters DEF s
  <1>4. Puts(v, s, d, x)
    BY <1>3 DEF Puts
  <1>5. w \in VmState /\ Puts(v, w, d, x) /\ ("C" \in w.flags <=> "C" \in s.flags)
    BY <1>1, <1>3, <1>4, FlagPuts DEF w
  <1> QED BY <1>2, <1>3, <1>5 DEF s

(* RRC of one of these registers.                                          *)
LEMMA Rotate ==
    ASSUME NEW v \in VmState, NEW d \in Lo
    PROVE  /\ Puts(v, op_rrc(v, d), d, v.mem[d] \div 2 + 8 * Carry(v))
           /\ "C" \in op_rrc(v, d).flags <=> v.mem[d] % 2 = 1
  <1> DEFINE m  == v.mem[d]
             up == m % 2 = 1
             x  == m \div 2 + 8 * Carry(v)
             u  == SetFlag(v, "C", up)
  <1>0. m \in Nibble /\ "C" \in Flag
    BY MemType, LowRegisters DEF Flag
  <1>1. Puts(v, v, d, m)
    BY DEF Puts
  <1>2. up \in BOOLEAN /\ x \in Nibble
    BY <1>0 DEF Carry, Nibble
  <1>3. op_rrc(v, d) = update_zero_flag(x, Store(u, d, x))
    BY DEF op_rrc
  <1> HIDE DEF m, up, x, u
  <1>4. u \in VmState /\ Puts(v, u, d, m) /\ ("C" \in u.flags <=> up)
    BY <1>0, <1>1, <1>2, FlagPuts DEF u
  <1>5. Puts(v, op_rrc(v, d), d, x) /\ ("C" \in op_rrc(v, d).flags <=> up)
    BY <1>2, <1>3, <1>4, ZeroPuts
  <1> QED BY <1>5 DEF up, x, m

(* OR, AND and XOR of one of them.                                         *)
LEMMA Logic ==
    ASSUME NEW v \in VmState, NEW d \in Lo, NEW n \in Nibble
    PROVE  LET m == v.mem[d]
           IN  /\ Puts(v, op_or(v, d, n, FALSE), d, Or4(m, n))
               /\ Puts(v, op_or(v, d, n, TRUE), d, Or4(m, n))
               /\ "C" \in op_or(v, d, n, TRUE).flags
               /\ Puts(v, op_and(v, d, n, FALSE), d, And4(m, n))
               /\ Puts(v, op_and(v, d, n, TRUE), d, And4(m, n))
               /\ "C" \notin op_and(v, d, n, TRUE).flags
               /\ Puts(v, op_xor(v, d, n, FALSE), d, Xor4(m, n))
               /\ Puts(v, op_xor(v, d, n, TRUE), d, Xor4(m, n))
               /\ "C" \in op_xor(v, d, n, TRUE).flags <=> "C" \notin v.flags
  <1> DEFINE m == v.mem[d]
             z(x) == update_zero_flag(x, Store(v, d, x))
  <1>0. m \in Nibble /\ "C" \in Flag \ {"Z"} /\ "Z" \in Flag
    BY MemType, LowRegisters DEF Flag
  <1> HIDE DEF m
  <1>2. Puts(v, v, d, m)
    BY DEF Puts, m
  <1>3. \A x \in Nibble : z(x) \in VmState /\ Puts(v, z(x), d, x)
                          /\ ("C" \in z(x).flags <=> "C" \in v.flags)
    BY <1>2, ZeroPuts
  <1>4. Or4(m, n) \in Nibble /\ And4(m, n) \in Nibble /\ Xor4(m, n) \in Nibble
    BY <1>0, Bits
  <1> HIDE DEF z
  <1>5. \A x \in Nibble, up \in BOOLEAN :
           /\ Puts(v, SetFlag(z(x), "C", up), d, x)
           /\ "C" \in SetFlag(z(x), "C", up).flags <=> up
    BY <1>0, <1>3, FlagPuts
  <1>6. /\ op_or(v, d, n, FALSE) = z(Or4(m, n))
        /\ op_or(v, d, n, TRUE) = SetFlag(z(Or4(m, n)), "C", TRUE)
        /\ op_and(v, d, n, FALSE) = z(And4(m, n))
        /\ op_and(v, d, n, TRUE) = SetFlag(z(And4(m, n)), "C", FALSE)
        /\ op_xor(v, d, n, FALSE) = z(Xor4(m, n))
        /\ op_xor(v, d, n, TRUE)
             = SetFlag(z(Xor4(m, n)), "C", "C" \notin z(Xor4(m, n)).flags)
    BY DEF op_or, op_and, op_xor, z, m
  <1>7. /\ Puts(v, op_or(v, d, n, FALSE), d, Or4(m, n))
        /\ Puts(v, op_or(v, d, n, TRUE), d, Or4(m, n)) /\ "C" \in op_or(v, d, n, TRUE).flags
    BY <1>3, <1>4, <1>5, <1>6
  <1>8. /\ Puts(v, op_and(v, d, n, FALSE), d, And4(m, n))
        /\ Puts(v, op_and(v, d, n, TRUE), d, And4(m, n))
        /\ "C" \notin op_and(v, d, n, TRUE).flags
    BY <1>3, <1>4, <1>5, <1>6
  <1>9. /\ Puts(v, op_xor(v, d, n, FALSE), d, Xor4(m, n))
        /\ Puts(v, op_xor(v, d, n, TRUE), d, Xor4(m, n))
        /\ "C" \in op_xor(v, d, n, TRUE).flags <=> "C" \notin v.flags
    <2> DEFINE up == "C" \notin z(Xor4(m, n)).flags
    <2>1. up \in BOOLEAN /\ (up <=> "C" \notin v.flags) BY <1>3, <1>4
    <2>2. op_xor(v, d, n, TRUE) = SetFlag(z(Xor4(m, n)), "C", up) BY <1>6
    <2> HIDE DEF up
    <2>3. /\ Puts(v, op_xor(v, d, n, TRUE), d, Xor4(m, n))
          /\ "C" \in op_xor(v, d, n, TRUE).flags <=> up
      BY <1>4, <1>5, <2>1, <2>2
    <2> QED BY <1>3, <1>4, <1>6, <2>1, <2>3
  <1> QED BY <1>7, <1>8, <1>9 DEF m

(* Registers and flags are the same.                                       *)
Same(v, w) == w.flags = v.flags /\ \A r \in Lo : w.mem[r] = v.mem[r]

(* Relative jumps within sixteen bits change the counter only.             *)
LEMMA Skips ==
    ASSUME NEW v \in VmState, NEW n \in Int, v.pc + n \in Counter
    PROVE  Same(v, Skip(v, n)) /\ Skip(v, n).pc = v.pc + n
  <1>1. UInt16(v.pc + n) = v.pc + n
    <2>1. \A t \in Counter : UInt16(t) = t
      <3>1. \A t \in Int : 0 <= t /\ t <= 65535 => t % 65536 = t
        OBVIOUS
      <3> QED BY <3>1, CounterRange DEF UInt16
    <2> QED BY <2>1
  <1> QED BY <1>1 DEF Skip, Same, VmState

(* MOV, INC, DSZ, JR and SKIP.                                             *)
LEMMA Control ==
    ASSUME NEW v \in VmState, v.pc \in Addr, NEW d \in Lo, NEW n \in Nibble
    PROVE  LET m == v.mem[d]
           IN  /\ Puts(v, op_mov_jump(v, d, n), d, n) /\ op_mov_jump(v, d, n).flags = v.flags
               /\ Puts(v, op_inc(v, d), d, Kept(m + 1))
               /\ "C" \in op_inc(v, d).flags <=> m = 15
               /\ "Z" \in op_inc(v, d).flags <=> m = 15
               /\ LET w == op_dsz(v, d)
                  IN  /\ w.pc = IF m = 1 THEN v.pc + 1 ELSE v.pc
                      /\ w.flags = v.flags
                      /\ \A r \in Lo : w.mem[r] = IF r = d THEN Kept(m - 1) ELSE v.mem[r]
  <1> DEFINE m == v.mem[d]
  <1>0. m \in Nibble /\ v.pc + 1 \in Counter
    <2>1. \A a \in Addr : a + 1 \in Counter
      BY AddrRange, CounterRange
    <2> QED BY <2>1, MemType, LowRegisters
  <1>1. \A w : maybe_call_or_jump(d, w) = w
    BY LowRegisters DEF maybe_call_or_jump
  <1>2. Puts(v, op_mov_jump(v, d, n), d, n) /\ op_mov_jump(v, d, n).flags = v.flags
    BY <1>1, StorePuts DEF op_mov_jump
  <1>3. /\ Puts(v, op_inc(v, d), d, Kept(m + 1))
        /\ "C" \in op_inc(v, d).flags <=> m = 15
        /\ "Z" \in op_inc(v, d).flags <=> m = 15
    <2> DEFINE x == UInt8(m + 1)
               c == update_carry_flag(x, update_zero_flag(x, Store(v, d, x % 16)))
    <2>1. /\ x \in Int /\ x % 16 = Kept(m + 1)
          /\ (x \div 16) % 2 = 1 <=> m + 1 > 15
          /\ m + 1 > 15 <=> m = 15
          /\ Kept(m + 1) = 0 <=> m = 15
      <3>1. m + 1 \in -16..31 /\ m + 1 >= 0 /\ (m + 1 > 15 <=> m = 15)
            /\ (Kept(m + 1) = 0 <=> m = 15)
        <4> HIDE DEF m
        <4> QED BY <1>0 DEF Nibble, Kept
      <3> QED BY <3>1, Wraps DEF Kept
    <2>2. op_inc(v, d) = c
      BY <1>1, LowRegisters DEF op_inc
    <2> HIDE DEF x
    <2>3. /\ Puts(v, c, d, x % 16)
          /\ "Z" \in c.flags <=> x % 16 = 0
          /\ "C" \in c.flags <=> (x \div 16) % 2 = 1
      BY <2>1, ResultPuts
    <2> HIDE DEF c, m
    <2> QED BY <2>1, <2>2, <2>3
  <1>4. LET w == op_dsz(v, d)
        IN  /\ w.pc = IF m = 1 THEN v.pc + 1 ELSE v.pc
            /\ w.flags = v.flags
            /\ \A r \in Lo : w.mem[r] = IF r = d THEN Kept(m - 1) ELSE v.mem[r]
    <2> DEFINE x == UInt8(m - 1) % 16
               s == Store(v, d, x)
               w == op_dsz(v, d)
    <2>1. x = Kept(m - 1) /\ x \in Nibble /\ (x = 0 <=> m = 1)
      <3> HIDE DEF m
      <3>1. m - 1 \in -16..31 /\ Kept(m - 1) \in Nibble /\ (Kept(m - 1) = 0 <=> m = 1)
        BY <1>0 DEF Nibble, Kept
      <3> QED BY <3>1, Wraps DEF Kept
    <2>2. w = IF x = 0 THEN Skip(s, 1) ELSE s
      BY DEF op_dsz
    <2> HIDE DEF x, s, w, m
    <2>3. s \in VmState /\ Puts(v, s, d, x) /\ s.flags = v.flags
      BY <2>1, StoreType, StorePuts, LowRegisters DEF s
    <2>4. Same(s, Skip(s, 1)) /\ Skip(s, 1).pc = s.pc + 1
      BY <1>0, <2>3, Skips DEF Puts
    <2>5. /\ w.pc = IF m = 1 THEN v.pc + 1 ELSE v.pc
          /\ w.flags = v.flags
          /\ \A r \in Lo : w.mem[r] = IF r = d THEN Kept(m - 1) ELSE v.mem[r]
      BY <2>1, <2>2, <2>3, <2>4 DEF Puts, Same
    <2> QED BY <2>5 DEF w
  <1> QED BY <1>2, <1>3, <1>4

-----------------------------------------------------------------------------
(* Steps of the machine, seen from these registers.                        *)

(* The word of program p at address a.                                     *)
WordAt(p, a) == IF a < Len(p) THEN p[a + 1] ELSE ZeroWord

(* What the instructions of the programs make of a machine f.              *)
Executed(i, f, w) ==
    LET x == i.nibble2
        y == i.nibble3
    IN  /\ i.nibble1 = 1 => w = op_add(f, x, f.mem[y])
        /\ i.nibble1 = 2 => w = op_adc(f, x, f.mem[y])
        /\ i.nibble1 = 3 => w = op_sub(f, x, f.mem[y])
        /\ i.nibble1 = 4 => w = op_sbb(f, x, f.mem[y])
        /\ i.nibble1 = 5 => w = op_or(f, x, f.mem[y], FALSE)
        /\ i.nibble1 = 6 => w = op_and(f, x, f.mem[y], FALSE)
        /\ i.nibble1 = 7 => w = op_xor(f, x, f.mem[y], FALSE)
        /\ i.nibble1 = 8 => w = op_mov_jump(f, x, f.mem[y])
        /\ i.nibble1 = 9 => w = op_mov_jump(f, x, y)
        /\ i.nibble1 = 15 => w = op_jr(f, 16 * x + y)
        /\ i.nibble1 = 0 =>
              /\ x = 2  => w = op_inc(f, y)
              /\ x = 4  => w = op_dsz(f, y)
              /\ x = 5  => w = op_or(f, R0, y, TRUE)
              /\ x = 6  => w = op_and(f, R0, y, TRUE)
              /\ x = 7  => w = op_xor(f, R0, y, TRUE)
              /\ x = 13 => w = op_rrc(f, y)
              /\ x = 15 => w = op_skip(f, y \div 4, y % 4)

(* From v to w the machine rests, or executes the word of p at its counter *)
(* (or there is no such word, and it fails).                               *)
Rests(v, w) == Same(v, w) /\ w.pc = v.pc
Runs(p, v, w) ==
    \/ Rests(v, w)
    \/ v.pc \notin Addr
    \/ \E f \in VmState :
          Same(v, f) /\ f.pc = NextAddr(v.pc) /\ Executed(WordAt(p, v.pc), f, w)

(* The user presses keys and turns pages elsewhere.                        *)
LEMMA KeysRest ==
    ASSUME TypeOK,
           (\E k \in Keys : KeyPress(k)) \/ KeyRelease \/ (\E d \in PageMoves : MovePage(d))
    PROVE  Rests(vm, vm')
  <1>0. vm \in VmState
    BY DEF TypeOK
  <1>1. vm'.pc = vm.pc /\ \A r \in Lo : vm'.mem[r] = vm.mem[r]
    BY KeyEffects, LowRegisters DEF Touches
  <1>2. \A a, x : Store(vm, a, x).flags = vm.flags
                  /\ \A b, y : Store(Store(vm, a, x), b, y).flags = vm.flags
    BY <1>0 DEF Store, VmState
  <1>3. vm'.flags = vm.flags
    BY <1>2 DEF KeyPress, KeyRelease, MovePage, Becomes, SetBit, ClearBit
  <1> QED BY <1>1, <1>3 DEF Rests, Same

(* A cycle executes the instruction at the counter.                        *)
LEMMA CycleExecutes ==
    ASSUME TypeOK, NEW sync \in Syncs, Cycle(sync), vm.pc \in Addr
    PROVE  Executed(Instr, Fetched(sync), vm')
  <1> DEFINE f == Fetched(sync)
  <1>1. Instr.nibble1 \in Int /\ Instr.nibble2 \in Int
    BY InstrType DEF TypeOK, Word, Nibble
  <1> HIDE DEF f
  <1>2. SUFFICES Executed(Instr, f, vm')
    BY DEF f
  <1> USE <1>1 DEF Executed, Narrow, Wide, Becomes
  <1> USE DEF get_addr_rx, get_addr_ry, get_val_ry, get_val_literal, get_val_byte_literal,
              get_condition_flag, get_val_crumb_literal
  <1>3. CASE Add(sync)
    <2>1. CASE Narrow(1) /\ Becomes(op_add(f, get_addr_rx(Instr), get_val_ry(f, Instr)))
      BY <2>1
    <2>2. CASE Wide(1) /\ Becomes(op_add(f, R0, get_val_literal(Instr)))
      BY <2>2
    <2> QED BY <1>3, <2>1, <2>2 DEF Add, f
  <1>4. CASE Adc(sync) BY <1>4 DEF Adc, f
  <1>5. CASE Sub(sync) BY <1>5 DEF Sub, f
  <1>6. CASE Sbb(sync) BY <1>6 DEF Sbb, f
  <1>7. CASE Or(sync)
    <2>1. CASE Narrow(5) /\ Becomes(op_or(f, get_addr_rx(Instr), get_val_ry(f, Instr), FALSE))
      BY <2>1
    <2>2. CASE Wide(5) /\ Becomes(op_or(f, R0, get_val_literal(Instr), TRUE))
      BY <2>2
    <2> QED BY <1>7, <2>1, <2>2 DEF Or, f
  <1>8. CASE And(sync)
    <2>1. CASE Narrow(6) /\ Becomes(op_and(f, get_addr_rx(Instr), get_val_ry(f, Instr), FALSE))
      BY <2>1
    <2>2. CASE Wide(6) /\ Becomes(op_and(f, R0, get_val_literal(Instr), TRUE))
      BY <2>2
    <2> QED BY <1>8, <2>1, <2>2 DEF And, f
  <1>9. CASE Xor(sync)
    <2>1. CASE Narrow(7) /\ Becomes(op_xor(f, get_addr_rx(Instr), get_val_ry(f, Instr), FALSE))
      BY <2>1
    <2>2. CASE Wide(7) /\ Becomes(op_xor(f, R0, get_val_literal(Instr), TRUE))
      BY <2>2
    <2> QED BY <1>9, <2>1, <2>2 DEF Xor, f
  <1>10. CASE Mov(sync)
    <2>1. CASE Narrow(8) /\ Becomes(op_mov_jump(f, get_addr_rx(Instr), get_val_ry(f, Instr)))
      BY <2>1
    <2>2. CASE Narrow(9) /\ Becomes(op_mov_jump(f, get_addr_rx(Instr), get_val_literal(Instr)))
      BY <2>2
    <2>3. CASE Instr.nibble1 > 9 /\ Instr.nibble1 < 15
      <3>1. CASE Instr.nibble1 = 10 BY <3>1
      <3>2. CASE Instr.nibble1 = 11 BY <3>2
      <3>3. CASE Instr.nibble1 = 12 BY <3>3
      <3>4. CASE Instr.nibble1 = 13 BY <3>4
      <3>5. CASE Instr.nibble1 = 14 BY <3>5
      <3> HIDE DEF Executed
      <3> QED BY <2>3, <3>1, <3>2, <3>3, <3>4, <3>5
    <2>4. \/ Narrow(8) /\ Becomes(op_mov_jump(f, get_addr_rx(Instr), get_val_ry(f, Instr)))
          \/ Narrow(9) /\ Becomes(op_mov_jump(f, get_addr_rx(Instr), get_val_literal(Instr)))
          \/ Instr.nibble1 > 9 /\ Instr.nibble1 < 15
      <3> HIDE DEF Executed, Becomes, get_addr_rx, get_val_ry, get_val_literal
      <3> QED BY <1>10 DEF Mov, f
    <2> QED BY <2>1, <2>2, <2>3, <2>4
  <1>11. CASE Jr(sync) BY <1>11 DEF Jr, f
  <1>12. CASE Cp(sync) BY <1>12 DEF Cp, f
  <1>13. CASE Inc(sync) BY <1>13 DEF Inc, f
  <1>14. CASE Dec(sync) BY <1>14 DEF Dec, f
  <1>15. CASE Dsz(sync) BY <1>15 DEF Dsz, f
  <1>16. CASE Exr(sync) BY <1>16 DEF Exr, f
  <1>17. CASE BitTest(sync) BY <1>17 DEF BitTest, f
  <1>18. CASE Bset(sync) BY <1>18 DEF Bset, f
  <1>19. CASE Bclr(sync) BY <1>19 DEF Bclr, f
  <1>20. CASE Btg(sync) BY <1>20 DEF Btg, f
  <1>21. CASE Rrc(sync) BY <1>21 DEF Rrc, f
  <1>22. CASE Ret(sync) BY <1>22 DEF Ret, f
  <1>23. CASE SkipIf(sync) BY <1>23 DEF SkipIf, f
  <1>24. ~AssertFails(sync)
    BY DEF AssertFails
  <1> QED
    BY <1>3, <1>4, <1>5, <1>6, <1>7, <1>8, <1>9, <1>10, <1>11, <1>12, <1>13, <1>14, <1>15, <1>16, <1>17, <1>18, <1>19, <1>20, <1>21, <1>22, <1>23, <1>24 DEF Cycle

(* Every step is one of these, and the program stays.                      *)
LEMMA Execution ==
    ASSUME TypeOK, [Next]_vars
    PROVE  prg' = prg /\ Runs(prg, vm, vm')
  <1>0. vm \in VmState
    BY DEF TypeOK
  <1>1. ASSUME NEW sync \in Syncs, Cycle(sync), vm.pc \in Addr
        PROVE  Runs(prg, vm, vm')
    <2>1. /\ Fetched(sync) \in VmState /\ Fetched(sync).pc = NextAddr(vm.pc)
          /\ Fetched(sync).flags = vm.flags
          /\ Touches(vm, Fetched(sync), {RD_FLAGS, IN_, IN_B})
      BY <1>0, <1>1, FetchedEffect, FetchedShown, FetchedType DEF Samples
    <2>2. Same(vm, Fetched(sync))
      BY <2>1, LowRegisters DEF Same, Touches
    <2>3. Executed(Instr, Fetched(sync), vm') /\ Instr = WordAt(prg, vm.pc)
      BY <1>1, CycleExecutes DEF Instr, instructions, WordAt
    <2> QED BY <2>1, <2>2, <2>3 DEF Runs
  <1>2. ASSUME (\E k \in Keys : KeyPress(k)) \/ KeyRelease \/ (\E d \in PageMoves : MovePage(d))
        PROVE  Runs(prg, vm, vm')
    BY <1>2, KeysRest DEF Runs
  <1>3. ASSUME UNCHANGED vars
        PROVE  Runs(prg, vm, vm')
    BY <1>3 DEF vars, Runs, Rests, Same
  <1>4. Runs(prg, vm, vm')
    BY <1>1, <1>2, <1>3 DEF Next, Runs
  <1>5. prg' = prg
    BY DEF Next, Cycle, Add, Adc, Sub, Sbb, Or, And, Xor, Mov, Jr, Cp, Inc, Dec, Dsz, Exr,
       BitTest, Bset, Bclr, Btg, Rrc, Ret, SkipIf, AssertFails, Becomes, KeyPress, KeyRelease,
       MovePage, vars
  <1> QED BY <1>4, <1>5

-----------------------------------------------------------------------------
(* The programs.                                                           *)

Rest(p) == SubSeq(p, 5, Len(p))

(* Short sequences.                                                        *)
LEMMA Tuples ==
    ASSUME NEW S, NEW a \in S, NEW b \in S, NEW c \in S, NEW d \in S, NEW e \in S,
           NEW f \in S, NEW g \in S
    PROVE  /\ LET s == <<a, b, c>>
              IN  s \in Seq(S) /\ Len(s) = 3 /\ s[1] = a /\ s[2] = b /\ s[3] = c
           /\ LET s == <<a, b, c, d>>
              IN  s \in Seq(S) /\ Len(s) = 4 /\ s[1] = a /\ s[2] = b /\ s[3] = c /\ s[4] = d
           /\ LET s == <<a, b, c, d, e>>
              IN  /\ s \in Seq(S) /\ Len(s) = 5
                  /\ s[1] = a /\ s[2] = b /\ s[3] = c /\ s[4] = d /\ s[5] = e
           /\ LET s == <<a, b, c, d, e, f, g>>
              IN  /\ s \in Seq(S) /\ Len(s) = 7
                  /\ s[1] = a /\ s[2] = b /\ s[3] = c /\ s[4] = d /\ s[5] = e
                  /\ s[6] = f /\ s[7] = g
  OBVIOUS

LEMMA WordType ==
    /\ \A a, b, c \in Nibble : /\ W(a, b, c) \in Word
                               /\ W(a, b, c).nibble1 = a
                               /\ W(a, b, c).nibble2 = b
                               /\ W(a, b, c).nibble3 = c
    /\ \A k \in 0..15 : k \in Nibble
    /\ Stay \in Word
  <1>1. \A k \in 0..15 : k \in Nibble
    BY DEF Nibble
  <1>2. \A a, b, c \in Nibble : /\ W(a, b, c) \in Word
                                /\ W(a, b, c).nibble1 = a
                                /\ W(a, b, c).nibble2 = b
                                /\ W(a, b, c).nibble3 = c
    BY DEF W, Word
  <1> QED BY <1>1, <1>2 DEF Stay

(* The codes: their lengths and their words.                               *)
LEMMA ThreeWords ==
    /\ AddCode \in Seq(Word) /\ Len(AddCode) = 3
    /\ AddCode[1] = W(1, 0, 2) /\ AddCode[2] = W(2, 1, 3) /\ AddCode[3] = Stay
    /\ SubCode \in Seq(Word) /\ Len(SubCode) = 3
    /\ SubCode[1] = W(3, 0, 2) /\ SubCode[2] = W(4, 1, 3) /\ SubCode[3] = Stay
  <1>1. /\ W(1, 0, 2) \in Word /\ W(2, 1, 3) \in Word /\ W(3, 0, 2) \in Word
        /\ W(4, 1, 3) \in Word /\ Stay \in Word
    BY WordType
  <1> QED BY ONLY <1>1, Tuples DEF AddCode, SubCode

LEMMA FourWords ==
    /\ ShiftCode \in Seq(Word) /\ Len(ShiftCode) = 4
    /\ ShiftCode[1] = W(0, 6, 15) /\ ShiftCode[2] = W(0, 13, 1)
    /\ ShiftCode[3] = W(0, 13, 0) /\ ShiftCode[4] = Stay
    /\ OnesCode \in Seq(Word) /\ Len(OnesCode) = 4
    /\ OnesCode[1] = W(0, 5, 0) /\ OnesCode[2] = W(0, 13, 1)
    /\ OnesCode[3] = W(0, 13, 0) /\ OnesCode[4] = Stay
    /\ SwapCode \in Seq(Word) /\ Len(SwapCode) = 4
    /\ SwapCode[1] = W(7, 0, 2) /\ SwapCode[2] = W(7, 2, 0)
    /\ SwapCode[3] = W(7, 0, 2) /\ SwapCode[4] = Stay
    /\ NegateCode \in Seq(Word) /\ Len(NegateCode) = 4
    /\ NegateCode[1] = W(0, 6, 15) /\ NegateCode[2] = W(0, 7, 15)
    /\ NegateCode[3] = W(2, 0, 4) /\ NegateCode[4] = Stay
    /\ LoopCode \in Seq(Word) /\ Len(LoopCode) = 4
    /\ LoopCode[1] = W(0, 2, 5) /\ LoopCode[2] = W(0, 4, 0)
    /\ LoopCode[3] = W(15, 15, 13) /\ LoopCode[4] = Stay
  <1>1. /\ W(0, 6, 15) \in Word /\ W(0, 13, 1) \in Word /\ W(0, 13, 0) \in Word
        /\ W(0, 5, 0) \in Word /\ W(7, 0, 2) \in Word /\ W(7, 2, 0) \in Word
        /\ W(0, 7, 15) \in Word /\ W(2, 0, 4) \in Word /\ W(0, 2, 5) \in Word
        /\ W(0, 4, 0) \in Word /\ W(15, 15, 13) \in Word /\ Stay \in Word
    BY WordType
  <1>2. ASSUME NEW a \in Word, NEW b \in Word, NEW c \in Word, NEW d \in Word
        PROVE  LET s == <<a, b, c, d>>
               IN  s \in Seq(Word) /\ Len(s) = 4 /\ s[1] = a /\ s[2] = b /\ s[3] = c /\ s[4] = d
    BY Tuples
  <1>3. /\ ShiftCode \in Seq(Word) /\ Len(ShiftCode) = 4
        /\ ShiftCode[1] = W(0, 6, 15) /\ ShiftCode[2] = W(0, 13, 1)
        /\ ShiftCode[3] = W(0, 13, 0) /\ ShiftCode[4] = Stay
    BY ONLY <1>1, <1>2 DEF ShiftCode
  <1>4. /\ OnesCode \in Seq(Word) /\ Len(OnesCode) = 4
        /\ OnesCode[1] = W(0, 5, 0) /\ OnesCode[2] = W(0, 13, 1)
        /\ OnesCode[3] = W(0, 13, 0) /\ OnesCode[4] = Stay
    BY ONLY <1>1, <1>2 DEF OnesCode
  <1>5. /\ SwapCode \in Seq(Word) /\ Len(SwapCode) = 4
        /\ SwapCode[1] = W(7, 0, 2) /\ SwapCode[2] = W(7, 2, 0)
        /\ SwapCode[3] = W(7, 0, 2) /\ SwapCode[4] = Stay
    BY ONLY <1>1, <1>2 DEF SwapCode
  <1>6. /\ NegateCode \in Seq(Word) /\ Len(NegateCode) = 4
        /\ NegateCode[1] = W(0, 6, 15) /\ NegateCode[2] = W(0, 7, 15)
        /\ NegateCode[3] = W(2, 0, 4) /\ NegateCode[4] = Stay
    BY ONLY <1>1, <1>2 DEF NegateCode
  <1>7. /\ LoopCode \in Seq(Word) /\ Len(LoopCode) = 4
        /\ LoopCode[1] = W(0, 2, 5) /\ LoopCode[2] = W(0, 4, 0)
        /\ LoopCode[3] = W(15, 15, 13) /\ LoopCode[4] = Stay
    BY ONLY <1>1, <1>2 DEF LoopCode
  <1> QED BY <1>3, <1>4, <1>5, <1>6, <1>7

LEMMA MoreWords ==
    /\ LogicCode \in Seq(Word) /\ Len(LogicCode) = 5
    /\ LogicCode[1] = W(8, 4, 0) /\ LogicCode[2] = W(6, 4, 2) /\ LogicCode[3] = W(5, 0, 2)
    /\ LogicCode[4] = W(1, 0, 4) /\ LogicCode[5] = Stay
    /\ \A c \in 0..3 :
          /\ BranchCode(c) \in Seq(Word) /\ Len(BranchCode(c)) = 7
          /\ BranchCode(c)[1] = W(3, 0, 2) /\ BranchCode(c)[2] = W(0, 15, 4 * c)
          /\ BranchCode(c)[3] = W(9, 4, 1) /\ BranchCode(c)[4] = W(9, 5, 1)
          /\ BranchCode(c)[5] = W(9, 6, 1) /\ BranchCode(c)[6] = Stay
          /\ BranchCode(c)[7] = Stay
  <1>1. /\ W(8, 4, 0) \in Word /\ W(6, 4, 2) \in Word /\ W(5, 0, 2) \in Word
        /\ W(1, 0, 4) \in Word /\ W(3, 0, 2) \in Word /\ W(9, 4, 1) \in Word
        /\ W(9, 5, 1) \in Word /\ W(9, 6, 1) \in Word /\ Stay \in Word
    BY WordType
  <1>2. ASSUME NEW c \in 0..3
        PROVE  W(0, 15, 4 * c) \in Word
    <2>1. 4 * c \in Nibble /\ 0 \in Nibble /\ 15 \in Nibble
      BY DEF Nibble
    <2> QED BY <2>1, WordType
  <1>3. /\ LogicCode \in Seq(Word) /\ Len(LogicCode) = 5
        /\ LogicCode[1] = W(8, 4, 0) /\ LogicCode[2] = W(6, 4, 2) /\ LogicCode[3] = W(5, 0, 2)
        /\ LogicCode[4] = W(1, 0, 4) /\ LogicCode[5] = Stay
    BY ONLY <1>1, Tuples DEF LogicCode
  <1>4. ASSUME NEW x \in Word
        PROVE  LET s == <<W(3, 0, 2), x, W(9, 4, 1), W(9, 5, 1), W(9, 6, 1), Stay, Stay>>
               IN  /\ s \in Seq(Word) /\ Len(s) = 7
                   /\ s[1] = W(3, 0, 2) /\ s[2] = x /\ s[3] = W(9, 4, 1)
                   /\ s[4] = W(9, 5, 1) /\ s[5] = W(9, 6, 1) /\ s[6] = Stay /\ s[7] = Stay
    BY ONLY <1>1, Tuples
  <1>5. ASSUME NEW c \in 0..3
        PROVE  /\ BranchCode(c) \in Seq(Word) /\ Len(BranchCode(c)) = 7
               /\ BranchCode(c)[1] = W(3, 0, 2) /\ BranchCode(c)[2] = W(0, 15, 4 * c)
               /\ BranchCode(c)[3] = W(9, 4, 1) /\ BranchCode(c)[4] = W(9, 5, 1)
               /\ BranchCode(c)[5] = W(9, 6, 1) /\ BranchCode(c)[6] = Stay
               /\ BranchCode(c)[7] = Stay
    BY ONLY <1>2, <1>4 DEF BranchCode
  <1> QED BY <1>3, <1>5

(* None of the codes for bytes is the loop or a branch.                    *)
LEMMA CodesDiffer ==
    ASSUME NEW code \in Codes
    PROVE  /\ code \in Seq(Word) /\ Len(code) \in 3..5 /\ code # LoopCode
           /\ \A c \in 0..3 : code # BranchCode(c)
  <1>1. /\ W(0, 2, 5).nibble1 = 0 /\ W(0, 2, 5).nibble2 = 2 /\ W(0, 6, 15).nibble2 = 6
        /\ W(0, 5, 0).nibble2 = 5 /\ W(7, 0, 2).nibble1 = 7
    BY WordType
  <1>2. code \in Seq(Word) /\ Len(code) \in 3..5 /\ code # LoopCode
    <2>0. /\ AddCode \in Seq(Word) /\ Len(AddCode) = 3 /\ AddCode # LoopCode
          /\ SubCode \in Seq(Word) /\ Len(SubCode) = 3 /\ SubCode # LoopCode
          /\ LogicCode \in Seq(Word) /\ Len(LogicCode) = 5 /\ LogicCode # LoopCode
      <3>1. \A s, t : Len(s) # Len(t) => s # t
        OBVIOUS
      <3>2. Len(LoopCode) = 4 /\ Len(AddCode) = 3 /\ Len(SubCode) = 3 /\ Len(LogicCode) = 5
        BY ThreeWords, FourWords, MoreWords
      <3>3. Len(AddCode) # Len(LoopCode) /\ Len(SubCode) # Len(LoopCode)
            /\ Len(LogicCode) # Len(LoopCode)
        BY ONLY <3>2
      <3> QED BY <3>1, <3>2, <3>3, ThreeWords, MoreWords
    <2>1. CASE code = AddCode BY <2>0, <2>1
    <2>2. CASE code = SubCode BY <2>0, <2>2
    <2>3. CASE code = LogicCode BY <2>0, <2>3
    <2>4. CASE code = ShiftCode BY <1>1, <2>4, FourWords
    <2>5. CASE code = OnesCode BY <1>1, <2>5, FourWords
    <2>6. CASE code = SwapCode BY <1>1, <2>6, FourWords
    <2>7. CASE code = NegateCode BY <1>1, <2>7, FourWords
    <2> QED BY <2>1, <2>2, <2>3, <2>4, <2>5, <2>6, <2>7 DEF Codes
  <1>3. \A c \in 0..3 : Len(BranchCode(c)) = 7
    BY MoreWords
  <1>4. \A c \in 0..3 : code # BranchCode(c)
    <2> SUFFICES ASSUME NEW c \in 0..3, code = BranchCode(c) PROVE FALSE
      OBVIOUS
    <2>1. Len(code) = 7
      BY <1>3
    <2> DEFINE n == Len(code)
    <2>2. n = 7 /\ n \in 3..5
      BY <1>2, <2>1
    <2> HIDE DEF n
    <2> QED BY ONLY <2>2
  <1> QED BY <1>2, <1>4

(* Four words in front of others, and the others again.                    *)
LEMMA Joined ==
    ASSUME NEW S, NEW s \in Seq(S), NEW t \in Seq(S), Len(s) = 4, Len(t) \in 3..7
    PROVE  LET p == s \o t
           IN  /\ p \in Seq(S) /\ Len(p) \in 7..11
               /\ p[1] = s[1] /\ p[2] = s[2] /\ p[3] = s[3] /\ p[4] = s[4]
               /\ Rest(p) = t
  <1> DEFINE p == s \o t
             n == Len(t)
  <1>1. /\ p \in Seq(S)
        /\ Len(p) = Len(s) + Len(t)
        /\ \A i \in 1..(Len(s) + Len(t)) : p[i] = IF i <= Len(s) THEN s[i] ELSE t[i - Len(s)]
    BY ConcatProperties
  <1>2. n \in 3..7 /\ n \in Int /\ n >= 1 /\ t \in Seq(S)
    <2>1. n \in 3..7
      OBVIOUS
    <2> HIDE DEF n
    <2> QED BY <2>1
  <1> HIDE DEF p, n
  <1>3. /\ p \in Seq(S)
        /\ Len(p) = 4 + n
        /\ \A i \in 1..(4 + n) : p[i] = IF i <= 4 THEN s[i] ELSE t[i - 4]
    BY <1>1 DEF n
  <1>4. p[1] = s[1] /\ p[2] = s[2] /\ p[3] = s[3] /\ p[4] = s[4]
    BY ONLY <1>2, <1>3
  <1>5. SubSeq(p, 5, 4 + n) = SubSeq(t, 1, n)
    <2> DEFINE a == 5
               b == 4 + n
    <2>1. /\ a \in (Len(s) + 1)..(Len(s) + Len(t)) /\ b \in (Len(s) + 1)..(Len(s) + Len(t))
          /\ a - Len(s) = 1 /\ b - Len(s) = n
      BY <1>2 DEF n
    <2> HIDE DEF a, b
    <2>2. SubSeq(s \o t, a, b) = SubSeq(t, a - Len(s), b - Len(s))
      BY <2>1, SubSeqOfConcat2
    <2> QED BY <2>1, <2>2 DEF a, b, p
  <1>6. SubSeq(t, 1, n) = t
    BY SubSeqFull DEF n
  <1>7. Rest(p) = t
    BY <1>3, <1>5, <1>6 DEF Rest
  <1>8. Len(p) \in 7..11
    BY ONLY <1>2, <1>3
  <1> QED BY <1>3, <1>4, <1>7, <1>8 DEF p

(* Every program begins with four words that load nibbles; the programs    *)
(* that compute with nibbles leave the upper halves zero.                  *)
LEMMA Shape ==
    ASSUME NEW p \in AluPrograms(Nibble)
    PROVE  /\ p \in Seq(Word) /\ Len(p) \in 7..11
           /\ \A r \in 0..3 : p[r + 1] = W(9, r, p[r + 1].nibble3) /\ p[r + 1].nibble3 \in Nibble
           /\ (Rest(p) = LoopCode \/ (\E c \in 0..3 : Rest(p) = BranchCode(c)))
                => (p[2].nibble3 = 0 /\ p[4].nibble3 = 0)
  <1>0. 0 \in Nibble
    BY DEF Nibble
  <1>1. ASSUME NEW a0 \in Nibble, NEW a1 \in Nibble, NEW b0 \in Nibble, NEW b1 \in Nibble,
               NEW code \in Seq(Word), Len(code) \in 3..7, p = Then(a0, a1, b0, b1, code)
        PROVE  /\ p \in Seq(Word) /\ Len(p) \in 7..11 /\ Rest(p) = code
               /\ \A r \in 0..3 : p[r + 1] = W(9, r, p[r + 1].nibble3)
                                 /\ p[r + 1].nibble3 \in Nibble
               /\ p[2].nibble3 = a1 /\ p[4].nibble3 = b1
    <2> DEFINE l == Load(a0, a1, b0, b1)
    <2>1. /\ l \in Seq(Word) /\ Len(l) = 4
          /\ l[1] = W(9, 0, a0) /\ l[2] = W(9, 1, a1) /\ l[3] = W(9, 2, b0) /\ l[4] = W(9, 3, b1)
      <3>1. /\ W(9, 0, a0) \in Word /\ W(9, 1, a1) \in Word
            /\ W(9, 2, b0) \in Word /\ W(9, 3, b1) \in Word
        BY WordType
      <3> QED BY <3>1, Tuples DEF Load
    <2> HIDE DEF l
    <2>2. p = l \o code
      BY <1>1 DEF Then, l
    <2>3. /\ p \in Seq(Word) /\ Len(p) \in 7..11 /\ Rest(p) = code
          /\ p[1] = W(9, 0, a0) /\ p[2] = W(9, 1, a1) /\ p[3] = W(9, 2, b0) /\ p[4] = W(9, 3, b1)
      BY <1>1, <2>1, <2>2, Joined
    <2>4. p[1].nibble3 = a0 /\ p[2].nibble3 = a1 /\ p[3].nibble3 = b0 /\ p[4].nibble3 = b1
      BY <2>3, WordType
    <2>5. \A r \in 0..3 : r = 0 \/ r = 1 \/ r = 2 \/ r = 3
      OBVIOUS
    <2>6. /\ p[0 + 1] = W(9, 0, p[0 + 1].nibble3) /\ p[0 + 1].nibble3 \in Nibble
          /\ p[1 + 1] = W(9, 1, p[1 + 1].nibble3) /\ p[1 + 1].nibble3 \in Nibble
          /\ p[2 + 1] = W(9, 2, p[2 + 1].nibble3) /\ p[2 + 1].nibble3 \in Nibble
          /\ p[3 + 1] = W(9, 3, p[3 + 1].nibble3) /\ p[3 + 1].nibble3 \in Nibble
      BY <2>3, <2>4
    <2> QED BY <2>3, <2>4, <2>5, <2>6
  <1>2. CASE \E a0, a1, b0, b1 \in Nibble, code \in Codes : p = Then(a0, a1, b0, b1, code)
    <2>1. PICK a0 \in Nibble, a1 \in Nibble, b0 \in Nibble, b1 \in Nibble, code \in Codes :
             p = Then(a0, a1, b0, b1, code)
      BY <1>2
    <2>2. /\ code \in Seq(Word) /\ Len(code) \in 3..7
          /\ code # LoopCode /\ \A c \in 0..3 : code # BranchCode(c)
      BY CodesDiffer
    <2> QED BY <1>1, <2>1, <2>2
  <1>3. CASE \E a0, b0 \in Nibble, c \in 0..3 : p = Then(a0, 0, b0, 0, BranchCode(c))
    <2>1. PICK a0 \in Nibble, b0 \in Nibble, c \in 0..3 :
             p = Then(a0, 0, b0, 0, BranchCode(c))
      BY <1>3
    <2>2. BranchCode(c) \in Seq(Word) /\ Len(BranchCode(c)) \in 3..7
      BY MoreWords
    <2> QED BY <1>0, <1>1, <2>1, <2>2
  <1>4. CASE \E a0 \in Nibble : p = Then(a0, 0, 0, 0, LoopCode)
    <2>1. PICK a0 \in Nibble : p = Then(a0, 0, 0, 0, LoopCode)
      BY <1>4
    <2>2. LoopCode \in Seq(Word) /\ Len(LoopCode) \in 3..7
      BY FourWords
    <2>3. /\ p \in Seq(Word) /\ Len(p) \in 7..11
          /\ \A r \in 0..3 : p[r + 1] = W(9, r, p[r + 1].nibble3) /\ p[r + 1].nibble3 \in Nibble
          /\ p[2].nibble3 = 0 /\ p[4].nibble3 = 0
      BY <1>0, <1>1, <2>1, <2>2
    <2> QED BY <2>3
  <1>5. \/ \E a0, a1, b0, b1 \in Nibble, code \in Codes : p = Then(a0, a1, b0, b1, code)
        \/ \E a0, b0 \in Nibble, c \in 0..3 : p = Then(a0, 0, b0, 0, BranchCode(c))
        \/ \E a0 \in Nibble : p = Then(a0, 0, 0, 0, LoopCode)
    BY DEF AluPrograms
  <1> QED BY <1>2, <1>3, <1>4, <1>5

(* The words of a program: four that load, then those of its code.         *)
LEMMA Words ==
    ASSUME NEW p \in AluPrograms(Nibble), NEW code, Rest(p) = code
    PROVE  /\ Len(p) = 4 + Len(code) /\ Len(code) \in 3..7
           /\ \A k \in 0..(Len(code) - 1) : WordAt(p, 4 + k) = code[k + 1]
           /\ \A r \in 0..3 : WordAt(p, r) = W(9, r, p[r + 1].nibble3)
  <1> DEFINE q == Len(p)
  <1>1. p \in Seq(Word) /\ q \in 7..11 /\ 5 \in Int
    BY Shape
  <1>2. \A i \in 5..q : p[i] \in Word
    BY <1>1
  <1>3. code = SubSeq(p, 5, q)
    BY DEF Rest
  <1> HIDE DEF q
  <1>4. /\ Len(code) = IF 5 <= q THEN q - 5 + 1 ELSE 0
        /\ \A i \in 1..(q - 5 + 1) : code[i] = p[5 + i - 1]
    BY ONLY <1>1, <1>2, <1>3, SubSeqProperties
  <1>5. q = 4 + Len(code) /\ Len(code) \in 3..7
    BY ONLY <1>1, <1>4
  <1>6. \A k \in 0..(Len(code) - 1) : code[k + 1] = p[4 + k + 1]
    BY ONLY <1>1, <1>4, <1>5
  <1>7. \A k \in 0..(Len(code) - 1) : WordAt(p, 4 + k) = code[k + 1]
    <2>1. \A k \in 0..(Len(code) - 1) : 4 + k < q
      BY ONLY <1>1, <1>5
    <2> QED BY <1>6, <2>1 DEF WordAt, q
  <1>8. \A r \in 0..3 : WordAt(p, r) = W(9, r, p[r + 1].nibble3)
    <2>1. \A r \in 0..3 : r < q
      BY ONLY <1>1
    <2> QED BY <2>1, Shape DEF WordAt, q
  <1> QED BY <1>5, <1>7, <1>8 DEF q

-----------------------------------------------------------------------------
(* Where the programs are: what the registers hold at each instruction.    *)

Half(p, r) == p[r + 1].nibble3

(* The first n operands are loaded, the registers after them are zero.     *)
Loaded(p, v, n) == \A r \in Lo : v.mem[r] = IF r < n THEN Half(p, r) ELSE 0

(* The carry from the lower halves, and the borrow.                        *)
CarryOf(p)  == IF Half(p, 0) + Half(p, 2) > 15 THEN 1 ELSE 0
BorrowOf(p) == IF Half(p, 0) >= Half(p, 2) THEN 0 ELSE 1

AddAt(p, v) ==
    Rest(p) = AddCode =>
        /\ v.pc \in 0..6
        /\ v.pc <= 4 => Loaded(p, v, v.pc)
        /\ v.pc \in {5, 6} => v.mem[0] = Kept(Half(p, 0) + Half(p, 2))
        /\ v.pc = 5 =>
              /\ v.mem[1] = Half(p, 1) /\ v.mem[3] = Half(p, 3)
              /\ "C" \in v.flags <=> CarryOf(p) = 1
        /\ v.pc = 6 =>
              LET t == Half(p, 1) + Half(p, 3) + CarryOf(p)
                  s == nibble_to_int8(Half(p, 1)) + nibble_to_int8(Half(p, 3)) + CarryOf(p)
              IN  /\ v.mem[1] = Kept(t)
                  /\ "C" \in v.flags <=> t > 15
                  /\ "V" \in v.flags <=> s < -8 \/ s > 7

SubAt(p, v) ==
    Rest(p) = SubCode =>
        /\ v.pc \in 0..6
        /\ v.pc <= 4 => Loaded(p, v, v.pc)
        /\ v.pc \in {5, 6} => v.mem[0] = Kept(Half(p, 0) - Half(p, 2))
        /\ v.pc = 5 =>
              /\ v.mem[1] = Half(p, 1) /\ v.mem[3] = Half(p, 3)
              /\ "C" \in v.flags <=> BorrowOf(p) = 0
        /\ v.pc = 6 =>
              LET t == Half(p, 1) - Half(p, 3) - BorrowOf(p)
                  s == nibble_to_int8(Half(p, 1)) - nibble_to_int8(Half(p, 3)) - BorrowOf(p)
              IN  /\ v.mem[1] = Kept(t)
                  /\ "C" \in v.flags <=> t >= 0
                  /\ "V" \in v.flags <=> s < -8 \/ s > 7

(* The bit shifted in: AND clears C, OR sets it.                           *)
ShiftAt(p, v, code, in) ==
    Rest(p) = code =>
        /\ v.pc \in 0..7
        /\ v.pc <= 4 => Loaded(p, v, v.pc)
        /\ v.pc \in {5, 6} => v.mem[0] = Half(p, 0)
        /\ v.pc = 5 => v.mem[1] = Half(p, 1) /\ ("C" \in v.flags <=> in = 1)
        /\ v.pc \in {6, 7} => v.mem[1] = Half(p, 1) \div 2 + 8 * in
        /\ v.pc = 6 => ("C" \in v.flags <=> Half(p, 1) % 2 = 1)
        /\ v.pc = 7 => /\ v.mem[0] = Half(p, 0) \div 2 + 8 * (Half(p, 1) % 2)
                       /\ "C" \in v.flags <=> Half(p, 0) % 2 = 1

SwapAt(p, v) ==
    Rest(p) = SwapCode =>
        /\ v.pc \in 0..7
        /\ v.pc <= 4 => Loaded(p, v, v.pc)
        /\ v.pc \in {5, 6} => v.mem[0] = Xor4(Half(p, 0), Half(p, 2))
        /\ v.pc = 5 => v.mem[2] = Half(p, 2)
        /\ v.pc \in {6, 7} => v.mem[2] = Half(p, 0)
        /\ v.pc = 7 => v.mem[0] = Half(p, 2)

LogicAt(p, v) ==
    Rest(p) = LogicCode =>
        /\ v.pc \in 0..8
        /\ v.pc <= 4 => Loaded(p, v, v.pc)
        /\ v.pc \in 5..6 => v.mem[0] = Half(p, 0) /\ v.mem[2] = Half(p, 2)
        /\ v.pc = 5 => v.mem[4] = Half(p, 0)
        /\ v.pc \in {6, 7} => v.mem[4] = And4(Half(p, 0), Half(p, 2))
        /\ v.pc = 7 => v.mem[0] = Or4(Half(p, 0), Half(p, 2))
        /\ v.pc = 8 => v.mem[0] = Kept(Half(p, 0) + Half(p, 2))

NegateAt(p, v) ==
    Rest(p) = NegateCode =>
        /\ v.pc \in 0..7
        /\ v.pc <= 4 => Loaded(p, v, v.pc)
        /\ v.pc \in {5, 6} => v.mem[4] = 0
        /\ v.pc = 5 => v.mem[0] = Half(p, 0) /\ "C" \notin v.flags
        /\ v.pc = 6 => v.mem[0] = 15 - Half(p, 0) /\ "C" \in v.flags
        /\ v.pc = 7 => v.mem[0] = Kept(16 - Half(p, 0))

(* What SKIP c asks of the operands a SUB before it has compared.          *)
Asked(c, a, b) ==
    CASE c = 0 -> a >= b [] c = 1 -> a < b [] c = 2 -> a = b [] c = 3 -> a # b

BranchAt(p, v, c) ==
    Rest(p) = BranchCode(c) =>
        /\ v.pc \in 0..10
        /\ v.pc <= 4 => Loaded(p, v, v.pc)
        /\ v.pc = 5 => /\ "C" \in v.flags <=> Half(p, 0) >= Half(p, 2)
                       /\ "Z" \in v.flags <=> Half(p, 0) = Half(p, 2)
        /\ v.pc \in 6..9 => ~Asked(c, Half(p, 0), Half(p, 2))
        /\ v.pc = 10 => Asked(c, Half(p, 0), Half(p, 2))

(* The counter and the count of the loop add up to the operand, and C and  *)
(* Z tell whether the count has wrapped.                                   *)
LoopAt(p, v) ==
    Rest(p) = LoopCode =>
        /\ v.pc \in 0..7
        /\ v.pc < 4 => Loaded(p, v, v.pc)
        /\ v.pc \in {4, 6, 7} => Half(p, 0) = Kept(v.mem[0] + v.mem[5])
        /\ v.pc = 5 => Kept(Half(p, 0) + 1) = Kept(v.mem[0] + v.mem[5])
        /\ v.pc >= 5 => /\ "C" \in v.flags <=> v.mem[5] = 0
                        /\ "Z" \in v.flags <=> v.mem[5] = 0
        /\ v.pc = 7 => v.mem[0] = 0

Placed(p, v) ==
    /\ AddAt(p, v) /\ SubAt(p, v)
    /\ ShiftAt(p, v, ShiftCode, 0) /\ ShiftAt(p, v, OnesCode, 1)
    /\ SwapAt(p, v) /\ LogicAt(p, v) /\ NegateAt(p, v)
    /\ \A c \in 0..3 : BranchAt(p, v, c)
    /\ LoopAt(p, v)

-----------------------------------------------------------------------------
(* One instruction of a program.                                           *)

(* What each of the words makes of a machine f.                            *)
LEMMA ArithmeticWords ==
    ASSUME NEW f, NEW w, NEW d \in Nibble, NEW n \in Nibble
    PROVE  /\ Executed(W(1, d, n), f, w) => w = op_add(f, d, f.mem[n])
           /\ Executed(W(2, d, n), f, w) => w = op_adc(f, d, f.mem[n])
           /\ Executed(W(3, d, n), f, w) => w = op_sub(f, d, f.mem[n])
           /\ Executed(W(4, d, n), f, w) => w = op_sbb(f, d, f.mem[n])
  BY DEF Executed, W

LEMMA MoveWords ==
    ASSUME NEW f, NEW w, NEW d \in Nibble, NEW n \in Nibble
    PROVE  /\ Executed(W(8, d, n), f, w) => w = op_mov_jump(f, d, f.mem[n])
           /\ Executed(W(9, d, n), f, w) => w = op_mov_jump(f, d, n)
  BY DEF Executed, W

LEMMA LiteralWords ==
    ASSUME NEW f, NEW w, NEW n \in Nibble
    PROVE  /\ Executed(W(0, 5, n), f, w) => w = op_or(f, 0, n, TRUE)
           /\ Executed(W(0, 6, n), f, w) => w = op_and(f, 0, n, TRUE)
           /\ Executed(W(0, 7, n), f, w) => w = op_xor(f, 0, n, TRUE)
  BY DEF Executed, W, R0

LEMMA CountWords ==
    ASSUME NEW f, NEW w, NEW n \in Nibble
    PROVE  /\ Executed(W(0, 2, n), f, w) => w = op_inc(f, n)
           /\ Executed(W(0, 4, n), f, w) => w = op_dsz(f, n)
           /\ Executed(W(0, 13, n), f, w) => w = op_rrc(f, n)
           /\ Executed(W(0, 15, n), f, w) => w = op_skip(f, n \div 4, n % 4)
  BY DEF Executed, W

LEMMA JumpWords ==
    ASSUME NEW f, NEW w
    PROVE  /\ Executed(Stay, f, w) => w = op_jr(f, 255)
           /\ Executed(W(15, 15, 13), f, w) => w = op_jr(f, 253)
  BY DEF Executed, W, Stay

(* From v to w the machine moves its counter on and executes i.            *)
Does(v, w, i) ==
    \E f \in VmState : /\ Same(v, f) /\ f.pc = v.pc + 1 /\ f.pc \in Addr
                       /\ Executed(i, f, w)

(* A step that is not a rest executes a word that loads, or one of the     *)
(* code after these.                                                       *)
LEMMA Executes ==
    ASSUME NEW p \in AluPrograms(Nibble), NEW code, Rest(p) = code,
           NEW v \in VmState, NEW w, v.pc \in 0..(3 + Len(code)), Runs(p, v, w), ~Rests(v, w)
    PROVE  /\ v.pc >= 4 => Does(v, w, code[v.pc - 3])
           /\ v.pc < 4 => Does(v, w, W(9, v.pc, Half(p, v.pc)))
  <1> DEFINE a == v.pc
             n == Len(code)
  <1>1. n \in 3..7 /\ a \in 0..(3 + n)
    BY Words
  <1> HIDE DEF a, n
  <1>2. a \in 0..10
    BY ONLY <1>1
  <1>3. \A x \in 0..11 : x \in Addr /\ (x < 11 => NextAddr(x) = x + 1)
    BY DEF Addr, NextAddr, PROGRAM_MEMORY_SIZE
  <1>4. a \in Addr /\ a + 1 \in Addr /\ NextAddr(a) = a + 1
    BY ONLY <1>2, <1>3
  <1>5. Does(v, w, WordAt(p, a))
    BY <1>4 DEF Runs, Does, a
  <1>6. ASSUME a >= 4 PROVE WordAt(p, a) = code[a - 3]
    <2>1. (a - 4) \in 0..(n - 1) /\ 4 + (a - 4) = a /\ (a - 4) + 1 = a - 3
      BY ONLY <1>1, <1>6
    <2>2. \A k \in 0..(n - 1) : WordAt(p, 4 + k) = code[k + 1]
      BY Words DEF n
    <2> QED BY <2>1, <2>2
  <1>7. ASSUME a < 4 PROVE WordAt(p, a) = W(9, a, Half(p, a))
    <2>1. a \in 0..3
      BY ONLY <1>2, <1>7
    <2> QED BY <2>1, Words DEF Half
  <1> QED BY <1>5, <1>6, <1>7 DEF a

(* Register d takes x, and the counter moves on.                           *)
Steps(v, w, d, x) ==
    /\ w.pc = v.pc + 1
    /\ \A r \in Lo : w.mem[r] = IF r = d THEN x ELSE v.mem[r]

LEMMA PutSteps ==
    ASSUME NEW v, NEW f, NEW w, NEW d, NEW x, Same(v, f), f.pc = v.pc + 1
    PROVE  Puts(f, w, d, x) => Steps(v, w, d, x)
  BY DEF Same, Puts, Steps

(* MOV.                                                                    *)
LEMMA DoesMove ==
    ASSUME NEW v \in VmState, NEW w, NEW d \in Lo
    PROVE  /\ \A n \in Nibble : Does(v, w, W(9, d, n)) => Steps(v, w, d, n) /\ w.flags = v.flags
           /\ \A n \in Lo : Does(v, w, W(8, d, n)) => Steps(v, w, d, v.mem[n]) /\ w.flags = v.flags
  <1>0. d \in Nibble /\ \A n \in Lo : n \in Nibble
    BY LowRegisters
  <1>1. ASSUME NEW n \in Nibble, Does(v, w, W(9, d, n))
        PROVE  Steps(v, w, d, n) /\ w.flags = v.flags
    <2>1. PICK f \in VmState : /\ Same(v, f) /\ f.pc = v.pc + 1 /\ f.pc \in Addr
                              /\ Executed(W(9, d, n), f, w)
      BY <1>1 DEF Does
    <2>2. w = op_mov_jump(f, d, n)
      BY <1>0, <2>1, MoveWords
    <2>3. Puts(f, w, d, n) /\ w.flags = f.flags
      BY <2>1, <2>2, Control
    <2> QED BY <2>1, <2>3, PutSteps DEF Same
  <1>2. ASSUME NEW n \in Lo, Does(v, w, W(8, d, n))
        PROVE  Steps(v, w, d, v.mem[n]) /\ w.flags = v.flags
    <2>1. PICK f \in VmState : /\ Same(v, f) /\ f.pc = v.pc + 1 /\ f.pc \in Addr
                              /\ Executed(W(8, d, n), f, w)
      BY <1>2 DEF Does
    <2>2. w = op_mov_jump(f, d, f.mem[n])
      BY <1>0, <2>1, MoveWords
    <2>3. f.mem[n] = v.mem[n] /\ f.mem[n] \in Nibble
      BY <2>1, MemType, LowRegisters DEF Same
    <2>4. Puts(f, w, d, v.mem[n]) /\ w.flags = f.flags
      BY <2>1, <2>2, <2>3, Control
    <2> QED BY <2>1, <2>4, PutSteps DEF Same
  <1> QED BY <1>1, <1>2

(* ADD and ADC, SUB and SBB.                                               *)
Sums(v, w, d, t, s) ==
    /\ Steps(v, w, d, Kept(t))
    /\ "C" \in w.flags <=> t > 15
    /\ "V" \in w.flags <=> s < -8 \/ s > 7

Differs(v, w, d, t, s) ==
    /\ Steps(v, w, d, Kept(t))
    /\ "C" \in w.flags <=> t >= 0
    /\ "Z" \in w.flags <=> Kept(t) = 0
    /\ "V" \in w.flags <=> s < -8 \/ s > 7

LEMMA DoesArithmetic ==
    ASSUME NEW v \in VmState, NEW w, NEW d \in Lo, NEW n \in Lo
    PROVE  LET a == v.mem[d]
               b == v.mem[n]
               k == Carry(v)
               s(x) == nibble_to_int8(x)
           IN  /\ Does(v, w, W(1, d, n)) => Sums(v, w, d, a + b, s(a) + s(b))
               /\ Does(v, w, W(2, d, n)) => Sums(v, w, d, a + b + k, s(a) + s(b) + k)
               /\ Does(v, w, W(3, d, n)) => Differs(v, w, d, a - b, s(a) - s(b))
               /\ Does(v, w, W(4, d, n)) =>
                    Differs(v, w, d, a - b - (1 - k), s(a) - s(b) - (1 - k))
  <1> DEFINE a == v.mem[d]
             b == v.mem[n]
             k == Carry(v)
             s(x) == nibble_to_int8(x)
  <1>0. d \in Nibble /\ n \in Nibble /\ b \in Nibble
    BY LowRegisters, MemType
  <1>1. ASSUME NEW f \in VmState, Same(v, f), f.pc = v.pc + 1
        PROVE  /\ f.mem[n] = b
               /\ Added(f, op_add(f, d, b), d, a + b, s(a) + s(b))
               /\ Added(f, op_adc(f, d, b), d, a + b + k, s(a) + s(b) + k)
               /\ Subtracted(f, op_sub(f, d, b), d, a - b, s(a) - s(b))
               /\ Subtracted(f, op_sbb(f, d, b), d, a - b - (1 - k), s(a) - s(b) - (1 - k))
    <2>1. f.mem[n] = b /\ f.mem[d] = a /\ Carry(f) = k
      BY <1>1 DEF Same, Carry
    <2> HIDE DEF a, b, k
    <2>2. /\ Added(f, op_add(f, d, b), d, f.mem[d] + b, s(f.mem[d]) + s(b))
          /\ Added(f, op_adc(f, d, b), d, f.mem[d] + b + Carry(f), s(f.mem[d]) + s(b) + Carry(f))
          /\ Subtracted(f, op_sub(f, d, b), d, f.mem[d] - b, s(f.mem[d]) - s(b))
          /\ Subtracted(f, op_sbb(f, d, b), d, f.mem[d] - b - (1 - Carry(f)),
                        s(f.mem[d]) - s(b) - (1 - Carry(f)))
      BY <1>0, Arithmetic
    <2> QED BY <2>1, <2>2
  <1>2. ASSUME NEW f \in VmState, Same(v, f), f.pc = v.pc + 1, NEW t, NEW u
        PROVE  /\ Added(f, w, d, t, u) => Sums(v, w, d, t, u)
               /\ Subtracted(f, w, d, t, u) => Differs(v, w, d, t, u)
    BY <1>2, PutSteps DEF Added, Subtracted, Sums, Differs
  <1>3. ASSUME NEW i \in Word, Does(v, w, i)
        PROVE  \E f \in VmState : Same(v, f) /\ f.pc = v.pc + 1 /\ Executed(i, f, w)
    BY <1>3 DEF Does
  <1>4. /\ W(1, d, n) \in Word /\ W(2, d, n) \in Word /\ W(3, d, n) \in Word /\ W(4, d, n) \in Word
    BY <1>0, WordType
  <1> HIDE DEF a, b, k, s
  <1>5. ASSUME Does(v, w, W(1, d, n)) PROVE Sums(v, w, d, a + b, s(a) + s(b))
    <2>1. PICK f \in VmState : Same(v, f) /\ f.pc = v.pc + 1 /\ Executed(W(1, d, n), f, w)
      BY <1>3, <1>4, <1>5
    <2>2. w = op_add(f, d, b)
      BY <1>0, <1>1, <2>1, ArithmeticWords
    <2>3. Added(f, w, d, a + b, s(a) + s(b))
      BY <1>1, <2>1, <2>2
    <2> QED BY <1>2, <2>1, <2>3
  <1>6. ASSUME Does(v, w, W(2, d, n)) PROVE Sums(v, w, d, a + b + k, s(a) + s(b) + k)
    <2>1. PICK f \in VmState : Same(v, f) /\ f.pc = v.pc + 1 /\ Executed(W(2, d, n), f, w)
      BY <1>3, <1>4, <1>6
    <2>2. w = op_adc(f, d, b)
      BY <1>0, <1>1, <2>1, ArithmeticWords
    <2>3. Added(f, w, d, a + b + k, s(a) + s(b) + k)
      BY <1>1, <2>1, <2>2
    <2> QED BY <1>2, <2>1, <2>3
  <1>7. ASSUME Does(v, w, W(3, d, n)) PROVE Differs(v, w, d, a - b, s(a) - s(b))
    <2>1. PICK f \in VmState : Same(v, f) /\ f.pc = v.pc + 1 /\ Executed(W(3, d, n), f, w)
      BY <1>3, <1>4, <1>7
    <2>2. w = op_sub(f, d, b)
      BY <1>0, <1>1, <2>1, ArithmeticWords
    <2>3. Subtracted(f, w, d, a - b, s(a) - s(b))
      BY <1>1, <2>1, <2>2
    <2> QED BY <1>2, <2>1, <2>3
  <1>8. ASSUME Does(v, w, W(4, d, n))
        PROVE  Differs(v, w, d, a - b - (1 - k), s(a) - s(b) - (1 - k))
    <2>1. PICK f \in VmState : Same(v, f) /\ f.pc = v.pc + 1 /\ Executed(W(4, d, n), f, w)
      BY <1>3, <1>4, <1>8
    <2>2. w = op_sbb(f, d, b)
      BY <1>0, <1>1, <2>1, ArithmeticWords
    <2>3. Subtracted(f, w, d, a - b - (1 - k), s(a) - s(b) - (1 - k))
      BY <1>1, <2>1, <2>2
    <2> QED BY <1>2, <2>1, <2>3
  <1> QED BY <1>5, <1>6, <1>7, <1>8 DEF a, b, k, s

(* OR, AND and XOR of two registers, or of R0 and a literal, and RRC.      *)
LEMMA DoesLogic ==
    ASSUME NEW v \in VmState, NEW w, NEW d \in Lo, NEW n \in Lo
    PROVE  /\ Does(v, w, W(5, d, n)) => Steps(v, w, d, Or4(v.mem[d], v.mem[n]))
           /\ Does(v, w, W(6, d, n)) => Steps(v, w, d, And4(v.mem[d], v.mem[n]))
           /\ Does(v, w, W(7, d, n)) => Steps(v, w, d, Xor4(v.mem[d], v.mem[n]))
  <1>0. d \in Nibble /\ n \in Nibble /\ v.mem[n] \in Nibble
    BY LowRegisters, MemType
  <1>1. ASSUME NEW f \in VmState, Same(v, f)
        PROVE  /\ f.mem[n] = v.mem[n]
               /\ Puts(f, op_or(f, d, f.mem[n], FALSE), d, Or4(v.mem[d], v.mem[n]))
               /\ Puts(f, op_and(f, d, f.mem[n], FALSE), d, And4(v.mem[d], v.mem[n]))
               /\ Puts(f, op_xor(f, d, f.mem[n], FALSE), d, Xor4(v.mem[d], v.mem[n]))
    <2>1. f.mem[n] = v.mem[n] /\ f.mem[d] = v.mem[d]
      BY <1>1 DEF Same
    <2> QED BY <1>0, <2>1, Logic
  <1>2. ASSUME Does(v, w, W(5, d, n)) PROVE Steps(v, w, d, Or4(v.mem[d], v.mem[n]))
    <2>1. PICK f \in VmState : Same(v, f) /\ f.pc = v.pc + 1 /\ Executed(W(5, d, n), f, w)
      BY <1>2 DEF Does
    <2>2. w = op_or(f, d, f.mem[n], FALSE)
      BY <1>0, <2>1 DEF Executed, W
    <2> QED BY <1>1, <2>1, <2>2, PutSteps
  <1>3. ASSUME Does(v, w, W(6, d, n)) PROVE Steps(v, w, d, And4(v.mem[d], v.mem[n]))
    <2>1. PICK f \in VmState : Same(v, f) /\ f.pc = v.pc + 1 /\ Executed(W(6, d, n), f, w)
      BY <1>3 DEF Does
    <2>2. w = op_and(f, d, f.mem[n], FALSE)
      BY <1>0, <2>1 DEF Executed, W
    <2> QED BY <1>1, <2>1, <2>2, PutSteps
  <1>4. ASSUME Does(v, w, W(7, d, n)) PROVE Steps(v, w, d, Xor4(v.mem[d], v.mem[n]))
    <2>1. PICK f \in VmState : Same(v, f) /\ f.pc = v.pc + 1 /\ Executed(W(7, d, n), f, w)
      BY <1>4 DEF Does
    <2>2. w = op_xor(f, d, f.mem[n], FALSE)
      BY <1>0, <2>1 DEF Executed, W
    <2> QED BY <1>1, <2>1, <2>2, PutSteps
  <1> QED BY <1>2, <1>3, <1>4

LEMMA DoesLiteral ==
    ASSUME NEW v \in VmState, NEW w, NEW n \in Nibble
    PROVE  /\ Does(v, w, W(0, 5, n)) =>
                Steps(v, w, 0, Or4(v.mem[0], n)) /\ "C" \in w.flags
           /\ Does(v, w, W(0, 6, n)) =>
                Steps(v, w, 0, And4(v.mem[0], n)) /\ "C" \notin w.flags
           /\ Does(v, w, W(0, 7, n)) =>
                Steps(v, w, 0, Xor4(v.mem[0], n)) /\ ("C" \in w.flags <=> "C" \notin v.flags)
  <1>0. 0 \in Lo
    BY DEF Lo
  <1>1. ASSUME NEW f \in VmState, Same(v, f)
        PROVE  /\ f.flags = v.flags
               /\ Puts(f, op_or(f, 0, n, TRUE), 0, Or4(v.mem[0], n))
               /\ "C" \in op_or(f, 0, n, TRUE).flags
               /\ Puts(f, op_and(f, 0, n, TRUE), 0, And4(v.mem[0], n))
               /\ "C" \notin op_and(f, 0, n, TRUE).flags
               /\ Puts(f, op_xor(f, 0, n, TRUE), 0, Xor4(v.mem[0], n))
               /\ "C" \in op_xor(f, 0, n, TRUE).flags <=> "C" \notin f.flags
    <2>1. f.mem[0] = v.mem[0] /\ f.flags = v.flags
      BY <1>0, <1>1 DEF Same
    <2> QED BY <1>0, <2>1, Logic
  <1>2. ASSUME Does(v, w, W(0, 5, n))
        PROVE  Steps(v, w, 0, Or4(v.mem[0], n)) /\ "C" \in w.flags
    <2>1. PICK f \in VmState : Same(v, f) /\ f.pc = v.pc + 1 /\ Executed(W(0, 5, n), f, w)
      BY <1>2 DEF Does
    <2>2. w = op_or(f, 0, n, TRUE)
      BY <2>1, LiteralWords
    <2> QED BY <1>1, <2>1, <2>2, PutSteps
  <1>3. ASSUME Does(v, w, W(0, 6, n))
        PROVE  Steps(v, w, 0, And4(v.mem[0], n)) /\ "C" \notin w.flags
    <2>1. PICK f \in VmState : Same(v, f) /\ f.pc = v.pc + 1 /\ Executed(W(0, 6, n), f, w)
      BY <1>3 DEF Does
    <2>2. w = op_and(f, 0, n, TRUE)
      BY <2>1, LiteralWords
    <2> QED BY <1>1, <2>1, <2>2, PutSteps
  <1>4. ASSUME Does(v, w, W(0, 7, n))
        PROVE  Steps(v, w, 0, Xor4(v.mem[0], n)) /\ ("C" \in w.flags <=> "C" \notin v.flags)
    <2>1. PICK f \in VmState : Same(v, f) /\ f.pc = v.pc + 1 /\ Executed(W(0, 7, n), f, w)
      BY <1>4 DEF Does
    <2>2. w = op_xor(f, 0, n, TRUE)
      BY <2>1, LiteralWords
    <2> QED BY <1>1, <2>1, <2>2, PutSteps
  <1> QED BY <1>2, <1>3, <1>4

LEMMA DoesRotate ==
    ASSUME NEW v \in VmState, NEW w, NEW d \in Lo, Does(v, w, W(0, 13, d))
    PROVE  /\ Steps(v, w, d, v.mem[d] \div 2 + 8 * Carry(v))
           /\ "C" \in w.flags <=> v.mem[d] % 2 = 1
  <1>0. d \in Nibble /\ 0 \in Nibble
    BY LowRegisters DEF Nibble
  <1>1. PICK f \in VmState : Same(v, f) /\ f.pc = v.pc + 1 /\ Executed(W(0, 13, d), f, w)
    BY DEF Does
  <1>2. w = op_rrc(f, d)
    BY <1>0, <1>1, CountWords
  <1>3. f.mem[d] = v.mem[d] /\ Carry(f) = Carry(v)
    BY <1>1 DEF Same, Carry
  <1>4. /\ Puts(f, w, d, f.mem[d] \div 2 + 8 * Carry(f))
        /\ "C" \in w.flags <=> f.mem[d] % 2 = 1
    BY <1>2, Rotate
  <1>5. Puts(f, w, d, v.mem[d] \div 2 + 8 * Carry(v))
    BY <1>3, <1>4
  <1>6. "C" \in w.flags <=> v.mem[d] % 2 = 1
    BY <1>3, <1>4
  <1> QED BY <1>1, <1>5, <1>6, PutSteps

(* INC and DSZ.                                                            *)
LEMMA DoesCount ==
    ASSUME NEW v \in VmState, NEW w, NEW d \in Lo
    PROVE  /\ Does(v, w, W(0, 2, d)) =>
                /\ Steps(v, w, d, Kept(v.mem[d] + 1))
                /\ "C" \in w.flags <=> v.mem[d] = 15
                /\ "Z" \in w.flags <=> v.mem[d] = 15
           /\ Does(v, w, W(0, 4, d)) =>
                /\ w.pc = IF v.mem[d] = 1 THEN v.pc + 2 ELSE v.pc + 1
                /\ w.flags = v.flags
                /\ \A r \in Lo : w.mem[r] = IF r = d THEN Kept(v.mem[d] - 1) ELSE v.mem[r]
  <1>0. d \in Nibble
    BY LowRegisters
  <1>1. ASSUME Does(v, w, W(0, 2, d))
        PROVE  /\ Steps(v, w, d, Kept(v.mem[d] + 1))
               /\ "C" \in w.flags <=> v.mem[d] = 15
               /\ "Z" \in w.flags <=> v.mem[d] = 15
    <2>1. PICK f \in VmState : /\ Same(v, f) /\ f.pc = v.pc + 1 /\ f.pc \in Addr
                              /\ Executed(W(0, 2, d), f, w)
      BY <1>1 DEF Does
    <2>2. w = op_inc(f, d)
      BY <1>0, <2>1, CountWords
    <2>3. f.mem[d] = v.mem[d]
      BY <2>1 DEF Same
    <2>4. /\ Puts(f, op_inc(f, d), d, Kept(f.mem[d] + 1))
          /\ "C" \in op_inc(f, d).flags <=> f.mem[d] = 15
          /\ "Z" \in op_inc(f, d).flags <=> f.mem[d] = 15
      BY <1>0, <2>1, Control
    <2> QED BY <2>1, <2>2, <2>3, <2>4, PutSteps
  <1>2. ASSUME Does(v, w, W(0, 4, d))
        PROVE  /\ w.pc = IF v.mem[d] = 1 THEN v.pc + 2 ELSE v.pc + 1
               /\ w.flags = v.flags
               /\ \A r \in Lo : w.mem[r] = IF r = d THEN Kept(v.mem[d] - 1) ELSE v.mem[r]
    <2>1. PICK f \in VmState : /\ Same(v, f) /\ f.pc = v.pc + 1 /\ f.pc \in Addr
                              /\ Executed(W(0, 4, d), f, w)
      BY <1>2 DEF Does
    <2>2. w = op_dsz(f, d)
      BY <1>0, <2>1, CountWords
    <2>3. /\ w.pc = IF f.mem[d] = 1 THEN f.pc + 1 ELSE f.pc
          /\ w.flags = f.flags
          /\ \A r \in Lo : w.mem[r] = IF r = d THEN Kept(f.mem[d] - 1) ELSE f.mem[r]
      BY <1>0, <2>1, <2>2, Control
    <2>4. v.pc \in Int
      BY FieldTypes, CounterRange
    <2>5. (v.pc + 1) + 1 = v.pc + 2
      BY <2>4
    <2> QED BY <2>1, <2>3, <2>5 DEF Same
  <1> QED BY <1>1, <1>2

(* JR -1 comes back to itself, and JR -3 to the second word before it.     *)
LEMMA DoesJump ==
    ASSUME NEW v \in VmState, v.pc \in Addr, NEW w
    PROVE  /\ Does(v, w, Stay) => Rests(v, w)
           /\ v.pc >= 2 /\ Does(v, w, W(15, 15, 13)) => Same(v, w) /\ w.pc = v.pc - 2
  <1>1. \A a \in Addr : /\ (a + 1) + (-1) = a /\ a \in Counter
                        /\ (a + 1) + (-3) = a - 2 /\ (a >= 2 => a - 2 \in Counter)
    BY AddrRange, CounterRange
  <1>2. \A f : op_jr(f, 255) = Skip(f, -1) /\ op_jr(f, 253) = Skip(f, -3)
    BY DEF op_jr
  <1>3. ASSUME NEW f \in VmState, Same(v, f), f.pc = v.pc + 1
        PROVE  /\ Same(v, Skip(f, -1)) /\ Skip(f, -1).pc = v.pc
               /\ v.pc >= 2 => Same(v, Skip(f, -3)) /\ Skip(f, -3).pc = v.pc - 2
    <2>1. Same(f, Skip(f, -1)) /\ Skip(f, -1).pc = v.pc
      BY <1>1, <1>3, Skips
    <2>2. v.pc >= 2 => Same(f, Skip(f, -3)) /\ Skip(f, -3).pc = v.pc - 2
      BY <1>1, <1>3, Skips
    <2> QED BY <1>3, <2>1, <2>2 DEF Same
  <1>4. ASSUME Does(v, w, Stay) PROVE Rests(v, w)
    <2>1. PICK f \in VmState : Same(v, f) /\ f.pc = v.pc + 1 /\ Executed(Stay, f, w)
      BY <1>4 DEF Does
    <2>2. w = Skip(f, -1)
      BY <1>2, <2>1, JumpWords
    <2> QED BY <1>3, <2>1, <2>2 DEF Rests
  <1>5. ASSUME v.pc >= 2, Does(v, w, W(15, 15, 13)) PROVE Same(v, w) /\ w.pc = v.pc - 2
    <2>1. PICK f \in VmState : Same(v, f) /\ f.pc = v.pc + 1 /\ Executed(W(15, 15, 13), f, w)
      BY <1>5 DEF Does
    <2>2. w = Skip(f, -3)
      BY <1>2, <2>1, JumpWords
    <2> QED BY <1>3, <1>5, <2>1, <2>2
  <1> QED BY <1>4, <1>5

(* SKIP c,4.                                                               *)
Holds(v, c) ==
    CASE c = 0 -> "C" \in v.flags [] c = 1 -> "C" \notin v.flags
      [] c = 2 -> "Z" \in v.flags [] c = 3 -> "Z" \notin v.flags

LEMMA DoesSkip ==
    ASSUME NEW v \in VmState, v.pc + 5 \in Counter, NEW w, NEW c \in 0..3,
           Does(v, w, W(0, 15, 4 * c))
    PROVE  Same(v, w) /\ w.pc = IF Holds(v, c) THEN v.pc + 5 ELSE v.pc + 1
  <1> DEFINE n == 4 * c
  <1>0. n \in Nibble /\ n \div 4 = c /\ n % 4 = 0
    BY DEF Nibble
  <1> HIDE DEF n
  <1>1. PICK f \in VmState : Same(v, f) /\ f.pc = v.pc + 1 /\ Executed(W(0, 15, n), f, w)
    BY DEF Does, n
  <1>2. w = op_skip(f, c, 0)
    BY <1>0, <1>1, CountWords
  <1>3. w = IF Holds(v, c) THEN Skip(f, 4) ELSE f
    <2>1. f.flags = v.flags
      BY <1>1 DEF Same
    <2>2. CASE c = 0 BY <1>2, <2>1, <2>2 DEF op_skip, Holds
    <2>3. CASE c = 1 BY <1>2, <2>1, <2>3 DEF op_skip, Holds
    <2>4. CASE c = 2 BY <1>2, <2>1, <2>4 DEF op_skip, Holds
    <2>5. CASE c = 3 BY <1>2, <2>1, <2>5 DEF op_skip, Holds
    <2> QED BY <2>2, <2>3, <2>4, <2>5
  <1>4. (v.pc + 1) + 4 = v.pc + 5
    <2>1. v.pc \in Int
      BY FieldTypes, CounterRange
    <2> QED BY <2>1
  <1>5. Same(f, Skip(f, 4)) /\ Skip(f, 4).pc = v.pc + 5
    BY <1>1, <1>4, Skips
  <1> QED BY <1>1, <1>3, <1>5 DEF Same

-----------------------------------------------------------------------------
(* Every program keeps its place.                                          *)

LEMMA Halves ==
    ASSUME NEW p \in AluPrograms(Nibble)
    PROVE  /\ 0 \in Lo /\ 1 \in Lo /\ 2 \in Lo /\ 3 \in Lo /\ 4 \in Lo /\ 5 \in Lo /\ 6 \in Lo
           /\ Half(p, 0) \in Nibble /\ Half(p, 1) \in Nibble
           /\ Half(p, 2) \in Nibble /\ Half(p, 3) \in Nibble
  <1>1. /\ p[0 + 1].nibble3 \in Nibble /\ p[1 + 1].nibble3 \in Nibble
        /\ p[2 + 1].nibble3 \in Nibble /\ p[3 + 1].nibble3 \in Nibble
    BY Shape
  <1> QED BY <1>1 DEF Half, Lo

(* Each of the first four instructions loads its operand.                  *)
LEMMA Loads ==
    ASSUME NEW p \in AluPrograms(Nibble), NEW v \in VmState, NEW w, v.pc \in 0..3,
           Loaded(p, v, v.pc), Runs(p, v, w)
    PROVE  w.pc \in {v.pc, v.pc + 1} /\ Loaded(p, w, w.pc)
  <1>1. CASE Rests(v, w)
    BY <1>1 DEF Rests, Same, Loaded
  <1>2. CASE ~Rests(v, w)
    <2>1. v.pc \in 0..(3 + Len(Rest(p))) /\ v.pc < 4 /\ v.pc \in Lo
      <3> DEFINE n == Len(Rest(p))
      <3>1. n \in 3..7
        BY Words
      <3> HIDE DEF n
      <3>2. v.pc \in 0..(3 + n) /\ v.pc < 4 /\ v.pc \in 0..6
        BY <3>1
      <3> QED BY <3>2 DEF n, Lo
    <2>2. Half(p, v.pc) \in Nibble
      BY Shape DEF Half
    <2>3. Does(v, w, W(9, v.pc, Half(p, v.pc)))
      BY <1>2, <2>1, Executes
    <2>4. Steps(v, w, v.pc, Half(p, v.pc))
      BY <2>1, <2>2, <2>3, DoesMove
    <2>5. \A r \in Lo : r < v.pc + 1 <=> r < v.pc \/ r = v.pc
      BY DEF Lo
    <2>6. w.pc = v.pc + 1 /\ Loaded(p, w, v.pc + 1)
      BY <2>4, <2>5 DEF Loaded, Steps
    <2> QED BY <2>6
  <1> QED BY <1>1, <1>2

LEMMA AddStep ==
    ASSUME NEW p \in AluPrograms(Nibble), NEW v \in VmState, NEW w \in VmState,
           Runs(p, v, w), AddAt(p, v)
    PROVE  AddAt(p, w)
  <1> SUFFICES ASSUME Rest(p) = AddCode PROVE AddAt(p, w)
    BY DEF AddAt
  <1> DEFINE a == Half(p, 0)
             b == Half(p, 1)
             c == Half(p, 2)
             d == Half(p, 3)
  <1>0. /\ 0 \in Lo /\ 1 \in Lo /\ 2 \in Lo /\ 3 \in Lo
        /\ a \in Nibble /\ b \in Nibble /\ c \in Nibble /\ d \in Nibble
    BY Halves
  <1>1. CASE Rests(v, w)
    BY <1>0, <1>1 DEF AddAt, Rests, Same, Loaded
  <1>2. CASE v.pc \in 0..3
    <2>1. Loaded(p, v, v.pc)
      BY <1>2 DEF AddAt
    <2>2. w.pc \in 0..4 /\ Loaded(p, w, w.pc)
      BY <1>2, <2>1, Loads
    <2> QED BY <2>2 DEF AddAt
  <1>3. ~Rests(v, w) => /\ v.pc = 4 => Does(v, w, W(1, 0, 2))
                        /\ v.pc = 5 => Does(v, w, W(2, 1, 3))
                        /\ v.pc = 6 => Does(v, w, Stay)
    <2>1. ASSUME ~Rests(v, w), v.pc \in 4..6 PROVE Does(v, w, AddCode[v.pc - 3])
      <3>1. v.pc >= 4 /\ v.pc \in 0..(3 + 3)
        BY <2>1
      <3> QED BY <2>1, <3>1, Executes, ThreeWords
    <2> QED BY <2>1, ThreeWords
  <1>4. CASE ~Rests(v, w) /\ v.pc = 4
    <2>1. v.mem[0] = a /\ v.mem[1] = b /\ v.mem[2] = c /\ v.mem[3] = d
      BY <1>0, <1>4 DEF AddAt, Loaded
    <2>2. Sums(v, w, 0, v.mem[0] + v.mem[2], nibble_to_int8(v.mem[0]) + nibble_to_int8(v.mem[2]))
      BY <1>0, <1>3, <1>4, DoesArithmetic
    <2>3. w.pc = 5 /\ w.mem[0] = Kept(a + c) /\ w.mem[1] = b /\ w.mem[3] = d
      BY <1>0, <1>4, <2>1, <2>2 DEF Sums, Steps
    <2>4. "C" \in w.flags <=> CarryOf(p) = 1
      BY <2>1, <2>2 DEF Sums, CarryOf
    <2> QED BY <2>3, <2>4 DEF AddAt
  <1>5. CASE ~Rests(v, w) /\ v.pc = 5
    <2>1. v.mem[0] = Kept(a + c) /\ v.mem[1] = b /\ v.mem[3] = d /\ Carry(v) = CarryOf(p)
      BY <1>0, <1>5 DEF AddAt, Carry, CarryOf
    <2>2. Sums(v, w, 1, v.mem[1] + v.mem[3] + Carry(v),
               nibble_to_int8(v.mem[1]) + nibble_to_int8(v.mem[3]) + Carry(v))
      BY <1>0, <1>3, <1>5, DoesArithmetic
    <2>3. w.pc = 6 /\ w.mem[0] = Kept(a + c) /\ w.mem[1] = Kept(b + d + CarryOf(p))
      BY <1>0, <1>5, <2>1, <2>2 DEF Sums, Steps
    <2> QED BY <2>1, <2>2, <2>3 DEF AddAt, Sums
  <1>6. CASE ~Rests(v, w) /\ v.pc = 6
    BY <1>3, <1>6, DoesJump DEF Addr, PROGRAM_MEMORY_SIZE
  <1>7. v.pc \in 0..6
    BY DEF AddAt
  <1> QED BY <1>1, <1>2, <1>4, <1>5, <1>6, <1>7

LEMMA SubStep ==
    ASSUME NEW p \in AluPrograms(Nibble), NEW v \in VmState, NEW w \in VmState,
           Runs(p, v, w), SubAt(p, v)
    PROVE  SubAt(p, w)
  <1> SUFFICES ASSUME Rest(p) = SubCode PROVE SubAt(p, w)
    BY DEF SubAt
  <1> DEFINE a == Half(p, 0)
             b == Half(p, 1)
             c == Half(p, 2)
             d == Half(p, 3)
  <1>0. /\ 0 \in Lo /\ 1 \in Lo /\ 2 \in Lo /\ 3 \in Lo
        /\ a \in Nibble /\ b \in Nibble /\ c \in Nibble /\ d \in Nibble
    BY Halves
  <1>1. CASE Rests(v, w)
    BY <1>0, <1>1 DEF SubAt, Rests, Same, Loaded
  <1>2. CASE v.pc \in 0..3
    <2>1. Loaded(p, v, v.pc)
      BY <1>2 DEF SubAt
    <2>2. w.pc \in 0..4 /\ Loaded(p, w, w.pc)
      BY <1>2, <2>1, Loads
    <2> QED BY <2>2 DEF SubAt
  <1>3. ~Rests(v, w) => /\ v.pc = 4 => Does(v, w, W(3, 0, 2))
                        /\ v.pc = 5 => Does(v, w, W(4, 1, 3))
                        /\ v.pc = 6 => Does(v, w, Stay)
    <2>1. ASSUME ~Rests(v, w), v.pc \in 4..6 PROVE Does(v, w, SubCode[v.pc - 3])
      <3>1. v.pc >= 4 /\ v.pc \in 0..(3 + 3)
        BY <2>1
      <3> QED BY <2>1, <3>1, Executes, ThreeWords
    <2> QED BY <2>1, ThreeWords
  <1>4. CASE ~Rests(v, w) /\ v.pc = 4
    <2>1. v.mem[0] = a /\ v.mem[1] = b /\ v.mem[2] = c /\ v.mem[3] = d
      BY <1>0, <1>4 DEF SubAt, Loaded
    <2>2. Differs(v, w, 0, v.mem[0] - v.mem[2],
                  nibble_to_int8(v.mem[0]) - nibble_to_int8(v.mem[2]))
      BY <1>0, <1>3, <1>4, DoesArithmetic
    <2>3. w.pc = 5 /\ w.mem[0] = Kept(a - c) /\ w.mem[1] = b /\ w.mem[3] = d
      BY <1>0, <1>4, <2>1, <2>2 DEF Differs, Steps
    <2>4. "C" \in w.flags <=> BorrowOf(p) = 0
      <3>1. \A x, y \in Nibble : x - y >= 0 <=> x >= y
        BY DEF Nibble
      <3> QED BY <1>0, <2>1, <2>2, <3>1 DEF Differs, BorrowOf
    <2> QED BY <2>3, <2>4 DEF SubAt
  <1>5. CASE ~Rests(v, w) /\ v.pc = 5
    <2>1. v.mem[0] = Kept(a - c) /\ v.mem[1] = b /\ v.mem[3] = d /\ 1 - Carry(v) = BorrowOf(p)
      BY <1>0, <1>5 DEF SubAt, Carry, BorrowOf
    <2>2. Differs(v, w, 1, v.mem[1] - v.mem[3] - (1 - Carry(v)),
                  nibble_to_int8(v.mem[1]) - nibble_to_int8(v.mem[3]) - (1 - Carry(v)))
      BY <1>0, <1>3, <1>5, DoesArithmetic
    <2>3. w.pc = 6 /\ w.mem[0] = Kept(a - c) /\ w.mem[1] = Kept(b - d - BorrowOf(p))
      BY <1>0, <1>5, <2>1, <2>2 DEF Differs, Steps
    <2> QED BY <2>1, <2>2, <2>3 DEF SubAt, Differs
  <1>6. CASE ~Rests(v, w) /\ v.pc = 6
    BY <1>3, <1>6, DoesJump DEF Addr, PROGRAM_MEMORY_SIZE
  <1>7. v.pc \in 0..6
    BY DEF SubAt
  <1> QED BY <1>1, <1>2, <1>4, <1>5, <1>6, <1>7

LEMMA SwapStep ==
    ASSUME NEW p \in AluPrograms(Nibble), NEW v \in VmState, NEW w \in VmState,
           Runs(p, v, w), SwapAt(p, v)
    PROVE  SwapAt(p, w)
  <1> SUFFICES ASSUME Rest(p) = SwapCode PROVE SwapAt(p, w)
    BY DEF SwapAt
  <1> DEFINE a == Half(p, 0)
             b == Half(p, 1)
             c == Half(p, 2)
  <1>0. /\ 0 \in Lo /\ 1 \in Lo /\ 2 \in Lo /\ 4 \in Lo /\ 5 \in Lo
        /\ a \in Nibble /\ b \in Nibble /\ c \in Nibble
    BY Halves
  <1>1. CASE Rests(v, w)
    BY <1>0, <1>1 DEF SwapAt, Rests, Same, Loaded
  <1>2. CASE v.pc \in 0..3
    <2>1. Loaded(p, v, v.pc)
      BY <1>2 DEF SwapAt
    <2>2. w.pc \in 0..4 /\ Loaded(p, w, w.pc)
      BY <1>2, <2>1, Loads
    <2> QED BY <2>2 DEF SwapAt
  <1>3. ~Rests(v, w) => /\ v.pc = 4 => Does(v, w, W(7, 0, 2))
                        /\ v.pc = 5 => Does(v, w, W(7, 2, 0))
                        /\ v.pc = 6 => Does(v, w, W(7, 0, 2))
                        /\ v.pc = 7 => Does(v, w, Stay)
    <2>1. ASSUME ~Rests(v, w), v.pc \in 4..7 PROVE Does(v, w, SwapCode[v.pc - 3])
      <3>1. v.pc >= 4 /\ v.pc \in 0..(3 + 4)
        BY <2>1
      <3> QED BY <2>1, <3>1, Executes, FourWords
    <2> QED BY <2>1, FourWords
  <1>4. CASE ~Rests(v, w) /\ v.pc = 4
    <2>1. v.mem[0] = a /\ v.mem[2] = c
      BY <1>0, <1>4 DEF SwapAt, Loaded
    <2>2. Steps(v, w, 0, Xor4(v.mem[0], v.mem[2]))
      BY <1>0, <1>3, <1>4, DoesLogic
    <2> QED BY <1>0, <1>4, <2>1, <2>2 DEF SwapAt, Steps
  <1>5. CASE ~Rests(v, w) /\ v.pc = 5
    <2>1. v.mem[0] = Xor4(a, c) /\ v.mem[2] = c
      BY <1>5 DEF SwapAt
    <2>2. Steps(v, w, 2, Xor4(v.mem[2], v.mem[0]))
      BY <1>0, <1>3, <1>5, DoesLogic
    <2>3. Xor4(c, Xor4(a, c)) = a
      BY <1>0, Swapping
    <2>4. w.pc = 6 /\ w.mem[0] = Xor4(a, c) /\ w.mem[2] = a
      BY <1>0, <1>5, <2>1, <2>2, <2>3 DEF Steps
    <2> QED BY <2>4 DEF SwapAt
  <1>6. CASE ~Rests(v, w) /\ v.pc = 6
    <2>1. v.mem[0] = Xor4(a, c) /\ v.mem[2] = a
      BY <1>6 DEF SwapAt
    <2>2. Steps(v, w, 0, Xor4(v.mem[0], v.mem[2]))
      BY <1>0, <1>3, <1>6, DoesLogic
    <2>3. Xor4(Xor4(a, c), a) = c
      BY <1>0, Swapping
    <2>4. w.pc = 7 /\ w.mem[0] = c /\ w.mem[2] = a
      BY <1>0, <1>6, <2>1, <2>2, <2>3 DEF Steps
    <2> QED BY <2>4 DEF SwapAt
  <1>7. CASE ~Rests(v, w) /\ v.pc = 7
    BY <1>3, <1>7, DoesJump DEF Addr, PROGRAM_MEMORY_SIZE
  <1>8. v.pc \in 0..7
    BY DEF SwapAt
  <1> QED BY <1>1, <1>2, <1>4, <1>5, <1>6, <1>7, <1>8

LEMMA NegateStep ==
    ASSUME NEW p \in AluPrograms(Nibble), NEW v \in VmState, NEW w \in VmState,
           Runs(p, v, w), NegateAt(p, v)
    PROVE  NegateAt(p, w)
  <1> SUFFICES ASSUME Rest(p) = NegateCode PROVE NegateAt(p, w)
    BY DEF NegateAt
  <1> DEFINE a == Half(p, 0)
             b == Half(p, 1)
             c == Half(p, 2)
  <1>0. /\ 0 \in Lo /\ 1 \in Lo /\ 2 \in Lo /\ 4 \in Lo /\ 5 \in Lo
        /\ a \in Nibble /\ b \in Nibble /\ c \in Nibble
    BY Halves
  <1>1. CASE Rests(v, w)
    BY <1>0, <1>1 DEF NegateAt, Rests, Same, Loaded
  <1>2. CASE v.pc \in 0..3
    <2>1. Loaded(p, v, v.pc)
      BY <1>2 DEF NegateAt
    <2>2. w.pc \in 0..4 /\ Loaded(p, w, w.pc)
      BY <1>2, <2>1, Loads
    <2> QED BY <2>2 DEF NegateAt
  <1>3. ~Rests(v, w) => /\ v.pc = 4 => Does(v, w, W(0, 6, 15))
                        /\ v.pc = 5 => Does(v, w, W(0, 7, 15))
                        /\ v.pc = 6 => Does(v, w, W(2, 0, 4))
                        /\ v.pc = 7 => Does(v, w, Stay)
    <2>1. ASSUME ~Rests(v, w), v.pc \in 4..7 PROVE Does(v, w, NegateCode[v.pc - 3])
      <3>1. v.pc >= 4 /\ v.pc \in 0..(3 + 4)
        BY <2>1
      <3> QED BY <2>1, <3>1, Executes, FourWords
    <2> QED BY <2>1, FourWords
  <1>4. CASE ~Rests(v, w) /\ v.pc = 4
    <2>1. v.mem[0] = a /\ v.mem[4] = 0
      BY <1>0, <1>4 DEF NegateAt, Loaded
    <2>2. Steps(v, w, 0, And4(v.mem[0], 15)) /\ "C" \notin w.flags
      BY <1>3, <1>4, WordType, DoesLiteral
    <2>3. And4(a, 15) = a
      BY <1>0, Masking
    <2>4. w.pc = 5 /\ w.mem[0] = a /\ w.mem[4] = 0
      BY <1>0, <1>4, <2>1, <2>2, <2>3 DEF Steps
    <2> QED BY <2>2, <2>4 DEF NegateAt
  <1>5. CASE ~Rests(v, w) /\ v.pc = 5
    <2>1. v.mem[0] = a /\ v.mem[4] = 0 /\ "C" \notin v.flags
      BY <1>5 DEF NegateAt
    <2>2. Steps(v, w, 0, Xor4(v.mem[0], 15)) /\ ("C" \in w.flags <=> "C" \notin v.flags)
      BY <1>3, <1>5, WordType, DoesLiteral
    <2>3. Xor4(a, 15) = 15 - a
      BY <1>0, Masking
    <2>4. w.pc = 6 /\ w.mem[0] = 15 - a /\ w.mem[4] = 0
      BY <1>0, <1>5, <2>1, <2>2, <2>3 DEF Steps
    <2> QED BY <2>1, <2>2, <2>4 DEF NegateAt
  <1>6. CASE ~Rests(v, w) /\ v.pc = 6
    <2>1. v.mem[0] = 15 - a /\ v.mem[4] = 0 /\ Carry(v) = 1
      BY <1>6 DEF NegateAt, Carry
    <2>2. Sums(v, w, 0, v.mem[0] + v.mem[4] + Carry(v),
               nibble_to_int8(v.mem[0]) + nibble_to_int8(v.mem[4]) + Carry(v))
      BY <1>0, <1>3, <1>6, DoesArithmetic
    <2>3. w.pc = 7 /\ w.mem[0] = Kept((15 - a) + 0 + 1)
      BY <1>0, <1>6, <2>1, <2>2 DEF Sums, Steps
    <2>4. (15 - a) + 0 + 1 = 16 - a
      BY <1>0 DEF Nibble
    <2> QED BY <2>3, <2>4 DEF NegateAt
  <1>7. CASE ~Rests(v, w) /\ v.pc = 7
    BY <1>3, <1>7, DoesJump DEF Addr, PROGRAM_MEMORY_SIZE
  <1>8. v.pc \in 0..7
    BY DEF NegateAt
  <1> QED BY <1>1, <1>2, <1>4, <1>5, <1>6, <1>7, <1>8

LEMMA LogicStep ==
    ASSUME NEW p \in AluPrograms(Nibble), NEW v \in VmState, NEW w \in VmState,
           Runs(p, v, w), LogicAt(p, v)
    PROVE  LogicAt(p, w)
  <1> SUFFICES ASSUME Rest(p) = LogicCode PROVE LogicAt(p, w)
    BY DEF LogicAt
  <1> DEFINE a == Half(p, 0)
             b == Half(p, 1)
             c == Half(p, 2)
  <1>0. /\ 0 \in Lo /\ 1 \in Lo /\ 2 \in Lo /\ 4 \in Lo /\ 5 \in Lo
        /\ a \in Nibble /\ b \in Nibble /\ c \in Nibble
    BY Halves
  <1>1. CASE Rests(v, w)
    BY <1>0, <1>1 DEF LogicAt, Rests, Same, Loaded
  <1>2. CASE v.pc \in 0..3
    <2>1. Loaded(p, v, v.pc)
      BY <1>2 DEF LogicAt
    <2>2. w.pc \in 0..4 /\ Loaded(p, w, w.pc)
      BY <1>2, <2>1, Loads
    <2> QED BY <2>2 DEF LogicAt
  <1>3. ~Rests(v, w) => /\ v.pc = 4 => Does(v, w, W(8, 4, 0))
                        /\ v.pc = 5 => Does(v, w, W(6, 4, 2))
                        /\ v.pc = 6 => Does(v, w, W(5, 0, 2))
                        /\ v.pc = 7 => Does(v, w, W(1, 0, 4))
                        /\ v.pc = 8 => Does(v, w, Stay)
    <2>1. ASSUME ~Rests(v, w), v.pc \in 4..8 PROVE Does(v, w, LogicCode[v.pc - 3])
      <3>1. v.pc >= 4 /\ v.pc \in 0..(3 + 5)
        BY <2>1
      <3> QED BY <2>1, <3>1, Executes, MoreWords
    <2> QED BY <2>1, MoreWords
  <1>4. CASE ~Rests(v, w) /\ v.pc = 4
    <2>1. v.mem[0] = a /\ v.mem[2] = c
      BY <1>0, <1>4 DEF LogicAt, Loaded
    <2>2. Steps(v, w, 4, v.mem[0])
      BY <1>0, <1>3, <1>4, DoesMove
    <2>3. w.pc = 5 /\ w.mem[0] = a /\ w.mem[2] = c /\ w.mem[4] = a
      BY <1>0, <1>4, <2>1, <2>2 DEF Steps
    <2> QED BY <2>3 DEF LogicAt
  <1>5. CASE ~Rests(v, w) /\ v.pc = 5
    <2>1. v.mem[0] = a /\ v.mem[2] = c /\ v.mem[4] = a
      BY <1>5 DEF LogicAt
    <2>2. Steps(v, w, 4, And4(v.mem[4], v.mem[2]))
      BY <1>0, <1>3, <1>5, DoesLogic
    <2>3. w.pc = 6 /\ w.mem[0] = a /\ w.mem[2] = c /\ w.mem[4] = And4(a, c)
      BY <1>0, <1>5, <2>1, <2>2 DEF Steps
    <2> QED BY <2>3 DEF LogicAt
  <1>6. CASE ~Rests(v, w) /\ v.pc = 6
    <2>1. v.mem[0] = a /\ v.mem[2] = c /\ v.mem[4] = And4(a, c)
      BY <1>6 DEF LogicAt
    <2>2. Steps(v, w, 0, Or4(v.mem[0], v.mem[2]))
      BY <1>0, <1>3, <1>6, DoesLogic
    <2>3. w.pc = 7 /\ w.mem[0] = Or4(a, c) /\ w.mem[4] = And4(a, c)
      BY <1>0, <1>6, <2>1, <2>2 DEF Steps
    <2> QED BY <2>3 DEF LogicAt
  <1>7. CASE ~Rests(v, w) /\ v.pc = 7
    <2>1. v.mem[0] = Or4(a, c) /\ v.mem[4] = And4(a, c)
      BY <1>7 DEF LogicAt
    <2>2. Sums(v, w, 0, v.mem[0] + v.mem[4], nibble_to_int8(v.mem[0]) + nibble_to_int8(v.mem[4]))
      BY <1>0, <1>3, <1>7, DoesArithmetic
    <2>3. Or4(a, c) + And4(a, c) = a + c
      <3>1. And4(a, c) + Or4(a, c) = a + c /\ And4(a, c) \in Nibble /\ Or4(a, c) \in Nibble
        BY <1>0, Masking, Bits
      <3>2. \A x, y \in Nibble : x + y = y + x
        BY DEF Nibble
      <3> QED BY <3>1, <3>2
    <2>4. w.pc = 8 /\ w.mem[0] = Kept(a + c)
      BY <1>0, <1>7, <2>1, <2>2, <2>3 DEF Sums, Steps
    <2> QED BY <2>4 DEF LogicAt
  <1>8. CASE ~Rests(v, w) /\ v.pc = 8
    BY <1>3, <1>8, DoesJump DEF Addr, PROGRAM_MEMORY_SIZE
  <1>9. v.pc \in 0..8
    BY DEF LogicAt
  <1> QED BY <1>1, <1>2, <1>4, <1>5, <1>6, <1>7, <1>8, <1>9

LEMMA ShiftStep ==
    ASSUME NEW p \in AluPrograms(Nibble), NEW v \in VmState, NEW w \in VmState,
           NEW code, NEW in,
           (code = ShiftCode /\ in = 0) \/ (code = OnesCode /\ in = 1),
           Runs(p, v, w), ShiftAt(p, v, code, in)
    PROVE  ShiftAt(p, w, code, in)
  <1> SUFFICES ASSUME Rest(p) = code PROVE ShiftAt(p, w, code, in)
    BY DEF ShiftAt
  <1> DEFINE a == Half(p, 0)
             b == Half(p, 1)
             c == Half(p, 2)
  <1>0. /\ 0 \in Lo /\ 1 \in Lo /\ 2 \in Lo /\ 4 \in Lo /\ 5 \in Lo
        /\ a \in Nibble /\ b \in Nibble /\ c \in Nibble
    BY Halves
  <1>1. CASE Rests(v, w)
    BY <1>0, <1>1 DEF ShiftAt, Rests, Same, Loaded
  <1>2. CASE v.pc \in 0..3
    <2>1. Loaded(p, v, v.pc)
      BY <1>2 DEF ShiftAt
    <2>2. w.pc \in 0..4 /\ Loaded(p, w, w.pc)
      BY <1>2, <2>1, Loads
    <2> QED BY <2>2 DEF ShiftAt
  <1>3. ~Rests(v, w) => /\ v.pc = 4 /\ code = ShiftCode => Does(v, w, W(0, 6, 15))
                        /\ v.pc = 4 /\ code = OnesCode => Does(v, w, W(0, 5, 0))
                        /\ v.pc = 5 => Does(v, w, W(0, 13, 1))
                        /\ v.pc = 6 => Does(v, w, W(0, 13, 0))
                        /\ v.pc = 7 => Does(v, w, Stay)
    <2>1. ASSUME ~Rests(v, w), v.pc \in 4..7 PROVE Does(v, w, code[v.pc - 3])
      <3>1. v.pc >= 4 /\ v.pc \in 0..(3 + 4)
        BY <2>1
      <3> QED BY <2>1, <3>1, Executes, FourWords
    <2> QED BY <2>1, FourWords
  <1>4. CASE ~Rests(v, w) /\ v.pc = 4
    <2>1. v.mem[0] = a /\ v.mem[1] = b
      BY <1>0, <1>4 DEF ShiftAt, Loaded
    <2>2. And4(a, 15) = a /\ Or4(a, 0) = a
      BY <1>0, Masking
    <2>3. Steps(v, w, 0, a) /\ ("C" \in w.flags <=> in = 1)
      <3>1. CASE code = ShiftCode /\ in = 0
        <4>1. Steps(v, w, 0, And4(v.mem[0], 15)) /\ "C" \notin w.flags
          BY <1>3, <1>4, <3>1, WordType, DoesLiteral
        <4> QED BY <2>1, <2>2, <3>1, <4>1
      <3>2. CASE code = OnesCode /\ in = 1
        <4>1. Steps(v, w, 0, Or4(v.mem[0], 0)) /\ "C" \in w.flags
          BY <1>3, <1>4, <3>2, WordType, DoesLiteral
        <4> QED BY <2>1, <2>2, <3>2, <4>1
      <3> QED BY <3>1, <3>2
    <2>4. w.pc = 5 /\ w.mem[0] = a /\ w.mem[1] = b
      BY <1>0, <1>4, <2>1, <2>3 DEF Steps
    <2> QED BY <2>3, <2>4 DEF ShiftAt
  <1>5. CASE ~Rests(v, w) /\ v.pc = 5
    <2>1. v.mem[0] = a /\ v.mem[1] = b /\ Carry(v) = in
      BY <1>5 DEF ShiftAt, Carry
    <2>2. Steps(v, w, 1, v.mem[1] \div 2 + 8 * Carry(v)) /\ ("C" \in w.flags <=> v.mem[1] % 2 = 1)
      BY <1>0, <1>3, <1>5, DoesRotate
    <2>3. Steps(v, w, 1, b \div 2 + 8 * in) /\ ("C" \in w.flags <=> b % 2 = 1)
      BY <2>1, <2>2
    <2>4. w.pc = 6 /\ w.mem[0] = a /\ w.mem[1] = b \div 2 + 8 * in
      BY <1>0, <1>5, <2>1, <2>3 DEF Steps
    <2> QED BY <2>3, <2>4 DEF ShiftAt
  <1>6. CASE ~Rests(v, w) /\ v.pc = 6
    <2>1. v.mem[0] = a /\ v.mem[1] = b \div 2 + 8 * in /\ ("C" \in v.flags <=> b % 2 = 1)
      BY <1>6 DEF ShiftAt
    <2>2. Carry(v) = b % 2
      <3>1. b % 2 \in 0..1
        BY <1>0 DEF Nibble
      <3> QED BY <2>1, <3>1 DEF Carry
    <2>3. Steps(v, w, 0, v.mem[0] \div 2 + 8 * Carry(v)) /\ ("C" \in w.flags <=> v.mem[0] % 2 = 1)
      BY <1>0, <1>3, <1>6, DoesRotate
    <2>4. Steps(v, w, 0, a \div 2 + 8 * (b % 2)) /\ ("C" \in w.flags <=> a % 2 = 1)
      BY <2>1, <2>2, <2>3
    <2>5. w.pc = 7 /\ w.mem[0] = a \div 2 + 8 * (b % 2) /\ w.mem[1] = b \div 2 + 8 * in
      BY <1>0, <1>6, <2>1, <2>4 DEF Steps
    <2> QED BY <2>4, <2>5 DEF ShiftAt
  <1>7. CASE ~Rests(v, w) /\ v.pc = 7
    BY <1>3, <1>7, DoesJump DEF Addr, PROGRAM_MEMORY_SIZE
  <1>8. v.pc \in 0..7
    BY DEF ShiftAt
  <1> QED BY <1>1, <1>2, <1>4, <1>5, <1>6, <1>7, <1>8

LEMMA BranchStep ==
    ASSUME NEW p \in AluPrograms(Nibble), NEW v \in VmState, NEW w \in VmState,
           NEW k \in 0..3, Runs(p, v, w), BranchAt(p, v, k)
    PROVE  BranchAt(p, w, k)
  <1> SUFFICES ASSUME Rest(p) = BranchCode(k) PROVE BranchAt(p, w, k)
    BY DEF BranchAt
  <1> DEFINE a == Half(p, 0)
             b == Half(p, 1)
             c == Half(p, 2)
  <1>0. /\ 0 \in Lo /\ 1 \in Lo /\ 2 \in Lo /\ 4 \in Lo /\ 5 \in Lo /\ 6 \in Lo
        /\ a \in Nibble /\ b \in Nibble /\ c \in Nibble
    BY Halves
  <1>1. CASE Rests(v, w)
    BY <1>0, <1>1 DEF BranchAt, Rests, Same, Loaded
  <1>2. CASE v.pc \in 0..3
    <2>1. Loaded(p, v, v.pc)
      BY <1>2 DEF BranchAt
    <2>2. w.pc \in 0..4 /\ Loaded(p, w, w.pc)
      BY <1>2, <2>1, Loads
    <2> QED BY <2>2 DEF BranchAt
  <1>3. ~Rests(v, w) => /\ v.pc = 4 => Does(v, w, W(3, 0, 2))
                        /\ v.pc = 5 => Does(v, w, W(0, 15, 4 * k))
                        /\ v.pc = 6 => Does(v, w, W(9, 4, 1))
                        /\ v.pc = 7 => Does(v, w, W(9, 5, 1))
                        /\ v.pc = 8 => Does(v, w, W(9, 6, 1))
                        /\ v.pc \in {9, 10} => Does(v, w, Stay)
    <2>1. ASSUME ~Rests(v, w), v.pc \in 4..10 PROVE Does(v, w, BranchCode(k)[v.pc - 3])
      <3>1. v.pc >= 4 /\ v.pc \in 0..(3 + 7)
        BY <2>1
      <3>2. Len(BranchCode(k)) = 7
        BY MoreWords
      <3> QED BY <2>1, <3>1, <3>2, Executes
    <2> QED BY <2>1, MoreWords
  <1>4. CASE ~Rests(v, w) /\ v.pc = 4
    <2>1. v.mem[0] = a /\ v.mem[2] = c
      BY <1>0, <1>4 DEF BranchAt, Loaded
    <2>2. Differs(v, w, 0, v.mem[0] - v.mem[2],
                  nibble_to_int8(v.mem[0]) - nibble_to_int8(v.mem[2]))
      BY <1>0, <1>3, <1>4, DoesArithmetic
    <2>3. \A x, y \in Nibble : (x - y >= 0 <=> x >= y) /\ (Kept(x - y) = 0 <=> x = y)
      BY DEF Nibble, Kept
    <2>4. w.pc = 5 /\ ("C" \in w.flags <=> a >= c) /\ ("Z" \in w.flags <=> a = c)
      BY <1>0, <1>4, <2>1, <2>2, <2>3 DEF Differs, Steps
    <2> QED BY <2>4 DEF BranchAt
  <1>5. CASE ~Rests(v, w) /\ v.pc = 5
    <2>1. ("C" \in v.flags <=> a >= c) /\ ("Z" \in v.flags <=> a = c)
      BY <1>5 DEF BranchAt
    <2>2. Holds(v, k) <=> Asked(k, a, c)
      <3>1. \A x, y \in Nibble : x < y <=> ~(x >= y)
        BY DEF Nibble
      <3>2. CASE k = 0 BY <2>1, <3>2 DEF Holds, Asked
      <3>3. CASE k = 1 BY <1>0, <2>1, <3>1, <3>3 DEF Holds, Asked
      <3>4. CASE k = 2 BY <2>1, <3>4 DEF Holds, Asked
      <3>5. CASE k = 3 BY <2>1, <3>5 DEF Holds, Asked
      <3> QED BY <3>2, <3>3, <3>4, <3>5
    <2>3. w.pc = IF Holds(v, k) THEN 10 ELSE 6
      <3>1. 10 \in Counter
        BY CounterRange
      <3> QED BY <1>3, <1>5, <3>1, DoesSkip
    <2> QED BY <2>2, <2>3 DEF BranchAt
  <1>6. CASE ~Rests(v, w) /\ v.pc \in 6..8
    <2>1. w.pc = v.pc + 1
      <3>1. 6 \in Nibble /\ 1 \in Nibble
        BY WordType
      <3>2. CASE v.pc = 6
        <4>1. Steps(v, w, 4, 1)
          BY <1>0, <1>3, <1>6, <3>1, <3>2, DoesMove
        <4> QED BY <4>1 DEF Steps
      <3>3. CASE v.pc = 7
        <4>1. Steps(v, w, 5, 1)
          BY <1>0, <1>3, <1>6, <3>1, <3>3, DoesMove
        <4> QED BY <4>1 DEF Steps
      <3>4. CASE v.pc = 8
        <4>1. Steps(v, w, 6, 1)
          BY <1>0, <1>3, <1>6, <3>1, <3>4, DoesMove
        <4> QED BY <4>1 DEF Steps
      <3> QED BY <1>6, <3>2, <3>3, <3>4
    <2>2. ~Asked(k, a, c)
      BY <1>6 DEF BranchAt
    <2> QED BY <1>6, <2>1, <2>2 DEF BranchAt
  <1>7. CASE ~Rests(v, w) /\ v.pc \in {9, 10}
    BY <1>3, <1>7, DoesJump DEF Addr, PROGRAM_MEMORY_SIZE
  <1>8. v.pc \in 0..10
    BY DEF BranchAt
  <1> QED BY <1>1, <1>2, <1>4, <1>5, <1>6, <1>7, <1>8

(* Counting one up and another down leaves their sum.                      *)
LEMMA Counting ==
    \A a, m, e \in Nibble :
        /\ Kept(m - 1) \in Nibble /\ Kept(e + 1) \in Nibble
        /\ Kept(a + 0) = a
        /\ Kept(e + 1) = 0 <=> e = 15
        /\ Kept(m - 1) = 0 <=> m = 1
        /\ a = Kept(m + e) => Kept(a + 1) = Kept(m + Kept(e + 1))
        /\ Kept(a + 1) = Kept(m + e) => a = Kept(Kept(m - 1) + e)
  BY DEF Nibble, Kept

LEMMA LoopStep ==
    ASSUME NEW p \in AluPrograms(Nibble), NEW v \in VmState, NEW w \in VmState,
           Runs(p, v, w), LoopAt(p, v)
    PROVE  LoopAt(p, w)
  <1> SUFFICES ASSUME Rest(p) = LoopCode PROVE LoopAt(p, w)
    BY DEF LoopAt
  <1> DEFINE a == Half(p, 0)
             m == v.mem[0]
             e == v.mem[5]
  <1>0. /\ 0 \in Lo /\ 5 \in Lo
        /\ a \in Nibble /\ m \in Nibble /\ e \in Nibble
    BY Halves, MemType, LowRegisters
  <1>1. CASE Rests(v, w)
    BY <1>0, <1>1 DEF LoopAt, Rests, Same, Loaded
  <1>2. CASE v.pc \in 0..3
    <2>1. Loaded(p, v, v.pc)
      BY <1>2 DEF LoopAt
    <2>2. w.pc \in 0..4 /\ Loaded(p, w, w.pc)
      BY <1>2, <2>1, Loads
    <2>3. w.pc = 4 => a = Kept(w.mem[0] + w.mem[5])
      <3>1. w.pc = 4 => w.mem[0] = a /\ w.mem[5] = 0
        BY <1>0, <2>2 DEF Loaded
      <3> QED BY <1>0, <3>1, Counting
    <2> QED BY <2>2, <2>3 DEF LoopAt
  <1>3. ~Rests(v, w) => /\ v.pc = 4 => Does(v, w, W(0, 2, 5))
                        /\ v.pc = 5 => Does(v, w, W(0, 4, 0))
                        /\ v.pc = 6 => Does(v, w, W(15, 15, 13))
                        /\ v.pc = 7 => Does(v, w, Stay)
    <2>1. ASSUME ~Rests(v, w), v.pc \in 4..7 PROVE Does(v, w, LoopCode[v.pc - 3])
      <3>1. v.pc >= 4 /\ v.pc \in 0..(3 + 4)
        BY <2>1
      <3> QED BY <2>1, <3>1, Executes, FourWords
    <2> QED BY <2>1, FourWords
  <1>4. CASE ~Rests(v, w) /\ v.pc = 4
    <2>1. a = Kept(m + e)
      BY <1>4 DEF LoopAt
    <2>2. /\ Steps(v, w, 5, Kept(e + 1))
          /\ "C" \in w.flags <=> e = 15
          /\ "Z" \in w.flags <=> e = 15
      <3>1. Does(v, w, W(0, 2, 5))
        BY <1>3, <1>4
      <3> QED BY <1>0, <3>1, DoesCount
    <2>3. w.pc = 5 /\ w.mem[0] = m /\ w.mem[5] = Kept(e + 1)
      BY <1>0, <1>4, <2>2 DEF Steps
    <2>4. /\ e = 15 <=> Kept(e + 1) = 0
          /\ Kept(a + 1) = Kept(m + Kept(e + 1))
      <3> HIDE DEF a, m, e
      <3> QED BY <1>0, <2>1, Counting
    <2> QED BY <2>2, <2>3, <2>4 DEF LoopAt
  <1>5. CASE ~Rests(v, w) /\ v.pc = 5
    <2>1. /\ Kept(a + 1) = Kept(m + e)
          /\ ("C" \in v.flags <=> e = 0) /\ ("Z" \in v.flags <=> e = 0)
      BY <1>5 DEF LoopAt
    <2>2. /\ w.pc = IF m = 1 THEN 7 ELSE 6
          /\ w.flags = v.flags
          /\ w.mem[0] = Kept(m - 1) /\ w.mem[5] = e
      <3>1. Does(v, w, W(0, 4, 0))
        BY <1>3, <1>5
      <3>2. /\ w.pc = IF m = 1 THEN v.pc + 2 ELSE v.pc + 1
            /\ w.flags = v.flags
            /\ \A r \in Lo : w.mem[r] = IF r = 0 THEN Kept(m - 1) ELSE v.mem[r]
        BY <1>0, <3>1, DoesCount
      <3> QED BY <1>0, <1>5, <3>2
    <2>3. a = Kept(w.mem[0] + w.mem[5]) /\ (m = 1 => w.mem[0] = 0)
      BY <1>0, <2>1, <2>2, Counting
    <2> QED BY <2>1, <2>2, <2>3 DEF LoopAt
  <1>6. CASE ~Rests(v, w) /\ v.pc = 6
    <2>1. a = Kept(m + e)
      BY <1>6 DEF LoopAt
    <2>2. Same(v, w) /\ w.pc = 4
      BY <1>3, <1>6, DoesJump DEF Addr, PROGRAM_MEMORY_SIZE
    <2>3. w.mem[0] = m /\ w.mem[5] = e
      BY <1>0, <2>2 DEF Same
    <2> QED BY <2>1, <2>2, <2>3 DEF LoopAt
  <1>7. CASE ~Rests(v, w) /\ v.pc = 7
    BY <1>3, <1>7, DoesJump DEF Addr, PROGRAM_MEMORY_SIZE
  <1>8. v.pc \in 0..7
    BY DEF LoopAt
  <1> QED BY <1>1, <1>2, <1>4, <1>5, <1>6, <1>7, <1>8

-----------------------------------------------------------------------------
(* The inductive invariant: every program is in its place, and the two     *)
(* copies of V agree in those that add or subtract.                        *)

InPlace == Placed(prg, vm) /\ (Rest(prg) \in {AddCode, SubCode} => Mirrored)

(* Nothing in these two codes stores to RD_FLAGS.                          *)
LEMMA StoresNothing ==
    ASSUME prg \in AluPrograms(Nibble), Rest(prg) \in {AddCode, SubCode}, vm.pc \in 0..6
    PROVE  ~StoresTo(RD_FLAGS)
  <1> DEFINE code == Rest(prg)
             a == vm.pc
  <1>1. /\ \A x \in Nibble, r \in 0..3 : W(9, r, x).nibble1 = 9
        /\ W(1, 0, 2).nibble1 = 1 /\ W(2, 1, 3).nibble1 = 2 /\ W(3, 0, 2).nibble1 = 3
        /\ W(4, 1, 3).nibble1 = 4 /\ Stay.nibble1 = 15
    BY DEF W, Stay
  <1>2. \A r \in 0..3 : prg[r + 1].nibble3 \in Nibble
    BY Shape
  <1>3. \A r \in 0..3 : WordAt(prg, r).nibble1 = 9
    BY <1>1, <1>2, Words
  <1>4. \A k \in 0..2 : code[k + 1].nibble1 \in {1, 2, 3, 4, 15}
    BY <1>1, ThreeWords
  <1>5. \A k \in 0..2 : WordAt(prg, 4 + k) = code[k + 1]
    <2>1. Len(code) = 3
      BY ThreeWords
    <2>2. \A k \in 0..(Len(code) - 1) : WordAt(prg, 4 + k) = code[k + 1]
      BY Words
    <2> QED BY <2>1, <2>2
  <1> HIDE DEF code
  <1>6. WordAt(prg, a).nibble1 \in {1, 2, 3, 4, 9, 15}
    <2>1. CASE a \in 0..3
      BY <1>3, <2>1
    <2>2. CASE a \in 4..6
      <3>1. (a - 4) \in 0..2 /\ 4 + (a - 4) = a
        BY <2>2
      <3> QED BY <1>4, <1>5, <3>1
    <2> QED BY <2>1, <2>2
  <1>7. Instr = WordAt(prg, a)
    BY DEF Instr, instructions, WordAt
  <1>8. Instr.nibble1 # 0 /\ Instr.nibble1 # 10 /\ Instr.nibble1 # 12
    BY <1>6, <1>7
  <1> QED BY <1>8 DEF StoresTo, Narrow

LEMMA InPlaceInit ==
    ASSUME Init
    PROVE  InPlace
  <1>1. PICK seed \in RandomSeeds : vm = vm_init(seed)
    BY DEF Init
  <1>2. vm.pc = 0 /\ vm.flags = {} /\ vm.mem[RD_FLAGS] = 0 /\ \A r \in Lo : vm.mem[r] = 0
    <2>1. vm.pc = 0 /\ vm.flags = {}
      BY <1>1 DEF vm_init
    <2>2. vm.mem = [a \in Byte |-> CASE a = SER_CTRL -> 3
                                     [] a = AUTO_OFF -> 2
                                     [] a = DIMMER   -> 15
                                     [] a = RANDOM   -> seed_to_nibble(seed)
                                     [] OTHER        -> 0]
      BY <1>1 DEF vm_init
    <2>3. /\ RD_FLAGS \in Byte /\ RD_FLAGS # SER_CTRL /\ RD_FLAGS # AUTO_OFF
          /\ RD_FLAGS # DIMMER /\ RD_FLAGS # RANDOM
      BY DEF Byte, RD_FLAGS, SER_CTRL, AUTO_OFF, DIMMER, RANDOM
    <2>4. vm.mem[RD_FLAGS] = 0
      BY <2>2, <2>3
    <2>5. \A r \in Lo : /\ r \in Byte /\ r # SER_CTRL /\ r # AUTO_OFF
                         /\ r # DIMMER /\ r # RANDOM
      BY DEF Lo, Byte, SER_CTRL, AUTO_OFF, DIMMER, RANDOM
    <2>6. \A r \in Lo : vm.mem[r] = 0
      BY <2>2, <2>5
    <2> QED BY <2>1, <2>4, <2>6
  <1>3. Loaded(prg, vm, vm.pc)
    BY <1>2 DEF Loaded, Lo
  <1>4. Placed(prg, vm)
    BY <1>2, <1>3 DEF Placed, AddAt, SubAt, ShiftAt, SwapAt, LogicAt, NegateAt, BranchAt, LoopAt
  <1>5. Mirrored
    BY <1>2 DEF Mirrored, Bit, Weight, V_FLAG
  <1> QED BY <1>4, <1>5 DEF InPlace

LEMMA InPlaceStep ==
    ASSUME Programs \subseteq AluPrograms(Nibble), TypeOK, TypeOK', InPlace, [Next]_vars
    PROVE  InPlace'
  <1>1. prg' = prg /\ Runs(prg, vm, vm') /\ prg \in AluPrograms(Nibble)
    BY Execution DEF TypeOK
  <1>2. vm \in VmState /\ vm' \in VmState
    BY DEF TypeOK
  <1>3. Placed(prg, vm)
    BY DEF InPlace
  <1>4. AddAt(prg, vm') /\ SubAt(prg, vm')
    BY <1>1, <1>2, <1>3, AddStep, SubStep DEF Placed
  <1>5. ShiftAt(prg, vm', ShiftCode, 0) /\ ShiftAt(prg, vm', OnesCode, 1)
    BY <1>1, <1>2, <1>3, ShiftStep DEF Placed
  <1>6. SwapAt(prg, vm') /\ LogicAt(prg, vm') /\ NegateAt(prg, vm')
    BY <1>1, <1>2, <1>3, SwapStep, LogicStep, NegateStep DEF Placed
  <1>7. (\A c \in 0..3 : BranchAt(prg, vm', c)) /\ LoopAt(prg, vm')
    BY <1>1, <1>2, <1>3, BranchStep, LoopStep DEF Placed
  <1>8. Rest(prg) \in {AddCode, SubCode} => Mirrored'
    <2> SUFFICES ASSUME Rest(prg) \in {AddCode, SubCode} PROVE Mirrored'
      OBVIOUS
    <2>1. vm.pc \in 0..6
      BY <1>3 DEF Placed, AddAt, SubAt
    <2>2. ~StoresTo(RD_FLAGS)
      BY <1>1, <2>1, StoresNothing
    <2> QED BY <2>2, MirroredStep DEF InPlace
  <1> QED BY <1>1, <1>4, <1>5, <1>6, <1>7, <1>8 DEF InPlace, Placed

LEMMA InPlaceAlways ==
    ASSUME Programs \subseteq AluPrograms(Nibble)
    PROVE  Spec => [](TypeOK /\ InPlace)
  <1>1. Init => InPlace
    BY InPlaceInit
  <1>2. TypeOK /\ TypeOK' /\ InPlace /\ [Next]_vars => InPlace'
    BY InPlaceStep
  <1> QED BY <1>1, <1>2, TypeCorrect, PTL DEF Spec

(* The operands are those that the program was written with.               *)
LEMMA Operands ==
    ASSUME prg \in AluPrograms(Nibble)
    PROVE  /\ A = Half(prg, 0) + 16 * Half(prg, 1)
           /\ B = Half(prg, 2) + 16 * Half(prg, 3)
           /\ Half(prg, 0) \in Nibble /\ Half(prg, 1) \in Nibble
           /\ Half(prg, 2) \in Nibble /\ Half(prg, 3) \in Nibble
           /\ Rest(prg) = LoopCode \/ (\E c \in 0..3 : Rest(prg) = BranchCode(c)) =>
                A = Half(prg, 0) /\ B = Half(prg, 2)
  <1>1. /\ 0 + 1 = 1 /\ 1 + 1 = 2 /\ 2 + 1 = 3 /\ 3 + 1 = 4
        /\ \A x \in Nibble : x + 16 * 0 = x
    BY DEF Nibble
  <1>2. /\ Half(prg, 0) = prg[1].nibble3 /\ Half(prg, 1) = prg[2].nibble3
        /\ Half(prg, 2) = prg[3].nibble3 /\ Half(prg, 3) = prg[4].nibble3
    BY <1>1 DEF Half
  <1>3. A = Half(prg, 0) + 16 * Half(prg, 1) /\ B = Half(prg, 2) + 16 * Half(prg, 3)
    BY <1>2 DEF A, B
  <1>4. /\ Half(prg, 0) \in Nibble /\ Half(prg, 1) \in Nibble
        /\ Half(prg, 2) \in Nibble /\ Half(prg, 3) \in Nibble
    BY Halves
  <1>5. ASSUME Rest(prg) = LoopCode \/ (\E c \in 0..3 : Rest(prg) = BranchCode(c))
        PROVE  A = Half(prg, 0) /\ B = Half(prg, 2)
    <2>1. Half(prg, 1) = 0 /\ Half(prg, 3) = 0
      BY <1>2, <1>5, Shape
    <2> QED BY <1>1, <1>3, <1>4, <2>1
  <1> QED BY <1>3, <1>4, <1>5
-----------------------------------------------------------------------------
(* What the halves make together.                                          *)

(* A sum or a difference of two bytes, back in eight bits.                 *)
LEMMA InEightBits ==
    /\ \A z \in 0..511 : (z % 256) = IF z > 255 THEN z - 256 ELSE z
    /\ \A z \in -255..255 : (z % 256) = IF z < 0 THEN z + 256 ELSE z
  <1>1. ASSUME NEW z \in 0..511
        PROVE  (z % 256) = IF z > 255 THEN z - 256 ELSE z
    OBVIOUS
  <1>2. ASSUME NEW z \in -255..255
        PROVE  (z % 256) = IF z < 0 THEN z + 256 ELSE z
    OBVIOUS
  <1> QED BY <1>1, <1>2

LEMMA ByteSum ==
    ASSUME NEW a \in Nibble, NEW b \in Nibble, NEW c \in Nibble, NEW d \in Nibble,
           NEW k \in 0..1, k = 1 <=> a + c > 15
    PROVE  LET x == a + 16 * b
               y == c + 16 * d
               t == b + d + k
               s == nibble_to_int8(b) + nibble_to_int8(d) + k
           IN  /\ Kept(a + c) + 16 * Kept(t) = (x + y) % 256
               /\ t > 15 <=> x + y > 255
               /\ (s < -8 \/ s > 7) <=> Signed8(x) + Signed8(y) \notin -128..127
  <1> DEFINE x == a + 16 * b
             y == c + 16 * d
             t == b + d + k
             s == nibble_to_int8(b) + nibble_to_int8(d) + k
  <1>1. x + y \in 0..511
    BY DEF Nibble
  <1>2. ((x + y) % 256) = IF x + y > 255 THEN (x + y) - 256 ELSE x + y
    <2> HIDE DEF x, y
    <2> QED BY <1>1, InEightBits
  <1>3. t > 15 <=> x + y > 255
    BY DEF Nibble
  <1>4. Kept(a + c) + 16 * Kept(t) = (x + y) % 256
    BY <1>2 DEF Nibble, Kept
  <1>5. (s < -8 \/ s > 7) <=> Signed8(x) + Signed8(y) \notin -128..127
    BY DEF Nibble, Signed8, nibble_to_int8
  <1> QED BY <1>3, <1>4, <1>5

LEMMA ByteDifference ==
    ASSUME NEW a \in Nibble, NEW b \in Nibble, NEW c \in Nibble, NEW d \in Nibble,
           NEW k \in 0..1, k = 0 <=> a >= c
    PROVE  LET x == a + 16 * b
               y == c + 16 * d
               t == b - d - k
               s == nibble_to_int8(b) - nibble_to_int8(d) - k
               r == Kept(a - c) + 16 * Kept(t)
           IN  /\ r = (x - y) % 256
               /\ t >= 0 <=> x >= y
               /\ ((s < -8 \/ s > 7) # (r >= 128)) <=> Signed8(x) < Signed8(y)
  <1> DEFINE x == a + 16 * b
             y == c + 16 * d
             t == (b - d) - k
             s == (nibble_to_int8(b) - nibble_to_int8(d)) - k
             r == Kept(a - c) + 16 * Kept(t)
  <1>1. x - y \in -255..255
    BY DEF Nibble
  <1>2. ((x - y) % 256) = IF x - y < 0 THEN (x - y) + 256 ELSE x - y
    <2> HIDE DEF x, y
    <2> QED BY <1>1, InEightBits
  <1>3. t >= 0 <=> x >= y
    BY DEF Nibble
  <1>4. r = (x - y) % 256
    BY <1>2 DEF Nibble, Kept
  <1>5. r >= 128 <=> Kept(t) >= 8
    BY DEF Nibble, Kept
  <1>6. Signed8(x) < Signed8(y) <=> s < 0
    BY DEF Nibble, Signed8, nibble_to_int8
  <1>7. (s < -8 \/ s > 7) # (Kept(t) >= 8) <=> s < 0
    BY DEF Nibble, Kept, nibble_to_int8
  <1> HIDE DEF r, s, x, y, t
  <1>8. ((s < -8 \/ s > 7) # (r >= 128)) <=> Signed8(x) < Signed8(y)
    BY <1>5, <1>6, <1>7
  <1> QED BY <1>3, <1>4, <1>8 DEF r, s, x, y, t

-----------------------------------------------------------------------------
(* ADD then ADC of any two bytes: the sum modulo 256, its carry in C and   *)
(* its signed overflow in V and in RD_FLAGS.                               *)
THEOREM AddsBytes ==
    ASSUME Programs \subseteq AluPrograms(Nibble)
    PROVE  Spec => []SumOfHalves
  <1>1. ASSUME TypeOK, InPlace PROVE SumOfHalves
    <2> SUFFICES ASSUME Done(AddCode)
                 PROVE  /\ Result = (A + B) % 256
                        /\ C <=> A + B > 255
                        /\ V <=> Signed8(A) + Signed8(B) \notin -128..127
                        /\ Mirrored
      BY DEF SumOfHalves
    <2> DEFINE a == Half(prg, 0)
               b == Half(prg, 1)
               c == Half(prg, 2)
               d == Half(prg, 3)
               k == CarryOf(prg)
               t == b + d + k
               s == nibble_to_int8(b) + nibble_to_int8(d) + k
    <2>1. prg \in AluPrograms(Nibble)
      BY <1>1 DEF TypeOK
    <2>2. Rest(prg) = AddCode /\ vm.pc = 6
      BY ThreeWords DEF Done, Rest
    <2>3. /\ a \in Nibble /\ b \in Nibble /\ c \in Nibble /\ d \in Nibble
          /\ A = a + 16 * b /\ B = c + 16 * d
      BY <2>1, Operands
    <2>4. AddAt(prg, vm) /\ Mirrored
      BY <1>1, <2>2 DEF InPlace, Placed
    <2>5. /\ vm.mem[0] = Kept(a + c) /\ vm.mem[1] = Kept(t)
          /\ "C" \in vm.flags <=> t > 15
          /\ "V" \in vm.flags <=> s < -8 \/ s > 7
      BY <2>2, <2>4 DEF AddAt
    <2>6. k \in 0..1 /\ (k = 1 <=> a + c > 15)
      BY DEF CarryOf
    <2> HIDE DEF a, b, c, d, k
    <2>7. /\ Kept(a + c) + 16 * Kept(t) = (A + B) % 256
          /\ t > 15 <=> A + B > 255
          /\ (s < -8 \/ s > 7) <=> Signed8(A) + Signed8(B) \notin -128..127
      BY <2>3, <2>6, ByteSum
    <2> QED BY <2>4, <2>5, <2>7 DEF Result, C, V
  <1> QED BY <1>1, InPlaceAlways, PTL

(* SUB then SBB of any two bytes: the difference modulo 256, C says that   *)
(* nothing was borrowed, and V tells whether to believe the sign.          *)
THEOREM SubtractsBytes ==
    ASSUME Programs \subseteq AluPrograms(Nibble)
    PROVE  Spec => []DifferenceOfHalves
  <1>1. ASSUME TypeOK, InPlace PROVE DifferenceOfHalves
    <2> SUFFICES ASSUME Done(SubCode)
                 PROVE  /\ Result = (A - B) % 256
                        /\ C <=> A >= B
                        /\ V # (Result >= 128) <=> Signed8(A) < Signed8(B)
                        /\ Mirrored
      BY DEF DifferenceOfHalves
    <2> DEFINE a == Half(prg, 0)
               b == Half(prg, 1)
               c == Half(prg, 2)
               d == Half(prg, 3)
               k == BorrowOf(prg)
               t == (b - d) - k
               s == (nibble_to_int8(b) - nibble_to_int8(d)) - k
               r == Kept(a - c) + 16 * Kept(t)
    <2>1. prg \in AluPrograms(Nibble)
      BY <1>1 DEF TypeOK
    <2>2. Rest(prg) = SubCode /\ vm.pc = 6
      BY ThreeWords DEF Done, Rest
    <2>3. /\ a \in Nibble /\ b \in Nibble /\ c \in Nibble /\ d \in Nibble
          /\ A = a + 16 * b /\ B = c + 16 * d
      BY <2>1, Operands
    <2>4. SubAt(prg, vm) /\ Mirrored
      BY <1>1, <2>2 DEF InPlace, Placed
    <2>5. /\ vm.mem[0] = Kept(a - c) /\ vm.mem[1] = Kept(t)
          /\ "C" \in vm.flags <=> t >= 0
          /\ "V" \in vm.flags <=> s < -8 \/ s > 7
      BY <2>2, <2>4 DEF SubAt
    <2>6. k \in 0..1 /\ (k = 0 <=> a >= c)
      BY DEF BorrowOf
    <2> HIDE DEF a, b, c, d, k
    <2>7. /\ r = (A - B) % 256
          /\ t >= 0 <=> A >= B
          /\ ((s < -8 \/ s > 7) # (r >= 128)) <=> Signed8(A) < Signed8(B)
      BY <2>3, <2>6, ByteDifference
    <2>8. Result = r /\ (V <=> (s < -8 \/ s > 7)) /\ (C <=> t >= 0)
      BY <2>5 DEF Result, C, V
    <2>9. V \in BOOLEAN
      BY DEF V
    <2> HIDE DEF r, s, t
    <2>10. V # (Result >= 128) <=> Signed8(A) < Signed8(B)
      <3>1. CASE s < -8 \/ s > 7
        BY <2>7, <2>8, <2>9, <3>1
      <3>2. CASE ~(s < -8 \/ s > 7)
        BY <2>7, <2>8, <2>9, <3>2
      <3> QED BY <3>1, <3>2
    <2>11. Result = (A - B) % 256 /\ (C <=> A >= B)
      BY <2>7, <2>8
    <2> QED BY <2>4, <2>10, <2>11
  <1> QED BY <1>1, InPlaceAlways, PTL

(* The halves of a byte, shifted.                                          *)
LEMMA ByteShift ==
    ASSUME NEW a \in Nibble, NEW b \in Nibble, NEW in \in 0..1
    PROVE  LET x == a + 16 * b
           IN  /\ (a \div 2 + 8 * (b % 2)) + 16 * (b \div 2 + 8 * in) = 128 * in + x \div 2
               /\ a % 2 = x % 2
  <1> DEFINE p == a \div 2
             q == b \div 2
             x == a + 16 * b
  <1>1. /\ p \in 0..7 /\ (a % 2) \in 0..1 /\ a = 2 * p + (a % 2)
        /\ q \in 0..7 /\ (b % 2) \in 0..1 /\ b = 2 * q + (b % 2)
    BY DEF Nibble
  <1>2. x = 2 * ((p + 8 * (b % 2)) + 16 * q) + (a % 2)
    BY <1>1
  <1>3. \A y \in 0..127, e \in 0..1 : (2 * y + e) \div 2 = y /\ ((2 * y + e) % 2) = e
    OBVIOUS
  <1>4. (p + 8 * (b % 2)) + 16 * q \in 0..127
    BY <1>1
  <1>5. x \div 2 = (p + 8 * (b % 2)) + 16 * q /\ (x % 2) = (a % 2)
    BY <1>1, <1>2, <1>3, <1>4
  <1> QED BY <1>1, <1>5

(* RRC of the high half then of the low half shifts any byte right, a      *)
(* clear or a set carry coming in from AND or OR.                          *)
THEOREM ShiftsBytes ==
    ASSUME Programs \subseteq AluPrograms(Nibble)
    PROVE  Spec => []ShiftOfHalves
  <1>1. ASSUME TypeOK, InPlace PROVE ShiftOfHalves
    <2> DEFINE a == Half(prg, 0)
               b == Half(prg, 1)
    <2>1. prg \in AluPrograms(Nibble)
      BY <1>1 DEF TypeOK
    <2>2. a \in Nibble /\ b \in Nibble /\ A = a + 16 * b
      BY <2>1, Operands
    <2>3. ShiftAt(prg, vm, ShiftCode, 0) /\ ShiftAt(prg, vm, OnesCode, 1)
      BY <1>1 DEF InPlace, Placed
    <2>4. ASSUME NEW code, NEW in \in 0..1, ShiftAt(prg, vm, code, in),
                 Rest(prg) = code, vm.pc = 7
          PROVE  Result = 128 * in + A \div 2 /\ (C <=> A % 2 = 1)
      <3>1. /\ vm.mem[0] = a \div 2 + 8 * (b % 2) /\ vm.mem[1] = b \div 2 + 8 * in
            /\ "C" \in vm.flags <=> a % 2 = 1
        BY <2>4 DEF ShiftAt
      <3> HIDE DEF a, b
      <3>2. /\ (a \div 2 + 8 * (b % 2)) + 16 * (b \div 2 + 8 * in) = 128 * in + A \div 2
            /\ a % 2 = A % 2
        BY <2>2, <2>4, ByteShift
      <3> QED BY <3>1, <3>2 DEF Result, C
    <2>5. A \div 2 \in Int
      BY <2>2 DEF Nibble
    <2>6. ASSUME Done(ShiftCode) PROVE Result = A \div 2 /\ (C <=> A % 2 = 1)
      <3>1. Rest(prg) = ShiftCode /\ vm.pc = 7
        BY <2>6, FourWords DEF Done, Rest
      <3>2. Result = 128 * 0 + A \div 2 /\ (C <=> A % 2 = 1)
        BY <2>3, <2>4, <3>1
      <3> QED BY <2>5, <3>2
    <2>7. ASSUME Done(OnesCode) PROVE Result = 128 + A \div 2 /\ (C <=> A % 2 = 1)
      <3>1. Rest(prg) = OnesCode /\ vm.pc = 7
        BY <2>7, FourWords DEF Done, Rest
      <3>2. Result = 128 * 1 + A \div 2 /\ (C <=> A % 2 = 1)
        BY <2>3, <2>4, <3>1
      <3> QED BY <2>5, <3>2
    <2> QED BY <2>6, <2>7 DEF ShiftOfHalves
  <1> QED BY <1>1, InPlaceAlways, PTL

(* The low nibbles of two bytes, and what is kept of their sum and of a    *)
(* complement plus one.                                                    *)
LEMMA LowNibbles ==
    ASSUME NEW a \in Nibble, NEW b \in Nibble, NEW c \in Nibble, NEW d \in Nibble
    PROVE  LET x == a + 16 * b
               y == c + 16 * d
           IN  /\ x % 16 = a /\ y % 16 = c
               /\ Kept(a + c) = (x + y) % 16
               /\ Kept(16 - a) = (0 - x) % 16
  <1> DEFINE x == a + 16 * b
             y == c + 16 * d
  <1>1. ASSUME NEW e \in Nibble, NEW i \in Int PROVE (16 * i + e) % 16 = e
    BY <1>1 DEF Nibble
  <1>2. /\ Kept(a + c) \in Nibble /\ Kept(16 - a) \in Nibble
        /\ x = 16 * b + a /\ y = 16 * d + c
    BY DEF Nibble, Kept
  <1>3. \E i \in Int : x + y = 16 * i + Kept(a + c)
    <2>1. CASE a + c > 15
      <3>1. x + y = 16 * (b + d + 1) + Kept(a + c) /\ b + d + 1 \in Int
        BY <2>1 DEF Nibble, Kept
      <3> QED BY <3>1
    <2>2. CASE a + c <= 15
      <3>1. x + y = 16 * (b + d) + Kept(a + c) /\ b + d \in Int
        BY <2>2 DEF Nibble, Kept
      <3> QED BY <3>1
    <2> QED BY <2>1, <2>2 DEF Nibble
  <1>4. \E i \in Int : 0 - x = 16 * i + Kept(16 - a)
    <2>1. CASE a = 0
      <3>1. 0 - x = 16 * (0 - b) + Kept(16 - a) /\ 0 - b \in Int
        BY <2>1 DEF Nibble, Kept
      <3> QED BY <3>1
    <2>2. CASE a # 0
      <3>1. 0 - x = 16 * ((0 - b) - 1) + Kept(16 - a) /\ (0 - b) - 1 \in Int
        BY <2>2 DEF Nibble, Kept
      <3> QED BY <3>1
    <2> QED BY <2>1, <2>2
  <1>5. b \in Int /\ d \in Int
    BY DEF Nibble
  <1> HIDE DEF x, y
  <1>6. x % 16 = a /\ y % 16 = c
    BY <1>1, <1>2, <1>5
  <1>7. Kept(a + c) = (x + y) % 16 /\ Kept(16 - a) = (0 - x) % 16
    BY <1>1, <1>2, <1>3, <1>4
  <1> QED BY <1>6, <1>7 DEF x, y

(* Three XORs exchange any two registers, AND and OR of two add up to      *)
(* their sum, and the complement plus the C that XOR with a literal toggles *)
(* is the negative.                                                        *)
THEOREM LogicAgrees ==
    ASSUME Programs \subseteq AluPrograms(Nibble)
    PROVE  Spec => []LogicOfHalves
  <1>1. ASSUME TypeOK, InPlace PROVE LogicOfHalves
    <2> DEFINE a == Half(prg, 0)
               c == Half(prg, 2)
    <2>1. prg \in AluPrograms(Nibble)
      BY <1>1 DEF TypeOK
    <2>2. /\ (A % 16) = a /\ (B % 16) = c
          /\ Kept(a + c) = (A + B) % 16 /\ Kept(16 - a) = (0 - A) % 16
      BY <2>1, Operands, LowNibbles
    <2>3. NegateAt(prg, vm) /\ SwapAt(prg, vm) /\ LogicAt(prg, vm)
      BY <1>1 DEF InPlace, Placed
    <2>4. ASSUME Done(NegateCode) PROVE vm.mem[0] = (0 - A) % 16
      <3>1. Rest(prg) = NegateCode /\ vm.pc = 7
        BY <2>4, FourWords DEF Done, Rest
      <3> QED BY <2>2, <2>3, <3>1 DEF NegateAt
    <2>5. ASSUME Done(SwapCode) PROVE vm.mem[0] = B % 16 /\ vm.mem[2] = A % 16
      <3>1. Rest(prg) = SwapCode /\ vm.pc = 7
        BY <2>5, FourWords DEF Done, Rest
      <3> QED BY <2>2, <2>3, <3>1 DEF SwapAt
    <2>6. ASSUME Done(LogicCode) PROVE vm.mem[0] = (A + B) % 16
      <3>1. Rest(prg) = LogicCode /\ vm.pc = 8
        BY <2>6, MoreWords DEF Done, Rest
      <3> QED BY <2>2, <2>3, <3>1 DEF LogicAt
    <2> QED BY <2>4, <2>5, <2>6 DEF LogicOfHalves
  <1> QED BY <1>1, InPlaceAlways, PTL

(* After a SUB of any two nibbles, SKIP on C, NC, Z and NZ with a count of *)
(* zero skips its four instructions just when >=, <, = and # hold.         *)
THEOREM SkipsCompare ==
    ASSUME Programs \subseteq AluPrograms(Nibble)
    PROVE  Spec => []BranchOnDifference
  <1>1. ASSUME TypeOK, InPlace PROVE BranchOnDifference
    <2> SUFFICES ASSUME NEW c \in 0..3, Rest(prg) = BranchCode(c), vm.pc \in {9, 10}
                 PROVE  vm.pc = 10 <=> Asked(c, A, B)
      BY DEF BranchOnDifference, Rest, Asked
    <2>1. prg \in AluPrograms(Nibble)
      BY <1>1 DEF TypeOK
    <2>2. A = Half(prg, 0) /\ B = Half(prg, 2)
      BY <2>1, Operands
    <2>3. BranchAt(prg, vm, c)
      BY <1>1 DEF InPlace, Placed
    <2>4. /\ vm.pc = 9 => ~Asked(c, A, B)
          /\ vm.pc = 10 => Asked(c, A, B)
      BY <2>2, <2>3 DEF BranchAt
    <2> QED BY <2>4
  <1> QED BY <1>1, InPlaceAlways, PTL

(* A loop closed by DSZ runs as often as its counter says, sixteen times   *)
(* for zero: its body has counted as far, and DSZ has left the flags alone. *)
THEOREM LoopsCount ==
    ASSUME Programs \subseteq AluPrograms(Nibble)
    PROVE  Spec => []LoopCounts
  <1>1. ASSUME TypeOK, InPlace PROVE LoopCounts
    <2> SUFFICES ASSUME Done(LoopCode)
                 PROVE  /\ vm.mem[0] = 0 /\ vm.mem[5] = A
                        /\ C <=> A = 0
                        /\ Z <=> A = 0
      BY DEF LoopCounts
    <2>1. prg \in AluPrograms(Nibble) /\ vm \in VmState
      BY <1>1 DEF TypeOK
    <2>2. Rest(prg) = LoopCode /\ vm.pc = 7
      BY FourWords DEF Done, Rest
    <2>3. A = Half(prg, 0) /\ vm.mem[5] \in Nibble
      <3>1. 5 \in Lo
        BY DEF Lo
      <3> QED BY <2>1, <2>2, <3>1, Operands, MemType, LowRegisters
    <2>4. LoopAt(prg, vm)
      BY <1>1 DEF InPlace, Placed
    <2>5. /\ vm.mem[0] = 0 /\ A = Kept(vm.mem[0] + vm.mem[5])
          /\ ("C" \in vm.flags <=> vm.mem[5] = 0) /\ ("Z" \in vm.flags <=> vm.mem[5] = 0)
      BY <2>2, <2>3, <2>4 DEF LoopAt
    <2>6. Kept(0 + vm.mem[5]) = vm.mem[5]
      BY <2>3 DEF Nibble, Kept
    <2> QED BY <2>5, <2>6 DEF C, Z
  <1> QED BY <1>1, InPlaceAlways, PTL
=============================================================================
