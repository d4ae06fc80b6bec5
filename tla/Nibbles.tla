------------------------------- MODULE Nibbles -------------------------------
(***************************************************************************)
(* Arithmetic of the machine's words.  A memory word is a nibble held in a *)
(* uint8_t; the C operators &, |, ^, << on it are given by its four bits.  *)
(***************************************************************************)
EXTENDS Integers

Nibble == 0..15
Byte   == 0..255

(* The value of bit position k: 1 << k.                                    *)
Weight(k) == IF k = 0 THEN 1 ELSE IF k = 1 THEN 2 ELSE IF k = 2 THEN 4 ELSE 8

Bit(n, k) == (n \div Weight(k)) % 2

(* The nibble whose bits are a, b, c, d, lowest first.                     *)
FromBits(a, b, c, d) == a + 2 * b + 4 * c + 8 * d

AndBit(p, q) == IF p = 1 /\ q = 1 THEN 1 ELSE 0
OrBit(p, q)  == IF p = 1 \/ q = 1 THEN 1 ELSE 0
XorBit(p, q) == IF p = q THEN 0 ELSE 1

And4(m, n) == FromBits(AndBit(Bit(m, 0), Bit(n, 0)), AndBit(Bit(m, 1), Bit(n, 1)),
                       AndBit(Bit(m, 2), Bit(n, 2)), AndBit(Bit(m, 3), Bit(n, 3)))
Or4(m, n)  == FromBits(OrBit(Bit(m, 0), Bit(n, 0)), OrBit(Bit(m, 1), Bit(n, 1)),
                       OrBit(Bit(m, 2), Bit(n, 2)), OrBit(Bit(m, 3), Bit(n, 3)))
Xor4(m, n) == FromBits(XorBit(Bit(m, 0), Bit(n, 0)), XorBit(Bit(m, 1), Bit(n, 1)),
                       XorBit(Bit(m, 2), Bit(n, 2)), XorBit(Bit(m, 3), Bit(n, 3)))

(* n |= 1 << k and n &= ~(1 << k).                                         *)
WithBit(n, k)    == IF Bit(n, k) = 1 THEN n ELSE n + Weight(k)
WithoutBit(n, k) == IF Bit(n, k) = 1 THEN n - Weight(k) ELSE n

(* The 8-bit results of ALU operations: uint8_t arithmetic wraps.          *)
UInt8(x)  == x % 256

(* A program_addr_t, the type of the program counter, has sixteen.         *)
UINT16_MAX == 65535
UInt16(x)  == x % 65536

(* The two nibbles of a byte.                                              *)
LowNibble(b)  == b % 16
HighNibble(b) == (b \div 16) % 16

Xor8(m, n) == 16 * Xor4(HighNibble(m), HighNibble(n)) + Xor4(LowNibble(m), LowNibble(n))
==============================================================================
