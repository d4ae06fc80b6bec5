--------------------------------- MODULE Rng ---------------------------------
(***************************************************************************)
(* The pseudorandom generator of rng.c: a 32-bit linear congruential       *)
(* generator whose state is scrambled into one nibble.  The 32-bit state   *)
(* is a record of its four bytes, b0 the lowest, so that every product     *)
(* stays within TLC's integers.                                            *)
(***************************************************************************)
EXTENDS Nibbles

RNG_USE_RANDOM_SEED == 15

Seed == [b0: Byte, b1: Byte, b2: Byte, b3: Byte]

(* 0x41c64e6d and 0x6073: the constants of firmware revision 4.            *)
RNG_A == [b0 |-> 109, b1 |-> 78, b2 |-> 198, b3 |-> 65]
RNG_C == [b0 |-> 115, b1 |-> 96, b2 |-> 0, b3 |-> 0]

(* Expands a nibble to 32 bits by repeating it eight times.                *)
seed_from_nibble(n) == [b0 |-> 17 * n, b1 |-> 17 * n, b2 |-> 17 * n, b3 |-> 17 * n]

(* Scrambles 32 bits to a nibble: fold the halves with ^, add the two      *)
(* bytes of the fold modulo 256, and fold the nibbles of the sum with ^.   *)
seed_to_nibble(s) ==
    LET sum == UInt8(Xor8(s.b3, s.b1) + Xor8(s.b2, s.b0))
    IN  Xor4(HighNibble(sum), LowNibble(sum))

(* RNG_A * s + RNG_C modulo 2^32, one byte column at a time.               *)
next_seed(s) ==
    LET A  == RNG_A
        t0 == A.b0 * s.b0 + RNG_C.b0
        t1 == A.b0 * s.b1 + A.b1 * s.b0 + RNG_C.b1 + t0 \div 256
        t2 == A.b0 * s.b2 + A.b1 * s.b1 + A.b2 * s.b0 + RNG_C.b2 + t1 \div 256
        t3 == A.b0 * s.b3 + A.b1 * s.b2 + A.b2 * s.b1 + A.b3 * s.b0 + RNG_C.b3
              + t2 \div 256
    IN  [b0 |-> t0 % 256, b1 |-> t1 % 256, b2 |-> t2 % 256, b3 |-> t3 % 256]

(* The seed that set_rng_seed installs for nibble n; `fresh` stands for    *)
(* the four bytes getrandom() delivers.                                    *)
set_rng_seed(n, fresh) == IF n = RNG_USE_RANDOM_SEED THEN fresh ELSE seed_from_nibble(n)
==============================================================================
