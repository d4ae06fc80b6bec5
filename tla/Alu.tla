--------------------------------- MODULE Alu ---------------------------------
(***************************************************************************)
(* Vm on programs that compute with eight bits in two nibbles: A is in     *)
(* R1:R0, B in R3:R2, and the carry links the two halves.  Each program    *)
(* loads its operands, computes, and stays where it is.                    *)
(***************************************************************************)
EXTENDS Vm

W(a, b, c) == [nibble1 |-> a, nibble2 |-> b, nibble3 |-> c]
Stay       == W(15, 15, 15)                                \* JR -1

Load(a0, a1, b0, b1) == <<W(9, 0, a0), W(9, 1, a1), W(9, 2, b0), W(9, 3, b1)>>
Then(a0, a1, b0, b1, code) == Load(a0, a1, b0, b1) \o code

AddCode   == <<W(1, 0, 2), W(2, 1, 3), Stay>>              \* ADD R0,R2  ADC R1,R3
SubCode   == <<W(3, 0, 2), W(4, 1, 3), Stay>>              \* SUB R0,R2  SBB R1,R3
ShiftCode == <<W(0, 6, 15), W(0, 13, 1), W(0, 13, 0), Stay>>  \* AND R0,15 RRC RRC
OnesCode  == <<W(0, 5, 0), W(0, 13, 1), W(0, 13, 0), Stay>>   \* OR R0,0  RRC RRC
SwapCode  == <<W(7, 0, 2), W(7, 2, 0), W(7, 0, 2), Stay>>  \* three XOR
LogicCode == <<W(8, 4, 0), W(6, 4, 2), W(5, 0, 2), W(1, 0, 4), Stay>>
                                    \* R4 := R0, AND R4,R2  OR R0,R2  ADD R0,R4
NegateCode == <<W(0, 6, 15), W(0, 7, 15), W(2, 0, 4), Stay>>
                                    \* AND R0,15  XOR R0,15  ADC R0,R4
Codes == {AddCode, SubCode, ShiftCode, OnesCode, SwapCode, LogicCode, NegateCode}

(* SUB R0,R2  SKIP c,4: the last word when the skip is taken, and the one  *)
(* before it when it is not.                                               *)
BranchCode(c) == <<W(3, 0, 2), W(0, 15, 4 * c), W(9, 4, 1), W(9, 5, 1), W(9, 6, 1),
                   Stay, Stay>>
(* INC R5 as often as DSZ R0 lets it, skipping the JR back at the end.     *)
LoopCode == <<W(0, 2, 5), W(0, 4, 0), W(15, 15, 13), Stay>>

(* Each code that works on bytes after any two operands with their halves  *)
(* in S, and each that works on nibbles after any two nibbles.             *)
AluPrograms(S) ==
    {Then(a0, a1, b0, b1, code) : a0 \in S, a1 \in S, b0 \in S, b1 \in S, code \in Codes}
    \cup {Then(a0, 0, b0, 0, BranchCode(c)) : a0 \in Nibble, b0 \in Nibble, c \in 0..3}
    \cup {Then(a0, 0, 0, 0, LoopCode) : a0 \in Nibble}

-----------------------------------------------------------------------------
A == prg[1].nibble3 + 16 * prg[2].nibble3
B == prg[3].nibble3 + 16 * prg[4].nibble3
Signed8(x) == IF x < 128 THEN x ELSE x - 256
Result == vm.mem[0] + 16 * vm.mem[1]
C == "C" \in vm.flags
V == "V" \in vm.flags
Z == "Z" \in vm.flags

Done(code) == SubSeq(prg, 5, Len(prg)) = code /\ vm.pc = 3 + Len(code)

(* ADD then ADC adds eight-bit numbers: the sum modulo 256, C its unsigned *)
(* carry, V its signed overflow, in the flags and in RD_FLAGS.             *)
SumOfHalves ==
    Done(AddCode) =>
        /\ Result = (A + B) % 256
        /\ C <=> A + B > 255
        /\ V <=> Signed8(A) + Signed8(B) \notin -128..127
        /\ Mirrored

(* SUB then SBB subtracts them: C says A >= B without a sign, and V tells  *)
(* whether the sign of the result may be trusted to compare with one.      *)
DifferenceOfHalves ==
    Done(SubCode) =>
        /\ Result = (A - B) % 256
        /\ C <=> A >= B
        /\ V # (Result >= 128) <=> Signed8(A) < Signed8(B)
        /\ Mirrored

(* RRC of the high half then of the low half shifts eight bits: AND with a *)
(* literal starts it with a clear carry, OR with a set one, and the bit    *)
(* that falls out is in C.                                                 *)
ShiftOfHalves ==
    /\ Done(ShiftCode) => Result = A \div 2 /\ (C <=> A % 2 = 1)
    /\ Done(OnesCode)  => Result = 128 + A \div 2 /\ (C <=> A % 2 = 1)

(* Three XORs exchange two registers, (a AND b) + (a OR b) = a + b, and    *)
(* the complement added to the C that XOR with a literal has toggled up is *)
(* the negative.                                                           *)
LogicOfHalves ==
    /\ Done(NegateCode) => vm.mem[0] = (0 - A) % 16
    /\ Done(SwapCode)  => vm.mem[0] = B % 16 /\ vm.mem[2] = A % 16
    /\ Done(LogicCode) => vm.mem[0] = (A + B) % 16

(* After a SUB the skips on C, NC, Z and NZ compare without a sign, and a  *)
(* count of zero skips four instructions.                                  *)
BranchOnDifference ==
    \A c \in 0..3 : SubSeq(prg, 5, Len(prg)) = BranchCode(c) /\ vm.pc \in {9, 10} =>
        vm.pc = 10 <=> CASE c = 0 -> A >= B [] c = 1 -> A < B
                         [] c = 2 -> A = B  [] c = 3 -> A # B

(* A loop closed by DSZ runs as often as its counter says, sixteen times   *)
(* for zero, and leaves C and Z to the loop's body.                        *)
LoopCounts ==
    Done(LoopCode) =>
        /\ vm.mem[0] = 0 /\ vm.mem[5] = A
        /\ C <=> A = 0
        /\ Z <=> A = 0
=============================================================================
