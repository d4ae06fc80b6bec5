-------------------------------- MODULE MCFlow --------------------------------
(***************************************************************************)
(* Vm on programs that call, return, jump, skip and store to the stack:    *)
(* every program of three instructions over Alphabet, and a few longer     *)
(* ones for the ends of the stack and of program memory.                   *)
(***************************************************************************)
EXTENDS Vm

W(a, b, c) == [nibble1 |-> a, nibble2 |-> b, nibble3 |-> c]
Stay       == W(15, 15, 15)                                \* JR -1

Alphabet == {
    W(9, 12, 1),    \* MOV JSR,1
    W(9, 13, 0),    \* MOV PCL,0
    W(14, 15, 15),  \* MOV PC,0xff
    W(0, 2, 12),    \* INC JSR
    W(0, 3, 12),    \* DEC JSR
    W(0, 2, 13),    \* INC PCL
    W(0, 3, 13),    \* DEC PCL
    W(0, 14, 0),    \* RET R0,0
    W(0, 14, 9),    \* RET R0,9
    W(0, 4, 0),     \* DSZ R0
    W(0, 15, 13),   \* SKIP NZ,1
    W(15, 15, 13),  \* JR -3
    W(0, 8, 0),     \* EXR 0
    W(0, 10, 12),   \* BSET OUT,0
    W(12, 1, 0),    \* MOV [0x10],R0
    W(10, 10, 11) } \* MOV [R10:IN],R0

(* The self-jumps after a short program catch jumps to small addresses.    *)
Filled(code) == code \o [i \in 1..(20 - Len(code)) |-> Stay]
Short == {Filled(<<i, j, k>>) : i \in Alphabet, j \in Alphabet, k \in Alphabet}

(* Five calls, one inside the other, each with an exchange of registers.   *)
Nested == Filled(<<W(9, 12, 2), Stay, W(9, 12, 4), W(0, 14, 1), W(9, 12, 6),
                   W(0, 14, 2), W(9, 12, 8), W(0, 14, 3), W(9, 12, 10), W(0, 14, 4),
                   W(9, 10, 3), W(0, 8, 10), W(0, 14, 5)>>)

(* A call from the last word of program memory returns to the first.       *)
LastWord == [i \in 1..PROGRAM_MEMORY_SIZE |->
                CASE i = 1    -> W(14, 15, 15)  \* MOV PC,0xff
                  [] i = 2    -> W(9, 13, 15)   \* MOV PCL,15
                  [] i = 4096 -> W(9, 12, 2)    \* MOV JSR,2
                  [] i = 4083 -> W(0, 14, 7)    \* RET R0,7
                  [] OTHER    -> Stay]

(* Each byte of the stack page overwritten through a pointer while a call  *)
(* is open, the pointer held in R2:R3.                                     *)
Smash(n) == Filled(<<W(9, 2, 1), W(9, 3, n), W(9, 12, 4), Stay,
                     W(9, 0, 6), W(10, 2, 3), W(0, 14, 0)>>)

MCPrograms == Short \cup {Nested, LastWord} \cup {Smash(n) : n \in Nibble}

(* Beyond its program, program memory is 4096 times the same zero word: a  *)
(* program that runs into it is followed for CodeEnd words and no further. *)
CodeEnd  == 24
NearCode == vm.pc \notin (CodeEnd + 1)..4075

MCSeeds == {seed_from_nibble(0)}
MCSyncs == {FALSE}
MCKeys  == {}
MCPageMoves == {}
=============================================================================
