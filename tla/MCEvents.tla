------------------------------- MODULE MCEvents -------------------------------
(***************************************************************************)
(* Vm on programs that talk to its devices through the special function    *)
(* registers, while keys are pressed and released, the page is moved and   *)
(* the sync timer elapses at any time.                                     *)
(***************************************************************************)
EXTENDS Vm

W(a, b, c) == [nibble1 |-> a, nibble2 |-> b, nibble3 |-> c]
Again(n)   == W(15, 15, 16 - n)                            \* JR -n

(* MOV R0,[0xfc] for ever, and MOV R0,[0xf4] for ever.                     *)
PollKeys == <<W(13, 15, 12), Again(2)>>
PollSync == <<W(13, 15, 4), Again(2)>>

(* Overflows back and forth between the reads of both.                     *)
PollBoth == <<W(9, 0, 7), W(0, 1, 1), W(13, 15, 4), W(9, 0, 1), W(0, 1, 1),
              W(13, 15, 12), Again(7)>>

(* Reads KEY_STATUS through the pointer R1:R2, then by its address.        *)
Indirect == <<W(9, 1, 15), W(9, 2, 12), W(11, 1, 2), W(13, 15, 12), Again(3)>>

(* Stores to KEY_STATUS and RD_FLAGS, by address and through R1:R2.        *)
Stores == <<W(9, 1, 15), W(12, 15, 12), W(12, 15, 4), W(9, 2, 4), W(0, 13, 0),
            W(10, 1, 2), Again(6)>>

(* Tests the pins at IN, turns to IN_B, clears IN_B, tests there, sets,    *)
(* toggles and clears OUT_B, and turns back.                               *)
Ports == <<W(9, 11, 0), W(0, 9, 12), W(9, 0, 2), W(12, 15, 3), W(9, 0, 0),
           W(12, 15, 11), W(0, 9, 15), W(0, 10, 15), W(0, 12, 14), W(0, 11, 15),
           W(12, 15, 3), W(0, 9, 13), W(0, 9, 1), Again(13)>>

(* Seeds with 3 and reads twice, seeds at random and reads, then stores    *)
(* through R1:R1, which does not seed.                                     *)
Random == <<W(9, 0, 3), W(12, 15, 15), W(13, 15, 15), W(13, 15, 15), W(9, 0, 15),
            W(12, 15, 15), W(13, 15, 15), W(9, 1, 15), W(10, 1, 1), Again(10)>>

MCPrograms == {PollKeys, PollSync, PollBoth, Indirect, Stores, Ports, Random}
MCSeeds == {[b0 |-> 1, b1 |-> 2, b2 |-> 3, b3 |-> 4], [b0 |-> 255, b1 |-> 128, b2 |-> 0, b3 |-> 77]}
MCSyncs == BOOLEAN
MCKeys  == {0, 13}
MCPageMoves == {-1, 1}
NoPageMoves == {}

-----------------------------------------------------------------------------
(* A program that goes on reading KEY_STATUS finds every key press in R0,  *)
(* and one that goes on reading RD_FLAGS every sync, whatever else goes on *)
(* and although each press may follow on the heels of the last.            *)
PressSeen ==
    (prg \in {PollKeys, PollBoth} /\ JustPress) ~> Bit(vm.mem[R0], JUST_PRESS) = 1
SyncSeen ==
    (prg \in {PollSync, PollBoth} /\ UserSync) ~> Bit(vm.mem[R0], USER_SYNC) = 1
=============================================================================
