-------------------------------- MODULE MCAlu --------------------------------
(***************************************************************************)
(* Alu on the operands whose halves are zero, one, the two sides of the    *)
(* sign, and all ones, undisturbed.                                        *)
(***************************************************************************)
EXTENDS Alu

MCPrograms == AluPrograms({0, 1, 7, 8, 15})
MCSeeds == {seed_from_nibble(0)}
MCSyncs == {FALSE}
MCKeys  == {}
MCPageMoves == {}
=============================================================================
