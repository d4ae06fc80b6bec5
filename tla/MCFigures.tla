------------------------------ MODULE MCFigures ------------------------------
(***************************************************************************)
(* What the status panel computes: Clock with seconds of six units,        *)
(* microseconds of two, and words of a size that just holds the times      *)
(* there are; and Disassembler on every instruction and on some words of a *)
(* file that are wider than one.  Neither depends on the other, so that    *)
(* the rows are shown at one time only and time stands still meanwhile.    *)
(***************************************************************************)
EXTENDS Clock, Disassembler

MCPeriods == 0..12
MCWords   == (0..4095) \cup (61440..61455)

FiguresInit == Init /\ RowInit
FiguresNext ==
    \/ row = NoRow /\ Next /\ UNCHANGED row
    \/ ~started /\ Total(monotonic) = 0 /\ RowNext /\ UNCHANGED vars
FiguresSpec == FiguresInit /\ [][FiguresNext]_<<vars, row>>
=============================================================================
