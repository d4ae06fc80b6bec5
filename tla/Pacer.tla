-------------------------------- MODULE Pacer --------------------------------
(***************************************************************************)
(* What the event loop promises of the pace of a program: cycles are at    *)
(* least a period of the Clock register apart; a paused machine takes      *)
(* none, and asking it for a step gives it one and pauses it again.        *)
(***************************************************************************)
EXTENDS Naturals

CONSTANTS
    Periods,  \* the periods the program may choose
    Longest   \* time is counted up to here, no less than any period

VARIABLES
    mode,     \* "running", "stepping", "paused" or "ended"
    since,    \* the time since the start of the last cycle
    period    \* the period in force

vars == <<mode, since, period>>

Init == mode \in {"running", "paused"} /\ since = 0 /\ period \in Periods

Tick ==
    /\ since' = IF since < Longest THEN since + 1 ELSE since
    /\ UNCHANGED <<mode, period>>

(* A cycle may change the period, and it may end the process.              *)
Cycle ==
    /\ mode \in {"running", "stepping"}
    /\ since >= period
    /\ since' = 0
    /\ period' \in Periods
    /\ mode' \in {IF mode = "stepping" THEN "paused" ELSE "running", "ended"}

(* The user's wishes: a step, to go on, the end.                           *)
Ask(wish) ==
    /\ mode # "ended"
    /\ mode' = wish
    /\ UNCHANGED <<since, period>>

Next == Tick \/ Cycle \/ \E wish \in {"stepping", "running", "ended"} : Ask(wish)

Spec == Init /\ [][Next]_vars
=============================================================================
