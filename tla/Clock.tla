-------------------------------- MODULE Clock --------------------------------
(***************************************************************************)
(* clock.c: the time since the start of the machine, in nanoseconds, as    *)
(* the difference of two struct timespec, and its conversion to            *)
(* microseconds.  NSEC_PER_SEC is unsigned in the code, so that parts of   *)
(* the arithmetic are done modulo 2^64 and stored back into signed words:  *)
(* Modulus stands for 2^64.                                                *)
(***************************************************************************)
EXTENDS Integers

CONSTANTS
    NSEC_PER_SEC,
    NSEC_PER_USEC,  \* the 1000 of vm_clock_as_usec
    Modulus,        \* the number of values of a 64-bit word
    LastSecond,     \* a bound on the seconds of the monotonic clock
    Periods         \* the periods, in microseconds, that are waited for

ASSUME UnitsAssumption ==
    /\ NSEC_PER_SEC \in Nat \ {0}
    /\ NSEC_PER_USEC \in Nat \ {0}
    /\ LastSecond \in Nat
    /\ Periods \subseteq Nat

(* A signed word holds every time span there is, twice over.               *)
ASSUME WidthAssumption ==
    /\ Modulus \in Nat
    /\ Modulus % 2 = 0
    /\ 2 * (LastSecond + 1) * NSEC_PER_SEC <= Modulus

VARIABLES
    monotonic,  \* what clock_gettime(CLOCK_MONOTONIC) returns
    t_start,    \* the reference time
    started,    \* whether vm_init has set it
    clock       \* the last value of get_vm_clock

vars == <<monotonic, t_start, started, clock>>

Timespec == [tv_sec: 0..LastSecond, tv_nsec: 0..(NSEC_PER_SEC - 1)]
Total(t) == t.tv_sec * NSEC_PER_SEC + t.tv_nsec

-----------------------------------------------------------------------------
(* The arithmetic.                                                         *)

Unsigned(x) == x % Modulus
Signed(x)   == LET u == Unsigned(x) IN IF u < Modulus \div 2 THEN u ELSE u - Modulus

(* The seconds to borrow, as an unsigned expression.                       *)
Borrow_bug(x, y) == 0
Borrow(x, y) ==
    IF x.tv_nsec < y.tv_nsec
    THEN Unsigned(y.tv_nsec - x.tv_nsec + NSEC_PER_SEC - 1) \div NSEC_PER_SEC
    ELSE 0

timespec_subtract_bug(x, y) ==
    LET sec == Borrow(x, y) IN
    [tv_sec  |-> x.tv_sec - y.tv_sec,
     tv_nsec |-> Signed(x.tv_nsec - Unsigned(y.tv_nsec - Unsigned(NSEC_PER_SEC * sec)))]

timespec_subtract(x, y) ==
    LET sec == Borrow(x, y) IN
    [tv_sec  |-> x.tv_sec - (y.tv_sec + sec),
     tv_nsec |-> Signed(x.tv_nsec - Unsigned(y.tv_nsec - Unsigned(NSEC_PER_SEC * sec)))]

get_vm_clock(now, ref) ==
    LET diff == timespec_subtract(now, ref)
    IN  Signed(diff.tv_nsec + Unsigned(diff.tv_sec * NSEC_PER_SEC))

(* The division of the code rounds towards zero; no time is negative.      *)
vm_clock_as_usec_bug(clk) == (clk + NSEC_PER_USEC - 1) \div NSEC_PER_USEC
vm_clock_as_usec(clk) == clk \div NSEC_PER_USEC

-----------------------------------------------------------------------------
Init ==
    /\ monotonic \in Timespec
    /\ t_start = [tv_sec |-> 0, tv_nsec |-> 0]
    /\ started = FALSE
    /\ clock = 0

(* Time passes.                                                            *)
Advance(t) ==
    /\ Total(t) > Total(monotonic)
    /\ monotonic' = t
    /\ UNCHANGED <<t_start, started, clock>>

get_time ==
    /\ ~started
    /\ started' = TRUE
    /\ t_start' = monotonic
    /\ UNCHANGED <<monotonic, clock>>

Read ==
    /\ started
    /\ clock' = get_vm_clock(monotonic, t_start)
    /\ UNCHANGED <<monotonic, t_start, started>>

Next == (\E t \in Timespec : Advance(t)) \/ get_time \/ Read

Spec == Init /\ [][Next]_vars

-----------------------------------------------------------------------------
(* Properties.                                                             *)

(* The difference of two times is a time, its nanoseconds less than a      *)
(* second although they are computed from unsigned words.                  *)
Normalised ==
    started => LET diff == timespec_subtract(monotonic, t_start)
               IN  diff.tv_sec \in Nat /\ diff.tv_nsec \in 0..(NSEC_PER_SEC - 1)

(* A reading is the time since the start, exactly, whatever the position   *)
(* of the two times within their seconds: what is borrowed is given back,  *)
(* and nothing is lost by wrapping around.                                 *)
ReadsElapsed ==
    [][Read => clock' = Total(monotonic) - Total(t_start)]_vars

(* Rounding is on the safe side: after a sleep of the microseconds that    *)
(* vm_get_cycle_wait_usec computes from a reading, in whole microseconds,  *)
(* no less than the period has passed in nanoseconds; and not a            *)
(* microsecond more than that.                                             *)
Slept(p) ==
    LET elapsed == vm_clock_as_usec(clock)
    IN  clock + NSEC_PER_USEC * (IF p >= elapsed THEN p - elapsed ELSE 0)
SleepsEnough ==
    \A p \in Periods :
        /\ Slept(p) >= p * NSEC_PER_USEC
        /\ vm_clock_as_usec(clock) <= p => Slept(p) < (p + 1) * NSEC_PER_USEC
=============================================================================
