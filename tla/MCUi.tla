--------------------------------- MODULE MCUi ---------------------------------
(***************************************************************************)
(* Ui on small programs, with times of a few ticks in the proportions that *)
(* make every branch of the loop happen.                                   *)
(***************************************************************************)
EXTENDS Ui

W(a, b, c) == [nibble1 |-> a, nibble2 |-> b, nibble3 |-> c]
Again(n)   == W(15, 15, 16 - n)                            \* JR -n

(* Goes through the settings of the Clock register.                        *)
Shifts == <<W(0, 2, 0), W(12, 15, 1), Again(3)>>

(* Toggles R0, a pixel of page 0, and copies it to DIMMER.                 *)
Dims == <<W(0, 12, 0), W(12, 15, 14), Again(3)>>

(* Reads the keys; jumps to the last word of program memory, which is a    *)
(* zero word, and round; jumps out of program memory.                      *)
Polls    == <<W(13, 15, 12), Again(2)>>
JumpsEnd == <<W(14, 15, 15), W(9, 13, 14)>>
JumpsOut == <<W(15, 15, 10)>>

(* Stores 15 and 0 to both key registers in turn.                          *)
Writer == <<W(0, 7, 15), W(12, 15, 12), W(12, 15, 13), Again(4)>>

Pacing  == {Shifts}
Picture == {Dims}
Keying  == {Polls, Writer, JumpsEnd, JumpsOut}

MCSeeds   == {seed_from_nibble(0)}
MCSyncs   == BOOLEAN
NoKeys    == {}
OneKey    == {13}
NoMoves   == {}
Left      == {-1}
Both      == {FALSE, TRUE}
NotPaused == {FALSE}
MCPast    == {[i \in Nibble |-> IF i = 0 THEN 255 ELSE 0]}

(* Periods of one tick, of MAX_UI_SLEEP_USEC, just beyond, and far beyond. *)
FourSpeeds == [c \in Nibble |-> <<1, 2, 3, 6>>[(c % 4) + 1]]
OneSpeed  == [c \in Nibble |-> 1]
SlowSpeed == [c \in Nibble |-> 3]
SyncEvery == [c \in Nibble |-> 2]

Furthest(f) == CHOOSE t \in {f[c] : c \in Nibble} : \A c \in Nibble : f[c] <= t
MCHorizon ==
    [t \in Stamps |->
        CASE t = "cycle"   -> Furthest(CLOCK_PERIODS_USEC)
          [] t = "sync"    -> Furthest(SYNC_PERIODS_USEC)
          [] t = "key"     -> KEY_UP_DELAY_USEC
          [] t = "display" -> DISPLAY_UPDATE_USEC
          [] t = "status"  -> STATUS_UPDATE_USEC
          [] OTHER         -> UI_UPDATE_PERIOD_USEC + 1]
=============================================================================
