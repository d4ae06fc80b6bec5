-------------------------------- MODULE Keypad --------------------------------
(***************************************************************************)
(* What the machine promises a program of its keys: a press raises all     *)
(* three flags and delivers the code of the key, at any time; LAST_PRESS   *)
(* and ANY_PRESS come down by themselves, but no earlier than Delay after  *)
(* the last press, however many presses there were before; JUST_PRESS      *)
(* comes down when the program reads the flags, and not by the release;    *)
(* and only a store of the program's own changes them in any other way.    *)
(***************************************************************************)
EXTENDS Naturals

CONSTANTS
    Codes,    \* the codes of the keys there are
    Contents, \* what a program may store as the code of a key
    Delay,    \* a key stays down at least that long
    Longest   \* time is counted up to here, no less than Delay

VARIABLES
    flags,   \* which of "just", "last" and "any" are up
    code,    \* the code of the key pressed last, or what the program stored
    since,   \* the time since the last press
    access   \* what the instruction about to be executed does to the two

vars == <<flags, code, since, access>>

Flags    == {"just", "last", "any"}
Accesses == {"none", "read", "write", "code"}

Init == flags = {} /\ code = 0 /\ since = 0 /\ access \in Accesses

Tick ==
    /\ since' = IF since < Longest THEN since + 1 ELSE since
    /\ UNCHANGED <<flags, code, access>>

Press ==
    /\ flags' = Flags
    /\ code' \in Codes
    /\ since' = 0
    /\ UNCHANGED access

Release ==
    /\ "last" \in flags
    /\ since >= Delay
    /\ flags' = flags \ {"last", "any"}
    /\ UNCHANGED <<code, since, access>>

(* The program executes an instruction, and comes to the next one.         *)
Executes(kind) == access = kind /\ access' \in Accesses /\ since' = since

Other      == Executes("none") /\ UNCHANGED <<flags, code>>
ReadFlags  == Executes("read") /\ flags' = flags \ {"just"} /\ code' = code
WriteFlags == Executes("write") /\ flags' \in SUBSET Flags /\ code' = code
WriteCode  == Executes("code") /\ code' \in Contents /\ flags' = flags

Next == Tick \/ Press \/ Release \/ Other \/ ReadFlags \/ WriteFlags \/ WriteCode

Spec == Init /\ [][Next]_vars
=============================================================================
