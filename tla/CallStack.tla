------------------------------ MODULE CallStack ------------------------------
(***************************************************************************)
(* What the call mechanism promises a program: a stack of Depth return     *)
(* addresses, worked by the instructions and by nothing else.  An          *)
(* instruction that asks for a call opens one: it saves the address of the *)
(* instruction after it and goes to the target it has set; with the stack  *)
(* full it ends the process instead.  One that asks for a return goes back *)
(* to the address saved last, or ends the process if there is none.  Only  *)
(* a store of the program's own changes a saved address, and every other   *)
(* instruction leaves the stack alone, jumping or going on to the next.    *)
(***************************************************************************)
EXTENDS Naturals

CONSTANTS
    Depth,   \* how many calls may be open
    Memory   \* how many words of program memory there are

VARIABLES
    pc,      \* where the program is
    asks,    \* what the instruction there asks for
    target,  \* where a call made now would go
    depth,   \* the number of open calls
    frames,  \* frames[i]: the address the call at depth i + 1 returns to
    status   \* "none" while the program runs, else why it ended

vars == <<pc, asks, target, depth, frames, status>>

Where == 0..(Memory - 1)
Slots == 0..(Depth - 1)
Kinds == {"call", "return", "store", "jump", "plain"}

(* Program memory is a ring.                                               *)
After(a) == (a + 1) % Memory

Init ==
    /\ pc = 0 /\ depth = 0 /\ status = "none"
    /\ frames = [i \in Slots |-> 0]
    /\ asks \in Kinds /\ target \in Where

(* The instruction at pc is executed; it may be of another kind next time, *)
(* and any instruction may write the registers that hold the target.       *)
Executes(kind) ==
    /\ status = "none"
    /\ pc \in Where
    /\ asks = kind
    /\ asks' \in Kinds
    /\ target' \in Where

Plain ==
    /\ Executes("plain")
    /\ pc' = After(pc)
    /\ UNCHANGED <<depth, frames, status>>

Jump ==
    /\ Executes("jump")
    /\ pc' \in Nat
    /\ UNCHANGED <<depth, frames, status>>

(* A store rewrites at most one saved address.                             *)
Store ==
    /\ Executes("store")
    /\ pc' = After(pc)
    /\ \E i \in Slots, a \in Where : frames' = [frames EXCEPT ![i] = a]
    /\ UNCHANGED <<depth, status>>

(* The instruction that calls has set the target itself.                   *)
Call ==
    /\ Executes("call")
    /\ depth < Depth
    /\ frames' = [frames EXCEPT ![depth] = After(pc)]
    /\ depth' = depth + 1
    /\ pc' = target'
    /\ UNCHANGED status

Overflow ==
    /\ Executes("call")
    /\ depth = Depth
    /\ status' = "overflow"
    /\ pc' = After(pc)
    /\ UNCHANGED <<depth, frames>>

Return ==
    /\ Executes("return")
    /\ depth > 0
    /\ depth' = depth - 1
    /\ pc' = frames[depth - 1]
    /\ UNCHANGED <<frames, status>>

Underflow ==
    /\ Executes("return")
    /\ depth = 0
    /\ status' = "underflow"
    /\ pc' = After(pc)
    /\ UNCHANGED <<depth, frames>>

(* The program has left program memory.                                    *)
Lost ==
    /\ status = "none"
    /\ pc \notin Where
    /\ status' = "assert"
    /\ UNCHANGED <<pc, asks, target, depth, frames>>

Next ==
    \/ Plain \/ Jump \/ Store \/ Call \/ Overflow \/ Return \/ Underflow \/ Lost

Spec == Init /\ [][Next]_vars
=============================================================================
