------------------------------ MODULE Lifecycle ------------------------------
(***************************************************************************)
(* The process and its terminal: main, the start and the end of ui_run,    *)
(* with Loader in between, the signal handlers and the ways out.  A signal *)
(* may arrive between any two steps.  The stack holds what is left to do   *)
(* of the main program and, above it, of the handlers that interrupted it; *)
(* only the top one runs, and a signal waits while its own handler has not *)
(* returned.                                                               *)
(***************************************************************************)
EXTENDS Loader, SequencesExt

CONSTANT Outside    \* the signals other processes and the terminal send

Signals == {"INT", "TERM", "USR1"}

ASSUME OutsideAssumption == Outside \subseteq Signals

VARIABLES
    stack,         \* frames: the signal, or "main", and the steps left
    terminal,      \* "normal" or "curses"
    need_cleanup,  \* the global of ui.c
    registered,    \* the cleanup is to be run at exit
    handled,       \* the signals with a handler
    message,       \* what the terminal was when an error was printed, or "none"
    status         \* "alive", or how the process ended

process == <<stack, terminal, need_cleanup, registered, handled, message, status>>
allvars == <<vars, process>>

Top == stack[Len(stack)]
Todo == Top.todo

-----------------------------------------------------------------------------
(* The program, as steps still to do.                                      *)

Cleanup_bug == <<"test", "reset", "endwin">>
Cleanup == <<"test", "endwin", "reset">>
Exit(code) == <<"atexit", code>>

Handler_bug(sig) == Cleanup \o Exit("success")
Handler_back_bug(sig) == Cleanup
Handler(sig) == Cleanup \o (IF sig = "USR1" THEN <<>> ELSE Exit("success"))

Fails == <<"message">> \o Exit("failure")

Start == <<"register", "INT", "TERM", "USR1", "need", "initscr", "loop">>

Raise == <<"kill">> \o Fails

(* ui_destroy, then the return from main.  Nothing looks at struct ui any  *)
(* more: that it is freed in between is left out.                          *)
Finish(code) == Cleanup \o Exit(code)

(* The end of ui_run: vm_destroy frees the program, then the machine goes. *)
Leave == <<"destroy", "free">> \o Finish("success")

-----------------------------------------------------------------------------
ProcessInit ==
    /\ Init
    /\ stack = <<[sig |-> "main", todo |-> <<"options">>]>>
    /\ terminal = "normal"
    /\ need_cleanup = FALSE
    /\ registered = FALSE
    /\ handled = {}
    /\ message = "none"
    /\ status = "alive"

(* The top frame takes its first step and has `rest' to do.                *)
Does(step, rest) ==
    /\ status = "alive"
    /\ Todo # <<>> /\ Head(Todo) = step
    /\ stack' = [stack EXCEPT ![Len(stack)].todo = rest]

Passes(step) == Does(step, Tail(Todo))

Static == UNCHANGED <<vars, terminal, need_cleanup, registered, handled, message, status>>

(* The command line and the memory for struct ui: there is a file and      *)
(* memory, or a message (the usage, or the want of memory) and a failure.  *)
Usage == Does("options", Fails) /\ Static
Options == Does("options", <<"load">>) /\ Static

(* read_file, load_program and the allocations of ui_run, step by step.    *)
Loading ==
    /\ status = "alive" /\ Todo = <<"load">>
    /\ Next
    /\ UNCHANGED process

NotLoaded ==
    at = "failed" /\ Does("load", <<"message">> \o Finish("failure")) /\ Static

Loaded == at = "running" /\ Does("load", Start) /\ Static

(* The copy beyond program memory was too much.                            *)
Crash ==
    /\ at = "crashed" /\ Does("load", <<>>)
    /\ status' = "crashed"
    /\ UNCHANGED <<vars, terminal, need_cleanup, registered, handled, message>>

Register ==
    /\ Passes("register")
    /\ registered' = TRUE
    /\ UNCHANGED <<vars, terminal, need_cleanup, handled, message, status>>

Install(sig) ==
    /\ Passes(sig)
    /\ handled' = handled \cup {sig}
    /\ UNCHANGED <<vars, terminal, need_cleanup, registered, message, status>>

Need ==
    /\ Passes("need")
    /\ need_cleanup' = TRUE
    /\ UNCHANGED <<vars, terminal, registered, handled, message, status>>

InitScreen ==
    /\ Passes("initscr")
    /\ terminal' = "curses"
    /\ UNCHANGED <<vars, need_cleanup, registered, handled, message, status>>

(* curses finds no terminal it knows: it says so and exits.                *)
InitScreenFails == Does("initscr", Fails) /\ Static

(* The loop draws; after an endwin this takes the terminal over again.     *)
Refresh ==
    /\ Does("loop", Todo)
    /\ terminal' = "curses"
    /\ UNCHANGED <<vars, need_cleanup, registered, handled, message, status>>

Quit == Does("loop", Leave) /\ Static

Destroy ==
    /\ Passes("destroy")
    /\ heap' = heap \ {"prg"}
    /\ UNCHANGED <<at, file, size, buffer, prg, terminal, need_cleanup, registered,
                   handled, message, status>>

Free ==
    /\ Passes("free")
    /\ heap' = heap \ {"vm"}
    /\ UNCHANGED <<at, file, size, buffer, prg, terminal, need_cleanup, registered,
                   handled, message, status>>

(* An instruction overflows or underflows the stack.                       *)
MachineError == Does("loop", Raise) /\ Static

(* The assertion on the program counter fails.                             *)
Abort ==
    /\ Does("loop", <<>>)
    /\ status' = "aborted"
    /\ UNCHANGED <<vars, terminal, need_cleanup, registered, handled, message>>

(* kill(0, SIGUSR1) returns after the handler of this process.             *)
Kill ==
    /\ status = "alive"
    /\ Todo # <<>> /\ Head(Todo) = "kill"
    /\ stack' = Append([stack EXCEPT ![Len(stack)].todo = Tail(@)],
                       [sig |-> "USR1", todo |-> Handler("USR1")])
    /\ Static

Message ==
    /\ Passes("message")
    /\ message' = IF message = "curses" THEN message ELSE terminal
    /\ UNCHANGED <<vars, terminal, need_cleanup, registered, handled, status>>

(* cleanup.                                                                *)
Test ==
    /\ Does("test", IF need_cleanup THEN Tail(Todo) ELSE SubSeq(Todo, 4, Len(Todo)))
    /\ Static

EndWin ==
    /\ Passes("endwin")
    /\ terminal' = "normal"
    /\ UNCHANGED <<vars, need_cleanup, registered, handled, message, status>>

Reset ==
    /\ Passes("reset")
    /\ need_cleanup' = FALSE
    /\ UNCHANGED <<vars, terminal, registered, handled, message, status>>

(* exit runs what is registered, once, and ends the process.               *)
AtExit ==
    /\ Does("atexit", (IF registered THEN Cleanup ELSE <<>>) \o Tail(Todo))
    /\ registered' = FALSE
    /\ UNCHANGED <<vars, terminal, need_cleanup, handled, message, status>>

End(code) ==
    /\ Passes(code)
    /\ status' = code
    /\ UNCHANGED <<vars, terminal, need_cleanup, registered, handled, message>>

(* A handler returns.                                                      *)
Return ==
    /\ status = "alive"
    /\ Len(stack) > 1 /\ Todo = <<>>
    /\ stack' = Front(stack)
    /\ Static

Step ==
    \/ Usage \/ Options \/ Loading \/ NotLoaded \/ Loaded \/ Crash
    \/ Register \/ \E sig \in Signals : Install(sig)
    \/ Need \/ InitScreen \/ InitScreenFails
    \/ Refresh \/ Quit \/ Destroy \/ Free \/ MachineError \/ Abort \/ Kill \/ Message
    \/ Test \/ EndWin \/ Reset \/ AtExit
    \/ \E code \in {"success", "failure"} : End(code)
    \/ Return

(* A signal arrives: its handler runs, or it kills the process.            *)
InHandler(sig) == \E i \in DOMAIN stack : stack[i].sig = sig

Interrupt(sig) ==
    /\ status = "alive"
    /\ sig \in Outside /\ ~InHandler(sig)
    /\ IF sig \in handled
       THEN /\ stack' = Append(stack, [sig |-> sig, todo |-> Handler(sig)])
            /\ UNCHANGED status
       ELSE /\ status' = "killed"
            /\ UNCHANGED stack
    /\ UNCHANGED <<vars, terminal, need_cleanup, registered, handled, message>>

ProcessNext == Step \/ \E sig \in Signals : Interrupt(sig)

(* The program goes on, but need not ever leave its loop, and nobody has   *)
(* to rewrite the file.                                                    *)
Busy == Step /\ Todo # <<"loop">> /\ file' = file

ProcessSpec == ProcessInit /\ [][ProcessNext]_allvars /\ WF_allvars(Busy)

-----------------------------------------------------------------------------
(* Properties.                                                             *)

(* However the process ends, short of an abort, and whatever interrupted   *)
(* whatever, the terminal is as it was.                                    *)
TerminalRestored ==
    status \in {"success", "failure", "killed"} => terminal = "normal"

(* An error of the machine ends the process with a failure and a message   *)
(* that is printed once the terminal is restored, never onto the screen    *)
(* curses is about to wipe, unless the user ends the process first.        *)
Failing == Contains(stack[1].todo, "message")
Interrupted == InHandler("INT") \/ InHandler("TERM")
ErrorReported ==
    Failing ~> (status = "failure" /\ message = "normal") \/ Interrupted \/ status = "killed"

(* A start comes to an end: the loop is entered, or there is no process.   *)
StartEnds == <>(status # "alive" \/ terminal = "curses")

(* SIGINT and SIGTERM end the process, even while it is ending already or  *)
(* while another of them is served.                                        *)
SignalEnds == Interrupted ~> status # "alive"

=============================================================================
