--------------------------- MODULE LifecycleProofs ---------------------------
(***************************************************************************)
(* Proofs about Lifecycle: what the process leaves behind, whatever is     *)
(* loaded and whichever signals arrive.                                    *)
(***************************************************************************)
EXTENDS Lifecycle, LoaderProofs

Codes == {"success", "failure"}

-----------------------------------------------------------------------------
(* What a frame may have left to do.                                       *)

(* Something to undo: the cleanup that is to come reaches endwin.          *)
Undoing(code) == {<<"test", "endwin", "reset", "atexit", code>>,
                  <<"endwin", "reset", "atexit", code>>}
UndoingOnly == {<<"test", "endwin", "reset">>, <<"endwin", "reset">>}

(* endwin has been called, or there is no need for it any more.            *)
Undone(code) == {<<"reset", "atexit", code>>, <<"atexit", code>>,
                 <<"test", "endwin", "reset", code>>, <<"endwin", "reset", code>>,
                 <<"reset", code>>, <<code>>}
UndoneOnly == {<<"reset">>, <<>>}

(* A handler that ends the process, and the handler of SIGUSR1.            *)
Ending(code) == Undoing(code) \cup Undone(code)
Cleaning == UndoingOnly \cup UndoneOnly

(* The main program before it ends, ...                                    *)
Failing0 == <<"message", "atexit", "failure">>
Loads == {<<"options">>, <<"load">>, Failing0,
          <<"message", "test", "endwin", "reset", "atexit", "failure">>}

(* ... with a machine but without a screen...                              *)
Starting == {<<"register", "INT", "TERM", "USR1", "need", "initscr", "loop">>,
             <<"INT", "TERM", "USR1", "need", "initscr", "loop">>,
             <<"TERM", "USR1", "need", "initscr", "loop">>,
             <<"USR1", "need", "initscr", "loop">>,
             <<"need", "initscr", "loop">>,
             <<"initscr", "loop">>}
(* ... and with both.                                                      *)
Drawing == {<<"loop">>,
            <<"kill", "message", "atexit", "failure">>,
            <<"destroy", "free", "test", "endwin", "reset", "atexit", "success">>,
            <<"free", "test", "endwin", "reset", "atexit", "success">>}

MainTodos == Loads \cup Starting \cup Drawing \cup Ending("success") \cup Ending("failure")
Todos == MainTodos \cup Cleaning

Resetting == {<<"reset">>, <<"reset", "success">>, <<"reset", "failure">>,
              <<"reset", "atexit", "success">>, <<"reset", "atexit", "failure">>}

-----------------------------------------------------------------------------
(* Short sequences, with anything in them.                                 *)

LEMMA Tails ==
    /\ \A a : <<a>> # <<>> /\ Head(<<a>>) = a /\ Tail(<<a>>) = <<>>
    /\ \A a, b : <<a, b>> # <<>> /\ Head(<<a, b>>) = a /\ Tail(<<a, b>>) = <<b>>
    /\ \A a, b, c : /\ <<a, b, c>> # <<>> /\ Head(<<a, b, c>>) = a
                    /\ Tail(<<a, b, c>>) = <<b, c>>
    /\ \A a, b, c, d : /\ <<a, b, c, d>> # <<>> /\ Head(<<a, b, c, d>>) = a
                       /\ Tail(<<a, b, c, d>>) = <<b, c, d>>
    /\ \A a, b, c, d, e : /\ <<a, b, c, d, e>> # <<>> /\ Head(<<a, b, c, d, e>>) = a
                          /\ Tail(<<a, b, c, d, e>>) = <<b, c, d, e>>
    /\ \A a, b, c, d, e, f : /\ <<a, b, c, d, e, f>> # <<>> /\ Head(<<a, b, c, d, e, f>>) = a
                             /\ Tail(<<a, b, c, d, e, f>>) = <<b, c, d, e, f>>
    /\ \A a, b, c, d, e, f, g : /\ <<a, b, c, d, e, f, g>> # <<>>
                                /\ Head(<<a, b, c, d, e, f, g>>) = a
                                /\ Tail(<<a, b, c, d, e, f, g>>) = <<b, c, d, e, f, g>>
  OBVIOUS

LEMMA Skips ==
    /\ \A a, b, c : SubSeq(<<a, b, c>>, 4, Len(<<a, b, c>>)) = <<>>
    /\ \A a, b, c, d : SubSeq(<<a, b, c, d>>, 4, Len(<<a, b, c, d>>)) = <<d>>
    /\ \A a, b, c, d, e : SubSeq(<<a, b, c, d, e>>, 4, Len(<<a, b, c, d, e>>)) = <<d, e>>
  <1> DEFINE Skipped(r, s, n, S) == r \in Seq(S) /\ Len(r) = n /\ \A i \in 1..n : r[i] = s[i + 3]
  <1>1. ASSUME NEW S, NEW n \in Nat, NEW s \in Seq(S), Len(s) = n + 3
        PROVE  Skipped(SubSeq(s, 4, Len(s)), s, n, S)
    BY <1>1
  <1> HIDE DEF Skipped
  <1>2. ASSUME NEW a, NEW b, NEW c
        PROVE  SubSeq(<<a, b, c>>, 4, Len(<<a, b, c>>)) = <<>>
    <2> DEFINE s == <<a, b, c>>
               r == SubSeq(s, 4, Len(s))
               S == {a, b, c}
    <2>1. s \in Seq(S) /\ Len(s) = 0 + 3
      OBVIOUS
    <2> HIDE DEF s, S
    <2>2. Skipped(r, s, 0, S)
      BY <2>1, <1>1
    <2> HIDE DEF r
    <2>3. r = <<>>
      BY <2>2 DEF Skipped
    <2> QED BY <2>3 DEF r, s
  <1>3. ASSUME NEW a, NEW b, NEW c, NEW d
        PROVE  SubSeq(<<a, b, c, d>>, 4, Len(<<a, b, c, d>>)) = <<d>>
    <2> DEFINE s == <<a, b, c, d>>
               r == SubSeq(s, 4, Len(s))
               S == {a, b, c, d}
    <2>1. s \in Seq(S) /\ Len(s) = 1 + 3 /\ s[1 + 3] = d
      OBVIOUS
    <2> HIDE DEF s, S
    <2>2. Skipped(r, s, 1, S)
      BY <2>1, <1>1
    <2> HIDE DEF r
    <2>3. r = <<d>>
      BY <2>1, <2>2 DEF Skipped
    <2> QED BY <2>3 DEF r, s
  <1>4. ASSUME NEW a, NEW b, NEW c, NEW d, NEW e
        PROVE  SubSeq(<<a, b, c, d, e>>, 4, Len(<<a, b, c, d, e>>)) = <<d, e>>
    <2> DEFINE s == <<a, b, c, d, e>>
               r == SubSeq(s, 4, Len(s))
               S == {a, b, c, d, e}
    <2>1. s \in Seq(S) /\ Len(s) = 2 + 3 /\ s[1 + 3] = d /\ s[2 + 3] = e
      OBVIOUS
    <2> HIDE DEF s, S
    <2>2. Skipped(r, s, 2, S)
      BY <2>1, <1>1
    <2> HIDE DEF r
    <2>3. r = <<d, e>>
      BY <2>1, <2>2 DEF Skipped
    <2> QED BY <2>3 DEF r, s
  <1> QED BY <1>2, <1>3, <1>4

LEMMA Lists ==
    /\ Listed(<<>>, 0)
    /\ \A a : Listed(<<a>>, 1)
    /\ \A a, b : Listed(<<a, b>>, 2)
    /\ \A a, b, c : Listed(<<a, b, c>>, 3)
    /\ \A a, b, c, d : Listed(<<a, b, c, d>>, 4)
    /\ \A a, b, c, d, e : Listed(<<a, b, c, d, e>>, 5)
  BY DEF Listed

LEMMA Chains ==
    /\ \A a : <<>> \o <<a>> = <<a>>
    /\ \A a, b, c : <<a>> \o <<b, c>> = <<a, b, c>>
    /\ \A a, b, c, d : <<a>> \o <<b, c, d>> = <<a, b, c, d>>
    /\ \A a, b, c : <<a, b, c>> \o <<>> = <<a, b, c>>
    /\ \A a, b, c, d : <<a, b, c>> \o <<d>> = <<a, b, c, d>>
    /\ \A a, b, c, d, e : <<a, b, c>> \o <<d, e>> = <<a, b, c, d, e>>
    /\ \A a, b, c, d, e, f : <<a>> \o <<b, c, d, e, f>> = <<a, b, c, d, e, f>>
    /\ \A a, b, c, d, e, f, g : <<a, b>> \o <<c, d, e, f, g>> = <<a, b, c, d, e, f, g>>
  <1>1. ASSUME NEW a
        PROVE  <<>> \o <<a>> = <<a>>
    <2> DEFINE s == <<>>
               t == <<a>>
               st == s \o t
    <2>1. /\ Listed(s, 0) /\ Listed(t, 1) /\ t[1] = a
      BY Lists
    <2> HIDE DEF s, t
    <2>2. Joins(st, s, 0, t, 1)
      BY <2>1, Joined
    <2> HIDE DEF st
    <2>3. st = <<a>>
      BY <2>1, <2>2 DEF Joins, Listed
    <2> QED BY <2>3 DEF st, s, t
  <1>2. ASSUME NEW a, NEW b, NEW c
        PROVE  <<a>> \o <<b, c>> = <<a, b, c>>
    <2> DEFINE s == <<a>>
               t == <<b, c>>
               st == s \o t
    <2>1. /\ Listed(s, 1) /\ Listed(t, 2) /\ s[1] = a /\ t[1] = b /\ t[2] = c
      BY Lists
    <2> HIDE DEF s, t
    <2>2. Joins(st, s, 1, t, 2)
      BY <2>1, Joined
    <2> HIDE DEF st
    <2>3. st = <<a, b, c>>
      BY <2>1, <2>2 DEF Joins, Listed
    <2> QED BY <2>3 DEF st, s, t
  <1>3. ASSUME NEW a, NEW b, NEW c, NEW d
        PROVE  <<a>> \o <<b, c, d>> = <<a, b, c, d>>
    <2> DEFINE s == <<a>>
               t == <<b, c, d>>
               st == s \o t
    <2>1. /\ Listed(s, 1) /\ Listed(t, 3) /\ s[1] = a /\ t[1] = b /\ t[2] = c
          /\ t[3] = d
      BY Lists
    <2> HIDE DEF s, t
    <2>2. Joins(st, s, 1, t, 3)
      BY <2>1, Joined
    <2> HIDE DEF st
    <2>3. st = <<a, b, c, d>>
      BY <2>1, <2>2 DEF Joins, Listed
    <2> QED BY <2>3 DEF st, s, t
  <1>4. ASSUME NEW a, NEW b, NEW c
        PROVE  <<a, b, c>> \o <<>> = <<a, b, c>>
    <2> DEFINE s == <<a, b, c>>
               t == <<>>
               st == s \o t
    <2>1. /\ Listed(s, 3) /\ Listed(t, 0) /\ s[1] = a /\ s[2] = b /\ s[3] = c
      BY Lists
    <2> HIDE DEF s, t
    <2>2. Joins(st, s, 3, t, 0)
      BY <2>1, Joined
    <2> HIDE DEF st
    <2>3. st = <<a, b, c>>
      BY <2>1, <2>2 DEF Joins, Listed
    <2> QED BY <2>3 DEF st, s, t
  <1>5. ASSUME NEW a, NEW b, NEW c, NEW d
        PROVE  <<a, b, c>> \o <<d>> = <<a, b, c, d>>
    <2> DEFINE s == <<a, b, c>>
               t == <<d>>
               st == s \o t
    <2>1. /\ Listed(s, 3) /\ Listed(t, 1) /\ s[1] = a /\ s[2] = b /\ s[3] = c
          /\ t[1] = d
      BY Lists
    <2> HIDE DEF s, t
    <2>2. Joins(st, s, 3, t, 1)
      BY <2>1, Joined
    <2> HIDE DEF st
    <2>3. st = <<a, b, c, d>>
      BY <2>1, <2>2 DEF Joins, Listed
    <2> QED BY <2>3 DEF st, s, t
  <1>6. ASSUME NEW a, NEW b, NEW c, NEW d, NEW e
        PROVE  <<a, b, c>> \o <<d, e>> = <<a, b, c, d, e>>
    <2> DEFINE s == <<a, b, c>>
               t == <<d, e>>
               st == s \o t
    <2>1. /\ Listed(s, 3) /\ Listed(t, 2) /\ s[1] = a /\ s[2] = b /\ s[3] = c
          /\ t[1] = d /\ t[2] = e
      BY Lists
    <2> HIDE DEF s, t
    <2>2. Joins(st, s, 3, t, 2)
      BY <2>1, Joined
    <2> HIDE DEF st
    <2>3. st = <<a, b, c, d, e>>
      BY <2>1, <2>2 DEF Joins, Listed
    <2> QED BY <2>3 DEF st, s, t
  <1>7. ASSUME NEW a, NEW b, NEW c, NEW d, NEW e, NEW f
        PROVE  <<a>> \o <<b, c, d, e, f>> = <<a, b, c, d, e, f>>
    <2> DEFINE s == <<a>>
               t == <<b, c, d, e, f>>
               st == s \o t
    <2>1. /\ Listed(s, 1) /\ Listed(t, 5) /\ s[1] = a /\ t[1] = b /\ t[2] = c
          /\ t[3] = d /\ t[4] = e /\ t[5] = f
      BY Lists
    <2> HIDE DEF s, t
    <2>2. Joins(st, s, 1, t, 5)
      BY <2>1, Joined
    <2> HIDE DEF st
    <2>3. st = <<a, b, c, d, e, f>>
      BY <2>1, <2>2 DEF Joins, Listed
    <2> QED BY <2>3 DEF st, s, t
  <1>8. ASSUME NEW a, NEW b, NEW c, NEW d, NEW e, NEW f, NEW g
        PROVE  <<a, b>> \o <<c, d, e, f, g>> = <<a, b, c, d, e, f, g>>
    <2> DEFINE s == <<a, b>>
               t == <<c, d, e, f, g>>
               st == s \o t
    <2>1. /\ Listed(s, 2) /\ Listed(t, 5) /\ s[1] = a /\ s[2] = b /\ t[1] = c
          /\ t[2] = d /\ t[3] = e /\ t[4] = f /\ t[5] = g
      BY Lists
    <2> HIDE DEF s, t
    <2>2. Joins(st, s, 2, t, 5)
      BY <2>1, Joined
    <2> HIDE DEF st
    <2>3. st = <<a, b, c, d, e, f, g>>
      BY <2>1, <2>2 DEF Joins, Listed
    <2> QED BY <2>3 DEF st, s, t
  <1> QED BY <1>1, <1>2, <1>3, <1>4, <1>5, <1>6, <1>7, <1>8

(* What the definitions of Lifecycle come to.                              *)
LEMMA Programs ==
    /\ Cleanup = <<"test", "endwin", "reset">>
    /\ Fails = Failing0
    /\ Start = <<"register", "INT", "TERM", "USR1", "need", "initscr", "loop">>
    /\ Raise = <<"kill", "message", "atexit", "failure">>
    /\ Leave = <<"destroy", "free", "test", "endwin", "reset", "atexit", "success">>
    /\ Handler("USR1") = <<"test", "endwin", "reset">>
    /\ \A sig \in {"INT", "TERM"} :
          Handler(sig) = <<"test", "endwin", "reset", "atexit", "success">>
    /\ <<"message">> \o Finish("failure")
          = <<"message", "test", "endwin", "reset", "atexit", "failure">>
    /\ \A code : (IF registered THEN Cleanup ELSE <<>>) \o <<code>>
                    \in {<<code>>, <<"test", "endwin", "reset", code>>}
  <1>1. Cleanup = <<"test", "endwin", "reset">> /\ \A code : Exit(code) = <<"atexit", code>>
    BY DEF Cleanup, Exit
  <1>2. Fails = Failing0
    BY <1>1, Chains DEF Fails, Failing0
  <1>3. Raise = <<"kill", "message", "atexit", "failure">>
    BY <1>2, Chains DEF Raise, Failing0
  <1>4. \A code : Finish(code) = <<"test", "endwin", "reset", "atexit", code>>
    <2> TAKE code
    <2>1. Finish(code) = <<"test", "endwin", "reset">> \o <<"atexit", code>>
      BY <1>1, Zenon DEF Finish
    <2>2. <<"test", "endwin", "reset">> \o <<"atexit", code>>
             = <<"test", "endwin", "reset", "atexit", code>>
      BY Chains
    <2> QED BY <2>1, <2>2, Zenon
  <1>5. Leave = <<"destroy", "free", "test", "endwin", "reset", "atexit", "success">>
    <2>1. Leave = <<"destroy", "free">> \o <<"test", "endwin", "reset", "atexit", "success">>
      BY <1>4, Zenon DEF Leave
    <2>2. <<"destroy", "free">> \o <<"test", "endwin", "reset", "atexit", "success">>
             = <<"destroy", "free", "test", "endwin", "reset", "atexit", "success">>
      BY Chains
    <2> QED BY <2>1, <2>2, Zenon
  <1>6. Handler("USR1") = <<"test", "endwin", "reset">>
    BY <1>1, Chains DEF Handler
  <1>7. \A sig \in {"INT", "TERM"} :
          Handler(sig) = <<"test", "endwin", "reset", "atexit", "success">>
    <2> TAKE sig \in {"INT", "TERM"}
    <2>1. sig # "USR1"
      OBVIOUS
    <2>2. Handler(sig) = <<"test", "endwin", "reset">> \o <<"atexit", "success">>
      BY <1>1, <2>1, Zenon DEF Handler
    <2>3. <<"test", "endwin", "reset">> \o <<"atexit", "success">>
             = <<"test", "endwin", "reset", "atexit", "success">>
      BY Chains
    <2> QED BY <2>2, <2>3, Zenon
  <1>8. <<"message">> \o Finish("failure")
          = <<"message", "test", "endwin", "reset", "atexit", "failure">>
    <2>1. <<"message">> \o Finish("failure")
             = <<"message">> \o <<"test", "endwin", "reset", "atexit", "failure">>
      BY <1>4, Zenon
    <2>2. <<"message">> \o <<"test", "endwin", "reset", "atexit", "failure">>
             = <<"message", "test", "endwin", "reset", "atexit", "failure">>
      BY Chains
    <2> QED BY <2>1, <2>2, Zenon
  <1>9. \A code : (IF registered THEN Cleanup ELSE <<>>) \o <<code>>
                     \in {<<code>>, <<"test", "endwin", "reset", code>>}
    <2> TAKE code
    <2>1. CASE registered
      <3>1. (IF registered THEN Cleanup ELSE <<>>) = <<"test", "endwin", "reset">>
        BY <2>1, <1>1
      <3>2. <<"test", "endwin", "reset">> \o <<code>> = <<"test", "endwin", "reset", code>>
        BY Chains
      <3> QED BY <3>1, <3>2, Zenon
    <2>2. CASE ~registered
      <3>1. (IF registered THEN Cleanup ELSE <<>>) = <<>>
        BY <2>2
      <3>2. <<>> \o <<code>> = <<code>>
        BY Chains
      <3> QED BY <3>1, <3>2, Zenon
    <2> QED BY <2>1, <2>2
  <1> QED BY <1>1, <1>2, <1>3, <1>5, <1>6, <1>7, <1>8, <1>9 DEF Start

(* What is left to do, by what comes next.                                 *)
LEMMA ByHead ==
    ASSUME NEW t \in Todos, t # <<>>
    PROVE  /\ Head(t) = "options" => t = <<"options">>
           /\ Head(t) = "load" => t = <<"load">>
           /\ Head(t) = "message" =>
                 t \in {Failing0, <<"message", "test", "endwin", "reset", "atexit", "failure">>}
           /\ Head(t) = "register" =>
                 t = <<"register", "INT", "TERM", "USR1", "need", "initscr", "loop">>
           /\ Head(t) = "INT" => t = <<"INT", "TERM", "USR1", "need", "initscr", "loop">>
           /\ Head(t) = "TERM" => t = <<"TERM", "USR1", "need", "initscr", "loop">>
           /\ Head(t) = "USR1" => t = <<"USR1", "need", "initscr", "loop">>
           /\ Head(t) = "need" => t = <<"need", "initscr", "loop">>
           /\ Head(t) = "initscr" => t = <<"initscr", "loop">>
           /\ Head(t) = "loop" => t = <<"loop">>
           /\ Head(t) = "kill" => t = <<"kill", "message", "atexit", "failure">>
           /\ Head(t) = "destroy" =>
                 t = <<"destroy", "free", "test", "endwin", "reset", "atexit", "success">>
           /\ Head(t) = "free" =>
                 t = <<"free", "test", "endwin", "reset", "atexit", "success">>
           /\ Head(t) = "test" =>
                 t \in {<<"test", "endwin", "reset">>}
                       \cup {<<"test", "endwin", "reset", code>> : code \in Codes}
                       \cup {<<"test", "endwin", "reset", "atexit", code>> : code \in Codes}
           /\ Head(t) = "endwin" =>
                 t \in {<<"endwin", "reset">>}
                       \cup {<<"endwin", "reset", code>> : code \in Codes}
                       \cup {<<"endwin", "reset", "atexit", code>> : code \in Codes}
           /\ Head(t) = "reset" => t \in Resetting
           /\ Head(t) = "atexit" => \E code \in Codes : t = <<"atexit", code>>
           /\ \A code \in Codes : Head(t) = code => t = <<code>>
  <1>1. CASE t \in Loads
    BY <1>1, Tails DEF Loads, Failing0, Codes
  <1>2. CASE t \in Starting
    BY <1>2, Tails DEF Starting, Codes
  <1>3. CASE t \in Drawing
    BY <1>3, Tails DEF Drawing, Codes
  <1>5. CASE t \in Ending("success")
    BY <1>5, Tails DEF Ending, Undoing, Undone, Codes, Resetting
  <1>6. CASE t \in Ending("failure")
    BY <1>6, Tails DEF Ending, Undoing, Undone, Codes, Resetting
  <1>7. CASE t \in Cleaning
    BY <1>7, Tails DEF Cleaning, UndoingOnly, UndoneOnly, Codes, Resetting
  <1> QED BY <1>1, <1>2, <1>3, <1>5, <1>6, <1>7 DEF Todos, MainTodos

-----------------------------------------------------------------------------
(* The invariant.                                                          *)

Alive == status = "alive"

(* What each frame has left to do: SIGUSR1 only comes from the program     *)
(* itself, which has nothing left by then but to report the error.         *)
Frames ==
    Alive =>
        /\ stack[1].todo \in MainTodos
        /\ \A i \in 2..Len(stack) :
              \/ stack[i].sig \in {"INT", "TERM"} /\ stack[i].todo \in Ending("success")
              \/ /\ i = 2 /\ stack[i].sig = "USR1" /\ stack[i].todo \in Cleaning
                 /\ stack[1].todo = Failing0

(* A machine is started with, and the screen comes after the handlers.     *)
Prepared ==
    Alive =>
        /\ stack[1].todo \in Starting \cup Drawing => at = "running"
        /\ stack[1].todo = <<"TERM", "USR1", "need", "initscr", "loop">> => "INT" \in handled
        /\ stack[1].todo = <<"USR1", "need", "initscr", "loop">> => {"INT", "TERM"} \subseteq handled
        /\ stack[1].todo \in {<<"need", "initscr", "loop">>, <<"initscr", "loop">>, <<"loop">>}
              => handled = Signals
        /\ Len(stack) = 1 /\ stack[1].todo \in {<<"initscr", "loop">>, <<"loop">>} => need_cleanup

(* While curses has the terminal, everything that can end the process is   *)
(* going to give it back first.                                            *)
GivenBack ==
    /\ Alive /\ terminal = "curses" =>
          /\ need_cleanup
          /\ handled = Signals
          /\ Len(stack) = 1 => stack[1].todo \in Drawing \cup Undoing("success")
          /\ \A i \in 2..Len(stack) : stack[i].todo \in Undoing("success") \cup UndoingOnly
    /\ Alive /\ (\E i \in 1..Len(stack) : stack[i].todo \in Resetting) => terminal = "normal"
    /\ TerminalRestored

Frame == [sig : Signals \cup {"main"}, todo : Todos]

ProcessType ==
    /\ stack \in Seq(Frame) /\ Len(stack) >= 1
    /\ terminal \in {"normal", "curses"}
    /\ need_cleanup \in BOOLEAN
    /\ handled \subseteq Signals

ProcessInv == LoaderInv /\ ProcessType /\ Frames /\ Prepared /\ GivenBack

-----------------------------------------------------------------------------
(* The stack.                                                              *)

LEMMA TopType ==
    ASSUME ProcessType
    PROVE  /\ Len(stack) \in Nat /\ Len(stack) >= 1
           /\ \A i \in 1..Len(stack) : stack[i] \in Frame /\ stack[i].todo \in Todos
           /\ Todo = stack[Len(stack)].todo /\ Todo \in Todos
  <1>1. stack \in Seq(Frame) /\ Len(stack) >= 1 /\ Len(stack) \in Nat
    BY DEF ProcessType
  <1>2. \A i \in 1..Len(stack) : stack[i] \in Frame
    BY <1>1
  <1>3. \A f \in Frame : f.todo \in Todos
    BY DEF Frame
  <1>4. Todo = stack[Len(stack)].todo /\ Len(stack) \in 1..Len(stack)
    BY <1>1 DEF Todo, Top
  <1> QED BY <1>1, <1>2, <1>3, <1>4

LEMMA TopMoves ==
    ASSUME ProcessType, NEW step, NEW rest \in Todos, Does(step, rest)
    PROVE  /\ Alive /\ Todo # <<>> /\ Head(Todo) = step
           /\ stack' \in Seq(Frame)
           /\ Len(stack') = Len(stack)
           /\ stack'[Len(stack)].todo = rest
           /\ stack'[Len(stack)].sig = stack[Len(stack)].sig
           /\ \A i \in 1..Len(stack) : i # Len(stack) => stack'[i] = stack[i]
  <1> DEFINE n == Len(stack)
             frame == [stack[n] EXCEPT !.todo = rest]
  <1>1. n \in 1..n /\ stack \in Seq(Frame) /\ stack[n] \in Frame
    BY TopType DEF ProcessType
  <1>2. stack' = [stack EXCEPT ![n] = frame]
    BY DEF Does
  <1>3. \A f \in Frame : /\ [f EXCEPT !.todo = rest] \in Frame
                         /\ [f EXCEPT !.todo = rest].todo = rest
                         /\ [f EXCEPT !.todo = rest].sig = f.sig
    BY DEF Frame
  <1>4. frame \in Frame /\ frame.todo = rest /\ frame.sig = stack[n].sig
    BY <1>1, <1>3
  <1> HIDE DEF frame
  <1>5. /\ stack' \in Seq(Frame) /\ Len(stack') = n /\ stack'[n] = frame
        /\ \A i \in 1..n : i # n => stack'[i] = stack[i]
    BY <1>1, <1>2, <1>4
  <1> QED BY <1>4, <1>5 DEF Does, Alive

(* Only a cleanup or an exit runs above the main program.                  *)
HandlerSteps == {"test", "endwin", "reset", "atexit", "success"}

LEMMA MainIsTop ==
    ASSUME ProcessInv, Alive, Todo # <<>>, Head(Todo) \notin HandlerSteps
    PROVE  Len(stack) = 1 /\ Todo = stack[1].todo
  <1>1. Len(stack) \in Nat /\ Len(stack) >= 1 /\ Todo = stack[Len(stack)].todo
    BY TopType DEF ProcessInv
  <1>2. ASSUME Len(stack) > 1 PROVE FALSE
    <2>1. Todo \in Ending("success") \cup Cleaning
      BY <1>1, <1>2 DEF ProcessInv, Frames
    <2>2. CASE Todo \in Ending("success")
      BY <2>2, Tails DEF Ending, Undoing, Undone, HandlerSteps
    <2>3. CASE Todo \in Cleaning
      BY <2>3, Tails DEF Cleaning, UndoingOnly, UndoneOnly, HandlerSteps
    <2> QED BY <2>1, <2>2, <2>3
  <1>3. Len(stack) = 1
    BY <1>1, <1>2
  <1> QED BY <1>1, <1>3

(* A step of the main program, from t to rest.                             *)
LEMMA MainMoves ==
    ASSUME ProcessInv, NEW step, step \notin HandlerSteps, NEW rest \in Todos, Does(step, rest)
    PROVE  /\ Alive /\ Len(stack) = 1 /\ Len(stack') = 1
           /\ stack[1].todo = Todo /\ Todo \in Todos /\ Todo # <<>> /\ Head(Todo) = step
           /\ stack'[1].todo = rest
           /\ stack' \in Seq(Frame)
  <1>1. /\ Alive /\ Todo # <<>> /\ Head(Todo) = step /\ Todo \in Todos
        /\ stack' \in Seq(Frame)
        /\ Len(stack') = Len(stack) /\ stack'[Len(stack)].todo = rest
    BY TopMoves, TopType DEF ProcessInv
  <1> QED BY <1>1, MainIsTop

-----------------------------------------------------------------------------
(* The main program alone on the stack.                                    *)

(* The invariant, when t is all that is left to do.                        *)
Fine(t) ==
    /\ t \in MainTodos
    /\ t \in Starting \cup Drawing => at = "running"
    /\ t = <<"TERM", "USR1", "need", "initscr", "loop">> => "INT" \in handled
    /\ t = <<"USR1", "need", "initscr", "loop">> => {"INT", "TERM"} \subseteq handled
    /\ t \in {<<"need", "initscr", "loop">>, <<"initscr", "loop">>, <<"loop">>} => handled = Signals
    /\ t \in {<<"initscr", "loop">>, <<"loop">>} => need_cleanup
    /\ terminal = "curses" =>
          need_cleanup /\ handled = Signals /\ t \in Drawing \cup Undoing("success")
    /\ t \in Resetting => terminal = "normal"

LEMMA FineNow ==
    ASSUME ProcessInv, Alive, Len(stack) = 1
    PROVE  Fine(stack[1].todo)
  BY DEF ProcessInv, Frames, Prepared, GivenBack, Fine

LEMMA FineNext ==
    ASSUME Alive', Len(stack') = 1, NEW t, stack'[1].todo = t, Fine(t)'
    PROVE  Frames' /\ Prepared' /\ GivenBack'
  BY DEF Frames, Prepared, GivenBack, Fine, Alive, TerminalRestored

(* A step of the main program that leaves things fine.                     *)
Settled == terminal \in {"normal", "curses"} /\ need_cleanup \in BOOLEAN /\ handled \subseteq Signals

LEMMA MainStep ==
    ASSUME ProcessInv, NEW step, step \notin HandlerSteps, NEW r \in Todos, Does(step, r),
           Alive', Settled', LoaderInv', Fine(Todo) => Fine(r)'
    PROVE  ProcessInv'
  <1>1. /\ Len(stack) = 1 /\ Len(stack') = 1 /\ stack[1].todo = Todo
        /\ stack'[1].todo = r /\ stack' \in Seq(Frame) /\ Alive
    BY MainMoves
  <1>2. Fine(r)'
    BY <1>1, FineNow
  <1>3. Frames' /\ Prepared' /\ GivenBack'
    BY <1>1, <1>2, FineNext
  <1>4. ProcessType'
    BY <1>1 DEF ProcessType, Settled
  <1> QED BY <1>3, <1>4 DEF ProcessInv

(* A machine is only ever destroyed once it is there.                      *)
LEMMA AtRunning ==
    ASSUME ProcessInv, Alive, Todo # <<>>, Head(Todo) \in {"destroy", "free"}
    PROVE  at = "running"
  <1>1. Len(stack) = 1 /\ Todo = stack[1].todo
    BY MainIsTop DEF HandlerSteps
  <1>2. Todo \in Drawing
    <2>1. Todo \in Todos
      BY TopType DEF ProcessInv
    <2> QED BY <2>1, ByHead DEF Drawing
  <1> QED BY <1>1, <1>2 DEF ProcessInv, Prepared

(* What the main program does next, and what it then has left to do.       *)
LEMMA NextLines ==
    ASSUME ProcessType
    PROVE  /\ Usage => Todo = <<"options">> /\ Does("options", <<"message", "atexit", "failure">>)
           /\ Options => Todo = <<"options">> /\ Does("options", <<"load">>)
           /\ NotLoaded =>
                /\ Todo = <<"load">>
                /\ Does("load", <<"message", "test", "endwin", "reset", "atexit", "failure">>)
           /\ Loaded =>
                /\ Todo = <<"load">>
                /\ Does("load", <<"register", "INT", "TERM", "USR1", "need", "initscr", "loop">>)
           /\ Register =>
                /\ Todo = <<"register", "INT", "TERM", "USR1", "need", "initscr", "loop">>
                /\ Does("register", <<"INT", "TERM", "USR1", "need", "initscr", "loop">>)
           /\ Install("INT") =>
                /\ Todo = <<"INT", "TERM", "USR1", "need", "initscr", "loop">>
                /\ Does("INT", <<"TERM", "USR1", "need", "initscr", "loop">>)
           /\ Install("TERM") =>
                /\ Todo = <<"TERM", "USR1", "need", "initscr", "loop">>
                /\ Does("TERM", <<"USR1", "need", "initscr", "loop">>)
           /\ Install("USR1") =>
                /\ Todo = <<"USR1", "need", "initscr", "loop">>
                /\ Does("USR1", <<"need", "initscr", "loop">>)
           /\ Need => Todo = <<"need", "initscr", "loop">> /\ Does("need", <<"initscr", "loop">>)
           /\ InitScreen => Todo = <<"initscr", "loop">> /\ Does("initscr", <<"loop">>)
           /\ InitScreenFails =>
                /\ Todo = <<"initscr", "loop">>
                /\ Does("initscr", <<"message", "atexit", "failure">>)
           /\ Refresh => Todo = <<"loop">> /\ Does("loop", <<"loop">>)
           /\ Quit =>
                /\ Todo = <<"loop">>
                /\ Does("loop", <<"destroy", "free", "test", "endwin", "reset", "atexit", "success">>)
           /\ Destroy =>
                /\ Todo = <<"destroy", "free", "test", "endwin", "reset", "atexit", "success">>
                /\ Does("destroy", <<"free", "test", "endwin", "reset", "atexit", "success">>)
           /\ Free =>
                /\ Todo = <<"free", "test", "endwin", "reset", "atexit", "success">>
                /\ Does("free", <<"test", "endwin", "reset", "atexit", "success">>)
           /\ MachineError =>
                /\ Todo = <<"loop">>
                /\ Does("loop", <<"kill", "message", "atexit", "failure">>)
  <1>1. ASSUME Usage
       PROVE  Todo = <<"options">> /\ Does("options", <<"message", "atexit", "failure">>)
    <2>1. Todo \in Todos /\ Todo # <<>> /\ Head(Todo) = "options"
      BY <1>1, TopType DEF Usage, Passes, Does
    <2>2. Todo = <<"options">>
      BY <2>1, ByHead
    <2> QED BY <1>1, <2>2, Tails, Programs DEF Usage, Passes, Failing0
  <1>2. ASSUME Options
       PROVE  Todo = <<"options">> /\ Does("options", <<"load">>)
    <2>1. Todo \in Todos /\ Todo # <<>> /\ Head(Todo) = "options"
      BY <1>2, TopType DEF Options, Passes, Does
    <2>2. Todo = <<"options">>
      BY <2>1, ByHead
    <2> QED BY <1>2, <2>2, Tails, Programs DEF Options, Passes, Failing0
  <1>3. ASSUME NotLoaded
       PROVE  /\ Todo = <<"load">>
              /\ Does("load", <<"message", "test", "endwin", "reset", "atexit", "failure">>)
    <2>1. Todo \in Todos /\ Todo # <<>> /\ Head(Todo) = "load"
      BY <1>3, TopType DEF NotLoaded, Passes, Does
    <2>2. Todo = <<"load">>
      BY <2>1, ByHead
    <2> QED BY <1>3, <2>2, Tails, Programs DEF NotLoaded, Passes, Failing0
  <1>4. ASSUME Loaded
       PROVE  /\ Todo = <<"load">>
              /\ Does("load", <<"register", "INT", "TERM", "USR1", "need", "initscr", "loop">>)
    <2>1. Todo \in Todos /\ Todo # <<>> /\ Head(Todo) = "load"
      BY <1>4, TopType DEF Loaded, Passes, Does
    <2>2. Todo = <<"load">>
      BY <2>1, ByHead
    <2> QED BY <1>4, <2>2, Tails, Programs DEF Loaded, Passes, Failing0
  <1>5. ASSUME Register
       PROVE  /\ Todo = <<"register", "INT", "TERM", "USR1", "need", "initscr", "loop">>
              /\ Does("register", <<"INT", "TERM", "USR1", "need", "initscr", "loop">>)
    <2>1. Todo \in Todos /\ Todo # <<>> /\ Head(Todo) = "register"
      BY <1>5, TopType DEF Register, Passes, Does
    <2>2. Todo = <<"register", "INT", "TERM", "USR1", "need", "initscr", "loop">>
      BY <2>1, ByHead
    <2> QED BY <1>5, <2>2, Tails, Programs DEF Register, Passes, Failing0
  <1>6. ASSUME Install("INT")
       PROVE  /\ Todo = <<"INT", "TERM", "USR1", "need", "initscr", "loop">>
              /\ Does("INT", <<"TERM", "USR1", "need", "initscr", "loop">>)
    <2>1. Todo \in Todos /\ Todo # <<>> /\ Head(Todo) = "INT"
      BY <1>6, TopType DEF Install, Passes, Does
    <2>2. Todo = <<"INT", "TERM", "USR1", "need", "initscr", "loop">>
      BY <2>1, ByHead
    <2> QED BY <1>6, <2>2, Tails, Programs DEF Install, Passes, Failing0
  <1>7. ASSUME Install("TERM")
       PROVE  /\ Todo = <<"TERM", "USR1", "need", "initscr", "loop">>
              /\ Does("TERM", <<"USR1", "need", "initscr", "loop">>)
    <2>1. Todo \in Todos /\ Todo # <<>> /\ Head(Todo) = "TERM"
      BY <1>7, TopType DEF Install, Passes, Does
    <2>2. Todo = <<"TERM", "USR1", "need", "initscr", "loop">>
      BY <2>1, ByHead
    <2> QED BY <1>7, <2>2, Tails, Programs DEF Install, Passes, Failing0
  <1>8. ASSUME Install("USR1")
       PROVE  /\ Todo = <<"USR1", "need", "initscr", "loop">>
              /\ Does("USR1", <<"need", "initscr", "loop">>)
    <2>1. Todo \in Todos /\ Todo # <<>> /\ Head(Todo) = "USR1"
      BY <1>8, TopType DEF Install, Passes, Does
    <2>2. Todo = <<"USR1", "need", "initscr", "loop">>
      BY <2>1, ByHead
    <2> QED BY <1>8, <2>2, Tails, Programs DEF Install, Passes, Failing0
  <1>9. ASSUME Need
       PROVE  Todo = <<"need", "initscr", "loop">> /\ Does("need", <<"initscr", "loop">>)
    <2>1. Todo \in Todos /\ Todo # <<>> /\ Head(Todo) = "need"
      BY <1>9, TopType DEF Need, Passes, Does
    <2>2. Todo = <<"need", "initscr", "loop">>
      BY <2>1, ByHead
    <2> QED BY <1>9, <2>2, Tails, Programs DEF Need, Passes, Failing0
  <1>10. ASSUME InitScreen
        PROVE  Todo = <<"initscr", "loop">> /\ Does("initscr", <<"loop">>)
    <2>1. Todo \in Todos /\ Todo # <<>> /\ Head(Todo) = "initscr"
      BY <1>10, TopType DEF InitScreen, Passes, Does
    <2>2. Todo = <<"initscr", "loop">>
      BY <2>1, ByHead
    <2> QED BY <1>10, <2>2, Tails, Programs DEF InitScreen, Passes, Failing0
  <1>11. ASSUME InitScreenFails
        PROVE  /\ Todo = <<"initscr", "loop">>
               /\ Does("initscr", <<"message", "atexit", "failure">>)
    <2>1. Todo \in Todos /\ Todo # <<>> /\ Head(Todo) = "initscr"
      BY <1>11, TopType DEF InitScreenFails, Passes, Does
    <2>2. Todo = <<"initscr", "loop">>
      BY <2>1, ByHead
    <2> QED BY <1>11, <2>2, Tails, Programs DEF InitScreenFails, Passes, Failing0
  <1>12. ASSUME Refresh
        PROVE  Todo = <<"loop">> /\ Does("loop", <<"loop">>)
    <2>1. Todo \in Todos /\ Todo # <<>> /\ Head(Todo) = "loop"
      BY <1>12, TopType DEF Refresh, Passes, Does
    <2>2. Todo = <<"loop">>
      BY <2>1, ByHead
    <2> QED BY <1>12, <2>2, Tails, Programs DEF Refresh, Passes, Failing0
  <1>13. ASSUME Quit
        PROVE  /\ Todo = <<"loop">>
               /\ Does("loop", <<"destroy", "free", "test", "endwin", "reset", "atexit", "success">>)
    <2>1. Todo \in Todos /\ Todo # <<>> /\ Head(Todo) = "loop"
      BY <1>13, TopType DEF Quit, Passes, Does
    <2>2. Todo = <<"loop">>
      BY <2>1, ByHead
    <2> QED BY <1>13, <2>2, Tails, Programs DEF Quit, Passes, Failing0
  <1>14. ASSUME Destroy
        PROVE  /\ Todo = <<"destroy", "free", "test", "endwin", "reset", "atexit", "success">>
               /\ Does("destroy", <<"free", "test", "endwin", "reset", "atexit", "success">>)
    <2>1. Todo \in Todos /\ Todo # <<>> /\ Head(Todo) = "destroy"
      BY <1>14, TopType DEF Destroy, Passes, Does
    <2>2. Todo = <<"destroy", "free", "test", "endwin", "reset", "atexit", "success">>
      BY <2>1, ByHead
    <2> QED BY <1>14, <2>2, Tails, Programs DEF Destroy, Passes, Failing0
  <1>15. ASSUME Free
        PROVE  /\ Todo = <<"free", "test", "endwin", "reset", "atexit", "success">>
               /\ Does("free", <<"test", "endwin", "reset", "atexit", "success">>)
    <2>1. Todo \in Todos /\ Todo # <<>> /\ Head(Todo) = "free"
      BY <1>15, TopType DEF Free, Passes, Does
    <2>2. Todo = <<"free", "test", "endwin", "reset", "atexit", "success">>
      BY <2>1, ByHead
    <2> QED BY <1>15, <2>2, Tails, Programs DEF Free, Passes, Failing0
  <1>16. ASSUME MachineError
        PROVE  Todo = <<"loop">> /\ Does("loop", <<"kill", "message", "atexit", "failure">>)
    <2>1. Todo \in Todos /\ Todo # <<>> /\ Head(Todo) = "loop"
      BY <1>16, TopType DEF MachineError, Passes, Does
    <2>2. Todo = <<"loop">>
      BY <2>1, ByHead
    <2> QED BY <1>16, <2>2, Tails, Programs DEF MachineError, Passes, Failing0
  <1> QED BY <1>1, <1>2, <1>3, <1>4, <1>5, <1>6, <1>7, <1>8, <1>9, <1>10, <1>11, <1>12, <1>13, <1>14, <1>15, <1>16

(* The command line, and the end of the loading.                           *)
LEMMA BeforeTheMachine ==
    ASSUME ProcessInv, Usage \/ Options \/ NotLoaded \/ Loaded
    PROVE  ProcessInv'
  <1>1. CASE Usage
    <2> DEFINE r == <<"message", "atexit", "failure">>
    <2>1. Todo = <<"options">> /\ Does("options", r)
      BY <1>1, NextLines DEF ProcessInv
    <2>2. r \in Todos
      BY DEF Todos, MainTodos, Loads, Starting, Drawing, Ending, Undoing, Failing0
    <2>3. Fine(Todo) => Fine(r)'
      BY <1>1, <2>1 DEF Usage, Static, vars, Fine, MainTodos, Loads, Starting, Drawing, Ending,
         Undoing, Undone, Resetting, Failing0, Signals
    <2> HIDE DEF r
    <2>4. Alive' /\ Settled'
      BY <1>1, <2>1 DEF Usage, Static, Alive, Does, Settled, ProcessInv, ProcessType, Signals
    <2>5. LoaderInv'
      BY <1>1, LoaderStep DEF Usage, Static, ProcessInv
    <2> QED BY <2>1, <2>2, <2>3, <2>4, <2>5, MainStep DEF HandlerSteps
  <1>2. CASE Options
    <2> DEFINE r == <<"load">>
    <2>1. Todo = <<"options">> /\ Does("options", r)
      BY <1>2, NextLines DEF ProcessInv
    <2>2. r \in Todos
      BY DEF Todos, MainTodos, Loads, Starting, Drawing, Ending, Undoing, Failing0
    <2>3. Fine(Todo) => Fine(r)'
      BY <1>2, <2>1 DEF Options, Static, vars, Fine, MainTodos, Loads, Starting, Drawing, Ending,
         Undoing, Undone, Resetting, Failing0, Signals
    <2> HIDE DEF r
    <2>4. Alive' /\ Settled'
      BY <1>2, <2>1 DEF Options, Static, Alive, Does, Settled, ProcessInv, ProcessType, Signals
    <2>5. LoaderInv'
      BY <1>2, LoaderStep DEF Options, Static, ProcessInv
    <2> QED BY <2>1, <2>2, <2>3, <2>4, <2>5, MainStep DEF HandlerSteps
  <1>3. CASE NotLoaded
    <2> DEFINE r == <<"message", "test", "endwin", "reset", "atexit", "failure">>
    <2>1. Todo = <<"load">> /\ Does("load", r)
      BY <1>3, NextLines DEF ProcessInv
    <2>2. r \in Todos
      BY DEF Todos, MainTodos, Loads, Starting, Drawing, Ending, Undoing, Failing0
    <2>3. Fine(Todo) => Fine(r)'
      BY <1>3, <2>1 DEF NotLoaded, Static, vars, Fine, MainTodos, Loads, Starting, Drawing, Ending,
         Undoing, Undone, Resetting, Failing0, Signals
    <2> HIDE DEF r
    <2>4. Alive' /\ Settled'
      BY <1>3, <2>1 DEF NotLoaded, Static, Alive, Does, Settled, ProcessInv, ProcessType, Signals
    <2>5. LoaderInv'
      BY <1>3, LoaderStep DEF NotLoaded, Static, ProcessInv
    <2> QED BY <2>1, <2>2, <2>3, <2>4, <2>5, MainStep DEF HandlerSteps
  <1>4. CASE Loaded
    <2> DEFINE r == <<"register", "INT", "TERM", "USR1", "need", "initscr", "loop">>
    <2>1. Todo = <<"load">> /\ Does("load", r)
      BY <1>4, NextLines DEF ProcessInv
    <2>2. r \in Todos
      BY DEF Todos, MainTodos, Loads, Starting, Drawing, Ending, Undoing, Failing0
    <2>3. Fine(Todo) => Fine(r)'
      BY <1>4, <2>1 DEF Loaded, Static, vars, Fine, MainTodos, Loads, Starting, Drawing, Ending,
         Undoing, Undone, Resetting, Failing0, Signals
    <2> HIDE DEF r
    <2>4. Alive' /\ Settled'
      BY <1>4, <2>1 DEF Loaded, Static, Alive, Does, Settled, ProcessInv, ProcessType, Signals
    <2>5. LoaderInv'
      BY <1>4, LoaderStep DEF Loaded, Static, ProcessInv
    <2> QED BY <2>1, <2>2, <2>3, <2>4, <2>5, MainStep DEF HandlerSteps
  <1> QED BY <1>1, <1>2, <1>3, <1>4

(* The start, up to the screen.                                            *)
LEMMA StartingUp ==
    ASSUME ProcessInv,
           \/ Register \/ Install("INT") \/ Install("TERM") \/ Install("USR1")
           \/ Need \/ InitScreen \/ InitScreenFails
    PROVE  ProcessInv'
  <1>1. CASE Register
    <2> DEFINE r == <<"INT", "TERM", "USR1", "need", "initscr", "loop">>
    <2>1. Todo = <<"register", "INT", "TERM", "USR1", "need", "initscr", "loop">> /\ Does("register", r)
      BY <1>1, NextLines DEF ProcessInv
    <2>2. r \in Todos
      BY DEF Todos, MainTodos, Loads, Starting, Drawing, Ending, Undoing, Failing0
    <2>3. Fine(Todo) => Fine(r)'
      BY <1>1, <2>1 DEF Register, Static, vars, Fine, MainTodos, Loads, Starting, Drawing, Ending,
         Undoing, Undone, Resetting, Failing0, Signals
    <2> HIDE DEF r
    <2>4. Alive' /\ Settled'
      BY <1>1, <2>1 DEF Register, Static, Alive, Does, Settled, ProcessInv, ProcessType, Signals
    <2>5. LoaderInv'
      BY <1>1, LoaderStep DEF Register, Static, ProcessInv
    <2> QED BY <2>1, <2>2, <2>3, <2>4, <2>5, MainStep DEF HandlerSteps
  <1>2. CASE Install("INT")
    <2> DEFINE r == <<"TERM", "USR1", "need", "initscr", "loop">>
    <2>1. Todo = <<"INT", "TERM", "USR1", "need", "initscr", "loop">> /\ Does("INT", r)
      BY <1>2, NextLines DEF ProcessInv
    <2>2. r \in Todos
      BY DEF Todos, MainTodos, Loads, Starting, Drawing, Ending, Undoing, Failing0
    <2>3. Fine(Todo) => Fine(r)'
      BY <1>2, <2>1 DEF Install, Static, vars, Fine, MainTodos, Loads, Starting, Drawing, Ending,
         Undoing, Undone, Resetting, Failing0, Signals
    <2> HIDE DEF r
    <2>4. Alive' /\ Settled'
      BY <1>2, <2>1 DEF Install, Static, Alive, Does, Settled, ProcessInv, ProcessType, Signals
    <2>5. LoaderInv'
      BY <1>2, LoaderStep DEF Install, Static, ProcessInv
    <2> QED BY <2>1, <2>2, <2>3, <2>4, <2>5, MainStep DEF HandlerSteps
  <1>3. CASE Install("TERM")
    <2> DEFINE r == <<"USR1", "need", "initscr", "loop">>
    <2>1. Todo = <<"TERM", "USR1", "need", "initscr", "loop">> /\ Does("TERM", r)
      BY <1>3, NextLines DEF ProcessInv
    <2>2. r \in Todos
      BY DEF Todos, MainTodos, Loads, Starting, Drawing, Ending, Undoing, Failing0
    <2>3. Fine(Todo) => Fine(r)'
      BY <1>3, <2>1 DEF Install, Static, vars, Fine, MainTodos, Loads, Starting, Drawing, Ending,
         Undoing, Undone, Resetting, Failing0, Signals
    <2> HIDE DEF r
    <2>4. Alive' /\ Settled'
      BY <1>3, <2>1 DEF Install, Static, Alive, Does, Settled, ProcessInv, ProcessType, Signals
    <2>5. LoaderInv'
      BY <1>3, LoaderStep DEF Install, Static, ProcessInv
    <2> QED BY <2>1, <2>2, <2>3, <2>4, <2>5, MainStep DEF HandlerSteps
  <1>4. CASE Install("USR1")
    <2> DEFINE r == <<"need", "initscr", "loop">>
    <2>1. Todo = <<"USR1", "need", "initscr", "loop">> /\ Does("USR1", r)
      BY <1>4, NextLines DEF ProcessInv
    <2>2. r \in Todos
      BY DEF Todos, MainTodos, Loads, Starting, Drawing, Ending, Undoing, Failing0
    <2>3. Fine(Todo) => Fine(r)'
      <3>1. {"INT", "TERM"} \subseteq handled => handled' = Signals
        BY <1>4 DEF Install, ProcessInv, ProcessType, Signals
      <3> QED BY <1>4, <2>1, <3>1 DEF Install, vars, Fine, MainTodos, Loads, Starting, Drawing, Ending,
                                  Undoing, Undone, Resetting, Failing0
    <2> HIDE DEF r
    <2>4. Alive' /\ Settled'
      BY <1>4, <2>1 DEF Install, Static, Alive, Does, Settled, ProcessInv, ProcessType, Signals
    <2>5. LoaderInv'
      BY <1>4, LoaderStep DEF Install, Static, ProcessInv
    <2> QED BY <2>1, <2>2, <2>3, <2>4, <2>5, MainStep DEF HandlerSteps
  <1>5. CASE Need
    <2> DEFINE r == <<"initscr", "loop">>
    <2>1. Todo = <<"need", "initscr", "loop">> /\ Does("need", r)
      BY <1>5, NextLines DEF ProcessInv
    <2>2. r \in Todos
      BY DEF Todos, MainTodos, Loads, Starting, Drawing, Ending, Undoing, Failing0
    <2>3. Fine(Todo) => Fine(r)'
      BY <1>5, <2>1 DEF Need, Static, vars, Fine, MainTodos, Loads, Starting, Drawing, Ending,
         Undoing, Undone, Resetting, Failing0, Signals
    <2> HIDE DEF r
    <2>4. Alive' /\ Settled'
      BY <1>5, <2>1 DEF Need, Static, Alive, Does, Settled, ProcessInv, ProcessType, Signals
    <2>5. LoaderInv'
      BY <1>5, LoaderStep DEF Need, Static, ProcessInv
    <2> QED BY <2>1, <2>2, <2>3, <2>4, <2>5, MainStep DEF HandlerSteps
  <1>6. CASE InitScreen
    <2> DEFINE r == <<"loop">>
    <2>1. Todo = <<"initscr", "loop">> /\ Does("initscr", r)
      BY <1>6, NextLines DEF ProcessInv
    <2>2. r \in Todos
      BY DEF Todos, MainTodos, Loads, Starting, Drawing, Ending, Undoing, Failing0
    <2>3. Fine(Todo) => Fine(r)'
      BY <1>6, <2>1 DEF InitScreen, Static, vars, Fine, MainTodos, Loads, Starting, Drawing, Ending,
         Undoing, Undone, Resetting, Failing0, Signals
    <2> HIDE DEF r
    <2>4. Alive' /\ Settled'
      BY <1>6, <2>1 DEF InitScreen, Static, Alive, Does, Settled, ProcessInv, ProcessType, Signals
    <2>5. LoaderInv'
      BY <1>6, LoaderStep DEF InitScreen, Static, ProcessInv
    <2> QED BY <2>1, <2>2, <2>3, <2>4, <2>5, MainStep DEF HandlerSteps
  <1>7. CASE InitScreenFails
    <2> DEFINE r == <<"message", "atexit", "failure">>
    <2>1. Todo = <<"initscr", "loop">> /\ Does("initscr", r)
      BY <1>7, NextLines DEF ProcessInv
    <2>2. r \in Todos
      BY DEF Todos, MainTodos, Loads, Starting, Drawing, Ending, Undoing, Failing0
    <2>3. Fine(Todo) => Fine(r)'
      BY <1>7, <2>1 DEF InitScreenFails, Static, vars, Fine, MainTodos, Loads, Starting, Drawing, Ending,
         Undoing, Undone, Resetting, Failing0, Signals
    <2> HIDE DEF r
    <2>4. Alive' /\ Settled'
      BY <1>7, <2>1 DEF InitScreenFails, Static, Alive, Does, Settled, ProcessInv, ProcessType, Signals
    <2>5. LoaderInv'
      BY <1>7, LoaderStep DEF InitScreenFails, Static, ProcessInv
    <2> QED BY <2>1, <2>2, <2>3, <2>4, <2>5, MainStep DEF HandlerSteps
  <1> QED BY <1>1, <1>2, <1>3, <1>4, <1>5, <1>6, <1>7

(* The loop, and the ways out of it.                                       *)
LEMMA WhileDrawing ==
    ASSUME ProcessInv, Refresh \/ Quit \/ Destroy \/ Free \/ MachineError
    PROVE  ProcessInv'
  <1>1. CASE Refresh
    <2> DEFINE r == <<"loop">>
    <2>1. Todo = <<"loop">> /\ Does("loop", r)
      BY <1>1, NextLines DEF ProcessInv
    <2>2. r \in Todos
      BY DEF Todos, MainTodos, Loads, Starting, Drawing, Ending, Undoing, Failing0
    <2>3. Fine(Todo) => Fine(r)'
      BY <1>1, <2>1 DEF Refresh, Static, vars, Fine, MainTodos, Loads, Starting, Drawing, Ending,
         Undoing, Undone, Resetting, Failing0, Signals
    <2> HIDE DEF r
    <2>4. Alive' /\ Settled'
      BY <1>1, <2>1 DEF Refresh, Static, Alive, Does, Settled, ProcessInv, ProcessType, Signals
    <2>5. LoaderInv'
      BY <1>1, LoaderStep DEF Refresh, Static, ProcessInv
    <2> QED BY <2>1, <2>2, <2>3, <2>4, <2>5, MainStep DEF HandlerSteps
  <1>2. CASE Quit
    <2> DEFINE r == <<"destroy", "free", "test", "endwin", "reset", "atexit", "success">>
    <2>1. Todo = <<"loop">> /\ Does("loop", r)
      BY <1>2, NextLines DEF ProcessInv
    <2>2. r \in Todos
      BY DEF Todos, MainTodos, Loads, Starting, Drawing, Ending, Undoing, Failing0
    <2>3. Fine(Todo) => Fine(r)'
      BY <1>2, <2>1 DEF Quit, Static, vars, Fine, MainTodos, Loads, Starting, Drawing, Ending,
         Undoing, Undone, Resetting, Failing0, Signals
    <2> HIDE DEF r
    <2>4. Alive' /\ Settled'
      BY <1>2, <2>1 DEF Quit, Static, Alive, Does, Settled, ProcessInv, ProcessType, Signals
    <2>5. LoaderInv'
      BY <1>2, LoaderStep DEF Quit, Static, ProcessInv
    <2> QED BY <2>1, <2>2, <2>3, <2>4, <2>5, MainStep DEF HandlerSteps
  <1>3. CASE Destroy
    <2> DEFINE r == <<"free", "test", "endwin", "reset", "atexit", "success">>
    <2>1. Todo = <<"destroy", "free", "test", "endwin", "reset", "atexit", "success">> /\ Does("destroy", r)
      BY <1>3, NextLines DEF ProcessInv
    <2>2. r \in Todos
      BY DEF Todos, MainTodos, Loads, Starting, Drawing, Ending, Undoing, Failing0
    <2>3. Fine(Todo) => Fine(r)'
      BY <1>3, <2>1 DEF Destroy, Static, vars, Fine, MainTodos, Loads, Starting, Drawing, Ending,
         Undoing, Undone, Resetting, Failing0, Signals
    <2> HIDE DEF r
    <2>4. Alive' /\ Settled'
      BY <1>3, <2>1 DEF Destroy, Static, Alive, Does, Settled, ProcessInv, ProcessType, Signals
    <2>5. LoaderInv'
      <3>1. at = "running"
        BY <2>1, AtRunning DEF Does, Alive
      <3> QED BY <1>3, <3>1 DEF Destroy, ProcessInv, LoaderInv, LoaderType, ReadInFull, NothingCopied,
            CopiedInOrder, AcceptedInFull, BufferKept, ProgramKept, Holding, Final
    <2> QED BY <2>1, <2>2, <2>3, <2>4, <2>5, MainStep DEF HandlerSteps
  <1>4. CASE Free
    <2> DEFINE r == <<"test", "endwin", "reset", "atexit", "success">>
    <2>1. Todo = <<"free", "test", "endwin", "reset", "atexit", "success">> /\ Does("free", r)
      BY <1>4, NextLines DEF ProcessInv
    <2>2. r \in Todos
      BY DEF Todos, MainTodos, Loads, Starting, Drawing, Ending, Undoing, Failing0
    <2>3. Fine(Todo) => Fine(r)'
      BY <1>4, <2>1 DEF Free, Static, vars, Fine, MainTodos, Loads, Starting, Drawing, Ending,
         Undoing, Undone, Resetting, Failing0, Signals
    <2> HIDE DEF r
    <2>4. Alive' /\ Settled'
      BY <1>4, <2>1 DEF Free, Static, Alive, Does, Settled, ProcessInv, ProcessType, Signals
    <2>5. LoaderInv'
      <3>1. at = "running"
        BY <2>1, AtRunning DEF Does, Alive
      <3> QED BY <1>4, <3>1 DEF Free, ProcessInv, LoaderInv, LoaderType, ReadInFull, NothingCopied,
            CopiedInOrder, AcceptedInFull, BufferKept, ProgramKept, Holding, Final
    <2> QED BY <2>1, <2>2, <2>3, <2>4, <2>5, MainStep DEF HandlerSteps
  <1>5. CASE MachineError
    <2> DEFINE r == <<"kill", "message", "atexit", "failure">>
    <2>1. Todo = <<"loop">> /\ Does("loop", r)
      BY <1>5, NextLines DEF ProcessInv
    <2>2. r \in Todos
      BY DEF Todos, MainTodos, Loads, Starting, Drawing, Ending, Undoing, Failing0
    <2>3. Fine(Todo) => Fine(r)'
      BY <1>5, <2>1 DEF MachineError, Static, vars, Fine, MainTodos, Loads, Starting, Drawing, Ending,
         Undoing, Undone, Resetting, Failing0, Signals
    <2> HIDE DEF r
    <2>4. Alive' /\ Settled'
      BY <1>5, <2>1 DEF MachineError, Static, Alive, Does, Settled, ProcessInv, ProcessType, Signals
    <2>5. LoaderInv'
      BY <1>5, LoaderStep DEF MachineError, Static, ProcessInv
    <2> QED BY <2>1, <2>2, <2>3, <2>4, <2>5, MainStep DEF HandlerSteps
  <1> QED BY <1>1, <1>2, <1>3, <1>4, <1>5

-----------------------------------------------------------------------------
(* The end of a frame: the cleanup and the exit, of the main program or of *)
(* a handler.                                                              *)

(* t and then r are what is left of the same end.                          *)
Follows(t, r) ==
    /\ \A code \in Codes : t \in Ending(code) => r \in Ending(code)
    /\ t \in Cleaning => r \in Cleaning

(* What gives the terminal back at t is still to come at r.                *)
StillUndoing(t, r) ==
    /\ t \in Undoing("success") => r \in Undoing("success")
    /\ t \in UndoingOnly => r \in UndoingOnly

LEMMA TestMoves ==
    ASSUME NEW t \in Todos, t # <<>>, Head(t) = "test"
    PROVE  /\ t \in Ending("success") \cup Ending("failure") \cup Cleaning
           /\ Follows(t, Tail(t)) /\ StillUndoing(t, Tail(t)) /\ Tail(t) \notin Resetting
           /\ Follows(t, SubSeq(t, 4, Len(t))) /\ SubSeq(t, 4, Len(t)) \notin Resetting
  <1> USE DEF Follows, StillUndoing, Ending, Cleaning, Undoing, Undone, UndoingOnly, UndoneOnly,
              Resetting, Codes
  <1>1. CASE t = <<"test", "endwin", "reset">>
    BY <1>1, Tails, Skips
  <1>2. ASSUME NEW code \in Codes, t = <<"test", "endwin", "reset", code>>
        PROVE  /\ t \in Ending("success") \cup Ending("failure") \cup Cleaning
               /\ Follows(t, Tail(t)) /\ StillUndoing(t, Tail(t)) /\ Tail(t) \notin Resetting
               /\ Follows(t, SubSeq(t, 4, Len(t))) /\ SubSeq(t, 4, Len(t)) \notin Resetting
    <2>1. Tail(t) = <<"endwin", "reset", code>> /\ SubSeq(t, 4, Len(t)) = <<code>>
      BY <1>2, Tails, Skips
    <2> QED BY <1>2, <2>1
  <1>3. ASSUME NEW code \in Codes, t = <<"test", "endwin", "reset", "atexit", code>>
        PROVE  /\ t \in Ending("success") \cup Ending("failure") \cup Cleaning
               /\ Follows(t, Tail(t)) /\ StillUndoing(t, Tail(t)) /\ Tail(t) \notin Resetting
               /\ Follows(t, SubSeq(t, 4, Len(t))) /\ SubSeq(t, 4, Len(t)) \notin Resetting
    <2>1. /\ Tail(t) = <<"endwin", "reset", "atexit", code>>
          /\ SubSeq(t, 4, Len(t)) = <<"atexit", code>>
      BY <1>3, Tails, Skips
    <2> QED BY <1>3, <2>1
  <1> QED BY <1>1, <1>2, <1>3, ByHead

LEMMA EndWinMoves ==
    ASSUME NEW t \in Todos, t # <<>>, Head(t) = "endwin"
    PROVE  /\ t \in Ending("success") \cup Ending("failure") \cup Cleaning
           /\ Follows(t, Tail(t))
  <1> USE DEF Follows, Ending, Cleaning, Undoing, Undone, UndoingOnly, UndoneOnly, Codes
  <1>1. CASE t = <<"endwin", "reset">>
    <2>1. Tail(t) = <<"reset">>
      BY <1>1, Tails
    <2> QED BY <1>1, <2>1
  <1>2. ASSUME NEW code \in Codes, t = <<"endwin", "reset", code>>
        PROVE  /\ t \in Ending("success") \cup Ending("failure") \cup Cleaning
               /\ Follows(t, Tail(t))
    <2>1. Tail(t) = <<"reset", code>>
      BY <1>2, Tails
    <2> QED BY <1>2, <2>1
  <1>3. ASSUME NEW code \in Codes, t = <<"endwin", "reset", "atexit", code>>
        PROVE  /\ t \in Ending("success") \cup Ending("failure") \cup Cleaning
               /\ Follows(t, Tail(t))
    <2>1. Tail(t) = <<"reset", "atexit", code>>
      BY <1>3, Tails
    <2> QED BY <1>3, <2>1
  <1> QED BY <1>1, <1>2, <1>3, ByHead

LEMMA ResetMoves ==
    ASSUME NEW t \in Resetting
    PROVE  /\ t \in Ending("success") \cup Ending("failure") \cup Cleaning
           /\ Follows(t, Tail(t)) /\ Tail(t) \notin Resetting
           /\ t \notin Drawing /\ t \notin Undoing("success") /\ t \notin UndoingOnly
  <1> USE DEF Follows, Ending, Cleaning, Undoing, Undone, UndoingOnly, UndoneOnly, Codes,
              Resetting, Drawing
  <1>1. CASE t = <<"reset">>
    <2>1. Tail(t) = <<>>
      BY <1>1, Tails
    <2> QED BY <1>1, <2>1
  <1>2. ASSUME NEW code \in Codes, t = <<"reset", code>>
        PROVE  /\ t \in Ending("success") \cup Ending("failure") \cup Cleaning
               /\ Follows(t, Tail(t)) /\ Tail(t) \notin Resetting
               /\ t \notin Drawing /\ t \notin Undoing("success") /\ t \notin UndoingOnly
    <2>1. Tail(t) = <<code>>
      BY <1>2, Tails
    <2> QED BY <1>2, <2>1
  <1>3. ASSUME NEW code \in Codes, t = <<"reset", "atexit", code>>
        PROVE  /\ t \in Ending("success") \cup Ending("failure") \cup Cleaning
               /\ Follows(t, Tail(t)) /\ Tail(t) \notin Resetting
               /\ t \notin Drawing /\ t \notin Undoing("success") /\ t \notin UndoingOnly
    <2>1. Tail(t) = <<"atexit", code>>
      BY <1>3, Tails
    <2> QED BY <1>3, <2>1
  <1> QED BY <1>1, <1>2, <1>3

LEMMA AtExitMoves ==
    ASSUME NEW code \in Codes, NEW r \in {<<code>>, <<"test", "endwin", "reset", code>>}
    PROVE  LET t == <<"atexit", code>>
           IN  /\ t \in Ending("success") \cup Ending("failure")
               /\ Follows(t, r) /\ r \notin Resetting
               /\ t \notin Drawing /\ t \notin Undoing("success") /\ t \notin UndoingOnly
  BY DEF Follows, Ending, Cleaning, Undoing, Undone, UndoingOnly, UndoneOnly, Codes,
         Resetting, Drawing

(* The end of a frame is nothing but cleanup and exit.                     *)
LEMMA EndHeads ==
    ASSUME NEW t, t \in Ending("success") \cup Ending("failure") \cup Cleaning
    PROVE  t \notin Loads /\ t \notin Starting /\ t \notin Drawing
  <1> DEFINE Heads == HandlerSteps \cup {"failure"}
  <1>1. t # <<>> => Head(t) \in Heads
    <2>1. CASE t \in Ending("success")
      BY <2>1, Tails DEF Ending, Undoing, Undone, HandlerSteps
    <2>2. CASE t \in Ending("failure")
      BY <2>2, Tails DEF Ending, Undoing, Undone, HandlerSteps
    <2>3. CASE t \in Cleaning
      BY <2>3, Tails DEF Cleaning, UndoingOnly, UndoneOnly, HandlerSteps
    <2> QED BY <2>1, <2>2, <2>3
  <1>2. ASSUME t \in Loads PROVE t # <<>> /\ Head(t) \notin Heads
    BY <1>2, Tails DEF Loads, Failing0, HandlerSteps
  <1>3. ASSUME t \in Starting PROVE t # <<>> /\ Head(t) \notin Heads
    BY <1>3, Tails DEF Starting, HandlerSteps
  <1>4. ASSUME t \in Drawing PROVE t # <<>> /\ Head(t) \notin Heads
    BY <1>4, Tails DEF Drawing, HandlerSteps
  <1> QED BY <1>1, <1>2, <1>3, <1>4

LEMMA EndStep ==
    ASSUME ProcessInv, NEW step, NEW r, Does(step, r),
           Todo \in Ending("success") \cup Ending("failure") \cup Cleaning,
           Follows(Todo, r), UNCHANGED <<vars, handled, status>>,
           terminal' \in {"normal", "curses"}, need_cleanup' \in BOOLEAN,
           terminal' = "curses" => terminal = "curses" /\ need_cleanup' /\ StillUndoing(Todo, r),
           r \in Resetting => terminal' = "normal"
    PROVE  ProcessInv'
  <1> DEFINE n == Len(stack)
  <1>1. r \in Todos /\ r \in Ending("success") \cup Ending("failure") \cup Cleaning
    BY DEF Follows, Codes, Todos, MainTodos
  <1>2. /\ Alive /\ Todo = stack[n].todo /\ n \in Nat /\ n >= 1
        /\ stack' \in Seq(Frame) /\ Len(stack') = n
        /\ stack'[n].todo = r /\ stack'[n].sig = stack[n].sig
        /\ \A i \in 1..n : i # n => stack'[i] = stack[i]
    BY <1>1, TopMoves, TopType DEF ProcessInv
  <1>3. Alive' /\ LoaderInv' /\ ProcessType'
    BY <1>2, LoaderStep DEF ProcessInv, ProcessType, Alive
  <1>4. /\ r \notin Loads /\ r \notin Starting /\ r \notin Drawing
        /\ Todo \notin Loads /\ Todo \notin Starting /\ Todo \notin Drawing
    BY <1>1, EndHeads
  <1>5. CASE n = 1
    <2>1. stack[1].todo = Todo /\ stack'[1].todo = r /\ Len(stack') = 1
      BY <1>2, <1>5
    <2>2. Fine(Todo)
      BY <1>2, <1>5, <2>1, FineNow
    <2>3. r \in MainTodos
      BY <1>4, <2>2 DEF Fine, MainTodos, Follows, Codes
    <2>4. /\ <<"TERM", "USR1", "need", "initscr", "loop">> \in Starting
          /\ <<"USR1", "need", "initscr", "loop">> \in Starting
          /\ <<"need", "initscr", "loop">> \in Starting /\ <<"initscr", "loop">> \in Starting
          /\ <<"loop">> \in Drawing
      BY DEF Starting, Drawing
    <2>5. Fine(r)'
      <3>1. terminal' = "curses" =>
               need_cleanup' /\ handled' = Signals /\ r \in Drawing \cup Undoing("success")
        BY <1>4, <2>2 DEF Fine, StillUndoing
      <3>2. r \in Resetting => terminal' = "normal"
        OBVIOUS
      <3> QED BY <1>4, <2>3, <2>4, <3>1, <3>2, Zenon DEF Fine
    <2> QED BY <1>3, <2>1, <2>5, FineNext DEF ProcessInv
  <1>6. CASE n > 1
    <2>1. /\ stack'[1] = stack[1] /\ 1 \in 1..n /\ n \in 2..n /\ Len(stack') # 1
          /\ \A i \in 2..n : i # n => stack'[i] = stack[i]
      BY <1>2, <1>6
    <2>2. Frames'
      <3>1. stack'[1].todo \in MainTodos
        BY <1>2, <2>1 DEF ProcessInv, Frames
      <3>2. ASSUME NEW i \in 2..n
            PROVE  \/ stack'[i].sig \in {"INT", "TERM"} /\ stack'[i].todo \in Ending("success")
                   \/ /\ i = 2 /\ stack'[i].sig = "USR1" /\ stack'[i].todo \in Cleaning
                      /\ stack'[1].todo = Failing0
        <4>1. \/ stack[i].sig \in {"INT", "TERM"} /\ stack[i].todo \in Ending("success")
              \/ /\ i = 2 /\ stack[i].sig = "USR1" /\ stack[i].todo \in Cleaning
                 /\ stack[1].todo = Failing0
          BY <1>2 DEF ProcessInv, Frames
        <4>2. CASE i # n
          BY <2>1, <4>1, <4>2
        <4>3. CASE i = n
          BY <1>2, <2>1, <4>1, <4>3 DEF Follows, Codes
        <4> QED BY <4>2, <4>3
      <3> QED BY <1>2, <3>1, <3>2 DEF Frames
    <2>3. Prepared'
      BY <1>2, <2>1 DEF ProcessInv, Prepared, Alive, vars
    <2>4. GivenBack'
      <3>1. ASSUME terminal' = "curses"
            PROVE  /\ need_cleanup' /\ handled' = Signals
                   /\ \A i \in 2..n : stack'[i].todo \in Undoing("success") \cup UndoingOnly
        <4>1. /\ handled' = Signals
              /\ \A i \in 2..n : stack[i].todo \in Undoing("success") \cup UndoingOnly
          BY <1>2, <3>1 DEF ProcessInv, GivenBack
        <4>2. ASSUME NEW i \in 2..n
              PROVE  stack'[i].todo \in Undoing("success") \cup UndoingOnly
          <5>1. CASE i # n
            BY <2>1, <4>1, <5>1
          <5>2. CASE i = n
            BY <1>2, <3>1, <4>1, <5>2 DEF StillUndoing
          <5> QED BY <5>1, <5>2
        <4> QED BY <3>1, <4>1, <4>2
      <3>2. ASSUME NEW i \in 1..n, stack'[i].todo \in Resetting PROVE terminal' = "normal"
        <4>1. CASE i # n
          <5>1. terminal = "normal"
            BY <1>2, <3>2, <4>1 DEF ProcessInv, GivenBack
          <5> QED BY <5>1
        <4>2. CASE i = n
          BY <1>2, <3>2, <4>2
        <4> QED BY <4>1, <4>2
      <3> QED BY <1>2, <1>3, <2>1, <3>1, <3>2 DEF GivenBack, TerminalRestored, Alive
    <2> QED BY <1>3, <2>2, <2>3, <2>4 DEF ProcessInv
  <1> QED BY <1>2, <1>5, <1>6

(* What has the terminal back to do when curses has it.                    *)
LEMMA Giving ==
    ASSUME ProcessInv, Alive, terminal = "curses"
    PROVE  Todo \in Drawing \cup Undoing("success") \cup UndoingOnly
  <1>1. Len(stack) \in Nat /\ Len(stack) >= 1 /\ Todo = stack[Len(stack)].todo
    BY TopType DEF ProcessInv
  <1>2. CASE Len(stack) = 1
    BY <1>1, <1>2 DEF ProcessInv, GivenBack
  <1>3. CASE Len(stack) > 1
    <2>1. Len(stack) \in 2..Len(stack)
      BY <1>1, <1>3
    <2> QED BY <1>1, <2>1 DEF ProcessInv, GivenBack
  <1>4. Len(stack) = 1 \/ Len(stack) > 1
    <2> DEFINE n == Len(stack)
    <2>1. n \in Nat /\ n >= 1
      BY <1>1
    <2> HIDE DEF n
    <2>2. n = 1 \/ n > 1
      BY <2>1
    <2> QED BY <2>2 DEF n
  <1> QED BY <1>2, <1>3, <1>4, Zenon

LEMMA Ends ==
    ASSUME ProcessInv, Test \/ EndWin \/ Reset \/ AtExit
    PROVE  ProcessInv'
  <1>1. Todo \in Todos /\ Todo = stack[Len(stack)].todo /\ Len(stack) \in 1..Len(stack)
    BY TopType DEF ProcessInv
  <1>2. terminal \in {"normal", "curses"} /\ need_cleanup \in BOOLEAN
    BY DEF ProcessInv, ProcessType
  <1>3. CASE Test
    <2> DEFINE r == IF need_cleanup THEN Tail(Todo) ELSE SubSeq(Todo, 4, Len(Todo))
    <2>1. /\ Does("test", r) /\ Alive /\ Todo # <<>> /\ Head(Todo) = "test"
          /\ UNCHANGED <<vars, terminal, need_cleanup, handled, status>>
      BY <1>3 DEF Test, Static, Does, Alive
    <2>2. /\ Todo \in Ending("success") \cup Ending("failure") \cup Cleaning
          /\ Follows(Todo, r) /\ r \notin Resetting
          /\ need_cleanup => StillUndoing(Todo, r)
      BY <1>1, <2>1, TestMoves
    <2>3. terminal = "curses" => need_cleanup
      BY <2>1 DEF ProcessInv, GivenBack
    <2> HIDE DEF r
    <2> QED BY <1>2, <2>1, <2>2, <2>3, EndStep
  <1>4. CASE EndWin
    <2> DEFINE r == Tail(Todo)
    <2>1. /\ Does("endwin", r) /\ Todo # <<>> /\ Head(Todo) = "endwin"
          /\ terminal' = "normal" /\ UNCHANGED <<vars, need_cleanup, handled, status>>
      BY <1>4 DEF EndWin, Passes, Does
    <2>2. /\ Todo \in Ending("success") \cup Ending("failure") \cup Cleaning
          /\ Follows(Todo, r)
      BY <1>1, <2>1, EndWinMoves
    <2> HIDE DEF r
    <2> QED BY <1>2, <2>1, <2>2, EndStep
  <1>5. CASE Reset
    <2> DEFINE r == Tail(Todo)
    <2>1. /\ Does("reset", r) /\ Alive /\ Todo # <<>> /\ Head(Todo) = "reset"
          /\ need_cleanup' = FALSE /\ UNCHANGED <<vars, terminal, handled, status>>
      BY <1>5 DEF Reset, Passes, Does, Alive
    <2>2. Todo \in Resetting
      BY <1>1, <2>1, ByHead
    <2>3. terminal = "normal"
      BY <1>1, <2>1, <2>2 DEF ProcessInv, GivenBack
    <2>4. /\ Todo \in Ending("success") \cup Ending("failure") \cup Cleaning
          /\ Follows(Todo, r)
      BY <2>2, ResetMoves
    <2> HIDE DEF r
    <2> QED BY <2>1, <2>3, <2>4, EndStep
  <1>6. CASE AtExit
    <2> DEFINE r == (IF registered THEN Cleanup ELSE <<>>) \o Tail(Todo)
    <2>1. /\ Does("atexit", r) /\ Alive /\ Todo # <<>> /\ Head(Todo) = "atexit"
          /\ UNCHANGED <<vars, terminal, need_cleanup, handled, status>>
      BY <1>6 DEF AtExit, Does, Alive
    <2>2. PICK code \in Codes : Todo = <<"atexit", code>>
      BY <1>1, <2>1, ByHead
    <2>3. r \in {<<code>>, <<"test", "endwin", "reset", code>>}
      <3>1. Tail(Todo) = <<code>>
        BY <2>2, Tails
      <3> QED BY <3>1, Programs, Zenon
    <2> HIDE DEF r
    <2>4. /\ Todo \in Ending("success") \cup Ending("failure") \cup Cleaning
          /\ Follows(Todo, r) /\ r \notin Resetting
          /\ Todo \notin Drawing /\ Todo \notin Undoing("success") /\ Todo \notin UndoingOnly
      BY <2>2, <2>3, AtExitMoves
    <2>5. terminal # "curses"
      BY <2>1, <2>4, Giving
    <2> QED BY <1>2, <2>1, <2>4, <2>5, EndStep
  <1> QED BY <1>3, <1>4, <1>5, <1>6

-----------------------------------------------------------------------------
(* The steps that are left.                                                *)

(* The process is gone.                                                    *)
LEMMA Gone ==
    ASSUME ProcessType', LoaderInv', ~Alive',
           terminal' = "normal" \/ status' \in {"crashed", "aborted"}
    PROVE  ProcessInv'
  BY DEF ProcessInv, Frames, Prepared, GivenBack, TerminalRestored

LEMMA NothingLeft == <<>> \in Todos
  BY DEF Todos, Cleaning, UndoneOnly

LEMMA Dying ==
    ASSUME ProcessInv, Crash \/ Abort \/ \E code \in Codes : End(code)
    PROVE  ProcessInv'
  <1>1. CASE Crash
    <2>1. /\ Does("load", <<>>) /\ ~Alive' /\ status' = "crashed"
          /\ UNCHANGED <<vars, terminal, need_cleanup, handled>>
      BY <1>1 DEF Crash, Alive
    <2>2. ProcessType'
      BY <2>1, TopMoves, NothingLeft DEF ProcessInv, ProcessType
    <2> QED BY <2>1, <2>2, LoaderStep, Gone DEF ProcessInv
  <1>2. CASE Abort
    <2>1. /\ Does("loop", <<>>) /\ ~Alive' /\ status' = "aborted"
          /\ UNCHANGED <<vars, terminal, need_cleanup, handled>>
      BY <1>2 DEF Abort, Alive
    <2>2. ProcessType'
      BY <2>1, TopMoves, NothingLeft DEF ProcessInv, ProcessType
    <2> QED BY <2>1, <2>2, LoaderStep, Gone DEF ProcessInv
  <1>3. ASSUME NEW code \in Codes, End(code) PROVE ProcessInv'
    <2>1. /\ Does(code, Tail(Todo)) /\ Alive /\ Todo # <<>> /\ Head(Todo) = code
          /\ ~Alive' /\ UNCHANGED <<vars, terminal, need_cleanup, handled>>
      BY <1>3 DEF End, Passes, Does, Alive, Codes
    <2>2. Todo = <<code>>
      BY <2>1, TopType, ByHead DEF ProcessInv
    <2>3. Tail(Todo) = <<>>
      BY <2>2, Tails
    <2>4. Todo \notin Drawing \cup Undoing("success") \cup UndoingOnly
      BY <2>2 DEF Drawing, Undoing, UndoingOnly, Codes
    <2>5. terminal' = "normal"
      BY <2>1, <2>4, Giving DEF ProcessInv, ProcessType
    <2>6. ProcessType'
      BY <2>1, <2>3, TopMoves, NothingLeft DEF ProcessInv, ProcessType
    <2> QED BY <2>1, <2>5, <2>6, LoaderStep, Gone DEF ProcessInv
  <1> QED BY <1>1, <1>2, <1>3

(* The loader runs while there is nothing to give back.                    *)
LEMMA LoadingStep ==
    ASSUME ProcessInv, Loading
    PROVE  ProcessInv'
  <1>1. Alive /\ Alive' /\ Todo = <<"load">> /\ UNCHANGED process
    BY DEF Loading, process, Alive
  <1>2. Len(stack) = 1 /\ stack[1].todo = <<"load">>
    BY <1>1, Tails, MainIsTop DEF HandlerSteps
  <1>3. Fine(<<"load">>)
    BY <1>1, <1>2, FineNow
  <1>4. <<"load">> \notin Starting /\ <<"load">> \notin Drawing
    BY DEF Starting, Drawing
  <1>5. Fine(<<"load">>)'
    BY <1>1, <1>3, <1>4 DEF Fine, process
  <1>6. ProcessType' /\ LoaderInv'
    BY <1>1, LoaderStep DEF Loading, ProcessInv, ProcessType, process
  <1>7. Len(stack') = 1 /\ stack'[1].todo = <<"load">>
    BY <1>1, <1>2 DEF process
  <1> QED BY <1>1, <1>5, <1>6, <1>7, FineNext DEF ProcessInv

LEMMA MessageStep ==
    ASSUME ProcessInv, Message
    PROVE  ProcessInv'
  <1>1. /\ Does("message", Tail(Todo)) /\ Alive /\ Alive' /\ Todo # <<>>
        /\ Head(Todo) = "message" /\ UNCHANGED <<vars, terminal, need_cleanup, handled, status>>
    BY DEF Message, Passes, Does, Alive
  <1>2. Todo \in {Failing0, <<"message", "test", "endwin", "reset", "atexit", "failure">>}
    BY <1>1, TopType, ByHead DEF ProcessInv
  <1>3. Todo \notin Drawing /\ Todo \notin Undoing("success")
    BY <1>2 DEF Drawing, Undoing, Failing0
  <1>4. PICK r \in {<<"atexit", "failure">>, <<"test", "endwin", "reset", "atexit", "failure">>} :
           Tail(Todo) = r
    <2>1. CASE Todo = <<"message", "atexit", "failure">>
      BY <2>1, Tails
    <2>2. CASE Todo = <<"message", "test", "endwin", "reset", "atexit", "failure">>
      BY <2>2, Tails
    <2> QED BY <1>2, <2>1, <2>2 DEF Failing0
  <1>5. r \in Ending("failure") /\ r \notin Resetting
    BY DEF Ending, Undoing, Undone, Resetting
  <1>6. r \notin Starting /\ r \notin Drawing /\ r \in MainTodos /\ r \in Todos
    BY <1>5, EndHeads DEF MainTodos, Todos
  <1>7. Fine(Todo) => Fine(r)'
    <2> HAVE Fine(Todo)
    <2>1. /\ <<"TERM", "USR1", "need", "initscr", "loop">> \in Starting
          /\ <<"USR1", "need", "initscr", "loop">> \in Starting
          /\ <<"need", "initscr", "loop">> \in Starting /\ <<"initscr", "loop">> \in Starting
          /\ <<"loop">> \in Drawing
      BY DEF Starting, Drawing
    <2>2. /\ terminal' = "curses" =>
                need_cleanup' /\ handled' = Signals /\ r \in Drawing \cup Undoing("success")
          /\ r \in Resetting => terminal' = "normal"
      BY <1>1, <1>3, <1>5 DEF Fine
    <2> QED BY <1>6, <2>1, <2>2, Zenon DEF Fine
  <1>8. Settled' /\ LoaderInv'
    BY <1>1, LoaderStep DEF Settled, ProcessInv, ProcessType
  <1>9. Does("message", r)
    BY <1>1, <1>4
  <1> QED BY <1>1, <1>6, <1>7, <1>8, <1>9, MainStep DEF HandlerSteps

(* One frame more.                                                         *)
LEMMA Pushed ==
    ASSUME NEW s \in Seq(Frame), NEW f \in Frame, NEW t, t = Append(s, f), Len(s) >= 1
    PROVE  /\ t \in Seq(Frame) /\ Len(t) = Len(s) + 1 /\ Len(t) > 1
           /\ t[Len(t)] = f /\ \A i \in 1..Len(s) : t[i] = s[i]
  OBVIOUS

LEMMA HandlerFrames ==
    /\ \A sig \in {"INT", "TERM"} :
          /\ Handler(sig) \in Ending("success") /\ Handler(sig) \in Undoing("success")
          /\ Handler(sig) \notin Resetting
          /\ [sig |-> sig, todo |-> Handler(sig)] \in Frame
    /\ Handler("USR1") \in Cleaning /\ Handler("USR1") \in UndoingOnly
    /\ Handler("USR1") \notin Resetting
    /\ [sig |-> "USR1", todo |-> Handler("USR1")] \in Frame
  <1>1. ASSUME NEW sig \in {"INT", "TERM"}
        PROVE  /\ Handler(sig) \in Ending("success") /\ Handler(sig) \in Undoing("success")
               /\ Handler(sig) \notin Resetting
    <2>1. Handler(sig) = <<"test", "endwin", "reset", "atexit", "success">>
      BY Programs
    <2> QED BY <2>1 DEF Ending, Undoing, Resetting
  <1>2. /\ Handler("USR1") \in Cleaning /\ Handler("USR1") \in UndoingOnly
        /\ Handler("USR1") \notin Resetting
    <2>1. Handler("USR1") = <<"test", "endwin", "reset">>
      BY Programs
    <2> QED BY <2>1 DEF Cleaning, UndoingOnly, Resetting
  <1>3. \A sig \in Signals : Handler(sig) \in Todos
    BY <1>1, <1>2 DEF Signals, Todos, MainTodos
  <1> QED BY <1>1, <1>2, <1>3 DEF Frame, Signals

LEMMA KillStep ==
    ASSUME ProcessInv, Kill
    PROVE  ProcessInv'
  <1> DEFINE s == [stack EXCEPT ![Len(stack)].todo = Tail(@)]
             f == [sig |-> "USR1", todo |-> Handler("USR1")]
  <1>1. /\ Alive /\ Alive' /\ Todo # <<>> /\ Head(Todo) = "kill" /\ stack' = Append(s, f)
        /\ UNCHANGED <<vars, terminal, need_cleanup, handled, status>>
    BY DEF Kill, Static, Alive
  <1>2. Len(stack) = 1 /\ stack[1].todo = Todo
    BY <1>1, MainIsTop DEF HandlerSteps
  <1>3. Todo = <<"kill", "message", "atexit", "failure">>
    BY <1>1, TopType, ByHead DEF ProcessInv
  <1>4. Tail(Todo) = Failing0
    BY <1>3, Tails DEF Failing0
  <1>5. s \in Seq(Frame) /\ Len(s) = 1 /\ s[1].todo = Failing0
    <2>1. stack \in Seq(Frame) /\ stack[1] \in Frame
      BY <1>2, TopType DEF ProcessInv, ProcessType
    <2>2. \A g \in Frame : [g EXCEPT !.todo = Failing0] \in Frame
                            /\ [g EXCEPT !.todo = Failing0].todo = Failing0
      BY DEF Frame, Todos, MainTodos, Loads
    <2> DEFINE g == [stack[1] EXCEPT !.todo = Failing0]
    <2>3. s = [stack EXCEPT ![1] = g]
      BY <1>2, <1>4, <2>1
    <2>4. g \in Frame /\ g.todo = Failing0
      BY <2>1, <2>2
    <2> HIDE DEF g, s
    <2>5. /\ [stack EXCEPT ![1] = g] \in Seq(Frame) /\ Len([stack EXCEPT ![1] = g]) = 1
          /\ [stack EXCEPT ![1] = g][1] = g
      BY <1>2, <2>1, <2>4
    <2> QED BY <2>3, <2>4, <2>5
  <1> HIDE DEF s
  <1>6. f \in Frame
    BY HandlerFrames
  <1>7. f.sig = "USR1" /\ f.todo = Handler("USR1")
    OBVIOUS
  <1> HIDE DEF f
  <1>8. /\ stack' \in Seq(Frame) /\ Len(stack') = 2 /\ stack'[1].todo = Failing0
        /\ stack'[2].sig = "USR1" /\ stack'[2].todo = Handler("USR1")
    BY <1>1, <1>5, <1>6, <1>7, Pushed
  <1>9. ProcessType' /\ LoaderInv'
    BY <1>1, <1>8, LoaderStep DEF ProcessInv, ProcessType
  <1>10. Failing0 \in MainTodos /\ Failing0 \notin Starting /\ Failing0 \notin Drawing
         /\ Failing0 \notin Resetting
    BY DEF MainTodos, Loads, Failing0, Starting, Drawing, Resetting
  <1>11. Frames'
    BY <1>8, <1>10, HandlerFrames DEF Frames
  <1>12. Prepared'
    BY <1>8, <1>10 DEF Prepared, Starting, Drawing
  <1>13. GivenBack'
    <2>1. terminal' = "curses" => need_cleanup' /\ handled' = Signals
      BY <1>1 DEF ProcessInv, GivenBack
    <2> QED BY <1>1, <1>8, <1>10, <2>1, HandlerFrames DEF GivenBack, TerminalRestored, Alive
  <1> QED BY <1>9, <1>11, <1>12, <1>13 DEF ProcessInv

LEMMA ReturnStep ==
    ASSUME ProcessInv, Return
    PROVE  ProcessInv'
  <1> DEFINE n == Len(stack)
  <1>1. /\ Alive /\ Alive' /\ n > 1 /\ Todo = <<>> /\ stack' = SubSeq(stack, 1, n - 1)
        /\ UNCHANGED <<vars, terminal, need_cleanup, handled, status>>
    BY DEF Return, Front, Static, Alive
  <1>2. n \in Nat /\ n \in 2..n /\ stack \in Seq(Frame) /\ stack[n].todo = <<>>
    BY <1>1, TopType DEF ProcessInv, ProcessType
  <1>3. <<>> \notin Ending("success") /\ <<>> \notin Undoing("success") \cup UndoingOnly
        /\ <<>> \notin Drawing
    BY DEF Ending, Undoing, Undone, UndoingOnly, Drawing
  <1>4. n = 2 /\ stack[1].todo = Failing0
    BY <1>1, <1>2, <1>3 DEF ProcessInv, Frames
  <1>5. stack' \in Seq(Frame) /\ Len(stack') = 1 /\ stack'[1].todo = Failing0
    <2>1. stack' = SubSeq(stack, 1, 1)
      BY <1>1, <1>4
    <2> QED BY <1>2, <1>4, <2>1
  <1>6. terminal = "normal"
    BY <1>1, <1>3, Giving DEF ProcessInv, ProcessType
  <1>7. Failing0 \in MainTodos /\ Failing0 \notin Starting /\ Failing0 \notin Drawing
        /\ Failing0 \notin Resetting
    BY DEF MainTodos, Loads, Failing0, Starting, Drawing, Resetting
  <1>8. Fine(Failing0)'
    BY <1>1, <1>6, <1>7 DEF Fine, Starting, Drawing
  <1>9. ProcessType' /\ LoaderInv'
    BY <1>1, <1>5, LoaderStep DEF ProcessInv, ProcessType
  <1> QED BY <1>1, <1>5, <1>8, <1>9, FineNext DEF ProcessInv

(* A signal that comes from outside.                                       *)
LEMMA InterruptStep ==
    ASSUME ProcessInv, "USR1" \notin Outside, NEW sig \in Signals, Interrupt(sig)
    PROVE  ProcessInv'
  <1> DEFINE n == Len(stack)
  <1>1. /\ Alive /\ sig \in {"INT", "TERM"}
        /\ UNCHANGED <<vars, terminal, need_cleanup, handled>>
    BY DEF Interrupt, Alive, Signals
  <1>2. LoaderInv'
    BY <1>1, LoaderStep DEF ProcessInv
  <1>3. CASE sig \notin handled
    <2>1. status' = "killed" /\ UNCHANGED stack
      BY <1>3 DEF Interrupt
    <2>2. terminal' = "normal"
      BY <1>1, <1>3 DEF ProcessInv, ProcessType, GivenBack
    <2>3. ProcessType'
      BY <1>1, <2>1 DEF ProcessInv, ProcessType
    <2> QED BY <1>2, <2>1, <2>2, <2>3, Gone DEF Alive
  <1>4. CASE sig \in handled
    <2> DEFINE f == [sig |-> sig, todo |-> Handler(sig)]
    <2>1. stack' = Append(stack, f) /\ Alive'
      BY <1>4 DEF Interrupt, Alive
    <2>2. f \in Frame /\ f.sig = sig /\ f.todo = Handler(sig)
      BY <1>1, HandlerFrames
    <2> HIDE DEF f
    <2>3. n \in Nat /\ n >= 1 /\ stack \in Seq(Frame)
      BY TopType DEF ProcessInv, ProcessType
    <2>4. /\ stack' \in Seq(Frame) /\ Len(stack') = n + 1
          /\ stack'[n + 1].sig = sig /\ stack'[n + 1].todo = Handler(sig)
          /\ \A i \in 1..n : stack'[i] = stack[i]
      BY <2>1, <2>2, <2>3, Pushed
    <2>5. ProcessType'
      BY <1>1, <2>3, <2>4 DEF ProcessInv, ProcessType
    <2>6. \A i \in 1..Len(stack') : i # n + 1 => i \in 1..n
      BY <2>3, <2>4
    <2>7. Frames'
      <3>1. stack'[1] = stack[1]
        BY <2>3, <2>4
      <3>2. ASSUME NEW i \in 2..Len(stack')
            PROVE  \/ stack'[i].sig \in {"INT", "TERM"} /\ stack'[i].todo \in Ending("success")
                   \/ /\ i = 2 /\ stack'[i].sig = "USR1" /\ stack'[i].todo \in Cleaning
                      /\ stack'[1].todo = Failing0
        <4>1. CASE i = n + 1
          BY <1>1, <2>4, <4>1, HandlerFrames
        <4>2. CASE i # n + 1
          <5>1. i \in 2..n /\ stack'[i] = stack[i]
            BY <2>3, <2>4, <4>2
          <5> QED BY <1>1, <3>1, <5>1 DEF ProcessInv, Frames
        <4> QED BY <4>1, <4>2
      <3> QED BY <1>1, <3>1, <3>2 DEF ProcessInv, Frames
    <2>8. Prepared'
      <3>1. stack'[1] = stack[1] /\ Len(stack') # 1
        BY <2>3, <2>4
      <3> QED BY <1>1, <3>1 DEF ProcessInv, Prepared, vars
    <2>9. GivenBack'
      <3>1. ASSUME terminal' = "curses"
            PROVE  /\ need_cleanup' /\ handled' = Signals /\ Len(stack') # 1
                   /\ \A i \in 2..Len(stack') :
                         stack'[i].todo \in Undoing("success") \cup UndoingOnly
        <4>1. need_cleanup' /\ handled' = Signals /\ Len(stack') # 1
          BY <1>1, <2>3, <2>4, <3>1 DEF ProcessInv, GivenBack
        <4>2. ASSUME NEW i \in 2..Len(stack')
              PROVE  stack'[i].todo \in Undoing("success") \cup UndoingOnly
          <5>1. CASE i = n + 1
            BY <1>1, <2>4, <5>1, HandlerFrames
          <5>2. CASE i # n + 1
            <6>1. i \in 2..n /\ stack'[i] = stack[i]
              BY <2>3, <2>4, <5>2
            <6> QED BY <1>1, <3>1, <6>1 DEF ProcessInv, GivenBack
          <5> QED BY <5>1, <5>2
        <4> QED BY <4>1, <4>2
      <3>2. ASSUME NEW i \in 1..Len(stack'), stack'[i].todo \in Resetting
            PROVE  terminal' = "normal"
        <4>1. i # n + 1
          BY <1>1, <2>4, <3>2, HandlerFrames
        <4>2. i \in 1..n /\ stack'[i] = stack[i]
          BY <2>4, <2>6, <4>1
        <4> QED BY <1>1, <3>2, <4>2 DEF ProcessInv, GivenBack
      <3> QED BY <2>1, <3>1, <3>2 DEF GivenBack, TerminalRestored, Alive
    <2> QED BY <1>2, <2>5, <2>7, <2>8, <2>9 DEF ProcessInv
  <1> QED BY <1>3, <1>4

-----------------------------------------------------------------------------
(* The terminal.                                                           *)

LEMMA Beginning ==
    ASSUME ProcessInit
    PROVE  ProcessInv
  <1>1. /\ Alive /\ Len(stack) = 1 /\ stack[1].todo = <<"options">>
        /\ stack = <<[sig |-> "main", todo |-> <<"options">>]>>
        /\ terminal = "normal" /\ need_cleanup = FALSE /\ handled = {}
    BY DEF ProcessInit, Alive
  <1>2. <<"options">> \in Loads
    BY DEF Loads
  <1>3. <<"options">> \in MainTodos /\ <<"options">> \in Todos
    BY <1>2 DEF MainTodos, Todos
  <1>4. stack \in Seq(Frame)
    <2>1. [sig |-> "main", todo |-> <<"options">>] \in Frame
      BY <1>3 DEF Frame
    <2> DEFINE f == [sig |-> "main", todo |-> <<"options">>]
    <2>2. stack = <<f>> /\ f \in Frame
      BY <1>1, <2>1
    <2> HIDE DEF f
    <2> QED BY <2>2
  <1>5. ProcessType
    <2>1. Len(stack) >= 1
      BY <1>1
    <2>2. need_cleanup \in BOOLEAN
      BY <1>1
    <2>3. handled \subseteq Signals
      BY <1>1
    <2>4. terminal \in {"normal", "curses"}
      BY <1>1
    <2> QED BY <1>4, <2>1, <2>2, <2>3, <2>4 DEF ProcessType
  <1>6. <<"options">> \notin Starting /\ <<"options">> \notin Drawing /\ <<"options">> \notin Resetting
    BY DEF Starting, Drawing, Resetting
  <1>7. Frames
    BY <1>1, <1>3 DEF Frames
  <1>8. Prepared
    BY <1>1, <1>6 DEF Prepared, Starting, Drawing
  <1>9. GivenBack
    BY <1>1, <1>6 DEF GivenBack, TerminalRestored, Alive
  <1>10. LoaderInv
    BY LoaderInit DEF ProcessInit
  <1> QED BY <1>5, <1>7, <1>8, <1>9, <1>10 DEF ProcessInv

LEMMA ProcessStep ==
    ASSUME "USR1" \notin Outside, ProcessInv, [ProcessNext]_allvars
    PROVE  ProcessInv'
  <1>1. CASE UNCHANGED allvars
    <2>1. UNCHANGED vars /\ UNCHANGED <<stack, terminal, need_cleanup, handled, status>>
      BY <1>1 DEF allvars, process
    <2>2. UNCHANGED at
      BY <2>1 DEF vars
    <2> QED BY <2>1, <2>2, LoaderStep
            DEF ProcessInv, ProcessType, Frames, Prepared, GivenBack, TerminalRestored, Alive
  <1>2. CASE Step
    <2>1. ASSUME NEW sig \in Signals, Install(sig) PROVE ProcessInv'
      BY <2>1, StartingUp DEF Signals
    <2>2. ASSUME NEW code \in {"success", "failure"}, End(code) PROVE ProcessInv'
      BY <2>2, Dying DEF Codes
    <2> QED BY <1>2, <2>1, <2>2, BeforeTheMachine, StartingUp, WhileDrawing, Ends, Dying,
               LoadingStep, MessageStep, KillStep, ReturnStep DEF Step
  <1>3. ASSUME NEW sig \in Signals, Interrupt(sig) PROVE ProcessInv'
    BY <1>3, InterruptStep
  <1> QED BY <1>1, <1>2, <1>3 DEF ProcessNext

(* However the process ends, short of an abort or a crash, the terminal is *)
(* as it was: after ui_destroy, after the handlers of SIGINT and SIGTERM,  *)
(* wherever they interrupt the program or each other, after the kill of an *)
(* error, and when a signal comes before there is a handler for it.  Only  *)
(* the program itself may send SIGUSR1, as it does in vm_raise: sent from  *)
(* outside, it clears need_cleanup while the loop goes on to draw.         *)
THEOREM TerminalAlwaysRestored ==
    ASSUME "USR1" \notin Outside
    PROVE  ProcessSpec => []TerminalRestored
  <1>1. ProcessInit => ProcessInv
    BY Beginning
  <1>2. ProcessInv /\ [ProcessNext]_allvars => ProcessInv'
    BY ProcessStep
  <1>3. ProcessInv => TerminalRestored
    BY DEF ProcessInv, GivenBack
  <1> QED BY <1>1, <1>2, <1>3, PTL DEF ProcessSpec

-----------------------------------------------------------------------------
(* What is loaded, whatever signals arrive.  Beyond the program there only *)
(* needs to be a machine wherever one is used: a frame has it destroyed    *)
(* once it is running.                                                     *)

MachineThere ==
    \A i \in 1..Len(stack) : stack[i].todo \in Starting \cup Drawing => at = "running"

ChargeInv == LoaderInv /\ ProcessType /\ MachineThere

LEMMA TopReplaced ==
    ASSUME ChargeInv, NEW step, NEW r \in Todos, Does(step, r), Settled', UNCHANGED at,
           r \in Starting \cup Drawing => Todo \in Starting \cup Drawing \/ at = "running"
    PROVE  ProcessType' /\ MachineThere'
  <1> DEFINE n == Len(stack)
  <1>1. /\ n \in Nat /\ n >= 1 /\ n \in 1..n /\ Todo = stack[n].todo
        /\ stack' \in Seq(Frame) /\ Len(stack') = n /\ stack'[n].todo = r
        /\ \A i \in 1..n : i # n => stack'[i] = stack[i]
    BY TopType, TopMoves DEF ChargeInv
  <1>2. ProcessType'
    BY <1>1 DEF ProcessType, Settled
  <1>3. ASSUME NEW i \in 1..n, stack'[i].todo \in Starting \cup Drawing PROVE at = "running"
    <2>1. CASE i = n
      BY <1>1, <1>3, <2>1 DEF ChargeInv, MachineThere
    <2>2. CASE i # n
      BY <1>1, <1>3, <2>2 DEF ChargeInv, MachineThere
    <2> QED BY <2>1, <2>2
  <1> QED BY <1>1, <1>2, <1>3 DEF MachineThere

LEMMA MainLine ==
    ASSUME ChargeInv,
           \/ Usage \/ Options \/ NotLoaded \/ Loaded \/ Register
           \/ Install("INT") \/ Install("TERM") \/ Install("USR1")
           \/ Need \/ InitScreen \/ InitScreenFails
           \/ Refresh \/ Quit \/ Destroy \/ Free \/ MachineError
    PROVE  ProcessType' /\ MachineThere'
  <1>1. CASE Usage
    <2> DEFINE r == <<"message", "atexit", "failure">>
    <2>1. Todo = <<"options">> /\ Does("options", r)
      BY <1>1, NextLines DEF ChargeInv
    <2>2. r \in Todos
      BY DEF Todos, MainTodos, Loads, Starting, Drawing, Ending, Undoing, Failing0
    <2>3. r \in Starting \cup Drawing => Todo \in Starting \cup Drawing \/ at = "running"
      BY <1>1, <2>1 DEF Starting, Drawing
    <2> HIDE DEF r
    <2> QED BY <1>1, <2>1, <2>2, <2>3, TopReplaced DEF Usage, Static, vars, ChargeInv, ProcessType, Settled, Signals
  <1>2. CASE Options
    <2> DEFINE r == <<"load">>
    <2>1. Todo = <<"options">> /\ Does("options", r)
      BY <1>2, NextLines DEF ChargeInv
    <2>2. r \in Todos
      BY DEF Todos, MainTodos, Loads, Starting, Drawing, Ending, Undoing, Failing0
    <2>3. r \in Starting \cup Drawing => Todo \in Starting \cup Drawing \/ at = "running"
      BY <1>2, <2>1 DEF Starting, Drawing
    <2> HIDE DEF r
    <2> QED BY <1>2, <2>1, <2>2, <2>3, TopReplaced DEF Options, Static, vars, ChargeInv, ProcessType, Settled, Signals
  <1>3. CASE NotLoaded
    <2> DEFINE r == <<"message", "test", "endwin", "reset", "atexit", "failure">>
    <2>1. Todo = <<"load">> /\ Does("load", r)
      BY <1>3, NextLines DEF ChargeInv
    <2>2. r \in Todos
      BY DEF Todos, MainTodos, Loads, Starting, Drawing, Ending, Undoing, Failing0
    <2>3. r \in Starting \cup Drawing => Todo \in Starting \cup Drawing \/ at = "running"
      BY <1>3, <2>1 DEF Starting, Drawing
    <2> HIDE DEF r
    <2> QED BY <1>3, <2>1, <2>2, <2>3, TopReplaced DEF NotLoaded, Static, vars, ChargeInv, ProcessType, Settled, Signals
  <1>4. CASE Loaded
    <2> DEFINE r == <<"register", "INT", "TERM", "USR1", "need", "initscr", "loop">>
    <2>1. Todo = <<"load">> /\ Does("load", r)
      BY <1>4, NextLines DEF ChargeInv
    <2>2. r \in Todos
      BY DEF Todos, MainTodos, Loads, Starting, Drawing, Ending, Undoing, Failing0
    <2>3. r \in Starting \cup Drawing => Todo \in Starting \cup Drawing \/ at = "running"
      BY <1>4, <2>1 DEF Starting, Drawing, Loaded
    <2> HIDE DEF r
    <2> QED BY <1>4, <2>1, <2>2, <2>3, TopReplaced DEF Loaded, Static, vars, ChargeInv, ProcessType, Settled, Signals
  <1>5. CASE Register
    <2> DEFINE r == <<"INT", "TERM", "USR1", "need", "initscr", "loop">>
    <2>1. Todo = <<"register", "INT", "TERM", "USR1", "need", "initscr", "loop">> /\ Does("register", r)
      BY <1>5, NextLines DEF ChargeInv
    <2>2. r \in Todos
      BY DEF Todos, MainTodos, Loads, Starting, Drawing, Ending, Undoing, Failing0
    <2>3. r \in Starting \cup Drawing => Todo \in Starting \cup Drawing \/ at = "running"
      BY <1>5, <2>1 DEF Starting, Drawing
    <2> HIDE DEF r
    <2> QED BY <1>5, <2>1, <2>2, <2>3, TopReplaced DEF Register, vars, ChargeInv, ProcessType, Settled, Signals
  <1>6. CASE Install("INT")
    <2> DEFINE r == <<"TERM", "USR1", "need", "initscr", "loop">>
    <2>1. Todo = <<"INT", "TERM", "USR1", "need", "initscr", "loop">> /\ Does("INT", r)
      BY <1>6, NextLines DEF ChargeInv
    <2>2. r \in Todos
      BY DEF Todos, MainTodos, Loads, Starting, Drawing, Ending, Undoing, Failing0
    <2>3. r \in Starting \cup Drawing => Todo \in Starting \cup Drawing \/ at = "running"
      BY <1>6, <2>1 DEF Starting, Drawing
    <2> HIDE DEF r
    <2> QED BY <1>6, <2>1, <2>2, <2>3, TopReplaced DEF Install, vars, ChargeInv, ProcessType, Settled, Signals
  <1>7. CASE Install("TERM")
    <2> DEFINE r == <<"USR1", "need", "initscr", "loop">>
    <2>1. Todo = <<"TERM", "USR1", "need", "initscr", "loop">> /\ Does("TERM", r)
      BY <1>7, NextLines DEF ChargeInv
    <2>2. r \in Todos
      BY DEF Todos, MainTodos, Loads, Starting, Drawing, Ending, Undoing, Failing0
    <2>3. r \in Starting \cup Drawing => Todo \in Starting \cup Drawing \/ at = "running"
      BY <1>7, <2>1 DEF Starting, Drawing
    <2> HIDE DEF r
    <2> QED BY <1>7, <2>1, <2>2, <2>3, TopReplaced DEF Install, vars, ChargeInv, ProcessType, Settled, Signals
  <1>8. CASE Install("USR1")
    <2> DEFINE r == <<"need", "initscr", "loop">>
    <2>1. Todo = <<"USR1", "need", "initscr", "loop">> /\ Does("USR1", r)
      BY <1>8, NextLines DEF ChargeInv
    <2>2. r \in Todos
      BY DEF Todos, MainTodos, Loads, Starting, Drawing, Ending, Undoing, Failing0
    <2>3. r \in Starting \cup Drawing => Todo \in Starting \cup Drawing \/ at = "running"
      BY <1>8, <2>1 DEF Starting, Drawing
    <2> HIDE DEF r
    <2> QED BY <1>8, <2>1, <2>2, <2>3, TopReplaced DEF Install, vars, ChargeInv, ProcessType, Settled, Signals
  <1>9. CASE Need
    <2> DEFINE r == <<"initscr", "loop">>
    <2>1. Todo = <<"need", "initscr", "loop">> /\ Does("need", r)
      BY <1>9, NextLines DEF ChargeInv
    <2>2. r \in Todos
      BY DEF Todos, MainTodos, Loads, Starting, Drawing, Ending, Undoing, Failing0
    <2>3. r \in Starting \cup Drawing => Todo \in Starting \cup Drawing \/ at = "running"
      BY <1>9, <2>1 DEF Starting, Drawing
    <2> HIDE DEF r
    <2> QED BY <1>9, <2>1, <2>2, <2>3, TopReplaced DEF Need, vars, ChargeInv, ProcessType, Settled, Signals
  <1>10. CASE InitScreen
    <2> DEFINE r == <<"loop">>
    <2>1. Todo = <<"initscr", "loop">> /\ Does("initscr", r)
      BY <1>10, NextLines DEF ChargeInv
    <2>2. r \in Todos
      BY DEF Todos, MainTodos, Loads, Starting, Drawing, Ending, Undoing, Failing0
    <2>3. r \in Starting \cup Drawing => Todo \in Starting \cup Drawing \/ at = "running"
      BY <1>10, <2>1 DEF Starting, Drawing
    <2> HIDE DEF r
    <2> QED BY <1>10, <2>1, <2>2, <2>3, TopReplaced DEF InitScreen, vars, ChargeInv, ProcessType, Settled, Signals
  <1>11. CASE InitScreenFails
    <2> DEFINE r == <<"message", "atexit", "failure">>
    <2>1. Todo = <<"initscr", "loop">> /\ Does("initscr", r)
      BY <1>11, NextLines DEF ChargeInv
    <2>2. r \in Todos
      BY DEF Todos, MainTodos, Loads, Starting, Drawing, Ending, Undoing, Failing0
    <2>3. r \in Starting \cup Drawing => Todo \in Starting \cup Drawing \/ at = "running"
      BY <1>11, <2>1 DEF Starting, Drawing
    <2> HIDE DEF r
    <2> QED BY <1>11, <2>1, <2>2, <2>3, TopReplaced DEF InitScreenFails, Static, vars, ChargeInv, ProcessType, Settled, Signals
  <1>12. CASE Refresh
    <2> DEFINE r == <<"loop">>
    <2>1. Todo = <<"loop">> /\ Does("loop", r)
      BY <1>12, NextLines DEF ChargeInv
    <2>2. r \in Todos
      BY DEF Todos, MainTodos, Loads, Starting, Drawing, Ending, Undoing, Failing0
    <2>3. r \in Starting \cup Drawing => Todo \in Starting \cup Drawing \/ at = "running"
      BY <1>12, <2>1 DEF Starting, Drawing
    <2> HIDE DEF r
    <2> QED BY <1>12, <2>1, <2>2, <2>3, TopReplaced DEF Refresh, vars, ChargeInv, ProcessType, Settled, Signals
  <1>13. CASE Quit
    <2> DEFINE r == <<"destroy", "free", "test", "endwin", "reset", "atexit", "success">>
    <2>1. Todo = <<"loop">> /\ Does("loop", r)
      BY <1>13, NextLines DEF ChargeInv
    <2>2. r \in Todos
      BY DEF Todos, MainTodos, Loads, Starting, Drawing, Ending, Undoing, Failing0
    <2>3. r \in Starting \cup Drawing => Todo \in Starting \cup Drawing \/ at = "running"
      BY <1>13, <2>1 DEF Starting, Drawing
    <2> HIDE DEF r
    <2> QED BY <1>13, <2>1, <2>2, <2>3, TopReplaced DEF Quit, Static, vars, ChargeInv, ProcessType, Settled, Signals
  <1>14. CASE Destroy
    <2> DEFINE r == <<"free", "test", "endwin", "reset", "atexit", "success">>
    <2>1. Todo = <<"destroy", "free", "test", "endwin", "reset", "atexit", "success">> /\ Does("destroy", r)
      BY <1>14, NextLines DEF ChargeInv
    <2>2. r \in Todos
      BY DEF Todos, MainTodos, Loads, Starting, Drawing, Ending, Undoing, Failing0
    <2>3. r \in Starting \cup Drawing => Todo \in Starting \cup Drawing \/ at = "running"
      BY <1>14, <2>1 DEF Starting, Drawing
    <2> HIDE DEF r
    <2> QED BY <1>14, <2>1, <2>2, <2>3, TopReplaced DEF Destroy, vars, ChargeInv, ProcessType, Settled, Signals
  <1>15. CASE Free
    <2> DEFINE r == <<"test", "endwin", "reset", "atexit", "success">>
    <2>1. Todo = <<"free", "test", "endwin", "reset", "atexit", "success">> /\ Does("free", r)
      BY <1>15, NextLines DEF ChargeInv
    <2>2. r \in Todos
      BY DEF Todos, MainTodos, Loads, Starting, Drawing, Ending, Undoing, Failing0
    <2>3. r \in Starting \cup Drawing => Todo \in Starting \cup Drawing \/ at = "running"
      BY <1>15, <2>1 DEF Starting, Drawing
    <2> HIDE DEF r
    <2> QED BY <1>15, <2>1, <2>2, <2>3, TopReplaced DEF Free, vars, ChargeInv, ProcessType, Settled, Signals
  <1>16. CASE MachineError
    <2> DEFINE r == <<"kill", "message", "atexit", "failure">>
    <2>1. Todo = <<"loop">> /\ Does("loop", r)
      BY <1>16, NextLines DEF ChargeInv
    <2>2. r \in Todos
      BY DEF Todos, MainTodos, Loads, Starting, Drawing, Ending, Undoing, Failing0
    <2>3. r \in Starting \cup Drawing => Todo \in Starting \cup Drawing \/ at = "running"
      BY <1>16, <2>1 DEF Starting, Drawing
    <2> HIDE DEF r
    <2> QED BY <1>16, <2>1, <2>2, <2>3, TopReplaced DEF MachineError, Static, vars, ChargeInv, ProcessType, Settled, Signals
  <1> QED BY <1>1, <1>2, <1>3, <1>4, <1>5, <1>6, <1>7, <1>8, <1>9, <1>10, <1>11, <1>12, <1>13, <1>14, <1>15, <1>16

(* A step of a cleanup or an exit, or the end of the process.              *)
LEMMA LastLine ==
    ASSUME ChargeInv,
           \/ Crash \/ Abort \/ Message \/ Test \/ EndWin \/ Reset \/ AtExit
           \/ \E code \in Codes : End(code)
    PROVE  ProcessType' /\ MachineThere' /\ UNCHANGED vars
  <1>1. Todo \in Todos
    BY TopType DEF ChargeInv
  <1> DEFINE Ended(r) == r \in Ending("success") \cup Ending("failure") \cup Cleaning
  <1>2. ASSUME NEW step, NEW r, Does(step, r), Ended(r), Settled', UNCHANGED vars
        PROVE  ProcessType' /\ MachineThere' /\ UNCHANGED vars
    <2>1. r \in Todos /\ r \notin Starting /\ r \notin Drawing
      BY <1>2, EndHeads DEF Todos, MainTodos
    <2> QED BY <1>2, <2>1, TopReplaced DEF vars
  <1>3. <<>> \in Cleaning
    BY DEF Cleaning, UndoneOnly
  <1>4. CASE Crash
    <2>1. Does("load", <<>>) /\ Settled' /\ UNCHANGED vars
      BY <1>4 DEF Crash, Settled, ChargeInv, ProcessType
    <2> QED BY <1>2, <1>3, <2>1
  <1>5. CASE Abort
    <2>1. Does("loop", <<>>) /\ Settled' /\ UNCHANGED vars
      BY <1>5 DEF Abort, Settled, ChargeInv, ProcessType
    <2> QED BY <1>2, <1>3, <2>1
  <1>6. CASE Message
    <2>1. /\ Does("message", Tail(Todo)) /\ Settled' /\ UNCHANGED vars
          /\ Todo # <<>> /\ Head(Todo) = "message"
      BY <1>6 DEF Message, Passes, Does, Settled, ChargeInv, ProcessType
    <2>2. Todo \in {Failing0, <<"message", "test", "endwin", "reset", "atexit", "failure">>}
      BY <1>1, <2>1, ByHead
    <2>3. Tail(Todo) \in Ending("failure")
      <3>1. CASE Todo = <<"message", "atexit", "failure">>
        BY <3>1, Tails DEF Ending, Undone
      <3>2. CASE Todo = <<"message", "test", "endwin", "reset", "atexit", "failure">>
        BY <3>2, Tails DEF Ending, Undoing
      <3> QED BY <2>2, <3>1, <3>2 DEF Failing0
    <2> QED BY <1>2, <2>1, <2>3
  <1>7. CASE Test
    <2> DEFINE r == IF need_cleanup THEN Tail(Todo) ELSE SubSeq(Todo, 4, Len(Todo))
    <2>1. /\ Does("test", r) /\ Settled' /\ UNCHANGED vars
          /\ Todo # <<>> /\ Head(Todo) = "test"
      BY <1>7 DEF Test, Static, Does, Settled, ChargeInv, ProcessType
    <2>2. Ended(r)
      BY <1>1, <2>1, TestMoves DEF Follows, Codes
    <2> QED BY <1>2, <2>1, <2>2
  <1>8. CASE EndWin
    <2>1. /\ Does("endwin", Tail(Todo)) /\ Settled' /\ UNCHANGED vars
          /\ Todo # <<>> /\ Head(Todo) = "endwin"
      BY <1>8 DEF EndWin, Passes, Does, Settled, ChargeInv, ProcessType
    <2>2. Ended(Tail(Todo))
      BY <1>1, <2>1, EndWinMoves DEF Follows, Codes
    <2> QED BY <1>2, <2>1, <2>2
  <1>9. CASE Reset
    <2>1. /\ Does("reset", Tail(Todo)) /\ Settled' /\ UNCHANGED vars
          /\ Todo # <<>> /\ Head(Todo) = "reset"
      BY <1>9 DEF Reset, Passes, Does, Settled, ChargeInv, ProcessType
    <2>2. Todo \in Resetting
      BY <1>1, <2>1, ByHead
    <2>3. Ended(Tail(Todo))
      BY <2>2, ResetMoves DEF Follows, Codes
    <2> QED BY <1>2, <2>1, <2>3
  <1>10. CASE AtExit
    <2> DEFINE r == (IF registered THEN Cleanup ELSE <<>>) \o Tail(Todo)
    <2>1. /\ Does("atexit", r) /\ Settled' /\ UNCHANGED vars
          /\ Todo # <<>> /\ Head(Todo) = "atexit"
      BY <1>10 DEF AtExit, Does, Settled, ChargeInv, ProcessType
    <2>2. PICK code \in Codes : Todo = <<"atexit", code>>
      BY <1>1, <2>1, ByHead
    <2>3. r \in {<<code>>, <<"test", "endwin", "reset", code>>}
      <3>1. Tail(Todo) = <<code>>
        BY <2>2, Tails
      <3> QED BY <3>1, Programs, Zenon
    <2> HIDE DEF r
    <2>4. Ended(r)
      BY <2>2, <2>3, AtExitMoves DEF Follows, Codes
    <2> QED BY <1>2, <2>1, <2>4
  <1>11. ASSUME NEW code \in Codes, End(code) PROVE ProcessType' /\ MachineThere' /\ UNCHANGED vars
    <2>1. /\ Does(code, Tail(Todo)) /\ Settled' /\ UNCHANGED vars
          /\ Todo # <<>> /\ Head(Todo) = code
      BY <1>11 DEF End, Passes, Does, Settled, ChargeInv, ProcessType
    <2>2. Todo = <<code>>
      BY <1>1, <2>1, ByHead
    <2>3. Tail(Todo) = <<>>
      BY <2>2, Tails
    <2> QED BY <1>2, <1>3, <2>1, <2>3
  <1> QED BY <1>4, <1>5, <1>6, <1>7, <1>8, <1>9, <1>10, <1>11

(* The steps that add or drop a frame, and the arrival of a signal.        *)
LEMMA OtherLine ==
    ASSUME ChargeInv,
           Kill \/ Return \/ \E sig \in Signals : Interrupt(sig)
    PROVE  ProcessType' /\ MachineThere' /\ UNCHANGED vars
  <1> DEFINE n == Len(stack)
  <1>1. n \in Nat /\ n >= 1 /\ n \in 1..n /\ stack \in Seq(Frame) /\ Todo = stack[n].todo
        /\ Todo \in Todos
    BY TopType DEF ChargeInv, ProcessType
  <1>2. ASSUME NEW sig \in Signals
        PROVE  /\ Handler(sig) \notin Starting /\ Handler(sig) \notin Drawing
               /\ [sig |-> sig, todo |-> Handler(sig)] \in Frame
    <2>1. /\ Handler(sig) \in Ending("success") \cup Ending("failure") \cup Cleaning
          /\ [sig |-> sig, todo |-> Handler(sig)] \in Frame
      BY HandlerFrames DEF Signals
    <2> QED BY <2>1, EndHeads
  <1>3. ASSUME NEW s \in Seq(Frame), Len(s) = n,
               \A i \in 1..n : s[i].todo \in Starting \cup Drawing => at = "running",
               NEW sig \in Signals,
               stack' = Append(s, [sig |-> sig, todo |-> Handler(sig)]),
               Settled', UNCHANGED at
        PROVE  ProcessType' /\ MachineThere'
    <2> DEFINE f == [sig |-> sig, todo |-> Handler(sig)]
    <2>1. f \in Frame /\ f.todo = Handler(sig) /\ stack' = Append(s, f)
      BY <1>2, <1>3
    <2> HIDE DEF f
    <2>2. /\ stack' \in Seq(Frame) /\ Len(stack') = n + 1 /\ Len(stack') >= 1
          /\ stack'[n + 1].todo = Handler(sig) /\ \A i \in 1..n : stack'[i] = s[i]
      BY <1>1, <1>3, <2>1, Pushed
    <2>3. ASSUME NEW i \in 1..(n + 1), stack'[i].todo \in Starting \cup Drawing
          PROVE  at = "running"
      <3>1. i # n + 1
        BY <1>2, <2>2, <2>3
      <3>2. i \in 1..n
        BY <1>1, <3>1
      <3> QED BY <1>3, <2>2, <2>3, <3>2
    <2> QED BY <1>3, <2>2, <2>3 DEF ProcessType, MachineThere, Settled
  <1>4. CASE Kill
    <2> DEFINE s == [stack EXCEPT ![n].todo = Tail(@)]
    <2>1. /\ Todo # <<>> /\ Head(Todo) = "kill" /\ UNCHANGED vars /\ UNCHANGED at /\ Settled'
          /\ stack' = Append(s, [sig |-> "USR1", todo |-> Handler("USR1")])
      BY <1>4 DEF Kill, Static, vars, Settled, ChargeInv, ProcessType
    <2>2. Tail(Todo) = Failing0
      <3>1. Todo = <<"kill", "message", "atexit", "failure">>
        BY <1>1, <2>1, ByHead
      <3> QED BY <3>1, Tails DEF Failing0
    <2> DEFINE g == [stack[n] EXCEPT !.todo = Failing0]
    <2>3. g \in Frame /\ g.todo = Failing0
      <3>1. stack[n] \in Frame /\ Failing0 \in Todos
        BY <1>1 DEF Todos, MainTodos, Loads
      <3> QED BY <3>1 DEF Frame
    <2>4. s = [stack EXCEPT ![n] = g]
      BY <1>1, <2>2
    <2> HIDE DEF g, s
    <2>5. /\ s \in Seq(Frame) /\ Len(s) = n /\ s[n] = g
          /\ \A i \in 1..n : i # n => s[i] = stack[i]
      BY <1>1, <2>3, <2>4
    <2>6. Failing0 \notin Starting /\ Failing0 \notin Drawing
      BY DEF Failing0, Starting, Drawing
    <2>7. \A i \in 1..n : s[i].todo \in Starting \cup Drawing => at = "running"
      BY <2>3, <2>5, <2>6 DEF ChargeInv, MachineThere
    <2> QED BY <1>3, <2>1, <2>5, <2>7 DEF Signals
  <1>5. CASE Return
    <2>1. n > 1 /\ stack' = SubSeq(stack, 1, n - 1) /\ UNCHANGED vars /\ UNCHANGED at /\ Settled'
      BY <1>5 DEF Return, Front, Static, vars, Settled, ChargeInv, ProcessType
    <2>2. /\ stack' \in Seq(Frame) /\ Len(stack') = n - 1 /\ n - 1 >= 1
          /\ \A i \in 1..(n - 1) : stack'[i] = stack[i] /\ i \in 1..n
      BY <1>1, <2>1
    <2>3. ProcessType'
      BY <2>1, <2>2 DEF ProcessType, Settled
    <2> QED BY <2>1, <2>2, <2>3 DEF ChargeInv, MachineThere
  <1>6. ASSUME NEW sig \in Signals, Interrupt(sig)
        PROVE  ProcessType' /\ MachineThere' /\ UNCHANGED vars
    <2>1. UNCHANGED vars /\ UNCHANGED at /\ Settled'
      BY <1>6 DEF Interrupt, vars, Settled, ChargeInv, ProcessType
    <2>2. CASE sig \in handled
      <3>1. stack' = Append(stack, [sig |-> sig, todo |-> Handler(sig)])
        BY <1>6, <2>2 DEF Interrupt
      <3> QED BY <1>1, <1>3, <2>1, <3>1 DEF ChargeInv, MachineThere
    <2>3. CASE sig \notin handled
      <3>1. UNCHANGED stack
        BY <1>6, <2>3 DEF Interrupt
      <3> QED BY <2>1, <3>1 DEF ChargeInv, MachineThere, ProcessType, Settled
    <2> QED BY <2>2, <2>3
  <1> QED BY <1>4, <1>5, <1>6

(* The blocks that the end of ui_run frees are those of a running machine. *)
LEMMA FreedLine ==
    ASSUME ChargeInv, Destroy \/ Free
    PROVE  LoaderInv'
  <1>1. /\ Len(stack) \in 1..Len(stack) /\ Todo = stack[Len(stack)].todo
        /\ Todo \in Drawing
    BY TopType, NextLines DEF ChargeInv, Drawing
  <1>2. at = "running"
    BY <1>1 DEF ChargeInv, MachineThere
  <1>3. /\ UNCHANGED <<at, file, size, buffer, prg>>
        /\ heap' = heap \ {"prg"} \/ heap' = heap \ {"vm"}
    BY DEF Destroy, Free
  <1> QED BY <1>2, <1>3 DEF ChargeInv, LoaderInv, LoaderType, ReadInFull, NothingCopied,
            CopiedInOrder, AcceptedInFull, BufferKept, ProgramKept, Holding, Final

LEMMA ChargeStep ==
    ASSUME ChargeInv, [ProcessNext]_allvars
    PROVE  ChargeInv'
  <1>1. CASE UNCHANGED allvars
    <2>1. UNCHANGED vars /\ UNCHANGED <<stack, terminal, need_cleanup, handled>> /\ UNCHANGED at
      BY <1>1 DEF allvars, process, vars
    <2> QED BY <2>1, LoaderStep DEF ChargeInv, ProcessType, MachineThere
  <1>2. CASE Loading
    <2>1. /\ Next /\ UNCHANGED <<stack, terminal, need_cleanup, handled>>
      BY <1>2 DEF Loading, process
    <2>2. LoaderInv' /\ ProcessType'
      BY <2>1, LoaderStep DEF ChargeInv, ProcessType
    <2>3. at # "running"
      BY <2>1 DEF Next, Rewrite, Open, OpenFails, AllocateBuffer, AllocateBufferFails, Read,
         ReadFails, ShortRead, Reject, AllocateProgram, AllocateProgramFails, Copy, Overrun, Copied,
         BadChecksum, Accept, GiveUp, FreeBuffer, AllocateVm, AllocateVmFails,
         Goes, Allocates, Frees
    <2> QED BY <2>1, <2>2, <2>3 DEF ChargeInv, MachineThere
  <1>3. ASSUME \/ Usage \/ Options \/ NotLoaded \/ Loaded \/ Register \/ Need \/ InitScreen
               \/ InitScreenFails \/ Refresh \/ Quit \/ MachineError
               \/ \E sig \in Signals : Install(sig)
        PROVE  ChargeInv'
    <2>1. UNCHANGED vars
      BY <1>3 DEF Usage, Options, NotLoaded, Loaded, Register, Need, InitScreen, InitScreenFails,
                  Refresh, Quit, MachineError, Install, Static
    <2> QED BY <1>3, <2>1, MainLine, LoaderStep DEF ChargeInv, Signals
  <1>4. CASE Destroy \/ Free
    BY <1>4, MainLine, FreedLine DEF ChargeInv
  <1>5. ASSUME \/ Crash \/ Abort \/ Message \/ Test \/ EndWin \/ Reset \/ AtExit
               \/ \E code \in {"success", "failure"} : End(code)
        PROVE  ChargeInv'
    BY <1>5, LastLine, LoaderStep DEF ChargeInv, Codes
  <1>6. ASSUME Kill \/ Return \/ \E sig \in Signals : Interrupt(sig)
        PROVE  ChargeInv'
    BY <1>6, OtherLine, LoaderStep DEF ChargeInv
  <1> QED BY <1>1, <1>2, <1>3, <1>4, <1>5, <1>6 DEF ProcessNext, Step

LEMMA ChargeInit == ProcessInit => ChargeInv
  <1> SUFFICES ASSUME ProcessInit PROVE ChargeInv
    OBVIOUS
  <1>1. LoaderInv /\ ProcessType
    BY Beginning DEF ProcessInv
  <1>2. Len(stack) = 1 /\ stack[1].todo = <<"options">>
    BY DEF ProcessInit
  <1>3. <<"options">> \notin Starting /\ <<"options">> \notin Drawing
    BY DEF Starting, Drawing
  <1> QED BY <1>1, <1>2, <1>3 DEF ChargeInv, MachineThere

LEMMA ChargeKept == ProcessSpec => []ChargeInv
  BY ChargeInit, ChargeStep, PTL DEF ProcessSpec

(* What load_program returns, for a program that fits in program memory,   *)
(* is exactly the words of a file as they were encoded, all of them and in *)
(* order, whatever was written to the file while read_file read it.        *)
THEOREM AlwaysRunsTheFile == ProcessSpec => []RunsTheFile
  BY ChargeKept, RunsTheFileHolds, PTL DEF ChargeInv

(* load_program refuses the file it accepted when any one word of its      *)
(* length, its code or its checksum is another.                            *)
THEOREM AlterationAlwaysNoticed == ProcessSpec => []AlterationNoticed
  BY ChargeKept, AlterationNoticedHolds, PTL DEF ChargeInv

(* Every way through read_file, load_program and the start of ui_run frees *)
(* the buffer before it ends and never uses it once it is free; a rejected *)
(* file leaves no program behind, only the lack of a machine does.         *)
THEOREM AlwaysBalanced == ProcessSpec => []Balanced
  BY ChargeKept, BalancedHolds, PTL DEF ChargeInv

(* load_program turns no well-formed file away, neither for its header and *)
(* size nor for its checksum.                                              *)
THEOREM WellFormedNeverTurnedAway == ProcessSpec => NeverTurnedAway
  <1>1. ChargeInv /\ [ProcessNext]_allvars
           => [(Reject \/ BadChecksum) => ~WellFormed(buffer)]_vars
    BY TurnedAwayHolds DEF ChargeInv
  <1> QED BY <1>1, ChargeKept, PTL DEF ProcessSpec, NeverTurnedAway

=============================================================================
