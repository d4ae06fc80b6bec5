----------------------------- MODULE MCLifecycle -----------------------------
(***************************************************************************)
(* The whole process on every file of up to nine bytes, with bytes of one  *)
(* bit, words of two, a magic of one byte and a program memory of two      *)
(* words: nine bytes are a magic, a length, two words and a checksum; and  *)
(* on two files that declare a third word.  Signals need no bound: each is *)
(* blocked while its handler runs.                                         *)
(***************************************************************************)
EXTENDS Lifecycle

Bit01   == {0, 1}
MCMagic == <<1>>
MCFiles ==
    UNION {[1..n -> Bit01] : n \in 0..9}
    \cup {<<1, 1, 1, 0, 0, 0, 0, 0, 0, 1, 1>>, <<1, 1, 1, 1, 0, 0, 1, 0, 0, 1, 1>>}
MCRewrites == {<<>>, <<1, 1, 0, 1, 1, 0, 0>>}

FromUser == {"INT", "TERM"}
=============================================================================
