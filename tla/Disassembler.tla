----------------------------- MODULE Disassembler -----------------------------
(***************************************************************************)
(* The text of an instruction in the status panel: decode_instruction, the *)
(* names in the instruction tables, the get_info_ functions and            *)
(* disassemble_instruction, which writes into a buffer of the panel with   *)
(* snprintf and keeps the place and the room left by hand.                 *)
(***************************************************************************)
EXTENDS Ops, Sequences, FiniteSets

CONSTANTS
    Words,     \* the program words to disassemble
    SizeMax    \* a size_t that went below zero: no bound any more

ASSUME WordsAssumption == Words \subseteq 0..UINT16_MAX
ASSUME SizeAssumption == SizeMax \in Nat /\ SizeMax > 1000

-----------------------------------------------------------------------------
(* The operands, in C's formats.                                           *)

INFO_SIZE == 10
DISASSEMBLE_MAX_LEN_bug == 17
DISASSEMBLE_MAX_LEN == 20

reg_names ==
    <<"R0", "R1", "R2", "R3", "R4", "R5", "R6", "R7", "R8", "R9",
      "OUT", "IN", "JSR", "PCL", "PCM", "PCH">>
RegName(n) == reg_names[n + 1]

HexDigits ==
    <<"0", "1", "2", "3", "4", "5", "6", "7", "8", "9", "a", "b", "c", "d", "e", "f">>
Hex(n) == HexDigits[HighNibble(n) + 1] \o HexDigits[LowNibble(n) + 1]

(* %#02x: the prefix, but not for zero, and no digit more than needed.     *)
Literal(n) ==
    IF n = 0 THEN "00" ELSE "0x" \o (IF n < 16 THEN HexDigits[n + 1] ELSE Hex(n))

(* snprintf: what fits with its terminator.                                *)
Printed(s, size) == IF Len(s) < size THEN s ELSE SubSeq(s, 1, size - 1)

get_info_condition_flag_bug(w) == Literal(w.nibble3 % 4)
get_info_condition_flag(w) == Literal(w.nibble3 \div 4)

(* get_info_: the operands by the mnemonics of the tables.                 *)
get_info(w) ==
    LET byte == 16 * w.nibble2 + w.nibble3
        rg   == w.nibble3 \div 4
        info == [RX |-> RegName(w.nibble2),
                 RY |-> RegName(w.nibble3),
                 RG |-> IF rg < 3 THEN RegName(rg) ELSE "RS",
                 R0 |-> "R0",
                 PC |-> "PC",
                 PTR |-> "[" \o Literal(byte) \o "]",
                 IND |-> "[" \o RegName(w.nibble2) \o ":" \o RegName(w.nibble3) \o "]",
                 N  |-> Literal(w.nibble3),
                 NN |-> Literal(byte),
                 M  |-> Literal(w.nibble3 % 4),
                 F  |-> get_info_condition_flag(w)]
    IN  [kind \in DOMAIN info |-> Printed(info[kind], INFO_SIZE)]

-----------------------------------------------------------------------------
(* The tables: a mnemonic, and the kinds of the destination, of the        *)
(* condition and of the source, "" for none.                               *)

Row(op, dst, cnd, src) == [op |-> op, dst |-> dst, cnd |-> cnd, src |-> src]

INSTRUCTIONS ==
    << Row("ADD", "RX", "", "RY"), Row("ADC", "RX", "", "RY"),
       Row("SUB", "RX", "", "RY"), Row("SBB", "RX", "", "RY"),
       Row("OR", "RX", "", "RY"), Row("AND", "RX", "", "RY"), Row("XOR", "RX", "", "RY"),
       Row("MOV", "RX", "", "RY"), Row("MOV", "RX", "", "N"),
       Row("MOV", "IND", "", "R0"), Row("MOV", "R0", "", "IND"),
       Row("MOV", "PTR", "", "R0"), Row("MOV", "R0", "", "PTR"),
       Row("MOV", "PC", "", "NN"), Row("JR", "", "", "NN") >>

INSTRUCTIONS_WIDE ==
    << Row("CP", "R0", "", "N"), Row("ADD", "R0", "", "N"),
       Row("INC", "RY", "", ""), Row("DEC", "RY", "", ""), Row("DSZ", "RY", "", ""),
       Row("OR", "R0", "", "N"), Row("AND", "R0", "", "N"), Row("XOR", "R0", "", "N"),
       Row("EXR", "", "", "N"),
       Row("BIT", "RG", "", "M"), Row("BSET", "RG", "", "M"),
       Row("BCLR", "RG", "", "M"), Row("BTG", "RG", "", "M"),
       Row("RRC", "RY", "", ""), Row("RET", "R0", "", "N"), Row("SKIP", "", "F", "M") >>

decode_instruction(pi) ==
    [nibble1 |-> (pi \div 256) % 16, nibble2 |-> (pi \div 16) % 16, nibble3 |-> pi % 16]

get_instruction_descriptor(w) ==
    IF w.nibble1 > 0 THEN INSTRUCTIONS[w.nibble1] ELSE INSTRUCTIONS_WIDE[w.nibble2 + 1]

-----------------------------------------------------------------------------
(* The buffer: the text up to its terminator, the offset of the pointer    *)
(* `out', the room that `size' still claims, and how many bytes from the   *)
(* start have been written to.                                             *)

Later(m, n) == IF m > n THEN m ELSE n
Less(size, n) == IF n <= size THEN size - n ELSE SizeMax

(* snprintf into the buffer; its count may exceed what it writes.          *)
Put(b, s) ==
    LET written == Printed(s, b.size) IN
    IF b.size = 0 THEN [b EXCEPT !.out = @ + Len(s), !.size = Less(@, Len(s))]
    ELSE [text  |-> IF b.out = Len(b.text) THEN b.text \o written ELSE b.text,
          out   |-> b.out + Len(s),
          size  |-> Less(b.size, Len(s)),
          reach |-> Later(b.reach, b.out + Len(written) + 1)]

(* The comma between operands; the room is not adjusted.                   *)
Comma(b) ==
    IF b.size <= 1 THEN b
    ELSE [b EXCEPT !.text = IF b.out = Len(@) THEN @ \o "," ELSE @,
                   !.out = @ + 1,
                   !.reach = Later(@, b.out + 2)]

(* An operand, after others or not, or none.                               *)
Operand(b, kind, info, first) ==
    IF kind = "" THEN b ELSE Put(IF first THEN b ELSE Comma(b), info[kind])

Mnemonic(op) == op \o SubSeq("     ", 1, 5 - Len(op))

disassemble_instruction(w, descr, size) ==
    LET info == get_info(w)
        op   == Put([text |-> "", out |-> 0, size |-> size, reach |-> 0], Mnemonic(descr.op))
        dst  == Operand(op, descr.dst, info, TRUE)
        cnd  == Operand(dst, descr.cnd, info, descr.dst = "")
    IN  Operand(cnd, descr.src, info, descr.dst = "" /\ descr.cnd = "")

(* A row of the panel.                                                     *)
Disassembled(pi) ==
    LET w == decode_instruction(pi)
    IN  disassemble_instruction(w, get_instruction_descriptor(w), DISASSEMBLE_MAX_LEN)

-----------------------------------------------------------------------------
(* The panel disassembles one row after another, into the same buffer; the *)
(* program counter may move to any word between two updates, so the rows   *)
(* are taken in any order.                                                 *)

VARIABLE row   \* the word of the row and its buffer, or NoRow between rows

NoRow == [word |-> 0, buf |-> [text |-> "", out |-> 0, size |-> 0, reach |-> 0]]

RowInit == row = NoRow

ShowRow(pi) ==
    /\ row = NoRow
    /\ row' = [word |-> pi, buf |-> Disassembled(pi)]

ClearRow == row # NoRow /\ row' = NoRow

RowNext == (\E pi \in Words : ShowRow(pi)) \/ ClearRow

-----------------------------------------------------------------------------
(* Properties.                                                             *)

(* No instruction writes past the end of the buffer, although the room is  *)
(* counted too large by every comma; and no text is cut short, neither an  *)
(* operand by its own buffer, of which [OUT:JSR] takes the last byte, nor  *)
(* the whole.                                                              *)
Pair(w) == "[" \o RegName(w.nibble2) \o ":" \o RegName(w.nibble3) \o "]"
HasPair(w) == w.nibble1 \in {10, 11}
Within(part, text) ==
    \E i \in 0..(Len(text) - Len(part)) : SubSeq(text, i + 1, i + Len(part)) = part
TextFits ==
    LET w == decode_instruction(row.word) IN
    /\ row.buf.reach <= DISASSEMBLE_MAX_LEN
    /\ Len(row.buf.text) = row.buf.out
    /\ HasPair(w) => Within(Pair(w), row.buf.text)

(* The text says which instruction it is: no other word has the same text, *)
(* but one that differs in the four bits that are not executed.            *)
Texts == [pi \in Words |-> Disassembled(pi).text]
Unambiguous ==
    row # NoRow =>
        \A pi \in Words : Texts[pi] = row.buf.text => pi % 4096 = row.word % 4096
=============================================================================
