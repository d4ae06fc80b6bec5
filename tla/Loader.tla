-------------------------------- MODULE Loader --------------------------------
(***************************************************************************)
(* program.c and the start of ui_run: a file is read, its header, length   *)
(* and checksum are verified, and its words become the program of a        *)
(* machine.  Each call that can fail may do so, and the file may be        *)
(* rewritten while it is read.  A file is a sequence of bytes.             *)
(***************************************************************************)
EXTENDS Integers, Sequences

CONSTANTS
    Radix,                \* the number of values of a byte
    HEADER_MAGIC,         \* the bytes a program file begins with
    PROGRAM_MEMORY_SIZE,  \* the words of program memory
    Files,                \* the contents the file may have
    Rewrites,             \* the contents it may be replaced by
    Unseekable            \* the size read from a file that has no end

ASSUME FormatAssumption ==
    /\ Radix \in Nat /\ Radix > 1
    /\ HEADER_MAGIC \in Seq(0..(Radix - 1))
    /\ PROGRAM_MEMORY_SIZE \in Nat /\ Unseekable \in Nat
    /\ \A f \in Files \cup Rewrites : f \in Seq(0..(Radix - 1)) /\ Len(f) < Unseekable

VARIABLES
    at,      \* the step that comes next; the last ones are Final
    file,    \* the file
    size,    \* its size, as far as read_file knows
    buffer,  \* the bytes read
    prg,     \* the program: length and instructions
    heap     \* the blocks allocated: "buf", "prg", "vm"

vars == <<at, file, size, buffer, prg, heap>>

-----------------------------------------------------------------------------
(* The format.                                                             *)

UInt16(x) == x % (Radix * Radix)
Magic == Len(HEADER_MAGIC)

(* The word at offset i.                                                   *)
read_protocol_word(buf, i) == buf[i + 1] + Radix * buf[i + 2]

Length(buf) == read_protocol_word(buf, Magic)
Overhead == Magic + 4
Instruction(buf, i) == read_protocol_word(buf, Magic + 2 + 2 * i)

(* The sum of the length and of the first n instructions.                  *)
computed_checksum_bug(buf, n) ==
    LET sum[i \in 0..n] == IF i = 0 THEN 0 ELSE UInt16(sum[i - 1] + Instruction(buf, i - 1))
    IN  sum[n]
computed_checksum_low_bug(buf, n) ==
    LET sum[i \in 0..n] ==
            IF i = 0 THEN Length(buf)
            ELSE UInt16(sum[i - 1] + (Instruction(buf, i - 1) % Radix))
    IN  sum[n]
computed_checksum(buf, n) ==
    LET sum[i \in 0..n] ==
            IF i = 0 THEN Length(buf) ELSE UInt16(sum[i - 1] + Instruction(buf, i - 1))
    IN  sum[n]

-----------------------------------------------------------------------------
Init ==
    /\ at = "open"
    /\ file \in Files
    /\ size = 0
    /\ buffer = <<>>
    /\ prg = [length |-> 0, instructions |-> <<>>]
    /\ heap = {}

Goes(from, to) == at = from /\ at' = to
Allocates(block, from, to) == Goes(from, to) /\ heap' = heap \cup {block}
Frees(block, from, to)     == Goes(from, to) /\ heap' = heap \ {block}

(* Someone else rewrites the file.                                         *)
Rewrite(f) ==
    /\ at \in {"open", "allocate", "read"}
    /\ f # file
    /\ file' = f
    /\ UNCHANGED <<at, size, buffer, prg, heap>>

(* fopen, and the size by way of fseek and ftell, which is (size_t) -1 for *)
(* a file that cannot be positioned.                                       *)
Open ==
    /\ Goes("open", "allocate")
    /\ size' \in {Len(file), Unseekable}
    /\ UNCHANGED <<file, buffer, prg, heap>>

OpenFails == Goes("open", "failed") /\ UNCHANGED <<file, size, buffer, prg, heap>>

AllocateBuffer ==
    /\ size # Unseekable
    /\ Allocates("buf", "allocate", "read")
    /\ UNCHANGED <<file, size, buffer, prg>>

AllocateBufferFails ==
    Goes("allocate", "failed") /\ UNCHANGED <<file, size, buffer, prg, heap>>

(* fread stops at the size measured or at the end of the file as it is.    *)
Read ==
    /\ Goes("read", IF Len(file) < size THEN "short" ELSE "parse")
    /\ buffer' = SubSeq(file, 1, IF Len(file) < size THEN Len(file) ELSE size)
    /\ UNCHANGED <<file, size, prg, heap>>

(* An error of the device: the bytes that came before it are never looked  *)
(* at.                                                                     *)
ReadFails ==
    /\ size > 0
    /\ Goes("read", "short")
    /\ buffer' = <<>>
    /\ UNCHANGED <<file, size, prg, heap>>

ShortRead_bug == Goes("short", "failed") /\ UNCHANGED <<file, size, buffer, prg, heap>>
ShortRead == Frees("buf", "short", "failed") /\ UNCHANGED <<file, size, buffer, prg>>

(* load_program: the checks, in the order of the code.                     *)
LongEnough == size >= Overhead
HasMagic == SubSeq(buffer, 1, Magic) = HEADER_MAGIC
RightSize_bug == size >= Overhead + 2 * Length(buffer)
RightSize == size = Overhead + 2 * Length(buffer)
Malformed == IF LongEnough THEN ~HasMagic \/ ~RightSize ELSE TRUE

Reject ==
    /\ Goes("parse", "rejected")
    /\ Malformed
    /\ UNCHANGED <<file, size, buffer, prg, heap>>

AllocateProgram ==
    /\ Allocates("prg", "parse", "copy")
    /\ ~Malformed
    /\ prg' = [prg EXCEPT !.length = Length(buffer)]
    /\ UNCHANGED <<file, size, buffer>>

AllocateProgramFails ==
    /\ Goes("parse", "rejected")
    /\ ~Malformed
    /\ UNCHANGED <<file, size, buffer, prg, heap>>

Copy_bug ==
    /\ Len(prg.instructions) < prg.length
    /\ Goes("copy", "copy")
    /\ UNCHANGED <<file, size, buffer, prg, heap>>

(* One word more.                                                          *)
Copy ==
    LET i == Len(prg.instructions) IN
    /\ i < prg.length /\ i < PROGRAM_MEMORY_SIZE
    /\ Goes("copy", "copy")
    /\ prg' = [prg EXCEPT !.instructions = Append(@, Instruction(buffer, i))]
    /\ UNCHANGED <<file, size, buffer, heap>>

(* ... also beyond the array: whether the process survives that is open.   *)
Overrun ==
    LET i == Len(prg.instructions) IN
    /\ i < prg.length /\ i >= PROGRAM_MEMORY_SIZE
    /\ \E next \in {"copy", "crashed"} : Goes("copy", next)
    /\ prg' = [prg EXCEPT !.instructions = Append(@, Instruction(buffer, i))]
    /\ UNCHANGED <<file, size, buffer, heap>>

Copied == at = "copy" /\ Len(prg.instructions) = prg.length
SumGood ==
    computed_checksum(buffer, prg.length) = Instruction(buffer, prg.length)

BadChecksum ==
    /\ Copied /\ ~SumGood
    /\ Frees("prg", "copy", "rejected")
    /\ UNCHANGED <<file, size, buffer, prg>>

Accept ==
    /\ Copied /\ SumGood
    /\ Goes("copy", "loaded")
    /\ UNCHANGED <<file, size, buffer, prg, heap>>

(* ui_run again: the buffer is freed in either case.  It is forgotten only *)
(* after a success: what is wrong with a rejected one stays to be seen.    *)
GiveUp == Frees("buf", "rejected", "failed") /\ UNCHANGED <<file, size, buffer, prg>>

FreeBuffer ==
    /\ Frees("buf", "loaded", "start")
    /\ buffer' = <<>>
    /\ UNCHANGED <<file, size, prg>>

AllocateVm ==
    Allocates("vm", "start", "running") /\ UNCHANGED <<file, size, buffer, prg>>

(* The program is not freed here.                                          *)
AllocateVmFails ==
    Goes("start", "failed") /\ UNCHANGED <<file, size, buffer, prg, heap>>

Next ==
    \/ \E f \in Rewrites : Rewrite(f)
    \/ Open \/ OpenFails \/ AllocateBuffer \/ AllocateBufferFails
    \/ Read \/ ReadFails \/ ShortRead
    \/ Reject \/ AllocateProgram \/ AllocateProgramFails
    \/ Copy \/ Overrun \/ BadChecksum \/ Accept
    \/ GiveUp \/ FreeBuffer \/ AllocateVm \/ AllocateVmFails

Final == {"running", "failed", "crashed"}

Spec == Init /\ [][Next]_vars

-----------------------------------------------------------------------------
(* Properties.                                                             *)

(* The file of a program, written from its words by adding them up.        *)
Bytes(w) == <<w % Radix, w \div Radix>>
Concatenated(words) ==
    [i \in 1..(2 * Len(words)) |-> Bytes(words[(i + 1) \div 2])[2 - (i % 2)]]
Total(words) ==
    LET total[i \in 0..Len(words)] ==
            IF i = 0 THEN Len(words) ELSE total[i - 1] + words[i]
    IN  total[Len(words)]
Encoded(words) ==
    HEADER_MAGIC \o Bytes(Len(words)) \o Concatenated(words) \o Bytes(UInt16(Total(words)))

(* What is going to run is the words of a file exactly as they were        *)
(* encoded, all of them and nothing else, even if the file changed while   *)
(* it was read.                                                            *)
RunsTheFile ==
    (at = "loaded" /\ prg.length <= PROGRAM_MEMORY_SIZE) =>
        /\ Len(prg.instructions) = prg.length
        /\ buffer = Encoded(prg.instructions)

(* No well-formed file is turned away, but for want of memory.             *)
WellFormed(buf) ==
    \E n \in 0..Len(buf) :
        /\ Len(buf) = Overhead + 2 * n
        /\ buf = Encoded([i \in 1..n |-> Instruction(buf, i - 1)])
NeverTurnedAway == [][(Reject \/ BadChecksum) => ~WellFormed(buffer)]_vars

(* One word of the file altered, be it the length, an instruction or the   *)
(* checksum, and it is no program any more.                                *)
Altered(buf, i, w) == [buf EXCEPT ![i] = w % Radix, ![i + 1] = w \div Radix]
Acceptable(buf) ==
    /\ Len(buf) = Overhead + 2 * Length(buf)
    /\ computed_checksum(buf, Length(buf)) = Instruction(buf, Length(buf))
AlterationNoticed ==
    at = "loaded" =>
        \A k \in 0..(prg.length + 1), w \in 0..(Radix * Radix - 1) :
            LET altered == Altered(buffer, Magic + 2 * k + 1, w)
            IN  altered # buffer => ~Acceptable(altered)

(* Every way through frees the buffer once and uses no block that was      *)
(* freed; the program goes with a file that is rejected, and stays behind  *)
(* only if there was no memory for a machine.                              *)
Balanced ==
    /\ at \in {"read", "short", "parse", "copy", "rejected", "loaded"} => "buf" \in heap
    /\ at \in {"copy", "loaded", "start"} => "prg" \in heap
    /\ at \in {"start", "running", "failed"} => "buf" \notin heap
    /\ at \in {"rejected", "failed"} /\ "prg" \in heap => at = "failed" /\ buffer = <<>>

=============================================================================
