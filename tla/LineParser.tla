----------------------------- MODULE LineParser -----------------------------
(***************************************************************************)
(* Bytes into lines, and a line into a frame: addons/serial_link/src/      *)
(* line_parser.h and line_parser.cpp.  A line is a sequence of bytes and a *)
(* frame a tuple that starts with its kind.                                *)
(***************************************************************************)
EXTENDS Decimals

CONSTANTS
    Riders,      \* 4, the lanes of a frame R:
    MaxDigits,   \* 10
    MaxU32,      \* 2^32 - 1
    MaxI32,      \* 2^31 - 1
    MaxLine,     \* kMaxLine
    TextMax      \* kTextMax

ASSUME LineConstants ==
    {Riders, MaxDigits, MaxU32, MaxI32, MaxLine, TextMax} \subseteq Nat

Unprintable == {"NUL", "xFF"}

Rest(bytes, n) == SubSeq(bytes, n + 1, Len(bytes))

-----------------------------------------------------------------------------
(* Numbers.  What is not one is no number at all. *)

None == MaxU32 + 1

\* parse_u32: digits only, and at least one.
U32(s) ==
    IF /\ Len(s) \in 1 .. MaxDigits
       /\ \A k \in DOMAIN s : IsDigit(s[k])
       /\ Decimal(s) <= MaxU32
    THEN Decimal(s) ELSE None

\* parse_i32, where a sign may come first.
I32(s) ==
    LET signed == s # <<>> /\ s[1] \in {"-", "+"}
        n == U32(IF signed THEN Tail(s) ELSE s)
    IN  IF n > MaxI32 THEN None ELSE IF signed /\ s[1] = "-" THEN -n ELSE n

-----------------------------------------------------------------------------
(* Text, for the log: what is not printable takes four characters. *)

Width(c) == IF c \in Unprintable THEN 4 ELSE 1
Escaped(c) == IF c \in Unprintable THEN <<"\\", "x", "0", "0">> ELSE <<c>>

\* escape_into: the longest beginning that fits, with the final NUL.
Text(s) ==
    LET Needs(n) == FoldLeft(LAMBDA acc, c : acc + Width(c), 0, SubSeq(s, 1, n))
        fits == {n \in 0 .. Len(s) : Needs(n) <= TextMax - 1}
    IN  FlattenSeq([k \in 1 .. Max(fits) |-> Escaped(s[k])])

Unknown(s) == <<"Unknown", Text(s)>>

-----------------------------------------------------------------------------
(* parse_line. *)

\* The fields of a line, between the commas.
Fields(s) ==
    LET cuts == SetToSortSeq({k \in DOMAIN s : s[k] = ","} \cup {0, Len(s) + 1}, <) IN
    [k \in 1 .. Len(cuts) - 1 |-> SubSeq(s, cuts[k] + 1, cuts[k + 1] - 1)]

\* A frame R: has as many fields as lanes, and the time.
Progress(s) ==
    LET f == [k \in DOMAIN Fields(s) |-> U32(Fields(s)[k])] IN
    IF Len(f) = Riders + 1 /\ \A k \in DOMAIN f : f[k] # None
    THEN <<"R", SubSeq(f, 1, Riders), f[Riders + 1]>> ELSE <<>>

Numbered(kind, n) == IF n = None THEN <<>> ELSE <<kind, n>>

IsFinish(s) == Len(s) >= 3 /\ IsDigit(s[1]) /\ Digit[s[1]] <= 3 /\ s[2] = "F" /\ s[3] = ":"

\* What a line with a known head says, or nothing.
Said(s) ==
    CASE s \in {<<"G">>, <<"S">>} -> s
      [] IsFinish(s) -> IF U32(Rest(s, 3)) = None THEN <<>>
                        ELSE <<"F", Digit[s[1]], U32(Rest(s, 3))>>
      [] IsPrefix(<<"R", ":">>, s) -> Progress(Rest(s, 2))
      [] IsPrefix(<<"C", "D", ":">>, s) -> Numbered("CD", I32(Rest(s, 3)))
      [] IsPrefix(<<"F", "S", ":">>, s) ->
            IF U32(Rest(s, 3)) > 3 THEN <<>> ELSE <<"FS", U32(Rest(s, 3))>>
      [] IsPrefix(<<"E", "R", "R", "O", "R", ":">>, s) -> <<"ERROR", Text(s)>>
      [] IsPrefix(<<"L", ":">>, s) -> Numbered("L", I32(Rest(s, 2)))
      [] IsPrefix(<<"M", ":">>, s) -> IF s = <<"M", ":", "O", "N">> THEN <<"M", TRUE>>
                                      ELSE IF s = <<"M", ":", "O", "F", "F">> THEN <<"M", FALSE>>
                                      ELSE <<>>
      [] IsPrefix(<<"V", ":">>, s) -> <<"V", Text(Rest(s, 2))>>
      [] OTHER -> <<>>

Parse(s) == IF Said(s) = <<>> THEN Unknown(s) ELSE Said(s)

-----------------------------------------------------------------------------
(* LineAssembler.  Its flag pending_ says that the line is not empty. *)

EmptyLine == [bytes |-> <<>>, overflowed |-> FALSE, frames |-> <<>>]

\* Mutant: a line too long leaves the flag up.
EndedOverflowed(asm) ==
    IF asm.overflowed THEN [asm EXCEPT !.bytes = <<>>]
    ELSE [asm EXCEPT !.bytes = <<>>, !.frames = Append(@, Parse(asm.bytes))]

\* The end of a line that is not empty.
Ended(asm) ==
    IF asm.overflowed THEN [asm EXCEPT !.bytes = <<>>, !.overflowed = FALSE]
    ELSE [asm EXCEPT !.bytes = <<>>, !.frames = Append(@, Parse(asm.bytes))]

\* One byte of feed; frames are those produced so far.
Fed(asm, c) ==
    IF c \in {"\r", "\n"} THEN IF asm.bytes = <<>> THEN asm ELSE Ended(asm)
    ELSE IF Len(asm.bytes) < MaxLine THEN [asm EXCEPT !.bytes = Append(@, c)]
    ELSE [asm EXCEPT !.overflowed = TRUE]

Feed(asm, bytes) == FoldLeft(Fed, [asm EXCEPT !.frames = <<>>], bytes)

\* Mutant: a reset forgets nothing.
ResetNot(asm) == asm

Reset(asm) == EmptyLine
=============================================================================
