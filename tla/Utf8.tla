-------------------------------- MODULE Utf8 --------------------------------
(***************************************************************************)
(* UTF-8 as text/utf8.cpp reads it, beside a reference definition of       *)
(* well-formed sequences.  A text is a sequence of bytes; offsets count    *)
(* from 0, and the byte behind the text is whatever the memory holds there.*)
(*                                                                         *)
(* Exceptions are their names.  Which of them has the code of none is a    *)
(* parameter of the callers (module Exceptions says how one comes to).     *)
(***************************************************************************)
EXTENDS Integers, Sequences

Bytes == 0..255

is_utf8_trail_byte(c) == c \div 64 = 2

\* 0 for an invalid lead.
get_utf8_sequence_length(lead) ==
    IF lead < 128 THEN 1
    ELSE IF lead \div 32 = 6 THEN 2
    ELSE IF lead \div 16 = 14 THEN 3
    ELSE IF lead \div 8 = 30 THEN 4 ELSE 0

get_code_point_utf8_sequence_length(code_point) ==
    IF code_point < 128 THEN 1
    ELSE IF code_point < 2048 THEN 2
    ELSE IF code_point < 65536 THEN 3 ELSE 4

is_valid_code_point(code_point) ==
    code_point <= 1114111 /\ code_point \notin 55296..57343

\* The bits of a sequence.  In the longest, & binds looser than <<, which masks
\* the whole lead away, and the second byte stands for the third.
Decoded(b, length) ==
    CASE length = 1 -> b[1]
      [] length = 2 -> (b[1] % 32) * 64 + (b[2] % 64)
      [] length = 3 -> (b[1] % 16) * 4096 + (b[2] % 64) * 64 + (b[3] % 64)
      [] length = 4 -> (b[2] % 64) * 4096 + (b[2] % 64) * 64 + (b[4] % 64)

Read(exception, offset, value) ==
    [exception |-> exception, offset |-> offset, value |-> value]

\* Bug: a sequence may begin anywhere in the text.
FitsAtStart(new_offset, offset, length) == offset < length /\ new_offset > offset
\* A sequence has to end in the text.
Fits(new_offset, offset, length) == new_offset <= length /\ new_offset > offset

\* memory has the text and one byte more, none the exceptions that count as none.
utf8_increment(memory, length, offset, value, none) ==
    LET lead == memory[offset + 1]
        n == get_utf8_sequence_length(lead)
        b == [i \in 1..4 |-> IF offset + i <= Len(memory) THEN memory[offset + i] ELSE 0]
        decoded == Decoded(b, n)
    IN  IF n = 0 /\ "invalid_unicode_lead" \notin none
        THEN Read("invalid_unicode_lead", offset, value)
        ELSE IF ~Fits(offset + n, offset, length)
        THEN Read("index_out_of_range", offset, value)
        ELSE IF \E i \in 2..n : ~is_utf8_trail_byte(b[i])
        THEN Read("incomplete_unicode_sequence", offset, value)
        ELSE IF get_code_point_utf8_sequence_length(decoded) # n
        THEN Read("overlong_unicode_sequence", offset, decoded)
        ELSE IF ~is_valid_code_point(decoded)
        THEN Read("invalid_unicode_lead", offset, decoded)
        ELSE Read("none", offset + n, decoded)

\* Where the search for the beginning of the sequence before offset ends.
SequenceStart(memory, offset) ==
    CHOOSE o \in 0..(offset - 1) :
        /\ o = 0 \/ ~is_utf8_trail_byte(memory[o + 1])
        /\ \A p \in (o + 1)..(offset - 1) : is_utf8_trail_byte(memory[p + 1])

\* The sequence read there may end before offset.
utf8_decrement(memory, offset, value, none) ==
    IF offset = 0 THEN Read("index_out_of_range", offset, value)
    ELSE LET start == SequenceStart(memory, offset)
             read == utf8_increment(memory, offset, start, value, none)
         IN  Read(read.exception,
                  IF read.exception \in none THEN start ELSE offset, read.value)

-----------------------------------------------------------------------------
(* The reference: a sequence of one to three bytes, and its code point.     *)

Payload(b) == IF b < 128 THEN b ELSE IF b < 192 THEN b - 128
              ELSE IF b < 224 THEN b - 192 ELSE b - 224
CodePoint(s) ==
    CASE Len(s) = 1 -> s[1]
      [] Len(s) = 2 -> Payload(s[1]) * 64 + Payload(s[2])
      [] Len(s) = 3 -> Payload(s[1]) * 4096 + Payload(s[2]) * 64 + Payload(s[3])

WellFormed(s) ==
    \/ Len(s) = 1 /\ s[1] \in 0..127
    \/ Len(s) = 2 /\ s[1] \in 194..223 /\ s[2] \in 128..191
    \/ /\ Len(s) = 3 /\ s[1] \in 224..239
       /\ s[2] \in 128..191 /\ s[3] \in 128..191
       /\ s[1] = 224 => s[2] >= 160
       /\ s[1] = 237 => s[2] < 160
=============================================================================
