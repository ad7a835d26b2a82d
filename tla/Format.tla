------------------------------- MODULE Format -------------------------------
(***************************************************************************)
(* The directives that text/format.hpp builds for snprintf, and what       *)
(* snprintf, as the C standard has it, makes of them.  A format is what    *)
(* the program asks for: a mode, the flags by name, a width and a value.   *)
(* A value is its sign and its digits in the base of the mode; a floating  *)
(* point value is one with as many zeros behind the point as are printed;  *)
(* the exponent that %e and %g write, which no property is about, is left  *)
(* out.                                                                    *)
(* Text is a sequence of characters; NUL is the terminator.                *)
(***************************************************************************)
EXTENDS Integers, Sequences

CONSTANTS
    NUL,
    Letters  \* the characters of the strings of the program

FlagMarks == {"-", "+", "#", "0"}
Digits == {"0", "1", "2", "3", "4", "5", "6", "7", "8", "9",
           "a", "b", "c", "d", "e", "f", "A", "B", "C", "D", "E", "F"}
Characters ==
    Letters \cup Digits \cup FlagMarks \cup {NUL, " ", ".", "%", "*", "l", "z"}
        \cup {"u", "o", "x", "X", "d", "e", "E", "g", "G", "f", "F"}

Flags == {"align_left", "force_sign", "force_special", "pad_zeroes", "case_upper"}

\* What the program can ask for; specifier is what the type of the value needs.
IsFormat(f) ==
    /\ f.flags \subseteq Flags /\ f.width \in Nat
    /\ f.floating_point \in BOOLEAN
    /\ f.floating_point \/ f.mode \in {"signed", "unsigned", "octal", "hexadecimal"}
    /\ f.specifier \in Seq({"l", "z"})
    /\ f.value.negative \in BOOLEAN
    /\ f.value.digits \in Seq(Digits) /\ f.value.digits # <<>>

When(flag, f, character) == IF flag \in f.flags THEN <<character>> ELSE <<>>
FlagCharacters(f) ==
    When("align_left", f, "-") \o When("force_sign", f, "+")
        \o When("force_special", f, "#") \o When("pad_zeroes", f, "0")

Conversion(f, lower, upper) == IF "case_upper" \in f.flags THEN upper ELSE lower

IntegerConversion(f) ==
    CASE f.mode = "unsigned" -> "u"
      [] f.mode = "octal" -> "o"
      [] f.mode = "hexadecimal" -> Conversion(f, "x", "X")
      [] OTHER -> "d"

\* Bug: the flags come behind the width.
FlagsBehindWidth(f) ==
    <<"%", "*">> \o FlagCharacters(f) \o f.specifier
        \o <<IntegerConversion(f)>>
IntegerDirective(f) ==
    <<"%">> \o FlagCharacters(f) \o <<"*">> \o f.specifier
        \o <<IntegerConversion(f)>>

\* The width of a floating point value is given as its precision.
FloatingPointDirective(f) ==
    <<"%">> \o FlagCharacters(f) \o <<".", "*">>
        \o <<CASE f.mode = "scientific" -> Conversion(f, "e", "E")
               [] f.mode = "small" -> Conversion(f, "g", "G")
               [] OTHER -> Conversion(f, "f", "F")>>

Directive(f) ==
    IF f.floating_point THEN FloatingPointDirective(f) ELSE IntegerDirective(f)

-----------------------------------------------------------------------------
(* snprintf.                                                                *)

Repeat(character, n) == [i \in 1..n |-> character]

\* The flags are the characters between % and the first that is none of them.
FlagsEnd(directive) ==
    CHOOSE i \in 2..Len(directive) :
        /\ directive[i] \notin FlagMarks
        /\ \A j \in 2..(i - 1) : directive[j] \in FlagMarks
FlagsRead(directive) == {directive[i] : i \in 2..(FlagsEnd(directive) - 1)}
\* A directive in which * is not where a width may be prints something else.
WidthRead(directive, width) ==
    IF directive[FlagsEnd(directive)] = "*" THEN width ELSE 0

Sign(flags, conversion, value) ==
    IF conversion \in {"u", "o", "x", "X"} THEN <<>>
    ELSE IF value.negative THEN <<"-">>
    ELSE IF "+" \in flags THEN <<"+">> ELSE <<>>
\* Zero has no prefix: its one digit is the zero that "#" asks an octal for.
Prefix(flags, conversion, value) ==
    IF "#" \notin flags \/ value.digits = <<"0">> THEN <<>>
    ELSE IF conversion = "o" THEN <<"0">>
    ELSE IF conversion \in {"x", "X"} THEN <<"0", conversion>> ELSE <<>>

\* A floating point value has a point when there is something behind it or "#"
\* asks for one.
Printed(directive, width, value) ==
    LET flags == FlagsRead(directive)
        conversion == directive[Len(directive)]
        head == Sign(flags, conversion, value) \o Prefix(flags, conversion, value)
        precision == \E i \in DOMAIN directive : directive[i] = "."
        point == IF conversion \in {"f", "F"} /\ (width > 0 \/ "#" \in flags)
                 THEN <<".">> ELSE <<>>
        tail == IF precision THEN value.digits \o point \o Repeat("0", width)
                ELSE value.digits
        room == IF precision THEN 0 ELSE WidthRead(directive, width) - Len(head \o tail)
    IN  IF "-" \in flags THEN head \o tail \o Repeat(" ", room)
        ELSE IF "0" \in flags THEN head \o Repeat("0", room) \o tail
        ELSE Repeat(" ", room) \o head \o tail

-----------------------------------------------------------------------------
(* The reference: the cell that an integer is documented to fill.           *)

Needed(f) ==
    Len(f.value.digits)
        + (IF f.mode # "signed" THEN 0
           ELSE IF f.value.negative \/ "force_sign" \in f.flags THEN 1 ELSE 0)
        + (IF "force_special" \notin f.flags \/ f.value.digits = <<"0">> THEN 0
           ELSE IF f.mode = "octal" THEN 1 ELSE IF f.mode = "hexadecimal" THEN 2 ELSE 0)

FillsCell(f, text) ==
    LET padded == f.width > Needed(f)
        spaces == {i \in DOMAIN text : text[i] = " "}
    IN  /\ Len(text) = IF padded THEN f.width ELSE Needed(f)
        /\ padded /\ "align_left" \in f.flags => text[Len(text)] = " " /\ 1 \notin spaces
        /\ padded /\ f.flags \cap {"align_left", "pad_zeroes"} = {} =>
              text[1] = " " /\ Len(text) \notin spaces
        /\ "align_left" \notin f.flags /\ "pad_zeroes" \in f.flags => spaces = {}
=============================================================================
