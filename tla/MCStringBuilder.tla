-------------------------- MODULE MCStringBuilder ---------------------------
(***************************************************************************)
(* StringBuilder for TLC: integers with each of the flags, in cells        *)
(* that are wider and narrower than it is, a floating point value, and two *)
(* strings, one of them empty.                                             *)
(***************************************************************************)
EXTENDS StringBuilder

MCFormat(mode, specifier, flags, width, value) ==
    [floating_point |-> FALSE, mode |-> mode, specifier |-> specifier,
     flags |-> flags, width |-> width, value |-> value]
MCValue(negative, digits) == [negative |-> negative, digits |-> digits]

MCFormats ==
    {MCFormat("signed", <<>>, flags, 3, MCValue(TRUE, <<"7">>)) :
        flags \in SUBSET {"align_left", "pad_zeroes"}}
    \cup {MCFormat("unsigned", <<>>, {"force_sign"}, 1, MCValue(FALSE, <<"7">>)),
          MCFormat("hexadecimal", <<"z">>, {"force_special", "case_upper", "pad_zeroes"}, 5,
                   MCValue(FALSE, <<"7">>)),
          MCFormat("octal", <<"l">>, {"force_special", "align_left"}, 3,
                   MCValue(FALSE, <<"7">>)),
          MCFormat("octal", <<>>, {"force_special"}, 2, MCValue(FALSE, <<"0">>)),
          [MCFormat("decimal", <<>>, {"force_sign", "pad_zeroes"}, 1, MCValue(FALSE, <<"7">>))
              EXCEPT !.floating_point = TRUE]}
MCTexts == {<<>>, <<"a", "b">>}
MCSymmetry == Permutations(Buffers)
=============================================================================
