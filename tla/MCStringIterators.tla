-------------------------- MODULE MCStringIterators --------------------------
(***************************************************************************)
(* StringIterators for TLC: all texts of up to MaxLength bytes, some of    *)
(* each kind: one byte alone, the first and the last trail byte, an        *)
(* overlong and a proper lead of two bytes, three leads of three, one of   *)
(* which begins overlong sequences and one surrogates, a lead of four, and *)
(* no lead; and a few that are longer.                                     *)
(***************************************************************************)
EXTENDS StringIterators

CONSTANT MaxLength

MCBytes == {40, 128, 191, 193, 195, 224, 226, 237, 240, 248}
MCLonger == {<<195, 128, 226, 128, 191, 40>>, <<226, 128, 191, 195, 40>>,
             <<240, 191, 128, 128>>, <<40, 195, 128, 128, 40>>}
MCTexts == MCLonger \cup UNION {[1..n -> MCBytes] : n \in 0..MaxLength}
MCFirsts == {"index_out_of_range", "out_of_memory", "invalid_unicode_lead"}
=============================================================================
