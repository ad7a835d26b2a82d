------------------------------ MODULE MCStrings ------------------------------
(***************************************************************************)
(* Instances of Strings: a text of one character, and none.                *)
(***************************************************************************)
EXTENDS Strings, TLC

CONSTANTS empty, a
MCTextOf == empty :> <<>> @@ a :> <<1>>
Symmetry == Permutations(Strings) \cup Permutations(Buffers)
=============================================================================
