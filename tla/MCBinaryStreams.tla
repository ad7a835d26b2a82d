--------------------------- MODULE MCBinaryStreams ---------------------------
(***************************************************************************)
(* Instances of BinaryStreams with the widths of the program: words of 8   *)
(* to 64 bits whose bytes all differ, and the handle definition of the     *)
(* tests, 20 bits of age and 18 of scope and index.                        *)
(***************************************************************************)
EXTENDS BinaryStreams

\* Byte i of each word is i + 1.
Counting(size) ==
    FromBytes([i \in 0..7 |-> CASE i = 0 -> {0} [] i = 1 -> {1} [] i = 2 -> {0, 1}
                                [] i = 3 -> {2} [] i = 4 -> {0, 2} [] i = 5 -> {1, 2}
                                [] i = 6 -> {0, 1, 2} [] i = 7 -> {3}], size)
MCValues == [size \in {1, 2, 4, 8} |-> {Counting(size)}]

\* 16, and the fields of the tests (132 each), an odd scope and full fields.
MCType == {4}
MCFields == {<<{2, 7}, {2, 7}, {2, 7}>>, <<{0, 19}, {0, 17}, 0..17>>}

\* 18 is past the end, and wraps around as a forward seek from most positions.
MCOffsets == {1, 18}
=============================================================================
