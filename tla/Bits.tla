-------------------------------- MODULE Bits --------------------------------
(***************************************************************************)
(* holo::math, the operations on bits: a machine word is the set of the    *)
(* positions of its one bits, position 0 being the least significant, so   *)
(* that | is union, & is intersection and every width is a real one.       *)
(***************************************************************************)
EXTENDS Integers

Word(width) == SUBSET (0..(width - 1))
Byte == Word(8)

ShiftLeft(v, k, width) == {b + k : b \in v} \cap 0..(width - 1)
ShiftRight(v, k) == {b - k : b \in {c \in v : c >= k}}

\* math::mask: (1 << (N + 1)) - 1, and nothing for N = 0.
Mask(n) == IF n = 0 THEN {} ELSE 0..n

\* The bits 8 * low .. 8 * high + 7 of a word: a mask of whole bytes.
Bytes(low, high) == 8 * low .. 8 * high + 7

\* math::swap_bytes, for each of its overloads.
SwapBytes16(v) == ShiftRight(v, 8) \cup ShiftLeft(v, 8, 16)

\* Bug: the masks of the two inner bytes are exchanged.
SwapBytes32Crossed(v) ==
    UNION { ShiftLeft(v, 24, 32),
            ShiftRight(v, 24) \cap Bytes(0, 0),
            ShiftLeft(v \cap Bytes(2, 2), 8, 32),
            ShiftRight(v \cap Bytes(1, 1), 8) }
SwapBytes32(v) ==
    UNION { ShiftLeft(v, 24, 32),
            ShiftRight(v, 24) \cap Bytes(0, 0),
            ShiftLeft(v \cap Bytes(1, 1), 8, 32),
            ShiftRight(v \cap Bytes(2, 2), 8) }

SwapBytes64(v) ==
    UNION { ShiftLeft(v, 56, 64),
            ShiftLeft(v, 40, 64) \cap Bytes(6, 6),
            ShiftLeft(v, 24, 64) \cap Bytes(5, 5),
            ShiftLeft(v, 8, 64) \cap Bytes(4, 4),
            ShiftRight(v, 8) \cap Bytes(3, 3),
            ShiftRight(v, 24) \cap Bytes(2, 2),
            ShiftRight(v, 40) \cap Bytes(1, 1),
            ShiftRight(v, 56) }

\* The overload for a word of so many bytes; a single byte is never swapped.
SwapBytes(v, size) ==
    CASE size = 1 -> v
      [] size = 2 -> SwapBytes16(v)
      [] size = 4 -> SwapBytes32(v)
      [] size = 8 -> SwapBytes64(v)

\* Byte i of a word, counted from the least significant, and the word made
\* of the bytes f[0], f[1], ..., f[size - 1].
ByteOf(v, i) == ShiftRight(v \cap Bytes(i, i), 8 * i)
FromBytes(f, size) == UNION {{b + 8 * i : b \in f[i]} : i \in 0..(size - 1)}
=============================================================================
