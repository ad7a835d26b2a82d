---------------------------- MODULE MemoryStream ----------------------------
(***************************************************************************)
(* holo::memory_stream: a block of memory with a position that reads,      *)
(* writes and seeks move.  The calls are given as what they return and     *)
(* what they leave behind; BinaryStreams runs them.                        *)
(***************************************************************************)
EXTENDS Bits

CONSTANTS
    Length,    \* stream_length
    Modulus    \* 2^w for a std::uint64_t of w bits

ASSUME LengthAssumption == Length \in Nat /\ Modulus \in Nat /\ Length < Modulus

VARIABLES
    stream_data,
    current_position,
    is_readable,
    is_writable

streamVars == <<stream_data, current_position, is_readable, is_writable>>

Positions == 0..Length

StreamTypeOK ==
    /\ stream_data \in [0..(Length - 1) -> Byte]
    /\ current_position \in Positions
    /\ is_readable \in BOOLEAN /\ is_writable \in BOOLEAN

StreamInit ==
    /\ stream_data = [i \in 0..(Length - 1) |-> {}]
    /\ current_position = 0
    /\ is_readable \in BOOLEAN /\ is_writable \in BOOLEAN

Least(a, b) == IF a < b THEN a ELSE b

\* How many of count bytes a read or a write from a position transfers.
Transferred(position, count) == Least(count, Length - position)

BytesRead(count) ==
    IF is_readable THEN Transferred(current_position, count) ELSE 0
BytesWritten(count) ==
    IF is_writable THEN Transferred(current_position, count) ELSE 0

\* The byte at a position that a read starting at `from` stores as data[i].
DataRead(from, i) == stream_data[from + i]

ReadBytes(count) ==
    /\ current_position' = current_position + BytesRead(count)
    /\ UNCHANGED <<stream_data, is_readable, is_writable>>

\* Bug: a write starts at the position the last byte of it will have.
DataWrittenLate(data, n) ==
    [i \in 0..(Length - 1) |->
        IF i \in current_position + 1 .. current_position + n
        THEN data[i - current_position - 1] ELSE stream_data[i]]
DataWritten(data, n) ==
    [i \in 0..(Length - 1) |->
        IF i \in current_position .. current_position + n - 1
        THEN data[i - current_position] ELSE stream_data[i]]

WriteBytes(data, count) ==
    /\ stream_data' = DataWritten(data, BytesWritten(count))
    /\ current_position' = current_position + BytesWritten(count)
    /\ UNCHANGED <<is_readable, is_writable>>

\* What new_position can hold.  A seek from the end leaves it without a
\* value: the offset is assigned instead.
NewPositions(offset, flags) ==
    CASE flags = "absolute" -> {offset}
      [] flags = "forward_relative" -> {(current_position + offset) % Modulus}
      [] flags = "backward_relative" ->
            {IF offset > current_position THEN 0 ELSE current_position - offset}
      [] flags = "end" -> IF offset > Length THEN {0} ELSE 0..(Modulus - 1)
      [] OTHER -> {}

\* Bug: the position is not kept inside the stream.
UnclampedPosition(position) == position
ClampedPosition(position) == IF position >= Length THEN Length ELSE position

seek(offset, flags) ==
    /\ \E p \in NewPositions(offset, flags) : current_position' = ClampedPosition(p)
    /\ UNCHANGED <<stream_data, is_readable, is_writable>>
=============================================================================
