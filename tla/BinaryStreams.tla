---------------------------- MODULE BinaryStreams ----------------------------
(***************************************************************************)
(* holo::binary_writer and holo::binary_reader over one memory_stream: a   *)
(* program writes primitives and handles, reads, seeks, and uses the       *)
(* stream directly as well.  Memory is laid out as the host lays it out.   *)
(***************************************************************************)
EXTENDS MemoryStream, Handle

CONSTANTS
    Values,     \* for each size in bytes, the words of that size written
    Fields,     \* the <<age, scope, index>> of the handles written
    Offsets,    \* arguments given to seek
    MaxWrites   \* bound on the number of writes

ASSUME ValuesAssumption ==
    /\ DOMAIN Values = {1, 2, 4, 8}
    /\ \A size \in {1, 2, 4, 8} : Values[size] \subseteq Word(8 * size)
    /\ Offsets \subseteq 0..(Modulus - 1) /\ MaxWrites \in Nat
\* What encode is given is in range: it says that it does not check.
ASSUME FieldsAssumption == Fields \subseteq Word(Age) \X Word(Scope) \X Word(Index)

Sizes == {1, 2, 4, 8}
Endiannesses == {"little", "big"}
HandleSize == 16

VARIABLES
    host,     \* the byte order of the machine
    order,    \* the endianness the writer was constructed with
    writes,   \* the number of writes so far, up to MaxWrites
    stored    \* history: what was written and not overwritten since

vars == <<streamVars, host, order, writes, stored>>

Record(at, kind, size, value) ==
    [at |-> at, kind |-> kind, size |-> size, value |-> value]

TypeOK ==
    /\ StreamTypeOK
    /\ host \in Endiannesses /\ order \in Endiannesses
    /\ writes \in 0..MaxWrites
    /\ \A r \in stored :
          /\ r.at \in Positions /\ r.at + r.size <= Length
          /\ r.kind \in {"primitive", "handle"} /\ r.size \in Sizes \cup {HandleSize}

Init ==
    /\ StreamInit
    /\ host \in Endiannesses /\ order \in Endiannesses
    /\ writes = 0
    /\ stored = {}

-----------------------------------------------------------------------------
(* A primitive in memory, and as it is written and read.                    *)

\* Byte i of the object representation of a word on the host.
InMemory(v, size, i) ==
    IF host = "little" THEN ByteOf(v, i) ELSE ByteOf(v, size - 1 - i)

\* The word whose object representation is data[0], ..., data[size - 1].
FromMemory(data, size) ==
    IF host = "little" THEN FromBytes(data, size)
    ELSE FromBytes([i \in 0..(size - 1) |-> data[size - 1 - i]], size)

\* Bug: a writer or reader swaps when its order is the host's.
SwappedWhenEqual(endianness, v, size) ==
    IF endianness = host THEN SwapBytes(v, size) ELSE v
Swapped(endianness, v, size) ==
    IF endianness # host THEN SwapBytes(v, size) ELSE v

\* What a writer hands to the stream for a primitive and for a handle, whose
\* four fields follow one another as std::uint32_t until one does not fit.
PrimitiveBytes(v, size) ==
    [i \in 0..(size - 1) |-> InMemory(Swapped(order, v, size), size, i)]

DecodedField(handle, k) ==
    CASE k = 0 -> Type
      [] k = 1 -> decode_age(handle)
      [] k = 2 -> decode_scope(handle)
      [] k = 3 -> decode_index(handle)

HandleBytes(handle) ==
    [i \in 0..(HandleSize - 1) |->
        PrimitiveBytes(DecodedField(handle, i \div 4), 4)[i % 4]]

\* What a reader makes of the bytes at a position when they are all there.
ValueRead(endianness, at, size) ==
    Swapped(endianness, FromMemory([i \in 0..(size - 1) |-> DataRead(at, i)], size),
            size)

FieldRead(endianness, at, k) == ValueRead(endianness, at + 4 * k, 4)

\* read_handle: nothing when the type is another one, or the handle.
HandleRead(endianness, at) ==
    IF FieldRead(endianness, at, 0) # Type THEN {}
    ELSE {encode(FieldRead(endianness, at, 1), FieldRead(endianness, at, 2),
                 FieldRead(endianness, at, 3))}

-----------------------------------------------------------------------------
\* History: a write of so many bytes destroys what it overlaps.
Kept(n) ==
    {r \in stored : \/ r.at + r.size <= current_position
                    \/ current_position + n <= r.at}

Write(kind, value, data, size) ==
    /\ writes < MaxWrites /\ writes' = writes + 1
    /\ WriteBytes(data, size)
    /\ stored' = Kept(BytesWritten(size)) \cup
          (IF BytesWritten(size) = size
           THEN {Record(current_position, kind, size, value)} ELSE {})
    /\ UNCHANGED <<host, order>>

\* write_byte, ..., write_ulong; the constructor asserts a writable stream.
WritePrimitive(v, size) ==
    is_writable /\ Write("primitive", v, PrimitiveBytes(v, size), size)

WriteHandle(f) ==
    LET handle == encode(f[1], f[2], f[3])
    IN  is_writable /\ Write("handle", f, HandleBytes(handle), HandleSize)

\* read_byte, ..., read_ulong, and read_handle, which reads until a field is
\* not there: both consume what there is of the bytes they want.
Read(size) ==
    /\ is_readable
    /\ ReadBytes(size)
    /\ UNCHANGED <<host, order, writes, stored>>

Seek(offset, flags) ==
    /\ seek(offset, flags)
    /\ UNCHANGED <<host, order, writes, stored>>

\* The stream used directly, with more bytes than it has, readable or not.
ReadAll ==
    /\ ReadBytes(Length + 1)
    /\ UNCHANGED <<host, order, writes, stored>>

WriteOver ==
    /\ writes < MaxWrites /\ writes' = writes + 1
    /\ WriteBytes([i \in 0..Length |-> Bytes(0, 0)], Length + 1)
    /\ stored' = Kept(BytesWritten(Length + 1))
    /\ UNCHANGED <<host, order>>

Next ==
    \/ \E size \in Sizes : \E v \in Values[size] : WritePrimitive(v, size)
    \/ \E f \in Fields : WriteHandle(f)
    \/ \E size \in Sizes \cup {HandleSize} : Read(size)
    \/ \E offset \in Offsets :
          \E flags \in {"absolute", "forward_relative", "backward_relative", "end"} :
              Seek(offset, flags)
    \/ ReadAll
    \/ WriteOver

Spec == Init /\ [][Next]_vars

-----------------------------------------------------------------------------
HandleOf(r) == encode(r.value[1], r.value[2], r.value[3])
Primitives == {r \in stored : r.kind = "primitive"}
Handles == {r \in stored : r.kind = "handle"}

(* What is on the stream does not depend on the machine that wrote it: a    *)
(* primitive that nothing overwrote lies there least significant byte first *)
(* for a little-endian writer, most significant first for a big-endian one. *)
MediumOrder ==
    \A r \in Primitives : \A i \in 0..(r.size - 1) :
        stream_data[r.at + i] =
            ByteOf(r.value, IF order = "little" THEN i ELSE r.size - 1 - i)

(* A reader of the writer's endianness finds the value that was written,    *)
(* whatever was sought, read and written elsewhere, and a reader of the     *)
(* other endianness finds its bytes in the opposite order.                  *)
ReadBack ==
    \A r \in Primitives :
        /\ ValueRead(order, r.at, r.size) = r.value
        /\ \A e \in Endiannesses \ {order} : \A i \in 0..(r.size - 1) :
              ByteOf(ValueRead(e, r.at, r.size), i) = ByteOf(r.value, r.size - 1 - i)

(* A handle comes back from the stream as it was written, of its type and   *)
(* with the fields it was made of.  mask gives one bit more than a field    *)
(* has, so that a field is decoded with the lowest bit of the next one; its *)
(* own bits are those that were encoded, although encoding masks as widely. *)
HandleReadBack ==
    \A r \in Handles :
        LET handle == HandleOf(r)
        IN  /\ HandleRead(order, r.at) = {handle}
            /\ is_type(handle)
            /\ decode_age(handle) \cap 0..(Age - 1) = r.value[1]
            /\ decode_scope(handle) \cap 0..(Scope - 1) = r.value[2]
            /\ decode_index(handle) \cap 0..(Index - 1) = r.value[3]
=============================================================================
