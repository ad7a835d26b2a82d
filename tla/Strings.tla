------------------------------- MODULE Strings -------------------------------
(***************************************************************************)
(* holo::string: immutable text in buffers that string objects share and   *)
(* count, or in C strings they do not manage.  One action per constructor  *)
(* and operator; the characters are values that only equality tells apart. *)
(***************************************************************************)
EXTENDS Integers, Sequences, FiniteSets

CONSTANTS
    Strings,     \* the places where the program constructs string objects
    Buffers,     \* the places where an allocator puts a string_buffer
    Literals,    \* C strings that live as long as the program
    TextOf,      \* their characters
    Unknown,     \* stands for a character outside of them, whatever it is
    Word,        \* values of std::size_t
    MaxLength,   \* the longest text that an allocator has memory for
    MaxOverrun,  \* bound on the bytes strlen reads behind a buffer
    NULL

ASSUME LiteralAssumption ==
    /\ DOMAIN TextOf = Literals
    /\ \A l \in Literals : TextOf[l] \in Seq(Int) /\ Len(TextOf[l]) <= MaxLength
    /\ Unknown \in Int /\ Word \in Nat /\ MaxLength \in Nat
    /\ MaxLength + MaxOverrun < Word
    /\ NULL \notin Strings \cup Buffers \cup Literals
    /\ Buffers \cap Literals = {} /\ MaxOverrun \in Nat
    /\ IsFiniteSet(Strings)

VARIABLES
    object,      \* the fields of each string object
    data,        \* the characters of each buffer
    references,  \* its reference_count, or 0 when the buffer is deallocated
    abandoned,   \* history: buffers that no string object will count down
    strayed,     \* history: strings with ends that nobody compared with the text
    phase        \* "running", or "faulted" after a null pointer was followed

vars == <<object, data, references, abandoned, strayed, phase>>

\* A pointer to a string_buffer, to a C string, or to a buffer's characters.
Pointer(kind, at) == [kind |-> kind, at |-> at]
Null == Pointer("null", NULL)
BufferPointers == {Pointer("buffer", b) : b \in Buffers}
DataPointers == {Pointer("data", b) : b \in Buffers}
LiteralPointers == {Pointer("literal", l) : l \in Literals}

Object(mode, pointer, offset, length) ==
    [live |-> TRUE, storage_mode |-> mode, pointer |-> pointer,
     offset |-> offset, length |-> length]
Empty == Object("unmanaged", Null, 0, 0)
Dead == [Empty EXCEPT !.live = FALSE]

Alive(s) == object[s].live
Managed(s) == Alive(s) /\ object[s].storage_mode = "managed"
HasBuffer(s) == Managed(s) /\ object[s].pointer # Null
BufferOf(s) == object[s].pointer.at
Holders(b) == {s \in Strings : HasBuffer(s) /\ BufferOf(s) = b}

\* The characters that the pointer of a string leads to, those of a buffer as long
\* as it is allocated, and the end of what the string takes for its own.
Characters(s) ==
    LET p == object[s].pointer
    IN  IF HasBuffer(s) \/ (p \in DataPointers /\ references[p.at] > 0) THEN data[p.at]
        ELSE IF p \in LiteralPointers THEN TextOf[p.at]
        ELSE <<>>
End(s) == object[s].offset + object[s].length

TypeOK ==
    /\ \A s \in Strings :
          /\ object[s].live \in BOOLEAN
          /\ object[s].storage_mode \in {"managed", "unmanaged"}
          /\ object[s].pointer \in
                {Null} \cup BufferPointers \cup DataPointers \cup LiteralPointers
          /\ Managed(s) => object[s].pointer \in {Null} \cup BufferPointers
          /\ object[s].offset \in 0..(Word - 1) /\ object[s].length \in 0..(Word - 1)
    /\ references \in [Buffers -> Nat]
    /\ DOMAIN data = Buffers
    /\ abandoned \subseteq Buffers /\ strayed \subseteq Strings
    /\ phase \in {"running", "faulted"}

Init ==
    /\ object = [s \in Strings |-> Dead]
    /\ data = [b \in Buffers |-> <<>>]
    /\ references = [b \in Buffers |-> 0]
    /\ abandoned = {} /\ strayed = {}
    /\ phase = "running"

-----------------------------------------------------------------------------
(* Buffers.                                                                 *)

Unused == {b \in Buffers : references[b] = 0}

\* construct_buffer has succeeded at b.
ConstructBuffer(b, text) ==
    /\ data' = [data EXCEPT ![b] = text]
    /\ references' = [references EXCEPT ![b] = 1]

NoBuffer == UNCHANGED <<data, references>>

\* Bug: copies share the buffer without counting.
ReferenceForgotten(b) == references
\* reference_buffer and dereference_buffer; at zero the buffer is deallocated.
Reference(b) == [references EXCEPT ![b] = @ + 1]
Dereference(b) == [references EXCEPT ![b] = @ - 1]

\* Bug: the new buffer is referenced and the old one is not let go.
ExchangeWithoutRelease(old, new) == [references EXCEPT ![new] = @ + 1]
\* The old buffer is let go before the new one is referenced.
Exchange(old, new) ==
    [b \in Buffers |-> references[b] - (IF b = old THEN 1 ELSE 0)
                                     + (IF b = new THEN 1 ELSE 0)]

\* What is left of the characters when the counts are those of the next state.
Released == [b \in Buffers |-> IF references'[b] = 0 THEN <<>> ELSE data[b]]

Running == phase = "running" /\ UNCHANGED phase
Fault ==
    /\ phase = "running" /\ phase' = "faulted"
    /\ UNCHANGED <<object, data, references, abandoned, strayed>>

Becomes(s, fields) == object' = [object EXCEPT ![s] = fields]
Strays(s, does) == strayed' = IF does THEN strayed \cup {s} ELSE strayed \ {s}

-----------------------------------------------------------------------------
(* Constructors.                                                            *)

Construct(s) ==
    /\ Running /\ ~Alive(s)
    /\ Becomes(s, Empty) /\ Strays(s, FALSE)
    /\ NoBuffer /\ UNCHANGED abandoned

Wrapped(l) == Object("unmanaged", Pointer("literal", l), 0, Len(TextOf[l]))

\* string(const char*)
Wrap(s, l) ==
    /\ Running /\ ~Alive(s)
    /\ Becomes(s, Wrapped(l)) /\ Strays(s, FALSE)
    /\ NoBuffer /\ UNCHANGED abandoned

\* string(allocator, const char*)
ConstructManaged(s, l) ==
    \E b \in Unused :
        /\ Running /\ ~Alive(s)
        /\ ConstructBuffer(b, TextOf[l])
        /\ Becomes(s, Object("managed", Pointer("buffer", b), 0, Len(TextOf[l])))
        /\ Strays(s, FALSE) /\ UNCHANGED abandoned

\* The allocation fails and the length of the buffer is read all the same.
ConstructManagedFails(s) == ~Alive(s) /\ Fault

\* string(allocator, first, last) gives storage_mode no value: what it holds
\* decides whether the object will ever let its buffer go.  Whatever is not
\* storage_managed is taken for storage_unmanaged, and the buffer for a C string.
RangeConstructed(s, text) ==
    \E mode \in {"managed", "unmanaged"}, b \in Unused :
        /\ Running /\ ~Alive(s) /\ Len(text) <= MaxLength
        /\ ConstructBuffer(b, text)
        /\ Becomes(s, Object(mode, Pointer("buffer", b), 0, Len(text)))
        /\ abandoned' = IF mode = "managed" THEN abandoned ELSE abandoned \cup {b}
        /\ Strays(s, mode = "unmanaged")

RangeFails(s) ==
    \E mode \in {"managed", "unmanaged"} :
        /\ Running /\ ~Alive(s)
        /\ Becomes(s, Object(mode, Null, 0, 0)) /\ Strays(s, FALSE)
        /\ NoBuffer /\ UNCHANGED abandoned

\* The copy constructor's effect on the counts.
CopyReferences(other) ==
    IF HasBuffer(other) THEN Reference(BufferOf(other)) ELSE references

Copy(s, other) ==
    /\ Running /\ ~Alive(s) /\ Alive(other)
    /\ Becomes(s, object[other]) /\ Strays(s, other \in strayed)
    /\ references' = CopyReferences(other)
    /\ UNCHANGED <<data, abandoned>>

Destroy(s) ==
    /\ Running /\ Alive(s)
    /\ Becomes(s, Dead) /\ Strays(s, FALSE)
    /\ references' = IF HasBuffer(s) THEN Dereference(BufferOf(s)) ELSE references
    /\ data' = Released
    /\ UNCHANGED abandoned

\* Bug: the length is the offset the substring ends at.
SubstringToEnd(other, first, last) ==
    [object[other] EXCEPT !.offset = first, !.length = last]
\* The offsets of the iterators count from the start of the string, and
\* replace its own offset.
Substring(other, first, last) ==
    [object[other] EXCEPT !.offset = first, !.length = (last - first) % Word]

\* The iterators have to belong to the string, and that is all: they may be in the
\* wrong order, or have been behind its length since it was assigned to.
SubstringOf(s, other, first, last) ==
    /\ Running /\ ~Alive(s) /\ Alive(other)
    /\ Becomes(s, Substring(other, first, last))
    /\ Strays(s, other \in strayed \/ first > last \/ last > object[other].length)
    /\ references' = CopyReferences(other)
    /\ UNCHANGED <<data, abandoned>>

-----------------------------------------------------------------------------
(* Assignment and duplication.                                              *)

Assign(s, other) ==
    /\ Running /\ s # other /\ Alive(s) /\ Alive(other)
    /\ Managed(s) => HasBuffer(s)
    /\ Managed(other) => HasBuffer(other)
    /\ Becomes(s, object[other]) /\ Strays(s, other \in strayed)
    /\ references' = Exchange(IF Managed(s) THEN BufferOf(s) ELSE NULL,
                              IF Managed(other) THEN BufferOf(other) ELSE NULL)
    /\ data' = Released
    /\ UNCHANGED abandoned

\* A managed string without a buffer is assigned, or assigned to.
AssignFaults(s, other) ==
    /\ s # other /\ Alive(s) /\ Alive(other)
    /\ \/ Managed(s) /\ ~HasBuffer(s)
       \/ Managed(other) /\ ~HasBuffer(other)
    /\ Fault

\* Where strlen may find the end of a text that is not terminated: at a character
\* that came from outside another text, or behind it.
Ends(text) ==
    {i - 1 : i \in {j \in DOMAIN text : text[j] = Unknown}}
        \cup Len(text)..(Len(text) + MaxOverrun)

\* duplicate of a managed string wraps the characters of its buffer, and returns
\* without counting it.
DuplicateManaged(s, other) ==
    /\ Running /\ ~Alive(s) /\ HasBuffer(other) /\ object[other].length > 0
    /\ \E count \in Ends(data[BufferOf(other)]) :
          Becomes(s, Object("unmanaged", Pointer("data", BufferOf(other)), 0, count))
    /\ Strays(s, TRUE)
    /\ NoBuffer /\ UNCHANGED abandoned

RangeOf(other) ==
    [i \in 1..object[other].length |->
        IF object[other].offset + i \in DOMAIN Characters(other)
        THEN Characters(other)[object[other].offset + i] ELSE Unknown]

\* duplicate() of an unmanaged string is a copy, with an allocator it is a
\* range of its characters; of an empty string it is an empty string.
DuplicateUnmanaged(s, other) ==
    /\ Alive(other) /\ ~Managed(other) /\ object[other].length > 0
    /\ \/ Copy(s, other)
       \/ object[other].pointer # Null /\ RangeConstructed(s, RangeOf(other))
       \/ RangeFails(s)

\* A null buffer is followed, or what is read outside a text is not memory.
DuplicateFaults(s, other) ==
    /\ ~Alive(s) /\ Alive(other) /\ object[other].length > 0
    /\ IF Managed(other) THEN ~HasBuffer(other) ELSE End(other) > Len(Characters(other))
    /\ Fault

DuplicateEmpty(s, other) ==
    Alive(other) /\ object[other].length = 0 /\ Construct(s)

Next ==
    \/ \E s \in Strings :
          \/ Construct(s)
          \/ \E l \in Literals : Wrap(s, l) \/ ConstructManaged(s, l)
          \/ ConstructManagedFails(s)
          \/ \E l \in Literals : RangeConstructed(s, TextOf[l])
          \/ RangeFails(s)
          \/ Destroy(s)
    \/ \E s, other \in Strings :
          \/ Copy(s, other)
          \/ \E first, last \in 0..(Word - 1) : SubstringOf(s, other, first, last)
          \/ Assign(s, other)
          \/ AssignFaults(s, other)
          \/ DuplicateManaged(s, other)
          \/ DuplicateUnmanaged(s, other)
          \/ DuplicateFaults(s, other)
          \/ DuplicateEmpty(s, other)

Spec == Init /\ [][Next]_vars

-----------------------------------------------------------------------------
(* The count of a buffer is the number of string objects that will count it *)
(* down, through copies, substrings, assignments in a circle and destroyed  *)
(* objects: it is never deallocated under a string that manages it, and     *)
(* never kept when the last one is gone.  A buffer that a string with an    *)
(* unset storage_mode took for a C string has one count too many for good.  *)
CountsHolders ==
    \A b \in Buffers :
        references[b] = Cardinality(Holders(b)) + (IF b \in abandoned THEN 1 ELSE 0)

(* A string never reaches outside its characters, however many substrings   *)
(* of substrings and assignments it went through, but in three ways, and    *)
(* copied from a string that does: the iterators of a substring were in the *)
(* wrong order or behind the string; it is what duplicate makes of a        *)
(* managed string; or an unset storage_mode hides that it has a buffer.     *)
WithinText ==
    \A s \in Strings \ strayed : Alive(s) => End(s) <= Len(Characters(s))

(* A string is immutable: what one object does to the buffers never changes *)
(* the text of another that manages its storage.                            *)
Text(s) ==
    [i \in (object[s].offset + 1)..(object[s].offset + object[s].length)
        \cap DOMAIN data[BufferOf(s)] |-> data[BufferOf(s)][i]]
TextKept ==
    [][\A s \in Strings :
          HasBuffer(s) /\ object'[s] = object[s] => Text(s)' = Text(s)]_vars
=============================================================================
