---------------------------- MODULE StringsProofs ----------------------------
(***************************************************************************)
(* Proofs about string objects and about the iterators over their texts.   *)
(*                                                                         *)
(* The buffers that objects share, for any number of objects, buffers and  *)
(* texts: each operation writes the fields of one object; Becoming says    *)
(* what it has to do to the counts and the texts for the invariant to      *)
(* survive, and each operation is shown to do that.                        *)
(*                                                                         *)
(* Iterators, over any text of any length: a read of a sequence in the     *)
(* memory behind the text gives what the reference definition says of that *)
(* slice of the text, and the boundaries between sequences are closed      *)
(* under the steps in both directions.                                     *)
(***************************************************************************)
EXTENDS Strings, StringIterators, FiniteSetTheorems, SequenceTheorems,
        WellFoundedInduction, TLAPS

Pointers == {Null} \cup BufferPointers \cup DataPointers \cup LiteralPointers
Fields ==
    [live : BOOLEAN, storage_mode : {"managed", "unmanaged"}, pointer : Pointers,
     offset : 0..(Word - 1), length : 0..(Word - 1)]

IsManaged(o) == o.live /\ o.storage_mode = "managed"
Proper(o) == IsManaged(o) => o.pointer \in {Null} \cup BufferPointers
\* o is the fields of an object that will count the buffer b down.
Counted(o, b) == IsManaged(o) /\ o.pointer = Pointer("buffer", b)

One(condition) == IF condition THEN 1 ELSE 0

ShortTexts == {t \in Seq(Int) : Len(t) <= MaxLength}

Extent(o, texts) ==
    IF IsManaged(o) /\ o.pointer # Null THEN Len(texts[o.pointer.at])
    ELSE IF o.pointer \in LiteralPointers THEN Len(TextOf[o.pointer.at])
    ELSE 0
Within(o, texts) == o.live => o.offset + o.length <= Extent(o, texts)

Types ==
    /\ object \in [Strings -> Fields]
    /\ \A s \in Strings : Proper(object[s])
    /\ data \in [Buffers -> ShortTexts]
    /\ references \in [Buffers -> Nat]
    /\ abandoned \subseteq Buffers /\ strayed \subseteq Strings
    /\ phase \in {"running", "faulted"}

Inv == Types /\ CountsHolders /\ \A s \in Strings \ strayed : Within(object[s], data)

-----------------------------------------------------------------------------
(* Fields.                                                                  *)

LEMMA PointerTypes ==
    /\ Null \in Pointers /\ Null.kind = "null"
    /\ \A b \in Buffers : /\ Pointer("buffer", b) \in Pointers \cap BufferPointers
                          /\ Pointer("data", b) \in Pointers \cap DataPointers
                          /\ Pointer("buffer", b) # Null
                          /\ Pointer("buffer", b).kind = "buffer"
                          /\ Pointer("buffer", b).at = b
    /\ \A l \in Literals : /\ Pointer("literal", l) \in Pointers \cap LiteralPointers
                           /\ Pointer("literal", l).kind = "literal"
                           /\ Pointer("literal", l).at = l
BY DEF Pointers, Null, Pointer, BufferPointers, DataPointers, LiteralPointers

\* A pointer to a buffer is the one its field says.
LEMMA BufferPointer ==
    ASSUME NEW p \in {Null} \cup BufferPointers, p # Null
    PROVE  p.at \in Buffers /\ p = Pointer("buffer", p.at)
BY DEF BufferPointers, Pointer

\* The holders of a buffer, by the fields of the objects.
LEMMA HoldersAre ==
    ASSUME Types, NEW b \in Buffers
    PROVE  Holders(b) = {s \in Strings : Counted(object[s], b)}
<1>1. ASSUME NEW s \in Strings
      PROVE  HasBuffer(s) /\ BufferOf(s) = b <=> Counted(object[s], b)
  <2>1. HasBuffer(s) <=> IsManaged(object[s]) /\ object[s].pointer # Null
    BY DEF HasBuffer, Managed, Alive, IsManaged
  <2>2. IsManaged(object[s]) => object[s].pointer \in {Null} \cup BufferPointers
    BY DEF Types, Proper
  <2>. QED  BY <2>1, <2>2, BufferPointer, PointerTypes DEF Counted, BufferOf
<1>. QED  BY <1>1 DEF Holders

LEMMA Finite ==
    ASSUME NEW b \in Buffers
    PROVE  IsFiniteSet(Holders(b)) /\ Cardinality(Holders(b)) \in Nat
<1>1. Holders(b) \subseteq Strings /\ IsFiniteSet(Strings)
  BY LiteralAssumption DEF Holders
<1>. QED  BY <1>1, FS_Subset, FS_CardinalityType

(* The same in the next state, whose types are known.                       *)
LEMMA HoldersNext ==
    ASSUME Types', NEW b \in Buffers
    PROVE  /\ Holders(b)' = {u \in Strings : Counted(object'[u], b)}
           /\ IsFiniteSet(Holders(b)') /\ Cardinality(Holders(b)') \in Nat
<1>1. ASSUME NEW u \in Strings
      PROVE  (HasBuffer(u) /\ BufferOf(u) = b)' <=> Counted(object'[u], b)
  <2>1. HasBuffer(u)' <=> IsManaged(object'[u]) /\ object'[u].pointer # Null
    BY DEF HasBuffer, Managed, Alive, IsManaged, Null
  <2>2. IsManaged(object'[u]) => object'[u].pointer \in {Null} \cup BufferPointers
    BY DEF Types, Proper, IsManaged
  <2>. QED  BY <2>1, <2>2, BufferPointer, PointerTypes DEF Counted, BufferOf
<1>2. Holders(b)' \subseteq Strings /\ IsFiniteSet(Strings)
  BY LiteralAssumption DEF Holders
<1>. QED  BY <1>1, <1>2, FS_Subset, FS_CardinalityType DEF Holders

(* A buffer that nothing counts is held by nobody and was not abandoned.    *)
LEMMA UnusedFree ==
    ASSUME Inv, NEW b \in Unused
    PROVE  /\ b \in Buffers /\ b \notin abandoned
           /\ \A s \in Strings : ~Counted(object[s], b)
<1>1. b \in Buffers /\ references[b] = 0
  BY DEF Unused
<1>2. Cardinality(Holders(b)) = 0 /\ b \notin abandoned
  BY <1>1, Finite DEF Inv, CountsHolders
<1>3. Holders(b) = {}
  BY <1>1, <1>2, Finite, FS_EmptySet
<1>. QED  BY <1>1, <1>2, <1>3, HoldersAre DEF Inv

(* What one object's new fields do to the number of holders of a buffer.    *)
LEMMA HoldersCount ==
    ASSUME Types, Types', NEW s \in Strings, NEW f \in Fields,
           object' = [object EXCEPT ![s] = f], NEW b \in Buffers
    PROVE  Cardinality(Holders(b)') + One(Counted(object[s], b)) =
               Cardinality(Holders(b)) + One(Counted(f, b))
<1>1. Holders(b) = {u \in Strings : Counted(object[u], b)}
  BY HoldersAre
<1>2. Holders(b)' = {u \in Strings : Counted(object'[u], b)}
  BY HoldersNext
<1>3. object'[s] = f /\ \A u \in Strings \ {s} : object'[u] = object[u]
  BY DEF Types
<1>4. Cardinality(Holders(b)) \in Nat /\ IsFiniteSet(Holders(b))
  BY Finite
<1>5. CASE Counted(object[s], b) /\ Counted(f, b)
  <2>1. Holders(b)' = Holders(b)
    BY <1>1, <1>2, <1>3, <1>5
  <2>. QED  BY <1>4, <1>5, <2>1 DEF One
<1>6. CASE Counted(object[s], b) /\ ~Counted(f, b)
  <2>1. s \in Holders(b) /\ Holders(b)' = Holders(b) \ {s}
    BY <1>1, <1>2, <1>3, <1>6
  <2>2. Cardinality(Holders(b)') = Cardinality(Holders(b)) - 1
    BY <1>4, <2>1, FS_RemoveElement
  <2>. QED  BY <1>4, <1>6, <2>2 DEF One
<1>7. CASE ~Counted(object[s], b) /\ Counted(f, b)
  <2>1. s \notin Holders(b) /\ Holders(b)' = Holders(b) \cup {s}
    BY <1>1, <1>2, <1>3, <1>7
  <2>2. Cardinality(Holders(b)') = Cardinality(Holders(b)) + 1
    BY <1>4, <2>1, FS_AddElement
  <2>. QED  BY <1>4, <1>7, <2>2 DEF One
<1>8. CASE ~Counted(object[s], b) /\ ~Counted(f, b)
  <2>1. Holders(b)' = Holders(b)
    BY <1>1, <1>2, <1>3, <1>8
  <2>. QED  BY <1>4, <1>8, <2>1 DEF One
<1>. QED  BY <1>5, <1>6, <1>7, <1>8

(* The object with fields old becomes f, and the counts follow.             *)
Balanced(old, f, b) ==
    references'[b] + One(Counted(old, b)) + One(b \in abandoned) =
        references[b] + One(Counted(f, b)) + One(b \in abandoned')

TypedNext ==
    /\ references' \in [Buffers -> Nat]
    /\ data' \in [Buffers -> ShortTexts]
    /\ abandoned' \subseteq Buffers
    /\ phase' \in {"running", "faulted"}

\* A buffer that is counted before and after a step keeps its characters.
CountedKept ==
    \A b \in Buffers : references[b] # 0 /\ references'[b] # 0 => data'[b] = data[b]

\* A buffer that an object manages is counted.
LEMMA ManagedCounted ==
    ASSUME Inv, NEW s \in Strings, IsManaged(object[s]), object[s].pointer # Null
    PROVE  /\ object[s].pointer.at \in Buffers
           /\ references[object[s].pointer.at] # 0
<1>. DEFINE b == object[s].pointer.at
<1>1. b \in Buffers /\ object[s].pointer = Pointer("buffer", b)
  BY BufferPointer DEF Inv, Types, Proper
<1>2. Counted(object[s], b)
  BY <1>1 DEF Counted
<1>3. CASE references[b] = 0
  BY <1>1, <1>2, <1>3, UnusedFree DEF Unused
<1>. QED  BY <1>1, <1>3

LEMMA ManagedCountedNext ==
    ASSUME Types', CountsHolders', NEW s \in Strings,
           IsManaged(object'[s]), object'[s].pointer # Null
    PROVE  /\ object'[s].pointer.at \in Buffers
           /\ references'[object'[s].pointer.at] # 0
<1>1. object'[s].pointer \in {Null} \cup BufferPointers
  BY DEF Types, Proper, IsManaged
<1>2. PICK b \in Buffers : /\ object'[s].pointer = Pointer("buffer", b)
                           /\ object'[s].pointer.at = b
  BY <1>1, BufferPointer
<1>3. Counted(object'[s], b)
  BY <1>2 DEF Counted
<1>4. Cardinality(Holders(b)') \in Nat /\ Cardinality(Holders(b)') # 0
  BY <1>3, HoldersNext, FS_EmptySet
<1>5. references'[b] = Cardinality(Holders(b)') + (IF b \in abandoned' THEN 1 ELSE 0)
  BY DEF CountsHolders
<1>. QED  BY <1>2, <1>4, <1>5

(* What keeps the invariant when an operation writes the fields of s.       *)
LEMMA Becoming ==
    ASSUME Inv, NEW s \in Strings, NEW f \in Fields, Proper(f), Becomes(s, f),
           NEW strays \in BOOLEAN, Strays(s, strays), strays \/ Within(f, data'),
           TypedNext, CountedKept,
           \A b \in Buffers : Balanced(object[s], f, b)
    PROVE  Inv'
<1>1. object' = [object EXCEPT ![s] = f] /\ object' \in [Strings -> Fields]
  BY DEF Becomes, Inv, Types
<1>2. object'[s] = f /\ \A u \in Strings \ {s} : object'[u] = object[u]
  BY <1>1 DEF Inv, Types
<1>3. \A u \in Strings : Proper(object'[u])
  BY <1>2 DEF Inv, Types
<1>4. Types'
  BY <1>1, <1>3 DEF Types, TypedNext, Proper, IsManaged, Null, Strays, Inv
<1>5. CountsHolders'
  <2>1. ASSUME NEW b \in Buffers
        PROVE  references'[b] = Cardinality(Holders(b)') + One(b \in abandoned')
    <3>1. Cardinality(Holders(b)') + One(Counted(object[s], b)) =
              Cardinality(Holders(b)) + One(Counted(f, b))
      BY <1>1, <1>4, HoldersCount DEF Inv
    <3>2. references[b] = Cardinality(Holders(b)) + One(b \in abandoned)
      BY DEF Inv, CountsHolders, One
    <3>3. Cardinality(Holders(b)) \in Nat
      BY Finite
    <3>4. Cardinality(Holders(b)') \in Nat
      BY <1>4, HoldersNext
    <3>5. references'[b] \in Nat
      BY DEF TypedNext
    <3>. QED  BY <3>1, <3>2, <3>3, <3>4, <3>5 DEF Balanced, One
  <2>2. ASSUME NEW b \in Buffers
        PROVE  references'[b] =
                   Cardinality(Holders(b)') + (IF b \in abandoned' THEN 1 ELSE 0)
    BY <2>1 DEF One
  <2>. QED  BY <2>2 DEF CountsHolders
<1>6. ASSUME NEW u \in Strings \ strayed'
      PROVE  Within(object'[u], data')
  <2>1. CASE u = s
    BY <1>2, <1>6, <2>1 DEF Strays
  <2>2. CASE u # s
    <3>1. object'[u] = object[u] /\ Within(object[u], data)
      BY <1>2, <1>6, <2>2 DEF Inv, Strays
    <3>2. IsManaged(object[u]) /\ object[u].pointer # Null =>
              data'[object[u].pointer.at] = data[object[u].pointer.at]
      BY <1>4, <1>5, <1>6, <3>1, ManagedCounted, ManagedCountedNext DEF CountedKept
    <3>. QED  BY <3>1, <3>2 DEF Within, Extent
  <2>. QED  BY <2>1, <2>2
<1>. QED  BY <1>4, <1>5, <1>6 DEF Inv, Within, Extent, IsManaged, Null, LiteralPointers

-----------------------------------------------------------------------------
(* The operations.                                                          *)

\* The lengths of texts, also with what strlen runs over, are values of std::size_t.
LEMMA WordTypes ==
    /\ Word \in Nat /\ MaxLength \in Nat /\ MaxOverrun \in Nat /\ 0 \in 0..(Word - 1)
    /\ MaxLength + MaxOverrun < Word
BY LiteralAssumption

\* The fields a constructor writes.
LEMMA ObjectTypes ==
    ASSUME NEW storage \in {"managed", "unmanaged"}, NEW pointer \in Pointers,
           NEW offset \in 0..(Word - 1), NEW count \in 0..(Word - 1)
    PROVE  LET f == Object(storage, pointer, offset, count)
           IN  /\ f \in Fields /\ f.live /\ f.storage_mode = storage
               /\ f.pointer = pointer /\ f.offset = offset /\ f.length = count
BY DEF Object, Fields

LEMMA EmptyTypes ==
    /\ Empty \in Fields /\ ~IsManaged(Empty) /\ Empty.pointer = Null
    /\ Dead \in Fields /\ ~Dead.live /\ ~IsManaged(Dead)
<1>0. 0 \in 0..(Word - 1)
  BY WordTypes
<1>1. Empty \in Fields /\ Empty.storage_mode = "unmanaged" /\ Empty.pointer = Null
  BY <1>0, ObjectTypes, PointerTypes DEF Empty
<1>. QED  BY <1>1 DEF Dead, IsManaged, Fields

LEMMA TextTypes ==
    ASSUME NEW l \in Literals
    PROVE  /\ TextOf[l] \in ShortTexts /\ TextOf[l] \in Seq(Int)
           /\ Len(TextOf[l]) \in Nat /\ Len(TextOf[l]) \in 0..(Word - 1)
BY LiteralAssumption, WordTypes DEF ShortTexts

(* An operation that leaves the counts alone and whose object manages no    *)
(* buffer, before and after.                                                *)
LEMMA Uncounted ==
    ASSUME Inv, NEW s \in Strings, ~IsManaged(object[s]),
           NEW f \in Fields, ~IsManaged(f), Becomes(s, f),
           NEW strays \in BOOLEAN, Strays(s, strays), strays \/ Within(f, data),
           UNCHANGED <<data, references, abandoned, phase>>
    PROVE  Inv' /\ CountedKept
<1>1. Proper(f) /\ (strays \/ Within(f, data'))
  BY DEF Proper, Within, Extent
<1>2. TypedNext /\ CountedKept
  BY DEF TypedNext, CountedKept, Inv, Types
<1>3. ASSUME NEW b \in Buffers
      PROVE  Balanced(object[s], f, b)
  <2>1. ~Counted(object[s], b) /\ ~Counted(f, b) /\ references[b] \in Nat
    BY DEF Counted, Inv, Types
  <2>. QED  BY <2>1 DEF Balanced, One
<1>. QED  BY <1>1, <1>2, <1>3, Becoming

LEMMA ConstructKeeps ==
    ASSUME Inv, NEW s \in Strings, Construct(s)
    PROVE  Inv' /\ CountedKept
<1>1. Empty \in Fields /\ ~IsManaged(Empty) /\ Empty.offset = 0 /\ Empty.length = 0
  BY EmptyTypes DEF Empty, Object
<1>2. Within(Empty, data)
  BY <1>1, EmptyTypes, PointerTypes DEF Within, Extent, LiteralPointers, Pointer
<1>3. Becomes(s, Empty) /\ Strays(s, FALSE) /\ ~IsManaged(object[s])
  BY DEF Construct, Alive, IsManaged
<1>4. UNCHANGED <<data, references, abandoned, phase>>
  BY DEF Construct, Running, NoBuffer
<1>. QED  BY <1>1, <1>2, <1>3, <1>4, Uncounted

LEMMA WrapKeeps ==
    ASSUME Inv, NEW s \in Strings, NEW l \in Literals, Wrap(s, l)
    PROVE  Inv' /\ CountedKept
<1>. DEFINE f == Wrapped(l)
<1>1. Pointer("literal", l) \in Pointers /\ Pointer("literal", l).at = l
  BY PointerTypes
<1>2. Len(TextOf[l]) \in Nat /\ Len(TextOf[l]) \in 0..(Word - 1) /\ 0 \in 0..(Word - 1)
  BY TextTypes, WordTypes
<1>3. /\ f \in Fields /\ f.storage_mode = "unmanaged"
      /\ f.pointer = Pointer("literal", l) /\ f.offset = 0
      /\ f.length = Len(TextOf[l])
  BY <1>1, <1>2, ObjectTypes DEF Wrapped
<1>4. ~IsManaged(f) /\ Within(f, data)
  BY <1>1, <1>2, <1>3 DEF IsManaged, Within, Extent, LiteralPointers
<1>. HIDE DEF f
<1>5. Becomes(s, f) /\ Strays(s, FALSE) /\ ~IsManaged(object[s])
  BY DEF Wrap, f, Alive, IsManaged
<1>6. UNCHANGED <<data, references, abandoned, phase>>
  BY DEF Wrap, Running, NoBuffer
<1>. QED  BY <1>3, <1>4, <1>5, <1>6, Uncounted

(* A buffer constructed where none was, for an object that manages it or    *)
(* one whose storage_mode was never set.                                    *)
LEMMA NewBufferKeeps ==
    ASSUME Inv, NEW s \in Strings, ~Alive(s), NEW b \in Unused,
           NEW chars \in ShortTexts, NEW storage \in {"managed", "unmanaged"},
           Running, Strays(s, storage = "unmanaged"), ConstructBuffer(b, chars),
           Becomes(s, Object(storage, Pointer("buffer", b), 0, Len(chars))),
           abandoned' = IF storage = "managed" THEN abandoned ELSE abandoned \cup {b}
    PROVE  Inv' /\ CountedKept
<1>. DEFINE f == Object(storage, Pointer("buffer", b), 0, Len(chars))
<1>1. b \in Buffers /\ references[b] = 0 /\ b \notin abandoned
  BY UnusedFree DEF Unused
<1>2. /\ Pointer("buffer", b) \in Pointers \cap BufferPointers
      /\ Pointer("buffer", b).at = b /\ Pointer("buffer", b).kind = "buffer"
  BY <1>1, PointerTypes
<1>3. Len(chars) \in Nat /\ Len(chars) \in 0..(Word - 1)
  BY WordTypes DEF ShortTexts
<1>4. /\ f \in Fields /\ f.live /\ f.storage_mode = storage /\ f.offset = 0
      /\ f.pointer = Pointer("buffer", b) /\ f.length = Len(chars)
  <2>1. Pointer("buffer", b) \in Pointers /\ 0 \in 0..(Word - 1)
    BY <1>2, WordTypes
  <2>. QED  BY <1>3, <2>1, ObjectTypes
<1>. HIDE DEF f
<1>5. Becomes(s, f) /\ ~IsManaged(object[s])
  BY DEF f, Alive, IsManaged
<1>6. TypedNext /\ data'[b] = chars
  BY <1>1 DEF TypedNext, ConstructBuffer, Running, Inv, Types
<1>7. CountedKept
  BY <1>1 DEF CountedKept, ConstructBuffer, Inv, Types
<1>8. Proper(f) /\ (storage = "unmanaged" \/ Within(f, data'))
  <2>1. Pointer("buffer", b) # Null
    BY <1>1, PointerTypes
  <2>. QED  BY <1>2, <1>3, <1>4, <1>6, <2>1 DEF Proper, Within, Extent, IsManaged
<1>9. ASSUME NEW c \in Buffers
      PROVE  Balanced(object[s], f, c)
  <2>1. ~Counted(object[s], c) /\ references[c] \in Nat
    BY <1>5 DEF Counted, Inv, Types
  <2>2. CASE c = b
    <3>1. references'[c] = 1
      BY <1>1, <2>2 DEF ConstructBuffer, Inv, Types
    <3>2. Counted(f, c) <=> storage = "managed"
      BY <1>4, <2>2 DEF Counted, IsManaged
    <3>3. c \in abandoned' <=> storage # "managed"
      BY <1>1, <2>2
    <3>. QED  BY <1>1, <2>1, <2>2, <3>1, <3>2, <3>3 DEF Balanced, One
  <2>3. CASE c # b
    <3>1. references'[c] = references[c] /\ (c \in abandoned' <=> c \in abandoned)
      BY <2>3 DEF ConstructBuffer, Inv, Types
    <3>2. ~Counted(f, c)
      <4>1. Pointer("buffer", c).at = c
        BY PointerTypes
      <4>. QED  BY <1>2, <1>4, <2>3, <4>1 DEF Counted
    <3>. QED  BY <2>1, <3>1, <3>2 DEF Balanced, One
  <2>. QED  BY <2>2, <2>3
<1>. QED  BY <1>4, <1>5, <1>6, <1>7, <1>8, <1>9, Becoming

LEMMA ConstructManagedKeeps ==
    ASSUME Inv, NEW s \in Strings, NEW l \in Literals, ConstructManaged(s, l)
    PROVE  Inv' /\ CountedKept
<1>1. TextOf[l] \in ShortTexts
  BY TextTypes
<1>2. PICK b \in Unused :
          /\ Running /\ ~Alive(s)
          /\ ConstructBuffer(b, TextOf[l])
          /\ Becomes(s, Object("managed", Pointer("buffer", b), 0, Len(TextOf[l])))
          /\ Strays(s, FALSE) /\ UNCHANGED abandoned
  BY DEF ConstructManaged
<1>. QED  BY <1>1, <1>2, NewBufferKeeps DEF Strays

LEMMA RangeConstructedKeeps ==
    ASSUME Inv, NEW s \in Strings, NEW chars \in Seq(Int), RangeConstructed(s, chars)
    PROVE  Inv' /\ CountedKept
<1>1. chars \in ShortTexts
  BY DEF RangeConstructed, ShortTexts
<1>2. PICK storage \in {"managed", "unmanaged"}, b \in Unused :
          /\ Running /\ ~Alive(s) /\ Len(chars) <= MaxLength
          /\ ConstructBuffer(b, chars)
          /\ Becomes(s, Object(storage, Pointer("buffer", b), 0, Len(chars)))
          /\ abandoned' = IF storage = "managed" THEN abandoned ELSE abandoned \cup {b}
          /\ Strays(s, storage = "unmanaged")
  BY DEF RangeConstructed
<1>. QED  BY <1>1, <1>2, NewBufferKeeps

LEMMA RangeFailsKeeps ==
    ASSUME Inv, NEW s \in Strings, RangeFails(s)
    PROVE  Inv' /\ CountedKept
<1>1. PICK storage \in {"managed", "unmanaged"} :
          /\ Running /\ ~Alive(s)
          /\ Becomes(s, Object(storage, Null, 0, 0)) /\ Strays(s, FALSE)
          /\ NoBuffer /\ UNCHANGED abandoned
  BY DEF RangeFails
<1>. DEFINE f == Object(storage, Null, 0, 0)
<1>2. f \in Fields /\ f.pointer = Null /\ f.offset = 0 /\ f.length = 0
  <2>1. Null \in Pointers /\ 0 \in 0..(Word - 1)
    BY PointerTypes, WordTypes
  <2>. QED  BY <2>1, ObjectTypes
<1>. HIDE DEF f
<1>3. Becomes(s, f) /\ ~IsManaged(object[s])
  BY <1>1 DEF f, Alive, IsManaged
<1>4. TypedNext /\ CountedKept
  BY <1>1 DEF TypedNext, CountedKept, Running, NoBuffer, Inv, Types
<1>5. Proper(f) /\ Within(f, data')
  BY <1>2, PointerTypes DEF Proper, Within, Extent, LiteralPointers, Pointer
<1>6. ASSUME NEW b \in Buffers
      PROVE  Balanced(object[s], f, b)
  <2>1. ~Counted(object[s], b) /\ references[b] \in Nat
    BY <1>3 DEF Counted, Inv, Types
  <2>2. ~Counted(f, b)
    BY <1>2, PointerTypes DEF Counted
  <2>. QED  BY <1>1, <2>1, <2>2 DEF Balanced, One, NoBuffer
<1>. QED  BY <1>1, <1>2, <1>3, <1>4, <1>5, <1>6, Becoming

LEMMA CharactersTypes ==
    ASSUME Types, NEW s \in Strings
    PROVE  Characters(s) \in Seq(Int)
<1>. DEFINE p == object[s].pointer
<1>1. HasBuffer(s) => p.at \in Buffers
  BY BufferPointer DEF HasBuffer, Managed, Alive, IsManaged, Types, Proper
<1>2. /\ p \in DataPointers => p.at \in Buffers
      /\ p \in LiteralPointers => p.at \in Literals
  BY DEF DataPointers, LiteralPointers, Pointer
<1>3. \A b \in Buffers : data[b] \in Seq(Int)
  BY DEF Types, ShortTexts
<1>4. HasBuffer(s) => BufferOf(s) = p.at
  BY DEF BufferOf
<1>. QED  BY <1>1, <1>2, <1>3, <1>4, TextTypes DEF Characters

LEMMA ExtentTypes ==
    ASSUME Types, CountsHolders, NEW s \in Strings
    PROVE  Extent(object[s], data) \in Nat
<1>1. IsManaged(object[s]) /\ object[s].pointer # Null => object[s].pointer.at \in Buffers
  BY BufferPointer DEF Types, Proper
<1>2. object[s].pointer \in LiteralPointers => object[s].pointer.at \in Literals
  BY DEF LiteralPointers, Pointer
<1>3. \A b \in Buffers : Len(data[b]) \in Nat
  BY DEF Types, ShortTexts
<1>. QED  BY <1>1, <1>2, <1>3, TextTypes DEF Extent

(* An object made from another: its fields point where the other's do, at a *)
(* part of what they pointed at, and its buffer is counted once more.       *)
LEMMA SharedKeeps ==
    ASSUME Inv, NEW s \in Strings, NEW other \in Strings, ~Alive(s), Alive(other),
           NEW f \in Fields, Becomes(s, f), f.live,
           f.storage_mode = object[other].storage_mode,
           f.pointer = object[other].pointer,
           NEW strays \in BOOLEAN, Strays(s, strays),
           strays \/ (other \notin strayed /\ f.offset + f.length <= End(other)),
           references' = CopyReferences(other), UNCHANGED <<data, abandoned, phase>>
    PROVE  Inv' /\ CountedKept
<1>1. IsManaged(f) <=> IsManaged(object[other])
  BY DEF IsManaged, Alive
<1>2. HasBuffer(other) <=> IsManaged(object[other]) /\ object[other].pointer # Null
  BY DEF HasBuffer, Managed, Alive, IsManaged
<1>3. Proper(object[other])
  BY DEF Inv, Types
<1>4. Proper(f)
  BY <1>1, <1>3 DEF Proper
<1>5. strays \/ Within(f, data')
  <2>. SUFFICES ASSUME ~strays PROVE Within(f, data')
    OBVIOUS
  <2>1. Within(object[other], data) /\ f.offset + f.length <= End(other)
    BY DEF Inv
  <2>2. Extent(f, data') = Extent(object[other], data)
    BY <1>1 DEF Extent
  <2>3. End(other) <= Extent(object[other], data)
    BY <2>1 DEF Within, End, Alive
  <2>4. End(other) \in Nat /\ f.offset + f.length \in Nat
    BY DEF End, Fields, Inv, Types
  <2>5. Extent(object[other], data) \in Nat
    BY ExtentTypes DEF Inv
  <2>. QED  BY <2>1, <2>2, <2>3, <2>4, <2>5 DEF Within
<1>6. HasBuffer(other) => BufferOf(other) \in Buffers
  BY <1>2, ManagedCounted DEF BufferOf
<1>7. TypedNext
  BY <1>6 DEF TypedNext, CopyReferences, Reference, Inv, Types
<1>8. CountedKept
  BY DEF CountedKept
<1>9. ASSUME NEW b \in Buffers
      PROVE  Balanced(object[s], f, b)
  <2>1. ~Counted(object[s], b) /\ references[b] \in Nat
    BY DEF Alive, Counted, IsManaged, Inv, Types
  <2>2. Counted(f, b) <=> HasBuffer(other) /\ BufferOf(other) = b
    <3>1. HasBuffer(other) => object[other].pointer = Pointer("buffer", BufferOf(other))
      BY <1>2, <1>3, BufferPointer DEF Proper, BufferOf
    <3>2. Pointer("buffer", b) # Null /\ Pointer("buffer", b).at = b
      BY PointerTypes
    <3>. QED  BY <1>1, <1>2, <3>1, <3>2 DEF Counted, BufferOf
  <2>3. references'[b] = references[b] + One(Counted(f, b))
    BY <1>6, <2>1, <2>2 DEF CopyReferences, Reference, One, Inv, Types
  <2>. QED  BY <2>1, <2>3 DEF Balanced, One
<1>. QED  BY <1>4, <1>5, <1>7, <1>8, <1>9, Becoming

LEMMA CopyKeeps ==
    ASSUME Inv, NEW s \in Strings, NEW other \in Strings, Copy(s, other)
    PROVE  Inv' /\ CountedKept
<1>1. object[other] \in Fields /\ object[other].live
  BY DEF Copy, Alive, Inv, Types
<1>2. End(other) \in Nat /\ object[other].offset + object[other].length = End(other)
  BY <1>1 DEF Fields, End
<1>3. Strays(s, other \in strayed) /\ (other \in strayed) \in BOOLEAN
  BY DEF Copy
<1>4. End(other) <= End(other)
  BY <1>2
<1>. QED  BY <1>1, <1>2, <1>3, <1>4, SharedKeeps DEF Copy, Running

LEMMA SubstringKeeps ==
    ASSUME Inv, NEW s \in Strings, NEW other \in Strings,
           NEW first \in 0..(Word - 1), NEW last \in 0..(Word - 1),
           SubstringOf(s, other, first, last)
    PROVE  Inv' /\ CountedKept
<1>. DEFINE f == Substring(other, first, last)
            strays == other \in strayed \/ first > last \/ last > object[other].length
<1>1. /\ object[other] \in Fields /\ object[other].live
      /\ object[other].offset \in Nat /\ object[other].length \in Nat
  BY DEF SubstringOf, Alive, Inv, Types, Fields
<1>2. first \in Nat /\ last \in Nat /\ Word \in Nat /\ Word > 0 /\ last < Word
  BY WordTypes
<1>3. (last - first) % Word \in 0..(Word - 1)
  BY <1>2
<1>4. first <= last => (last - first) % Word = last - first
  BY <1>2
<1>5. /\ f \in Fields /\ f.live /\ f.storage_mode = object[other].storage_mode
      /\ f.pointer = object[other].pointer
      /\ f.offset = first /\ f.length = (last - first) % Word
  BY <1>1, <1>3 DEF Substring, Fields
<1>6. Strays(s, strays) /\ strays \in BOOLEAN
  BY DEF SubstringOf
<1>. HIDE DEF f
<1>7. strays \/ (other \notin strayed /\ f.offset + f.length <= End(other))
  BY <1>1, <1>2, <1>4, <1>5 DEF End
<1>. HIDE DEF strays
<1>. QED  BY <1>1, <1>5, <1>6, <1>7, SharedKeeps DEF SubstringOf, Running, f

LEMMA ReleasedTypes ==
    ASSUME Inv
    PROVE  Released \in [Buffers -> ShortTexts]
<1>1. <<>> \in ShortTexts
  BY WordTypes DEF ShortTexts
<1>. QED  BY <1>1 DEF Released, Inv, Types

LEMMA DestroyKeeps ==
    ASSUME Inv, NEW s \in Strings, Destroy(s)
    PROVE  Inv' /\ CountedKept
<1>1. HasBuffer(s) <=> IsManaged(object[s]) /\ object[s].pointer # Null
  BY DEF HasBuffer, Managed, Alive, IsManaged
<1>2. Proper(object[s])
  BY DEF Inv, Types
<1>3. HasBuffer(s) => BufferOf(s) \in Buffers /\ references[BufferOf(s)] # 0
  BY <1>1, ManagedCounted DEF BufferOf
<1>4. Dead \in Fields /\ Proper(Dead) /\ Within(Dead, data')
  BY EmptyTypes DEF Proper, Within
<1>5. TypedNext
  <2>1. references' \in [Buffers -> Nat]
    BY <1>3 DEF Destroy, Dereference, Inv, Types
  <2>2. data' \in [Buffers -> ShortTexts]
    BY ReleasedTypes DEF Destroy
  <2>. QED  BY <2>1, <2>2 DEF Destroy, Running, TypedNext, Inv, Types
<1>6. CountedKept
  BY DEF Destroy, CountedKept, Released
<1>7. ASSUME NEW b \in Buffers
      PROVE  Balanced(object[s], Dead, b)
  <2>1. ~Counted(Dead, b) /\ references[b] \in Nat
    BY EmptyTypes DEF Counted, Inv, Types
  <2>2. Counted(object[s], b) <=> HasBuffer(s) /\ BufferOf(s) = b
    <3>1. HasBuffer(s) => object[s].pointer = Pointer("buffer", BufferOf(s))
      BY <1>1, <1>2, BufferPointer DEF Proper, BufferOf
    <3>2. Pointer("buffer", b) # Null /\ Pointer("buffer", b).at = b
      BY PointerTypes
    <3>. QED  BY <1>1, <3>1, <3>2 DEF Counted, BufferOf
  <2>3. references'[b] = references[b] - One(Counted(object[s], b))
    BY <1>3, <2>1, <2>2 DEF Destroy, Dereference, One, Inv, Types
  <2>. QED  BY <2>1, <2>3 DEF Balanced, One, Destroy
<1>. QED  BY <1>4, <1>5, <1>6, <1>7, Becoming DEF Destroy

\* Assignment counts the new buffer and lets the old one go.
LEMMA AssignKeeps ==
    ASSUME Inv, NEW s \in Strings, NEW other \in Strings, Assign(s, other)
    PROVE  Inv' /\ CountedKept
<1>. DEFINE old == IF Managed(s) THEN BufferOf(s) ELSE NULL
            new == IF Managed(other) THEN BufferOf(other) ELSE NULL
<1>1. ASSUME NEW u \in {s, other}, NEW b \in Buffers
      PROVE  /\ Counted(object[u], b) <=>
                    b = (IF Managed(u) THEN BufferOf(u) ELSE NULL)
             /\ Counted(object[u], b) => references[b] # 0
  <2>1. Managed(u) => HasBuffer(u)
    BY DEF Assign
  <2>2. Managed(u) <=> IsManaged(object[u])
    BY DEF Managed, Alive, IsManaged
  <2>3. Managed(u) => object[u].pointer # Null /\ Proper(object[u])
    BY <2>1 DEF HasBuffer, Inv, Types
  <2>4. Managed(u) => /\ object[u].pointer = Pointer("buffer", BufferOf(u))
                      /\ references[BufferOf(u)] # 0
    BY <2>2, <2>3, BufferPointer, ManagedCounted DEF Proper, BufferOf
  <2>5. Pointer("buffer", b).at = b /\ b # NULL
    BY PointerTypes, LiteralAssumption
  <2>. QED  BY <2>2, <2>4, <2>5 DEF Counted, BufferOf
<1>2. references' = Exchange(old, new)
  BY DEF Assign
<1>3. ASSUME NEW b \in Buffers
      PROVE  /\ references'[b] + One(Counted(object[s], b)) =
                    references[b] + One(Counted(object[other], b))
             /\ references'[b] \in Nat
  <2>1. /\ Counted(object[s], b) <=> b = old
        /\ Counted(object[other], b) <=> b = new
        /\ Counted(object[s], b) => references[b] # 0
    BY <1>1
  <2>2. references[b] \in Nat
    BY DEF Inv, Types
  <2>. HIDE DEF old, new
  <2>3. references'[b] = references[b] - (IF b = old THEN 1 ELSE 0)
                                       + (IF b = new THEN 1 ELSE 0)
    BY <1>2 DEF Exchange
  <2>. QED  BY <2>1, <2>2, <2>3 DEF One
<1>4. TypedNext
  <2>1. references' = [b \in Buffers |-> references'[b]]
    BY <1>2 DEF Exchange
  <2>2. data' \in [Buffers -> ShortTexts]
    BY ReleasedTypes DEF Assign
  <2>. QED  BY <1>3, <2>1, <2>2 DEF TypedNext, Assign, Running, Inv, Types
<1>5. CountedKept
  BY DEF Assign, CountedKept, Released
<1>6. object[other] \in Fields /\ Proper(object[other])
  BY DEF Inv, Types, Assign
<1>8. Strays(s, other \in strayed) /\ (other \in strayed) \in BOOLEAN
  BY DEF Assign
<1>9. other \in strayed \/ Within(object[other], data')
  <2>. SUFFICES ASSUME other \notin strayed PROVE Within(object[other], data')
    OBVIOUS
  <2>1. Within(object[other], data)
    BY DEF Inv
  <2>2. ASSUME IsManaged(object[other]), object[other].pointer # Null
        PROVE  data'[object[other].pointer.at] = data[object[other].pointer.at]
    <3>. DEFINE b == object[other].pointer.at
    <3>1. b \in Buffers /\ references[b] # 0 /\ references[b] \in Nat
      BY <2>2, ManagedCounted DEF Inv, Types
    <3>2. Counted(object[other], b)
      BY <2>2, <3>1, BufferPointer DEF Counted, Inv, Types, Proper
    <3>3. references'[b] # 0
      BY <1>3, <3>1, <3>2 DEF One
    <3>. QED  BY <1>5, <3>1, <3>3 DEF CountedKept
  <2>. QED  BY <2>1, <2>2 DEF Within, Extent
<1>7. ASSUME NEW b \in Buffers
      PROVE  Balanced(object[s], object[other], b)
  BY <1>3 DEF Balanced, One, Assign, Inv, Types
<1>. QED  BY <1>4, <1>5, <1>6, <1>7, <1>8, <1>9, Becoming DEF Assign

\* A duplicate of a managed string is not managed, whatever strlen found.
LEMMA DuplicateManagedKeeps ==
    ASSUME Inv, NEW s \in Strings, NEW other \in Strings, DuplicateManaged(s, other)
    PROVE  Inv' /\ CountedKept
<1>. DEFINE b == BufferOf(other)
<1>1. PICK count \in Ends(data[b]) :
          Becomes(s, Object("unmanaged", Pointer("data", b), 0, count))
  BY DEF DuplicateManaged
<1>. DEFINE f == Object("unmanaged", Pointer("data", b), 0, count)
<1>2. b \in Buffers
  BY ManagedCounted
     DEF DuplicateManaged, HasBuffer, Managed, Alive, IsManaged, BufferOf
<1>3. count \in 0..(Word - 1) /\ 0 \in 0..(Word - 1)
  <2>1. data[b] \in Seq(Int) /\ Len(data[b]) \in 0..MaxLength
    BY <1>2, WordTypes DEF Inv, Types, ShortTexts
  <2>2. \/ \E i \in 1..Len(data[b]) : count = i - 1
        \/ count \in Len(data[b])..(Len(data[b]) + MaxOverrun)
    BY <2>1 DEF Ends
  <2>. QED  BY <2>1, <2>2, WordTypes
<1>4. Pointer("data", b) \in Pointers /\ Pointer("data", b).kind # "literal"
  BY <1>2, PointerTypes DEF Pointer
<1>5. /\ f \in Fields /\ f.storage_mode = "unmanaged"
      /\ f.pointer = Pointer("data", b)
  BY <1>3, <1>4, ObjectTypes
<1>. HIDE DEF f
<1>6. ~IsManaged(f) /\ Strays(s, TRUE)
  BY <1>4, <1>5 DEF IsManaged, DuplicateManaged
<1>7. Becomes(s, f) /\ ~IsManaged(object[s])
  BY <1>1 DEF f, DuplicateManaged, Alive, IsManaged
<1>8. UNCHANGED <<data, references, abandoned, phase>>
  BY DEF DuplicateManaged, Running, NoBuffer
<1>. QED  BY <1>5, <1>6, <1>7, <1>8, Uncounted

LEMMA IntSequence ==
    ASSUME NEW n \in Nat, NEW q, q = [i \in 1..n |-> q[i]],
           \A i \in 1..n : q[i] \in Int
    PROVE  q \in Seq(Int)
<1>1. q \in [1..n -> Int]
  OBVIOUS
<1>. QED  BY <1>1

LEMMA DuplicateUnmanagedKeeps ==
    ASSUME Inv, NEW s \in Strings, NEW other \in Strings, DuplicateUnmanaged(s, other)
    PROVE  Inv' /\ CountedKept
<1>1. CASE Copy(s, other)
  BY <1>1, CopyKeeps
<1>2. CASE RangeConstructed(s, RangeOf(other))
  <2>1. object[other].length \in Nat /\ object[other].offset \in Nat
    BY DEF Inv, Types, Fields
  <2>2. Characters(other) \in Seq(Int)
    BY CharactersTypes DEF Inv
  <2>3. ASSUME NEW i \in 1..object[other].length
        PROVE  RangeOf(other)[i] \in Int
    BY <2>1, <2>2, LiteralAssumption DEF RangeOf
  <2>4. RangeOf(other) = [i \in 1..object[other].length |-> RangeOf(other)[i]]
    BY DEF RangeOf
  <2>5. RangeOf(other) \in Seq(Int)
    BY <2>1, <2>3, <2>4, IntSequence
  <2>. QED  BY <1>2, <2>5, RangeConstructedKeeps
<1>3. CASE RangeFails(s)
  BY <1>3, RangeFailsKeeps
<1>. QED  BY <1>1, <1>2, <1>3 DEF DuplicateUnmanaged

-----------------------------------------------------------------------------
(* The invariant and what follows from it.                                  *)

LEMMA InitInv ==
    ASSUME Init
    PROVE  Inv
<1>1. Types
  <2>1. \A s \in Strings : object[s] = Dead
    BY DEF Init
  <2>2. object \in [Strings -> Fields]
    BY EmptyTypes DEF Init
  <2>3. \A s \in Strings : Proper(object[s])
    BY <2>1, EmptyTypes DEF Proper
  <2>4. <<>> \in ShortTexts
    BY WordTypes DEF ShortTexts
  <2>. QED  BY <2>2, <2>3, <2>4 DEF Init, Types
<1>2. \A s \in Strings : ~IsManaged(object[s]) /\ ~object[s].live
  BY EmptyTypes DEF Init
<1>3. CountsHolders
  <2>1. ASSUME NEW b \in Buffers
        PROVE  Cardinality(Holders(b)) = 0
    <3>1. Holders(b) = {}
      BY <1>2 DEF Holders, HasBuffer, Managed, Alive
    <3>. QED  BY <3>1, FS_EmptySet
  <2>. QED  BY <2>1 DEF Init, CountsHolders
<1>4. \A s \in Strings : Within(object[s], data)
  BY <1>2 DEF Within
<1>. QED  BY <1>1, <1>3, <1>4 DEF Inv

LEMMA Unchanging ==
    ASSUME Inv, UNCHANGED <<object, data, references, abandoned, strayed>>,
           phase' \in {"running", "faulted"}
    PROVE  Inv' /\ CountedKept
<1>1. Types'
  BY DEF Inv, Types, Proper, IsManaged, Null
<1>2. CountsHolders'
  <2>1. ASSUME NEW b \in Buffers
        PROVE  Holders(b)' = Holders(b)
    BY DEF Holders, HasBuffer, Managed, Alive, BufferOf, Null
  <2>. QED  BY <2>1 DEF Inv, CountsHolders
<1>. QED  BY <1>1, <1>2 DEF Inv, Within, Extent, LiteralPointers, IsManaged, Null, CountedKept

LEMMA NextKeeps ==
    ASSUME Inv, [Next]_vars
    PROVE  Inv' /\ CountedKept
<1>1. ASSUME NEW s \in Strings, NEW l \in Literals,
             \/ Wrap(s, l) \/ ConstructManaged(s, l)
             \/ RangeConstructed(s, TextOf[l])
      PROVE  Inv' /\ CountedKept
  <2>1. TextOf[l] \in Seq(Int)
    BY TextTypes
  <2>. QED  BY <1>1, <2>1, WrapKeeps, ConstructManagedKeeps, RangeConstructedKeeps
<1>2. ASSUME NEW s \in Strings, Construct(s) \/ RangeFails(s) \/ Destroy(s)
      PROVE  Inv' /\ CountedKept
  BY <1>2, ConstructKeeps, RangeFailsKeeps, DestroyKeeps
<1>3. ASSUME Fault
      PROVE  Inv' /\ CountedKept
  BY <1>3, Unchanging DEF Fault
<1>4. ASSUME NEW s \in Strings, NEW other \in Strings,
             Copy(s, other) \/ Assign(s, other) \/ DuplicateManaged(s, other)
      PROVE  Inv' /\ CountedKept
  BY <1>4, CopyKeeps, AssignKeeps, DuplicateManagedKeeps
<1>5. ASSUME NEW s \in Strings, NEW other \in Strings,
             DuplicateUnmanaged(s, other) \/ DuplicateEmpty(s, other)
      PROVE  Inv' /\ CountedKept
  BY <1>5, DuplicateUnmanagedKeeps, ConstructKeeps DEF DuplicateEmpty
<1>6. ASSUME NEW s \in Strings, NEW other \in Strings,
             NEW first \in 0..(Word - 1), NEW last \in 0..(Word - 1), SubstringOf(s, other, first, last)
      PROVE  Inv' /\ CountedKept
  BY <1>6, SubstringKeeps
<1>7. CASE UNCHANGED vars
  BY <1>7, Unchanging DEF vars, Inv, Types
<1>8. CASE Next
  BY <1>1, <1>2, <1>3, <1>4, <1>5, <1>6, <1>8
     DEF Next, ConstructManagedFails, AssignFaults, DuplicateFaults
<1>. QED  BY <1>7, <1>8

(* Every reachable state satisfies the inductive invariant: the fields are  *)
(* typed, the counts match the holders, and a string reaches outside what   *)
(* it points at only when nobody compared its ends with the text.           *)
THEOREM InvHolds == Spec => []Inv
<1>1. Init => Inv
  BY InitInv
<1>2. Inv /\ [Next]_vars => Inv'
  BY NextKeeps
<1>. QED  BY <1>1, <1>2, PTL DEF Spec

(* Fields, counts and characters are of their types: in particular a        *)
(* managed string points at a buffer or nowhere.                            *)
THEOREM TypeOKHolds == Spec => []TypeOK
<1>1. Inv => TypeOK
  BY DEF Inv, Types, TypeOK, Fields, Pointers, Proper, IsManaged, Managed, Alive
<1>. QED  BY <1>1, InvHolds, PTL

(* The reference count of a buffer is the number of strings that will count *)
(* it down, and one more for each the range constructor abandoned.          *)
THEOREM CountsHoldersHolds == Spec => []CountsHolders
<1>1. Inv => CountsHolders
  BY DEF Inv
<1>. QED  BY <1>1, InvHolds, PTL

(* string.cpp:42-182: no string reaches outside the characters it points    *)
(* at, but those whose ends came unchecked from iterators, from strlen or   *)
(* from an unset storage_mode, and their copies.                            *)
THEOREM WithinTextHolds == Spec => []WithinText
<1>1. ASSUME Inv
      PROVE  WithinText
  <2>1. ASSUME NEW s \in Strings \ strayed, Alive(s)
        PROVE  End(s) <= Len(Characters(s))
    <3>1. End(s) <= Extent(object[s], data) /\ End(s) \in Nat
      BY <1>1, <2>1 DEF Inv, Within, Alive, End, Types, Fields
    <3>2. Extent(object[s], data) \in Nat
      BY <1>1, ExtentTypes DEF Inv
    <3>3. Extent(object[s], data) = 0 \/ Extent(object[s], data) = Len(Characters(s))
      <4>1. HasBuffer(s) <=> IsManaged(object[s]) /\ object[s].pointer # Null
        BY DEF HasBuffer, Managed, Alive, IsManaged
      <4>2. object[s].pointer \in LiteralPointers => object[s].pointer \notin DataPointers
        BY DEF LiteralPointers, DataPointers, Pointer
      <4>. QED  BY <4>1, <4>2 DEF Extent, Characters
    <3>4. Len(Characters(s)) \in Nat
      BY <1>1, CharactersTypes DEF Inv
    <3>. QED  BY <3>1, <3>2, <3>3, <3>4
  <2>. QED  BY <2>1 DEF WithinText
<1>. QED  BY <1>1, InvHolds, PTL

(* The text of a string that is left alone never changes, whatever the      *)
(* others do to the buffer it shares with them.                             *)
THEOREM TextKeptHolds == Spec => TextKept
<1>1. ASSUME Inv, [Next]_vars, NEW s \in Strings,
             HasBuffer(s) /\ object'[s] = object[s]
      PROVE  Text(s)' = Text(s)
  <2>1. IsManaged(object[s]) /\ object[s].pointer # Null
    BY <1>1 DEF HasBuffer, Managed, Alive, IsManaged
  <2>2. BufferOf(s) \in Buffers /\ references[BufferOf(s)] # 0 /\ references'[BufferOf(s)] # 0
    BY <1>1, <2>1, NextKeeps, ManagedCounted, ManagedCountedNext
       DEF BufferOf, Inv
  <2>3. data'[BufferOf(s)] = data[BufferOf(s)]
    BY <1>1, <2>2, NextKeeps DEF CountedKept
  <2>4. BufferOf(s)' = BufferOf(s)
    BY <1>1 DEF BufferOf
  <2>. QED  BY <1>1, <2>3, <2>4 DEF Text
<1>2. Inv /\ [Next]_vars =>
          [\A s \in Strings :
              HasBuffer(s) /\ object'[s] = object[s] => Text(s)' = Text(s)]_vars
  BY <1>1
<1>. QED  BY <1>2, InvHolds, PTL DEF Spec, TextKept

-----------------------------------------------------------------------------
(* Bytes and code points.                                                   *)

\* The shifts that tell the kinds of bytes apart.
LEMMA Quotients ==
    ASSUME NEW c \in Bytes
    PROVE  /\ c \div 64 = 2 <=> c \in 128..191
           /\ c \div 32 = 6 <=> c \in 192..223
           /\ c \div 16 = 14 <=> c \in 224..239
           /\ c \div 8 = 30 <=> c \in 240..247
BY DEF Bytes

\* The bits of its byte that go into a code point.
LEMMA Remainders ==
    ASSUME NEW c \in Bytes
    PROVE  /\ c \in 128..191 => c % 64 = c - 128
           /\ c \in 192..223 => c % 32 = c - 192
           /\ c \in 224..239 => c % 16 = c - 224
           /\ c % 64 \in 0..63
BY DEF Bytes

LEMMA TrailBytes ==
    \A c \in Bytes : is_utf8_trail_byte(c) <=> c \in 128..191
BY Quotients DEF is_utf8_trail_byte

LEMMA Leads ==
    ASSUME NEW c \in Bytes
    PROVE  get_utf8_sequence_length(c) =
               IF c < 128 THEN 1 ELSE IF c \in 192..223 THEN 2
               ELSE IF c \in 224..239 THEN 3 ELSE IF c \in 240..247 THEN 4 ELSE 0
<1>1. c \in Int /\ c <= 255 /\ c >= 0  BY DEF Bytes
<1>. QED  BY <1>1, Quotients DEF get_utf8_sequence_length

\* A sequence is of the length its code point calls for, or overlong.
LEMMA CodePointLengths ==
    ASSUME NEW x \in Nat
    PROVE  /\ get_code_point_utf8_sequence_length(x) = 1 <=> x < 128
           /\ get_code_point_utf8_sequence_length(x) = 2 <=> x >= 128 /\ x < 2048
           /\ get_code_point_utf8_sequence_length(x) = 3 <=> x >= 2048 /\ x < 65536
BY DEF get_code_point_utf8_sequence_length

\* Two groups of bits, and three.
LEMMA TwoGroups ==
    ASSUME NEW p \in 0..31, NEW q \in 0..63, NEW x \in Nat, x = p * 64 + q
    PROVE  /\ x < 2048
           /\ x >= 128 <=> p >= 2
OBVIOUS

\* A code point of three bytes is valid when it is no surrogate.
LEMMA NoSurrogate ==
    ASSUME NEW x \in Int, x < 65536
    PROVE  is_valid_code_point(x) <=> x < 55296 \/ x > 57343
<1>1. is_valid_code_point(x) <=> x \notin 55296..57343
  BY SMTT(60) DEF is_valid_code_point
<1>2. x \in 55296..57343 => ~(x < 55296 \/ x > 57343)
  BY SMTT(60)
<1>3. ~(x \in 55296..57343) => x < 55296 \/ x > 57343
  BY SMTT(60)
<1>. QED  BY <1>1, <1>2, <1>3, SMTT(60)

LEMMA OneByte ==
    \A x \in 0..127 : get_code_point_utf8_sequence_length(x) = 1 /\ is_valid_code_point(x)
<1>. SUFFICES ASSUME NEW x \in 0..127
              PROVE  get_code_point_utf8_sequence_length(x) = 1 /\ is_valid_code_point(x)
  OBVIOUS
<1>1. x \in Nat /\ x < 128  OBVIOUS
<1>2. get_code_point_utf8_sequence_length(x) = 1  BY <1>1, CodePointLengths
<1>3. is_valid_code_point(x)  BY <1>1, NoSurrogate, SMTT(60)
<1>. QED  BY <1>2, <1>3

ThreeOf(p, q, r) == p * 4096 + q * 64 + r

LEMMA ThreeGroups ==
    ASSUME NEW p \in 0..15, NEW q \in 0..63, NEW r \in 0..63
    PROVE  /\ get_code_point_utf8_sequence_length(ThreeOf(p, q, r)) = 3 <=>
                  (p = 0 => q >= 32)
           /\ is_valid_code_point(ThreeOf(p, q, r)) <=> ~(p = 13 /\ q >= 32)
<1>. DEFINE low == q * 64 + r
<1>1. low \in 0..4095 /\ (low >= 2048 <=> q >= 32)  OBVIOUS
<1>2. ThreeOf(p, q, r) = p * 4096 + low  BY DEF ThreeOf
<1>. HIDE DEF low
<1>. SUFFICES ASSUME NEW x, x = ThreeOf(p, q, r)
              PROVE  /\ get_code_point_utf8_sequence_length(x) = 3 <=> (p = 0 => q >= 32)
                     /\ is_valid_code_point(x) <=> ~(p = 13 /\ q >= 32)
  OBVIOUS
<1>3. x \in Nat /\ x < 65536  BY <1>1, <1>2
<1>4. get_code_point_utf8_sequence_length(x) = 3 <=> x >= 2048
  BY <1>3, CodePointLengths
<1>5. is_valid_code_point(x) <=> x < 55296 \/ x > 57343
  BY <1>3, NoSurrogate
<1>6. CASE p = 0
  <2>1. x = low  BY <1>1, <1>2, <1>6
  <2>2. x < 55296  BY <1>1, <2>1, SMTT(60)
  <2>3. x >= 2048 <=> q >= 32  BY <1>1, <2>1
  <2>. QED  BY <1>4, <1>5, <1>6, <2>2, <2>3
<1>7. CASE p \in 1..12
  <2>1. x >= 2048 /\ x < 55296  BY <1>1, <1>2, <1>7, SMTT(60)
  <2>. QED  BY <1>4, <1>5, <1>7, <2>1
<1>8. CASE p = 13
  <2>1. x = 53248 + low  BY <1>1, <1>2, <1>8
  <2>2. x >= 2048 /\ ~(x > 57343) /\ (x < 55296 <=> ~(q >= 32))
    BY <1>1, <2>1, SMTT(60)
  <2>. QED  BY <1>4, <1>5, <1>8, <2>2
<1>9. CASE p \in 14..15
  <2>1. x > 57343 /\ x >= 2048  BY <1>1, <1>2, <1>9, SMTT(60)
  <2>. QED  BY <1>4, <1>5, <1>9, <2>1
<1>. QED  BY <1>6, <1>7, <1>8, <1>9

\* What is read of a sequence of n bytes is accepted only when it is well formed.
LEMMA Decoding2 ==
    ASSUME NEW b \in [1..4 -> Bytes], b[1] \in 192..223, b[2] \in 128..191
    PROVE  /\ Decoded(b, 2) = (b[1] - 192) * 64 + (b[2] - 128)
           /\ get_code_point_utf8_sequence_length(Decoded(b, 2)) = 2 <=> b[1] >= 194
           /\ is_valid_code_point(Decoded(b, 2))
<1>. DEFINE x == Decoded(b, 2)
<1>1. x = (b[1] - 192) * 64 + (b[2] - 128)
  <2>1. b[1] % 32 = b[1] - 192 /\ b[2] % 64 = b[2] - 128  BY Remainders
  <2>. QED  BY <2>1 DEF Decoded
<1>. HIDE DEF x
<1>2. b[1] - 192 \in 0..31 /\ b[2] - 128 \in 0..63  OBVIOUS
<1>3. /\ x \in Nat /\ x < 2048
      /\ x >= 128 <=> b[1] - 192 >= 2
  <2>1. x \in Nat  BY <1>1, <1>2
  <2>. QED  BY <1>1, <1>2, <2>1, TwoGroups
<1>4. b[1] - 192 >= 2 <=> b[1] >= 194  OBVIOUS
<1>5. is_valid_code_point(x)  BY <1>3, NoSurrogate, SMTT(60)
<1>6. get_code_point_utf8_sequence_length(x) = 2 <=> x >= 128
  BY <1>3, CodePointLengths
<1>. QED  BY <1>1, <1>3, <1>4, <1>5, <1>6 DEF x

LEMMA Decoding3 ==
    ASSUME NEW b \in [1..4 -> Bytes],
           b[1] \in 224..239, b[2] \in 128..191, b[3] \in 128..191
    PROVE  /\ Decoded(b, 3) =
                  (b[1] - 224) * 4096 + (b[2] - 128) * 64 + (b[3] - 128)
           /\ get_code_point_utf8_sequence_length(Decoded(b, 3)) = 3 <=>
                  (b[1] = 224 => b[2] >= 160)
           /\ is_valid_code_point(Decoded(b, 3)) <=> (b[1] = 237 => b[2] < 160)
<1>. DEFINE x == Decoded(b, 3)
            p == b[1] - 224
            q == b[2] - 128
            r == b[3] - 128
<1>1. x = p * 4096 + q * 64 + r
  <2>1. b[1] % 16 = p /\ b[2] % 64 = q /\ b[3] % 64 = r  BY Remainders
  <2>. QED  BY <2>1 DEF Decoded
<1>2. p \in 0..15 /\ q \in 0..63 /\ r \in 0..63  OBVIOUS
<1>3. /\ p = 0 <=> b[1] = 224
      /\ p = 13 <=> b[1] = 237
      /\ q >= 32 <=> b[2] >= 160
      /\ b[2] < 160 <=> ~(q >= 32)
  OBVIOUS
<1>. HIDE DEF x, p, q, r
<1>4. x = ThreeOf(p, q, r)  BY <1>1, Zenon DEF ThreeOf
<1>5. /\ get_code_point_utf8_sequence_length(ThreeOf(p, q, r)) = 3 <=> (p = 0 => q >= 32)
      /\ is_valid_code_point(ThreeOf(p, q, r)) <=> ~(p = 13 /\ q >= 32)
  BY <1>2, ThreeGroups, Zenon
<1>7. is_valid_code_point(x) <=> (b[1] = 237 => b[2] < 160)
  BY <1>3, <1>4, <1>5, Zenon
<1>8. get_code_point_utf8_sequence_length(x) = 3 <=> (b[1] = 224 => b[2] >= 160)
  BY <1>3, <1>4, <1>5, Zenon
<1>. QED  BY <1>1, <1>7, <1>8 DEF x, p, q, r

-----------------------------------------------------------------------------
(* Reading a sequence out of the memory behind a text.                      *)

\* The text lies in memory, and none is one of the exceptions taken for none.
Held ==
    /\ text \in Seq(Bytes) /\ memory \in Seq(Bytes) /\ Len(memory) = length + 1
    /\ \A i \in 1..length : memory[i] = text[i]
    /\ "none" \in none

\* A slice of the text is what the decoder finds in memory.
LEMMA SliceOf ==
    ASSUME Held, NEW a \in 0..length, NEW c \in 0..length, a < c
    PROVE  /\ Slice(a, c) \in Seq(Bytes) /\ Len(Slice(a, c)) = c - a
           /\ \A i \in 1..(c - a) : Slice(a, c)[i] = memory[a + i] /\ memory[a + i] \in Bytes
<1>1. length \in Nat /\ text \in Seq(Bytes) /\ Len(text) = length  BY DEF Held, length
<1>2. a + 1 \in 1..length /\ c \in (a + 1)..length  BY <1>1
<1>3. /\ Slice(a, c) \in Seq(Bytes) /\ Len(Slice(a, c)) = c - (a + 1) + 1
      /\ \A i \in 1..(c - (a + 1) + 1) : Slice(a, c)[i] = text[(a + 1) + i - 1]
  BY <1>1, <1>2, SubSeqProperties DEF Slice
<1>4. ASSUME NEW i \in 1..(c - a)
      PROVE  Slice(a, c)[i] = memory[a + i] /\ memory[a + i] \in Bytes
  <2>1. /\ (a + 1) + i - 1 = a + i /\ a + i \in 1..length
        /\ i \in 1..(c - (a + 1) + 1)
    BY <1>1
  <2>2. Slice(a, c)[i] = text[a + i]  BY <1>3, <2>1
  <2>3. text[a + i] \in Bytes /\ memory[a + i] = text[a + i]  BY <1>1, <2>1 DEF Held
  <2>. QED  BY <2>2, <2>3
<1>. QED  BY <1>3, <1>4

Around(offset) ==
    [i \in 1..4 |-> IF offset + i <= Len(memory) THEN memory[offset + i] ELSE 0]

\* The bytes the decoder looks at are bytes.
LEMMA AroundBytes ==
    ASSUME Held, NEW a \in 0..length
    PROVE  /\ Around(a) \in [1..4 -> Bytes]
           /\ Around(a)[1] = memory[a + 1] /\ memory[a + 1] \in Bytes
           /\ \A i \in 1..4 : a + i <= length => Around(a)[i] = memory[a + i]
<1>1. /\ length \in Nat /\ Len(memory) = length + 1
      /\ \A i \in 1..(length + 1) : memory[i] \in Bytes
  BY DEF Held, length
<1>2. 0 \in Bytes  BY DEF Bytes
<1>3. ASSUME NEW i \in 1..4 PROVE Around(a)[i] \in Bytes
  BY <1>1, <1>2 DEF Around
<1>. QED  BY <1>1, <1>3 DEF Around

\* A well-formed sequence is read, from inside any text that holds it.
LEMMA ReadWellFormed ==
    ASSUME Held, NEW a \in 0..length, NEW c \in 0..length, a < c,
           NEW limit \in c..length, NEW v, WellFormed(Slice(a, c))
    PROVE  utf8_increment(memory, limit, a, v, none) =
               Read("none", c, CodePoint(Slice(a, c)))
<1>. DEFINE s == Slice(a, c)
            b == Around(a)
            n == get_utf8_sequence_length(memory[a + 1])
<1>1. length \in Nat /\ a \in Nat /\ c \in Nat /\ limit \in Nat /\ c <= limit
  BY DEF Held, length
<1>2. Len(s) = c - a /\ \A i \in 1..(c - a) : s[i] = memory[a + i] /\ s[i] \in Bytes
  BY SliceOf
<1>3. /\ b \in [1..4 -> Bytes] /\ b[1] = memory[a + 1]
      /\ \A i \in 1..4 : a + i <= length => b[i] = memory[a + i]
  BY AroundBytes
<1>4. c - a \in 1..3 /\ \A i \in 1..(c - a) : b[i] = s[i]
  <2>1. c - a \in 1..3  BY <1>2 DEF WellFormed
  <2>2. \A i \in 1..(c - a) : i \in 1..4 /\ a + i <= length  BY <1>1, <2>1
  <2>. QED  BY <1>2, <1>3, <2>1, <2>2
<1>5. /\ n = c - a
      /\ \A i \in 2..n : is_utf8_trail_byte(b[i])
      /\ Decoded(b, n) = CodePoint(s)
      /\ get_code_point_utf8_sequence_length(Decoded(b, n)) = n
      /\ is_valid_code_point(Decoded(b, n))
  <2>0. memory[a + 1] = b[1] /\ b[1] = s[1] /\ b[1] \in Bytes  BY <1>3, <1>4
  <2>1. CASE c - a = 1
    <3>1. b[1] \in 0..127  BY <1>2, <2>0, <2>1 DEF WellFormed
    <3>2. n = 1  BY <2>0, <3>1, Leads
    <3>3. Decoded(b, 1) = b[1] /\ CodePoint(s) = s[1]
      BY <1>2, <2>1 DEF Decoded, CodePoint
    <3>4. get_code_point_utf8_sequence_length(b[1]) = 1 /\ is_valid_code_point(b[1])
      BY <3>1, OneByte
    <3>5. \A i \in 2..1 : is_utf8_trail_byte(b[i])  OBVIOUS
    <3>. QED  BY <2>0, <2>1, <3>2, <3>3, <3>4, <3>5
  <2>2. CASE c - a = 2
    <3>1. b[1] = s[1] /\ b[2] = s[2]  BY <1>4, <2>2
    <3>2. b[1] \in 194..223 /\ b[2] \in 128..191  BY <1>2, <2>2, <3>1 DEF WellFormed
    <3>3. n = 2  BY <2>0, <3>2, Leads
    <3>4. b[1] \in 192..223 /\ b[1] >= 194 /\ b[2] \in Bytes  BY <3>2 DEF Bytes
    <3>5. Payload(s[1]) = b[1] - 192 /\ Payload(s[2]) = b[2] - 128
      BY <3>1, <3>2 DEF Payload
    <3>6. CodePoint(s) = Payload(s[1]) * 64 + Payload(s[2])
      BY <1>2, <2>2 DEF CodePoint
    <3>7. \A i \in 2..2 : is_utf8_trail_byte(b[i])  BY <3>2, <3>4, TrailBytes
    <3>. QED  BY <1>3, <2>2, <3>2, <3>3, <3>4, <3>5, <3>6, <3>7, Decoding2
  <2>3. CASE c - a = 3
    <3>1. b[1] = s[1] /\ b[2] = s[2] /\ b[3] = s[3]  BY <1>4, <2>3
    <3>2. /\ b[1] \in 224..239 /\ b[2] \in 128..191 /\ b[3] \in 128..191
          /\ b[1] = 224 => b[2] >= 160
          /\ b[1] = 237 => b[2] < 160
      BY <1>2, <2>3, <3>1 DEF WellFormed
    <3>3. n = 3  BY <2>0, <3>2, Leads
    <3>4. b[2] \in Bytes /\ b[3] \in Bytes  BY <3>2 DEF Bytes
    <3>5. /\ Payload(s[1]) = b[1] - 224 /\ Payload(s[2]) = b[2] - 128
          /\ Payload(s[3]) = b[3] - 128
      BY <3>1, <3>2 DEF Payload
    <3>6. CodePoint(s) = Payload(s[1]) * 4096 + Payload(s[2]) * 64 + Payload(s[3])
      BY <1>2, <2>3 DEF CodePoint
    <3>7. \A i \in 2..3 : is_utf8_trail_byte(b[i])  BY <3>2, <3>4, TrailBytes
    <3>. QED  BY <1>3, <2>3, <3>2, <3>3, <3>5, <3>6, <3>7, Decoding3
  <2>. QED  BY <1>4, <2>1, <2>2, <2>3
<1>6. n # 0 /\ a + n = c /\ Fits(a + n, a, limit)  BY <1>1, <1>4, <1>5 DEF Fits
<1>7. utf8_increment(memory, limit, a, v, none) =
          IF n = 0 /\ "invalid_unicode_lead" \notin none
          THEN Read("invalid_unicode_lead", a, v)
          ELSE IF ~Fits(a + n, a, limit)
          THEN Read("index_out_of_range", a, v)
          ELSE IF \E i \in 2..n : ~is_utf8_trail_byte(b[i])
          THEN Read("incomplete_unicode_sequence", a, v)
          ELSE IF get_code_point_utf8_sequence_length(Decoded(b, n)) # n
          THEN Read("overlong_unicode_sequence", a, Decoded(b, n))
          ELSE IF ~is_valid_code_point(Decoded(b, n))
          THEN Read("invalid_unicode_lead", a, Decoded(b, n))
          ELSE Read("none", a + n, Decoded(b, n))
  BY DEF utf8_increment, Around
<1>. HIDE DEF n, b, s
<1>. QED  BY <1>5, <1>6, <1>7 DEF s

\* What is read without an exception is well formed, unless it is of four bytes.
LEMMA ReadNone ==
    ASSUME Held, NEW a \in 0..length, NEW limit \in 0..length, NEW v,
           utf8_increment(memory, limit, a, v, none).exception = "none"
    PROVE  LET read == utf8_increment(memory, limit, a, v, none)
           IN  /\ a < limit /\ read.offset \in (a + 1)..limit
               /\ memory[a + 1] < 240 =>
                     /\ WellFormed(Slice(a, read.offset))
                     /\ read.value = CodePoint(Slice(a, read.offset))
<1>. DEFINE read == utf8_increment(memory, limit, a, v, none)
            b == Around(a)
            n == get_utf8_sequence_length(memory[a + 1])
<1>1. length \in Nat /\ a \in Nat /\ limit \in Nat /\ limit <= length
  BY DEF Held, length
<1>2. /\ b \in [1..4 -> Bytes] /\ b[1] = memory[a + 1]
      /\ \A i \in 1..4 : a + i <= length => b[i] = memory[a + i]
  BY AroundBytes
<1>3. read =
          IF n = 0 /\ "invalid_unicode_lead" \notin none
          THEN Read("invalid_unicode_lead", a, v)
          ELSE IF ~Fits(a + n, a, limit)
          THEN Read("index_out_of_range", a, v)
          ELSE IF \E i \in 2..n : ~is_utf8_trail_byte(b[i])
          THEN Read("incomplete_unicode_sequence", a, v)
          ELSE IF get_code_point_utf8_sequence_length(Decoded(b, n)) # n
          THEN Read("overlong_unicode_sequence", a, Decoded(b, n))
          ELSE IF ~is_valid_code_point(Decoded(b, n))
          THEN Read("invalid_unicode_lead", a, Decoded(b, n))
          ELSE Read("none", a + n, Decoded(b, n))
  BY DEF utf8_increment, Around
<1>4. n \in 0..4  BY <1>2, Leads
<1>. HIDE DEF n, b, read
<1>5. /\ Fits(a + n, a, limit) /\ \A i \in 2..n : is_utf8_trail_byte(b[i])
      /\ get_code_point_utf8_sequence_length(Decoded(b, n)) = n
      /\ is_valid_code_point(Decoded(b, n))
      /\ read.offset = a + n /\ read.value = Decoded(b, n)
  <2>1. read.exception = "none"  BY DEF read
  <2>. QED  BY <1>3, <2>1 DEF Read
<1>6. a + n <= limit /\ a + n > a /\ n \in 1..4  BY <1>1, <1>4, <1>5 DEF Fits
<1>7. ASSUME memory[a + 1] < 240
      PROVE  /\ WellFormed(Slice(a, read.offset))
             /\ read.value = CodePoint(Slice(a, read.offset))
  <2>. DEFINE c == a + n
              s == Slice(a, c)
  <2>1. c \in 0..length /\ a < c /\ c - a = n  BY <1>1, <1>6
  <2>2. Len(s) = n /\ \A i \in 1..n : s[i] = b[i] /\ s[i] \in Bytes
    <3>1. Len(s) = n /\ \A i \in 1..n : s[i] = memory[a + i] /\ s[i] \in Bytes
      BY <2>1, SliceOf, SMTT(60)
    <3>2. \A i \in 1..n : i \in 1..4 /\ a + i <= length  BY <1>1, <1>6, SMTT(60)
    <3>. QED  BY <1>2, <3>1, <3>2
  <2>3. \A i \in 2..n : b[i] \in 128..191
    <3>1. \A i \in 2..n : b[i] \in Bytes  BY <2>2, <1>6
    <3>. QED  BY <1>5, <3>1, TrailBytes
  <2>. HIDE DEF c, s
  <2>4. b[1] \in Bytes /\ b[1] < 240 /\ s[1] = b[1]  BY <1>2, <1>6, <1>7, <2>2
  <2>5. CASE n = 1
    <3>1. b[1] \in 0..127
      <4>1. b[1] < 128  BY <1>2, <2>4, <2>5, Leads DEF n
      <4>. QED  BY <2>4, <4>1 DEF Bytes
    <3>. QED  BY <1>5, <2>2, <2>4, <2>5, <3>1 DEF WellFormed, CodePoint, Decoded, c, s
  <2>6. CASE n = 2
    <3>1. b[1] \in 192..223  BY <1>2, <2>4, <2>6, Leads DEF n
    <3>2. b[2] \in 128..191 /\ s[2] = b[2]  BY <2>2, <2>3, <2>6
    <3>3. b[1] \in 194..223  BY <1>2, <1>5, <2>6, <3>1, <3>2, Decoding2
    <3>4. WellFormed(s)  BY <2>2, <2>4, <2>6, <3>2, <3>3 DEF WellFormed
    <3>5. Payload(s[1]) = b[1] - 192 /\ Payload(s[2]) = b[2] - 128
      BY <2>4, <3>2, <3>3 DEF Payload
    <3>6. CodePoint(s) = Payload(s[1]) * 64 + Payload(s[2])
      BY <2>2, <2>6 DEF CodePoint
    <3>7. Decoded(b, 2) = CodePoint(s)
      BY <1>2, <3>1, <3>2, <3>5, <3>6, Decoding2
    <3>. QED  BY <1>5, <2>6, <3>4, <3>7 DEF c, s
  <2>7. CASE n = 3
    <3>1. b[1] \in 224..239  BY <1>2, <2>4, <2>7, Leads DEF n
    <3>2. b[2] \in 128..191 /\ s[2] = b[2] /\ b[3] \in 128..191 /\ s[3] = b[3]
      BY <2>2, <2>3, <2>7
    <3>3. (b[1] = 224 => b[2] >= 160) /\ (b[1] = 237 => b[2] < 160)
      BY <1>2, <1>5, <2>7, <3>1, <3>2, Decoding3
    <3>4. WellFormed(s)  BY <2>2, <2>4, <2>7, <3>1, <3>2, <3>3 DEF WellFormed
    <3>5. /\ Payload(s[1]) = b[1] - 224 /\ Payload(s[2]) = b[2] - 128
          /\ Payload(s[3]) = b[3] - 128
      BY <2>4, <3>1, <3>2 DEF Payload
    <3>6. CodePoint(s) = Payload(s[1]) * 4096 + Payload(s[2]) * 64 + Payload(s[3])
      BY <2>2, <2>7 DEF CodePoint
    <3>7. Decoded(b, 3) = CodePoint(s)
      BY <1>2, <3>1, <3>2, <3>5, <3>6, Decoding3
    <3>. QED  BY <1>5, <2>7, <3>4, <3>7 DEF c, s
  <2>8. CASE n = 4
    <3>1. b[1] \in 240..247  BY <1>2, <2>4, <2>8, Leads DEF n
    <3>. QED  BY <2>4, <3>1
  <2>. QED  BY <1>6, <2>5, <2>6, <2>7, <2>8
<1>. QED  BY <1>1, <1>5, <1>6, <1>7 DEF read

-----------------------------------------------------------------------------
(* Where the sequence before an offset begins.                              *)

Less == {pair \in Nat \X Nat : pair[1] < pair[2]}

LEMMA LessWellFounded == IsWellFoundedOn(Less, Nat)
BY NatLessThanWellFounded DEF OpToRel, Less

\* A set of offsets has a least one: this takes the place of an induction over
\* the text.
LEMMA LeastOf ==
    ASSUME NEW T \in SUBSET Nat, T # {}
    PROVE  \E x \in T : \A y \in T : x <= y
<1>1. \E x \in T : \A y \in T : ~(<<y, x>> \in Less)
  BY LessWellFounded, WFMin
<1>2. PICK x \in T : \A y \in T : ~(<<y, x>> \in Less)  BY <1>1
<1>3. x \in Nat /\ \A y \in T : y \in Nat  OBVIOUS
<1>4. \A y \in T : ~(y < x)  BY <1>2, <1>3 DEF Less
<1>5. \A y \in T : x <= y  BY <1>3, <1>4
<1>. QED  BY <1>5

\* o is where the search from offset may end.
Begins(o, offset) ==
    /\ o = 0 \/ ~is_utf8_trail_byte(memory[o + 1])
    /\ \A p \in (o + 1)..(offset - 1) : is_utf8_trail_byte(memory[p + 1])

\* There is one such offset.
LEMMA OneStart ==
    ASSUME NEW offset \in Nat, NEW o \in 0..(offset - 1), NEW q \in 0..(offset - 1),
           Begins(o, offset), Begins(q, offset)
    PROVE  o = q
<1>1. CASE o < q
  <2>1. q # 0 /\ q \in (o + 1)..(offset - 1)  BY <1>1
  <2>. QED  BY <2>1 DEF Begins
<1>2. CASE q < o
  <2>1. o # 0 /\ o \in (q + 1)..(offset - 1)  BY <1>2
  <2>. QED  BY <2>1 DEF Begins
<1>. QED  BY <1>1, <1>2

\* It is where the search ends.
LEMMA StartBegins ==
    ASSUME NEW offset \in Nat \ {0}
    PROVE  /\ SequenceStart(memory, offset) \in 0..(offset - 1)
           /\ Begins(SequenceStart(memory, offset), offset)
<1>. DEFINE Trails(o) == \A p \in (o + 1)..(offset - 1) : is_utf8_trail_byte(memory[p + 1])
            T == {o \in 0..(offset - 1) : Trails(o)}
<1>1. offset - 1 \in T  OBVIOUS
<1>2. T \in SUBSET Nat /\ T # {}  BY <1>1
<1>. HIDE DEF T
<1>3. PICK o \in T : \A q \in T : o <= q  BY <1>2, LeastOf
<1>4. o \in 0..(offset - 1) /\ Trails(o)  BY <1>3 DEF T
<1>5. o = 0 \/ ~is_utf8_trail_byte(memory[o + 1])
  <2>. SUFFICES ASSUME o # 0, is_utf8_trail_byte(memory[o + 1]) PROVE FALSE  OBVIOUS
  <2>1. o - 1 \in 0..(offset - 1) /\ (o - 1) + 1 = o  BY <1>4
  <2>2. \A p \in o..(offset - 1) : p = o \/ p \in (o + 1)..(offset - 1)  BY <1>4
  <2>3. Trails(o - 1)  BY <1>4, <2>1, <2>2
  <2>4. o - 1 \in T  BY <2>1, <2>3 DEF T
  <2>5. o <= o - 1  BY <1>3, <2>4
  <2>. QED  BY <1>4, <2>5
<1>6. Begins(o, offset)  BY <1>4, <1>5 DEF Begins
<1>7. SequenceStart(memory, offset) =
          CHOOSE q \in 0..(offset - 1) : Begins(q, offset)
  BY DEF SequenceStart, Begins
<1>8. \E q \in 0..(offset - 1) : Begins(q, offset)  BY <1>4, <1>6
<1>. QED  BY <1>7, <1>8

\* A well-formed sequence that ends at an offset begins where the search ends.
LEMMA WellFormedStart ==
    ASSUME Held, NEW o \in 0..length, NEW offset \in 0..length, o < offset,
           WellFormed(Slice(o, offset))
    PROVE  SequenceStart(memory, offset) = o
<1>. DEFINE s == Slice(o, offset)
<1>1. length \in Nat /\ offset \in Nat \ {0} /\ o \in 0..(offset - 1)
  BY DEF Held, length
<1>2. Len(s) = offset - o /\ \A i \in 1..(offset - o) : s[i] = memory[o + i] /\ s[i] \in Bytes
  BY SliceOf
<1>. HIDE DEF s
<1>3. s[1] \notin 128..191 /\ \A i \in 2..(offset - o) : s[i] \in 128..191
  <2>1. WellFormed(s)  BY DEF s
  <2>2. offset - o \in 1..3  BY <1>2, <2>1 DEF WellFormed
  <2>3. CASE offset - o = 1
    <3>1. s[1] \in 0..127  BY <1>2, <2>1, <2>3 DEF WellFormed
    <3>2. \A i \in 2..1 : s[i] \in 128..191  OBVIOUS
    <3>. QED  BY <2>3, <3>1, <3>2
  <2>4. CASE offset - o = 2
    <3>1. s[1] \in 194..223 /\ s[2] \in 128..191
      BY <1>2, <2>1, <2>4 DEF WellFormed
    <3>2. \A i \in 2..2 : i = 2  OBVIOUS
    <3>. QED  BY <2>4, <3>1, <3>2
  <2>5. CASE offset - o = 3
    <3>1. s[1] \in 224..239 /\ s[2] \in 128..191 /\ s[3] \in 128..191
      BY <1>2, <2>1, <2>5 DEF WellFormed
    <3>2. \A i \in 2..3 : i = 2 \/ i = 3  OBVIOUS
    <3>. QED  BY <2>5, <3>1, <3>2
  <2>. QED  BY <2>2, <2>3, <2>4, <2>5
<1>4. ~is_utf8_trail_byte(memory[o + 1])
  <2>1. s[1] = memory[o + 1] /\ s[1] \in Bytes  BY <1>1, <1>2
  <2>. QED  BY <1>3, <2>1, TrailBytes
<1>5. ASSUME NEW p \in (o + 1)..(offset - 1) PROVE is_utf8_trail_byte(memory[p + 1])
  <2>. DEFINE i == p + 1 - o
  <2>1. i \in 2..(offset - o) /\ i \in 1..(offset - o) /\ o + i = p + 1  BY <1>1
  <2>. HIDE DEF i
  <2>2. s[i] = memory[p + 1] /\ s[i] \in Bytes /\ s[i] \in 128..191
    BY <1>2, <1>3, <2>1
  <2>. QED  BY <2>2, TrailBytes
<1>6. Begins(o, offset)  BY <1>4, <1>5 DEF Begins
<1>. QED  BY <1>1, <1>6, OneStart, StartBegins

-----------------------------------------------------------------------------
(* The offsets between the sequences that a text begins with.               *)

ClosedSet(S) ==
    /\ 0 \in S
    /\ \A o \in S : \A past \in (o + 1)..length :
          WellFormed(Slice(o, past)) => past \in S

\* The boundaries are the offsets in every closed set.
LEMMA BoundariesAre ==
    Boundaries = {o \in 0..length :
                      \A S \in SUBSET (0..length) : ClosedSet(S) => o \in S}
BY DEF Boundaries, ClosedSet

\* They are a closed set themselves.
LEMMA BoundariesClosed ==
    ASSUME length \in Nat
    PROVE  Boundaries \subseteq 0..length /\ ClosedSet(Boundaries)
<1>1. Boundaries \subseteq 0..length  BY BoundariesAre
<1>2. 0 \in Boundaries  BY BoundariesAre DEF ClosedSet
<1>3. ASSUME NEW o \in Boundaries, NEW past \in (o + 1)..length, WellFormed(Slice(o, past))
      PROVE  past \in Boundaries
  <2>1. past \in 0..length  BY <1>1
  <2>2. ASSUME NEW S \in SUBSET (0..length), ClosedSet(S) PROVE past \in S
    <3>1. o \in S  BY <2>2, BoundariesAre
    <3>. QED  BY <1>3, <2>2, <3>1 DEF ClosedSet
  <2>. QED  BY <2>1, <2>2, BoundariesAre
<1>. QED  BY <1>1, <1>2, <1>3 DEF ClosedSet

\* A boundary other than 0 has one before it.
LEMMA BoundaryBefore ==
    ASSUME length \in Nat, NEW past \in Boundaries, past # 0
    PROVE  \E o \in Boundaries : o < past /\ WellFormed(Slice(o, past))
<1>. SUFFICES ASSUME \A o \in Boundaries : ~(o < past /\ WellFormed(Slice(o, past)))
              PROVE  FALSE
  OBVIOUS
<1>. DEFINE S == Boundaries \ {past}
<1>1. Boundaries \subseteq 0..length /\ ClosedSet(Boundaries)  BY BoundariesClosed
<1>2. 0 \in S  BY <1>1 DEF ClosedSet
<1>3. ASSUME NEW o \in S, NEW q \in (o + 1)..length, WellFormed(Slice(o, q))
      PROVE  q \in S
  <2>1. q \in Boundaries  BY <1>1, <1>3 DEF ClosedSet
  <2>2. o < q  BY <1>1
  <2>. QED  BY <1>3, <2>1, <2>2
<1>4. ClosedSet(S) /\ S \in SUBSET (0..length)  BY <1>1, <1>2, <1>3 DEF ClosedSet
<1>5. past \in S  BY <1>4, BoundariesAre
<1>. QED  BY <1>5

-----------------------------------------------------------------------------
(* The iterator.                                                            *)

\* An iterator between two offsets of the text has the code point between them.
Decodes(i) ==
    WellFormed(Slice(i.current, i.next)) => i.value = CodePoint(Slice(i.current, i.next))
InText(i) ==
    /\ i.current \in 0..length /\ i.next \in 0..length /\ i.current <= i.next
    /\ Decodes(i)
\* It stands on one of the sequences that the text begins with, or behind them.
OnSequence(i) ==
    /\ i.current \in Boundaries /\ i.next \in Boundaries
    /\ i.current < i.next => WellFormed(Slice(i.current, i.next))

Shaped(i) == i = Iterator(i.current, i.next, i.value, i.valid) /\ i.valid \in BOOLEAN

Sound == it.valid = TRUE /\ ~misled
Follows == before.valid = TRUE /\ Sound => InText(before) /\ it.next = before.current

(* A sound iterator is in its text; it is on a sequence as long as it came  *)
(* from an end that is on one; and the one before a decrement ends where    *)
(* the iterator now has its next offset.                                    *)
IteratorInv ==
    /\ text \in Seq(Bytes) /\ (\E b \in Bytes : memory = Append(text, b)) /\ "none" \in none
    /\ Shaped(it) /\ Shaped(before) /\ misled \in BOOLEAN
    /\ mode = "loop" => before.valid = FALSE
    /\ Sound => InText(it)
    /\ Sound /\ ~LongLead /\ (turned => length \in Boundaries) => OnSequence(it)
    /\ Follows

LEMMA TextHeld == IteratorInv => Held
<1>. SUFFICES ASSUME IteratorInv PROVE Held  OBVIOUS
<1>1. PICK b \in Bytes : memory = Append(text, b)  BY DEF IteratorInv
<1>2. text \in Seq(Bytes) /\ Len(text) \in Nat  BY DEF IteratorInv
<1>3. /\ memory \in Seq(Bytes) /\ Len(memory) = Len(text) + 1
      /\ \A i \in 1..Len(text) : memory[i] = text[i]
  BY <1>1, <1>2, AppendProperties
<1>. QED  BY <1>2, <1>3 DEF IteratorInv, Held, length

\* No sequence is empty.
LEMMA EmptySlice ==
    ASSUME Held, NEW a \in 0..length
    PROVE  ~WellFormed(Slice(a, a))
<1>1. length \in Nat /\ text \in Seq(Bytes)  BY DEF Held, length
<1>2. Len(Slice(a, a)) = 0
  BY <1>1, SubSeqProperties DEF Slice
<1>. QED  BY <1>2 DEF WellFormed

LEMMA IteratorFields ==
    ASSUME NEW c, NEW n, NEW v, NEW b
    PROVE  /\ Iterator(c, n, v, b).current = c /\ Iterator(c, n, v, b).next = n
           /\ Iterator(c, n, v, b).value = v /\ Iterator(c, n, v, b).valid = b
BY DEF Iterator

LEMMA NotValid ==
    \A c, n, v : Iterator(c, n, v, FALSE).valid # TRUE
BY DEF Iterator

\* An increment that reports nothing has read a sequence.
LEMMA IncrementReads ==
    ASSUME Held, NEW i, i.next \in 0..length, i.valid \in BOOLEAN,
           ~IncrementMisled(i), Incremented(i).valid = TRUE
    PROVE  LET j == Incremented(i)
           IN  /\ i.valid = TRUE /\ Shaped(j) /\ InText(j) /\ j.current = i.next
               /\ j.next \in (i.next + 1)..length
               /\ memory[i.next + 1] < 240 => WellFormed(Slice(j.current, j.next))
<1>. DEFINE a == i.next
            read == utf8_increment(memory, length, a, i.value, none)
            j == Incremented(i)
<1>0. length \in Nat /\ a \in 0..length /\ "none" \in none  BY DEF Held, length
<1>1. read.exception \in none
  <2>. SUFFICES ASSUME read.exception \notin none PROVE FALSE  OBVIOUS
  <2>1. Incremented(i) = Iterator(i.current, i.next, read.value, FALSE)
    BY DEF Incremented
  <2>2. Iterator(i.current, i.next, read.value, FALSE).valid # TRUE  BY NotValid
  <2>. QED  BY <2>1, <2>2
<1>2. read.exception = "none"  BY <1>1 DEF IncrementMisled
<1>3. j = Iterator(a, read.offset, read.value, i.valid)  BY <1>1 DEF Incremented
<1>4. i.valid = TRUE /\ Shaped(j) /\ j.current = a /\ j.next = read.offset /\ j.value = read.value
  <2>1. /\ j.current = a /\ j.next = read.offset /\ j.value = read.value
        /\ j.valid = i.valid
    BY <1>3, IteratorFields
  <2>2. Shaped(j)  BY <1>3, <2>1 DEF Shaped
  <2>3. i.valid = TRUE  BY <2>1 DEF j
  <2>. QED  BY <2>1, <2>2, <2>3
<1>. HIDE DEF read, j
<1>5. /\ a < length /\ read.offset \in (a + 1)..length
      /\ memory[a + 1] < 240 => WellFormed(Slice(a, read.offset))
  BY <1>0, <1>2, ReadNone DEF read
<1>6. WellFormed(Slice(a, read.offset)) => read.value = CodePoint(Slice(a, read.offset))
  <2>. SUFFICES ASSUME WellFormed(Slice(a, read.offset))
                PROVE  read.value = CodePoint(Slice(a, read.offset))
    OBVIOUS
  <2>1. /\ read.offset \in 0..length /\ a < read.offset
        /\ length \in read.offset..length
    BY <1>0, <1>5
  <2>2. read = Read("none", read.offset, CodePoint(Slice(a, read.offset)))
    BY <1>0, <2>1, ReadWellFormed DEF read
  <2>. QED  BY <2>2 DEF Read
<1>7. InText(j)
  BY <1>0, <1>4, <1>5, <1>6 DEF InText, Decodes
<1>. QED  BY <1>4, <1>5, <1>7 DEF j

\* A decrement that reports nothing has read a sequence that begins before.
LEMMA DecrementReads ==
    ASSUME Held, NEW i, i.current \in 0..length, i.valid \in BOOLEAN,
           ~DecrementMisled(i), Decremented(i).valid = TRUE
    PROVE  LET j == Decremented(i)
           IN  /\ i.valid = TRUE /\ Shaped(j) /\ InText(j) /\ i.current > 0
               /\ j.current = SequenceStart(memory, i.current)
               /\ j.next = i.current /\ j.current < j.next
<1>. DEFINE offset == i.current
            start == SequenceStart(memory, offset)
            back == utf8_decrement(memory, offset, i.value, none)
            read == utf8_increment(memory, offset, start, i.value, none)
            j == Decremented(i)
<1>0. length \in Nat /\ offset \in 0..length /\ "none" \in none  BY DEF Held, length
<1>1. back.exception \in none
  <2>. SUFFICES ASSUME back.exception \notin none PROVE FALSE  OBVIOUS
  <2>1. Decremented(i) = Iterator(i.current, i.next, back.value, FALSE)
    BY DEF Decremented
  <2>2. Iterator(i.current, i.next, back.value, FALSE).valid # TRUE  BY NotValid
  <2>. QED  BY <2>1, <2>2
<1>2. back.exception = "none"  BY <1>1 DEF DecrementMisled
<1>3. offset # 0  BY <1>2 DEF utf8_decrement, Read
<1>4. start \in 0..(offset - 1) /\ offset \in Nat \ {0}
  <2>1. offset \in Nat \ {0}  BY <1>0, <1>3
  <2>. QED  BY <2>1, StartBegins
<1>5. back = Read(read.exception, IF read.exception \in none THEN start ELSE offset,
                  read.value)
  BY <1>3 DEF utf8_decrement
<1>6. read.exception = "none" /\ back.offset = start /\ back.value = read.value
  BY <1>0, <1>2, <1>5 DEF Read
<1>7. j = Iterator(start, offset, read.value, i.valid)
  BY <1>1, <1>6 DEF Decremented
<1>8. i.valid = TRUE /\ Shaped(j) /\ j.current = start /\ j.next = offset /\ j.value = read.value
  <2>1. /\ j.current = start /\ j.next = offset /\ j.value = read.value
        /\ j.valid = i.valid
    BY <1>7, IteratorFields
  <2>2. Shaped(j)  BY <1>7, <2>1 DEF Shaped
  <2>3. i.valid = TRUE  BY <2>1 DEF j
  <2>. QED  BY <2>1, <2>2, <2>3
<1>. HIDE DEF read, start, back, j
<1>9. WellFormed(Slice(start, offset)) => read.value = CodePoint(Slice(start, offset))
  <2>. SUFFICES ASSUME WellFormed(Slice(start, offset))
                PROVE  read.value = CodePoint(Slice(start, offset))
    OBVIOUS
  <2>1. start \in 0..length /\ start < offset /\ offset \in offset..length  BY <1>0, <1>4
  <2>2. read = Read("none", offset, CodePoint(Slice(start, offset)))
    BY <1>0, <2>1, ReadWellFormed DEF read
  <2>. QED  BY <2>2 DEF Read
<1>10. InText(j)  BY <1>0, <1>4, <1>8, <1>9 DEF InText, Decodes
<1>. QED  BY <1>0, <1>3, <1>4, <1>8, <1>10 DEF j, start

\* From a boundary an increment reaches one, and a decrement too.
LEMMA IncrementOn ==
    ASSUME Held, ~LongLead, NEW i, i.next \in Boundaries, i.valid \in BOOLEAN,
           ~IncrementMisled(i), Incremented(i).valid = TRUE
    PROVE  OnSequence(Incremented(i))
<1>. DEFINE j == Incremented(i)
<1>1. length \in Nat  BY DEF Held, length
<1>2. Boundaries \subseteq 0..length /\ ClosedSet(Boundaries)  BY <1>1, BoundariesClosed
<1>3. i.next \in 0..length  BY <1>2
<1>4. /\ j.current = i.next /\ j.next \in (i.next + 1)..length
      /\ memory[i.next + 1] < 240 => WellFormed(Slice(j.current, j.next))
  BY <1>3, IncrementReads
<1>. HIDE DEF j
<1>5. memory[i.next + 1] < 240
  <2>1. i.next + 1 \in 1..length  BY <1>1, <1>3, <1>4
  <2>2. memory[i.next + 1] = text[i.next + 1] /\ text[i.next + 1] \in Bytes
    BY <2>1 DEF Held, length
  <2>3. ~(text[i.next + 1] >= 240)  BY <2>1 DEF LongLead, length, Held
  <2>. QED  BY <2>2, <2>3 DEF Bytes
<1>6. j.next \in Boundaries
  BY <1>2, <1>4, <1>5 DEF ClosedSet
<1>. QED  BY <1>4, <1>5, <1>6 DEF OnSequence, j

LEMMA DecrementOn ==
    ASSUME Held, NEW i, i.current \in Boundaries, i.valid \in BOOLEAN,
           ~DecrementMisled(i), Decremented(i).valid = TRUE
    PROVE  OnSequence(Decremented(i))
<1>. DEFINE j == Decremented(i)
<1>1. length \in Nat  BY DEF Held, length
<1>2. Boundaries \subseteq 0..length  BY <1>1, BoundariesClosed
<1>3. i.current \in 0..length  BY <1>2
<1>4. /\ i.current > 0 /\ j.current = SequenceStart(memory, i.current)
      /\ j.next = i.current
  BY <1>3, DecrementReads
<1>. HIDE DEF j
<1>5. PICK o \in Boundaries : o < i.current /\ WellFormed(Slice(o, i.current))
  <2>1. i.current # 0  BY <1>4
  <2>. QED  BY <1>1, <2>1, BoundaryBefore
<1>6. j.current = o
  <2>1. o \in 0..length  BY <1>2
  <2>. QED  BY <1>3, <1>4, <1>5, <2>1, WellFormedStart
<1>. QED  BY <1>4, <1>5, <1>6 DEF OnSequence, j

\* What is known of an iterator stays so while the text does.
LEMMA Stays ==
    ASSUME text' = text, NEW j, it' = j
    PROVE  /\ Shaped(j) => Shaped(it)'
           /\ InText(j) => InText(it)'
           /\ OnSequence(j) => OnSequence(it)'
           /\ length' = length /\ Boundaries' = Boundaries /\ LongLead' = LongLead
<1>1. length' = length  BY DEF length
<1>2. Boundaries' = Boundaries  BY DEF Boundaries, Slice, length
<1>3. LongLead' = LongLead  BY DEF LongLead
<1>4. Shaped(j) => Shaped(it)'  BY DEF Shaped, Iterator
<1>5. InText(j) => InText(it)'  BY DEF InText, Decodes, Slice, length
<1>6. OnSequence(j) => OnSequence(it)'  BY <1>2 DEF OnSequence, Slice
<1>. QED  BY <1>1, <1>2, <1>3, <1>4, <1>5, <1>6

LEMMA ShapedIterator ==
    ASSUME NEW c, NEW n, NEW v, NEW b \in BOOLEAN
    PROVE  Shaped(Iterator(c, n, v, b))
BY IteratorFields DEF Shaped

LEMMA IteratorAt ==
    ASSUME NEW o
    PROVE  LET i == Iterator(o, o, Unset, TRUE)
           IN  i.current = o /\ i.next = o /\ i.valid = TRUE /\ Shaped(i)
<1>1. Iterator(o, o, Unset, TRUE).current = o /\ Iterator(o, o, Unset, TRUE).next = o
  BY DEF Iterator
<1>2. Iterator(o, o, Unset, TRUE).valid = TRUE  BY DEF Iterator
<1>3. Shaped(Iterator(o, o, Unset, TRUE))  BY ShapedIterator
<1>. QED  BY <1>1, <1>2, <1>3

LEMMA NoIterator ==
    Shaped(Iterator(0, 0, Unset, FALSE)) /\ Iterator(0, 0, Unset, FALSE).valid = FALSE
<1>1. Iterator(0, 0, Unset, FALSE).valid = FALSE  BY DEF Iterator
<1>2. Shaped(Iterator(0, 0, Unset, FALSE))  BY ShapedIterator
<1>. QED  BY <1>1, <1>2

\* A step gives an iterator.
LEMMA ShapedMoves ==
    ASSUME NEW i, Shaped(i)
    PROVE  Shaped(Incremented(i)) /\ Shaped(Decremented(i))
<1>. i.valid \in BOOLEAN  BY DEF Shaped
<1>1. Shaped(Incremented(i))
  BY ShapedIterator, Zenon DEF Incremented
<1>2. Shaped(Decremented(i))
  BY ShapedIterator, Zenon DEF Decremented
<1>. QED  BY <1>1, <1>2

LEMMA IteratorInitInv == IteratorInit => IteratorInv
<1>. SUFFICES ASSUME IteratorInit PROVE IteratorInv  OBVIOUS
<1>1. text \in Seq(Bytes) /\ (\E b \in Bytes : memory = Append(text, b)) /\ "none" \in none
  BY TextAssumption DEF IteratorInit
<1>2. Held
  <2>1. PICK b \in Bytes : memory = Append(text, b)  BY <1>1
  <2>2. Len(text) \in Nat  BY <1>1
  <2>3. /\ memory \in Seq(Bytes) /\ Len(memory) = Len(text) + 1
        /\ \A i \in 1..Len(text) : memory[i] = text[i]
    BY <1>1, <2>1, <2>2, AppendProperties
  <2>. QED  BY <1>1, <2>3 DEF Held, length
<1>3. length \in Nat  BY <1>2 DEF Held, length
<1>4. before = Iterator(0, 0, Unset, FALSE)  BY DEF IteratorInit
<1>5. Shaped(before) /\ before.valid = FALSE
  BY <1>4, NoIterator
<1>. DEFINE i(o) == Iterator(o, o, Unset, TRUE)
<1>6. ASSUME NEW o
      PROVE  /\ i(o).current = o /\ i(o).next = o /\ i(o).valid = TRUE
             /\ Shaped(i(o))
  BY IteratorAt DEF i
<1>. HIDE DEF i
<1>7. ASSUME NEW o \in 0..length, it = i(o)
      PROVE  InText(it) /\ (o \in Boundaries => OnSequence(it))
  <2>1. ~WellFormed(Slice(o, o))  BY <1>2, EmptySlice
  <2>2. it.current = o /\ it.next = o  BY <1>6, <1>7
  <2>3. InText(it)  BY <1>3, <2>1, <2>2 DEF InText, Decodes
  <2>. QED  BY <2>2, <2>3, <1>3 DEF OnSequence
<1>8. 0 \in Boundaries /\ Boundaries \subseteq 0..length
  BY <1>3, BoundariesClosed DEF ClosedSet
<1>9. CASE Start(0) /\ turned = FALSE
  <2>1. CASE 0 < length
    <3>1. it = Incremented(i(0)) /\ misled = IncrementMisled(i(0))
      <4>1. it = Incremented(i(0))  BY <1>9, <2>1 DEF Start, Constructed, i
      <4>2. misled = IncrementMisled(i(0))
        <5>1. IncrementMisled(i(0)) \in BOOLEAN  BY DEF IncrementMisled
        <5>2. misled = (0 < length /\ IncrementMisled(i(0)))
          BY <1>9 DEF Start, ConstructMisled, i
        <5>. HIDE DEF IncrementMisled
        <5>. QED  BY <2>1, <5>1, <5>2
      <4>. QED  BY <4>1, <4>2
    <3>2. misled \in BOOLEAN  BY <1>9 DEF Start, ConstructMisled
    <3>3. Shaped(it)  BY <1>6, <3>1, ShapedMoves
    <3>4. ASSUME Sound PROVE InText(it) /\ (~LongLead => OnSequence(it))
      <4>1. ~IncrementMisled(i(0)) /\ Incremented(i(0)).valid = TRUE
        BY <3>1, <3>4 DEF Sound
      <4>2. i(0).next \in Boundaries /\ i(0).next \in 0..length /\ i(0).valid \in BOOLEAN
        BY <1>6, <1>8
      <4>. QED  BY <1>2, <3>1, <4>1, <4>2, IncrementReads, IncrementOn
    <3>. QED  BY <1>1, <1>5, <3>2, <3>3, <3>4 DEF IteratorInv, Follows
  <2>2. CASE ~(0 < length)
    <3>1. it = i(0) /\ misled = FALSE  BY <1>9, <2>2 DEF Start, Constructed, ConstructMisled, i
    <3>2. Shaped(it)  BY <1>6, <3>1
    <3>. QED  BY <1>1, <1>3, <1>5, <1>7, <1>8, <3>1, <3>2 DEF IteratorInv, Follows
  <2>. QED  BY <2>1, <2>2
<1>10. CASE Start(length) /\ turned = TRUE
  <2>1. ~(length < length)  BY <1>3
  <2>2. it = i(length) /\ misled = FALSE
    BY <1>10, <2>1 DEF Start, Constructed, ConstructMisled, i
  <2>3. Shaped(it)  BY <1>6, <2>2
  <2>4. length \in 0..length  BY <1>3
  <2>. QED  BY <1>1, <1>5, <1>7, <1>10, <2>2, <2>3, <2>4 DEF IteratorInv, Follows
<1>. QED  BY <1>9, <1>10 DEF IteratorInit

\* A step forward, of a program that walks or of the loop.
LEMMA ForwardKeeps ==
    ASSUME IteratorInv, it.valid = TRUE, it' = Incremented(it),
           misled' = (misled \/ IncrementMisled(it)),
           UNCHANGED <<text, memory, none, mode, turned>>,
           Shaped(before)', before'.valid = FALSE
    PROVE  IteratorInv'
<1>. DEFINE j == Incremented(it)
<1>1. Held  BY TextHeld
<1>2. Shaped(j)  BY ShapedMoves DEF IteratorInv
<1>3. ASSUME Sound'
      PROVE  Sound /\ InText(j)
             /\ (~LongLead /\ (turned => length \in Boundaries) => OnSequence(j))
  <2>1. Sound /\ ~IncrementMisled(it) /\ j.valid = TRUE  BY <1>3 DEF Sound
  <2>2. InText(it) /\ it.valid \in BOOLEAN  BY <2>1 DEF IteratorInv, Shaped
  <2>3. it.next \in 0..length  BY <2>2 DEF InText
  <2>4. InText(j)  BY <1>1, <2>1, <2>2, <2>3, IncrementReads
  <2>5. ~LongLead /\ (turned => length \in Boundaries) => it.next \in Boundaries
    BY <2>1 DEF IteratorInv, OnSequence
  <2>. QED  BY <1>1, <2>1, <2>2, <2>4, <2>5, IncrementOn
<1>. HIDE DEF j
<1>4. it' = j  BY DEF j
<1>5. misled' \in BOOLEAN  OBVIOUS
<1>6. Shaped(it)'  BY <1>2, <1>4, Stays
<1>7. Sound' => InText(it)'  BY <1>3, <1>4, Stays
<1>8. Sound' /\ ~LongLead' /\ (turned' => length' \in Boundaries') => OnSequence(it)'
  <2>1. length' = length /\ Boundaries' = Boundaries /\ LongLead' = LongLead
    BY <1>4, Stays
  <2>. QED  BY <1>3, <1>4, <2>1, Stays
<1>9. Follows'  BY DEF Follows
<1>10. /\ text' \in Seq(Bytes) /\ (\E b \in Bytes : memory' = Append(text', b))
       /\ "none" \in none'
  BY DEF IteratorInv
<1>. QED  BY <1>5, <1>6, <1>7, <1>8, <1>9, <1>10 DEF IteratorInv

LEMMA DecrementKeeps ==
    ASSUME IteratorInv, Decrement
    PROVE  IteratorInv'
<1>. DEFINE j == Decremented(it)
<1>0. /\ it' = j /\ misled' = (misled \/ DecrementMisled(it)) /\ turned' = TRUE
      /\ before' = it /\ mode = "walk" /\ UNCHANGED <<text, memory, none, mode>>
      /\ it.valid
  BY DEF Decrement
<1>1. Held /\ it.valid = TRUE  BY <1>0, TextHeld DEF IteratorInv, Shaped
<1>2. Shaped(j)  BY ShapedMoves DEF IteratorInv
<1>3. ASSUME Sound'
      PROVE  /\ InText(it) /\ InText(j) /\ j.next = it.current
             /\ ~LongLead /\ length \in Boundaries => OnSequence(j)
  <2>1. Sound /\ ~DecrementMisled(it) /\ j.valid = TRUE  BY <1>0, <1>1, <1>3 DEF Sound
  <2>2. InText(it) /\ it.valid \in BOOLEAN  BY <2>1 DEF IteratorInv, Shaped
  <2>3. it.current \in 0..length  BY <2>2 DEF InText
  <2>4. InText(j) /\ j.next = it.current  BY <1>1, <2>1, <2>2, <2>3, DecrementReads
  <2>5. ~LongLead /\ length \in Boundaries => it.current \in Boundaries
    BY <2>1 DEF IteratorInv, OnSequence
  <2>. QED  BY <1>1, <2>1, <2>2, <2>4, <2>5, DecrementOn
<1>. HIDE DEF j
<1>5. misled' \in BOOLEAN  BY <1>0
<1>6. Shaped(it)'  BY <1>0, <1>2, Stays
<1>7. Sound' => InText(it)'  BY <1>0, <1>3, Stays
<1>8. Sound' /\ ~LongLead' /\ (turned' => length' \in Boundaries') => OnSequence(it)'
  <2>1. length' = length /\ Boundaries' = Boundaries /\ LongLead' = LongLead
    BY <1>0, Stays
  <2>. QED  BY <1>0, <1>3, <2>1, Stays
<1>9. Follows' /\ Shaped(before)'
  <2>1. Sound' => InText(before)' /\ it'.next = before'.current
    BY <1>0, <1>3 DEF InText, Decodes, Slice, length
  <2>2. Shaped(before)'  BY <1>0 DEF IteratorInv, Shaped, Iterator
  <2>. QED  BY <2>1, <2>2 DEF Follows
<1>10. /\ text' \in Seq(Bytes) /\ (\E b \in Bytes : memory' = Append(text', b))
       /\ "none" \in none' /\ mode' # "loop"
  BY <1>0 DEF IteratorInv
<1>. QED  BY <1>5, <1>6, <1>7, <1>8, <1>9, <1>10 DEF IteratorInv

LEMMA IteratorNextInv == IteratorInv /\ [IteratorNext]_iteratorVars => IteratorInv'
<1>. SUFFICES ASSUME IteratorInv, [IteratorNext]_iteratorVars PROVE IteratorInv'  OBVIOUS
<1>1. CASE Increment
  <2>1. /\ it.valid /\ it' = Incremented(it) /\ misled' = (misled \/ IncrementMisled(it))
        /\ UNCHANGED <<text, memory, none, mode, turned>>
        /\ before' = Iterator(0, 0, Unset, FALSE)
    BY <1>1 DEF Increment, NoneBefore
  <2>2. it.valid = TRUE  BY <2>1 DEF IteratorInv, Shaped
  <2>3. Shaped(before)' /\ before'.valid = FALSE
    BY <2>1, NoIterator DEF Shaped, Iterator
  <2>. QED  BY <2>1, <2>2, <2>3, ForwardKeeps
<1>2. CASE Decrement  BY <1>2, DecrementKeeps
<1>3. CASE LoopStep
  <2>1. /\ it.valid /\ it' = Incremented(it) /\ misled' = (misled \/ IncrementMisled(it))
        /\ UNCHANGED <<text, memory, none, mode, turned, before>> /\ mode = "loop"
    BY <1>3 DEF LoopStep
  <2>2. it.valid = TRUE  BY <2>1 DEF IteratorInv, Shaped
  <2>3. Shaped(before)' /\ before'.valid = FALSE
    BY <2>1 DEF IteratorInv, Shaped, Iterator
  <2>. QED  BY <2>1, <2>2, <2>3, ForwardKeeps
<1>4. CASE UNCHANGED iteratorVars
  BY <1>4 DEF iteratorVars, IteratorInv, Shaped, Iterator, Sound, InText, Decodes,
              Slice, length, OnSequence, Boundaries, LongLead, Follows
<1>. QED  BY <1>1, <1>2, <1>3, <1>4 DEF IteratorNext

(* Every reachable iterator satisfies the inductive invariant.              *)
THEOREM IteratorInvHolds == IteratorSpec => []IteratorInv
BY IteratorInitInv, IteratorNextInv, PTL DEF IteratorSpec

(* An iterator that says it is valid stands between well-formed sequences   *)
(* and has the code point of the one it stands on, in every text without    *)
(* sequences of four bytes, as long as no exception was taken for none.     *)
THEOREM OnBoundaryHolds == IteratorSpec => []OnBoundary
<1>1. ASSUME IteratorInv PROVE OnBoundary
  <2>. SUFFICES ASSUME Trusted, turned => length \in Boundaries
                PROVE  /\ it.current \in Boundaries /\ it.next \in Boundaries
                       /\ it.current < it.next =>
                             /\ WellFormed(Slice(it.current, it.next))
                             /\ it.value = CodePoint(Slice(it.current, it.next))
    BY DEF OnBoundary
  <2>1. Sound /\ ~LongLead  BY <1>1 DEF Trusted, Sound, IteratorInv, Shaped
  <2>2. InText(it) /\ OnSequence(it)  BY <1>1, <2>1 DEF IteratorInv
  <2>. QED  BY <2>2 DEF InText, OnSequence, Decodes
<1>. QED  BY <1>1, IteratorInvHolds, PTL

(* An iterator on a well-formed sequence is there again after a decrement   *)
(* and an increment, whatever the text around the sequence is.              *)
THEOREM ReversibleHolds == IteratorSpec => Reversible
<1>1. ASSUME IteratorInv, before.valid, WellFormed(Slice(before.current, before.next)),
             it.valid, ~misled', Increment
      PROVE  it' = before
  <2>1. /\ it' = Incremented(it) /\ misled' = (misled \/ IncrementMisled(it))
    BY <1>1 DEF Increment
  <2>2. before.valid = TRUE /\ it.valid = TRUE  BY <1>1 DEF IteratorInv, Shaped
  <2>3. Sound  BY <1>1, <2>1, <2>2 DEF Sound
  <2>4. Held /\ InText(before) /\ it.next = before.current
    BY <1>1, <2>2, <2>3, TextHeld DEF IteratorInv, Follows
  <2>5. before = Iterator(before.current, before.next, before.value, TRUE)
    BY <1>1, <2>2 DEF IteratorInv, Shaped
  <2>. DEFINE a == before.current
              c == before.next
              code == CodePoint(Slice(a, c))
              read == utf8_increment(memory, length, a, it.value, none)
  <2>6. /\ a \in 0..length /\ c \in 0..length /\ a <= c /\ before.value = code
        /\ length \in Nat /\ "none" \in none
    BY <1>1, <2>4 DEF InText, Decodes, Held, length
  <2>7. a # c  BY <1>1, <2>4, <2>6, EmptySlice
  <2>8. a < c /\ length \in c..length  BY <2>6, <2>7
  <2>9. read = Read("none", c, code)
    BY <1>1, <2>4, <2>6, <2>8, ReadWellFormed
  <2>10. read.exception \in none /\ read.offset = c /\ read.value = code
    BY <2>6, <2>9 DEF Read
  <2>11. it' = Iterator(a, c, code, TRUE)
    BY <2>1, <2>2, <2>4, <2>10 DEF Incremented
  <2>. QED  BY <2>5, <2>6, <2>11
<1>. QED  BY <1>1, IteratorInvHolds, PTL DEF IteratorSpec, Reversible

=============================================================================
