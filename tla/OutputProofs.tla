---------------------------- MODULE OutputProofs ----------------------------
(***************************************************************************)
(* Proofs about what the program writes and hands on: the streams, for     *)
(* every length, width of a position, set of words and handle definition,  *)
(* and the string builder, for every set of buffers, texts and formats.    *)
(* What is on a stream does not depend on the machine, and what was        *)
(* written and not overwritten is read back; what was appended to a        *)
(* builder is in its list, and its buffers go back once each.              *)
(***************************************************************************)
EXTENDS BinaryStreams, StringBuilder, FiniteSetTheorems, SequenceTheorems,
        NaturalsInduction, WellFoundedInduction, TLAPS

(***************************************************************************)
(* Shifts and masks, bit by bit.                                           *)
(***************************************************************************)
LEMMA ShiftRightBits ==
    ASSUME NEW v \in SUBSET Nat, NEW k \in Nat
    PROVE  /\ ShiftRight(v, k) \in SUBSET Nat
           /\ \A x \in Nat : x \in ShiftRight(v, k) <=> x + k \in v
<1>1. ASSUME NEW x \in ShiftRight(v, k) PROVE x \in Nat /\ x + k \in v
  BY <1>1 DEF ShiftRight
<1>2. ASSUME NEW x \in Nat, x + k \in v PROVE x \in ShiftRight(v, k)
  <2>1. x + k \in {c \in v : c >= k} /\ x = (x + k) - k  BY <1>2
  <2>. QED  BY <2>1 DEF ShiftRight
<1>. QED  BY <1>1, <1>2

LEMMA ShiftLeftBits ==
    ASSUME NEW v \in SUBSET Nat, NEW k \in Nat, NEW width \in Nat
    PROVE  /\ ShiftLeft(v, k, width) \in SUBSET Nat
           /\ \A x \in Nat : x \in ShiftLeft(v, k, width) <=>
                 x < width /\ x >= k /\ x - k \in v
<1>1. ShiftLeft(v, k, width) \in SUBSET Nat  BY DEF ShiftLeft
<1>2. ASSUME NEW x \in Nat, x \in ShiftLeft(v, k, width)
      PROVE  x < width /\ x >= k /\ x - k \in v
  BY <1>2 DEF ShiftLeft
<1>3. ASSUME NEW x \in Nat, x < width, x >= k, x - k \in v
      PROVE  x \in ShiftLeft(v, k, width)
  <2>1. x = (x - k) + k  OBVIOUS
  <2>. QED  BY <1>3, <2>1 DEF ShiftLeft
<1>. QED  BY <1>1, <1>2, <1>3

LEMMA WordBits ==
    ASSUME NEW width \in Nat, NEW v \in Word(width)
    PROVE  v \in SUBSET Nat /\ \A x \in v : x < width
BY DEF Word

LEMMA ByteOfBits ==
    ASSUME NEW v \in SUBSET Nat, NEW i \in Nat
    PROVE  /\ ByteOf(v, i) \in Byte
           /\ \A x \in 0..7 : x \in ByteOf(v, i) <=> x + 8 * i \in v
<1>1. v \cap Bytes(i, i) \in SUBSET Nat
  OBVIOUS
<1>. 8 * i \in Nat
  OBVIOUS
<1>2. \A x \in Nat : x \in ByteOf(v, i) <=> x + 8 * i \in v \cap Bytes(i, i)
  BY <1>1, ShiftRightBits DEF ByteOf
<1>3. \A x \in Nat : x + 8 * i \in Bytes(i, i) <=> x \in 0..7
  BY DEF Bytes
<1>4. ByteOf(v, i) \in SUBSET Nat  BY <1>1, ShiftRightBits DEF ByteOf
<1>5. \A x \in ByteOf(v, i) : x \in 0..7
  BY <1>2, <1>3, <1>4
<1>6. ByteOf(v, i) \in Byte  BY <1>5 DEF Byte, Word
<1>. QED  BY <1>2, <1>3, <1>6, SMTT(30)

LEMMA SameByte ==
    ASSUME NEW a \in Byte, NEW b \in Byte, \A x \in 0..7 : x \in a <=> x \in b
    PROVE  a = b
<1>1. \A x \in a \cup b : x \in 0..7  BY DEF Byte, Word
<1>2. \A x : x \in a <=> x \in b  BY <1>1
<1>. QED  BY <1>2

LEMMA Division ==
    ASSUME NEW n \in Nat, NEW f \in Nat \ {0}
    PROVE  n \div f \in Nat /\ n % f \in 0..(f - 1) /\ n = (n \div f) * f + (n % f)
  OBVIOUS

\* Two words with the same bytes are the same.
LEMMA SameBytes ==
    ASSUME NEW size \in Nat, NEW v \in Word(8 * size), NEW w \in Word(8 * size),
           \A i \in 0..(size - 1) : ByteOf(v, i) = ByteOf(w, i)
    PROVE  v = w
<1>1. ASSUME NEW b \in 0..(8 * size - 1) PROVE b \in v <=> b \in w
  <2>1. PICK i \in 0..(size - 1), x \in 0..7 : b = x + 8 * i
    <3>1. b \in Nat /\ b < 8 * size  OBVIOUS
    <3>2. b \div 8 \in Nat /\ b % 8 \in 0..7 /\ b = (b % 8) + 8 * (b \div 8)
      BY <3>1, Division
    <3>3. b \div 8 \in 0..(size - 1)  BY <3>1, <3>2
    <3>. QED  BY <3>2, <3>3
  <2>2. v \in SUBSET Nat /\ w \in SUBSET Nat  BY WordBits
  <2>3. ByteOf(v, i) = ByteOf(w, i)  OBVIOUS
  <2>. QED  BY <2>1, <2>2, <2>3, ByteOfBits
<1>. QED  BY <1>1 DEF Word

\* The word made of bytes has those bytes.
LEMMA FromBytesBits ==
    ASSUME NEW size \in Nat, NEW f, \A i \in 0..(size - 1) : f[i] \in Byte
    PROVE  /\ FromBytes(f, size) \in Word(8 * size)
           /\ \A i \in 0..(size - 1) : ByteOf(FromBytes(f, size), i) = f[i]
<1>. DEFINE w == FromBytes(f, size)
<1>1. \A b : b \in w <=> \E i \in 0..(size - 1) : \E x \in f[i] : b = x + 8 * i
  BY DEF FromBytes
<1>2. w \in Word(8 * size)
  BY <1>1 DEF Word, Byte
<1>3. ASSUME NEW i \in 0..(size - 1), NEW x \in 0..7
      PROVE  x \in ByteOf(w, i) <=> x \in f[i]
  <2>1. x \in ByteOf(w, i) <=> x + 8 * i \in w  BY <1>2, ByteOfBits, WordBits
  <2>2. \A j \in 0..(size - 1) : \A y \in 0..7 : x + 8 * i = y + 8 * j => i = j /\ x = y
    OBVIOUS
  <2>. QED  BY <1>1, <2>1, <2>2 DEF Byte, Word
<1>4. \A i \in 0..(size - 1) : ByteOf(w, i) \in Byte  BY <1>2, ByteOfBits, WordBits
<1>. HIDE DEF w
<1>5. \A i \in 0..(size - 1) : ByteOf(w, i) = f[i]  BY <1>3, <1>4, SameByte
<1>. QED  BY <1>2, <1>5 DEF w

-----------------------------------------------------------------------------
(* swap_bytes turns the bytes of a word around.                             *)

\* What has the bits of v in the opposite order of bytes is v turned around.
LEMMA Turned ==
    ASSUME NEW size \in Nat, NEW v \in Word(8 * size), NEW w \in SUBSET Nat,
           \A i \in 0..(size - 1) : \A x \in 0..7 :
               x + 8 * i \in w <=> x + 8 * (size - 1 - i) \in v
    PROVE  \A i \in 0..(size - 1) : ByteOf(w, i) = ByteOf(v, size - 1 - i)
<1>. SUFFICES ASSUME NEW i \in 0..(size - 1)
              PROVE  ByteOf(w, i) = ByteOf(v, size - 1 - i)
  OBVIOUS
<1>1. v \in SUBSET Nat /\ size - 1 - i \in Nat  BY WordBits
<1>2. \A x \in 0..7 : x \in ByteOf(w, i) <=> x \in ByteOf(v, size - 1 - i)
  BY <1>1, ByteOfBits
<1>3. ByteOf(w, i) \in Byte /\ ByteOf(v, size - 1 - i) \in Byte
  BY <1>1, ByteOfBits
<1>. QED  BY <1>2, <1>3, SameByte

LEMMA Swap16 ==
    ASSUME NEW v \in Word(16)
    PROVE  /\ SwapBytes16(v) \in Word(16)
           /\ \A i \in 0..1 : ByteOf(SwapBytes16(v), i) = ByteOf(v, 1 - i)
<1>. DEFINE w == SwapBytes16(v)
            p0 == ShiftRight(v, 8)
            p1 == ShiftLeft(v, 8, 16)
<1>1. v \in SUBSET Nat /\ \A x \in v : x < 16  BY WordBits
<1>2. w = p0 \cup p1  BY DEF SwapBytes16
<1>3. p0 \in SUBSET Nat /\ \A x \in Nat : x \in p0 <=>
          x + 8 \in v
  BY <1>1, ShiftRightBits
<1>4. p1 \in SUBSET Nat /\ \A x \in Nat : x \in p1 <=>
          x < 16 /\ x >= 8 /\ x - 8 \in v
  BY <1>1, ShiftLeftBits
<1>. HIDE DEF w, p0, p1
<1>5. w \in SUBSET Nat /\ \A x \in w : x < 16
  BY <1>1, <1>2, <1>3, <1>4
<1>6. w \in Word(8 * 2) /\ v \in Word(8 * 2) /\ 8 * 2 = 16
  BY <1>1, <1>5 DEF Word
<1>7. ASSUME NEW i \in 0..(2 - 1), NEW x \in 0..7
      PROVE  x + 8 * i \in w <=> x + 8 * (2 - 1 - i) \in v
  <2>1. CASE i = 0  BY <1>1, <1>2, <2>1, <1>3, <1>4
  <2>2. CASE i = 1  BY <1>1, <1>2, <2>2, <1>3, <1>4
  <2>. QED  BY <2>1, <2>2
<1>8. \A i \in 0..(2 - 1) : ByteOf(w, i) = ByteOf(v, 2 - 1 - i)
  BY <1>5, <1>6, <1>7, Turned
<1>. QED  BY <1>6, <1>8 DEF w

LEMMA Swap32 ==
    ASSUME NEW v \in Word(32)
    PROVE  /\ SwapBytes32(v) \in Word(32)
           /\ \A i \in 0..3 : ByteOf(SwapBytes32(v), i) = ByteOf(v, 3 - i)
<1>. DEFINE w == SwapBytes32(v)
            p0 == ShiftLeft(v, 24, 32)
            p1 == ShiftRight(v, 24) \cap Bytes(0, 0)
            p2 == ShiftLeft(v \cap Bytes(1, 1), 8, 32)
            p3 == ShiftRight(v \cap Bytes(2, 2), 8)
<1>1. v \in SUBSET Nat /\ \A x \in v : x < 32  BY WordBits
<1>2. w = p0 \cup p1 \cup p2 \cup p3  BY DEF SwapBytes32
<1>3. p0 \in SUBSET Nat /\ \A x \in Nat : x \in p0 <=>
          x < 32 /\ x >= 24 /\ x - 24 \in v
  BY <1>1, ShiftLeftBits
<1>4. p1 \in SUBSET Nat /\ \A x \in Nat : x \in p1 <=>
          x + 24 \in v /\ x \in 0..7
  <2>1. Bytes(0, 0) = 0..7  BY DEF Bytes
  <2>. QED  BY <1>1, <2>1, ShiftRightBits
<1>5. p2 \in SUBSET Nat /\ \A x \in Nat : x \in p2 <=>
          x < 32 /\ x >= 8 /\ x - 8 \in v /\ x - 8 \in 8..15
  <2>1. v \cap Bytes(1, 1) \in SUBSET Nat /\ Bytes(1, 1) = 8..15
    BY <1>1 DEF Bytes
  <2>. QED  BY <2>1, ShiftLeftBits
<1>6. p3 \in SUBSET Nat /\ \A x \in Nat : x \in p3 <=>
          x + 8 \in v /\ x + 8 \in 16..23
  <2>1. v \cap Bytes(2, 2) \in SUBSET Nat /\ Bytes(2, 2) = 16..23
    BY <1>1 DEF Bytes
  <2>. QED  BY <2>1, ShiftRightBits
<1>. HIDE DEF w, p0, p1, p2, p3
<1>7. w \in SUBSET Nat /\ \A x \in w : x < 32
  BY <1>1, <1>2, <1>3, <1>4, <1>5, <1>6
<1>8. w \in Word(8 * 4) /\ v \in Word(8 * 4) /\ 8 * 4 = 32
  BY <1>1, <1>7 DEF Word
<1>9. ASSUME NEW i \in 0..(4 - 1), NEW x \in 0..7
      PROVE  x + 8 * i \in w <=> x + 8 * (4 - 1 - i) \in v
  <2>1. CASE i = 0  BY <1>1, <1>2, <2>1, <1>3, <1>4, <1>5, <1>6
  <2>2. CASE i = 1  BY <1>1, <1>2, <2>2, <1>3, <1>4, <1>5, <1>6
  <2>3. CASE i = 2  BY <1>1, <1>2, <2>3, <1>3, <1>4, <1>5, <1>6
  <2>4. CASE i = 3  BY <1>1, <1>2, <2>4, <1>3, <1>4, <1>5, <1>6
  <2>. QED  BY <2>1, <2>2, <2>3, <2>4
<1>10. \A i \in 0..(4 - 1) : ByteOf(w, i) = ByteOf(v, 4 - 1 - i)
  BY <1>7, <1>8, <1>9, Turned
<1>. QED  BY <1>8, <1>10 DEF w

LEMMA Swap64 ==
    ASSUME NEW v \in Word(64)
    PROVE  /\ SwapBytes64(v) \in Word(64)
           /\ \A i \in 0..7 : ByteOf(SwapBytes64(v), i) = ByteOf(v, 7 - i)
<1>. DEFINE w == SwapBytes64(v)
            p0 == ShiftLeft(v, 56, 64)
            p1 == ShiftLeft(v, 40, 64) \cap Bytes(6, 6)
            p2 == ShiftLeft(v, 24, 64) \cap Bytes(5, 5)
            p3 == ShiftLeft(v, 8, 64) \cap Bytes(4, 4)
            p4 == ShiftRight(v, 8) \cap Bytes(3, 3)
            p5 == ShiftRight(v, 24) \cap Bytes(2, 2)
            p6 == ShiftRight(v, 40) \cap Bytes(1, 1)
            p7 == ShiftRight(v, 56)
<1>1. v \in SUBSET Nat /\ \A x \in v : x < 64  BY WordBits
<1>2. w = p0 \cup p1 \cup p2 \cup p3 \cup p4 \cup p5 \cup p6 \cup p7  BY DEF SwapBytes64
<1>3. p0 \in SUBSET Nat /\ \A x \in Nat : x \in p0 <=>
          x < 64 /\ x >= 56 /\ x - 56 \in v
  BY <1>1, ShiftLeftBits
<1>4. p1 \in SUBSET Nat /\ \A x \in Nat : x \in p1 <=>
          x < 64 /\ x >= 40 /\ x - 40 \in v /\ x \in 48..55
  <2>1. Bytes(6, 6) = 48..55  BY DEF Bytes
  <2>. QED  BY <1>1, <2>1, ShiftLeftBits
<1>5. p2 \in SUBSET Nat /\ \A x \in Nat : x \in p2 <=>
          x < 64 /\ x >= 24 /\ x - 24 \in v /\ x \in 40..47
  <2>1. Bytes(5, 5) = 40..47  BY DEF Bytes
  <2>. QED  BY <1>1, <2>1, ShiftLeftBits
<1>6. p3 \in SUBSET Nat /\ \A x \in Nat : x \in p3 <=>
          x < 64 /\ x >= 8 /\ x - 8 \in v /\ x \in 32..39
  <2>1. Bytes(4, 4) = 32..39  BY DEF Bytes
  <2>. QED  BY <1>1, <2>1, ShiftLeftBits
<1>7. p4 \in SUBSET Nat /\ \A x \in Nat : x \in p4 <=>
          x + 8 \in v /\ x \in 24..31
  <2>1. Bytes(3, 3) = 24..31  BY DEF Bytes
  <2>. QED  BY <1>1, <2>1, ShiftRightBits
<1>8. p5 \in SUBSET Nat /\ \A x \in Nat : x \in p5 <=>
          x + 24 \in v /\ x \in 16..23
  <2>1. Bytes(2, 2) = 16..23  BY DEF Bytes
  <2>. QED  BY <1>1, <2>1, ShiftRightBits
<1>9. p6 \in SUBSET Nat /\ \A x \in Nat : x \in p6 <=>
          x + 40 \in v /\ x \in 8..15
  <2>1. Bytes(1, 1) = 8..15  BY DEF Bytes
  <2>. QED  BY <1>1, <2>1, ShiftRightBits
<1>10. p7 \in SUBSET Nat /\ \A x \in Nat : x \in p7 <=>
          x + 56 \in v
  BY <1>1, ShiftRightBits
<1>. HIDE DEF w, p0, p1, p2, p3, p4, p5, p6, p7
<1>11. w \in SUBSET Nat /\ \A x \in w : x < 64
  BY <1>1, <1>2, <1>3, <1>4, <1>5, <1>6, <1>7, <1>8, <1>9, <1>10
<1>12. w \in Word(8 * 8) /\ v \in Word(8 * 8) /\ 8 * 8 = 64
  BY <1>1, <1>11 DEF Word
<1>13. ASSUME NEW i \in 0..(8 - 1), NEW x \in 0..7
      PROVE  x + 8 * i \in w <=> x + 8 * (8 - 1 - i) \in v
  <2>1. CASE i = 0  BY <1>1, <1>2, <2>1, <1>3, <1>4, <1>5, <1>6, <1>7, <1>8, <1>9, <1>10
  <2>2. CASE i = 1  BY <1>1, <1>2, <2>2, <1>3, <1>4, <1>5, <1>6, <1>7, <1>8, <1>9, <1>10
  <2>3. CASE i = 2  BY <1>1, <1>2, <2>3, <1>3, <1>4, <1>5, <1>6, <1>7, <1>8, <1>9, <1>10
  <2>4. CASE i = 3  BY <1>1, <1>2, <2>4, <1>3, <1>4, <1>5, <1>6, <1>7, <1>8, <1>9, <1>10
  <2>5. CASE i = 4  BY <1>1, <1>2, <2>5, <1>3, <1>4, <1>5, <1>6, <1>7, <1>8, <1>9, <1>10
  <2>6. CASE i = 5  BY <1>1, <1>2, <2>6, <1>3, <1>4, <1>5, <1>6, <1>7, <1>8, <1>9, <1>10
  <2>7. CASE i = 6  BY <1>1, <1>2, <2>7, <1>3, <1>4, <1>5, <1>6, <1>7, <1>8, <1>9, <1>10
  <2>8. CASE i = 7  BY <1>1, <1>2, <2>8, <1>3, <1>4, <1>5, <1>6, <1>7, <1>8, <1>9, <1>10
  <2>. QED  BY <2>1, <2>2, <2>3, <2>4, <2>5, <2>6, <2>7, <2>8
<1>14. \A i \in 0..(8 - 1) : ByteOf(w, i) = ByteOf(v, 8 - 1 - i)
  BY <1>11, <1>12, <1>13, Turned
<1>. QED  BY <1>12, <1>14 DEF w

LEMMA SwapBytesTurns ==
    ASSUME NEW size \in Sizes, NEW v \in Word(8 * size)
    PROVE  /\ SwapBytes(v, size) \in Word(8 * size)
           /\ \A i \in 0..(size - 1) :
                 ByteOf(SwapBytes(v, size), i) = ByteOf(v, size - 1 - i)
<1>1. CASE size = 1
  BY <1>1 DEF SwapBytes
<1>2. CASE size = 2
  <2>1. 8 * size = 16 /\ size - 1 = 1 /\ SwapBytes(v, size) = SwapBytes16(v)
    BY <1>2 DEF SwapBytes
  <2>. QED  BY <2>1, Swap16
<1>3. CASE size = 4
  <2>1. 8 * size = 32 /\ size - 1 = 3 /\ SwapBytes(v, size) = SwapBytes32(v)
    BY <1>3 DEF SwapBytes
  <2>. QED  BY <2>1, Swap32
<1>4. CASE size = 8
  <2>1. 8 * size = 64 /\ size - 1 = 7 /\ SwapBytes(v, size) = SwapBytes64(v)
    BY <1>4 DEF SwapBytes
  <2>. QED  BY <2>1, Swap64
<1>. QED  BY <1>1, <1>2, <1>3, <1>4 DEF Sizes

-----------------------------------------------------------------------------
(* Primitives on the stream: Medium says where the bytes of a word lie,     *)
(* whatever the host.                                                       *)

Medium(v, size, i) == ByteOf(v, IF order = "little" THEN i ELSE size - 1 - i)
Orders == host \in Endiannesses /\ order \in Endiannesses

LEMMA PrimitiveOnMedium ==
    ASSUME Orders, NEW size \in Sizes, NEW v \in Word(8 * size)
    PROVE  /\ PrimitiveBytes(v, size) \in [0..(size - 1) -> Byte]
           /\ \A i \in 0..(size - 1) : PrimitiveBytes(v, size)[i] = Medium(v, size, i)
<1>. DEFINE w == SwapBytes(v, size)
<1>1. size \in Nat /\ v \in SUBSET Nat /\ w \in SUBSET Nat
  BY SwapBytesTurns, WordBits DEF Sizes
<1>2. \A i \in 0..(size - 1) : ByteOf(w, i) = ByteOf(v, size - 1 - i)
  BY SwapBytesTurns
<1>. HIDE DEF w
<1>3. ASSUME NEW i \in 0..(size - 1)
      PROVE  InMemory(Swapped(order, v, size), size, i) = Medium(v, size, i)
  <2>1. size - 1 - i \in 0..(size - 1) /\ size - 1 - (size - 1 - i) = i  BY <1>1
  <2>2. CASE order = host
    BY <2>2 DEF Swapped, InMemory, Medium
  <2>3. CASE order # host
    <3>1. Swapped(order, v, size) = w  BY <2>3 DEF Swapped, w
    <3>2. CASE host = "little"
      BY <1>2, <2>3, <3>1, <3>2 DEF InMemory, Medium
    <3>3. CASE host = "big"
      <4>1. order = "little"  BY <2>3, <3>3 DEF Orders, Endiannesses
      <4>2. InMemory(w, size, i) = ByteOf(w, size - 1 - i)  BY <3>3 DEF InMemory
      <4>3. ByteOf(w, size - 1 - i) = ByteOf(v, i)  BY <1>2, <2>1
      <4>. QED  BY <3>1, <4>1, <4>2, <4>3 DEF Medium
    <3>. QED  BY <3>2, <3>3 DEF Orders, Endiannesses
  <2>. QED  BY <2>2, <2>3
<1>4. \A i \in 0..(size - 1) : Medium(v, size, i) \in Byte
  BY <1>1, ByteOfBits DEF Medium
<1>. QED  BY <1>3, <1>4 DEF PrimitiveBytes

\* A primitive that lies on the stream is read as it was written by a reader of
\* the writer's endianness, and turned around by one of the other.
LEMMA PrimitiveRead ==
    ASSUME Orders, NEW size \in Sizes, NEW v \in Word(8 * size), NEW at \in Nat,
           \A i \in 0..(size - 1) : stream_data[at + i] = Medium(v, size, i)
    PROVE  /\ ValueRead(order, at, size) = v
           /\ \A e \in Endiannesses \ {order} : \A i \in 0..(size - 1) :
                 ByteOf(ValueRead(e, at, size), i) = ByteOf(v, size - 1 - i)
<1>. DEFINE data == [i \in 0..(size - 1) |-> DataRead(at, i)]
            turned == [i \in 0..(size - 1) |-> data[size - 1 - i]]
            w == FromMemory(data, size)
            s == SwapBytes(w, size)
<1>1. size \in Nat /\ v \in SUBSET Nat
  BY WordBits DEF Sizes
<1>2. \A i \in 0..(size - 1) : size - 1 - i \in 0..(size - 1) /\ size - 1 - (size - 1 - i) = i
  BY <1>1
<1>3. \A i \in 0..(size - 1) : data[i] = Medium(v, size, i)
  BY DEF DataRead
<1>4. \A i \in 0..(size - 1) : data[i] \in Byte
  BY <1>1, <1>3, ByteOfBits DEF Medium
<1>5. \A i \in 0..(size - 1) : turned[i] = data[size - 1 - i]
  OBVIOUS
<1>6. /\ w \in Word(8 * size)
      /\ \A i \in 0..(size - 1) :
            ByteOf(w, i) = IF host = "little" THEN data[i] ELSE data[size - 1 - i]
  <2>. HIDE DEF data, turned
  <2>1. CASE host = "little"
    BY <1>1, <1>4, <2>1, FromBytesBits DEF FromMemory
  <2>2. CASE host # "little"
    <3>1. w = FromBytes(turned, size)  BY <2>2 DEF FromMemory, turned
    <3>2. \A i \in 0..(size - 1) : turned[i] \in Byte  BY <1>2, <1>4, <1>5
    <3>. QED  BY <1>1, <1>5, <2>2, <3>1, <3>2, FromBytesBits
  <2>. QED  BY <2>1, <2>2
<1>. HIDE DEF data, turned, w
<1>7. s \in Word(8 * size) /\ \A i \in 0..(size - 1) : ByteOf(s, i) = ByteOf(w, size - 1 - i)
  BY <1>6, SwapBytesTurns
<1>8. \A e : ValueRead(e, at, size) = IF e # host THEN s ELSE w
  BY DEF ValueRead, Swapped, w, data
<1>. HIDE DEF s
<1>9. CASE order = host
  <2>1. \A i \in 0..(size - 1) : ByteOf(w, i) = ByteOf(v, i)
    BY <1>2, <1>3, <1>6, <1>9 DEF Medium
  <2>2. w = v  BY <1>1, <1>6, <2>1, SameBytes
  <2>. QED  BY <1>7, <1>8, <1>9, <2>2
<1>10. CASE order # host
  <2>1. \A i \in 0..(size - 1) : ByteOf(s, i) = ByteOf(v, i)
    <3>. SUFFICES ASSUME NEW i \in 0..(size - 1) PROVE ByteOf(s, i) = ByteOf(v, i)
      OBVIOUS
    <3>1. ByteOf(s, i) = ByteOf(w, size - 1 - i)  BY <1>7
    <3>2. ByteOf(w, size - 1 - i) = IF host = "little" THEN data[size - 1 - i] ELSE data[i]
      BY <1>2, <1>6
    <3>3. CASE host = "little"
      BY <1>2, <1>3, <1>10, <3>1, <3>2, <3>3 DEF Medium
    <3>4. CASE host # "little"
      BY <1>3, <1>10, <3>1, <3>2, <3>4 DEF Medium, Orders, Endiannesses
    <3>. QED  BY <3>3, <3>4
  <2>2. s = v  BY <1>1, <1>7, <2>1, SameBytes
  <2>3. \A i \in 0..(size - 1) : ByteOf(w, i) = ByteOf(v, size - 1 - i)
    BY <1>2, <1>7, <2>2
  <2>4. \A e \in Endiannesses \ {order} : e = host
    BY <1>10 DEF Orders, Endiannesses
  <2>. QED  BY <1>8, <1>10, <2>2, <2>3, <2>4
<1>. QED  BY <1>9, <1>10

-----------------------------------------------------------------------------
(* Handles.  mask gives one bit too many: a field is decoded with the       *)
(* lowest bit of what lies above it, which is put back when the decoded     *)
(* fields are encoded again.                                                *)

LEMMA MaskBits ==
    ASSUME NEW n \in 0..30
    PROVE  /\ Mask(n) \in SUBSET (0..30)
           /\ \A x \in Nat : x \in Mask(n) <=> n # 0 /\ x <= n
           /\ \A f \in Word(n) : f \in SUBSET Nat /\ f \cap Mask(n) = f
<1>1. ASSUME NEW f \in Word(n) PROVE f \in SUBSET Nat /\ f \cap Mask(n) = f
  <2>1. \A x \in f : x \in Nat /\ x < n  BY DEF Word
  <2>2. \A x \in f : n # 0 /\ x \in 0..n  BY <2>1
  <2>3. \A x \in f : x \in Mask(n)  BY <2>2 DEF Mask
  <2>. QED  BY <2>1, <2>3
<1>. QED  BY <1>1 DEF Mask

LEMMA FieldWidths ==
    /\ Age \in 0..30 /\ Scope \in 0..30 /\ Index \in 0..30
    /\ age_shift \in Nat /\ scope_shift \in Nat
    /\ age_shift = Index + Scope /\ scope_shift = Index /\ handle_type_shift = 56
    /\ age_shift + Age <= 56
    /\ Type \in SUBSET Nat /\ (\A x \in Type : x < 8) /\ Type \cap Bytes(0, 0) = Type
<1>1. Type \in SUBSET Nat /\ \A x \in Type : x < 8
  BY HandleAssumption DEF Byte, Word
<1>2. \A x \in Type : x \in Bytes(0, 0)  BY <1>1 DEF Bytes
<1>3. Type \cap Bytes(0, 0) = Type  BY <1>2
<1>4. /\ age_shift = Index + Scope /\ scope_shift = Index /\ handle_type_shift = 56
  BY HandleAssumption DEF age_shift, scope_shift, handle_type_shift
<1>. QED  BY <1>1, <1>3, <1>4, HandleAssumption

LEMMA EncodeBits ==
    ASSUME NEW age \in SUBSET Nat, NEW scope \in SUBSET Nat, NEW index \in SUBSET Nat
    PROVE  /\ encode(age, scope, index) \in SUBSET Nat
           /\ \A x \in Nat : x \in encode(age, scope, index) <=>
                 \/ x < 64 /\ x >= 56 /\ x - 56 \in Type
                 \/ /\ x < 64 /\ x >= Index + Scope
                    /\ x - (Index + Scope) \in age /\ x - (Index + Scope) \in Mask(Age)
                 \/ x < 64 /\ x >= Index /\ x - Index \in scope /\ x - Index \in Mask(Scope)
                 \/ x \in index /\ x \in Mask(Index)
<1>. DEFINE t == ShiftLeft(Type \cap Bytes(0, 0), handle_type_shift, 64)
            a == ShiftLeft(age \cap Mask(Age), age_shift, 64)
            s == ShiftLeft(scope \cap Mask(Scope), scope_shift, 64)
            i == index \cap Mask(Index)
<1>1. encode(age, scope, index) = t \cup a \cup s \cup i  BY DEF encode
<1>2. /\ age \cap Mask(Age) \in SUBSET Nat /\ scope \cap Mask(Scope) \in SUBSET Nat
      /\ i \in SUBSET Nat
  OBVIOUS
<1>3. t \in SUBSET Nat /\ \A x \in Nat : x \in t <=> x < 64 /\ x >= 56 /\ x - 56 \in Type
  <2>1. t = ShiftLeft(Type, 56, 64) /\ Type \in SUBSET Nat  BY FieldWidths
  <2>. HIDE DEF t
  <2>. QED  BY <2>1, ShiftLeftBits
<1>4. /\ a \in SUBSET Nat
      /\ \A x \in Nat : x \in a <=> /\ x < 64 /\ x >= Index + Scope
                                    /\ x - (Index + Scope) \in age \cap Mask(Age)
  BY <1>2, FieldWidths, ShiftLeftBits
<1>5. /\ s \in SUBSET Nat
      /\ \A x \in Nat : x \in s <=> /\ x < 64 /\ x >= Index
                                    /\ x - Index \in scope \cap Mask(Scope)
  BY <1>2, FieldWidths, ShiftLeftBits
<1>. HIDE DEF t, a, s
<1>. QED  BY <1>1, <1>2, <1>3, <1>4, <1>5

LEMMA DecodeBits ==
    ASSUME NEW handle \in SUBSET Nat
    PROVE  /\ decode_age(handle) \in Word(32) /\ decode_scope(handle) \in Word(32)
           /\ decode_index(handle) \in Word(32)
           /\ \A x \in Nat :
                 /\ x \in decode_age(handle) <=> x + (Index + Scope) \in handle /\ x \in Mask(Age)
                 /\ x \in decode_scope(handle) <=> x + Index \in handle /\ x \in Mask(Scope)
                 /\ x \in decode_index(handle) <=> x \in handle /\ x \in Mask(Index)
<1>1. /\ Mask(Age) \subseteq 0..(32 - 1) /\ Mask(Scope) \subseteq 0..(32 - 1)
      /\ Mask(Index) \subseteq 0..(32 - 1)
  BY FieldWidths, MaskBits
<1>2. /\ decode_age(handle) \in Word(32) /\ decode_scope(handle) \in Word(32)
      /\ decode_index(handle) \in Word(32)
  BY <1>1 DEF decode_age, decode_scope, decode_index, Word
<1>. QED  BY <1>2, FieldWidths, ShiftRightBits DEF decode_age, decode_scope, decode_index

LEMMA Encoded ==
    ASSUME NEW f \in Word(Age) \X Word(Scope) \X Word(Index)
    PROVE  encode(f[1], f[2], f[3]) \in SUBSET Nat
<1>1. f[1] \in SUBSET Nat /\ f[2] \in SUBSET Nat /\ f[3] \in SUBSET Nat
  BY FieldWidths, WordBits
<1>. QED  BY <1>1, EncodeBits

\* The fields that were encoded are found again, among the bits a field has.
LEMMA FieldsDecoded ==
    ASSUME NEW f \in Word(Age) \X Word(Scope) \X Word(Index)
    PROVE  LET handle == encode(f[1], f[2], f[3])
           IN  /\ is_type(handle)
               /\ decode_age(handle) \cap 0..(Age - 1) = f[1]
               /\ decode_scope(handle) \cap 0..(Scope - 1) = f[2]
               /\ decode_index(handle) \cap 0..(Index - 1) = f[3]
               /\ encode(decode_age(handle), decode_scope(handle), decode_index(handle))
                      = handle
<1>. DEFINE age == f[1]
            scope == f[2]
            index == f[3]
            handle == encode(age, scope, index)
<1>1. /\ age \in SUBSET Nat /\ scope \in SUBSET Nat /\ index \in SUBSET Nat
      /\ \A x \in age : x < Age /\ x \in Mask(Age)
      /\ \A x \in scope : x < Scope /\ x \in Mask(Scope)
      /\ \A x \in index : x < Index /\ x \in Mask(Index)
  BY FieldWidths, WordBits, MaskBits
<1>2. /\ handle \in SUBSET Nat
      /\ \A x \in Nat : x \in handle <=>
            \/ x >= 56 /\ x - 56 \in Type
            \/ x >= Index + Scope /\ x - (Index + Scope) \in age
            \/ x >= Index /\ x - Index \in scope
            \/ x \in index
  BY <1>1, EncodeBits, FieldWidths
<1>. HIDE DEF age, scope, index, handle
<1>3. is_type(handle)
  <2>1. \A x \in Nat : x \in ShiftRight(handle, 56) <=> x + 56 \in handle
    BY <1>2, ShiftRightBits
  <2>2. ShiftRight(handle, 56) \in SUBSET Nat  BY <1>2, ShiftRightBits
  <2>3. \A x \in Nat : x + 56 \in handle <=> x \in Type
    BY <1>1, <1>2, FieldWidths
  <2>4. ShiftRight(handle, 56) = Type  BY <2>1, <2>2, <2>3, FieldWidths
  <2>. QED  BY <2>4, FieldWidths DEF is_type
<1>4. decode_age(handle) \cap 0..(Age - 1) = age
  <2>1. \A x \in 0..(Age - 1) : x + (Index + Scope) \in handle <=> x \in age
    BY <1>1, <1>2, FieldWidths
  <2>2. \A x \in 0..(Age - 1) : x \in Mask(Age)  BY FieldWidths, MaskBits
  <2>3. \A x \in 0..(Age - 1) : x \in decode_age(handle) <=> x \in age
    BY <1>2, <2>1, <2>2, DecodeBits
  <2>4. age \subseteq 0..(Age - 1)  BY <1>1, FieldWidths
  <2>. QED  BY <2>3, <2>4
<1>5. decode_scope(handle) \cap 0..(Scope - 1) = scope
  <2>1. \A x \in 0..(Scope - 1) : x + Index \in handle <=> x \in scope
    BY <1>1, <1>2, FieldWidths
  <2>2. \A x \in 0..(Scope - 1) : x \in Mask(Scope)  BY FieldWidths, MaskBits
  <2>3. \A x \in 0..(Scope - 1) : x \in decode_scope(handle) <=> x \in scope
    BY <1>2, <2>1, <2>2, DecodeBits
  <2>4. scope \subseteq 0..(Scope - 1)  BY <1>1, FieldWidths
  <2>. QED  BY <2>3, <2>4
<1>6. decode_index(handle) \cap 0..(Index - 1) = index
  <2>1. \A x \in 0..(Index - 1) : x \in handle <=> x \in index
    BY <1>1, <1>2, FieldWidths
  <2>2. \A x \in 0..(Index - 1) : x \in Mask(Index)  BY FieldWidths, MaskBits
  <2>3. \A x \in 0..(Index - 1) : x \in decode_index(handle) <=> x \in index
    BY <1>2, <2>1, <2>2, DecodeBits
  <2>4. index \subseteq 0..(Index - 1)  BY <1>1, FieldWidths
  <2>. QED  BY <2>3, <2>4
<1>7. encode(decode_age(handle), decode_scope(handle), decode_index(handle)) = handle
  <2>. DEFINE again == encode(decode_age(handle), decode_scope(handle), decode_index(handle))
  <2>1. /\ decode_age(handle) \in SUBSET Nat /\ decode_scope(handle) \in SUBSET Nat
        /\ decode_index(handle) \in SUBSET Nat
    BY <1>2, DecodeBits, WordBits
  <2>2. /\ again \in SUBSET Nat
        /\ \A x \in Nat : x \in again <=>
              \/ x < 64 /\ x >= 56 /\ x - 56 \in Type
              \/ /\ x < 64 /\ x >= Index + Scope
                 /\ x - (Index + Scope) \in decode_age(handle)
                 /\ x - (Index + Scope) \in Mask(Age)
              \/ x < 64 /\ x >= Index /\ x - Index \in decode_scope(handle)
                 /\ x - Index \in Mask(Scope)
              \/ x \in decode_index(handle) /\ x \in Mask(Index)
    BY <2>1, EncodeBits
  <2>. HIDE DEF again
  <2>3. ASSUME NEW x \in Nat, x \in again PROVE x \in handle
    <3>1. CASE x >= 56 /\ x - 56 \in Type  BY <1>2, <3>1
    <3>2. CASE x >= Index + Scope /\ x - (Index + Scope) \in decode_age(handle)
      <4>1. x - (Index + Scope) \in Nat  BY <3>2, FieldWidths
      <4>2. x - (Index + Scope) + (Index + Scope) \in handle
        BY <1>2, <3>2, <4>1, DecodeBits
      <4>. QED  BY <4>2, FieldWidths
    <3>3. CASE x >= Index /\ x - Index \in decode_scope(handle)
      <4>1. x - Index \in Nat  BY <3>3, FieldWidths
      <4>2. x - Index + Index \in handle  BY <1>2, <3>3, <4>1, DecodeBits
      <4>. QED  BY <4>2, FieldWidths
    <3>4. CASE x \in decode_index(handle)  BY <1>2, <3>4, DecodeBits
    <3>. QED  BY <2>2, <2>3, <3>1, <3>2, <3>3, <3>4
  <2>4. ASSUME NEW x \in Nat, x \in handle PROVE x \in again
    <3>1. CASE x >= 56 /\ x - 56 \in Type  BY <2>2, <3>1, FieldWidths
    <3>2. CASE x >= Index + Scope /\ x - (Index + Scope) \in age
      <4>1. x - (Index + Scope) \in Nat /\ x < 64  BY <1>1, <3>2, FieldWidths
      <4>2. x - (Index + Scope) + (Index + Scope) = x  BY FieldWidths
      <4>3. x - (Index + Scope) \in decode_age(handle)
        BY <1>1, <1>2, <2>4, <3>2, <4>1, <4>2, DecodeBits
      <4>. QED  BY <1>1, <2>2, <3>2, <4>1, <4>3
    <3>3. CASE x >= Index /\ x - Index \in scope
      <4>1. x - Index \in Nat /\ x < 64  BY <1>1, <3>3, FieldWidths
      <4>2. x - Index + Index = x  BY FieldWidths
      <4>3. x - Index \in decode_scope(handle)
        BY <1>1, <1>2, <2>4, <3>3, <4>1, <4>2, DecodeBits
      <4>. QED  BY <1>1, <2>2, <3>3, <4>1, <4>3
    <3>4. CASE x \in index
      BY <1>1, <1>2, <2>2, <2>4, <3>4, DecodeBits
    <3>. QED  BY <1>2, <2>4, <3>1, <3>2, <3>3, <3>4
  <2>5. again = handle  BY <1>2, <2>2, <2>3, <2>4
  <2>. QED  BY <2>5 DEF again
<1>. QED  BY <1>3, <1>4, <1>5, <1>6, <1>7 DEF handle, age, scope, index

-----------------------------------------------------------------------------
(* The invariant: the bytes of everything in stored are on the stream.      *)

\* What was written for a record, and which records there can be.
DataOf(r) ==
    IF r.kind = "primitive" THEN PrimitiveBytes(r.value, r.size)
    ELSE HandleBytes(HandleOf(r))

Recorded(r) ==
    /\ r.at \in Nat /\ r.at + r.size <= Length
    /\ \/ r.kind = "primitive" /\ r.size \in Sizes /\ r.value \in Word(8 * r.size)
       \/ r.kind = "handle" /\ r.size = HandleSize /\ r.value \in Fields

OnStream(r) == \A i \in 0..(r.size - 1) : stream_data[r.at + i] = DataOf(r)[i]

Inv ==
    /\ StreamTypeOK /\ Orders /\ writes \in 0..MaxWrites
    /\ \A r \in stored : Recorded(r) /\ OnStream(r)

LEMMA InvTypeOK == Inv => TypeOK
BY LengthAssumption DEF Inv, TypeOK, Recorded, Orders, Positions, Sizes, HandleSize

LEMMA InitInv == Init => Inv
<1>. SUFFICES ASSUME Init PROVE Inv  OBVIOUS
<1>1. {} \in Byte  BY DEF Byte, Word
<1>2. StreamTypeOK
  BY <1>1, LengthAssumption DEF Init, StreamInit, StreamTypeOK, Positions
<1>. QED  BY <1>2, ValuesAssumption DEF Init, Inv, Orders

LEMMA HandleBytesType ==
    ASSUME Orders, NEW handle \in SUBSET Nat
    PROVE  HandleBytes(handle) \in [0..(HandleSize - 1) -> Byte]
<1>1. \A k \in 0..3 : DecodedField(handle, k) \in Word(32)
  <2>1. Type \in Word(32)  BY HandleAssumption DEF Byte, Word
  <2>. QED  BY <2>1, DecodeBits DEF DecodedField
<1>2. \A k \in 0..3 : PrimitiveBytes(DecodedField(handle, k), 4) \in [0..3 -> Byte]
  <2>. SUFFICES ASSUME NEW k \in 0..3
                PROVE  PrimitiveBytes(DecodedField(handle, k), 4) \in [0..3 -> Byte]
    OBVIOUS
  <2>1. 8 * 4 = 32 /\ 4 - 1 = 3 /\ 4 \in Sizes  BY DEF Sizes
  <2>. QED  BY <1>1, <2>1, PrimitiveOnMedium
<1>3. \A i \in 0..(HandleSize - 1) : i \div 4 \in 0..3 /\ i % 4 \in 0..3
  BY DEF HandleSize
<1>. QED  BY <1>2, <1>3 DEF HandleBytes

\* The bytes of a record are bytes.
LEMMA DataOfType ==
    ASSUME Orders, NEW r, Recorded(r)
    PROVE  DataOf(r) \in [0..(r.size - 1) -> Byte]
<1>1. CASE r.kind = "primitive"
  BY <1>1, PrimitiveOnMedium DEF Recorded, DataOf
<1>2. CASE r.kind # "primitive"
  <2>1. r.value \in Word(Age) \X Word(Scope) \X Word(Index) /\ r.size = HandleSize
    BY <1>2, FieldsAssumption DEF Recorded
  <2>2. HandleOf(r) \in SUBSET Nat
    BY <2>1, Encoded DEF HandleOf
  <2>. QED  BY <1>2, <2>1, <2>2, HandleBytesType DEF DataOf
<1>. QED  BY <1>1, <1>2

\* What can be transferred ends in the stream.
LEMMA TransferredFits ==
    ASSUME StreamTypeOK, NEW count \in Nat
    PROVE  /\ BytesRead(count) \in Nat /\ BytesWritten(count) \in Nat
           /\ current_position + BytesRead(count) \in Positions
           /\ current_position + BytesWritten(count) \in Positions
           /\ BytesWritten(count) <= count
BY LengthAssumption
   DEF StreamTypeOK, BytesRead, BytesWritten, Transferred, Least, Positions

\* A write leaves what it keeps, and what it wrote in full is there.
LEMMA WriteKeeps ==
    ASSUME Inv, NEW kind, NEW value, NEW size \in Nat, NEW data \in [0..(size - 1) -> Byte],
           Write(kind, value, data, size),
           size > 0,
           LET r == Record(current_position, kind, size, value)
           IN  BytesWritten(size) = size => Recorded(r) /\ DataOf(r) = data
    PROVE  Inv'
<1>. DEFINE n == BytesWritten(size)
            new == Record(current_position, kind, size, value)
<1>1. /\ n \in Nat /\ n <= size /\ current_position \in Nat /\ Length \in Nat
      /\ current_position + n \in Positions /\ current_position + n <= Length
  BY TransferredFits, LengthAssumption DEF Inv, StreamTypeOK, Positions
<1>2. stream_data' = DataWritten(data, n) /\ current_position' = current_position + n
      /\ UNCHANGED <<is_readable, is_writable, host, order>>
      /\ writes < MaxWrites /\ writes' = writes + 1
      /\ stored' = Kept(n) \cup (IF n = size THEN {new} ELSE {})
  BY DEF Write, WriteBytes
<1>. HIDE DEF n
<1>3. \A p \in 0..(Length - 1) :
          stream_data'[p] = IF p \in current_position..(current_position + n - 1)
                            THEN data[p - current_position] ELSE stream_data[p]
  BY <1>2 DEF DataWritten
<1>4. StreamTypeOK'
  <2>1. \A p \in 0..(Length - 1) :
            IF p \in current_position..(current_position + n - 1)
            THEN data[p - current_position] \in Byte ELSE stream_data[p] \in Byte
    BY <1>1 DEF Inv, StreamTypeOK
  <2>2. stream_data' \in [0..(Length - 1) -> Byte]  BY <1>2, <2>1 DEF DataWritten
  <2>. QED  BY <1>1, <1>2, <2>2 DEF Inv, StreamTypeOK
<1>5. Orders' /\ writes' \in 0..MaxWrites
  BY <1>2, ValuesAssumption DEF Inv, Orders
<1>6. \A r : DataOf(r)' = DataOf(r)
  BY <1>2 DEF DataOf, PrimitiveBytes, HandleBytes, InMemory, Swapped
<1>7. ASSUME NEW r \in stored' PROVE Recorded(r) /\ OnStream(r)'
  <2>1. CASE r \in Kept(n)
    <3>1. /\ r \in stored /\ Recorded(r) /\ OnStream(r)
          /\ r.at + r.size <= current_position \/ current_position + n <= r.at
      BY <2>1 DEF Kept, Inv
    <3>2. r.at \in Nat /\ r.size \in Nat /\ r.at + r.size <= Length
      BY <3>1 DEF Recorded, Sizes, HandleSize
    <3>3. ASSUME NEW i \in 0..(r.size - 1) PROVE stream_data'[r.at + i] = stream_data[r.at + i]
      <4>. DEFINE at == r.at
                  last == r.at + r.size
      <4>1. /\ at \in Nat /\ last \in Nat /\ last <= Length
            /\ last <= current_position \/ current_position + n <= at
        BY <3>1, <3>2
      <4>2. i \in Nat /\ at + i < last  BY <3>2
      <4>. HIDE DEF at, last
      <4>3. /\ at + i \in 0..(Length - 1)
            /\ at + i \notin current_position..(current_position + n - 1)
        BY <1>1, <4>1, <4>2
      <4>. QED  BY <1>3, <4>3 DEF at
    <3>. QED  BY <1>6, <3>1, <3>3 DEF OnStream
  <2>2. CASE r \notin Kept(n)
    <3>1. n = size /\ r = new  BY <1>2, <2>2
    <3>2. Recorded(r) /\ DataOf(r) = data /\ r.at = current_position /\ r.size = size
      BY <3>1 DEF n, Record
    <3>3. ASSUME NEW i \in 0..(size - 1) PROVE stream_data'[r.at + i] = data[i]
      <4>. DEFINE p == r.at + i
      <4>1. /\ p \in 0..(Length - 1)
            /\ p \in current_position..(current_position + n - 1)
            /\ p - current_position = i
        BY <1>1, <3>1, <3>2
      <4>. HIDE DEF p
      <4>2. stream_data'[p] = data[p - current_position]
        BY <1>3, <4>1
      <4>3. stream_data'[p] = data[i]  BY <4>1, <4>2
      <4>. QED  BY <4>3 DEF p
    <3>. QED  BY <1>6, <3>2, <3>3 DEF OnStream
  <2>. QED  BY <2>1, <2>2
<1>8. \A r : Recorded(r)' = Recorded(r)  BY DEF Recorded
<1>. QED  BY <1>4, <1>5, <1>7, <1>8 DEF Inv

\* A step that leaves the bytes and what is known of them leaves the invariant.
LEMMA Moved ==
    ASSUME Inv, current_position' \in Positions,
           UNCHANGED <<stream_data, is_readable, is_writable, host, order, writes, stored>>
    PROVE  Inv'
<1>1. StreamTypeOK' /\ Orders' /\ writes' \in 0..MaxWrites
  BY DEF Inv, StreamTypeOK, Orders
<1>2. \A r \in stored : Recorded(r)' = Recorded(r) /\ OnStream(r)' = OnStream(r)
  BY DEF Recorded, OnStream, DataOf, PrimitiveBytes, HandleBytes, InMemory, Swapped
<1>. QED  BY <1>1, <1>2 DEF Inv

LEMMA NextInv == Inv /\ [Next]_vars => Inv'
<1>. SUFFICES ASSUME Inv, [Next]_vars PROVE Inv'  OBVIOUS
<1>0. /\ Length \in Nat /\ Orders /\ StreamTypeOK
      /\ current_position \in Nat /\ current_position <= Length
  BY LengthAssumption DEF Inv, StreamTypeOK, Positions
<1>1. ASSUME NEW size \in Sizes, NEW v \in Values[size], WritePrimitive(v, size)
      PROVE  Inv'
  <2>1. size \in Nat /\ size > 0 /\ v \in Word(8 * size)
    BY ValuesAssumption DEF Sizes
  <2>2. PrimitiveBytes(v, size) \in [0..(size - 1) -> Byte]
    BY <1>0, <2>1, PrimitiveOnMedium
  <2>3. LET r == Record(current_position, "primitive", size, v)
        IN  BytesWritten(size) = size =>
                Recorded(r) /\ DataOf(r) = PrimitiveBytes(v, size)
    BY <1>0, <2>1, TransferredFits DEF Record, Recorded, DataOf, Positions
  <2>4. Write("primitive", v, PrimitiveBytes(v, size), size)
    BY <1>1 DEF WritePrimitive
  <2>. QED  BY <2>1, <2>2, <2>3, <2>4, WriteKeeps
<1>2. ASSUME NEW f \in Fields, WriteHandle(f) PROVE Inv'
  <2>. DEFINE handle == encode(f[1], f[2], f[3])
              r == Record(current_position, "handle", HandleSize, f)
  <2>1. f \in Word(Age) \X Word(Scope) \X Word(Index)  BY FieldsAssumption
  <2>2. handle \in SUBSET Nat  BY <2>1, Encoded
  <2>3. HandleBytes(handle) \in [0..(HandleSize - 1) -> Byte]
    BY <1>0, <2>2, HandleBytesType
  <2>4. HandleSize \in Nat /\ HandleSize > 0  BY DEF HandleSize
  <2>5. BytesWritten(HandleSize) = HandleSize =>
            Recorded(r) /\ DataOf(r) = HandleBytes(handle)
    BY <1>0, <2>4, TransferredFits
       DEF Record, Recorded, DataOf, HandleOf, Positions
  <2>6. Write("handle", f, HandleBytes(handle), HandleSize)
    BY <1>2 DEF WriteHandle
  <2>. QED  BY <2>3, <2>4, <2>5, <2>6, WriteKeeps
<1>3. ASSUME NEW size \in Sizes \cup {HandleSize}, Read(size) PROVE Inv'
  <2>1. size \in Nat  BY DEF Sizes, HandleSize
  <2>. QED  BY <1>0, <1>3, <2>1, TransferredFits, Moved DEF Read, ReadBytes
<1>4. ASSUME NEW offset \in Offsets,
             NEW flags \in {"absolute", "forward_relative", "backward_relative", "end"},
             Seek(offset, flags)
      PROVE  Inv'
  <2>1. offset \in Nat /\ Modulus \in Nat \ {0}
    BY ValuesAssumption, LengthAssumption
  <2>2. \A p \in NewPositions(offset, flags) : p \in Nat
    BY <1>0, <2>1 DEF NewPositions
  <2>3. \A p \in Nat : ClampedPosition(p) \in Positions
    BY <1>0 DEF ClampedPosition, Positions
  <2>. QED  BY <1>4, <2>2, <2>3, Moved DEF Seek, seek
<1>5. CASE ReadAll
  <2>1. Length + 1 \in Nat  BY <1>0
  <2>. QED  BY <1>0, <1>5, <2>1, TransferredFits, Moved DEF ReadAll, ReadBytes
<1>6. CASE WriteOver
  <2>. DEFINE size == Length + 1
              data == [i \in 0..Length |-> Bytes(0, 0)]
              value == {}
  <2>1. size \in Nat /\ size > 0 /\ size - 1 = Length  BY <1>0
  <2>2. data \in [0..(size - 1) -> Byte]
    <3>1. Bytes(0, 0) \in Byte  BY DEF Bytes, Byte, Word
    <3>. QED  BY <2>1, <3>1
  <2>3. BytesWritten(size) # size
    BY <1>0, <2>1 DEF BytesWritten, Transferred, Least
  <2>4. Write("primitive", value, data, size)
    BY <1>6, <2>3 DEF WriteOver, Write
  <2>. HIDE DEF size, data, value
  <2>. QED  BY <2>1, <2>2, <2>3, <2>4, WriteKeeps
<1>7. CASE UNCHANGED vars
  <2>1. current_position' \in Positions  BY <1>0, <1>7 DEF vars, streamVars, Positions
  <2>. QED  BY <1>7, <2>1, Moved DEF vars, streamVars
<1>. QED  BY <1>1, <1>2, <1>3, <1>4, <1>5, <1>6, <1>7 DEF Next

(* The bytes of all that is stored are on the stream.                       *)
THEOREM InvHolds == Spec => []Inv
BY InitInv, NextInv, PTL DEF Spec

(* The position stays in the stream, its bytes are bytes, and what is known *)
(* to be stored lies in it.                                                 *)
THEOREM TypeOKHolds == Spec => []TypeOK
BY InvHolds, InvTypeOK, PTL

-----------------------------------------------------------------------------
(* What the bytes say.                                                      *)

LEMMA InvMediumOrder == Inv => MediumOrder
<1>. SUFFICES ASSUME Inv, NEW r \in Primitives, NEW i \in 0..(r.size - 1)
              PROVE  stream_data[r.at + i] =
                         ByteOf(r.value, IF order = "little" THEN i ELSE r.size - 1 - i)
  BY DEF MediumOrder
<1>1. /\ Orders /\ Recorded(r) /\ OnStream(r) /\ r.kind = "primitive"
      /\ r.size \in Sizes /\ r.value \in Word(8 * r.size)
  BY DEF Inv, Primitives, Recorded
<1>2. stream_data[r.at + i] = PrimitiveBytes(r.value, r.size)[i]
  BY <1>1 DEF OnStream, DataOf
<1>3. PrimitiveBytes(r.value, r.size)[i] = Medium(r.value, r.size, i)
  BY <1>1, PrimitiveOnMedium
<1>. QED  BY <1>2, <1>3 DEF Medium

LEMMA InvReadBack == Inv => ReadBack
<1>. SUFFICES ASSUME Inv, NEW r \in Primitives
              PROVE  /\ ValueRead(order, r.at, r.size) = r.value
                     /\ \A e \in Endiannesses \ {order} : \A i \in 0..(r.size - 1) :
                           ByteOf(ValueRead(e, r.at, r.size), i) =
                               ByteOf(r.value, r.size - 1 - i)
  BY DEF ReadBack
<1>1. /\ Orders /\ Recorded(r) /\ r.at \in Nat
      /\ r.size \in Sizes /\ r.value \in Word(8 * r.size)
  BY DEF Inv, Primitives, Recorded
<1>2. \A i \in 0..(r.size - 1) : stream_data[r.at + i] = Medium(r.value, r.size, i)
  BY InvMediumOrder DEF MediumOrder, Medium
<1>. QED  BY <1>1, <1>2, PrimitiveRead

LEMMA InvHandleReadBack == Inv => HandleReadBack
<1>. SUFFICES ASSUME Inv, NEW r \in Handles
              PROVE  LET handle == HandleOf(r)
                     IN  /\ HandleRead(order, r.at) = {handle}
                         /\ is_type(handle)
                         /\ decode_age(handle) \cap 0..(Age - 1) = r.value[1]
                         /\ decode_scope(handle) \cap 0..(Scope - 1) = r.value[2]
                         /\ decode_index(handle) \cap 0..(Index - 1) = r.value[3]
  BY DEF HandleReadBack
<1>. DEFINE handle == HandleOf(r)
<1>1. /\ Orders /\ Recorded(r) /\ OnStream(r) /\ r.kind = "handle" /\ r.at \in Nat
      /\ r.size = HandleSize /\ r.value \in Word(Age) \X Word(Scope) \X Word(Index)
  BY FieldsAssumption DEF Inv, Handles, Recorded
<1>2. handle \in SUBSET Nat
  BY <1>1, Encoded DEF HandleOf
<1>3. \A i \in 0..15 : stream_data[r.at + i] = HandleBytes(handle)[i]
  BY <1>1 DEF OnStream, DataOf, HandleSize
<1>. HIDE DEF handle
<1>4. ASSUME NEW k \in 0..3 PROVE FieldRead(order, r.at, k) = DecodedField(handle, k)
  <2>1. DecodedField(handle, k) \in Word(8 * 4) /\ 4 \in Sizes
    <3>1. Type \in Word(32)  BY HandleAssumption DEF Byte, Word
    <3>. QED  BY <1>2, <3>1, DecodeBits DEF DecodedField, Sizes
  <2>2. r.at + 4 * k \in Nat  BY <1>1
  <2>3. ASSUME NEW i \in 0..(4 - 1)
        PROVE  stream_data[r.at + 4 * k + i] = Medium(DecodedField(handle, k), 4, i)
    <3>1. 4 * k + i \in 0..15 /\ (4 * k + i) \div 4 = k /\ (4 * k + i) % 4 = i
      OBVIOUS
    <3>2. r.at + 4 * k + i = r.at + (4 * k + i)  BY <1>1
    <3>3. HandleBytes(handle)[4 * k + i] = PrimitiveBytes(DecodedField(handle, k), 4)[i]
      BY <3>1 DEF HandleBytes, HandleSize
    <3>. QED  BY <1>1, <1>3, <2>1, <3>1, <3>2, <3>3, PrimitiveOnMedium
  <2>. QED  BY <1>1, <2>1, <2>2, <2>3, PrimitiveRead DEF FieldRead
<1>5. /\ FieldRead(order, r.at, 0) = Type
      /\ FieldRead(order, r.at, 1) = decode_age(handle)
      /\ FieldRead(order, r.at, 2) = decode_scope(handle)
      /\ FieldRead(order, r.at, 3) = decode_index(handle)
  BY <1>4 DEF DecodedField
<1>6. handle = encode(r.value[1], r.value[2], r.value[3])  BY DEF handle, HandleOf
<1>7. encode(decode_age(handle), decode_scope(handle), decode_index(handle)) = handle
  BY <1>1, <1>6, FieldsDecoded
<1>8. HandleRead(order, r.at) = {handle}  BY <1>5, <1>7 DEF HandleRead
<1>. QED  BY <1>1, <1>6, <1>8, FieldsDecoded DEF handle

(* What is on the stream does not depend on the machine that wrote it.      *)
THEOREM MediumOrderHolds == Spec => []MediumOrder
BY InvHolds, InvMediumOrder, PTL

(* A reader of the writer's endianness finds what was written, and one of   *)
(* the other its bytes in the opposite order.                               *)
THEOREM ReadBackHolds == Spec => []ReadBack
BY InvHolds, InvReadBack, PTL

(* A handle comes back as it was written, with the fields it was made of.   *)
THEOREM HandleReadBackHolds == Spec => []HandleReadBack
BY InvHolds, InvHandleReadBack, PTL

-----------------------------------------------------------------------------
(***************************************************************************)
(* Sequences put together: which characters are in the text, and where.     *)
(***************************************************************************)
Occurs(c, s) == \E i \in DOMAIN s : s[i] = c

\* Where the characters of two pieces are in the text they make.
LEMMA Joined ==
    ASSUME NEW S, NEW s \in Seq(S), NEW t \in Seq(S)
    PROVE  /\ s \o t \in Seq(S) /\ Len(s \o t) = Len(s) + Len(t)
           /\ \A i \in 1..Len(s) : (s \o t)[i] = s[i]
           /\ \A i \in 1..Len(t) : (s \o t)[Len(s) + i] = t[i]
<1>1. Len(s) \in Nat /\ Len(t) \in Nat  OBVIOUS
<1>2. /\ s \o t \in Seq(S) /\ Len(s \o t) = Len(s) + Len(t)
      /\ \A i \in 1..(Len(s) + Len(t)) :
            (s \o t)[i] = IF i <= Len(s) THEN s[i] ELSE t[i - Len(s)]
  BY ConcatProperties
<1>3. ASSUME NEW i \in 1..Len(s) PROVE (s \o t)[i] = s[i]
  <2>1. i \in 1..(Len(s) + Len(t)) /\ i <= Len(s)  BY <1>1
  <2>. QED  BY <1>2, <2>1
<1>4. ASSUME NEW i \in 1..Len(t) PROVE (s \o t)[Len(s) + i] = t[i]
  <2>. DEFINE j == Len(s) + i
  <2>1. j \in 1..(Len(s) + Len(t)) /\ ~(j <= Len(s)) /\ j - Len(s) = i  BY <1>1
  <2>. HIDE DEF j
  <2>2. (s \o t)[j] = t[i]  BY <1>2, <2>1
  <2>. QED  BY <2>2 DEF j
<1>. QED  BY <1>2, <1>3, <1>4

LEMMA JoinedRight ==
    ASSUME NEW S, NEW s \in Seq(S), NEW t \in Seq(S)
    PROVE  \A i \in 1..Len(t) : (s \o t)[Len(s) + i] = t[i]
BY Joined

\* What occurs in a text made of two pieces occurs in one of them.
LEMMA OccursJoined ==
    ASSUME NEW S, NEW s \in Seq(S), NEW t \in Seq(S), NEW c
    PROVE  Occurs(c, s \o t) <=> Occurs(c, s) \/ Occurs(c, t)
<1>1. Len(s) \in Nat /\ Len(t) \in Nat /\ DOMAIN s = 1..Len(s) /\ DOMAIN t = 1..Len(t)
  OBVIOUS
<1>2. /\ s \o t \in Seq(S) /\ DOMAIN (s \o t) = 1..(Len(s) + Len(t))
      /\ \A i \in 1..Len(s) : (s \o t)[i] = s[i]
      /\ \A i \in 1..Len(t) : (s \o t)[Len(s) + i] = t[i]
  BY Joined
<1>3. ASSUME Occurs(c, s) PROVE Occurs(c, s \o t)
  <2>1. PICK i \in 1..Len(s) : s[i] = c  BY <1>1, <1>3 DEF Occurs
  <2>2. i \in 1..(Len(s) + Len(t))  BY <1>1
  <2>. QED  BY <1>2, <2>1, <2>2 DEF Occurs
<1>4. ASSUME Occurs(c, t) PROVE Occurs(c, s \o t)
  <2>1. PICK i \in 1..Len(t) : t[i] = c  BY <1>1, <1>4 DEF Occurs
  <2>2. Len(s) + i \in 1..(Len(s) + Len(t))  BY <1>1
  <2>. QED  BY <1>2, <2>1, <2>2 DEF Occurs
<1>5. ASSUME Occurs(c, s \o t) PROVE Occurs(c, s) \/ Occurs(c, t)
  <2>1. PICK i \in 1..(Len(s) + Len(t)) : (s \o t)[i] = c  BY <1>2, <1>5 DEF Occurs
  <2>2. CASE i <= Len(s)
    <3>1. i \in 1..Len(s)  BY <1>1, <2>2
    <3>. QED  BY <1>1, <1>2, <2>1, <3>1 DEF Occurs
  <2>3. CASE ~(i <= Len(s))
    <3>. DEFINE k == i - Len(s)
    <3>1. k \in 1..Len(t) /\ Len(s) + k = i  BY <1>1, <2>3
    <3>. HIDE DEF k
    <3>2. t[k] = c  BY <1>2, <2>1, <3>1
    <3>. QED  BY <1>1, <3>1, <3>2 DEF Occurs
  <2>. QED  BY <2>2, <2>3
<1>. QED  BY <1>3, <1>4, <1>5

\* A text of one character, one more character behind a text, and no text.
LEMMA OccursOne ==
    ASSUME NEW S, NEW d \in S, NEW c
    PROVE  <<d>> \in Seq(S) /\ Len(<<d>>) = 1 /\ <<d>>[1] = d /\ (Occurs(c, <<d>>) <=> c = d)
<1>1. <<d>> \in Seq(S) /\ Len(<<d>>) = 1 /\ <<d>>[1] = d /\ DOMAIN <<d>> = 1..1  OBVIOUS
<1>. QED  BY <1>1 DEF Occurs

LEMMA JoinedOne ==
    ASSUME NEW S, NEW s \in Seq(S), NEW d \in S
    PROVE  /\ s \o <<d>> \in Seq(S) /\ Len(s \o <<d>>) = Len(s) + 1
           /\ \A i \in 1..Len(s) : (s \o <<d>>)[i] = s[i]
           /\ (s \o <<d>>)[Len(s) + 1] = d
           /\ \A c : Occurs(c, s \o <<d>>) <=> Occurs(c, s) \/ c = d
<1>. DEFINE e == <<d>>
<1>1. e \in Seq(S) /\ Len(e) = 1 /\ e[1] = d /\ \A c : Occurs(c, e) <=> c = d
  BY OccursOne
<1>. HIDE DEF e
<1>2. /\ s \o e \in Seq(S) /\ Len(s \o e) = Len(s) + Len(e)
      /\ \A i \in 1..Len(s) : (s \o e)[i] = s[i]
      /\ \A i \in 1..Len(e) : (s \o e)[Len(s) + i] = e[i]
  <2>1. e \in Seq(S)  BY <1>1
  <2>2. s \o e \in Seq(S)  BY <2>1, Joined
  <2>3. Len(s \o e) = Len(s) + Len(e)  BY <2>1, Joined
  <2>4. \A i \in 1..Len(s) : (s \o e)[i] = s[i]  BY <2>1, Joined
  <2>5. \A i \in 1..Len(e) : (s \o e)[Len(s) + i] = e[i]  BY <2>1, Joined
  <2>. QED  BY <2>2, <2>3, <2>4, <2>5
<1>3. (s \o e)[Len(s) + 1] = d
  <2>1. 1 \in 1..Len(e)  BY <1>1
  <2>2. (s \o e)[Len(s) + 1] = e[1]  BY <1>2, <2>1
  <2>. QED  BY <1>1, <2>2
<1>4. \A c : Occurs(c, s \o e) <=> Occurs(c, s) \/ c = d
  BY <1>1, OccursJoined
<1>. QED  BY <1>1, <1>2, <1>3, <1>4 DEF e

LEMMA OccursNone ==
    \A c, S : <<>> \in Seq(S) /\ Len(<<>>) = 0 /\ ~Occurs(c, <<>>)
BY DEF Occurs

\* Padding: so many times the same character, and none where there is no room.
LEMMA RepeatIs ==
    ASSUME NEW S, NEW d \in S, NEW n \in Int
    PROVE  /\ Repeat(d, n) \in Seq(S)
           /\ Len(Repeat(d, n)) = IF n > 0 THEN n ELSE 0
           /\ \A i \in 1..Len(Repeat(d, n)) : Repeat(d, n)[i] = d
<1>. DEFINE m == IF n > 0 THEN n ELSE 0
<1>1. m \in Nat /\ 1..n = 1..m  OBVIOUS
<1>. HIDE DEF m
<1>2. Repeat(d, n) = [i \in 1..m |-> d]  BY <1>1 DEF Repeat
<1>3. Repeat(d, n) \in Seq(S) /\ Len(Repeat(d, n)) = m  BY <1>1, <1>2
<1>. QED  BY <1>2, <1>3 DEF m

-----------------------------------------------------------------------------
(***************************************************************************)
(* Directives: what FORMAT_BUILD puts between % and the conversion is what  *)
(* snprintf reads there.                                                    *)
(***************************************************************************)

\* A flag of the format is in the directive when it was asked for.
LEMMA WhenIs ==
    ASSUME NEW flag, NEW f, NEW d \in FlagMarks
    PROVE  /\ When(flag, f, d) \in Seq(FlagMarks)
           /\ \A c : Occurs(c, When(flag, f, d)) <=> flag \in f.flags /\ c = d
<1>1. CASE flag \in f.flags
  <2>1. When(flag, f, d) = <<d>>  BY <1>1 DEF When
  <2>. QED  BY <1>1, <2>1, OccursOne
<1>2. CASE flag \notin f.flags
  <2>1. When(flag, f, d) = <<>>  BY <1>2 DEF When
  <2>. QED  BY <1>2, <2>1, OccursNone
<1>. QED  BY <1>1, <1>2

\* The flags of a directive are those that were asked for.
LEMMA FlagCharactersAre ==
    ASSUME NEW f
    PROVE  /\ FlagCharacters(f) \in Seq(FlagMarks)
           /\ Occurs("-", FlagCharacters(f)) <=> "align_left" \in f.flags
           /\ Occurs("+", FlagCharacters(f)) <=> "force_sign" \in f.flags
           /\ Occurs("#", FlagCharacters(f)) <=> "force_special" \in f.flags
           /\ Occurs("0", FlagCharacters(f)) <=> "pad_zeroes" \in f.flags
<1>. DEFINE a == When("align_left", f, "-")
            b == When("force_sign", f, "+")
            c == When("force_special", f, "#")
            d == When("pad_zeroes", f, "0")
<1>1. {"-", "+", "#", "0"} \subseteq FlagMarks  BY DEF FlagMarks
<1>2. /\ a \in Seq(FlagMarks) /\ \A x : Occurs(x, a) <=> "align_left" \in f.flags /\ x = "-"
      /\ b \in Seq(FlagMarks) /\ \A x : Occurs(x, b) <=> "force_sign" \in f.flags /\ x = "+"
      /\ c \in Seq(FlagMarks) /\ \A x : Occurs(x, c) <=> "force_special" \in f.flags /\ x = "#"
      /\ d \in Seq(FlagMarks) /\ \A x : Occurs(x, d) <=> "pad_zeroes" \in f.flags /\ x = "0"
  BY <1>1, WhenIs
<1>3. FlagCharacters(f) = ((a \o b) \o c) \o d  BY DEF FlagCharacters
<1>. HIDE DEF a, b, c, d
<1>. DEFINE ab == a \o b
            abc == ab \o c
            abcd == abc \o d
<1>4. ab \in Seq(FlagMarks) /\ \A x : Occurs(x, ab) <=> Occurs(x, a) \/ Occurs(x, b)
  BY <1>2, Joined, OccursJoined
<1>. HIDE DEF ab
<1>5. abc \in Seq(FlagMarks) /\ \A x : Occurs(x, abc) <=> Occurs(x, ab) \/ Occurs(x, c)
  BY <1>2, <1>4, Joined, OccursJoined
<1>. HIDE DEF abc
<1>6. abcd \in Seq(FlagMarks) /\ \A x : Occurs(x, abcd) <=> Occurs(x, abc) \/ Occurs(x, d)
  BY <1>2, <1>5, Joined, OccursJoined
<1>7. FlagCharacters(f) = abcd  BY <1>3 DEF ab, abc
<1>. HIDE DEF abcd
<1>8. \A x : Occurs(x, abcd) <=> Occurs(x, a) \/ Occurs(x, b) \/ Occurs(x, c) \/ Occurs(x, d)
  BY <1>4, <1>5, <1>6
<1>. HIDE DEF a, b, c, d
<1>9. /\ "-" # "+" /\ "-" # "#" /\ "-" # "0" /\ "+" # "#" /\ "+" # "0" /\ "#" # "0"
  OBVIOUS
<1>10. Occurs("-", abcd) <=> "align_left" \in f.flags
  <2>1. ~Occurs("-", b) /\ ~Occurs("-", c) /\ ~Occurs("-", d)  BY <1>2, <1>9
  <2>2. Occurs("-", a) <=> "align_left" \in f.flags  BY <1>2
  <2>. QED  BY <1>8, <2>1, <2>2
<1>11. Occurs("+", abcd) <=> "force_sign" \in f.flags
  <2>1. ~Occurs("+", a) /\ ~Occurs("+", c) /\ ~Occurs("+", d)  BY <1>2, <1>9
  <2>2. Occurs("+", b) <=> "force_sign" \in f.flags  BY <1>2
  <2>. QED  BY <1>8, <2>1, <2>2
<1>12. Occurs("#", abcd) <=> "force_special" \in f.flags
  <2>1. ~Occurs("#", a) /\ ~Occurs("#", b) /\ ~Occurs("#", d)  BY <1>2, <1>9
  <2>2. Occurs("#", c) <=> "force_special" \in f.flags  BY <1>2
  <2>. QED  BY <1>8, <2>1, <2>2
<1>13. Occurs("0", abcd) <=> "pad_zeroes" \in f.flags
  <2>1. ~Occurs("0", a) /\ ~Occurs("0", b) /\ ~Occurs("0", c)  BY <1>2, <1>9
  <2>2. Occurs("0", d) <=> "pad_zeroes" \in f.flags  BY <1>2
  <2>. QED  BY <1>8, <2>1, <2>2
<1>. QED  BY <1>6, <1>7, <1>10, <1>11, <1>12, <1>13

\* What is asked for when an integer is formatted.
IsInteger(f) ==
    /\ f.floating_point = FALSE
    /\ f.mode \in {"signed", "unsigned", "octal", "hexadecimal"}
    /\ f.specifier \in Seq({"l", "z"})
    /\ f.width \in Nat /\ f.value.negative \in BOOLEAN
    /\ f.value.digits \in Seq(Digits) /\ f.value.digits # <<>>

\* A format that the program can ask for, and not of a floating point value.
LEMMA IntegerFormat ==
    ASSUME NEW f, IsFormat(f), ~f.floating_point
    PROVE  IsInteger(f)
<1>1. f.floating_point \in BOOLEAN  BY DEF IsFormat
<1>2. f.floating_point = FALSE  BY <1>1
<1>3. f.mode \in {"signed", "unsigned", "octal", "hexadecimal"}
  BY DEF IsFormat
<1>. QED  BY <1>2, <1>3 DEF IsFormat, IsInteger

\* Each mode has conversions of its own.
LEMMA IntegerConversionIs ==
    ASSUME NEW f, IsInteger(f)
    PROVE  /\ f.mode = "signed" => IntegerConversion(f) = "d"
           /\ f.mode = "unsigned" => IntegerConversion(f) = "u"
           /\ f.mode = "octal" => IntegerConversion(f) = "o"
           /\ f.mode = "hexadecimal" => IntegerConversion(f) \in {"x", "X"}
           /\ IntegerConversion(f) \in {"d", "u", "o", "x", "X"}
<1>1. CASE f.mode = "signed"
  <2>1. IntegerConversion(f) = "d"  BY <1>1 DEF IntegerConversion
  <2>. QED  BY <1>1, <2>1
<1>2. CASE f.mode = "unsigned"
  <2>1. IntegerConversion(f) = "u"  BY <1>2 DEF IntegerConversion
  <2>. QED  BY <1>2, <2>1
<1>3. CASE f.mode = "octal"
  <2>1. IntegerConversion(f) = "o"  BY <1>3 DEF IntegerConversion
  <2>. QED  BY <1>3, <2>1
<1>4. CASE f.mode = "hexadecimal"
  <2>1. IntegerConversion(f) = Conversion(f, "x", "X")  BY <1>4 DEF IntegerConversion
  <2>2. Conversion(f, "x", "X") \in {"x", "X"}  BY DEF Conversion
  <2>. QED  BY <1>4, <2>1, <2>2
<1>. QED  BY <1>1, <1>2, <1>3, <1>4 DEF IsInteger

\* The parts of the directive of an integer are where snprintf looks for them.
LEMMA DirectiveIs ==
    ASSUME NEW f, IsInteger(f)
    PROVE  LET m == Len(FlagCharacters(f)) + 2
               d == Directive(f)
           IN  /\ d \in Seq(Characters) /\ Len(d) \in Nat /\ m \in 2..Len(d)
               /\ \A i \in 1..Len(FlagCharacters(f)) : d[1 + i] = FlagCharacters(f)[i]
               /\ d[m] = "*" /\ d[Len(d)] = IntegerConversion(f)
               /\ ~Occurs(".", d)
<1>. DEFINE F == FlagCharacters(f)
            s == f.specifier
            c == IntegerConversion(f)
            d1 == <<"%">> \o F
            d2 == d1 \o <<"*">>
            d3 == d2 \o s
            d4 == d3 \o <<c>>
<1>1. Directive(f) = d4
  <2>1. Directive(f) = IntegerDirective(f)  BY DEF Directive, IsInteger
  <2>. QED  BY <2>1 DEF IntegerDirective
<1>2. F \in Seq(Characters) /\ ~Occurs(".", F) /\ Len(F) \in Nat
  <2>1. FlagCharacters(f) \in Seq(FlagMarks)  BY FlagCharactersAre
  <2>2. FlagMarks \subseteq Characters /\ "." \notin FlagMarks  BY DEF FlagMarks, Characters
  <2>. QED  BY <2>1, <2>2 DEF Occurs
<1>3. s \in Seq(Characters) /\ ~Occurs(".", s) /\ Len(s) \in Nat
  <2>1. s \in Seq({"l", "z"})  BY DEF IsInteger
  <2>2. {"l", "z"} \subseteq Characters /\ "." \notin {"l", "z"}  BY DEF Characters
  <2>. QED  BY <2>1, <2>2 DEF Occurs
<1>4. c \in Characters /\ c # "."
  <2>1. c \in {"d", "u", "o", "x", "X"}  BY IntegerConversionIs
  <2>. QED  BY <2>1 DEF Characters
<1>5. /\ <<"%">> \in Seq(Characters) /\ ~Occurs(".", <<"%">>) /\ Len(<<"%">>) = 1
      /\ "*" \in Characters /\ "*" # "."
  <2>1. "%" \in Characters /\ "*" \in Characters /\ "%" # "." /\ "*" # "."
    BY DEF Characters
  <2>. QED  BY <2>1, OccursOne
<1>. HIDE DEF F, s, c
<1>6. /\ d1 \in Seq(Characters) /\ Len(d1) = 1 + Len(F) /\ ~Occurs(".", d1)
      /\ \A i \in 1..Len(F) : d1[1 + i] = F[i]
  <2>. DEFINE p == <<"%">>
  <2>1. p \in Seq(Characters) /\ ~Occurs(".", p) /\ Len(p) = 1  BY <1>5
  <2>. HIDE DEF p
  <2>2. F \in Seq(Characters)  BY <1>2
  <2>3. p \o F \in Seq(Characters)  BY <2>1, <2>2, Joined
  <2>4. Len(p \o F) = Len(p) + Len(F)  BY <2>1, <2>2, Joined
  <2>5. \A i \in 1..Len(F) : (p \o F)[Len(p) + i] = F[i]  BY <2>1, <2>2, JoinedRight
  <2>6. ~Occurs(".", p \o F)  BY <1>2, <2>1, OccursJoined
  <2>. QED  BY <2>1, <2>3, <2>4, <2>5, <2>6 DEF p
<1>. HIDE DEF d1
<1>7. /\ d2 \in Seq(Characters) /\ Len(d2) = 2 + Len(F) /\ ~Occurs(".", d2)
      /\ \A i \in 1..Len(d1) : d2[i] = d1[i]
      /\ d2[Len(d1) + 1] = "*"
  BY <1>2, <1>5, <1>6, JoinedOne
<1>. HIDE DEF d2
<1>8. /\ d3 \in Seq(Characters) /\ Len(d3) = Len(d2) + Len(s) /\ ~Occurs(".", d3)
      /\ \A i \in 1..Len(d2) : d3[i] = d2[i]
  <2>1. d2 \in Seq(Characters) /\ s \in Seq(Characters)  BY <1>3, <1>7
  <2>2. d3 \in Seq(Characters)  BY <2>1, Joined
  <2>3. Len(d3) = Len(d2) + Len(s)  BY <2>1, Joined
  <2>4. \A i \in 1..Len(d2) : d3[i] = d2[i]  BY <2>1, Joined
  <2>5. ~Occurs(".", d3)  BY <1>3, <1>7, OccursJoined
  <2>. QED  BY <2>2, <2>3, <2>4, <2>5
<1>. HIDE DEF d3
<1>9. /\ d4 \in Seq(Characters) /\ Len(d4) = Len(d3) + 1 /\ ~Occurs(".", d4)
      /\ \A i \in 1..Len(d3) : d4[i] = d3[i]
      /\ d4[Len(d3) + 1] = c
  BY <1>4, <1>8, JoinedOne
<1>. HIDE DEF d4
<1>10. Len(d4) \in Nat /\ Len(F) + 2 \in 2..Len(d4)
  BY <1>2, <1>3, <1>7, <1>8, <1>9
<1>11. ASSUME NEW i \in 1..(Len(F) + 2)
       PROVE  d4[i] = d2[i]
  <2>1. i \in 1..Len(d2) /\ i \in 1..Len(d3)  BY <1>2, <1>3, <1>7, <1>8
  <2>. QED  BY <1>8, <1>9, <2>1
<1>12. ASSUME NEW i \in 1..Len(F)
       PROVE  d4[1 + i] = F[i]
  <2>. DEFINE j == 1 + i
  <2>1. j \in 1..(Len(F) + 2) /\ j \in 1..Len(d1)  BY <1>2, <1>6
  <2>. HIDE DEF j
  <2>2. d4[j] = d1[j]  BY <1>7, <1>11, <2>1
  <2>. QED  BY <1>6, <2>2 DEF j
<1>13. d4[Len(F) + 2] = "*"
  <2>. DEFINE j == Len(F) + 2
  <2>1. j \in 1..(Len(F) + 2) /\ j = Len(d1) + 1  BY <1>2, <1>6
  <2>. HIDE DEF j
  <2>2. d4[j] = "*"  BY <1>7, <1>11, <2>1
  <2>. QED  BY <2>2 DEF j
<1>14. d4[Len(d4)] = c  BY <1>9
<1>. QED  BY <1>1, <1>9, <1>10, <1>12, <1>13, <1>14 DEF F, c

\* snprintf reads the flags and the width that were asked for.
LEMMA DirectiveRead ==
    ASSUME NEW f, IsInteger(f)
    PROVE  /\ "-" \in FlagsRead(Directive(f)) <=> "align_left" \in f.flags
           /\ "+" \in FlagsRead(Directive(f)) <=> "force_sign" \in f.flags
           /\ "#" \in FlagsRead(Directive(f)) <=> "force_special" \in f.flags
           /\ "0" \in FlagsRead(Directive(f)) <=> "pad_zeroes" \in f.flags
           /\ WidthRead(Directive(f), f.width) = f.width
<1>. DEFINE F == FlagCharacters(f)
            d == Directive(f)
            m == Len(F) + 2
<1>1. /\ d \in Seq(Characters) /\ Len(d) \in Nat /\ m \in 2..Len(d)
      /\ \A i \in 1..Len(F) : d[1 + i] = F[i]
      /\ d[m] = "*"
  BY DirectiveIs
<1>2. F \in Seq(FlagMarks) /\ Len(F) \in Nat /\ DOMAIN F = 1..Len(F)
      /\ \A i \in 1..Len(F) : F[i] \in FlagMarks
  <2>1. F \in Seq(FlagMarks)  BY FlagCharactersAre
  <2>. QED  BY <2>1
<1>. HIDE DEF F, d
<1>3. ASSUME NEW j \in 2..(m - 1)
      PROVE  j - 1 \in 1..Len(F) /\ d[j] = F[j - 1] /\ d[j] \in FlagMarks
  <2>. DEFINE i == j - 1
  <2>1. i \in 1..Len(F) /\ 1 + i = j  BY <1>2
  <2>. HIDE DEF i
  <2>2. d[1 + i] = F[i]  BY <1>1, <2>1
  <2>3. d[j] = F[i]  BY <2>1, <2>2
  <2>. QED  BY <1>2, <2>1, <2>3 DEF i
<1>4. "*" \notin FlagMarks  BY DEF FlagMarks
<1>. DEFINE Ends(i) == /\ d[i] \notin FlagMarks
                       /\ \A j \in 2..(i - 1) : d[j] \in FlagMarks
<1>5. FlagsEnd(d) = CHOOSE i \in 2..Len(d) : Ends(i)  BY DEF FlagsEnd
<1>6. m \in 2..Len(d) /\ Ends(m)  BY <1>1, <1>3, <1>4
<1>7. ASSUME NEW i \in 2..Len(d), Ends(i)
      PROVE  i = m
  <2>. HIDE DEF m
  <2>1. i \in Int /\ m \in Int  BY <1>1
  <2>2. ~(i < m)
    <3>1. i < m => i \in 2..(m - 1)  BY <2>1
    <3>. QED  BY <1>3, <1>7, <3>1
  <2>3. ~(m < i)
    <3>1. m < i => m \in 2..(i - 1)  BY <1>1, <2>1
    <3>. QED  BY <1>6, <1>7, <3>1
  <2>. QED  BY <2>1, <2>2, <2>3
<1>. HIDE DEF Ends, m
<1>8. FlagsEnd(d) = m
  <2>1. \E i \in 2..Len(d) : Ends(i)  BY <1>6
  <2>2. FlagsEnd(d) \in 2..Len(d) /\ Ends(FlagsEnd(d))  BY <1>5, <2>1
  <2>. QED  BY <1>7, <2>2
<1>9. WidthRead(d, f.width) = f.width  BY <1>1, <1>8 DEF WidthRead
<1>10. ASSUME NEW c
       PROVE  c \in FlagsRead(d) <=> Occurs(c, F)
  <2>1. FlagsRead(d) = {d[j] : j \in 2..(m - 1)}  BY <1>8 DEF FlagsRead
  <2>2. ASSUME c \in FlagsRead(d) PROVE Occurs(c, F)
    <3>1. PICK j \in 2..(m - 1) : d[j] = c  BY <2>1, <2>2
    <3>. QED  BY <1>2, <1>3, <3>1 DEF Occurs
  <2>3. ASSUME Occurs(c, F) PROVE c \in FlagsRead(d)
    <3>1. PICK i \in 1..Len(F) : F[i] = c  BY <1>2, <2>3 DEF Occurs
    <3>. DEFINE j == 1 + i
    <3>2. j \in 2..(m - 1)  BY <1>2 DEF m
    <3>3. d[j] = c  BY <1>1, <3>1
    <3>. HIDE DEF j
    <3>. QED  BY <2>1, <3>2, <3>3
  <2>. QED  BY <2>2, <2>3
<1>. QED  BY <1>9, <1>10, FlagCharactersAre DEF F, d

\* Where the characters of three pieces are, and which occur.
LEMMA ThreePieces ==
    ASSUME NEW S, NEW a \in Seq(S), NEW b \in Seq(S), NEW c \in Seq(S)
    PROVE  LET t == a \o b \o c
           IN  /\ t \in Seq(S) /\ Len(t) = Len(a) + Len(b) + Len(c)
               /\ \A i \in 1..Len(a) : t[i] = a[i]
               /\ \A i \in 1..Len(b) : t[Len(a) + i] = b[i]
               /\ \A i \in 1..Len(c) : t[Len(a) + Len(b) + i] = c[i]
               /\ \A x : Occurs(x, t) <=> Occurs(x, a) \/ Occurs(x, b) \/ Occurs(x, c)
<1>. DEFINE ab == a \o b
            t == ab \o c
<1>1. Len(a) \in Nat /\ Len(b) \in Nat /\ Len(c) \in Nat  OBVIOUS
<1>2. /\ ab \in Seq(S) /\ Len(ab) = Len(a) + Len(b)
      /\ \A i \in 1..Len(a) : ab[i] = a[i]
      /\ \A i \in 1..Len(b) : ab[Len(a) + i] = b[i]
  BY Joined
<1>3. \A x : Occurs(x, ab) <=> Occurs(x, a) \/ Occurs(x, b)
  BY OccursJoined
<1>. HIDE DEF ab
<1>4. /\ t \in Seq(S) /\ Len(t) = Len(ab) + Len(c)
      /\ \A i \in 1..Len(ab) : t[i] = ab[i]
      /\ \A i \in 1..Len(c) : t[Len(ab) + i] = c[i]
  <2>1. t \in Seq(S)  BY <1>2, Joined
  <2>2. Len(t) = Len(ab) + Len(c)  BY <1>2, Joined
  <2>3. \A i \in 1..Len(ab) : t[i] = ab[i]  BY <1>2, Joined
  <2>4. \A i \in 1..Len(c) : t[Len(ab) + i] = c[i]  BY <1>2, Joined
  <2>. QED  BY <2>1, <2>2, <2>3, <2>4
<1>5. \A x : Occurs(x, t) <=> Occurs(x, ab) \/ Occurs(x, c)
  BY <1>2, OccursJoined
<1>. HIDE DEF t
<1>6. ASSUME NEW i \in 1..Len(a) PROVE t[i] = a[i]
  <2>1. i \in 1..Len(ab)  BY <1>1, <1>2
  <2>. QED  BY <1>2, <1>4, <2>1
<1>7. ASSUME NEW i \in 1..Len(b) PROVE t[Len(a) + i] = b[i]
  <2>. DEFINE j == Len(a) + i
  <2>1. j \in 1..Len(ab)  BY <1>1, <1>2
  <2>2. ab[j] = b[i]  BY <1>2
  <2>. HIDE DEF j
  <2>3. t[j] = ab[j]  BY <1>4, <2>1
  <2>. QED  BY <2>2, <2>3 DEF j
<1>8. ASSUME NEW i \in 1..Len(c) PROVE t[Len(a) + Len(b) + i] = c[i]
  BY <1>2, <1>4
<1>9. t \in Seq(S) /\ Len(t) = Len(a) + Len(b) + Len(c)
  BY <1>2, <1>4
<1>10. \A x : Occurs(x, t) <=> Occurs(x, a) \/ Occurs(x, b) \/ Occurs(x, c)
  BY <1>3, <1>5
<1>. QED  BY <1>6, <1>7, <1>8, <1>9, <1>10 DEF t, ab

-----------------------------------------------------------------------------
(***************************************************************************)
(* What snprintf prints: sign and prefix, digits, and what the width leaves.  *)
(***************************************************************************)

\* The characters that may be before the digits of an integer.
HeadMarks == {"-", "+", "0", "x", "X"}

\* None of the characters of an integer is the blank that pads it.
LEMMA NoSpace ==
    /\ HeadMarks \subseteq Characters /\ " " \notin HeadMarks
    /\ Digits \subseteq Characters /\ " " \notin Digits
    /\ " " \in Characters /\ "0" \in Characters /\ "." \in Characters
    /\ NUL \in Characters /\ " " # "0"
<1>1. HeadMarks \subseteq Characters /\ " " \notin HeadMarks
  <2>1. {"-", "+", "0"} \subseteq FlagMarks  BY DEF FlagMarks
  <2>2. {"-", "+", "0"} \subseteq Characters  BY <2>1 DEF Characters
  <2>3. {"x", "X"} \subseteq Characters  BY DEF Characters
  <2>. QED  BY <2>2, <2>3 DEF HeadMarks
<1>2. Digits \subseteq Characters /\ " " \notin Digits
  BY DEF Digits, Characters
<1>3. " " \in Characters /\ "0" \in Characters /\ "." \in Characters /\ NUL \in Characters
  BY DEF Characters, FlagMarks
<1>4. " " # "0"  OBVIOUS
<1>. QED  BY <1>1, <1>2, <1>3, <1>4

Lead(flags, conversion, value) == Sign(flags, conversion, value) \o Prefix(flags, conversion, value)

\* Sign and prefix are no longer than the mode and the flags make them.
LEMMA SignIs ==
    ASSUME NEW flags, NEW conversion, NEW value
    PROVE  /\ Sign(flags, conversion, value) \in Seq(HeadMarks)
           /\ Len(Sign(flags, conversion, value)) =
                  IF conversion \in {"u", "o", "x", "X"} THEN 0
                  ELSE IF value.negative \/ "+" \in flags THEN 1 ELSE 0
<1>1. <<>> \in Seq(HeadMarks) /\ Len(<<>>) = 0  OBVIOUS
<1>2. /\ <<"-">> \in Seq(HeadMarks) /\ Len(<<"-">>) = 1
      /\ <<"+">> \in Seq(HeadMarks) /\ Len(<<"+">>) = 1
  BY DEF HeadMarks
<1>. DEFINE n == <<>> minus == <<"-">> plus == <<"+">>
<1>3. Sign(flags, conversion, value) =
          IF conversion \in {"u", "o", "x", "X"} THEN n
          ELSE IF value.negative THEN minus
          ELSE IF "+" \in flags THEN plus ELSE n
  BY DEF Sign
<1>. HIDE DEF n, minus, plus
<1>4. /\ n \in Seq(HeadMarks) /\ Len(n) = 0
      /\ minus \in Seq(HeadMarks) /\ Len(minus) = 1
      /\ plus \in Seq(HeadMarks) /\ Len(plus) = 1
  BY <1>1, <1>2 DEF n, minus, plus
<1>. QED  BY <1>3, <1>4

\* The one digit of zero is all that is printed of it.
Zero(value) == value.digits = <<"0">>

LEMMA PrefixIs ==
    ASSUME NEW flags, NEW conversion, NEW value
    PROVE  /\ Prefix(flags, conversion, value) \in Seq(HeadMarks)
           /\ Len(Prefix(flags, conversion, value)) =
                  IF "#" \notin flags \/ Zero(value) THEN 0
                  ELSE IF conversion = "o" THEN 1
                  ELSE IF conversion \in {"x", "X"} THEN 2 ELSE 0
<1>1. CASE "#" \notin flags \/ Zero(value)
  <2>1. Prefix(flags, conversion, value) = <<>>  BY <1>1 DEF Prefix, Zero
  <2>. QED  BY <1>1, <2>1
<1>2. CASE "#" \in flags /\ ~Zero(value) /\ conversion = "o"
  <2>1. Prefix(flags, conversion, value) = <<"0">>  BY <1>2 DEF Prefix, Zero
  <2>2. <<"0">> \in Seq(HeadMarks) /\ Len(<<"0">>) = 1  BY DEF HeadMarks
  <2>. QED  BY <1>2, <2>1, <2>2
<1>3. CASE "#" \in flags /\ ~Zero(value) /\ conversion # "o" /\ conversion \in {"x", "X"}
  <2>1. Prefix(flags, conversion, value) = <<"0", conversion>>  BY <1>3 DEF Prefix, Zero
  <2>2. "0" \in HeadMarks /\ conversion \in HeadMarks  BY <1>3 DEF HeadMarks
  <2>3. <<"0", conversion>> \in Seq(HeadMarks) /\ Len(<<"0", conversion>>) = 2  BY <2>2
  <2>. QED  BY <1>3, <2>1, <2>3
<1>4. CASE "#" \in flags /\ ~Zero(value) /\ conversion # "o" /\ conversion \notin {"x", "X"}
  <2>1. Prefix(flags, conversion, value) = <<>>  BY <1>4 DEF Prefix, Zero
  <2>. QED  BY <1>4, <2>1
<1>. QED  BY <1>1, <1>2, <1>3, <1>4

\* A text of some characters is a text.
LEMMA Wider ==
    ASSUME NEW S, NEW T, S \subseteq T, NEW s \in Seq(S)
    PROVE  s \in Seq(T)
OBVIOUS

\* What is before the digits.
LEMMA LeadIs ==
    ASSUME NEW flags, NEW conversion, NEW value
    PROVE  /\ Lead(flags, conversion, value) \in Seq(HeadMarks)
           /\ Lead(flags, conversion, value) \in Seq(Characters)
           /\ Len(Lead(flags, conversion, value)) =
                  Len(Sign(flags, conversion, value)) + Len(Prefix(flags, conversion, value))
<1>. DEFINE sign == Sign(flags, conversion, value)
            prefix == Prefix(flags, conversion, value)
<1>1. sign \in Seq(HeadMarks) /\ prefix \in Seq(HeadMarks)
  BY SignIs, PrefixIs
<1>2. Lead(flags, conversion, value) = sign \o prefix  BY DEF Lead
<1>. HIDE DEF sign, prefix
<1>3. sign \o prefix \in Seq(HeadMarks)  BY <1>1, Joined
<1>4. Len(sign \o prefix) = Len(sign) + Len(prefix)  BY <1>1, Joined
<1>5. HeadMarks \subseteq Characters  BY NoSpace
<1>6. sign \o prefix \in Seq(Characters)  BY <1>3, <1>5, Wider
<1>. QED  BY <1>2, <1>3, <1>4, <1>6 DEF sign, prefix

\* What is printed is text, whatever the directive.
LEMMA PrintedText ==
    ASSUME NEW directive, NEW width \in Nat, NEW value, value.digits \in Seq(Digits)
    PROVE  Printed(directive, width, value) \in Seq(Characters)
<1>. DEFINE flags == FlagsRead(directive)
            head == Lead(flags, directive[Len(directive)], value)
            precision == \E i \in DOMAIN directive : directive[i] = "."
            digits == value.digits
            zeroes == Repeat("0", width)
            conversion == directive[Len(directive)]
            dot == conversion \in {"f", "F"} /\ (width > 0 \/ "#" \in flags)
            point == IF dot THEN <<".">> ELSE <<>>
            tail == IF precision THEN digits \o point \o zeroes ELSE digits
            room == IF precision THEN 0 ELSE WidthRead(directive, width) - Len(head \o tail)
            blank == Repeat(" ", room)
            zero == Repeat("0", room)
<1>1. Printed(directive, width, value) =
          IF "-" \in flags THEN head \o tail \o blank
          ELSE IF "0" \in flags THEN head \o zero \o tail
          ELSE blank \o head \o tail
  BY DEF Printed, Lead
<1>2. head \in Seq(Characters)  BY LeadIs
<1>3. digits \in Seq(Characters)
  <2>1. Digits \subseteq Characters  BY NoSpace
  <2>. QED  BY <2>1, Wider
<1>4. zeroes \in Seq(Characters)
  <2>1. "0" \in Characters  BY NoSpace
  <2>. QED  BY <2>1, RepeatIs
<1>5. point \in Seq(Characters)
  <2>1. "." \in Characters  BY NoSpace
  <2>2. <<".">> \in Seq(Characters) /\ <<>> \in Seq(Characters)  BY <2>1
  <2>. HIDE DEF dot
  <2>. QED  BY <2>2
<1>. HIDE DEF head, digits, zeroes, point, precision, dot, conversion
<1>6. tail \in Seq(Characters)
  <2>1. digits \o point \o zeroes \in Seq(Characters)  BY <1>3, <1>4, <1>5, ThreePieces
  <2>. QED  BY <1>3, <2>1
<1>. HIDE DEF tail
<1>7. room \in Int
  <2>1. WidthRead(directive, width) \in Nat  BY DEF WidthRead
  <2>2. Len(head \o tail) \in Nat  BY <1>2, <1>6
  <2>. QED  BY <2>1, <2>2
<1>. HIDE DEF room
<1>8. blank \in Seq(Characters) /\ zero \in Seq(Characters)
  <2>1. " " \in Characters /\ "0" \in Characters  BY NoSpace
  <2>. QED  BY <1>7, <2>1, RepeatIs
<1>. HIDE DEF blank, zero
<1>9. head \o tail \o blank \in Seq(Characters)  BY <1>2, <1>6, <1>8, ThreePieces
<1>10. head \o zero \o tail \in Seq(Characters)  BY <1>2, <1>6, <1>8, ThreePieces
<1>11. blank \o head \o tail \in Seq(Characters)  BY <1>2, <1>6, <1>8, ThreePieces
<1>. HIDE DEF flags
<1>. QED  BY <1>1, <1>9, <1>10, <1>11

\* The head of an integer takes what it needs beside its digits.
LEMMA HeadIs ==
    ASSUME NEW f, IsInteger(f)
    PROVE  LET head == Lead(FlagsRead(Directive(f)), IntegerConversion(f), f.value)
           IN  /\ head \in Seq(HeadMarks)
               /\ Len(head) + Len(f.value.digits) = Needed(f)
<1>. DEFINE flags == FlagsRead(Directive(f))
            c == IntegerConversion(f)
            sign == Sign(flags, c, f.value)
            prefix == Prefix(flags, c, f.value)
            value == f.value
            zero == Zero(value)
<1>1. "+" \in flags <=> "force_sign" \in f.flags
  BY DirectiveRead
<1>2. "#" \in flags <=> "force_special" \in f.flags
  BY DirectiveRead
<1>3. /\ sign \in Seq(HeadMarks)
      /\ Len(sign) = IF c \in {"u", "o", "x", "X"} THEN 0
                     ELSE IF value.negative \/ "+" \in flags THEN 1 ELSE 0
  BY SignIs
<1>4. /\ prefix \in Seq(HeadMarks)
      /\ Len(prefix) = IF "#" \notin flags \/ zero THEN 0
                       ELSE IF c = "o" THEN 1
                       ELSE IF c \in {"x", "X"} THEN 2 ELSE 0
  BY PrefixIs
<1>5. /\ f.mode = "signed" <=> c \notin {"u", "o", "x", "X"}
      /\ f.mode = "octal" <=> c = "o"
      /\ f.mode = "hexadecimal" <=> c \in {"x", "X"}
  BY IntegerConversionIs DEF IsInteger
<1>. DEFINE head == Lead(flags, c, f.value)
<1>6. head \in Seq(HeadMarks) /\ Len(head) = Len(sign) + Len(prefix)
  BY LeadIs
<1>. HIDE DEF flags, c, sign, prefix, head, zero
<1>7. Needed(f) = Len(value.digits) + Len(sign) + Len(prefix)
  <2>. DEFINE n == Len(value.digits)
  <2>1. n \in Nat  BY DEF IsInteger
  <2>2. Needed(f) =
            n + (IF f.mode # "signed" THEN 0
                 ELSE IF value.negative \/ "force_sign" \in f.flags THEN 1 ELSE 0)
              + (IF "force_special" \notin f.flags \/ zero THEN 0
                 ELSE IF f.mode = "octal" THEN 1 ELSE IF f.mode = "hexadecimal" THEN 2 ELSE 0)
    BY DEF Needed, zero, Zero
  <2>. HIDE DEF n, value
  <2>3. Needed(f) = n + Len(sign) + Len(prefix)
    BY <1>1, <1>2, <1>3, <1>4, <1>5, <2>1, <2>2
  <2>. QED  BY <2>3 DEF n
<1>8. Len(head) + Len(value.digits) = Needed(f)
  <2>. DEFINE n == Len(value.digits)
              needed == Needed(f)
  <2>1. n \in Nat  BY DEF IsInteger
  <2>2. Len(sign) \in Nat /\ Len(prefix) \in Nat  BY <1>3, <1>4
  <2>3. needed = n + Len(sign) + Len(prefix)  BY <1>7
  <2>4. Len(head) = Len(sign) + Len(prefix)  BY <1>6
  <2>. HIDE DEF n, needed
  <2>5. Len(head) + n = needed  BY <2>1, <2>2, <2>3, <2>4
  <2>. QED  BY <2>5 DEF n, needed
<1>. QED  BY <1>6, <1>8 DEF flags, c, head

\* An integer is printed as its sign and prefix, its digits and what the
\* width leaves, before, between or behind them.
LEMMA PrintedInteger ==
    ASSUME NEW f, IsInteger(f)
    PROVE  LET head == Lead(FlagsRead(Directive(f)), IntegerConversion(f), f.value)
               room == f.width - Needed(f)
           IN  Printed(Directive(f), f.width, f.value) =
                   IF "align_left" \in f.flags THEN head \o f.value.digits \o Repeat(" ", room)
                   ELSE IF "pad_zeroes" \in f.flags
                   THEN head \o Repeat("0", room) \o f.value.digits
                   ELSE Repeat(" ", room) \o head \o f.value.digits
<1>. DEFINE d == Directive(f)
            flags == FlagsRead(d)
            c == d[Len(d)]
            digits == f.value.digits
            head == Lead(flags, c, f.value)
            precision == \E i \in DOMAIN d : d[i] = "."
            dot == c \in {"f", "F"} /\ (f.width > 0 \/ "#" \in flags)
            point == IF dot THEN <<".">> ELSE <<>>
            tail == IF precision THEN digits \o point \o Repeat("0", f.width) ELSE digits
            room == IF precision THEN 0 ELSE WidthRead(d, f.width) - Len(head \o tail)
<1>1. Printed(d, f.width, f.value) =
          IF "-" \in flags THEN head \o tail \o Repeat(" ", room)
          ELSE IF "0" \in flags THEN head \o Repeat("0", room) \o tail
          ELSE Repeat(" ", room) \o head \o tail
  BY DEF Printed, Lead
<1>2. c = IntegerConversion(f) /\ ~precision  BY DirectiveIs DEF Occurs
<1>3. /\ "-" \in flags <=> "align_left" \in f.flags
      /\ "0" \in flags <=> "pad_zeroes" \in f.flags
      /\ WidthRead(d, f.width) = f.width
  BY DirectiveRead
<1>4. head \in Seq(Characters) /\ Len(head) + Len(digits) = Needed(f)
  BY <1>2, HeadIs, LeadIs
<1>5. digits \in Seq(Characters)
  <2>1. digits \in Seq(Digits)  BY DEF IsInteger
  <2>2. Digits \subseteq Characters  BY NoSpace
  <2>. QED  BY <2>1, <2>2, Wider
<1>. HIDE DEF precision, point
<1>6. tail = digits /\ room = f.width - Len(head \o digits)
  BY <1>2, <1>3
<1>. HIDE DEF tail, room, head, digits
<1>7. Len(head \o digits) = Needed(f)  BY <1>4, <1>5, Joined
<1>. HIDE DEF flags
<1>8. room = f.width - Needed(f)  BY <1>6, <1>7
<1>9. Printed(d, f.width, f.value) =
          IF "align_left" \in f.flags THEN head \o digits \o Repeat(" ", room)
          ELSE IF "pad_zeroes" \in f.flags THEN head \o Repeat("0", room) \o digits
          ELSE Repeat(" ", room) \o head \o digits
  BY <1>1, <1>3, <1>6
<1>10. head = Lead(flags, IntegerConversion(f), f.value)  BY <1>2 DEF head
<1>. QED  BY <1>8, <1>9, <1>10 DEF flags, digits

\* What does not occur in a text.
LEMMA OccursIn ==
    ASSUME NEW S, NEW s \in Seq(S), NEW c, c \notin S
    PROVE  ~Occurs(c, s)
BY DEF Occurs

LEMMA OccursAt ==
    ASSUME NEW S, NEW s \in Seq(S), NEW c, ~Occurs(c, s), NEW i \in 1..Len(s)
    PROVE  s[i] # c
BY DEF Occurs

LEMMA OccursOnly ==
    ASSUME NEW S, NEW s \in Seq(S), NEW c, NEW d, c # d, \A i \in 1..Len(s) : s[i] = d
    PROVE  ~Occurs(c, s)
BY DEF Occurs

AllOf(c, s) == Len(s) > 0 /\ \A i \in 1..Len(s) : s[i] = c
Free(c, s) == Len(s) > 0 /\ ~Occurs(c, s)
EndsIn(c, t) == t[Len(t)] = c /\ t[1] # c
BeginsWith(c, t) == t[1] = c /\ t[Len(t)] # c

\* What ends in blanks, and what begins with them.
LEMMA BlanksBehind ==
    ASSUME NEW S, NEW a \in Seq(S), NEW b \in Seq(S), NEW c \in Seq(S), NEW blank,
           ~Occurs(blank, a), Free(blank, b), AllOf(blank, c)
    PROVE  EndsIn(blank, a \o b \o c)
<1>. DEFINE t == a \o b \o c
<1>1. Len(t) = Len(a) + Len(b) + Len(c)  BY ThreePieces
<1>2. \A i \in 1..Len(a) : t[i] = a[i]  BY ThreePieces
<1>3. \A i \in 1..Len(b) : t[Len(a) + i] = b[i]  BY ThreePieces
<1>4. \A i \in 1..Len(c) : t[Len(a) + Len(b) + i] = c[i]  BY ThreePieces
<1>. HIDE DEF t
<1>5. /\ Len(a) \in Nat /\ Len(b) \in Nat /\ Len(c) \in Nat
      /\ Len(b) > 0 /\ ~Occurs(blank, b) /\ Len(c) > 0
      /\ \A i \in 1..Len(c) : c[i] = blank
  BY DEF Free, AllOf
<1>6. t[Len(t)] = blank
  <2>1. Len(c) \in 1..Len(c)  BY <1>5
  <2>. QED  BY <1>1, <1>4, <1>5, <2>1
<1>7. CASE Len(a) = 0
  <2>1. 1 \in 1..Len(b) /\ Len(a) + 1 = 1  BY <1>5, <1>7
  <2>2. t[1] = b[1]  BY <1>3, <2>1
  <2>3. b[1] # blank  BY <1>5, <2>1, OccursAt
  <2>. QED  BY <1>6, <2>2, <2>3 DEF EndsIn, t
<1>8. CASE Len(a) # 0
  <2>1. 1 \in 1..Len(a)  BY <1>5, <1>8
  <2>2. t[1] = a[1]  BY <1>2, <2>1
  <2>3. a[1] # blank  BY <2>1, OccursAt
  <2>. QED  BY <1>6, <2>2, <2>3 DEF EndsIn, t
<1>. QED  BY <1>7, <1>8

LEMMA BlanksBefore ==
    ASSUME NEW S, NEW a \in Seq(S), NEW b \in Seq(S), NEW c \in Seq(S), NEW blank,
           AllOf(blank, a), Free(blank, c)
    PROVE  BeginsWith(blank, a \o b \o c)
<1>. DEFINE t == a \o b \o c
<1>1. Len(t) = Len(a) + Len(b) + Len(c)  BY ThreePieces
<1>2. \A i \in 1..Len(a) : t[i] = a[i]  BY ThreePieces
<1>3. \A i \in 1..Len(c) : t[Len(a) + Len(b) + i] = c[i]  BY ThreePieces
<1>. HIDE DEF t
<1>4. /\ Len(a) \in Nat /\ Len(b) \in Nat /\ Len(c) \in Nat
      /\ Len(c) > 0 /\ ~Occurs(blank, c) /\ Len(a) > 0
      /\ \A i \in 1..Len(a) : a[i] = blank
  BY DEF Free, AllOf
<1>5. t[1] = blank
  <2>1. 1 \in 1..Len(a)  BY <1>4
  <2>. QED  BY <1>2, <1>4, <2>1
<1>6. t[Len(t)] # blank
  <2>1. Len(c) \in 1..Len(c)  BY <1>4
  <2>2. t[Len(t)] = c[Len(c)]  BY <1>1, <1>3, <2>1
  <2>3. c[Len(c)] # blank  BY <1>4, <2>1, OccursAt
  <2>. QED  BY <2>2, <2>3
<1>. QED  BY <1>5, <1>6 DEF BeginsWith, t

\* What is printed of an integer fills the cell it was given.
LEMMA PrintedFills ==
    ASSUME NEW f, IsInteger(f)
    PROVE  FillsCell(f, Printed(Directive(f), f.width, f.value))
<1>. DEFINE text == Printed(Directive(f), f.width, f.value)
            head == Lead(FlagsRead(Directive(f)), IntegerConversion(f), f.value)
            digits == f.value.digits
            width == f.width
            needed == Needed(f)
            room == width - needed
            sp == " "
            blank == Repeat(sp, room)
            zero == Repeat("0", room)
<1>1. text = IF "align_left" \in f.flags THEN head \o digits \o blank
             ELSE IF "pad_zeroes" \in f.flags THEN head \o zero \o digits
             ELSE blank \o head \o digits
  BY PrintedInteger
<1>2. head \in Seq(HeadMarks) /\ Len(head) + Len(digits) = needed  BY HeadIs
<1>3. digits \in Seq(Digits) /\ digits # <<>>  BY DEF IsInteger
<1>4. width \in Nat  BY DEF IsInteger
<1>. SUFFICES FillsCell(f, text)  OBVIOUS
<1>. HIDE DEF head, digits, text
<1>5. /\ HeadMarks \subseteq Characters /\ sp \notin HeadMarks
      /\ Digits \subseteq Characters /\ sp \notin Digits
      /\ sp \in Characters /\ "0" \in Characters /\ sp # "0"
  BY NoSpace
<1>. HIDE DEF sp
<1>6. head \in Seq(Characters)  BY <1>2, <1>5, Wider
<1>7. digits \in Seq(Characters)  BY <1>3, <1>5, Wider
<1>8. ~Occurs(sp, head)  BY <1>2, <1>5, OccursIn
<1>9. ~Occurs(sp, digits)  BY <1>3, <1>5, OccursIn
<1>10. Len(digits) > 0 /\ Len(digits) \in Nat  BY <1>3
<1>11. needed \in Nat
  <2>1. Len(head) \in Nat  BY <1>2
  <2>. QED  BY <1>2, <1>10, <2>1
<1>. HIDE DEF needed
<1>12. room \in Int  BY <1>4, <1>11
<1>. DEFINE filled == IF width > needed THEN width - needed ELSE 0
<1>13. filled = IF room > 0 THEN room ELSE 0  BY <1>4, <1>11
<1>. HIDE DEF width, room, filled
<1>14. blank \in Seq(Characters)  BY <1>5, <1>12, RepeatIs
<1>15. zero \in Seq(Characters)  BY <1>5, <1>12, RepeatIs
<1>16. Len(blank) = filled  BY <1>5, <1>12, <1>13, RepeatIs
<1>17. Len(zero) = filled  BY <1>5, <1>12, <1>13, RepeatIs
<1>18. \A i \in 1..Len(blank) : blank[i] = sp  BY <1>5, <1>12, RepeatIs
<1>19. \A i \in 1..Len(zero) : zero[i] = "0"  BY <1>5, <1>12, RepeatIs
<1>. HIDE DEF blank, zero
<1>20. ~Occurs(sp, zero)  BY <1>5, <1>15, <1>19, OccursOnly
<1>. DEFINE left == "align_left" \in f.flags
            zeroes == "pad_zeroes" \in f.flags
            spaces == {i \in DOMAIN text : text[i] = sp}
            padded == width > needed
<1>21. Len(head) \in Nat /\ Len(blank) \in Nat /\ Len(zero) \in Nat
  BY <1>6, <1>14, <1>15
<1>22. padded => Len(blank) > 0
  BY <1>4, <1>11, <1>16 DEF filled
<1>23. Len(head) + Len(digits) + filled = IF padded THEN width ELSE needed
  BY <1>2, <1>4, <1>11 DEF filled
<1>24. FillsCell(f, text) <=>
           /\ Len(text) = IF padded THEN width ELSE needed
           /\ padded /\ left => text[Len(text)] = sp /\ 1 \notin spaces
           /\ padded /\ ~left /\ ~zeroes => text[1] = sp /\ Len(text) \notin spaces
           /\ ~left /\ zeroes => spaces = {}
  <2>1. f.flags \cap {"align_left", "pad_zeroes"} = {} <=> ~left /\ ~zeroes  OBVIOUS
  <2>. HIDE DEF left, zeroes, spaces
  <2>. QED  BY <2>1 DEF FillsCell, sp, left, zeroes, spaces, width, needed
<1>. HIDE DEF padded, left, zeroes, spaces
<1>25. CASE left
  <2>1. text = head \o digits \o blank  BY <1>1, <1>25 DEF left
  <2>2. Len(text) = Len(head) + Len(digits) + Len(blank)
    BY <1>6, <1>7, <1>14, <2>1, ThreePieces
  <2>3. Len(text) = IF padded THEN width ELSE needed
    BY <1>16, <1>23, <2>2
  <2>4. ASSUME padded PROVE text[Len(text)] = sp /\ text[1] # sp
    <3>1. Free(sp, digits)  BY <1>9, <1>10 DEF Free
    <3>2. AllOf(sp, blank)  BY <1>18, <1>22, <2>4 DEF AllOf
    <3>3. EndsIn(sp, text)  BY <1>6, <1>7, <1>8, <1>14, <2>1, <3>1, <3>2, BlanksBehind
    <3>. QED  BY <3>3 DEF EndsIn
  <2>5. padded => text[Len(text)] = sp /\ 1 \notin spaces
    BY <2>4 DEF spaces
  <2>. QED  BY <1>24, <1>25, <2>3, <2>5
<1>26. CASE ~left /\ zeroes
  <2>1. text = head \o zero \o digits  BY <1>1, <1>26 DEF left, zeroes
  <2>2. Len(text) = Len(head) + Len(zero) + Len(digits)
    BY <1>6, <1>7, <1>15, <2>1, ThreePieces
  <2>3. Len(text) = Len(head) + Len(digits) + filled
    BY <1>10, <1>17, <1>21, <2>2
  <2>4. Len(text) = IF padded THEN width ELSE needed
    BY <1>23, <2>3
  <2>5. \A x : Occurs(x, text) <=> Occurs(x, head) \/ Occurs(x, zero) \/ Occurs(x, digits)
    BY <1>6, <1>7, <1>15, <2>1, ThreePieces
  <2>6. ~Occurs(sp, text)  BY <1>8, <1>9, <1>20, <2>5
  <2>7. spaces = {}  BY <2>6 DEF Occurs, spaces
  <2>. QED  BY <1>24, <1>26, <2>4, <2>7
<1>27. CASE ~left /\ ~zeroes
  <2>1. text = blank \o head \o digits  BY <1>1, <1>27 DEF left, zeroes
  <2>2. Len(text) = Len(blank) + Len(head) + Len(digits)
    BY <1>6, <1>7, <1>14, <2>1, ThreePieces
  <2>3. Len(text) = Len(head) + Len(digits) + filled
    BY <1>10, <1>16, <1>21, <2>2
  <2>4. Len(text) = IF padded THEN width ELSE needed
    BY <1>23, <2>3
  <2>5. ASSUME padded PROVE text[1] = sp /\ text[Len(text)] # sp
    <3>1. Free(sp, digits)  BY <1>9, <1>10 DEF Free
    <3>2. AllOf(sp, blank)  BY <1>18, <1>22, <2>5 DEF AllOf
    <3>3. BeginsWith(sp, text)  BY <1>6, <1>7, <1>14, <2>1, <3>1, <3>2, BlanksBefore
    <3>. QED  BY <3>3 DEF BeginsWith
  <2>6. padded => text[1] = sp /\ Len(text) \notin spaces
    BY <2>5 DEF spaces
  <2>. QED  BY <1>24, <1>27, <2>4, <2>6
<1>. QED  BY <1>25, <1>26, <1>27

-----------------------------------------------------------------------------
(***************************************************************************)
(* The loop over the buffers of a builder.                                  *)
(***************************************************************************)
\* l leads through the buffers from b on, and comes to none twice.
Chain(l, b) ==
    /\ l \in Seq(Buffers)
    /\ \A i, j \in 1..Len(l) : l[i] = l[j] => i = j
    /\ b = IF l = <<>> THEN NULL ELSE l[1]
    /\ \A i \in 1..Len(l) : buffer[l[i]].next = IF i < Len(l) THEN l[i + 1] ELSE NULL

\* Each link is to a buffer or to none.
LinkType == \A b \in Buffers : buffer[b].next \in Buffers \cup {NULL}

\* A step of the loop over the buffers.
LEMMA VisitedIs ==
    ASSUME LinkType, NULL \notin Buffers, NEW n \in Nat, NEW b \in Buffers \cup {NULL}
    PROVE  Visited[n][b] = IF n = 0 \/ b = NULL THEN <<>>
                           ELSE <<b>> \o Visited[n - 1][buffer[b].next]
<1>. DEFINE Nodes == Buffers \cup {NULL}
            Nothing == [c \in Nodes |-> <<>>]
            D(v, m) == [c \in Nodes |-> IF c = NULL THEN <<>> ELSE <<c>> \o v[buffer[c].next]]
<1>1. NatInductiveDefHypothesis(Visited, Nothing, D)
  BY DEF NatInductiveDefHypothesis, Visited
<1>. HIDE DEF Nothing, D
<1>2. NatInductiveDefConclusion(Visited, Nothing, D)
  BY <1>1, NatInductiveDef
<1>3. Visited[n] = IF n = 0 THEN Nothing ELSE D(Visited[n - 1], n)
  BY <1>2 DEF NatInductiveDefConclusion
<1>. QED  BY <1>3 DEF Nothing, D

\* What holds of some numbers holds of a least one: what the proofs here have
\* instead of induction.
Less == {pair \in Nat \X Nat : pair[1] < pair[2]}

LEMMA LessWellFounded == IsWellFoundedOn(Less, Nat)
BY NatLessThanWellFounded DEF OpToRel, Less

LEMMA LeastOf ==
    ASSUME NEW T \in SUBSET Nat, T # {}
    PROVE  \E x \in T : \A y \in T : x <= y
<1>1. \E x \in T : \A y \in T : ~(<<y, x>> \in Less)
  BY LessWellFounded, WFMin
<1>2. PICK x \in T : \A y \in T : ~(<<y, x>> \in Less)  BY <1>1
<1>3. x \in Nat /\ \A y \in T : y \in Nat  OBVIOUS
<1>4. \A y \in T : ~(y < x)  BY <1>2, <1>3 DEF Less
<1>5. \A y \in T : x <= y  BY <1>3, <1>4
<1>. QED  BY <1>5

\* The buffer at place i of l, or the end.
At(l, i) == IF i <= Len(l) THEN l[i] ELSE NULL

\* Counted from its end, what the loop visits is what is left of the list: else
\* there is a shortest part of which it is not true, and one step less is shorter.
LEMMA SuffixVisited ==
    ASSUME LinkType, NULL \notin Buffers, NEW l, NEW b, Chain(l, b),
           NEW j \in 0..Len(l), NEW n \in Nat, n >= j
    PROVE  Visited[n][At(l, Len(l) + 1 - j)] = SubSeq(l, Len(l) + 1 - j, Len(l))
<1>. DEFINE L == Len(l)
            Right(k, m) == Visited[m][At(l, L + 1 - k)] = SubSeq(l, L + 1 - k, L)
            Bad == {k \in 0..L : \E m \in Nat : m >= k /\ ~Right(k, m)}
<1>1. /\ l \in Seq(Buffers) /\ L \in Nat
      /\ \A i \in 1..L : l[i] \in Buffers /\ buffer[l[i]].next = At(l, i + 1)
  BY DEF Chain, At
<1>. HIDE DEF L
<1>2. \A m \in Nat : Right(0, m)
  <2>. SUFFICES ASSUME NEW m \in Nat PROVE Right(0, m)  OBVIOUS
  <2>1. At(l, L + 1) = NULL  BY <1>1 DEF At, L
  <2>2. Visited[m][NULL] = <<>>  BY VisitedIs, Zenon
  <2>3. SubSeq(l, L + 1, L) = <<>>  BY <1>1, SubSeqEmpty
  <2>4. L + 1 - 0 = L + 1  BY <1>1
  <2>. QED  BY <2>1, <2>2, <2>3, <2>4
<1>3. ASSUME NEW k \in 1..L, \A m \in Nat : m >= k - 1 => Right(k - 1, m)
      PROVE  \A m \in Nat : m >= k => Right(k, m)
  <2>. SUFFICES ASSUME NEW m \in Nat, m >= k PROVE Right(k, m)  OBVIOUS
  <2>. DEFINE i == L + 1 - k
  <2>1. i \in 1..L /\ L + 1 - (k - 1) = i + 1 /\ m - 1 \in Nat /\ m - 1 >= k - 1 /\ m # 0
    BY <1>1
  <2>. HIDE DEF i
  <2>2. Visited[m - 1][At(l, i + 1)] = SubSeq(l, i + 1, L)  BY <1>3, <2>1
  <2>3. At(l, i) = l[i] /\ l[i] \in Buffers /\ l[i] # NULL
    BY <1>1, <2>1 DEF At, L
  <2>4. Visited[m][l[i]] = <<l[i]>> \o Visited[m - 1][buffer[l[i]].next]
    BY <2>1, <2>3, VisitedIs
  <2>5. SubSeq(l, i, L) = <<l[i]>> \o SubSeq(l, i + 1, L)
    <3>1. Len(l) = L  BY DEF L
    <3>2. i \in 1..Len(l) /\ L \in i..Len(l)  BY <1>1, <2>1, <3>1
    <3>. QED  BY <1>1, <3>2, SubSeqRecursiveFirst
  <2>. QED  BY <1>1, <2>1, <2>2, <2>3, <2>4, <2>5, Zenon DEF i
<1>4. Bad = {}
  <2>. SUFFICES ASSUME Bad # {} PROVE FALSE  OBVIOUS
  <2>. HIDE DEF Right
  <2>1. Bad \in SUBSET Nat  BY <1>1
  <2>2. PICK k \in Bad : \A y \in Bad : k <= y  BY <2>1, LeastOf
  <2>3. k # 0  BY <1>2, <2>2
  <2>4. k \in 1..L /\ k - 1 \in 0..L /\ ~(k <= k - 1)  BY <1>1, <2>2, <2>3
  <2>5. k - 1 \notin Bad  BY <2>2, <2>4
  <2>6. \A m \in Nat : m >= k - 1 => Right(k - 1, m)  BY <2>4, <2>5
  <2>7. \A m \in Nat : m >= k => Right(k, m)  BY <1>3, <2>4, <2>6
  <2>. QED  BY <2>2, <2>7
<1>5. j \in 0..L  BY DEF L
<1>. HIDE DEF Right
<1>6. Right(j, n)  BY <1>4, <1>5
<1>. QED  BY <1>6 DEF Right, L

\* The list from b on is what leads through the buffers from b on.
LEMMA ChainListed ==
    ASSUME LinkType, NULL \notin Buffers, IsFiniteSet(Buffers), NEW l, NEW b, Chain(l, b)
    PROVE  ListFrom(b) = l
<1>. DEFINE L == Len(l)
            N == Cardinality(Buffers)
<1>1. l \in Seq(Buffers) /\ L \in Nat /\ l \in [1..L -> Buffers]  BY DEF Chain
<1>2. N \in Nat /\ L <= N
  <2>1. l \in Injection(1..L, Buffers)  BY <1>1 DEF Chain, Injection, IsInjective
  <2>2. N \in Nat  BY FS_CardinalityType
  <2>3. Cardinality(1..L) <= N  BY <2>1, FS_Injection
  <2>4. Cardinality(1..L) = L  BY <1>1, FS_Interval, SMTT(30)
  <2>. QED  BY <2>2, <2>3, <2>4
<1>3. L \in 0..Len(l) /\ N >= L /\ Len(l) + 1 - L = 1  BY <1>1, <1>2
<1>4. Visited[N][At(l, Len(l) + 1 - L)] = SubSeq(l, Len(l) + 1 - L, Len(l))
  <2>. HIDE DEF L, N
  <2>. QED  BY <1>2, <1>3, SuffixVisited
<1>5. Visited[N][At(l, 1)] = SubSeq(l, 1, Len(l))  BY <1>3, <1>4
<1>6. SubSeq(l, 1, Len(l)) = l  BY <1>1, SubSeqFull
<1>7. At(l, 1) = b
  <2>1. l = <<>> <=> ~(1 <= Len(l))  BY <1>1
  <2>. QED  BY <2>1 DEF Chain, At
<1>. QED  BY <1>5, <1>6, <1>7 DEF ListFrom

-----------------------------------------------------------------------------
(***************************************************************************)
(* The invariant of a builder.  While it lives its buffers are a list without  *)
(* a loop that has every buffer allocated, each with the text it was given;  *)
(* while it is destroyed the rest of that list is what is still allocated.  *)
(***************************************************************************)
\* A buffer has a link, a length and text.
BufferType ==
    buffer \in [Buffers -> [next : Buffers \cup {NULL}, length : Nat, text : Seq(Characters)]]

\* What append accepts: a string, or a format and what is printed of it.
Pieces == [text : Seq(Characters), format : Formats \cup {NULL}]

\* l is the list of a builder, and has what was accepted.
Gathered(l) ==
    /\ Chain(l, buffer_list_head)
    /\ allocated = ToSet(l)
    /\ buffer_list_tail = IF l = <<>> THEN NULL ELSE l[Len(l)]
    /\ Len(l) = Len(accepted)
    /\ \A i \in 1..Len(l) : /\ buffer[l[i]].text = accepted[i].text
                            /\ buffer[l[i]].length = Len(accepted[i].text)

\* l is what the destructor has not yet deallocated.
Remaining(l) == Chain(l, current_buffer) /\ allocated = ToSet(l)

\* What was accepted of a format is what snprintf prints of it, terminated.
PiecesAreText ==
    /\ accepted \in Seq(Pieces)
    /\ \A i \in 1..Len(accepted) :
          LET f == accepted[i].format
          IN  f # NULL => /\ f \in Formats
                          /\ accepted[i].text = Append(Printed(Directive(f), f.width, f.value), NUL)

\* The inductive invariant.
BuilderInv ==
    /\ BuilderTypeOK /\ BufferType /\ PiecesAreText
    /\ phase = "building" => \E l \in Seq(Buffers) : Gathered(l)
    /\ phase = "destroying" => \E l \in Seq(Buffers) : Remaining(l)
    /\ phase = "destroyed" /\ deallocate_buffer_list => allocated = {}

\* What a buffer is when it is written.
LEMMA LinksTyped == BufferType => LinkType
BY DEF BufferType, LinkType

LEMMA CharacterBuffer ==
    ASSUME NEW next \in Buffers \cup {NULL}, NEW text \in Seq(Characters)
    PROVE  /\ character_buffer(next, text) \in
                  [next : Buffers \cup {NULL}, length : Nat, text : Seq(Characters)]
           /\ character_buffer(next, text).next = next
           /\ character_buffer(next, text).text = text
           /\ character_buffer(next, text).length = Len(text)
BY DEF character_buffer

\* A builder that holds nothing.
LEMMA EmptyGathered ==
    /\ buffer_list_head = NULL /\ buffer_list_tail = NULL
    /\ allocated = {} /\ accepted = <<>>
    => \E l \in Seq(Buffers) : Gathered(l)
<1>. SUFFICES ASSUME buffer_list_head = NULL, buffer_list_tail = NULL, allocated = {},
                     accepted = <<>>
              PROVE  \E l \in Seq(Buffers) : Gathered(l)
  OBVIOUS
<1>. DEFINE e == <<>>
<1>1. e \in Seq(Buffers) /\ Len(e) = 0 /\ ToSet(e) = {} /\ Len(accepted) = 0
  BY DEF ToSet
<1>2. e = <<>>  OBVIOUS
<1>3. Gathered(e)  BY <1>1, <1>2 DEF Gathered, Chain
<1>. QED  BY <1>1, <1>3

\* Memory that nobody wrote to, and what the constructor makes of it.
LEMMA UntouchedType ==
    buffer = Untouched => BufferType
<1>1. <<>> \in Seq(Characters)  OBVIOUS
<1>2. character_buffer(NULL, <<>>) \in
          [next : Buffers \cup {NULL}, length : Nat, text : Seq(Characters)]
  BY <1>1, CharacterBuffer
<1>. QED  BY <1>2 DEF Untouched, BufferType

LEMMA InitBuilderInv == BuilderInit => BuilderInv
<1>. SUFFICES ASSUME BuilderInit PROVE BuilderInv  OBVIOUS
<1>. USE DEF BuilderInit
<1>1. BufferType  BY UntouchedType
<1>2. BuilderTypeOK  BY <1>1, BuilderAssumption DEF BuilderTypeOK, BufferType
<1>3. PiecesAreText  BY DEF PiecesAreText
<1>4. \E l \in Seq(Buffers) : Gathered(l)  BY EmptyGathered
<1>5. phase = "building"  OBVIOUS
<1>. QED  BY <1>1, <1>2, <1>3, <1>4, <1>5 DEF BuilderInv

\* What a construction leaves.
LEMMA ConstructPreserves ==
    ASSUME BuilderInv, NEW d \in BOOLEAN, Construct(d)
    PROVE  BuilderInv'
<1>. USE DEF Construct, Constructed
<1>1. BufferType'
  <2>1. (buffer = Untouched => BufferType)'  BY UntouchedType, PTL
  <2>2. buffer' = Untouched'  BY DEF Untouched
  <2>. QED  BY <2>1, <2>2
<1>2. BuilderTypeOK'  BY <1>1 DEF BuilderTypeOK, BufferType, BuilderInv
<1>3. PiecesAreText'  BY DEF PiecesAreText
<1>4. (\E l \in Seq(Buffers) : Gathered(l))'
  <2>1. (/\ buffer_list_head = NULL /\ buffer_list_tail = NULL
         /\ allocated = {} /\ accepted = <<>>
         => \E l \in Seq(Buffers) : Gathered(l))'
    BY EmptyGathered, PTL
  <2>. QED  BY <2>1
<1>5. phase' = "building"  OBVIOUS
<1>. QED  BY <1>1, <1>2, <1>3, <1>4, <1>5 DEF BuilderInv

\* The links and texts of the buffers that a step leaves alone.
LEMMA SameGathered ==
    ASSUME NEW l, Gathered(l),
           UNCHANGED <<buffer_list_head, buffer_list_tail, buffer, allocated, accepted>>
    PROVE  Gathered(l)'
BY DEF Gathered, Chain

\* A step that leaves the buffers and the list of a builder as they are.
LEMMA BuilderUnchanged ==
    ASSUME BuilderInv, UNCHANGED <<listVars, sizeVars, buffer, allocated, accepted>>,
           UNCHANGED current_buffer,
           UNCHANGED phase \/ phase' = "faulted"
    PROVE  BuilderInv'
<1>. USE DEF listVars, sizeVars
<1>1. BuilderTypeOK' /\ BufferType' /\ PiecesAreText'
  BY DEF BuilderInv, BuilderTypeOK, BufferType, PiecesAreText
<1>2. phase' = "building" => (\E l \in Seq(Buffers) : Gathered(l))'
  <2>. SUFFICES ASSUME phase' = "building" PROVE \E l \in Seq(Buffers) : Gathered(l)'
    OBVIOUS
  <2>1. phase = "building"  OBVIOUS
  <2>2. PICK l \in Seq(Buffers) : Gathered(l)  BY <2>1 DEF BuilderInv
  <2>3. Gathered(l)'  BY <2>2, SameGathered
  <2>. QED  BY <2>3
<1>3. phase' = "destroying" => (\E l \in Seq(Buffers) : Remaining(l))'
  <2>. SUFFICES ASSUME phase' = "destroying" PROVE \E l \in Seq(Buffers) : Remaining(l)'
    OBVIOUS
  <2>1. phase = "destroying"  OBVIOUS
  <2>2. PICK l \in Seq(Buffers) : Remaining(l)  BY <2>1 DEF BuilderInv
  <2>3. Remaining(l)'  BY <2>2 DEF Remaining, Chain
  <2>. QED  BY <2>3
<1>4. phase' = "destroyed" /\ deallocate_buffer_list' => allocated' = {}
  BY DEF BuilderInv
<1>. QED  BY <1>1, <1>2, <1>3, <1>4 DEF BuilderInv

\* The destructor's loop starts at the head, or leaves all to the stack.
LEMMA DestroyPreserves ==
    ASSUME BuilderInv, Destroy
    PROVE  BuilderInv'
<1>. USE DEF Destroy, listVars, sizeVars
<1>1. PICK l \in Seq(Buffers) : Gathered(l)  BY DEF BuilderInv
<1>2. BufferType' /\ PiecesAreText'  BY DEF BuilderInv, BufferType, PiecesAreText
<1>3. BuilderTypeOK'  BY DEF BuilderInv, BuilderTypeOK
<1>4. CASE deallocate_buffer_list
  <2>1. phase' = "destroying"  BY <1>4
  <2>2. Remaining(l)'  BY <1>1, <1>4 DEF Gathered, Remaining, Chain
  <2>. QED  BY <1>2, <1>3, <2>1, <2>2 DEF BuilderInv
<1>5. CASE ~deallocate_buffer_list
  <2>1. phase' = "destroyed" /\ ~deallocate_buffer_list'  BY <1>5
  <2>. QED  BY <1>2, <1>3, <2>1 DEF BuilderInv
<1>. QED  BY <1>4, <1>5

\* It ends when nothing is left.
LEMMA FinishDestroyPreserves ==
    ASSUME BuilderInv, FinishDestroy
    PROVE  BuilderInv'
<1>. USE DEF FinishDestroy, listVars, sizeVars
<1>1. PICK l \in Seq(Buffers) : Remaining(l)  BY DEF BuilderInv
<1>2. BufferType' /\ PiecesAreText'  BY DEF BuilderInv, BufferType, PiecesAreText
<1>3. BuilderTypeOK'  BY DEF BuilderInv, BuilderTypeOK
<1>4. l = <<>>
  <2>1. l # <<>> => l[1] \in Buffers  OBVIOUS
  <2>. QED  BY <1>1, <2>1, BuilderAssumption DEF Remaining, Chain
<1>5. allocated' = {}
  <2>1. ToSet(<<>>) = {}  BY DEF ToSet
  <2>. QED  BY <1>1, <1>4, <2>1 DEF Remaining
<1>6. phase' = "destroyed"  OBVIOUS
<1>. QED  BY <1>2, <1>3, <1>5, <1>6 DEF BuilderInv

\* What is left of a sequence without its first element.
LEMMA TailIs ==
    ASSUME NEW S, NEW l \in Seq(S), l # <<>>
    PROVE  /\ Tail(l) \in Seq(S) /\ Len(l) \in Nat \ {0} /\ Len(Tail(l)) = Len(l) - 1
           /\ \A i \in 1..(Len(l) - 1) : Tail(l)[i] = l[i + 1]
<1>1. Len(l) \in Nat \ {0}  OBVIOUS
<1>. QED  BY <1>1, HeadTailProperties

\* A buffer goes back: the rest of the list is linked as it was.
LEMMA DestroyBufferPreserves ==
    ASSUME BuilderInv, DestroyBuffer
    PROVE  BuilderInv'
<1>. USE DEF listVars, sizeVars
<1>1. PICK l \in Seq(Buffers) : Remaining(l)  BY DEF BuilderInv, DestroyBuffer
<1>2. PICK link \in Buffers \cup {NULL} :
          buffer' = [buffer EXCEPT ![current_buffer] = character_buffer(link, <<>>)]
  BY DEF DestroyBuffer
<1>3. BufferType /\ NULL \notin Buffers /\ current_buffer \in Buffers
  BY BuilderAssumption DEF BuilderInv, BuilderTypeOK, DestroyBuffer
<1>4. BufferType' /\ \A b \in Buffers \ {current_buffer} : buffer'[b] = buffer[b]
  <2>1. <<>> \in Seq(Characters)  OBVIOUS
  <2>2. character_buffer(link, <<>>) \in
            [next : Buffers \cup {NULL}, length : Nat, text : Seq(Characters)]
    BY <2>1, CharacterBuffer
  <2>. QED  BY <1>2, <1>3, <2>2 DEF BufferType
<1>5. current_buffer' = buffer[current_buffer].next
      /\ current_buffer' \in Buffers \cup {NULL}
  BY <1>3 DEF DestroyBuffer, NextBefore, BufferType
<1>6. BuilderTypeOK'
  BY <1>4, <1>5 DEF DestroyBuffer, BuilderInv, BuilderTypeOK, BufferType
<1>7. PiecesAreText'  BY DEF DestroyBuffer, BuilderInv, PiecesAreText
<1>8. /\ \A i, j \in 1..Len(l) : l[i] = l[j] => i = j
      /\ \A i \in 1..Len(l) : buffer[l[i]].next = IF i < Len(l) THEN l[i + 1] ELSE NULL
      /\ current_buffer = IF l = <<>> THEN NULL ELSE l[1]
      /\ allocated = {l[i] : i \in 1..Len(l)}
      /\ \A i \in 1..Len(l) : l[i] \in Buffers
  BY <1>1 DEF Remaining, Chain, ToSet
<1>9. l # <<>> /\ current_buffer = l[1]  BY <1>3, <1>8
<1>. DEFINE r == Tail(l)
<1>10. /\ r \in Seq(Buffers) /\ Len(l) \in Nat \ {0} /\ Len(r) = Len(l) - 1
       /\ \A i \in 1..Len(r) : i + 1 \in 1..Len(l) /\ r[i] = l[i + 1]
  BY <1>9, TailIs
<1>. HIDE DEF r
<1>11. \A i \in 1..Len(r) : r[i] # current_buffer /\ r[i] \in Buffers
  <2>. SUFFICES ASSUME NEW i \in 1..Len(r) PROVE r[i] # current_buffer /\ r[i] \in Buffers
    OBVIOUS
  <2>1. i + 1 \in 1..Len(l) /\ r[i] = l[i + 1] /\ 1 \in 1..Len(l) /\ i + 1 # 1  BY <1>10
  <2>. QED  BY <1>8, <1>9, <2>1
<1>12. Chain(r, current_buffer)'
  <2>1. \A i, j \in 1..Len(r) : r[i] = r[j] => i = j
    <3>. SUFFICES ASSUME NEW i \in 1..Len(r), NEW j \in 1..Len(r), r[i] = r[j] PROVE i = j
      OBVIOUS
    <3>1. i + 1 \in 1..Len(l) /\ j + 1 \in 1..Len(l) /\ l[i + 1] = l[j + 1]  BY <1>10
    <3>2. i + 1 = j + 1  BY <1>8, <3>1
    <3>. QED  BY <3>2
  <2>2. current_buffer' = IF r = <<>> THEN NULL ELSE r[1]
    <3>1. 1 \in 1..Len(l) /\ current_buffer' = IF 1 < Len(l) THEN l[1 + 1] ELSE NULL
      BY <1>5, <1>8, <1>9, <1>10
    <3>2. r = <<>> <=> ~(1 < Len(l))  BY <1>10
    <3>3. 1 < Len(l) => 1 \in 1..Len(r)  BY <1>10
    <3>. QED  BY <1>10, <3>1, <3>2, <3>3
  <2>3. \A i \in 1..Len(r) :
            buffer'[r[i]].next = IF i < Len(r) THEN r[i + 1] ELSE NULL
    <3>. SUFFICES ASSUME NEW i \in 1..Len(r)
                  PROVE  buffer'[r[i]].next = IF i < Len(r) THEN r[i + 1] ELSE NULL
      OBVIOUS
    <3>1. buffer'[r[i]] = buffer[r[i]]  BY <1>4, <1>11
    <3>2. i + 1 \in 1..Len(l) /\ r[i] = l[i + 1]  BY <1>10
    <3>3. buffer[l[i + 1]].next = IF i + 1 < Len(l) THEN l[i + 1 + 1] ELSE NULL
      BY <1>8, <3>2
    <3>4. (i < Len(r) <=> i + 1 < Len(l)) /\ (i < Len(r) => i + 1 \in 1..Len(r))
      BY <1>10
    <3>5. i < Len(r) => r[i + 1] = l[i + 1 + 1]  BY <1>10, <3>4
    <3>. QED  BY <3>1, <3>2, <3>3, <3>4, <3>5
  <2>. QED  BY <1>10, <2>1, <2>2, <2>3 DEF Chain
<1>13. allocated' = ToSet(r)
  <2>1. DOMAIN r = 1..Len(r)  BY <1>10
  <2>2. allocated' = allocated \ {current_buffer}  BY DEF DestroyBuffer
  <2>3. ASSUME NEW b \in allocated' PROVE b \in ToSet(r)
    <3>1. PICK i \in 1..Len(l) : l[i] = b  BY <1>8, <2>2, <2>3
    <3>2. i # 1  BY <1>9, <2>2, <2>3, <3>1
    <3>. DEFINE k == i - 1
    <3>3. k \in 1..Len(r) /\ k + 1 = i  BY <1>10, <3>2
    <3>. HIDE DEF k
    <3>4. r[k] = b  BY <1>10, <3>1, <3>3
    <3>. QED  BY <2>1, <3>3, <3>4 DEF ToSet
  <2>4. ASSUME NEW b \in ToSet(r) PROVE b \in allocated'
    <3>1. PICK i \in 1..Len(r) : r[i] = b  BY <2>1, <2>4 DEF ToSet
    <3>2. i + 1 \in 1..Len(l) /\ l[i + 1] = b  BY <1>10, <3>1
    <3>3. b # current_buffer  BY <1>11, <3>1
    <3>. QED  BY <1>8, <2>2, <3>2, <3>3
  <2>. QED  BY <2>3, <2>4
<1>14. phase' = "destroying"  BY DEF DestroyBuffer
<1>15. Remaining(r)'  BY <1>12, <1>13 DEF Remaining
<1>. QED  BY <1>4, <1>6, <1>7, <1>10, <1>14, <1>15 DEF BuilderInv

\* One more behind a sequence.
LEMMA AppendIs ==
    ASSUME NEW S, NEW s \in Seq(S), NEW e \in S
    PROVE  /\ Append(s, e) \in Seq(S) /\ Len(s) \in Nat /\ Len(Append(s, e)) = Len(s) + 1
           /\ \A i \in 1..Len(s) : Append(s, e)[i] = s[i]
           /\ Append(s, e)[Len(s) + 1] = e
BY AppendProperties

\* What is accepted comes behind all that was accepted before, in a buffer of
\* its own.
LEMMA AcceptPreserves ==
    ASSUME BuilderInv, NEW text \in Seq(Characters), NEW format \in Formats \cup {NULL},
           format # NULL => text = Append(Printed(Directive(format), format.width,
                                                  format.value), NUL),
           Accept(text, format)
    PROVE  BuilderInv'
<1>1. PICK l \in Seq(Buffers) : Gathered(l)  BY DEF BuilderInv, Accept
<1>2. PICK b \in Buffers \ allocated :
          /\ allocated' = allocated \cup {b}
          /\ buffer' = LET linked == IF buffer_list_tail = NULL THEN buffer
                                     ELSE [buffer EXCEPT ![buffer_list_tail].next = b]
                       IN  [linked EXCEPT ![b] = character_buffer(NULL, text)]
          /\ Linked(b)
  BY DEF Accept, request_buffer
<1>3. /\ phase' = "building" /\ phase = "building"
      /\ accepted' = Append(accepted, [text |-> text, format |-> format])
      /\ UNCHANGED <<length, deallocate_buffer_list, current_buffer, strings>>
      /\ buffer_list_tail' = b
      /\ buffer_list_head' = IF buffer_list_tail # NULL THEN buffer_list_head ELSE b
  BY <1>2 DEF Accept, Linked, sizeVars
<1>4. /\ BufferType /\ NULL \notin Buffers
      /\ buffer_list_tail \in Buffers \cup {NULL} /\ b \in Buffers
  BY <1>2, BuilderAssumption DEF BuilderInv, BuilderTypeOK
<1>5. /\ \A i, j \in 1..Len(l) : l[i] = l[j] => i = j
      /\ \A i \in 1..Len(l) : buffer[l[i]].next = IF i < Len(l) THEN l[i + 1] ELSE NULL
      /\ buffer_list_head = IF l = <<>> THEN NULL ELSE l[1]
      /\ allocated = {l[i] : i \in 1..Len(l)}
      /\ \A i \in 1..Len(l) : l[i] \in Buffers
      /\ buffer_list_tail = IF l = <<>> THEN NULL ELSE l[Len(l)]
      /\ Len(l) = Len(accepted)
      /\ \A i \in 1..Len(l) : /\ buffer[l[i]].text = accepted[i].text
                              /\ buffer[l[i]].length = Len(accepted[i].text)
      /\ Len(l) \in Nat /\ (l = <<>> <=> Len(l) = 0)
  BY <1>1 DEF Gathered, Chain, ToSet
<1>. DEFINE m == Append(l, b)
            n == Len(l)
<1>6. /\ m \in Seq(Buffers) /\ Len(m) = n + 1
      /\ \A i \in 1..n : m[i] = l[i]
      /\ m[n + 1] = b
  BY <1>4, AppendIs
<1>7. \A i \in 1..n : l[i] # b  BY <1>2, <1>5
<1>. HIDE DEF m
<1>8. l # <<>> => buffer_list_tail \in Buffers /\ buffer_list_tail # b
                  /\ buffer_list_tail = l[n] /\ n \in 1..n
  <2>1. l # <<>> => n \in 1..n  BY <1>5
  <2>. QED  BY <1>4, <1>5, <1>7, <2>1
<1>9. character_buffer(NULL, text) \in
          [next : Buffers \cup {NULL}, length : Nat, text : Seq(Characters)]
  BY CharacterBuffer
<1>10. /\ buffer'[b] = character_buffer(NULL, text)
       /\ l # <<>> => buffer'[buffer_list_tail] = [buffer[buffer_list_tail] EXCEPT !.next = b]
       /\ \A c \in Buffers \ {b, buffer_list_tail} : buffer'[c] = buffer[c]
       /\ BufferType'
  <2>1. CASE l = <<>>
    <3>1. buffer' = [buffer EXCEPT ![b] = character_buffer(NULL, text)]
      BY <1>2, <1>5, <2>1
    <3>. QED  BY <1>4, <1>9, <2>1, <3>1 DEF BufferType
  <2>2. CASE l # <<>>
    <3>. DEFINE middle == [buffer EXCEPT ![buffer_list_tail].next = b]
    <3>1. buffer' = [middle EXCEPT ![b] = character_buffer(NULL, text)]
      BY <1>2, <1>4, <1>8, <2>2
    <3>2. /\ middle \in [Buffers -> [next : Buffers \cup {NULL}, length : Nat,
                                     text : Seq(Characters)]]
          /\ middle[buffer_list_tail] = [buffer[buffer_list_tail] EXCEPT !.next = b]
          /\ \A c \in Buffers \ {buffer_list_tail} : middle[c] = buffer[c]
      BY <1>4, <1>8, <2>2 DEF BufferType
    <3>. HIDE DEF middle
    <3>. QED  BY <1>4, <1>8, <1>9, <2>2, <3>1, <3>2 DEF BufferType
  <2>. QED  BY <2>1, <2>2
<1>11. /\ buffer'[b].next = NULL /\ buffer'[b].text = text /\ buffer'[b].length = Len(text)
       /\ \A c \in Buffers \ {b} : /\ buffer'[c].text = buffer[c].text
                                   /\ buffer'[c].length = buffer[c].length
       /\ l # <<>> => buffer'[buffer_list_tail].next = b
       /\ \A c \in Buffers \ {b, buffer_list_tail} : buffer'[c].next = buffer[c].next
  <2>1. buffer'[b].next = NULL /\ buffer'[b].text = text /\ buffer'[b].length = Len(text)
    BY <1>10, CharacterBuffer
  <2>2. l # <<>> => /\ buffer'[buffer_list_tail].next = b
                    /\ buffer'[buffer_list_tail].text = buffer[buffer_list_tail].text
                    /\ buffer'[buffer_list_tail].length = buffer[buffer_list_tail].length
    BY <1>4, <1>8, <1>10 DEF BufferType
  <2>3. buffer_list_tail \in Buffers => l # <<>>  BY <1>4, <1>5
  <2>4. ASSUME NEW c \in Buffers \ {b}
        PROVE  buffer'[c].text = buffer[c].text /\ buffer'[c].length = buffer[c].length
    <3>1. CASE c = buffer_list_tail  BY <2>2, <2>3, <3>1
    <3>2. CASE c # buffer_list_tail  BY <1>10, <3>2
    <3>. QED  BY <3>1, <3>2
  <2>. QED  BY <1>10, <2>1, <2>2, <2>4
<1>12. Chain(m, buffer_list_head)'
  <2>1. \A i, j \in 1..Len(m) : m[i] = m[j] => i = j
    <3>. SUFFICES ASSUME NEW i \in 1..Len(m), NEW j \in 1..Len(m), m[i] = m[j] PROVE i = j
      OBVIOUS
    <3>1. (i \in 1..n \/ i = n + 1) /\ (j \in 1..n \/ j = n + 1)  BY <1>5, <1>6
    <3>. QED  BY <1>5, <1>6, <1>7, <3>1
  <2>2. buffer_list_head' = IF m = <<>> THEN NULL ELSE m[1]
    <3>1. m # <<>>  BY <1>5, <1>6
    <3>2. CASE l = <<>>
      <4>1. n + 1 = 1  BY <1>5, <3>2
      <4>. QED  BY <1>3, <1>5, <1>6, <3>1, <3>2, <4>1
    <3>3. CASE l # <<>>
      <4>1. 1 \in 1..n  BY <1>5, <3>3
      <4>. QED  BY <1>3, <1>4, <1>5, <1>6, <1>8, <3>1, <3>3, <4>1
    <3>. QED  BY <3>2, <3>3
  <2>3. ASSUME NEW i \in 1..Len(m)
        PROVE  buffer'[m[i]].next = IF i < Len(m) THEN m[i + 1] ELSE NULL
    <3>1. CASE i = n + 1
      <4>1. ~(i < Len(m))  BY <1>5, <1>6, <3>1
      <4>. QED  BY <1>6, <1>11, <3>1, <4>1
    <3>2. CASE i = n
      <4>1. i \in 1..n /\ l # <<>> /\ i < Len(m)  BY <1>5, <1>6, <3>2
      <4>2. m[i] = buffer_list_tail  BY <1>5, <1>6, <3>2, <4>1
      <4>. QED  BY <1>6, <1>11, <3>2, <4>1, <4>2
    <3>3. CASE i # n /\ i # n + 1
      <4>1. /\ i \in 1..n /\ n \in 1..n /\ l # <<>> /\ i < Len(m)
            /\ i < n /\ i + 1 \in 1..n
        BY <1>5, <1>6, <3>3
      <4>2. m[i] = l[i] /\ m[i + 1] = l[i + 1]  BY <1>6, <4>1
      <4>3. l[i] \in Buffers \ {b, buffer_list_tail}  BY <1>5, <1>7, <1>8, <3>3, <4>1
      <4>4. buffer'[l[i]].next = buffer[l[i]].next  BY <1>11, <4>3
      <4>. QED  BY <1>5, <4>1, <4>2, <4>4
    <3>. QED  BY <3>1, <3>2, <3>3
  <2>. QED  BY <1>6, <2>1, <2>2, <2>3 DEF Chain
<1>13. /\ accepted \in Seq(Pieces) /\ [text |-> text, format |-> format] \in Pieces
  BY DEF BuilderInv, PiecesAreText, Pieces
<1>14. /\ accepted' \in Seq(Pieces) /\ Len(accepted') = n + 1
       /\ \A i \in 1..n : accepted'[i] = accepted[i]
       /\ accepted'[n + 1] = [text |-> text, format |-> format]
  <2>. DEFINE piece == [text |-> text, format |-> format]
  <2>1. piece \in Pieces /\ accepted' = Append(accepted, piece) /\ n = Len(accepted)
    BY <1>3, <1>5, <1>13
  <2>. HIDE DEF piece, n
  <2>2. /\ Append(accepted, piece) \in Seq(Pieces)
        /\ Len(Append(accepted, piece)) = Len(accepted) + 1
        /\ \A i \in 1..Len(accepted) : Append(accepted, piece)[i] = accepted[i]
        /\ Append(accepted, piece)[Len(accepted) + 1] = piece
    BY <1>13, <2>1, AppendIs
  <2>. QED  BY <2>1, <2>2 DEF piece
<1>15. Gathered(m)'
  <2>1. allocated' = ToSet(m)
    <3>1. DOMAIN m = 1..(n + 1)  BY <1>6
    <3>2. ASSUME NEW c \in allocated' PROVE c \in ToSet(m)
      <4>1. CASE c = b
        <5>1. n + 1 \in 1..(n + 1)  BY <1>5
        <5>. QED  BY <1>6, <3>1, <4>1, <5>1 DEF ToSet
      <4>2. CASE c # b
        <5>1. PICK i \in 1..n : l[i] = c  BY <1>2, <1>5, <3>2, <4>2
        <5>2. i \in 1..(n + 1)  BY <1>5
        <5>. QED  BY <1>6, <3>1, <5>1, <5>2 DEF ToSet
      <4>. QED  BY <4>1, <4>2
    <3>3. ASSUME NEW c \in ToSet(m) PROVE c \in allocated'
      <4>1. PICK i \in 1..(n + 1) : m[i] = c  BY <3>1, <3>3 DEF ToSet
      <4>2. i \in 1..n \/ i = n + 1  BY <1>5
      <4>. QED  BY <1>2, <1>5, <1>6, <4>1, <4>2
    <3>. QED  BY <3>2, <3>3
  <2>2. buffer_list_tail' = IF m = <<>> THEN NULL ELSE m[Len(m)]
    BY <1>3, <1>5, <1>6
  <2>3. ASSUME NEW i \in 1..Len(m)
        PROVE  /\ buffer'[m[i]].text = accepted'[i].text
               /\ buffer'[m[i]].length = Len(accepted'[i].text)
    <3>1. CASE i = n + 1
      <4>1. accepted'[i].text = text  BY <1>14, <3>1
      <4>. QED  BY <1>6, <1>11, <3>1, <4>1
    <3>2. CASE i # n + 1
      <4>1. i \in 1..n  BY <1>5, <1>6, <3>2
      <4>2. l[i] \in Buffers \ {b}  BY <1>5, <1>7, <4>1
      <4>. QED  BY <1>5, <1>6, <1>11, <1>14, <4>1, <4>2, SMTT(30)
    <3>. QED  BY <3>1, <3>2
  <2>. QED  BY <1>6, <1>12, <1>14, <2>1, <2>2, <2>3 DEF Gathered
<1>16. PiecesAreText'
  <2>1. ASSUME NEW i \in 1..Len(accepted'), accepted'[i].format # NULL
        PROVE  LET f == accepted'[i].format
               IN  /\ f \in Formats
                   /\ accepted'[i].text = Append(Printed(Directive(f), f.width, f.value), NUL)
    <3>1. CASE i = n + 1
      <4>1. accepted'[i].text = text /\ accepted'[i].format = format  BY <1>14, <3>1
      <4>. QED  BY <2>1, <4>1
    <3>2. CASE i # n + 1
      <4>1. i \in 1..Len(accepted) /\ accepted'[i] = accepted[i]  BY <1>5, <1>14, <3>2
      <4>. QED  BY <2>1, <4>1 DEF BuilderInv, PiecesAreText
    <3>. QED  BY <3>1, <3>2
  <2>. QED  BY <1>14, <2>1 DEF PiecesAreText
<1>17. BuilderTypeOK'
  <2>1. /\ phase' = "building"
        /\ {buffer_list_head', buffer_list_tail', current_buffer'} \subseteq Buffers \cup {NULL}
        /\ length' \in Garbage /\ deallocate_buffer_list' \in BOOLEAN
        /\ allocated' \subseteq Buffers
    BY <1>2, <1>3, <1>4 DEF BuilderInv, BuilderTypeOK
  <2>2. \A c \in Buffers :
            buffer'[c].next \in Buffers \cup {NULL} /\ buffer'[c].length \in Nat
    BY <1>10 DEF BufferType
  <2>. QED  BY <2>1, <2>2 DEF BuilderTypeOK
<1>. QED  BY <1>3, <1>6, <1>10, <1>15, <1>16, <1>17 DEF BuilderInv

\* The list of a builder is what its buffers lead through.
LEMMA GatheredList ==
    ASSUME BuilderInv, NEW l \in Seq(Buffers), Gathered(l)
    PROVE  ListFrom(buffer_list_head) = l
<1>1. LinkType /\ NULL \notin Buffers /\ IsFiniteSet(Buffers)
  BY LinksTyped, BuilderAssumption DEF BuilderInv
<1>. QED  BY <1>1, ChainListed DEF Gathered

\* Every step keeps the invariant.
LEMMA NextBuilderInv ==
    ASSUME BuilderInv, [BuilderNext]_builderVars
    PROVE  BuilderInv'
<1>1. ASSUME NEW b \in BOOLEAN, Construct(b) PROVE BuilderInv'
  BY <1>1, ConstructPreserves
<1>2. ASSUME NEW text \in Texts, AppendString(text) PROVE BuilderInv'
  <2>1. text \in Seq(Characters)  BY BuilderAssumption
  <2>2. Accept(text, NULL)  BY <1>2 DEF AppendString
  <2>. QED  BY <2>1, <2>2, AcceptPreserves
<1>3. ASSUME NEW f \in Formats, AppendFormat(f) PROVE BuilderInv'
  <2>. DEFINE printed == Printed(Directive(f), f.width, f.value)
              text == Append(printed, NUL)
  <2>1. IsFormat(f)  BY BuilderAssumption
  <2>2. printed \in Seq(Characters)  BY <2>1, PrintedText DEF IsFormat
  <2>3. Accept(text, f)  BY <1>3 DEF AppendFormat
  <2>4. text = Append(Printed(Directive(f), f.width, f.value), NUL)  OBVIOUS
  <2>. HIDE DEF printed
  <2>5. NUL \in Characters  BY NoSpace
  <2>6. Append(printed, NUL) \in Seq(Characters)  BY <2>2, <2>5, AppendIs
  <2>7. text \in Seq(Characters)  BY <2>6
  <2>. HIDE DEF text
  <2>. QED  BY <2>3, <2>4, <2>7, AcceptPreserves
<1>4. CASE UNCHANGED builderVars
  <2>1. /\ UNCHANGED <<listVars, sizeVars, buffer, allocated, accepted>>
        /\ UNCHANGED current_buffer /\ UNCHANGED phase
    BY <1>4 DEF builderVars
  <2>. QED  BY <2>1, BuilderUnchanged
<1>5. ASSUME AppendFails \/ BuildNothing PROVE BuilderInv'
  BY <1>4, <1>5 DEF AppendFails, BuildNothing
<1>6. ASSUME AppendNull \/ BuildOverruns \/ DestroyString PROVE BuilderInv'
  <2>1. /\ UNCHANGED <<listVars, sizeVars, buffer, allocated, accepted>>
        /\ UNCHANGED current_buffer /\ phase' = "faulted"
    BY <1>6 DEF AppendNull, BuildOverruns, DestroyString
  <2>. QED  BY <2>1, BuilderUnchanged
<1>7. ASSUME BuildString PROVE BuilderInv'
  <2>1. /\ UNCHANGED <<listVars, sizeVars, buffer, allocated, accepted>>
        /\ UNCHANGED current_buffer /\ UNCHANGED phase
    BY <1>7 DEF BuildString
  <2>. QED  BY <2>1, BuilderUnchanged
<1>8. ASSUME Destroy PROVE BuilderInv'  BY <1>8, DestroyPreserves
<1>9. ASSUME DestroyBuffer PROVE BuilderInv'  BY <1>9, DestroyBufferPreserves
<1>10. ASSUME FinishDestroy PROVE BuilderInv'  BY <1>10, FinishDestroyPreserves
<1>. QED  BY <1>1, <1>2, <1>3, <1>4, <1>5, <1>6, <1>7, <1>8, <1>9, <1>10 DEF BuilderNext

(***************************************************************************)
(* Whatever is appended, refused, made into strings and destroyed, and however  *)
(* often: the buffers of a string_builder are the list that its head leads to,  *)
(* and what was accepted is in them.                                        *)
(***************************************************************************)
THEOREM BuilderInvHolds == BuilderSpec => []BuilderInv
BY InitBuilderInv, NextBuilderInv, PTL DEF BuilderSpec

(***************************************************************************)
(* Every text that append returned true for is in the list of a string_builder  *)
(* once, in order and unchanged, and request_buffer links the next behind it.  *)
(***************************************************************************)
THEOREM PiecesInOrderHolds == BuilderSpec => []PiecesInOrder
<1>1. BuilderInv => PiecesInOrder
  <2>. SUFFICES ASSUME BuilderInv, phase = "building"
                PROVE  LET list == ListFrom(buffer_list_head)
                       IN  /\ Len(list) = Len(accepted)
                           /\ \A i \in DOMAIN list : buffer[list[i]].text = accepted[i].text
                           /\ buffer_list_tail = IF list = <<>> THEN NULL ELSE Last(list)
    BY DEF PiecesInOrder
  <2>1. PICK l \in Seq(Buffers) : Gathered(l)  BY DEF BuilderInv
  <2>2. ListFrom(buffer_list_head) = l  BY <2>1, GatheredList
  <2>. QED  BY <2>1, <2>2 DEF Gathered, Last
<1>. QED  BY <1>1, BuilderInvHolds, PTL

(***************************************************************************)
(* ~string_builder gives each of its buffers back once, reads none that has  *)
(* gone back, and leaves none: at each step the ones still allocated are those  *)
(* the rest of the list leads to.                                           *)
(***************************************************************************)
THEOREM BuffersAccountedHolds == BuilderSpec => []BuffersAccounted
<1>1. BuilderInv => BuffersAccounted
  <2>. SUFFICES ASSUME BuilderInv PROVE BuffersAccounted  OBVIOUS
  <2>1. ASSUME phase = "building" PROVE allocated = ToSet(ListFrom(buffer_list_head))
    <3>1. PICK l \in Seq(Buffers) : Gathered(l)  BY <2>1 DEF BuilderInv
    <3>2. ListFrom(buffer_list_head) = l  BY <3>1, GatheredList
    <3>. QED  BY <3>1, <3>2 DEF Gathered
  <2>2. ASSUME phase = "destroying" PROVE allocated = ToSet(ListFrom(current_buffer))
    <3>1. PICK l \in Seq(Buffers) : Remaining(l)  BY <2>2 DEF BuilderInv
    <3>2. LinkType /\ NULL \notin Buffers /\ IsFiniteSet(Buffers)
      BY LinksTyped, BuilderAssumption DEF BuilderInv
    <3>3. ListFrom(current_buffer) = l  BY <3>1, <3>2, ChainListed DEF Remaining
    <3>. QED  BY <3>1, <3>3 DEF Remaining
  <2>. QED  BY <2>1, <2>2 DEF BuilderInv, BuffersAccounted
<1>. QED  BY <1>1, BuilderInvHolds, PTL

(***************************************************************************)
(* The directive that format builds for an integer makes snprintf fill the cell  *)
(* that was asked for: as wide as the width or as its sign, prefix and digits  *)
(* need, with blanks at the side the alignment says or zeroes between.      *)
(***************************************************************************)
THEOREM CellsFilledHolds == BuilderSpec => []CellsFilled
<1>1. BuilderInv => CellsFilled
  <2>. SUFFICES ASSUME BuilderInv, NEW i \in DOMAIN accepted,
                       accepted[i].format # NULL, ~accepted[i].format.floating_point
                PROVE  FillsCell(accepted[i].format,
                                 SubSeq(accepted[i].text, 1, Len(accepted[i].text) - 1))
    BY DEF CellsFilled
  <2>. DEFINE f == accepted[i].format
              printed == Printed(Directive(f), f.width, f.value)
  <2>1. i \in 1..Len(accepted)  BY DEF BuilderInv, PiecesAreText
  <2>2. f \in Formats /\ accepted[i].text = Append(printed, NUL)
    BY <2>1 DEF BuilderInv, PiecesAreText
  <2>3. IsFormat(f) /\ ~f.floating_point  BY <2>2, BuilderAssumption
  <2>. HIDE DEF f
  <2>4. FillsCell(f, printed)  BY <2>3, IntegerFormat, PrintedFills
  <2>5. printed \in Seq(Characters)  BY <2>3, PrintedText DEF IsFormat
  <2>. HIDE DEF printed
  <2>6. SubSeq(Append(printed, NUL), 1, Len(Append(printed, NUL)) - 1) = printed
    <3>1. NUL \in Characters  BY NoSpace
    <3>2. /\ Len(printed) \in Nat /\ Append(printed, NUL) \in Seq(Characters)
          /\ Len(Append(printed, NUL)) = Len(printed) + 1
          /\ \A k \in 1..Len(printed) : Append(printed, NUL)[k] = printed[k]
      BY <2>5, <3>1, AppendIs
    <3>. QED  BY <2>5, <3>2
  <2>. QED  BY <2>2, <2>4, <2>6 DEF f
<1>. QED  BY <1>1, BuilderInvHolds, PTL
=============================================================================
