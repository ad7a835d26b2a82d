----------------------- MODULE RegionAllocatorProofs ------------------------
(***************************************************************************)
(* Proofs about the allocators that carve blocks out of a memory_region of *)
(* their own: linear_allocator, for every region size, block size,         *)
(* alignment, page size and width of std::size_t, and heap_allocator with  *)
(* its pools, for every number and size of arenas and of pools.            *)
(***************************************************************************)
EXTENDS LinearAllocator, HeapAllocator, TLAPS, NaturalsInduction,
        WellFoundedInduction

-----------------------------------------------------------------------------
(* Growing a region that stays below the end of the address space.          *)

\* The bytes a region was grown by are committed.
Backed ==
    /\ region \in [{Region} -> [max_size : Nat, current_size : Nat,
                                memory : {NULL, Base}]]
    /\ committed \in [{Base} -> SUBSET Nat]
    /\ 0..(Memory!PageCount(get_size) - 1) \subseteq committed[Base]

\* The pages that a region of n bytes commits reach its last byte.
LEMMA PagesReach ==
    ASSUME NEW n \in Nat \ {0}, n + PageSize < Word
    PROVE  /\ Memory!PageCount(n) \in Nat \ {0}
           /\ \A o \in 0..(n - 1) : o \div PageSize \in 0..(Memory!PageCount(n) - 1)
<1>. DEFINE q == (n - 1) \div PageSize
            m == (n - 1) % PageSize
<1>1. /\ PageSize \in Nat \ {0} /\ Word \in Nat \ {0}
      /\ n \in Nat \ {0} /\ n + PageSize < Word
  BY RegionAssumption
<1>2. q \in Nat /\ m \in 0..(PageSize - 1) /\ n - 1 = q * PageSize + m
  <2>1. n - 1 \in Nat
    BY <1>1
  <2>. QED  BY <1>1, <2>1
<1>3. (n - 1) % Word = n - 1
  BY <1>1
<1>4. n + (PageSize - 1) - m = (q + 1) * PageSize
  BY <1>1, <1>2
<1>5. (q + 1) * PageSize \in Nat /\ (q + 1) * PageSize < Word
  BY <1>1, <1>2, <1>4
<1>6. ((q + 1) * PageSize) % Word = (q + 1) * PageSize
  BY <1>1, <1>5
<1>7. Memory!RoundUp(n, PageSize) = (q + 1) * PageSize
  BY <1>3, <1>4, <1>6 DEF Memory!RoundUp
<1>8. ((q + 1) * PageSize) \div PageSize = q + 1
  BY <1>1, <1>2
<1>9. Memory!PageCount(n) = q + 1
  BY <1>1, <1>7, <1>8 DEF Memory!PageCount, Memory!MultipleOf
<1>10. ASSUME NEW o \in 0..(n - 1)
       PROVE  o \div PageSize \in 0..q
  <2>. DEFINE k == o \div PageSize
  <2>1. k \in Nat /\ o % PageSize \in 0..(PageSize - 1)
        /\ o = k * PageSize + (o % PageSize)
    <3>1. o \in Nat
      BY <1>1
    <3>. QED  BY <1>1, <3>1
  <2>2. CASE q < k
    <3>1. q * PageSize + PageSize <= k * PageSize
      BY <1>1, <1>2, <2>1, <2>2
    <3>2. k * PageSize \in Nat /\ q * PageSize \in Nat
      BY <1>1, <1>2, <2>1
    <3>. QED  BY <1>1, <1>2, <2>1, <3>1, <3>2
  <2>. QED  BY <1>2, <2>1, <2>2
<1>. QED  BY <1>2, <1>9, <1>10

LEMMA PageCountType ==
    ASSUME NEW n \in Nat, n + PageSize < Word
    PROVE  Memory!PageCount(n) \in Nat
<1>1. CASE n = 0
  BY <1>1 DEF Memory!PageCount
<1>2. CASE n # 0
  BY <1>2, PagesReach
<1>. QED  BY <1>1, <1>2

\* What the owner can read.
LEMMA BytesReadable ==
    Backed /\ get_size + PageSize < Word => \A o \in 0..(get_size - 1) : Readable(o)
<1>. SUFFICES ASSUME Backed, get_size + PageSize < Word, NEW o \in 0..(get_size - 1)
              PROVE  Readable(o)
  OBVIOUS
<1>1. get_size \in Nat /\ get_size # 0 /\ get_size \in Nat \ {0}
  BY DEF Backed, get_size
<1>2. o \div PageSize \in 0..(Memory!PageCount(get_size) - 1)
  BY <1>1, PagesReach
<1>. QED  BY <1>2 DEF Backed, Readable

\* A region that was constructed, and one that is left alone.
LEMMA RegionStarts ==
    ASSUME NEW n \in Nat, RegionInit(n)
    PROVE  Backed /\ get_size = 0 /\ region[Region].max_size = n
<1>1. get_size = 0 /\ region[Region].max_size = n
  BY DEF RegionInit, Memory!Fresh, get_size
<1>2. Memory!PageCount(get_size) = 0
  BY <1>1 DEF Memory!PageCount
<1>. QED  BY <1>1, <1>2 DEF RegionInit, Memory!Fresh, Backed

LEMMA RegionLeft ==
    ASSUME UNCHANGED <<region, committed>>
    PROVE  get_size' = get_size /\ Backed' = Backed
<1>1. get_size' = get_size
  BY DEF get_size
<1>2. Memory!PageCount(get_size)' = Memory!PageCount(get_size)
  BY <1>1 DEF Memory!PageCount, Memory!MultipleOf, Memory!RoundUp
<1>. QED  BY <1>1, <1>2 DEF Backed

\* A grow by n bytes: all of them or none.
LEMMA GrowsWhole ==
    ASSUME NEW n \in Nat, Backed, get_size + n + PageSize < Word,
           Memory!Grow(Region, n)
    PROVE  /\ Backed'
           /\ region'[Region].max_size = region[Region].max_size
           /\ \/ last'.result = NULL /\ get_size' = get_size
              \/ last'.result = Base /\ get_size' = get_size + n
<1>. DEFINE size == get_size
            old == Memory!PageCount(size)
            new == Memory!PageCount(size + n)
            r == region[Region]
<1>1. PICK base \in Memory!LazyBases(Region), granted \in BOOLEAN :
          Memory!GrowFrom(Region, n, base, granted)
  BY DEF Memory!Grow
<1>2. /\ r \in [max_size : Nat, current_size : Nat, memory : {NULL, Base}]
      /\ size \in Nat /\ r.current_size = size
      /\ PageSize \in Nat \ {0} /\ Word \in Nat \ {0} /\ NULL # Base
  BY RegionAssumption DEF Backed, get_size
<1>3. base \in {NULL, Base}
  BY <1>2 DEF Memory!LazyBases, Memory!ReserveOutcomes, Memory!FreeAddresses
<1>4. size + n \in Nat /\ (n + size) % Word = size + n
      /\ size + PageSize < Word /\ size + n + PageSize < Word
  BY <1>2
<1>5. old \in Nat /\ new \in Nat
  BY <1>2, <1>4, PageCountType
<1>6. committed \in [{Base} -> SUBSET Nat] /\ 0..(old - 1) \subseteq committed[Base]
  BY DEF Backed
<1>7. CASE base = NULL \/ Memory!Exhausted(Region, n)
  <2>1. /\ region' = [region EXCEPT ![Region].memory = base]
        /\ Memory!Call("grow", Region, n, NULL)
        /\ committed' = committed
    BY <1>1, <1>7 DEF Memory!GrowFrom
  <2>2. region'[Region] = [r EXCEPT !.memory = base]
        /\ region' \in [{Region} -> [max_size : Nat, current_size : Nat,
                                     memory : {NULL, Base}]]
    BY <1>2, <1>3, <2>1 DEF Backed
  <2>3. get_size' = size /\ region'[Region].max_size = r.max_size
    BY <1>2, <2>2 DEF get_size
  <2>4. last'.result = NULL
    BY <2>1 DEF Memory!Call
  <2>5. Backed'
    BY <1>6, <2>1, <2>2, <2>3 DEF Backed
  <2>. QED  BY <2>3, <2>4, <2>5
<1>8. CASE base # NULL /\ ~Memory!Exhausted(Region, n)
  <2>. DEFINE ok == new > old => granted
  <2>1. /\ region' = [region EXCEPT ![Region] =
                [@ EXCEPT !.memory = base,
                          !.current_size = Memory!SizeAfterCommit(Region, n, ok)]]
        /\ Memory!Call("grow", Region, n, IF ok THEN base ELSE NULL)
        /\ committed' = IF ok /\ new > old
                        THEN Memory!CommitPages(base, old, new) ELSE committed
    BY <1>1, <1>2, <1>4, <1>8 DEF Memory!GrowFrom
  <2>2. Memory!SizeAfterCommit(Region, n, ok) = IF ok THEN size + n ELSE size
    BY <1>2, <1>4 DEF Memory!SizeAfterCommit
  <2>3. /\ region'[Region] = [r EXCEPT !.memory = base,
                                       !.current_size = IF ok THEN size + n ELSE size]
        /\ region' \in [{Region} -> [max_size : Nat, current_size : Nat,
                                     memory : {NULL, Base}]]
    BY <1>2, <1>3, <1>4, <2>1, <2>2 DEF Backed
  <2>4. get_size' = (IF ok THEN size + n ELSE size)
        /\ region'[Region].max_size = r.max_size
    BY <1>2, <2>3 DEF get_size
  <2>5. last'.result = IF ok THEN base ELSE NULL
    BY <2>1 DEF Memory!Call
  <2>6. committed' \in [{Base} -> SUBSET Nat]
    BY <1>3, <1>5, <1>6, <1>8, <2>1 DEF Memory!CommitPages
  <2>7. CASE ok
    <3>1. get_size' = size + n
      BY <2>4, <2>7
    <3>2. 0..(new - 1) \subseteq committed'[Base]
      <4>1. CASE new > old
        <5>1. committed'[Base] = committed[Base] \cup old..(new - 1)
          BY <1>3, <1>6, <1>8, <2>1, <2>7, <4>1 DEF Memory!CommitPages
        <5>. QED  BY <1>5, <1>6, <5>1
      <4>2. CASE ~(new > old)
        BY <1>5, <1>6, <2>1, <4>2
      <4>. QED  BY <4>1, <4>2
    <3>3. Memory!PageCount(get_size)' = new
      BY <3>1 DEF Memory!PageCount, Memory!MultipleOf, Memory!RoundUp
    <3>4. Backed'
      BY <2>3, <2>6, <3>2, <3>3 DEF Backed
    <3>. QED  BY <1>3, <1>8, <2>4, <2>5, <2>7, <3>1, <3>4
  <2>8. CASE ~ok
    <3>1. get_size' = size /\ committed' = committed
      BY <2>1, <2>4, <2>8
    <3>2. Backed'
      BY <1>6, <2>3, <3>1 DEF Backed
    <3>. QED  BY <2>4, <2>5, <2>8, <3>1, <3>2
  <2>. QED  BY <2>7, <2>8
<1>. QED  BY <1>7, <1>8

-----------------------------------------------------------------------------
(* linear_allocator: the invariant.                                         *)

\* The region before it is claimed.
Unclaimed ==
    /\ \E n \in RegionSizes : region = [r \in {Region} |-> Memory!Fresh(n)]
    /\ Backed
    /\ memory = NULL /\ memory_offset = 0 /\ blocks = {} /\ called.op = "none"

\* The region after it was claimed: all of it or nothing.
Claimed ==
    /\ get_size \in Nat
    /\ memory = NULL => get_size = 0 /\ memory_offset = 0 /\ blocks = {}
    /\ memory # NULL => \A o \in 0..(get_size - 1) : Readable(o)

\* A block lies in the region, unless its size wrapped around.
Within(b) == b.offset + b.size < Word => b.offset + b.size < get_size

\* After push_marker, the word at the marker is the marker before it.
MarkerStored ==
    called.op = "push" =>
        /\ current_marker = called.offset /\ called.offset # 0
        /\ word[StoredAt(current_marker)] = called.marker

LinearInv ==
    /\ LinearTypeOK
    /\ status = "new" => Unclaimed
    /\ status = "ready" => Claimed /\ MarkerStored /\ \A b \in blocks : Within(b)

-----------------------------------------------------------------------------
(* linear_allocator: offsets.                                               *)

LEMMA OffsetTypes ==
    /\ Offsets \subseteq Nat /\ 0 \in Offsets
    /\ Sizes \subseteq Nat /\ Garbage \subseteq Offsets /\ Written \subseteq Offsets
BY AddressAssumption, RegionAssumption DEF Offsets

LEMMA RequestedType ==
    ASSUME LinearTypeOK, NEW offset \in Offsets, NEW alignment \in Alignments \cup {WordWidth}
    PROVE  Requested(offset, alignment) \in Offsets
<1>1. Address(offset) \in Nat /\ (memory = NULL => Address(0) = 0)
      /\ Address(0) \in Nat
  BY AddressAssumption, RegionAssumption, OffsetTypes DEF Address, LinearTypeOK
<1>2. alignment \in Nat \ {0} /\ Word \in Nat \ {0}
  BY AddressAssumption, RegionAssumption
<1>3. (Address(offset) + alignment - 1) % Word \in Nat
  BY <1>1, <1>2
<1>4. AlignPointer(Address(offset), alignment) \in Nat
  <2>1. ((Address(offset) + alignment - 1) % Word) \div alignment \in Nat
    BY <1>2, <1>3
  <2>. QED  BY <1>2, <2>1 DEF AlignPointer
<1>. QED  BY <1>1, <1>2, <1>4 DEF Requested, Distance, Offsets

-----------------------------------------------------------------------------
(* linear_allocator: claiming the region.                                   *)

LEMMA ClaimKeeps ==
    ASSUME LinearInv, Claim
    PROVE  LinearInv'
<1>1. PICK n \in RegionSizes : region = [r \in {Region} |-> Memory!Fresh(n)]
  BY DEF LinearInv, Claim, Unclaimed
<1>2. /\ Backed /\ memory_offset' = 0 /\ blocks' = {} /\ called'.op = "none"
      /\ status' = "ready" /\ memory' = last'.result
  BY DEF LinearInv, Claim, Unclaimed
<1>3. /\ region[Region].max_size = n /\ get_size = 0 /\ region[Region].current_size = 0
      /\ n \in Nat /\ n + PageSize < Word
  BY <1>1, AddressAssumption, RegionAssumption DEF Memory!Fresh, get_size
<1>4. CASE Memory!ClaimNothing(Region)
  <2>1. last'.result = NULL /\ region' = region
    BY <1>4 DEF Memory!ClaimNothing, Memory!Call
  <2>2. get_size' = 0
    BY <1>3, <2>1 DEF get_size
  <2>3. Claimed' /\ memory' = NULL
    BY <1>2, <2>1, <2>2 DEF Claimed
  <2>. QED  BY <1>2, <2>3 DEF LinearInv, LinearTypeOK, Claim, MarkerStored
<1>5. CASE Memory!ClaimRest(Region)
  <2>1. Memory!Grow(Region, n)
    <3>1. n - 0 = n
      BY <1>3
    <3>. QED  BY <1>3, <1>5, <3>1 DEF Memory!ClaimRest
  <2>2. get_size + n + PageSize < Word /\ get_size + n = n
    BY <1>3
  <2>3. /\ Backed'
        /\ \/ last'.result = NULL /\ get_size' = 0
           \/ last'.result = Base /\ get_size' = n
    BY <1>2, <1>3, <2>1, <2>2, GrowsWhole
  <2>4. CASE last'.result = NULL /\ get_size' = 0
    <3>1. Claimed' /\ memory' = NULL
      BY <1>2, <2>4 DEF Claimed
    <3>. QED  BY <1>2, <3>1 DEF LinearInv, LinearTypeOK, Claim, MarkerStored
  <2>5. CASE last'.result = Base /\ get_size' = n
    <3>1. (\A o \in 0..(get_size - 1) : Readable(o))'
      <4>1. (Backed /\ get_size + PageSize < Word =>
                 \A o \in 0..(get_size - 1) : Readable(o))'
        BY BytesReadable, PTL
      <4>. QED  BY <1>3, <2>3, <2>5, <4>1
    <3>2. Claimed' /\ memory' = Base
      BY <1>2, <1>3, <2>5, <3>1, RegionAssumption DEF Claimed
    <3>. QED  BY <1>2, <3>2 DEF LinearInv, LinearTypeOK, Claim, MarkerStored
  <2>. QED  BY <2>3, <2>4, <2>5
<1>. QED  BY <1>4, <1>5 DEF Claim

-----------------------------------------------------------------------------
(* The allocator at work.  The region is not touched until it is destroyed. *)

\* A step of a ready allocator that leaves it ready.
LEMMA Working ==
    ASSUME LinearInv, status = "ready", UNCHANGED <<region, committed, status, memory>>,
           memory_offset' \in Offsets, current_marker' \in Offsets,
           word' \in [Offsets -> Offsets], MarkerStored',
           memory = NULL => memory_offset' = 0 /\ blocks' = {},
           \A b \in blocks' : Within(b) /\ b \in [offset : Offsets, size : Sizes]
    PROVE  LinearInv'
<1>1. LinearTypeOK' /\ get_size' = get_size
  BY DEF LinearInv, LinearTypeOK, get_size
<1>2. Claimed'
  <2>1. \A o : Readable(o)' <=> Readable(o)
    BY DEF Readable
  <2>. QED  BY <1>1, <2>1 DEF LinearInv, Claimed
<1>3. \A b \in blocks' : Within(b)'
  BY <1>1 DEF Within
<1>. QED  BY <1>1, <1>2, <1>3 DEF LinearInv

\* What Fits means for a block that is handed out.
LEMMA FitsWithin ==
    ASSUME LinearInv, status = "ready", NEW size \in Sizes, NEW alignment \in Alignments,
           Fits(size, alignment)
    PROVE  /\ memory # NULL
           /\ LET x == Requested(memory_offset, alignment)
              IN  x + size < Word => x + size < get_size
<1>. DEFINE x == Requested(memory_offset, alignment)
<1>1. x \in Nat /\ size \in Nat /\ Word \in Nat \ {0} /\ get_size \in Nat
  BY RequestedType, OffsetTypes, AddressAssumption, RegionAssumption DEF LinearInv, LinearTypeOK, Claimed
<1>2. (x + size) % Word < get_size
  BY DEF Fits
<1>. HIDE DEF x
<1>3. (x + size) % Word \in Nat
  BY <1>1
<1>4. get_size # 0
  BY <1>1, <1>2, <1>3
<1>5. x + size < Word => (x + size) % Word = x + size
  BY <1>1
<1>. QED  BY <1>1, <1>2, <1>4, <1>5 DEF x, LinearInv, Claimed

LEMMA AllocateKeeps ==
    ASSUME LinearInv, NEW size \in Sizes, NEW alignment \in Alignments,
           AllocateBlock(size, alignment)
    PROVE  LinearInv'
<1>. DEFINE x == Requested(memory_offset, alignment)
            b == [offset |-> x, size |-> size]
<1>1. /\ status = "ready" /\ Fits(size, alignment) /\ memory_offset' = x
      /\ blocks' = {b} /\ called'.op = "allocate"
      /\ UNCHANGED <<region, committed, status, memory, current_marker, word>>
  BY DEF AllocateBlock, Bump, Called, regionVars
<1>2. x \in Offsets
  BY RequestedType DEF LinearInv, LinearTypeOK
<1>3. memory # NULL /\ (x + size < Word => x + size < get_size)
  BY <1>1, FitsWithin
<1>. HIDE DEF x
<1>4. Within(b) /\ b \in [offset : Offsets, size : Sizes]
  BY <1>2, <1>3 DEF Within
<1>5. MarkerStored'
  BY <1>1 DEF MarkerStored
<1>. HIDE DEF b
<1>. QED  BY <1>1, <1>2, <1>3, <1>4, <1>5, Working DEF LinearInv, LinearTypeOK

LEMMA PushKeeps ==
    ASSUME LinearInv, PushMarker
    PROVE  LinearInv'
<1>. DEFINE x == Requested(memory_offset, WordWidth)
<1>1. /\ status = "ready" /\ memory_offset # 0 /\ memory_offset' = x
      /\ word' = [word EXCEPT ![memory_offset'] = current_marker]
      /\ current_marker' = memory_offset
      /\ called' = [op |-> "push", offset |-> memory_offset, marker |-> current_marker]
      /\ UNCHANGED <<region, committed, status, memory, blocks>>
  BY DEF PushMarker, Bump, Called, regionVars
<1>2. x \in Offsets /\ memory_offset \in Offsets /\ current_marker \in Offsets
  BY RequestedType DEF LinearInv, LinearTypeOK
<1>3. memory # NULL
  BY <1>1 DEF LinearInv, Claimed
<1>4. StoredAt(current_marker)' = x
  BY <1>1 DEF StoredAt, Requested, Address
<1>. HIDE DEF x
<1>5. word' \in [Offsets -> Offsets] /\ word'[x] = current_marker
  BY <1>1, <1>2 DEF LinearInv, LinearTypeOK
<1>6. MarkerStored'
  BY <1>1, <1>4, <1>5 DEF MarkerStored
<1>. QED  BY <1>1, <1>2, <1>3, <1>5, <1>6, Working DEF LinearInv, LinearTypeOK

LEMMA PopKeeps ==
    ASSUME LinearInv, PopMarker
    PROVE  LinearInv'
<1>1. /\ status = "ready" /\ memory_offset # 0
      /\ memory_offset' = current_marker
      /\ current_marker' = word[StoredAt(current_marker)]
      /\ called'.op = "pop"
      /\ UNCHANGED <<region, committed, status, memory, word, blocks>>
  BY DEF PopMarker, Called, regionVars
<1>2. StoredAt(current_marker) \in Offsets
  BY RequestedType DEF LinearInv, LinearTypeOK, StoredAt
<1>3. memory # NULL /\ MarkerStored'
  BY <1>1 DEF LinearInv, Claimed, MarkerStored
<1>. QED  BY <1>1, <1>2, <1>3, Working DEF LinearInv, LinearTypeOK

\* The calls that go back to the beginning of the region.
LEMMA BackKeeps ==
    ASSUME LinearInv, PopToStart \/ Reset
    PROVE  LinearInv'
<1>1. /\ status = "ready" /\ memory_offset' = 0 /\ current_marker' = 0
      /\ blocks' = {} /\ called'.op \in {"pop", "reset"}
      /\ UNCHANGED <<region, committed, status, memory, word>>
  BY DEF PopToStart, Reset, AfterReset, Called, regionVars
<1>2. MarkerStored'
  BY <1>1 DEF MarkerStored
<1>. QED  BY <1>1, <1>2, OffsetTypes, Working DEF LinearInv, LinearTypeOK

\* The calls that do nothing, and a program that writes over its block.
LEMMA RestKeeps ==
    ASSUME LinearInv, status = "ready", called'.op # "push",
           UNCHANGED <<region, committed, status, fields, blocks>>,
           word' \in [Offsets -> Offsets]
    PROVE  LinearInv'
<1>1. MarkerStored'
  BY DEF MarkerStored
<1>. QED  BY <1>1, Working DEF LinearInv, LinearTypeOK, Claimed, fields

LEMMA LinearNextKeeps ==
    ASSUME LinearInv, [LinearNext]_linearVars
    PROVE  LinearInv'
<1>1. ASSUME NEW size \in Sizes, NEW alignment \in Alignments,
             AllocateBlock(size, alignment)
      PROVE  LinearInv'
  BY <1>1, AllocateKeeps
<1>2. ASSUME NEW size \in Sizes, NEW alignment \in Alignments,
             AllocateBlockFails(size, alignment)
      PROVE  LinearInv'
  BY <1>2, RestKeeps DEF AllocateBlockFails, Called, regionVars, LinearInv, LinearTypeOK
<1>3. CASE PushNothing \/ PushFails \/ PopNothing
  BY <1>3, RestKeeps
     DEF PushNothing, PushFails, PopNothing, Called, regionVars, LinearInv, LinearTypeOK
<1>4. ASSUME NEW b \in blocks, NEW v \in Written, Write(b, v)
      PROVE  LinearInv'
  <2>1. PICK o \in b.offset..(b.offset + b.size - 1) :
            word' = [word EXCEPT ![o] = v]
    BY <1>4 DEF Write
  <2>2. word' \in [Offsets -> Offsets]
    BY <2>1, OffsetTypes DEF LinearInv, LinearTypeOK
  <2>. QED  BY <1>4, <2>2, RestKeeps DEF Write, Called, regionVars
<1>5. CASE PopFaults \/ DestroyLinear
  <2>1. LinearTypeOK' /\ status' \in {"faulted", "destroyed"}
    BY <1>5, OffsetTypes DEF PopFaults, DestroyLinear, AfterReset, fields, LinearInv, LinearTypeOK
  <2>. QED  BY <2>1 DEF LinearInv
<1>6. CASE UNCHANGED linearVars
  <2>1. UNCHANGED <<region, committed, status, fields, word, blocks, called>>
    BY <1>6 DEF linearVars, regionVars
  <2>2. /\ LinearTypeOK' <=> LinearTypeOK
        /\ Unclaimed' <=> Unclaimed
        /\ Claimed' <=> Claimed
        /\ MarkerStored' <=> MarkerStored
        /\ \A b : Within(b)' <=> Within(b)
    BY <2>1, RegionLeft DEF fields, LinearTypeOK, Unclaimed, Claimed, MarkerStored, Within, get_size,
                Readable, StoredAt, Requested, Address
  <2>. QED  BY <2>1, <2>2 DEF LinearInv
<1>. QED  BY <1>1, <1>2, <1>3, <1>4, <1>5, <1>6,
             ClaimKeeps, PushKeeps, PopKeeps, BackKeeps
          DEF LinearNext

-----------------------------------------------------------------------------
(* The invariant and what follows from it.                                  *)

(* The inductive invariant: the region is claimed as a whole or not at all, *)
(* the last block lies in it, and a marker just pushed is stored where      *)
(* pop_marker looks for it.                                                 *)
THEOREM LinearInvHolds == LinearSpec => []LinearInv
<1>1. ASSUME LinearInit
      PROVE  LinearInv
  <2>1. LinearTypeOK /\ status = "new"
    BY <1>1, OffsetTypes DEF LinearInit, LinearTypeOK
  <2>2. PICK n \in RegionSizes : RegionInit(n)
    BY <1>1 DEF LinearInit
  <2>3. Backed
    BY <2>2, AddressAssumption, RegionStarts
  <2>4. Unclaimed
    BY <1>1, <2>2, <2>3 DEF LinearInit, RegionInit, Unclaimed
  <2>. QED  BY <2>1, <2>4 DEF LinearInv
<1>2. LinearInv /\ [LinearNext]_linearVars => LinearInv'
  BY LinearNextKeeps
<1>. QED  BY <1>1, <1>2, PTL DEF LinearSpec

(* Blocks are committed, whatever markers were popped.                      *)
THEOREM BlocksCommittedHolds == LinearSpec => []BlocksCommitted
<1>1. ASSUME LinearInv, NEW b \in blocks, b.offset + b.size < Word, status = "ready",
             NEW o \in b.offset..(b.offset + b.size - 1)
      PROVE  Readable(o)
  <2>1. b.offset \in Nat /\ b.size \in Nat /\ get_size \in Nat
    BY <1>1, OffsetTypes DEF LinearInv, LinearTypeOK, Claimed
  <2>2. b.offset + b.size < get_size /\ memory # NULL
    BY <1>1 DEF LinearInv, Within, Claimed
  <2>. QED  BY <1>1, <2>1, <2>2 DEF LinearInv, Claimed
<1>2. LinearInv => BlocksCommitted
  BY <1>1 DEF BlocksCommitted
<1>. QED  BY <1>2, LinearInvHolds, PTL

(* Without memory no operation succeeds.                                    *)
THEOREM FailedRefusesHolds == LinearSpec => []FailedRefuses
<1>1. LinearInv => FailedRefuses
  BY DEF LinearInv, Claimed, FailedRefuses
<1>. QED  BY <1>1, LinearInvHolds, PTL

(* pop_marker right after push_marker takes the allocator back.             *)
THEOREM PushPopRestoresHolds == LinearSpec => PushPopRestores
<1>1. ASSUME LinearInv, LinearNext, called.op = "push", called'.op = "pop"
      PROVE  memory_offset' = called.offset /\ current_marker' = called.marker
  <2>1. PopToStart \/ PopMarker
    BY <1>1 DEF LinearNext, Claim, AllocateBlock, AllocateBlockFails, PushNothing, PushMarker,
                PushFails, PopFaults, PopNothing, Reset, DestroyLinear, Write, Called
  <2>2. status = "ready" /\ MarkerStored
    BY <1>1, <2>1 DEF PopToStart, PopMarker, LinearInv
  <2>. QED  BY <1>1, <2>1, <2>2 DEF MarkerStored, PopToStart, PopMarker
<1>2. LinearInv /\ [LinearNext]_linearVars =>
          [called.op = "push" /\ called'.op = "pop" =>
              memory_offset' = called.offset /\ current_marker' = called.marker]_linearVars
  BY <1>1
<1>. QED  BY <1>2, LinearInvHolds, PTL DEF LinearSpec, PushPopRestores

-----------------------------------------------------------------------------
(* memory_arena_pool: where its arenas lie.                                 *)

\* An arena begins where the one before it ends, and all of them end before the
\* address space does.
LEMMA ArenaBases ==
    /\ ArenaSize \in Nat \ {0} /\ Reserved \in Nat \ {0} /\ RecordSize \in Nat \ {0}
    /\ \A i \in 0..Reserved :
          ArenaBase(i) \in Nat \ {0} /\ ArenaBase(i) + PageSize < Word
    /\ \A i \in Arenas : ArenaBase(i + 1) = ArenaBase(i) + ArenaSize
<1>1. /\ ArenaSize \in Nat \ {0} /\ Reserved \in Nat \ {0} /\ RecordWidth \in Nat \ {0}
      /\ PageSize \in Nat \ {0} /\ Granularity \in Nat \ {0} /\ Word \in Nat \ {0}
      /\ RecordSize + SpanSize + PageSize < Word
  BY SizeAssumption, RegionAssumption
<1>2. RecordSize \in Nat \ {0}
  <2>1. Reserved * RecordWidth \in Nat
    BY <1>1
  <2>. QED  BY <1>1, <2>1 DEF RecordSize, Larger
<1>3. ASSUME NEW i \in 0..Reserved
      PROVE  ArenaBase(i) \in Nat \ {0} /\ ArenaBase(i) + PageSize < Word
  <2>1. i * ArenaSize \in Nat /\ ArenaSize * Reserved \in Nat
    BY <1>1
  <2>2. i * ArenaSize <= ArenaSize * Reserved
    BY <1>1
  <2>. QED  BY <1>1, <1>2, <2>1, <2>2 DEF ArenaBase, SpanSize
<1>4. ASSUME NEW i \in Arenas
      PROVE  ArenaBase(i + 1) = ArenaBase(i) + ArenaSize
  BY <1>1, <1>2 DEF ArenaBase, Arenas
<1>. QED  BY <1>1, <1>2, <1>3, <1>4

LEMMA ArenasOrdered ==
    ASSUME NEW i \in 0..Reserved, NEW j \in 0..Reserved, i <= j
    PROVE  ArenaBase(i) <= ArenaBase(j)
<1>1. i * ArenaSize <= j * ArenaSize /\ i * ArenaSize \in Nat /\ j * ArenaSize \in Nat
  BY ArenaBases
<1>. QED  BY <1>1, ArenaBases DEF ArenaBase

\* The inductive invariant of the pool: the region was grown by the records and
\* by one arena after the other.
PoolInv ==
    /\ arena_count \in 0..Reserved /\ records \in BOOLEAN
    /\ records = FALSE => arena_count = 0
    /\ phase = "new" => records = FALSE
    /\ phase \in {"new", "ready"} =>
          Backed /\ get_size = IF records THEN ArenaBase(arena_count) ELSE 0

\* get_arena finds the arena that a byte lies in, if it is one of the pool's.
LEMMA Lookup ==
    ASSUME PoolInv, NEW i \in Arenas, NEW x \in 0..(ArenaSize - 1)
    PROVE  GetArena(ArenaBase(i) + x) = IF i \in Allocated THEN i ELSE NULL
<1>. DEFINE p == ArenaBase(i) + x
<1>1. /\ ArenaSize \in Nat \ {0} /\ Reserved \in Nat \ {0} /\ RecordSize \in Nat \ {0}
      /\ i \in 0..(Reserved - 1) /\ i \in 0..Reserved /\ i + 1 \in 0..Reserved
      /\ i \in Nat /\ x \in Nat /\ x < ArenaSize /\ 0 \in 0..Reserved
      /\ arena_count \in 0..Reserved
  BY ArenaBases DEF Arenas, PoolInv
<1>2. /\ ArenaBase(i) \in Nat /\ ArenaBase(i + 1) = ArenaBase(i) + ArenaSize
      /\ ArenaBase(0) \in Nat /\ ArenaBase(arena_count) \in Nat
  BY <1>1, ArenaBases
<1>3. p - ArenaBase(0) = i * ArenaSize + x
  BY <1>1 DEF ArenaBase
<1>4. (i * ArenaSize + x) \div ArenaSize = i
  <2>1. i * ArenaSize + x \in Nat
    BY <1>1
  <2>. QED  BY <1>1, <2>1
<1>5. CASE i \in Allocated
  <2>1. i < arena_count /\ records = TRUE
    BY <1>1, <1>5 DEF Allocated, PoolInv
  <2>2. ArenaBase(0) <= ArenaBase(i) /\ ArenaBase(i + 1) <= ArenaBase(arena_count)
    BY <1>1, <2>1, ArenasOrdered
  <2>. HIDE DEF p
  <2>3. p \in Nat /\ p >= ArenaBase(i) /\ p < ArenaBase(i + 1)
    BY <1>1, <1>2 DEF p
  <2>4. p \in ArenaBase(0)..(ArenaBase(arena_count) - 1)
    BY <1>1, <1>2, <2>2, <2>3
  <2>5. GetArena(p) = i
    <3>1. (p - ArenaBase(0)) \div ArenaSize = i
      BY <1>3, <1>4
    <3>2. GetArena(p) = (p - ArenaBase(0)) \div ArenaSize
      BY <2>1, <2>4, Zenon DEF GetArena
    <3>. QED  BY <3>1, <3>2
  <2>. QED  BY <1>5, <2>5 DEF p
<1>6. CASE i \notin Allocated
  <2>1. arena_count <= i
    BY <1>1, <1>6 DEF Allocated
  <2>2. ArenaBase(arena_count) <= ArenaBase(i)
    BY <1>1, <2>1, ArenasOrdered
  <2>. HIDE DEF p
  <2>3. p \in Nat /\ p >= ArenaBase(i)
    BY <1>1, <1>2 DEF p
  <2>4. p \notin ArenaBase(0)..(ArenaBase(arena_count) - 1)
    BY <1>2, <2>2, <2>3
  <2>5. GetArena(p) = NULL
    BY <2>4 DEF GetArena
  <2>. QED  BY <1>6, <2>5 DEF p
<1>. QED  BY <1>5, <1>6

-----------------------------------------------------------------------------
(* memory_arena_pool: its steps.                                            *)

\* Steps that leave the region and the arenas alone, as most do.
LEMMA PoolUntouched ==
    ASSUME PoolInv, UNCHANGED <<region, committed, records, arena_count>>,
           phase' = phase \/ phase' \in {"faulted", "destroyed"}
    PROVE  PoolInv'
<1>1. get_size' = get_size /\ Backed' = Backed
  BY RegionLeft
<1>2. ArenaBase(arena_count)' = ArenaBase(arena_count)
  BY DEF ArenaBase
<1>3. CASE phase' = phase
  BY <1>1, <1>2, <1>3 DEF PoolInv
<1>4. CASE phase' \in {"faulted", "destroyed"}
  BY <1>1, <1>2, <1>4 DEF PoolInv
<1>. QED  BY <1>3, <1>4

LEMMA MakeRecordsKeeps ==
    ASSUME PoolInv, MakeRecords
    PROVE  PoolInv'
<1>1. /\ Backed /\ get_size = 0 /\ arena_count = 0 /\ arena_count' = 0
      /\ Memory!Grow(Region, RecordSize) /\ phase' = "ready"
      /\ records' = (last'.result # NULL)
  BY DEF PoolInv, MakeRecords
<1>2. /\ RecordSize \in Nat /\ get_size + RecordSize + PageSize < Word
      /\ get_size + RecordSize = RecordSize /\ ArenaBase(0) = RecordSize
      /\ 0 \in 0..Reserved
  <2>1. 0 \in 0..Reserved /\ ArenaBase(0) = RecordSize /\ RecordSize \in Nat
    BY ArenaBases DEF ArenaBase
  <2>. QED  BY <1>1, <2>1, ArenaBases, RegionAssumption
<1>3. /\ Backed'
      /\ \/ last'.result = NULL /\ get_size' = 0
         \/ last'.result = Base /\ get_size' = RecordSize
  BY <1>1, <1>2, GrowsWhole
<1>4. get_size' = IF records' THEN ArenaBase(arena_count') ELSE 0
  BY <1>1, <1>2, <1>3, RegionAssumption
<1>5. records' \in BOOLEAN
  BY <1>1
<1>. QED  BY <1>1, <1>2, <1>3, <1>4, <1>5 DEF PoolInv, ArenaBase

LEMMA AllocateArenaKeeps ==
    ASSUME PoolInv, phase = "ready", UNCHANGED records,
           AllocateArena \/ AllocateArenaFails \/ AllocateArenaFaults
    PROVE  PoolInv'
<1>1. CASE ~MayAllocate
  BY <1>1, PoolUntouched DEF AllocateArena, AllocateArenaFails, AllocateArenaFaults,
                             regionVars
<1>2. CASE MayAllocate
  <2>1. /\ Backed /\ arena_count \in 0..Reserved /\ arena_count < Reserved
        /\ records \in BOOLEAN
        /\ get_size = IF records THEN ArenaBase(arena_count) ELSE 0
        /\ Memory!Grow(Region, ArenaSize)
    BY <1>2 DEF PoolInv, MayAllocate, AllocateArena, AllocateArenaFails,
                AllocateArenaFaults, Grown
  <2>2. arena_count \in Arenas /\ arena_count + 1 \in 0..Reserved
        /\ ArenaSize \in Nat
    BY <2>1, ArenaBases DEF Arenas
  <2>3. /\ ArenaBase(arena_count) \in Nat
        /\ ArenaBase(arena_count + 1) = ArenaBase(arena_count) + ArenaSize
        /\ ArenaBase(arena_count + 1) + PageSize < Word
    BY <2>1, <2>2, ArenaBases
  <2>4. get_size \in Nat /\ get_size + ArenaSize + PageSize < Word
    BY <2>1, <2>2, <2>3, RegionAssumption
  <2>5. /\ Backed'
        /\ \/ last'.result = NULL /\ get_size' = get_size
           \/ last'.result = Base /\ get_size' = get_size + ArenaSize
    BY <2>1, <2>2, <2>4, GrowsWhole
  <2>6. CASE AllocateArena
    <3>1. /\ records = TRUE /\ last'.result # NULL /\ phase' = phase
          /\ arena_count' = arena_count + 1
      BY <2>1, <2>6 DEF AllocateArena
    <3>2. get_size' = ArenaBase(arena_count + 1)
      BY <2>1, <2>3, <2>5, <3>1
    <3>. QED  BY <2>2, <2>5, <3>1, <3>2 DEF PoolInv, ArenaBase
  <2>7. CASE AllocateArenaFails
    <3>1. last'.result = NULL /\ phase' = phase /\ arena_count' = arena_count
      BY <1>2, <2>7 DEF AllocateArenaFails
    <3>2. get_size' = get_size
      BY <2>5, <3>1, RegionAssumption
    <3>. QED  BY <2>1, <2>5, <3>1, <3>2 DEF PoolInv, ArenaBase
  <2>8. CASE AllocateArenaFaults
    <3>1. phase' = "faulted" /\ arena_count' = arena_count
      BY <2>8 DEF AllocateArenaFaults
    <3>. QED  BY <3>1 DEF PoolInv
  <2>. QED  BY <2>6, <2>7, <2>8
<1>. QED  BY <1>1, <1>2

LEMMA TakeArenaKeeps ==
    ASSUME PoolInv, NEW a, TakeArena(a)
    PROVE  PoolInv'
<1>1. phase = "ready" /\ records' = records
  BY DEF TakeArena, Idle
<1>2. CASE PopFree(a)
  BY <1>1, <1>2, PoolUntouched DEF PopFree, regionVars
<1>3. CASE PopNew(a) \/ TakeNothing
  BY <1>1, <1>3, AllocateArenaKeeps DEF PopNew, TakeNothing
<1>. QED  BY <1>2, <1>3 DEF TakeArena

LEMMA PoolNextKeeps ==
    ASSUME PoolInv, [Next]_vars
    PROVE  PoolInv'
<1>1. CASE Construct
  BY <1>1, MakeRecordsKeeps DEF Construct
<1>2. ASSUME NEW r \in Requests, Refuse(r) \/ Allocate(r)
      PROVE  PoolInv'
  <2>1. CASE Refuse(r)
    BY <2>1, PoolUntouched DEF Refuse, vars, poolVars, regionVars
  <2>2. CASE AllocateFromList(PoolFor(r), r)
    BY <2>2, PoolUntouched DEF AllocateFromList, poolVars, regionVars
  <2>3. CASE RequestArena(PoolFor(r), r)
    BY <2>3, TakeArenaKeeps DEF RequestArena
  <2>. QED  BY <1>2, <2>1, <2>2, <2>3 DEF Allocate
<1>3. CASE FinishAllocate
  BY <1>3, PoolUntouched DEF FinishAllocate, UseArena, regionVars
<1>4. ASSUME NEW h \in held, Deallocate(h)
      PROVE  PoolInv'
  BY <1>4, PoolUntouched
     DEF Deallocate, DeallocateIn, ReleaseArena, WriteAtOffset, regionVars
<1>5. CASE FinishDeallocate \/ DestroyArena
  BY <1>5, PoolUntouched DEF FinishDeallocate, DestroyArena, Give, GiveArena, regionVars
<1>6. ASSUME NEW count \in 1..Reserved, ReserveArenas(count)
      PROVE  PoolInv'
  BY <1>6, PoolUntouched DEF ReserveArenas, Reserve, regionVars
<1>7. CASE ReserveNext
  BY <1>7, AllocateArenaKeeps DEF ReserveNext, ReserveOne
<1>8. CASE Destroy \/ DestroyPool
  BY <1>8, PoolUntouched DEF Destroy, DestroyPool, poolVars, regionVars
<1>9. CASE DestroyRegion
  <2>1. /\ phase' = "destroyed"
        /\ UNCHANGED <<records, arena_count>>
    BY <1>9 DEF DestroyRegion, DestroyPoolRegion
  <2>. QED  BY <2>1 DEF PoolInv
<1>10. CASE UNCHANGED vars
  BY <1>10, PoolUntouched DEF vars, poolVars, regionVars
<1>. QED  BY <1>1, <1>2, <1>3, <1>4, <1>5, <1>6, <1>7, <1>8, <1>9, <1>10 DEF Next

(* The inductive invariant of the arena pool: what the region was grown by  *)
(* is what arena_count says, whichever grows failed.                        *)
THEOREM PoolInvHolds == Spec => []PoolInv
<1>1. ASSUME Init
      PROVE  PoolInv
  <2>1. RegionInit(RecordSize + SpanSize)
    BY <1>1 DEF Init, PoolInit, ArenaInit
  <2>2. RecordSize + SpanSize \in Nat
    BY ArenaBases DEF SpanSize
  <2>3. Backed /\ get_size = 0
    BY <2>1, <2>2, RegionStarts
  <2>4. 0 \in 0..Reserved
    BY ArenaBases
  <2>. QED  BY <1>1, <2>3, <2>4 DEF Init, PoolInit, ArenaInit, PoolInv
<1>2. PoolInv /\ [Next]_vars => PoolInv'
  BY PoolNextKeeps
<1>. QED  BY <1>1, <1>2, PTL DEF Spec

(* The bytes of every arena handed out or free are committed.               *)
THEOREM ArenasCommittedHolds == Spec => []ArenasCommitted
<1>1. ASSUME PoolInv, phase = "ready", NEW i \in Allocated,
             NEW p \in (ArenaBase(i) \div PageSize)..
                       ((ArenaBase(i + 1) - 1) \div PageSize)
      PROVE  p \in committed[Base]
  <2>1. /\ arena_count \in 0..Reserved /\ i \in 0..(arena_count - 1)
        /\ i \in 0..Reserved /\ i + 1 \in 0..Reserved /\ i + 1 <= arena_count
        /\ PageSize \in Nat \ {0} /\ records = TRUE
    BY <1>1, ArenaBases, RegionAssumption DEF PoolInv, Allocated
  <2>2. Backed /\ get_size = ArenaBase(arena_count)
    BY <1>1, <2>1 DEF PoolInv
  <2>3. /\ ArenaBase(i) \in Nat /\ ArenaBase(i + 1) \in Nat \ {0}
        /\ get_size \in Nat \ {0} /\ get_size + PageSize < Word
        /\ ArenaBase(i + 1) <= get_size
    BY <2>1, <2>2, ArenaBases, ArenasOrdered
  <2>4. ArenaBase(i + 1) - 1 \in 0..(get_size - 1)
    BY <2>3
  <2>. DEFINE top == (ArenaBase(i + 1) - 1) \div PageSize
              low == ArenaBase(i) \div PageSize
  <2>5. /\ top \in 0..(Memory!PageCount(get_size) - 1)
        /\ Memory!PageCount(get_size) \in Nat
    BY <2>3, <2>4, PagesReach
  <2>6. low \in Nat /\ p \in low..top
    BY <1>1, <2>1, <2>3
  <2>. HIDE DEF top, low
  <2>7. p \in 0..(Memory!PageCount(get_size) - 1)
    BY <2>5, <2>6
  <2>. QED  BY <2>2, <2>7 DEF Backed
<1>2. PoolInv => ArenasCommitted
  BY <1>1 DEF ArenasCommitted
<1>. QED  BY <1>2, PoolInvHolds, PTL

(* get_arena finds the record of the first and the last byte of each arena, *)
(* and of no others.                                                        *)
THEOREM LookupAgreesHolds == Spec => []LookupAgrees
<1>1. ASSUME PoolInv, NEW i \in Arenas, NEW p \in {ArenaBase(i), ArenaBase(i + 1) - 1}
      PROVE  GetArena(p) = IF i \in Allocated THEN i ELSE NULL
  <2>1. /\ ArenaSize \in Nat \ {0} /\ i \in 0..Reserved
        /\ ArenaBase(i) \in Nat /\ ArenaBase(i + 1) = ArenaBase(i) + ArenaSize
    BY ArenaBases DEF Arenas
  <2>2. PICK x \in {0, ArenaSize - 1} : p = ArenaBase(i) + x
    BY <2>1
  <2>3. x \in 0..(ArenaSize - 1)
    BY <2>1
  <2>. QED  BY <1>1, <2>2, <2>3, Lookup
<1>2. GetArena(ArenaBase(0) - 1) = NULL
  <2>1. ArenaBase(0) \in Nat
    BY ArenaBases
  <2>2. ArenaBase(0) - 1 \notin ArenaBase(0)..(ArenaBase(arena_count) - 1)
    BY <2>1
  <2>. QED  BY <2>2 DEF GetArena
<1>3. PoolInv => LookupAgrees
  BY <1>1, <1>2 DEF LookupAgrees
<1>. QED  BY <1>3, PoolInvHolds, PTL


-----------------------------------------------------------------------------
(* heap_allocator: who has an arena.                                        *)

Links == [Arenas -> Arenas \cup {NULL}]

LinkTypes ==
    /\ next_free_arena \in Arenas \cup {NULL}
    /\ next \in Links /\ previous \in Links
    /\ allocator \in [Arenas -> Allocators \cup {NULL}]
    /\ taken \in [Allocators -> SUBSET Arenas]
    /\ arena_list_head \in [Allocators -> Arenas \cup {NULL}]
    /\ arena_list_tail \in [Allocators -> Arenas \cup {NULL}]

\* The rest of an allocate or a deallocate goes on with an arena of its own.
Busy == call.op \in {"use", "give"}
BusyOwns == Busy => call.by \in Allocators /\ call.arena \in taken[call.by]
Dying == call.op = "destroy"
DyingType == Dying => call.by \in Allocators /\ call.arena \in Arenas \cup {NULL}

\* The allocator that a record names has the arena.
NamedHas ==
    \A i \in Arenas : allocator[i] # NULL => i \in taken[allocator[i]]

\* insert_after never moves the tail: the first and the last arena of a list, as its
\* allocator knows them, are the same.
HeadIsTail == arena_list_head = arena_list_tail

HeapInv == PoolInv /\ LinkTypes /\ BusyOwns /\ DyingType /\ NamedHas /\ HeadIsTail

LEMMA NullOutside ==
    /\ NULL \notin Arenas /\ NULL \notin Allocators
    /\ Allocators = Pools
BY AllocatorAssumption, HeapAssumption DEF Arenas

\* Between calls nothing is under way.
LEMMA CallKinds ==
    /\ call = NoCall => ~Busy /\ ~Dying
    /\ Busy => ~Dying
BY DEF NoCall, Busy, Dying

\* A pointer's arena is an arena.
LEMMA LookupType ==
    ASSUME PoolInv, NEW p, GetArena(p) # NULL
    PROVE  GetArena(p) \in Allocated /\ GetArena(p) \in Arenas
<1>1. /\ records /\ p \in ArenaBase(0)..(ArenaBase(arena_count) - 1)
      /\ GetArena(p) = (p - ArenaBase(0)) \div ArenaSize
  BY DEF GetArena
<1>2. /\ arena_count \in 0..Reserved /\ ArenaSize \in Nat \ {0} /\ Reserved \in Nat
      /\ RecordSize \in Nat
      /\ ArenaBase(0) = RecordSize /\ ArenaBase(arena_count) = RecordSize + arena_count * ArenaSize
  BY ArenaBases DEF PoolInv, ArenaBase
<1>. DEFINE d == p - ArenaBase(0)
            q == d \div ArenaSize
<1>3. d \in Nat /\ arena_count * ArenaSize \in Nat /\ d < arena_count * ArenaSize
  BY <1>1, <1>2
<1>. HIDE DEF d
<1>4. q \in Nat /\ d % ArenaSize \in Nat /\ d = q * ArenaSize + (d % ArenaSize)
  BY <1>2, <1>3
<1>. HIDE DEF q
<1>5. q < arena_count
  <2>. SUFFICES ASSUME q >= arena_count PROVE FALSE
    BY <1>2, <1>4
  <2>1. q * ArenaSize >= arena_count * ArenaSize /\ q * ArenaSize \in Nat
    BY <1>2, <1>4
  <2>. QED  BY <1>3, <1>4, <2>1
<1>6. GetArena(p) = q
  BY <1>1 DEF q, d
<1>. QED  BY <1>2, <1>4, <1>5, <1>6 DEF Allocated, Arenas

-----------------------------------------------------------------------------
(* What intrusive_list writes to the links of the records.                  *)

Linked == [next |-> next, previous |-> previous]

LEMMA RemoveWrites ==
    ASSUME next \in Links, previous \in Links, NEW i \in Arenas
    PROVE  LET list == List!remove(Linked, i)
           IN  /\ list.next \in Links /\ list.previous \in Links
               /\ \A n \in Arenas \ {previous[i]} : list.next[n] = next[n]
               /\ previous[i] \in Arenas => list.next[previous[i]] = next[i]
<1>. DEFINE p == previous[i]
            x == next[i]
            forward == IF p = NULL THEN Linked ELSE [Linked EXCEPT !.next[p] = x]
            list == List!remove(Linked, i)
<1>1. p \in Arenas \cup {NULL} /\ x \in Arenas \cup {NULL}
  BY DEF Links
<1>2. list = IF x = NULL THEN forward ELSE [forward EXCEPT !.previous[x] = p]
  BY DEF List!remove, Linked
<1>. HIDE DEF p, x, list
<1>3. /\ forward.previous = previous /\ forward.next \in Links
      /\ DOMAIN forward = {"next", "previous"}
      /\ forward.next = IF p = NULL THEN next ELSE [next EXCEPT ![p] = x]
  BY <1>1 DEF Linked, Links
<1>. HIDE DEF forward
<1>4. list.next = forward.next /\ list.previous \in Links
  BY <1>1, <1>2, <1>3 DEF Links
<1>. QED  BY <1>1, <1>3, <1>4, NullOutside DEF Links, p, x, list

LEMMA InsertWrites ==
    ASSUME next \in Links, previous \in Links, NEW i \in Arenas, NEW t \in Arenas
    PROVE  LET list == List!insert_after(Linked, i, t)
           IN  /\ list.next \in Links /\ list.previous \in Links
               /\ \A n \in Arenas : n \notin {i, t, previous[t]} => list.next[n] = next[n]
               /\ i # t => list.next[t] = i
               /\ list.next[i] = next[t]
               /\ next[t] # NULL \/ previous[t] = NULL =>
                     \A n \in Arenas \ {i, t} : list.next[n] = next[n]
<1>. DEFINE x == next[t]
            backward == IF x = NULL THEN Linked ELSE [Linked EXCEPT !.previous[t] = i]
            p == backward.previous[t]
            forward == IF p = NULL THEN backward ELSE [backward EXCEPT !.next[p] = i]
            list == List!insert_after(Linked, i, t)
<1>1. x \in Arenas \cup {NULL}
  BY DEF Links
<1>2. list = [forward EXCEPT !.next[t] = i, !.next[i] = x, !.previous[i] = t]
  BY DEF List!insert_after, Linked
<1>. HIDE DEF x, list
<1>3. /\ backward.next = next /\ backward.previous \in Links
      /\ DOMAIN backward = {"next", "previous"}
      /\ backward.previous[t] = IF x = NULL THEN previous[t] ELSE i
  BY <1>1 DEF Linked, Links
<1>4. p \in Arenas \cup {NULL} /\ p = IF x = NULL THEN previous[t] ELSE i
  BY <1>3 DEF Links
<1>. HIDE DEF backward, p
<1>5. /\ forward.previous = backward.previous /\ forward.next \in Links
      /\ DOMAIN forward = {"next", "previous"}
      /\ forward.next = IF p = NULL THEN next ELSE [next EXCEPT ![p] = i]
  BY <1>3, <1>4 DEF Links
<1>. HIDE DEF forward
<1>6. /\ list.next = [forward.next EXCEPT ![t] = i, ![i] = x]
      /\ list.previous = [backward.previous EXCEPT ![i] = t]
  BY <1>2, <1>5
<1>7. /\ \A n \in Arenas : n \notin {i, t, p} => list.next[n] = next[n]
      /\ i # t => list.next[t] = i
      /\ list.next[i] = x
      /\ list.next \in Links /\ list.previous \in Links
  BY <1>1, <1>3, <1>4, <1>5, <1>6 DEF Links
<1>8. x # NULL \/ previous[t] = NULL =>
         \A n \in Arenas \ {i, t} : list.next[n] = next[n]
  BY <1>4, <1>7, NullOutside
<1>. QED  BY <1>4, <1>7, <1>8 DEF list, x

-----------------------------------------------------------------------------
(* What is reached along links.                                             *)

LEMMA ReachedLeast ==
    ASSUME NEW link, NEW start, NEW s \in SUBSET Arenas, Closed(link, start, s)
    PROVE  Reached(link, start) \subseteq s
BY DEF Reached

LEMMA ReachedClosed ==
    ASSUME NEW link \in Links, NEW start \in Arenas \cup {NULL}
    PROVE  /\ Reached(link, start) \subseteq Arenas
           /\ Closed(link, start, Reached(link, start))
<1>1. Reached(link, start) \subseteq Arenas
  BY DEF Reached
<1>2. start # NULL => start \in Reached(link, start)
  BY DEF Reached, Closed
<1>3. ASSUME NEW i \in Reached(link, start), link[i] # NULL
      PROVE  link[i] \in Reached(link, start)
  <2>1. i \in Arenas /\ link[i] \in Arenas
    BY <1>3 DEF Reached, Links
  <2>2. ASSUME NEW s \in SUBSET Arenas, Closed(link, start, s)
        PROVE  link[i] \in s
    BY <1>3, <2>2 DEF Reached, Closed
  <2>. QED  BY <2>1, <2>2 DEF Reached
<1>. QED  BY <1>1, <1>2, <1>3 DEF Closed

LEMMA ReachedNone ==
    ASSUME NEW link
    PROVE  Reached(link, NULL) = {}
<1>1. Closed(link, NULL, {}) /\ {} \in SUBSET Arenas
  BY DEF Closed
<1>. QED  BY <1>1, ReachedLeast

\* While the links of what is reached stay, all of it is reached from any place
\* that leads to its first one.
LEMMA ReachedStays ==
    ASSUME NEW link \in Links, NEW start \in Arenas \cup {NULL},
           NEW link2 \in Links, NEW start2 \in Arenas \cup {NULL},
           \A n \in Reached(link, start) : link2[n] = link[n],
           start # NULL => start \in Reached(link2, start2)
    PROVE  Reached(link, start) \subseteq Reached(link2, start2)
<1>. DEFINE all == Reached(link, start)
            now == Reached(link2, start2)
            s == all \cap now
<1>1. /\ all \subseteq Arenas /\ Closed(link, start, all)
      /\ now \subseteq Arenas /\ Closed(link2, start2, now)
  BY ReachedClosed
<1>. HIDE DEF all, now
<1>2. start # NULL => start \in s
  BY <1>1 DEF Closed, now
<1>3. ASSUME NEW n \in s, link[n] # NULL
      PROVE  link[n] \in s
  BY <1>1, <1>3 DEF Closed, all
<1>4. Closed(link, start, s) /\ s \in SUBSET Arenas
  BY <1>1, <1>2, <1>3 DEF Closed
<1>5. all \subseteq s
  BY <1>4, ReachedLeast DEF all
<1>. QED  BY <1>5 DEF all, now

\* The same where the first one is itself where one starts.
LEMMA ReachedSame ==
    ASSUME NEW link \in Links, NEW start \in Arenas \cup {NULL}, NEW link2 \in Links,
           \A n \in Reached(link, start) : link2[n] = link[n]
    PROVE  Reached(link, start) \subseteq Reached(link2, start)
<1>1. start # NULL => start \in Reached(link2, start)
  BY ReachedClosed DEF Closed
<1>. QED  BY <1>1, ReachedStays

\* From the one behind the first, everything but the first is reached.
LEMMA ReachedBehind ==
    ASSUME NEW link \in Links, NEW start \in Arenas
    PROVE  Reached(link, start) \subseteq Reached(link, link[start]) \cup {start}
<1>. DEFINE s == Reached(link, link[start]) \cup {start}
<1>1. link[start] \in Arenas \cup {NULL}
  BY DEF Links
<1>2. /\ Reached(link, link[start]) \subseteq Arenas
      /\ Closed(link, link[start], Reached(link, link[start]))
  BY <1>1, ReachedClosed
<1>3. Closed(link, start, s) /\ s \in SUBSET Arenas
  BY <1>2 DEF Closed
<1>. QED  BY <1>3, ReachedLeast

\* A free or a taken arena is not one that has not been allocated.
LEMMA NewIsNowhere ==
    ASSUME Consistent, PoolInv
    PROVE  arena_count \notin Free /\ arena_count \notin Taken
BY DEF Consistent, OnePlace, Allocated, PoolInv

-----------------------------------------------------------------------------
(* heap_allocator: its steps keep the invariant.                            *)

linkVars == <<next_free_arena, next, previous, allocator, taken, listVars>>

\* A step that leaves the links alone is between two calls or in the middle of one.
LEMMA LinksLeft ==
    ASSUME HeapInv, PoolInv', UNCHANGED linkVars,
           \/ UNCHANGED call
           \/ call' = NoCall
           \/ \E p \in Allocators, i \in Arenas \cup {NULL} : call' = Destroying(p, i)
    PROVE  HeapInv'
<1>1. LinkTypes' /\ NamedHas' /\ HeadIsTail'
  BY DEF HeapInv, LinkTypes, NamedHas, HeadIsTail, linkVars, listVars
<1>2. UNCHANGED taken
  BY DEF linkVars
<1>3. CASE UNCHANGED call
  BY <1>1, <1>2, <1>3 DEF HeapInv, BusyOwns, DyingType, Busy, Dying
<1>4. CASE call' = NoCall
  BY <1>1, <1>4 DEF HeapInv, BusyOwns, DyingType, Busy, Dying, NoCall
<1>5. ASSUME NEW p \in Allocators, NEW i \in Arenas \cup {NULL}, call' = Destroying(p, i)
      PROVE  HeapInv'
  BY <1>1, <1>5 DEF HeapInv, BusyOwns, DyingType, Busy, Dying, Destroying
<1>. QED  BY <1>3, <1>4, <1>5

\* allocate_arena puts the new arena in front of the free ones.
LEMMA NewArena ==
    ASSUME HeapInv, AllocateArena
    PROVE  /\ arena_count \in Arenas /\ arena_count' = arena_count + 1
           /\ next' \in Links /\ next'[arena_count] = next_free_arena
           /\ \A n \in Arenas \ {arena_count} : next'[n] = next[n]
<1>1. arena_count \in 0..Reserved /\ arena_count < Reserved /\ Reserved \in Nat
  BY ArenaBases DEF HeapInv, PoolInv, AllocateArena, MayAllocate
<1>2. arena_count \in Arenas
  BY <1>1 DEF Arenas
<1>3. next' = [next EXCEPT ![arena_count] = next_free_arena]
      /\ arena_count' = arena_count + 1
  BY DEF AllocateArena, PutNew
<1>. QED  BY <1>2, <1>3 DEF HeapInv, LinkTypes, Links

\* An arena that is handed over has the name of its owner, who has it.
LEMMA GivenNamed ==
    ASSUME HeapInv, NEW a \in Allocators, NEW i \in Arenas, GiveTo(a, i)
    PROVE  /\ allocator' \in [Arenas -> Allocators \cup {NULL}]
           /\ taken' \in [Allocators -> SUBSET Arenas]
           /\ i \in taken'[a] /\ \A b \in Allocators : taken[b] \subseteq taken'[b]
           /\ NamedHas'
<1>1. /\ allocator' = [allocator EXCEPT ![i] = a]
      /\ taken' = [taken EXCEPT ![a] = @ \cup {i}]
      /\ allocator \in [Arenas -> Allocators \cup {NULL}]
      /\ taken \in [Allocators -> SUBSET Arenas]
  BY DEF GiveTo, HeapInv, LinkTypes
<1>2. /\ i \in taken'[a] /\ \A b \in Allocators : taken[b] \subseteq taken'[b]
      /\ taken' \in [Allocators -> SUBSET Arenas]
  BY <1>1
<1>3. ASSUME NEW j \in Arenas, allocator'[j] # NULL
      PROVE  j \in taken'[allocator'[j]]
  <2>1. CASE j = i
    BY <1>1, <1>2, <2>1
  <2>2. CASE j # i
    <3>1. allocator'[j] = allocator[j] /\ allocator[j] \in Allocators
      BY <1>1, <1>3, <2>2
    <3>. QED  BY <1>2, <1>3, <3>1 DEF HeapInv, NamedHas
  <2>. QED  BY <2>1, <2>2
<1>. QED  BY <1>1, <1>2, <1>3 DEF NamedHas

\* take_arena finds a free arena, allocates one, or changes nothing.
LEMMA TakesOne ==
    ASSUME HeapInv, NEW a \in Allocators, TakeArena(a)
    PROVE  /\ next_free_arena' \in Arenas \cup {NULL} /\ next' \in Links
           /\ allocator' \in [Arenas -> Allocators \cup {NULL}]
           /\ taken' \in [Allocators -> SUBSET Arenas]
           /\ NamedHas'
           /\ \/ Popped \in taken'[a]
              \/ UNCHANGED <<taken, next_free_arena, next>>
<1>1. /\ next_free_arena \in Arenas \cup {NULL} /\ next \in Links
      /\ allocator \in [Arenas -> Allocators \cup {NULL}]
      /\ taken \in [Allocators -> SUBSET Arenas] /\ NamedHas
  BY DEF HeapInv, LinkTypes
<1>2. CASE PopFree(a)
  <2>1. /\ next_free_arena \in Arenas /\ GiveTo(a, next_free_arena) /\ next' = next
        /\ next_free_arena' = next[next_free_arena] /\ Popped = next_free_arena
    BY <1>1, <1>2 DEF PopFree, Popped
  <2>2. next_free_arena' \in Arenas \cup {NULL}
    BY <1>1, <2>1 DEF Links
  <2>. QED  BY <1>1, <2>1, <2>2, GivenNamed
<1>3. CASE PopNew(a)
  <2>1. AllocateArena /\ GiveTo(a, arena_count) /\ Popped = arena_count
        /\ next_free_arena' = next'[arena_count]
    BY <1>3 DEF PopNew, Popped
  <2>2. arena_count \in Arenas /\ next' \in Links
    BY <2>1, NewArena
  <2>3. next_free_arena' \in Arenas \cup {NULL}
    BY <2>1, <2>2 DEF Links
  <2>. QED  BY <2>1, <2>2, <2>3, GivenNamed
<1>4. CASE TakeNothing
  <2>1. UNCHANGED <<allocator, taken, next_free_arena, next>>
    BY <1>4 DEF TakeNothing, AllocateArenaFails, AllocateArenaFaults
  <2>. QED  BY <1>1, <2>1 DEF NamedHas
<1>. QED  BY <1>2, <1>3, <1>4 DEF TakeArena

LEMMA RequestKeeps ==
    ASSUME HeapInv, PoolInv', NEW a \in Allocators, NEW r, call = NoCall,
           RequestArena(a, r)
    PROVE  HeapInv'
<1>1. TakeArena(a) /\ UNCHANGED <<recordVars, listVars>>
      /\ call' = IF taken' = taken /\ next_free_arena' = next_free_arena THEN NoCall
                 ELSE [op |-> "use", by |-> a, arena |-> Popped, request |-> r]
  BY DEF RequestArena
<1>2. LinkTypes' /\ NamedHas' /\ HeadIsTail'
  BY <1>1, TakesOne DEF HeapInv, LinkTypes, HeadIsTail, recordVars, listVars
<1>3. CASE taken' = taken /\ next_free_arena' = next_free_arena
  BY <1>1, <1>2, <1>3 DEF HeapInv, BusyOwns, DyingType, Busy, Dying, NoCall
<1>4. CASE ~(taken' = taken /\ next_free_arena' = next_free_arena)
  <2>1. Popped \in taken'[a]
    BY <1>1, <1>4, TakesOne
  <2>2. call' = [op |-> "use", by |-> a, arena |-> Popped, request |-> r]
    BY <1>1, <1>4
  <2>3. call'.op = "use" /\ call'.by = a /\ call'.arena = Popped
    BY <2>2
  <2>. QED  BY <1>2, <2>1, <2>3 DEF HeapInv, BusyOwns, DyingType, Busy, Dying
<1>. QED  BY <1>3, <1>4

\* Appending an arena to a list keeps the links' types.
LEMMA ListedTypes ==
    ASSUME HeapInv, NEW a \in Allocators, NEW i \in Arenas, ArenaListed(a, i)
    PROVE  /\ next' \in Links /\ previous' \in Links
           /\ arena_list_head' \in [Allocators -> Arenas \cup {NULL}]
           /\ arena_list_tail' \in [Allocators -> Arenas \cup {NULL}]
           /\ HeadIsTail'
           /\ \A n \in Arenas : next'[n] = next[n]
                 \/ n = i \/ n = arena_list_tail[a]
                 \/ (arena_list_tail[a] # NULL /\ n = previous[arena_list_tail[a]])
<1>. DEFINE t == arena_list_tail[a]
            list == List!insert_after(Linked, i, t)
<1>1. /\ next \in Links /\ previous \in Links /\ t \in Arenas \cup {NULL}
      /\ arena_list_head \in [Allocators -> Arenas \cup {NULL}]
      /\ arena_list_tail \in [Allocators -> Arenas \cup {NULL}]
  BY DEF HeapInv, LinkTypes
<1>2. CASE t = NULL
  <2>1. /\ arena_list_head' = [arena_list_head EXCEPT ![a] = i]
        /\ arena_list_tail' = [arena_list_tail EXCEPT ![a] = i]
        /\ next' = next /\ previous' = previous
    BY <1>2 DEF ArenaListed
  <2>2. /\ arena_list_head' \in [Allocators -> Arenas \cup {NULL}]
        /\ arena_list_tail' \in [Allocators -> Arenas \cup {NULL}]
    BY <1>1, <2>1
  <2>3. next' \in Links /\ previous' \in Links
    BY <1>1, <2>1
  <2>4. HeadIsTail'
    BY <2>1 DEF HeapInv, HeadIsTail
  <2>. QED  BY <2>1, <2>2, <2>3, <2>4
<1>3. CASE t # NULL
  <2>1. next' = list.next /\ previous' = list.previous /\ UNCHANGED listVars
    BY <1>3 DEF ArenaListed, Linked
  <2>2. t \in Arenas
    BY <1>1, <1>3
  <2>3. /\ list.next \in Links /\ list.previous \in Links
        /\ \A n \in Arenas : n \notin {i, t, previous[t]} => list.next[n] = next[n]
    BY <1>1, <2>2, InsertWrites
  <2>4. UNCHANGED <<arena_list_head, arena_list_tail>>
    BY <2>1 DEF listVars
  <2>5. \A n \in Arenas : next'[n] = next[n] \/ n = i \/ n = t \/ n = previous[t]
    BY <2>1, <2>3
  <2>6. next' \in Links /\ previous' \in Links
    BY <2>1, <2>3
  <2>7. HeadIsTail'
    BY <2>4 DEF HeapInv, HeadIsTail
  <2>. HIDE DEF list
  <2>. QED  BY <1>1, <1>3, <2>4, <2>5, <2>6, <2>7
<1>. QED  BY <1>2, <1>3

LEMMA UseKeeps ==
    ASSUME HeapInv, PoolInv', UseArena
    PROVE  HeapInv'
<1>. DEFINE a == call.by
            i == call.arena
<1>1. a \in Allocators /\ i \in Arenas
  BY DEF HeapInv, LinkTypes, BusyOwns, Busy, UseArena
<1>2. /\ ArenaListed(a, i) /\ call' = NoCall
      /\ UNCHANGED <<next_free_arena, allocator, taken>>
  BY DEF UseArena
<1>. HIDE DEF a, i
<1>3. LinkTypes' /\ HeadIsTail'
  BY <1>1, <1>2, ListedTypes DEF HeapInv, LinkTypes
<1>4. NamedHas'
  BY <1>2 DEF HeapInv, NamedHas
<1>. QED  BY <1>2, <1>3, <1>4 DEF HeapInv, BusyOwns, DyingType, Busy, Dying, NoCall

\* The arena that leaves its allocator's list is still with the allocator.
LEMMA ReleaseKeeps ==
    ASSUME HeapInv, PoolInv', NEW a \in Allocators, NEW i \in taken[a], ReleaseArena(a, i)
    PROVE  /\ HeapInv'
           /\ \A n \in Arenas : next'[n] = next[n] \/ n = previous[i]
<1>. DEFINE list == List!remove(Linked, i)
<1>1. /\ next \in Links /\ previous \in Links /\ i \in Arenas
      /\ arena_list_head \in [Allocators -> Arenas \cup {NULL}]
      /\ arena_list_tail \in [Allocators -> Arenas \cup {NULL}]
  BY DEF HeapInv, LinkTypes
<1>2. /\ list.next \in Links /\ list.previous \in Links
      /\ \A n \in Arenas \ {previous[i]} : list.next[n] = next[n]
  BY <1>1, RemoveWrites
<1>3. /\ next' = list.next /\ previous' = list.previous
      /\ arena_list_head' = IF arena_list_head[a] = i
                            THEN [arena_list_head EXCEPT ![a] = list.next[i]]
                            ELSE arena_list_head
      /\ arena_list_tail' = IF arena_list_tail[a] = i
                            THEN [arena_list_tail EXCEPT ![a] = list.next[i]]
                            ELSE arena_list_tail
      /\ call' = [op |-> "give", by |-> a, arena |-> i]
      /\ UNCHANGED <<next_free_arena, allocator, taken>>
  BY DEF ReleaseArena, Linked
<1>. HIDE DEF list
<1>4. list.next[i] \in Arenas \cup {NULL}
  BY <1>1, <1>2 DEF Links
<1>5. /\ arena_list_head' \in [Allocators -> Arenas \cup {NULL}]
      /\ arena_list_tail' \in [Allocators -> Arenas \cup {NULL}]
  BY <1>1, <1>3, <1>4
<1>6. LinkTypes' /\ HeadIsTail'
  BY <1>2, <1>3, <1>5 DEF HeapInv, LinkTypes, HeadIsTail
<1>7. NamedHas'
  BY <1>3 DEF HeapInv, NamedHas
<1>8. call'.op = "give" /\ call'.by = a /\ call'.arena = i
  BY <1>3
<1>9. BusyOwns' /\ DyingType'
  BY <1>3, <1>8 DEF BusyOwns, DyingType, Busy, Dying
<1>. QED  BY <1>2, <1>3, <1>6, <1>7, <1>9 DEF HeapInv

\* give_arena takes the name out of the record of an arena that it takes back.
LEMMA GiveTypes ==
    ASSUME HeapInv, NEW a \in Allocators, NEW i \in Arenas, Give(a, i),
           UNCHANGED listVars
    PROVE  LinkTypes' /\ NamedHas' /\ HeadIsTail'
<1>1. LinkTypes /\ NamedHas
  BY DEF HeapInv
<1>2. /\ allocator' = [allocator EXCEPT ![i] = NULL]
      /\ next' = IF next_free_arena = NULL THEN next
                 ELSE [next EXCEPT ![i] = next_free_arena]
      /\ next_free_arena' = i
      /\ taken' = [taken EXCEPT ![a] = @ \ {i}]
      /\ previous' = [previous EXCEPT ![i] = NULL]
  BY DEF Give, GiveArena
<1>3. next' \in Links /\ previous' \in Links
  BY <1>1, <1>2 DEF LinkTypes, Links
<1>4. /\ allocator' \in [Arenas -> Allocators \cup {NULL}]
      /\ taken' \in [Allocators -> SUBSET Arenas]
  BY <1>1, <1>2 DEF LinkTypes
<1>5. LinkTypes'
  BY <1>1, <1>2, <1>3, <1>4 DEF LinkTypes, listVars
<1>6. ASSUME NEW j \in Arenas, allocator'[j] # NULL
      PROVE  j \in taken'[allocator'[j]]
  <2>1. j # i /\ allocator'[j] = allocator[j] /\ allocator[j] \in Allocators
    BY <1>1, <1>2, <1>6 DEF LinkTypes
  <2>2. j \in taken[allocator[j]]
    BY <1>1, <1>6, <2>1 DEF NamedHas
  <2>. QED  BY <1>1, <1>2, <2>1, <2>2 DEF LinkTypes
<1>7. HeadIsTail'
  BY DEF HeapInv, HeadIsTail, listVars
<1>. QED  BY <1>5, <1>6, <1>7 DEF NamedHas

LEMMA GiveKeeps ==
    ASSUME HeapInv, PoolInv', FinishDeallocate \/ DestroyArena
    PROVE  HeapInv'
<1>1. CASE FinishDeallocate
  <2>1. call.by \in Allocators /\ call.arena \in Arenas
    BY <1>1 DEF HeapInv, LinkTypes, BusyOwns, Busy, FinishDeallocate
  <2>2. Give(call.by, call.arena) /\ UNCHANGED listVars /\ call' = NoCall
    BY <1>1 DEF FinishDeallocate
  <2>3. LinkTypes' /\ NamedHas' /\ HeadIsTail'
    BY <2>1, <2>2, GiveTypes
  <2>. QED  BY <2>2, <2>3 DEF HeapInv, BusyOwns, DyingType, Busy, Dying, NoCall
<1>2. CASE DestroyArena
  <2>1. call.by \in Allocators /\ call.arena \in Arenas
    BY <1>2 DEF HeapInv, DyingType, Dying, DestroyArena
  <2>2. /\ Give(call.by, call.arena) /\ UNCHANGED listVars
        /\ call' = Destroying(call.by, next[call.arena])
    BY <1>2 DEF DestroyArena
  <2>3. LinkTypes' /\ NamedHas' /\ HeadIsTail'
    BY <2>1, <2>2, GiveTypes
  <2>4. next[call.arena] \in Arenas \cup {NULL}
    BY <2>1 DEF HeapInv, LinkTypes, Links
  <2>5. call'.op = "destroy" /\ call'.by = call.by /\ call'.arena = next[call.arena]
    BY <2>2 DEF Destroying
  <2>. QED  BY <2>1, <2>3, <2>4, <2>5 DEF HeapInv, BusyOwns, DyingType, Busy, Dying
<1>. QED  BY <1>1, <1>2

LEMMA ReserveKeeps ==
    ASSUME HeapInv, PoolInv', ReserveNext
    PROVE  HeapInv'
<1>1. UNCHANGED <<allocator, taken, previous, listVars, call>>
  BY DEF ReserveNext, ReserveOne, allocatorVars, recordVars
<1>2. next \in Links /\ next_free_arena \in Arenas \cup {NULL}
  BY DEF HeapInv, LinkTypes
<1>3. next' \in Links /\ next_free_arena' \in Arenas \cup {NULL}
  <2>1. CASE AllocateArena /\ next_free_arena' = arena_count
    BY <2>1, NewArena
  <2>2. CASE AllocateArenaFails \/ AllocateArenaFaults
    BY <1>2, <2>2 DEF AllocateArenaFails, AllocateArenaFaults
  <2>. QED  BY <2>1, <2>2 DEF ReserveNext, ReserveOne
<1>4. LinkTypes'
  BY <1>1, <1>3 DEF HeapInv, LinkTypes, listVars
<1>. QED  BY <1>1, <1>4 DEF HeapInv, NamedHas, BusyOwns, DyingType, Busy, Dying,
                            HeadIsTail, listVars

LEMMA HeapNextKeeps ==
    ASSUME HeapInv, [Next]_vars
    PROVE  HeapInv'
<1>1. PoolInv'
  BY PoolNextKeeps DEF HeapInv
<1>2. CASE Construct
  BY <1>1, <1>2, LinksLeft
     DEF Construct, MakeRecords, allocatorVars, recordVars, linkVars
<1>3. ASSUME NEW r \in Requests, Refuse(r)
      PROVE  HeapInv'
  BY <1>1, <1>3, LinksLeft DEF Refuse, vars, poolVars, allocatorVars, recordVars, linkVars
<1>4. ASSUME NEW r \in Requests, Allocate(r)
      PROVE  HeapInv'
  <2>1. PoolFor(r) \in Allocators /\ call = NoCall
    BY <1>4, NullOutside DEF Allocate, Served, Ready
  <2>2. CASE AllocateFromList(PoolFor(r), r)
    BY <1>1, <2>2, LinksLeft DEF AllocateFromList, poolVars, linkVars
  <2>3. CASE RequestArena(PoolFor(r), r)
    BY <1>1, <2>1, <2>3, RequestKeeps
  <2>. QED  BY <1>4, <2>2, <2>3 DEF Allocate
<1>5. CASE FinishAllocate
  BY <1>1, <1>5, UseKeeps DEF FinishAllocate
<1>6. ASSUME NEW h \in held, Deallocate(h)
      PROVE  HeapInv'
  <2>. DEFINE i == GetArena(h.pointer)
              a == allocator[i]
  <2>1. i # NULL /\ a # NULL /\ DeallocateIn(a, i)
    BY <1>6 DEF Deallocate
  <2>2. i \in Arenas
    BY <2>1, LookupType DEF HeapInv
  <2>3. a \in Allocators /\ i \in taken[a]
    BY <2>1, <2>2 DEF HeapInv, LinkTypes, NamedHas
  <2>. HIDE DEF i, a
  <2>4. CASE ReleaseArena(a, i)
    BY <1>1, <2>3, <2>4, ReleaseKeeps
  <2>5. CASE WriteAtOffset(a, i)
    BY <1>1, <2>5, LinksLeft DEF WriteAtOffset, recordVars, linkVars
  <2>. QED  BY <2>1, <2>4, <2>5 DEF DeallocateIn
<1>7. CASE FinishDeallocate \/ DestroyArena
  BY <1>1, <1>7, GiveKeeps
<1>8. ASSUME NEW count \in 1..Reserved, ReserveArenas(count)
      PROVE  HeapInv'
  BY <1>1, <1>8, LinksLeft
     DEF ReserveArenas, Reserve, allocatorVars, recordVars, linkVars
<1>9. CASE ReserveNext
  BY <1>1, <1>9, ReserveKeeps
<1>10. CASE Destroy
  <2>1. MinimumPool \in Allocators
    BY NullOutside, HeapAssumption DEF Pools
  <2>2. arena_list_head[MinimumPool] \in Arenas \cup {NULL}
    BY <2>1 DEF HeapInv, LinkTypes
  <2>3. call' = Destroying(MinimumPool, arena_list_head[MinimumPool])
    BY <1>10 DEF Destroy
  <2>4. UNCHANGED linkVars
    BY <1>10 DEF Destroy, poolVars, recordVars, linkVars
  <2>. QED  BY <1>1, <2>1, <2>2, <2>3, <2>4, LinksLeft
<1>11. CASE DestroyPool
  <2>1. call.by \in Pools /\ call.by < MaximumPool
    BY <1>11, NullOutside DEF DestroyPool, HeapInv, DyingType, Dying
  <2>2. call.by + 1 \in Allocators
    BY <2>1, NullOutside, HeapAssumption DEF Pools
  <2>3. arena_list_head[call.by + 1] \in Arenas \cup {NULL}
    BY <2>2 DEF HeapInv, LinkTypes
  <2>4. call' = Destroying(call.by + 1, arena_list_head[call.by + 1])
    BY <1>11 DEF DestroyPool
  <2>5. UNCHANGED linkVars
    BY <1>11 DEF DestroyPool, poolVars, recordVars, linkVars
  <2>. QED  BY <1>1, <2>2, <2>3, <2>4, <2>5, LinksLeft
<1>12. CASE DestroyRegion
  BY <1>1, <1>12, LinksLeft
     DEF DestroyRegion, DestroyPoolRegion, recordVars, linkVars
<1>13. CASE UNCHANGED vars
  BY <1>1, <1>13, LinksLeft DEF vars, poolVars, allocatorVars, recordVars, linkVars
<1>. QED  BY <1>2, <1>3, <1>4, <1>5, <1>6, <1>7, <1>8, <1>9, <1>10, <1>11, <1>12, <1>13
         DEF Next

(* Whatever the links have come to, the record of an arena names only an    *)
(* allocator that was given the arena, and what take_arena, request and     *)
(* give_arena leave to be done concerns an arena of their own.              *)
THEOREM HeapInvHolds == Spec => []HeapInv
<1>1. ASSUME Init, PoolInv
      PROVE  HeapInv
  <2>1. LinkTypes
    BY <1>1 DEF Init, PoolInit, ArenaInit, LinkTypes, Links
  <2>2. NamedHas /\ call = NoCall /\ HeadIsTail
    BY <1>1 DEF Init, PoolInit, ArenaInit, NamedHas, HeadIsTail
  <2>. QED  BY <1>1, <2>1, <2>2, CallKinds DEF HeapInv, BusyOwns, DyingType
<1>2. Init /\ PoolInv => HeapInv
  BY <1>1
<1>3. HeapInv /\ [Next]_vars => HeapInv'
  BY HeapNextKeeps
<1>. QED  BY <1>2, <1>3, PoolInvHolds, PTL DEF Spec

-----------------------------------------------------------------------------
(* No arena is lost from links that are in order.                           *)

LEMMA FoundAfter ==
    ASSUME HeapInv'
    PROVE  /\ Free' \subseteq Found' /\ InHand' \subseteq Found'
           /\ \A a \in Allocators : Listed(a)' \subseteq Found'
<1>1. Free' \subseteq Arenas /\ \A a \in Allocators : Listed(a)' \subseteq Arenas
  BY DEF Free, Listed, Reached
<1>2. InHand' \subseteq Arenas
  BY DEF InHand, HeapInv, LinkTypes, BusyOwns, Busy
<1>. QED  BY <1>1, <1>2 DEF Found

\* Where the allocated arenas are, and that no two of these places meet.
LEMMA InOrder ==
    ASSUME Consistent, HeapInv
    PROVE  /\ \A i \in Allocated : \/ i \in Free \cup InHand
                                    \/ \E a \in Allocators : i \in Listed(a)
           /\ Free \subseteq Arenas /\ Free \cap Taken = {}
           /\ \A a \in Allocators :
                 /\ Listed(a) = Owned(a) /\ Listed(a) \subseteq taken[a]
                 /\ taken[a] \subseteq Taken
                 /\ \A b \in Allocators : a # b => taken[a] \cap taken[b] = {}
<1>1. \A a \in Allocators :
         Listed(a) = Owned(a) /\ Owned(a) \subseteq taken[a] /\ taken[a] \subseteq Taken
  BY DEF Consistent, Owned, Taken
<1>2. /\ Allocated = Free \cup Taken /\ Free \cap Taken = {}
      /\ \A a, b \in Allocators : a # b => taken[a] \cap taken[b] = {}
  BY DEF Consistent, OnePlace
<1>3. ASSUME NEW i \in Taken
      PROVE  i \in InHand \/ \E a \in Allocators : i \in Listed(a)
  <2>1. PICK a \in Allocators : i \in taken[a]
    BY DEF Taken
  <2>2. CASE i \in Owned(a)
    BY <1>1, <2>2
  <2>3. CASE i \notin Owned(a)
    BY <2>1, <2>3 DEF InHand, Owned
  <2>. QED  BY <2>2, <2>3
<1>4. Free \subseteq Arenas
  BY DEF Free, Reached
<1>. QED  BY <1>1, <1>2, <1>3, <1>4

\* What is found stays found by a step that leaves the links and the call alone.
LEMMA FoundLeft ==
    ASSUME Consistent, HeapInv, HeapInv',
           UNCHANGED <<arena_count, next_free_arena, next, arena_list_head, call>>
    PROVE  Allocated' \subseteq Found'
<1>1. \A a \in Allocators : Listed(a)' = Listed(a)
  BY DEF Listed, Destroyed, ListStart
<1>2. Free' = Free /\ Allocated' = Allocated /\ InHand' = InHand
  BY DEF Free, Allocated, InHand
<1>. QED  BY <1>1, <1>2, InOrder, FoundAfter

\* Outside the destructor, and after a step that does not begin it, the list of
\* an allocator is what is reached from its head.
LEMMA ListedFromHead ==
    ASSUME ~Dying, NEW a
    PROVE  Listed(a) = Reached(next, arena_list_head[a])
BY DEF Listed, Destroyed, ListStart, Dying

LEMMA ListedFromHeadAfter ==
    ASSUME ~Dying', NEW a
    PROVE  Listed(a)' = Reached(next', arena_list_head'[a])
BY DEF Listed, Destroyed, ListStart, Dying

\* A list is as long as before when neither its head nor the links of its arenas
\* change.
LEMMA ListedStays ==
    ASSUME HeapInv, LinkTypes', ~Dying, ~Dying', NEW a \in Allocators,
           arena_list_head'[a] = arena_list_head[a],
           \A n \in Listed(a) : next'[n] = next[n]
    PROVE  Listed(a) \subseteq Listed(a)'
<1>1. /\ Listed(a) = Reached(next, arena_list_head[a])
      /\ Listed(a)' = Reached(next', arena_list_head[a])
  BY ListedFromHead, ListedFromHeadAfter
<1>2. /\ arena_list_head[a] \in Arenas \cup {NULL}
      /\ next \in Links /\ next' \in Links
  BY DEF HeapInv, LinkTypes
<1>. QED  BY <1>1, <1>2, ReachedSame

LEMMA FreeStays ==
    ASSUME HeapInv, LinkTypes', UNCHANGED next_free_arena,
           \A n \in Free : next'[n] = next[n]
    PROVE  Free \subseteq Free'
<1>1. /\ next_free_arena \in Arenas \cup {NULL}
      /\ next \in Links /\ next' \in Links
  BY DEF HeapInv, LinkTypes
<1>. QED  BY <1>1, ReachedSame DEF Free

LEMMA AllocatedOneMore ==
    ASSUME HeapInv, arena_count' = arena_count + 1
    PROVE  Allocated' \subseteq Allocated \cup {arena_count}
<1>1. arena_count \in Nat
  BY DEF HeapInv, PoolInv
<1>. QED  BY <1>1 DEF Allocated

\* A new arena in front of the free ones leaves them all behind it.
LEMMA NewLosesNone ==
    ASSUME Consistent, HeapInv, HeapInv', AllocateArena,
           next_free_arena' = arena_count, UNCHANGED <<arena_list_head, call>>
    PROVE  Allocated' \subseteq Found'
<1>1. /\ arena_count \in Arenas /\ arena_count' = arena_count + 1
      /\ next'[arena_count] = next_free_arena
      /\ \A n \in Arenas \ {arena_count} : next'[n] = next[n]
      /\ next \in Links /\ next' \in Links
      /\ next_free_arena \in Arenas \cup {NULL}
  BY NewArena DEF HeapInv, LinkTypes
<1>2. arena_count \notin Free /\ arena_count \notin Taken
  BY NewIsNowhere DEF HeapInv
<1>3. \A a \in Allocators :
         Destroyed(a)' = Destroyed(a) /\ ListStart(a)' = ListStart(a)
  BY DEF Destroyed, ListStart
<1>4. arena_count \in Free' /\ (next_free_arena # NULL => next_free_arena \in Free')
  <2>1. Free' = Reached(next', arena_count)
    BY DEF Free
  <2>2. Closed(next', arena_count, Reached(next', arena_count))
    BY <1>1, ReachedClosed
  <2>. QED  BY <1>1, <2>1, <2>2, NullOutside DEF Closed
<1>5. Free \subseteq Free'
  <2>1. \A n \in Reached(next, next_free_arena) : next'[n] = next[n]
    BY <1>1, <1>2, InOrder DEF Free
  <2>2. next_free_arena # NULL => next_free_arena \in Reached(next', arena_count)
    BY <1>4 DEF Free
  <2>3. Reached(next, next_free_arena) \subseteq Reached(next', arena_count)
    BY <1>1, <2>1, <2>2, ReachedStays
  <2>. QED  BY <2>3 DEF Free
<1>6. ASSUME NEW a \in Allocators
      PROVE  Listed(a) \subseteq Listed(a)'
  <2>1. Listed(a) \subseteq Taken /\ Taken \subseteq Arenas
    BY InOrder DEF Taken, HeapInv, LinkTypes
  <2>2. \A n \in Listed(a) : next'[n] = next[n]
    BY <1>1, <1>2, <2>1
  <2>3. ListStart(a) \in Arenas \cup {NULL}
    BY DEF ListStart, HeapInv, LinkTypes, DyingType, Dying
  <2>. QED  BY <1>1, <1>3, <2>2, <2>3, ReachedSame DEF Listed
<1>7. InHand' = InHand
  BY DEF InHand
<1>. QED  BY <1>1, <1>4, <1>5, <1>6, <1>7, AllocatedOneMore, InOrder, FoundAfter

\* The arena that is popped is in the hands of the call.
LEMMA TakeLosesNone ==
    ASSUME Consistent, HeapInv, HeapInv', call = NoCall, NEW a \in Allocators,
           NEW r, RequestArena(a, r)
    PROVE  Allocated' \subseteq Found'
<1>1. /\ LinkTypes /\ LinkTypes' /\ ~Dying /\ InHand = {}
      /\ next \in Links /\ next' \in Links
  BY CallKinds DEF HeapInv, LinkTypes, NoCall, InHand
<1>2. /\ TakeArena(a) /\ UNCHANGED arena_list_head
      /\ call' = IF taken' = taken /\ next_free_arena' = next_free_arena THEN NoCall
                 ELSE [op |-> "use", by |-> a, arena |-> Popped, request |-> r]
  BY DEF RequestArena, listVars
<1>3. ~Dying'
  BY <1>2 DEF Dying, NoCall
<1>4. ASSUME NEW i \in Arenas, GiveTo(a, i), i \notin taken[a], Popped = i
      PROVE  i \in Found'
  <2>1. taken' # taken
    BY <1>1, <1>4 DEF GiveTo, LinkTypes
  <2>2. call'.op = "use" /\ call'.arena = i
    BY <1>2, <1>4, <2>1
  <2>3. InHand' = {i}
    BY <2>2 DEF InHand
  <2>. QED  BY <2>3, FoundAfter
<1>5. ASSUME \A n \in Taken : next'[n] = next[n]
      PROVE  \A b \in Allocators : Listed(b) \subseteq Found'
  <2>1. ASSUME NEW b \in Allocators
        PROVE  Listed(b) \subseteq Listed(b)'
    <3>1. \A n \in Listed(b) : next'[n] = next[n]
      BY <1>5, InOrder
    <3>. QED  BY <1>1, <1>2, <1>3, <3>1, ListedStays
  <2>. QED  BY <2>1, FoundAfter
<1>6. CASE PopFree(a)
  <2>. DEFINE i == next_free_arena
  <2>1. /\ i \in Arenas /\ GiveTo(a, i) /\ next_free_arena' = next[i]
        /\ UNCHANGED <<arena_count, next>> /\ Popped = i
    BY <1>1, <1>6 DEF PopFree, LinkTypes, Popped
  <2>2. Free \subseteq Free' \cup {i}
    BY <1>1, <2>1, ReachedBehind DEF Free
  <2>3. i \in Free
    BY <1>1, <2>1, ReachedClosed, NullOutside DEF Free, Closed
  <2>4. i \notin taken[a]
    BY <2>3, InOrder
  <2>5. i \in Found' /\ \A b \in Allocators : Listed(b) \subseteq Found'
    BY <1>4, <1>5, <2>1, <2>4
  <2>6. Allocated' = Allocated
    BY <2>1 DEF Allocated
  <2>. QED  BY <1>1, <2>2, <2>5, <2>6, InOrder, FoundAfter
<1>7. CASE PopNew(a)
  <2>. DEFINE i == arena_count
  <2>1. /\ next_free_arena = NULL /\ AllocateArena /\ GiveTo(a, i) /\ Popped = i
    BY <1>7 DEF PopNew, Popped
  <2>2. /\ i \in Arenas /\ arena_count' = i + 1
        /\ \A n \in Arenas \ {i} : next'[n] = next[n]
    BY <2>1, NewArena
  <2>3. Free = {}
    BY <2>1, ReachedNone DEF Free
  <2>4. i \notin Taken /\ Taken \subseteq Arenas
    BY NewIsNowhere DEF HeapInv, LinkTypes, Taken
  <2>5. i \in Found' /\ \A b \in Allocators : Listed(b) \subseteq Found'
    BY <1>4, <1>5, <2>1, <2>2, <2>4, InOrder
  <2>6. Allocated' \subseteq Allocated \cup {i}
    BY <2>2, AllocatedOneMore
  <2>. QED  BY <1>1, <2>3, <2>5, <2>6, InOrder
<1>8. CASE TakeNothing
  <2>1. UNCHANGED <<arena_count, next_free_arena, next, taken>>
    BY <1>8 DEF TakeNothing, AllocateArenaFails, AllocateArenaFaults
  <2>2. call' = NoCall
    BY <1>2, <2>1
  <2>. QED  BY <1>2, <2>1, <2>2, FoundLeft
<1>. QED  BY <1>2, <1>6, <1>7, <1>8 DEF TakeArena

\* An append behind the head writes links of the list's own arenas, and leaves
\* behind the new arena what was behind the head.
LEMMA UseLosesNone ==
    ASSUME Consistent, HeapInv, HeapInv', UseArena, ~StaleAppend,
           NEW a, NEW i, a = call.by, i = call.arena
    PROVE  Allocated' \subseteq Found'
<1>. DEFINE t == arena_list_tail[a]
<1>1. /\ a \in Allocators /\ i \in taken[a] /\ i \in Arenas /\ ~Dying
      /\ Owned(a) = taken[a] \ {i}
  BY CallKinds DEF HeapInv, LinkTypes, BusyOwns, Busy, UseArena, Owned
<1>2. /\ ArenaListed(a, i) /\ UNCHANGED <<arena_count, next_free_arena>>
      /\ call' = NoCall /\ call.op = "use"
  BY DEF UseArena
<1>3. ~Dying' /\ InHand = {i}
  BY <1>2 DEF Dying, NoCall, InHand
<1>4. t # NULL /\ next[t] = NULL => InPlace(a, t)
  BY <1>2 DEF StaleAppend
<1>5. /\ LinkTypes /\ LinkTypes' /\ next \in Links /\ next' \in Links
      /\ previous \in Links /\ t \in Arenas \cup {NULL} /\ NULL \notin Arenas
      /\ arena_list_head \in [Allocators -> Arenas \cup {NULL}]
      /\ arena_list_tail \in [Allocators -> Arenas \cup {NULL}]
      /\ t = arena_list_head[a]
  BY <1>1, NullOutside DEF HeapInv, LinkTypes, HeadIsTail
<1>6. CASE t = NULL
  <2>1. /\ arena_list_head' = [arena_list_head EXCEPT ![a] = i] /\ next' = next
    BY <1>2, <1>6 DEF ArenaListed
  <2>2. \A b \in Allocators \ {a} : Listed(b) \subseteq Listed(b)'
    BY <1>1, <1>3, <1>5, <2>1, ListedStays
  <2>3. Listed(a) = {}
    BY <1>1, <1>5, <1>6, ListedFromHead, ReachedNone
  <2>4. i \in Listed(a)'
    <3>1. Listed(a)' = Reached(next', i)
      <4>1. arena_list_head'[a] = i
        BY <1>1, <1>5, <2>1
      <4>2. Listed(a)' = Reached(next', arena_list_head'[a])
        BY <1>3, ListedFromHeadAfter
      <4>. QED  BY <4>1, <4>2
    <3>2. Closed(next', i, Reached(next', i))
      BY <1>1, <1>5, ReachedClosed
    <3>. QED  BY <1>1, <1>5, <3>1, <3>2 DEF Closed
  <2>5. Free' = Free /\ Allocated' = Allocated
    BY <1>2, <2>1 DEF Free, Allocated
  <2>. QED  BY <1>1, <1>3, <2>2, <2>3, <2>4, <2>5, InOrder, FoundAfter
<1>7. CASE t # NULL
  <2>1. t \in Arenas /\ t \in Listed(a)
    <3>1. t \in Arenas
      BY <1>5, <1>7
    <3>2. Closed(next, t, Reached(next, t))
      BY <1>5, <3>1, ReachedClosed
    <3>. QED  BY <1>1, <1>5, <1>7, <3>1, <3>2, ListedFromHead DEF Closed
  <2>2. i # t /\ i \notin Listed(a)
    BY <1>1, <2>1, InOrder
  <2>3. next[t] = NULL => previous[t] = NULL
    BY <1>4, <1>5, <1>7 DEF InPlace
  <2>4. /\ next'[t] = i /\ next'[i] = next[t]
        /\ \A n \in Arenas \ {i, t} : next'[n] = next[n]
        /\ UNCHANGED <<arena_list_head, arena_list_tail>>
    <3>1. next' = List!insert_after(Linked, i, t).next /\ UNCHANGED listVars
      BY <1>2, <1>7 DEF ArenaListed, Linked
    <3>. QED  BY <1>1, <1>5, <2>1, <2>2, <2>3, <3>1, InsertWrites DEF listVars
  <2>. HIDE DEF t
  <2>5. Free \subseteq Free' /\ Allocated' = Allocated
    <3>1. \A n \in Free : next'[n] = next[n]
      BY <1>1, <2>1, <2>4, InOrder
    <3>. QED  BY <1>2, <1>5, <3>1, FreeStays DEF Allocated
  <2>6. ASSUME NEW b \in Allocators, b # a
        PROVE  Listed(b) \subseteq Listed(b)'
    <3>1. \A n \in Listed(b) : n \in Arenas /\ n \notin taken[a]
      BY <1>1, <2>6, InOrder DEF HeapInv, LinkTypes
    <3>2. t \in taken[a]
      BY <1>1, <2>1, InOrder
    <3>. QED  BY <1>1, <1>3, <1>5, <2>4, <2>6, <3>1, <3>2, ListedStays
  <2>7. Listed(a) \cup {i} \subseteq Listed(a)'
    <3>. DEFINE now == Reached(next', t)
    <3>1. Listed(a) = Reached(next, t) /\ Listed(a)' = now
      <4>1. Listed(a) = Reached(next, arena_list_head[a])
        BY <1>1, ListedFromHead
      <4>2. Listed(a)' = Reached(next', arena_list_head'[a])
        BY <1>3, ListedFromHeadAfter
      <4>. QED  BY <1>5, <2>4, <4>1, <4>2
    <3>2. now \subseteq Arenas /\ Closed(next', t, now)
      BY <1>5, <2>1, ReachedClosed
    <3>. HIDE DEF now
    <3>3. t \in now /\ i \in now
      BY <1>1, <1>5, <2>1, <2>4, <3>2 DEF Closed
    <3>4. ASSUME NEW n \in now, next[n] # NULL, n # i
          PROVE  next[n] \in now
      BY <1>5, <2>1, <2>4, <3>2, <3>3, <3>4 DEF Closed
    <3>5. Reached(next, t) \subseteq now
      <4>1. Reached(next, t) \subseteq Arenas /\ Closed(next, t, Reached(next, t))
        BY <1>5, <2>1, ReachedClosed
      <4>2. Closed(next, t, now \cap Reached(next, t))
        BY <2>2, <3>1, <3>3, <3>4, <4>1 DEF Closed
      <4>3. now \cap Reached(next, t) \in SUBSET Arenas
        BY <3>2
      <4>. QED  BY <4>2, <4>3, ReachedLeast
    <3>. QED  BY <3>1, <3>3, <3>5
  <2>. QED  BY <1>1, <1>3, <2>5, <2>6, <2>7, InOrder, FoundAfter
<1>. QED  BY <1>6, <1>7

\* What stood behind the arena that is removed stands behind the one before it.
LEMMA ReleaseLosesNone ==
    ASSUME Consistent, HeapInv, HeapInv', call = NoCall, NEW a \in Allocators,
           NEW i \in taken[a], ReleaseArena(a, i), ~StaleRemove
    PROVE  Allocated' \subseteq Found'
<1>1. /\ ~Busy /\ ~Dying /\ Owned(a) = taken[a] /\ i \in Arenas /\ NULL \notin Arenas
      /\ InHand = {}
  BY CallKinds, NullOutside DEF Owned, Busy, InHand, HeapInv, LinkTypes
<1>2. /\ LinkTypes /\ LinkTypes' /\ next \in Links /\ next' \in Links
      /\ previous \in Links
      /\ arena_list_head \in [Allocators -> Arenas \cup {NULL}]
      /\ arena_list_head' \in [Allocators -> Arenas \cup {NULL}]
  BY DEF HeapInv, LinkTypes
<1>3. call'.op = "give" /\ call'.by = a /\ call'.arena = i
  BY DEF ReleaseArena
<1>4. InPlace(a, i)
  BY <1>3 DEF StaleRemove, NoCall
<1>5. ~Dying' /\ i \in Found'
  <2>1. InHand' = {i}
    BY <1>3 DEF InHand
  <2>. QED  BY <1>3, <2>1, FoundAfter DEF Dying
<1>6. /\ \A n \in Arenas \ {previous[i]} : next'[n] = next[n]
      /\ previous[i] \in Arenas => next'[previous[i]] = next[i]
      /\ arena_list_head' = IF arena_list_head[a] = i
                            THEN [arena_list_head EXCEPT ![a] = next'[i]]
                            ELSE arena_list_head
      /\ UNCHANGED <<arena_count, next_free_arena>>
  <2>1. /\ next' = List!remove(Linked, i).next
        /\ arena_list_head' = IF arena_list_head[a] = i
                              THEN [arena_list_head EXCEPT ![a] = next'[i]]
                              ELSE arena_list_head
        /\ UNCHANGED <<arena_count, next_free_arena>>
    BY DEF ReleaseArena, Linked
  <2>. QED  BY <1>1, <1>2, <2>1, RemoveWrites
<1>7. previous[i] \in taken[a] \cup {NULL}
  BY <1>1, <1>4 DEF InPlace
<1>8. Free \subseteq Free' /\ Allocated' = Allocated
  <2>1. \A n \in Free : next'[n] = next[n]
    BY <1>1, <1>6, <1>7, InOrder
  <2>. QED  BY <1>2, <1>6, <2>1, FreeStays DEF Allocated
<1>9. ASSUME NEW b \in Allocators, b # a
      PROVE  Listed(b) \subseteq Listed(b)'
  <2>1. \A n \in Listed(b) : n \in Arenas /\ n \notin taken[a]
    BY <1>9, InOrder DEF HeapInv, LinkTypes
  <2>2. \A n \in Listed(b) : next'[n] = next[n]
    BY <1>1, <1>6, <1>7, <2>1
  <2>3. arena_list_head'[b] = arena_list_head[b]
    BY <1>2, <1>6, <1>9
  <2>. QED  BY <1>1, <1>2, <1>5, <2>2, <2>3, ListedStays
<1>10. Listed(a) \subseteq Listed(a)' \cup {i}
  <2>. DEFINE h == arena_list_head[a]
              before == Reached(next, h)
              now == Listed(a)'
  <2>1. before = Listed(a) /\ now = Reached(next', arena_list_head'[a])
    BY <1>1, <1>5, ListedFromHead, ListedFromHeadAfter
  <2>2. /\ h \in Arenas \cup {NULL} /\ before \subseteq Arenas /\ Closed(next, h, before)
        /\ now \subseteq Arenas /\ Closed(next', arena_list_head'[a], now)
    BY <1>2, <2>1, ReachedClosed
  <2>. HIDE DEF now
  <2>3. CASE i = h
    <3>1. previous[i] = NULL /\ arena_list_head'[a] = next[i]
      BY <1>1, <1>2, <1>4, <1>6, <2>3 DEF InPlace
    <3>2. Closed(next, h, now \cup {i}) /\ now \cup {i} \in SUBSET Arenas
      BY <1>1, <1>6, <2>2, <2>3, <3>1 DEF Closed
    <3>3. before \subseteq now \cup {i}
      BY <3>2, ReachedLeast
    <3>. QED  BY <2>1, <3>3 DEF now
  <2>4. CASE i # h
    <3>. DEFINE p == previous[i]
    <3>1. /\ p \in Arenas /\ next[p] = i /\ p \in before
          /\ arena_list_head' = arena_list_head
      BY <1>1, <1>2, <1>4, <1>6, <2>1, <2>4, InOrder DEF InPlace, HeapInv, LinkTypes
    <3>. HIDE DEF p, h, before
    <3>2. ASSUME NEW n \in now, n # p, next[n] # NULL
          PROVE  next[n] \in now
      BY <1>6, <2>2, <3>1, <3>2 DEF Closed, p
    <3>3. h # NULL => h \in now
      BY <2>2, <3>1 DEF Closed, h
    <3>4. p \in now
      <4>. SUFFICES ASSUME p \notin now PROVE FALSE  OBVIOUS
      <4>1. Closed(next, h, now)
        BY <3>2, <3>3 DEF Closed
      <4>. QED  BY <2>2, <3>1, <4>1, ReachedLeast DEF before
    <3>5. next[i] # NULL => next[i] \in now
      BY <1>1, <1>6, <2>2, <3>1, <3>4 DEF Closed, p
    <3>6. Closed(next, h, now \cup {i}) /\ now \cup {i} \in SUBSET Arenas
      BY <1>1, <2>2, <3>1, <3>2, <3>3, <3>5 DEF Closed
    <3>7. before \subseteq now \cup {i}
      BY <3>6, ReachedLeast DEF before
    <3>. QED  BY <2>1, <3>7 DEF now, before
  <2>. QED  BY <2>3, <2>4
<1>. QED  BY <1>1, <1>5, <1>8, <1>9, <1>10, InOrder, FoundAfter

\* An arena that is given back is in front of the free ones, which stay free.
LEMMA GiveFrees ==
    ASSUME HeapInv, HeapInv', NEW a \in Allocators, NEW i \in Arenas, Give(a, i),
           i \notin Free
    PROVE  /\ Free \cup {i} \subseteq Free'
           /\ \A n \in Arenas \ {i} : next'[n] = next[n]
<1>1. /\ next \in Links /\ next' \in Links /\ NULL \notin Arenas
      /\ next_free_arena \in Arenas \cup {NULL}
  BY NullOutside DEF HeapInv, LinkTypes
<1>2. /\ next' = IF next_free_arena = NULL THEN next
                 ELSE [next EXCEPT ![i] = next_free_arena]
      /\ next_free_arena' = i
  BY DEF Give, GiveArena
<1>3. \A n \in Arenas \ {i} : next'[n] = next[n]
  BY <1>1, <1>2 DEF Links
<1>4. Closed(next', i, Reached(next', i)) /\ Free' = Reached(next', i)
  BY <1>1, <1>2, ReachedClosed DEF Free
<1>5. i \in Free'
  BY <1>1, <1>4 DEF Closed
<1>6. next_free_arena # NULL => next_free_arena \in Reached(next', i)
  <2>. SUFFICES ASSUME next_free_arena # NULL
                PROVE  next_free_arena \in Reached(next', i)
    OBVIOUS
  <2>1. next'[i] = next_free_arena
    BY <1>1, <1>2 DEF Links
  <2>. QED  BY <1>4, <1>5, <2>1 DEF Closed
<1>7. Free \subseteq Free'
  <2>1. Free = Reached(next, next_free_arena) /\ Free \subseteq Arenas
    BY DEF Free, Reached
  <2>2. \A n \in Reached(next, next_free_arena) : next'[n] = next[n]
    BY <1>3, <2>1
  <2>3. Reached(next, next_free_arena) \subseteq Reached(next', i)
    BY <1>1, <1>6, <2>2, ReachedStays
  <2>. QED  BY <1>4, <2>1, <2>3
<1>. QED  BY <1>3, <1>5, <1>7

LEMMA GiveLosesNone ==
    ASSUME Consistent, HeapInv, HeapInv', FinishDeallocate,
           NEW a, NEW i, a = call.by, i = call.arena
    PROVE  Allocated' \subseteq Found'
<1>1. /\ a \in Allocators /\ i \in taken[a] /\ i \in Arenas /\ ~Dying
      /\ Owned(a) = taken[a] \ {i} /\ Give(a, i)
      /\ UNCHANGED <<arena_list_head, arena_count>> /\ call' = NoCall
      /\ InHand = {i}
  BY CallKinds DEF HeapInv, LinkTypes, BusyOwns, Busy, FinishDeallocate, Owned, Give,
                   GiveArena, listVars, InHand
<1>2. ~Dying' /\ LinkTypes'
  BY <1>1 DEF Dying, NoCall, HeapInv
<1>3. i \notin Free
  BY <1>1, InOrder
<1>4. /\ Free \cup {i} \subseteq Free'
      /\ \A n \in Arenas \ {i} : next'[n] = next[n]
  BY <1>1, <1>3, GiveFrees
<1>5. ASSUME NEW b \in Allocators
      PROVE  Listed(b) \subseteq Listed(b)'
  <2>1. \A n \in Listed(b) : n \in Arenas /\ n # i
    <3>1. CASE b = a
      BY <1>1, <3>1, InOrder DEF HeapInv, LinkTypes
    <3>2. CASE b # a
      BY <1>1, <3>2, InOrder DEF HeapInv, LinkTypes
    <3>. QED  BY <3>1, <3>2
  <2>. QED  BY <1>1, <1>2, <1>4, <2>1, ListedStays
<1>6. Allocated' = Allocated
  BY <1>1 DEF Allocated
<1>. QED  BY <1>1, <1>4, <1>5, <1>6, InOrder, FoundAfter

-----------------------------------------------------------------------------
(* The destructor.                                                          *)

LEMMA PoolsAreNumbers ==
    \A a \in Allocators : a \in Int /\ MinimumPool <= a /\ a <= MaximumPool
BY NullOutside, HeapAssumption DEF Pools

\* It stands at the head of its next allocator's list.
LEMMA DestroyBegins ==
    ASSUME Consistent, HeapInv, HeapInv',
           UNCHANGED <<arena_count, next_free_arena, next, arena_list_head>>,
           \/ ~Dying /\ call.op \notin {"use", "give"}
              /\ call' = Destroying(MinimumPool, arena_list_head[MinimumPool])
           \/ DestroyPool
    PROVE  Allocated' \subseteq Found'
<1>1. InHand = {}
  BY DEF DestroyPool, InHand
<1>2. Free' = Free /\ Allocated' = Allocated
  BY DEF Free, Allocated
<1>3. ASSUME NEW a \in Allocators
      PROVE  Listed(a) \subseteq Listed(a)'
  <2>1. CASE ~Dying /\ call' = Destroying(MinimumPool, arena_list_head[MinimumPool])
    <3>1. call'.op = "destroy" /\ call'.by = MinimumPool
          /\ call'.arena = arena_list_head[MinimumPool]
      BY <2>1 DEF Destroying
    <3>2. a \in Int /\ MinimumPool \in Int /\ ~(a < MinimumPool)
      BY PoolsAreNumbers, HeapAssumption
    <3>3. Listed(a)' = Reached(next, arena_list_head[a])
      BY <3>1, <3>2 DEF Listed, Destroyed, ListStart
    <3>. QED  BY <2>1, <3>3, ListedFromHead
  <2>2. CASE DestroyPool
    <3>. DEFINE p == call.by
    <3>1. /\ call.op = "destroy" /\ call.arena = NULL
          /\ call'.op = "destroy" /\ call'.by = p + 1
          /\ call'.arena = arena_list_head[p + 1]
      BY <2>2 DEF DestroyPool, Destroying
    <3>2. p \in Int /\ a \in Int
      BY <3>1, PoolsAreNumbers DEF HeapInv, DyingType, Dying
    <3>3. CASE a <= p
      <4>1. Listed(a) = {}
        BY <3>1, <3>2, <3>3, ReachedNone DEF Listed, Destroyed, ListStart
      <4>. QED  BY <4>1
    <3>4. CASE a > p
      <4>1. Listed(a) = Reached(next, arena_list_head[a])
        BY <3>1, <3>2, <3>4 DEF Listed, Destroyed, ListStart
      <4>2. Listed(a)' = Reached(next, arena_list_head[a])
        BY <3>1, <3>2, <3>4 DEF Listed, Destroyed, ListStart
      <4>. QED  BY <4>1, <4>2
    <3>. QED  BY <3>2, <3>3, <3>4
  <2>. QED  BY <2>1, <2>2
<1>. QED  BY <1>1, <1>2, <1>3, InOrder, FoundAfter

\* It reads the link of an arena before it gives the arena back, so the rest of the
\* list is where it goes on.
LEMMA DestroyLosesNone ==
    ASSUME Consistent, HeapInv, HeapInv', DestroyArena,
           NEW a, NEW i, a = call.by, i = call.arena
    PROVE  Allocated' \subseteq Found'
<1>1. /\ a \in Allocators /\ i \in Arenas /\ call.op = "destroy" /\ NULL \notin Arenas
      /\ next \in Links /\ next' \in Links
  BY NullOutside DEF HeapInv, LinkTypes, DyingType, Dying, DestroyArena
<1>2. /\ Give(a, i) /\ UNCHANGED <<arena_list_head, arena_count>>
      /\ call'.op = "destroy" /\ call'.by = a /\ call'.arena = next[i]
  BY DEF DestroyArena, Destroying, listVars, Give, GiveArena
<1>3. \A b \in Allocators : b \in Int
  BY PoolsAreNumbers
<1>4. /\ Listed(a) = Reached(next, i) /\ Listed(a)' = Reached(next', next[i])
      /\ next[i] \in Arenas \cup {NULL}
  <2>1. ~(a < a)
    BY <1>1, <1>3
  <2>2. ~Destroyed(a) /\ ListStart(a) = i
    BY <1>1, <2>1 DEF Destroyed, ListStart
  <2>3. Destroyed(a)' = FALSE /\ ListStart(a)' = next[i]
    BY <1>1, <1>2, <2>1 DEF Destroyed, ListStart
  <2>. QED  BY <1>1, <2>2, <2>3 DEF Listed, Links
<1>5. i \in Listed(a)
  BY <1>1, <1>4, ReachedClosed DEF Closed
<1>6. i \in taken[a] /\ i \notin Free
  BY <1>1, <1>5, InOrder
<1>7. /\ Free \cup {i} \subseteq Free'
      /\ \A n \in Arenas \ {i} : next'[n] = next[n]
  BY <1>1, <1>2, <1>6, GiveFrees
<1>8. ASSUME NEW b \in Allocators, b # a
      PROVE  Listed(b) \subseteq Listed(b)'
  <2>1. CASE Destroyed(b)
    BY <2>1 DEF Listed
  <2>2. CASE ~Destroyed(b)
    <3>1. /\ Listed(b) = Reached(next, arena_list_head[b])
          /\ Listed(b)' = Reached(next', arena_list_head[b])
      BY <1>1, <1>2, <1>8, <2>2 DEF Listed, Destroyed, ListStart
    <3>2. \A n \in Listed(b) : n \in Arenas /\ n # i
      BY <1>1, <1>6, <1>8, InOrder DEF HeapInv, LinkTypes
    <3>3. arena_list_head[b] \in Arenas \cup {NULL}
      BY DEF HeapInv, LinkTypes
    <3>. QED  BY <1>1, <1>7, <3>1, <3>2, <3>3, ReachedSame
  <2>. QED  BY <2>1, <2>2
<1>9. Listed(a) \subseteq Listed(a)' \cup Free'
  <2>. DEFINE now == Listed(a)'
              s == now \cup Free'
  <2>1. now \subseteq Arenas /\ Closed(next', next[i], now)
    BY <1>1, <1>4, ReachedClosed
  <2>2. Free' \subseteq Arenas /\ Closed(next', next_free_arena', Free')
    <3>1. next_free_arena' \in Arenas \cup {NULL}
      BY DEF HeapInv, LinkTypes
    <3>. QED  BY <1>1, <3>1, ReachedClosed DEF Free
  <2>. HIDE DEF now
  <2>3. ASSUME NEW n \in s, next[n] # NULL
        PROVE  next[n] \in s
    <3>1. CASE n = i
      BY <2>1, <2>3, <3>1 DEF Closed
    <3>2. CASE n # i
      BY <1>7, <2>1, <2>2, <2>3, <3>2 DEF Closed
    <3>. QED  BY <3>1, <3>2
  <2>4. Closed(next, i, s) /\ s \in SUBSET Arenas
    BY <1>7, <2>1, <2>2, <2>3 DEF Closed
  <2>. QED  BY <1>4, <2>4, ReachedLeast DEF now
<1>10. Allocated' = Allocated /\ InHand = {}
  BY <1>1, <1>2 DEF Allocated, InHand
<1>. QED  BY <1>7, <1>8, <1>9, <1>10, InOrder, FoundAfter

LEMMA NextLosesNone ==
    ASSUME Consistent, HeapInv, HeapInv', [Next]_vars, ~StaleRemove, ~StaleAppend
    PROVE  Allocated' \subseteq Found'
<1>1. CASE UNCHANGED vars
  BY <1>1, FoundLeft DEF vars, poolVars, allocatorVars, listVars
<1>2. ASSUME NEW r \in Requests, Refuse(r)
      PROVE  Allocated' \subseteq Found'
  BY <1>1, <1>2 DEF Refuse
<1>3. ASSUME NEW r \in Requests, Allocate(r)
      PROVE  Allocated' \subseteq Found'
  <2>1. PoolFor(r) \in Allocators /\ call = NoCall
    BY <1>3, NullOutside DEF Allocate, Served, Ready
  <2>2. CASE AllocateFromList(PoolFor(r), r)
    BY <2>2, FoundLeft DEF AllocateFromList, poolVars, listVars
  <2>3. CASE RequestArena(PoolFor(r), r)
    BY <2>1, <2>3, TakeLosesNone
  <2>. QED  BY <1>3, <2>2, <2>3 DEF Allocate
<1>4. CASE FinishAllocate
  BY <1>4, UseLosesNone DEF FinishAllocate
<1>5. ASSUME NEW h \in held, Deallocate(h)
      PROVE  Allocated' \subseteq Found'
  <2>. DEFINE i == GetArena(h.pointer)
              a == allocator[i]
  <2>1. i # NULL /\ a # NULL /\ DeallocateIn(a, i) /\ call = NoCall
    BY <1>5 DEF Deallocate, Ready
  <2>2. i \in Arenas
    BY <2>1, LookupType DEF HeapInv
  <2>3. a \in Allocators /\ i \in taken[a]
    BY <2>1, <2>2 DEF HeapInv, LinkTypes, NamedHas
  <2>. HIDE DEF i, a
  <2>4. CASE ReleaseArena(a, i)
    BY <2>1, <2>3, <2>4, ReleaseLosesNone
  <2>5. CASE WriteAtOffset(a, i)
    BY <2>5, FoundLeft DEF WriteAtOffset, listVars
  <2>. QED  BY <2>1, <2>4, <2>5 DEF DeallocateIn
<1>6. CASE FinishDeallocate
  BY <1>6, GiveLosesNone
<1>7. CASE ReserveNext
  <2>0. UNCHANGED <<arena_list_head, call>>
    BY <1>7 DEF ReserveNext, allocatorVars, listVars
  <2>1. CASE AllocateArena /\ next_free_arena' = arena_count
    BY <2>0, <2>1, NewLosesNone
  <2>2. CASE AllocateArenaFails \/ AllocateArenaFaults
    BY <2>0, <2>2, FoundLeft DEF AllocateArenaFails, AllocateArenaFaults
  <2>. QED  BY <1>7, <2>1, <2>2 DEF ReserveNext, ReserveOne
<1>8. CASE Construct \/ \E count \in 1..Reserved : ReserveArenas(count)
  BY <1>8, FoundLeft
     DEF Construct, MakeRecords, ReserveArenas, Reserve, allocatorVars, listVars
<1>9. CASE Destroy \/ DestroyPool
  <2>1. UNCHANGED <<arena_count, next_free_arena, next, arena_list_head>>
    BY <1>9 DEF Destroy, DestroyPool, poolVars, listVars
  <2>2. CASE Destroy
    <3>1. ~Dying /\ call.op \notin {"use", "give"}
      BY <2>2 DEF Destroy, Ready, Dying, NoCall
    <3>. QED  BY <2>1, <2>2, <3>1, DestroyBegins DEF Destroy
  <2>. QED  BY <1>9, <2>1, <2>2, DestroyBegins
<1>10. CASE DestroyRegion
  BY <1>10, FoundLeft DEF DestroyRegion, DestroyPoolRegion, listVars
<1>. QED  BY <1>1, <1>2, <1>3, <1>4, <1>5, <1>6, <1>7, <1>8, <1>9, <1>10, DestroyLosesNone
         DEF Next

(* In any pool over any number of arenas, a call that finds the links in    *)
(* order and follows no stale previous pointer loses no arena: each one     *)
(* that was allocated is reached along the free list, along the list of an  *)
(* allocator, or is in the hands of the call.                               *)
THEOREM NoArenaLostHolds == Spec => NoArenaLost
<1>1. HeapInv /\ HeapInv' /\ [Next]_vars =>
         [Consistent /\ ~StaleRemove /\ ~StaleAppend => Allocated' \subseteq Found']_vars
  BY NextLosesNone
<1>. QED  BY <1>1, HeapInvHolds, PTL DEF Spec, NoArenaLost

-----------------------------------------------------------------------------
(* pool_allocator: the blocks of an arena.                                  *)

BlockAt(a, i, k) == ArenaBase(i) + k * ObjectSize(a)

\* The blocks of an allocator fit into an arena.
LEMMA BlockSizes ==
    ASSUME NEW a \in Allocators
    PROVE  /\ ObjectSize(a) \in Nat \ {0} /\ ObjectCount(a) \in Nat \ {0}
           /\ \A k \in 0..(ObjectCount(a) - 1) : k * ObjectSize(a) \in 0..(ArenaSize - 1)
<1>1. /\ ParameterSize[a] \in 1..ArenaSize /\ NodeWidth \in Nat \ {0}
      /\ ParameterSize[a] >= NodeWidth /\ ArenaSize \in Nat \ {0}
  BY SizesAssumption, SizeAssumption
<1>. DEFINE s == ParameterSize[a]
            n == ArenaSize \div s
<1>2. s \in 1..ArenaSize /\ s \in Nat \ {0}
  BY <1>1
<1>3. ObjectSize(a) = s /\ ObjectCount(a) = n
  BY <1>1 DEF ObjectSize, ObjectCount, Larger
<1>. HIDE DEF s
<1>4. n \in Nat /\ ArenaSize % s \in 0..(s - 1) /\ ArenaSize = n * s + (ArenaSize % s)
  BY <1>1, <1>2
<1>. HIDE DEF n
<1>5. n # 0
  BY <1>1, <1>2, <1>4
<1>6. ASSUME NEW k \in 0..(n - 1)
      PROVE  k * s \in 0..(ArenaSize - 1)
  <2>1. (k + 1) * s <= n * s /\ (k + 1) * s = k * s + s /\ k * s \in Nat /\ n * s \in Nat
    BY <1>2, <1>4
  <2>. QED  BY <1>1, <1>2, <1>4, <2>1
<1>. QED  BY <1>2, <1>3, <1>4, <1>5, <1>6

\* A block of an arena is a node, and get_arena finds the arena.
LEMMA BlockFound ==
    ASSUME NEW a \in Allocators, NEW i \in Arenas, NEW k \in 0..(ObjectCount(a) - 1)
    PROVE  /\ BlockAt(a, i, k) \in Nodes /\ BlockAt(a, i, k) \in Int
           /\ PoolInv /\ i \in Allocated => GetArena(BlockAt(a, i, k)) = i
<1>1. BlockAt(a, i, k) \in Nodes
  <2>1. BlockAt(a, i, k) \in BlocksOf(a, i)
    BY DEF BlockAt, BlocksOf
  <2>. DEFINE all == {BlocksOf(b, j) : b \in Allocators, j \in Arenas}
  <2>2. Nodes = UNION all
    BY DEF Nodes
  <2>3. BlocksOf(a, i) \in all
    OBVIOUS
  <2>. HIDE DEF all
  <2>. QED  BY <2>1, <2>2, <2>3
<1>2. k * ObjectSize(a) \in 0..(ArenaSize - 1) /\ ArenaSize \in Nat
  BY BlockSizes, ArenaBases
<1>3. i \in 0..Reserved /\ ArenaBase(i) \in Nat
  BY ArenaBases DEF Arenas
<1>4. BlockAt(a, i, k) \in Int
  BY <1>2, <1>3 DEF BlockAt
<1>5. PoolInv /\ i \in Allocated => GetArena(BlockAt(a, i, k)) = i
  BY <1>2, Lookup DEF BlockAt
<1>. QED  BY <1>1, <1>4, <1>5

LEMMA BlocksDiffer ==
    ASSUME NEW a \in Allocators, NEW i \in Arenas, NEW k \in Nat, NEW m \in Nat,
           BlockAt(a, i, k) = BlockAt(a, i, m)
    PROVE  k = m
<1>1. i \in 0..Reserved /\ ArenaBase(i) \in Nat /\ ObjectSize(a) \in Nat \ {0}
  BY ArenaBases, BlockSizes DEF Arenas
<1>. DEFINE s == ObjectSize(a)
<1>2. k * s = m * s
  <2>1. k * s \in Nat /\ m * s \in Nat
    BY <1>1
  <2>. QED  BY <1>1, <2>1 DEF BlockAt
<1>. HIDE DEF s
<1>3. s \in Nat \ {0}
  BY <1>1 DEF s
<1>4. CASE k < m
  <2>1. (k + 1) * s <= m * s /\ (k + 1) * s = k * s + s /\ k * s \in Nat /\ m * s \in Nat
    BY <1>3, <1>4
  <2>. QED  BY <1>2, <1>3, <2>1
<1>5. CASE m < k
  <2>1. (m + 1) * s <= k * s /\ (m + 1) * s = m * s + s /\ k * s \in Nat /\ m * s \in Nat
    BY <1>3, <1>5
  <2>. QED  BY <1>2, <1>3, <2>1
<1>. QED  BY <1>4, <1>5

\* The block behind another one.
LEMMA BlockBehind ==
    ASSUME NEW a \in Allocators, NEW i \in Arenas, NEW k \in Nat
    PROVE  BlockAt(a, i, k) + ObjectSize(a) = BlockAt(a, i, k + 1)
<1>1. i \in 0..Reserved /\ ArenaBase(i) \in Nat /\ ObjectSize(a) \in Nat
  BY ArenaBases, BlockSizes DEF Arenas
<1>2. (k + 1) * ObjectSize(a) = k * ObjectSize(a) + ObjectSize(a)
      /\ k * ObjectSize(a) \in Nat
  BY <1>1
<1>. QED  BY <1>1, <1>2 DEF BlockAt

\* An arena that was found stays found while arenas are added.
LEMMA LookupStable ==
    ASSUME HeapInv, HeapInv', records => records', arena_count' \in {arena_count, arena_count + 1},
           NEW p, GetArena(p) # NULL
    PROVE  GetArena(p)' = GetArena(p)
<1>1. /\ records = TRUE /\ p \in ArenaBase(0)..(ArenaBase(arena_count) - 1)
      /\ GetArena(p) = (p - ArenaBase(0)) \div ArenaSize
  BY DEF GetArena, HeapInv, PoolInv
<1>2. arena_count \in 0..Reserved /\ arena_count' \in 0..Reserved
      /\ arena_count <= arena_count' /\ 0 \in 0..Reserved
  BY ArenaBases DEF HeapInv, PoolInv
<1>3. /\ ArenaBase(0) \in Nat /\ ArenaBase(arena_count) \in Nat
      /\ ArenaBase(arena_count') \in Nat /\ ArenaBase(arena_count) <= ArenaBase(arena_count')
  BY <1>2, ArenaBases, ArenasOrdered
<1>4. p \in ArenaBase(0)..(ArenaBase(arena_count') - 1) /\ records'
  BY <1>1, <1>3
<1>. QED  BY <1>1, <1>4 DEF GetArena, ArenaBase

Pointers == Int \cup {NULL}
NodeRecords == [Nodes -> [size : Int, next : Pointers, previous : Pointers]]

NodeTypes ==
    /\ free_node_count \in [Arenas -> Int]
    /\ free_node_list \in [Arenas -> Pointers]
    /\ node \in NodeRecords

\* Links of nodes may be written anywhere: the sizes stay.
SetPrevious(nodes, x, v) == [nodes EXCEPT ![x].previous = v]
SetNext(nodes, x, v) == [nodes EXCEPT ![x].next = v]

LEMMA LinkWritten ==
    ASSUME NEW nodes \in NodeRecords, NEW x, NEW v \in Pointers
    PROVE  /\ SetPrevious(nodes, x, v) \in NodeRecords /\ SetNext(nodes, x, v) \in NodeRecords
           /\ \A y \in Nodes : /\ SetPrevious(nodes, x, v)[y].size = nodes[y].size
                              /\ SetNext(nodes, x, v)[y].size = nodes[y].size
BY DEF NodeRecords, SetPrevious, SetNext

\* The blocks of an arena that were never handed out are the last ones, and the
\* first of these has their number.
Cut(a, count) == ObjectCount(a) - count
FreeSpan(a, i, count, list, nodes) ==
    /\ count \in 0..ObjectCount(a)
    /\ count = 0 => list = NULL
    /\ count > 0 => /\ list = BlockAt(a, i, Cut(a, count))
                    /\ nodes[list].size = count

LEMMA NodeSplit ==
    ASSUME NEW a \in Allocators, NEW i \in Arenas, NEW nodes \in NodeRecords,
           NEW c \in 1..ObjectCount(a), NEW b, b = BlockAt(a, i, Cut(a, c)),
           nodes[b].size = c
    PROVE  LET split == Split(a, nodes, b)
               rest == BlockAt(a, i, Cut(a, c - 1))
           IN  /\ split.nodes \in NodeRecords /\ split.next \in Pointers
               /\ c > 1 => split.next = rest /\ split.nodes[rest].size = c - 1
               /\ \A y \in Nodes : split.nodes[y].size = nodes[y].size
                                   \/ (c > 1 /\ y = rest)
<1>. DEFINE split == Split(a, nodes, b)
            rest == BlockAt(a, i, Cut(a, c - 1))
<1>1. /\ ObjectCount(a) \in Nat \ {0} /\ c \in Nat \ {0} /\ c <= ObjectCount(a)
      /\ Cut(a, c) \in 0..(ObjectCount(a) - 1) /\ Cut(a, c) \in Nat
      /\ Cut(a, c - 1) = Cut(a, c) + 1
  BY BlockSizes DEF Cut
<1>2. b \in Nodes /\ b \in Int
  BY <1>1, BlockFound
<1>3. rest = b + ObjectSize(a)
  BY <1>1, BlockBehind
<1>4. nodes[b].next \in Pointers
  BY <1>2 DEF NodeRecords
<1>. HIDE DEF rest
<1>5. CASE c > 1
  <2>1. Cut(a, c - 1) \in 0..(ObjectCount(a) - 1)
    BY <1>1, <1>5 DEF Cut
  <2>2. rest \in Nodes /\ rest \in Int
    BY <2>1, BlockFound DEF rest
  <2>3. /\ split.next = rest
        /\ split.nodes = [nodes EXCEPT ![rest].size = c - 1, ![rest].next = b]
    BY <1>3, <1>5 DEF Split
  <2>4. split.nodes \in NodeRecords
    BY <1>1, <1>2, <2>2, <2>3 DEF NodeRecords, Pointers
  <2>5. split.nodes[rest].size = c - 1
    BY <2>2, <2>3 DEF NodeRecords
  <2>6. \A y \in Nodes : y # rest => split.nodes[y].size = nodes[y].size
    BY <2>3 DEF NodeRecords
  <2>. QED  BY <1>5, <2>2, <2>3, <2>4, <2>5, <2>6 DEF Pointers, rest
<1>6. CASE ~(c > 1)
  <2>1. split.next = nodes[b].next /\ split.nodes = nodes
    BY <1>6 DEF Split
  <2>. QED  BY <1>4, <1>6, <2>1
<1>. QED  BY <1>5, <1>6

\* Taking the first free block of an arena leaves the rest of its span.
LEMMA NodeTakes ==
    ASSUME PoolInv, NEW a \in Allocators, NEW i \in Arenas, i \in Allocated,
           NEW count \in [Arenas -> Int], NEW list \in [Arenas -> Pointers],
           NEW nodes \in NodeRecords, count[i] > 0,
           FreeSpan(a, i, count[i], list[i], nodes)
    PROVE  LET t == TakeNode(a, Free3(count, list, nodes), i)
               rest == BlockAt(a, i, Cut(a, count[i] - 1))
           IN  /\ t.count \in [Arenas -> Int] /\ t.list \in [Arenas -> Pointers]
               /\ t.nodes \in NodeRecords
               /\ t.count[i] = count[i] - 1
               /\ FreeSpan(a, i, t.count[i], t.list[i], t.nodes)
               /\ \A j \in Arenas \ {i} : t.count[j] = count[j] /\ t.list[j] = list[j]
               /\ \A y \in Nodes : t.nodes[y].size = nodes[y].size
                                   \/ (count[i] > 1 /\ y = rest)
<1>. DEFINE c == count[i]
            b == list[i]
            s == Free3(count, list, nodes)
            t == TakeNode(a, s, i)
            split == Split(a, nodes, b)
            rest == BlockAt(a, i, Cut(a, c - 1))
            less == [count EXCEPT ![i] = @ - 1]
            linked == [split.nodes EXCEPT ![split.next].previous = split.nodes[b].previous]
            ahead == linked[b].previous
<1>1. /\ c \in 1..ObjectCount(a) /\ ObjectCount(a) \in Nat \ {0}
      /\ b = BlockAt(a, i, Cut(a, c)) /\ nodes[b].size = c
      /\ Cut(a, c) \in 0..(ObjectCount(a) - 1)
  BY BlockSizes DEF FreeSpan, Cut
<1>2. b \in Nodes /\ GetArena(b) = i
  BY <1>1, BlockFound
<1>3. t = IF less[i] = 0
          THEN Free3(less, [list EXCEPT ![i] = NULL], linked)
          ELSE Free3(less, [list EXCEPT ![i] = split.next],
                     [linked EXCEPT ![ahead].next = split.next])
  BY <1>2 DEF TakeNode, Free3
<1>. HIDE DEF c, b, t
<1>4. /\ split.nodes \in NodeRecords /\ split.next \in Pointers
      /\ c > 1 => split.next = rest /\ split.nodes[rest].size = c - 1
      /\ \A y \in Nodes : split.nodes[y].size = nodes[y].size \/ (c > 1 /\ y = rest)
  BY <1>1, NodeSplit
<1>5. c > 1 => rest \in Nodes
  <2>1. c > 1 => Cut(a, c - 1) \in 0..(ObjectCount(a) - 1)
    BY <1>1 DEF Cut
  <2>. QED  BY <2>1, BlockFound
<1>. HIDE DEF split, rest
<1>6. split.nodes[b].previous \in Pointers
  BY <1>2, <1>4 DEF NodeRecords
<1>7. linked \in NodeRecords /\ \A y \in Nodes : linked[y].size = split.nodes[y].size
  <2>. DEFINE m == split.nodes
              x == split.next
              v == split.nodes[b].previous
  <2>1. linked = SetPrevious(m, x, v)
    BY DEF SetPrevious
  <2>2. m \in NodeRecords /\ v \in Pointers
    BY <1>4, <1>6
  <2>. HIDE DEF linked, m, x, v
  <2>3. linked \in NodeRecords /\ \A y \in Nodes : linked[y].size = m[y].size
    BY <2>1, <2>2, LinkWritten
  <2>. QED  BY <2>3 DEF m
<1>. HIDE DEF linked
<1>8. less \in [Arenas -> Int] /\ less[i] = c - 1 /\ \A j \in Arenas \ {i} : less[j] = count[j]
  BY <1>1 DEF c
<1>. HIDE DEF less
<1>9. CASE c = 1
  <2>1. t.count = less /\ t.list = [list EXCEPT ![i] = NULL] /\ t.nodes = linked
    BY <1>3, <1>8, <1>9 DEF Free3
  <2>2. /\ t.list \in [Arenas -> Pointers] /\ t.list[i] = NULL
        /\ \A j \in Arenas \ {i} : t.list[j] = list[j]
    BY <2>1 DEF Pointers
  <2>3. FreeSpan(a, i, t.count[i], t.list[i], t.nodes)
    BY <1>1, <1>8, <1>9, <2>1, <2>2 DEF FreeSpan
  <2>4. t.count[i] = c - 1 /\ \A j \in Arenas \ {i} : t.count[j] = count[j]
    BY <1>8, <2>1
  <2>5. \A y \in Nodes : t.nodes[y].size = nodes[y].size \/ (c > 1 /\ y = rest)
    BY <1>4, <1>7, <2>1
  <2>6. t.count \in [Arenas -> Int] /\ t.nodes \in NodeRecords
    BY <1>7, <1>8, <2>1
  <2>. QED  BY <2>2, <2>3, <2>4, <2>5, <2>6 DEF c, rest, t
<1>10. CASE c > 1
  <2>1. /\ t.count = less /\ t.list = [list EXCEPT ![i] = rest]
        /\ t.nodes = [linked EXCEPT ![ahead].next = rest] /\ rest \in Pointers
    <3>1. less[i] # 0 /\ split.next = rest /\ rest \in Pointers
      BY <1>1, <1>4, <1>8, <1>10
    <3>. HIDE DEF ahead
    <3>2. t = Free3(less, [list EXCEPT ![i] = rest], [linked EXCEPT ![ahead].next = rest])
      BY <1>3, <3>1
    <3>. QED  BY <3>1, <3>2 DEF Free3
  <2>2. t.nodes \in NodeRecords /\ \A y \in Nodes : t.nodes[y].size = linked[y].size
    <3>. HIDE DEF ahead
    <3>1. t.nodes = SetNext(linked, ahead, rest)
      BY <2>1 DEF SetNext
    <3>. QED  BY <1>7, <2>1, <3>1, LinkWritten
  <2>3. /\ t.list \in [Arenas -> Pointers] /\ t.list[i] = rest
        /\ \A j \in Arenas \ {i} : t.list[j] = list[j]
    BY <2>1
  <2>4. t.nodes[rest].size = c - 1
    BY <1>4, <1>5, <1>7, <1>10, <2>2
  <2>5. FreeSpan(a, i, t.count[i], t.list[i], t.nodes)
    <3>1. t.count[i] = c - 1 /\ c - 1 \in 0..ObjectCount(a) /\ c - 1 > 0
      BY <1>1, <1>8, <1>10, <2>1
    <3>. QED  BY <2>3, <2>4, <3>1 DEF FreeSpan, rest
  <2>6. t.count[i] = c - 1 /\ \A j \in Arenas \ {i} : t.count[j] = count[j]
    BY <1>8, <2>1
  <2>7. \A y \in Nodes : t.nodes[y].size = nodes[y].size \/ (c > 1 /\ y = rest)
    BY <1>4, <1>7, <2>2
  <2>8. t.count \in [Arenas -> Int]
    BY <1>8, <2>1
  <2>. QED  BY <2>2, <2>3, <2>5, <2>6, <2>7, <2>8 DEF c, rest, t
<1>. QED  BY <1>1, <1>9, <1>10

-----------------------------------------------------------------------------
(* pool_allocator: an arena is handed out block after block.                *)

\* The blocks of an arena that the program has are the first ones.
HandedFirst(a, i, count, has) ==
    \A h \in has : \E k \in 0..(Cut(a, count) - 1) : h.block = BlockAt(a, i, k)
Filled(a, i) ==
    /\ FreeSpan(a, i, free_node_count[i], free_node_list[i], node)
    /\ HandedFirst(a, i, free_node_count[i], HeldIn(i))

AllFilled == \A a \in Allocators : \A i \in Owned(a) : Filled(a, i)
FillInv == NodeTypes /\ (~Dying => AllFilled)

\* An arena is with one allocator, and one that was allocated.
LEMMA TakenOnce ==
    ASSUME Consistent, HeapInv, NEW a \in Allocators, NEW i \in taken[a]
    PROVE  /\ i \in Arenas /\ i \in Allocated
           /\ \A b \in Allocators : i \in taken[b] => b = a
BY DEF Consistent, OnePlace, Taken, HeapInv, LinkTypes

LEMMA OwnedTaken ==
    ASSUME NEW a
    PROVE  Owned(a) \subseteq taken[a]
BY DEF Owned

\* The program has blocks of arenas that are found.
LEMMA HeldFound ==
    ASSUME Consistent, HeapInv, ~Dying, NEW h \in held
    PROVE  GetArena(h.block) # NULL
<1>1. PICK a \in Allocators : GetArena(h.block) \in Owned(a)
  BY DEF Consistent, Dying
<1>2. GetArena(h.block) \in Arenas
  BY <1>1, OwnedTaken DEF HeapInv, LinkTypes
<1>. QED  BY <1>2, NullOutside

LEMMA HeldStays ==
    ASSUME Consistent, HeapInv, HeapInv', ~Dying, records => records',
           arena_count' \in {arena_count, arena_count + 1}, NEW h \in held
    PROVE  GetArena(h.block)' = GetArena(h.block)
<1>. DEFINE p == h.block
<1>1. GetArena(p) # NULL
  BY HeldFound
<1>. HIDE DEF p
<1>2. GetArena(p)' = GetArena(p)
  BY <1>1, LookupStable
<1>. QED  BY <1>2 DEF p

\* What takes no block changes only arenas that are not on a list.
LEMMA FillLeft ==
    ASSUME Consistent, HeapInv, HeapInv', FillInv, ~Dying, records => records',
           arena_count' \in {arena_count, arena_count + 1}, held' \subseteq held,
           UNCHANGED node, NodeTypes',
           \A a \in Allocators : \A i \in Owned(a)' :
              /\ i \in Owned(a)
              /\ free_node_count'[i] = free_node_count[i]
              /\ free_node_list'[i] = free_node_list[i]
    PROVE  FillInv'
<1>1. ASSUME NEW a \in Allocators, NEW i \in Owned(a)'
      PROVE  Filled(a, i)'
  <2>1. /\ Filled(a, i)
        /\ free_node_count'[i] = free_node_count[i]
        /\ free_node_list'[i] = free_node_list[i]
    BY <1>1 DEF FillInv, AllFilled
  <2>2. HeldIn(i)' \subseteq HeldIn(i)
    BY HeldStays DEF HeldIn
  <2>3. FreeSpan(a, i, free_node_count'[i], free_node_list'[i], node')
    BY <2>1 DEF Filled
  <2>4. HandedFirst(a, i, free_node_count'[i], HeldIn(i)')
    BY <2>1, <2>2 DEF Filled, HandedFirst
  <2>. QED  BY <2>3, <2>4 DEF Filled, FreeSpan, HandedFirst
<1>2. AllFilled'
  BY <1>1 DEF AllFilled
<1>. QED  BY <1>2 DEF FillInv

\* A block is taken from an arena of an allocator that has one.
LEMMA TakesBlock ==
    ASSUME Consistent, HeapInv, HeapInv', FillInv, ~Dying,
           UNCHANGED <<records, arena_count, taken>>, call' = NoCall,
           NEW a \in Allocators, NEW i \in taken[a],
           \A b \in Allocators : taken[b] \ {i} \subseteq Owned(b),
           NEW count \in [Arenas -> Int], NEW list \in [Arenas -> Pointers],
           NEW nodes \in NodeRecords,
           \A j \in Arenas \ {i} : count[j] = free_node_count[j]
                                   /\ list[j] = free_node_list[j],
           \A y \in Nodes : GetArena(y) # i => nodes[y].size = node[y].size,
           count[i] > 0, FreeSpan(a, i, count[i], list[i], nodes),
           HandedFirst(a, i, count[i], HeldIn(i)),
           NodeTaken(a, Free3(count, list, nodes), i), NEW r, Handed(list[i], r)
    PROVE  FillInv' /\ twice' = twice
<1>. DEFINE c == count[i]
            b == list[i]
            rest == BlockAt(a, i, Cut(a, c - 1))
<1>1. /\ i \in Arenas /\ i \in Allocated /\ PoolInv
      /\ \A x \in Allocators : i \in taken[x] => x = a
  BY TakenOnce DEF HeapInv
<1>2. /\ c \in 1..ObjectCount(a) /\ ObjectCount(a) \in Nat \ {0}
      /\ b = BlockAt(a, i, Cut(a, c))
      /\ Cut(a, c) \in 0..(ObjectCount(a) - 1) /\ Cut(a, c - 1) = Cut(a, c) + 1
  BY BlockSizes DEF FreeSpan, Cut
<1>3. GetArena(b) = i
  BY <1>1, <1>2, BlockFound
<1>4. /\ NodeTypes'
      /\ free_node_count'[i] = c - 1
      /\ FreeSpan(a, i, free_node_count'[i], free_node_list'[i], node')
      /\ \A j \in Arenas \ {i} : /\ free_node_count'[j] = free_node_count[j]
                                 /\ free_node_list'[j] = free_node_list[j]
      /\ \A y \in Nodes : node'[y].size = nodes[y].size \/ (c > 1 /\ y = rest)
  <2>. DEFINE t == TakeNode(a, Free3(count, list, nodes), i)
  <2>1. /\ t.count \in [Arenas -> Int] /\ t.list \in [Arenas -> Pointers]
        /\ t.nodes \in NodeRecords
        /\ t.count[i] = c - 1
        /\ FreeSpan(a, i, t.count[i], t.list[i], t.nodes)
        /\ \A j \in Arenas \ {i} : t.count[j] = count[j] /\ t.list[j] = list[j]
        /\ \A y \in Nodes : t.nodes[y].size = nodes[y].size \/ (c > 1 /\ y = rest)
    BY <1>1, NodeTakes
  <2>2. free_node_count' = t.count /\ free_node_list' = t.list /\ node' = t.nodes
    BY DEF NodeTaken
  <2>. HIDE DEF t, c, rest
  <2>. QED  BY <2>1, <2>2 DEF NodeTypes
<1>5. \E new : held' = held \cup {new} /\ new.block = b
  <2>. DEFINE new == [block |-> b, pointer |-> AlignPointer(b, r.alignment), size |-> r.size]
  <2>1. held' = held \cup {new}
    BY DEF Handed
  <2>2. new.block = b
    OBVIOUS
  <2>. HIDE DEF new
  <2>. QED  BY <2>1, <2>2
<1>6. PICK new : held' = held \cup {new} /\ new.block = b
  BY <1>5
<1>. HIDE DEF c, b, rest
<1>7. \A p : GetArena(p)' = GetArena(p)
  BY DEF GetArena, ArenaBase
<1>8. \A h \in held : h.block # b
  <2>. SUFFICES ASSUME NEW h \in held, h.block = b PROVE FALSE
    OBVIOUS
  <2>1. h \in HeldIn(i)
    BY <1>3 DEF HeldIn
  <2>2. PICK k \in 0..(Cut(a, c) - 1) : h.block = BlockAt(a, i, k)
    BY <2>1 DEF HandedFirst, c
  <2>3. k \in Nat /\ Cut(a, c) \in Nat /\ k # Cut(a, c)
    BY <1>2
  <2>. QED  BY <1>1, <1>2, <2>2, <2>3, BlocksDiffer
<1>9. Filled(a, i)'
  <2>1. HeldIn(i)' \subseteq HeldIn(i) \cup {new}
    BY <1>6, <1>7 DEF HeldIn
  <2>2. ASSUME NEW h \in HeldIn(i)'
        PROVE  \E k \in 0..(Cut(a, c - 1) - 1) : h.block = BlockAt(a, i, k)
    <3>1. CASE h \in HeldIn(i)
      <4>1. PICK k \in 0..(Cut(a, c) - 1) : h.block = BlockAt(a, i, k)
        BY <3>1 DEF HandedFirst, c
      <4>2. k \in 0..(Cut(a, c - 1) - 1)
        BY <1>2
      <4>. QED  BY <4>1, <4>2
    <3>2. CASE h = new
      <4>1. Cut(a, c) \in 0..(Cut(a, c - 1) - 1)
        BY <1>2
      <4>. QED  BY <1>2, <1>6, <3>2, <4>1
    <3>. QED  BY <2>1, <3>1, <3>2
  <2>3. HandedFirst(a, i, free_node_count'[i], HeldIn(i)')
    BY <1>4, <2>2 DEF HandedFirst
  <2>. QED  BY <1>4, <2>3 DEF Filled, FreeSpan, HandedFirst
<1>10. ASSUME NEW x \in Allocators, NEW j \in taken[x], j # i
       PROVE  Filled(x, j)'
  <2>1. j \in Owned(x) /\ Filled(x, j) /\ j \in Arenas /\ j \in Allocated
    BY <1>10, TakenOnce DEF FillInv, AllFilled
  <2>2. /\ free_node_count'[j] = free_node_count[j]
        /\ free_node_list'[j] = free_node_list[j]
    BY <1>4, <1>10, <2>1
  <2>. DEFINE m == free_node_count[j]
              l == free_node_list[j]
  <2>3. FreeSpan(x, j, m, l, node)
    BY <2>1 DEF Filled
  <2>4. m > 0 => node'[l].size = m
    <3>. SUFFICES ASSUME m > 0 PROVE node'[l].size = m
      OBVIOUS
    <3>1. /\ m \in 1..ObjectCount(x) /\ ObjectCount(x) \in Nat
          /\ l = BlockAt(x, j, Cut(x, m)) /\ node[l].size = m
      BY <2>3, BlockSizes DEF FreeSpan
    <3>2. Cut(x, m) \in 0..(ObjectCount(x) - 1)
      BY <3>1 DEF Cut
    <3>3. l \in Nodes /\ GetArena(l) = j
      BY <1>1, <2>1, <3>1, <3>2, BlockFound
    <3>4. nodes[l].size = m
      BY <1>10, <3>1, <3>3
    <3>5. ~(c > 1 /\ l = rest)
      <4>. SUFFICES ASSUME c > 1, l = rest PROVE FALSE
        OBVIOUS
      <4>1. Cut(a, c - 1) \in 0..(ObjectCount(a) - 1)
        BY <1>2 DEF Cut
      <4>2. GetArena(rest) = i
        BY <1>1, <4>1, BlockFound DEF rest
      <4>. QED  BY <1>10, <3>3, <4>2
    <3>. HIDE DEF m, l
    <3>. QED  BY <1>4, <3>3, <3>4, <3>5
  <2>5. FreeSpan(x, j, m, l, node')
    BY <2>3, <2>4 DEF FreeSpan
  <2>6. HeldIn(j)' \subseteq HeldIn(j)
    BY <1>3, <1>6, <1>7, <1>10 DEF HeldIn
  <2>7. HandedFirst(x, j, m, HeldIn(j)')
    BY <2>1, <2>6 DEF Filled, HandedFirst
  <2>. QED  BY <2>2, <2>5, <2>7 DEF Filled, FreeSpan, HandedFirst
<1>11. AllFilled'
  <2>1. ASSUME NEW x \in Allocators, NEW j \in Owned(x)'
        PROVE  Filled(x, j)'
    <3>1. j \in taken[x]
      BY <2>1 DEF Owned
    <3>2. CASE j = i
      BY <1>1, <1>9, <3>1, <3>2
    <3>3. CASE j # i
      BY <1>10, <3>1, <3>3
    <3>. QED  BY <3>2, <3>3
  <2>. QED  BY <2>1 DEF AllFilled
<1>12. twice' = twice
  BY <1>8 DEF Handed, b
<1>. QED  BY <1>4, <1>11, <1>12 DEF FillInv

\* What holds of some numbers holds of a least one.
Less == {pair \in Nat \X Nat : pair[1] < pair[2]}

LEMMA LeastOf ==
    ASSUME NEW T \in SUBSET Nat, T # {}
    PROVE  \E x \in T : \A y \in T : x <= y
<1>1. IsWellFoundedOn(Less, Nat)
  BY NatLessThanWellFounded DEF OpToRel, Less
<1>2. PICK x \in T : \A y \in T : ~(<<y, x>> \in Less)
  BY <1>1, WFMin
<1>3. \A y \in T : x \in Nat /\ y \in Nat /\ ~(y < x)
  BY <1>2 DEF Less
<1>. QED  BY <1>3

\* Following the links n times.
LEMMA BehindIs ==
    /\ Behind[0] = [i \in Arenas \cup {NULL} |-> i]
    /\ \A n \in Nat \ {0} :
          Behind[n] = [i \in Arenas \cup {NULL} |->
                          IF i = NULL THEN NULL ELSE Behind[n - 1][next[i]]]
<1>. DEFINE Here == [i \in Arenas \cup {NULL} |-> i]
            D(v, n) == [i \in Arenas \cup {NULL} |->
                           IF i = NULL THEN NULL ELSE v[next[i]]]
<1>1. NatInductiveDefHypothesis(Behind, Here, D)
  BY DEF NatInductiveDefHypothesis, Behind
<1>. HIDE DEF Here, D
<1>2. NatInductiveDefConclusion(Behind, Here, D)
  BY <1>1, NatInductiveDef
<1>3. \A n \in Nat : Behind[n] = IF n = 0 THEN Here ELSE D(Behind[n - 1], n)
  BY <1>2 DEF NatInductiveDefConclusion
<1>4. Behind[0] = Here
  BY <1>3
<1>5. \A n \in Nat \ {0} : Behind[n] = D(Behind[n - 1], n)
  BY <1>3
<1>. QED  BY <1>4, <1>5 DEF Here, D

\* Following links does not lead out of what they reach.
LEMMA BehindReached ==
    ASSUME LinkTypes, NEW start \in Arenas \cup {NULL}, NEW n \in Nat
    PROVE  Behind[n][start] \in Reached(next, start) \cup {NULL}
<1>. DEFINE s == Reached(next, start) \cup {NULL}
            Out(k) == \E x \in s : Behind[k][x] \notin s
            T == {k \in Nat : Out(k)}
<1>1. /\ s \subseteq Arenas \cup {NULL} /\ start \in s /\ NULL \in s
      /\ \A x \in s : x # NULL => next[x] \in s
  BY ReachedClosed, NullOutside DEF LinkTypes, Closed
<1>. HIDE DEF s
<1>2. T = {}
  <2>. SUFFICES ASSUME T # {} PROVE FALSE  OBVIOUS
  <2>1. PICK k \in T : \A j \in T : k <= j
    BY LeastOf
  <2>2. PICK x \in s : Behind[k][x] \notin s
    BY <2>1
  <2>3. k # 0
    BY <1>1, <2>2, BehindIs
  <2>4. Behind[k][x] = IF x = NULL THEN NULL ELSE Behind[k - 1][next[x]]
    <3>1. k \in Nat \ {0} /\ x \in Arenas \cup {NULL}
      BY <1>1, <2>3
    <3>2. Behind[k] = [i \in Arenas \cup {NULL} |->
                          IF i = NULL THEN NULL ELSE Behind[k - 1][next[i]]]
      BY <3>1, BehindIs
    <3>. QED  BY <3>1, <3>2
  <2>5. x # NULL /\ next[x] \in s /\ Behind[k - 1][next[x]] \notin s
    BY <1>1, <2>2, <2>4
  <2>6. k \in Nat /\ k - 1 \in Nat /\ k - 1 \in T
    BY <2>3, <2>5
  <2>7. k <= k - 1
    BY <2>1, <2>6
  <2>. QED  BY <2>6, <2>7
<1>3. ~Out(n)
  BY <1>2
<1>. QED  BY <1>1, <1>3 DEF s

\* get_first_free_node finds an arena of the list that has a free node.
LEMMA FirstIsListed ==
    ASSUME Consistent, HeapInv, call = NoCall, NEW a \in Allocators,
           HasFreeNode(arena_list_head[a])
    PROVE  LET i == FirstWithFreeNode(arena_list_head[a])
           IN  i \in Owned(a) /\ free_node_list[i] # NULL
<1>. DEFINE x == arena_list_head[a]
            d == FreeDistances(x)
            n == CHOOSE n \in d : \A m \in d : n <= m
<1>1. d \in SUBSET Nat /\ d # {}
  BY ArenaBases DEF FreeDistances, HasFreeNode
<1>2. n \in d
  <2>1. \E k \in d : \A m \in d : k <= m
    BY <1>1, LeastOf
  <2>. HIDE DEF d
  <2>. QED  BY <2>1
<1>3. FirstWithFreeNode(x) = Behind[n][x]
  BY DEF FirstWithFreeNode
<1>. HIDE DEF n
<1>4. n \in 0..Reserved /\ Behind[n][x] # NULL /\ free_node_list[Behind[n][x]] # NULL
  BY <1>2 DEF FreeDistances
<1>5. ~Destroyed(a) /\ ListStart(a) = x
  <2>1. call.op # "destroy"
    BY CallKinds DEF Dying
  <2>. QED  BY <2>1 DEF Destroyed, ListStart
<1>6. Behind[n][x] \in Listed(a)
  <2>1. x \in Arenas \cup {NULL} /\ LinkTypes
    BY DEF HeapInv, LinkTypes
  <2>2. Behind[n][x] \in Reached(next, x) \cup {NULL}
    BY <1>4, <2>1, BehindReached
  <2>. QED  BY <1>4, <1>5, <2>2 DEF Listed
<1>. QED  BY <1>3, <1>4, <1>6 DEF Consistent

LEMMA ListTakeKeeps ==
    ASSUME Consistent, HeapInv, HeapInv', FillInv, call = NoCall,
           NEW a \in Allocators, NEW r, AllocateFromList(a, r)
    PROVE  FillInv' /\ twice' = twice
<1>. DEFINE i == FirstWithFreeNode(arena_list_head[a])
<1>1. i \in Owned(a) /\ free_node_list[i] # NULL /\ ~Dying /\ ~Busy
  BY FirstIsListed, CallKinds DEF AllocateFromList
<1>2. /\ NodeTaken(a, Free3(free_node_count, free_node_list, node), i)
      /\ Handed(free_node_list[i], r)
      /\ UNCHANGED <<records, arena_count, taken>> /\ call' = NoCall
  BY DEF AllocateFromList, poolVars
<1>. HIDE DEF i
<1>3. \A b \in Allocators : taken[b] = Owned(b)
  BY <1>1 DEF Owned, Busy
<1>4. i \in taken[a] /\ Filled(a, i)
  BY <1>1, <1>3 DEF FillInv, AllFilled
<1>5. /\ FreeSpan(a, i, free_node_count[i], free_node_list[i], node)
      /\ HandedFirst(a, i, free_node_count[i], HeldIn(i))
  BY <1>4 DEF Filled
<1>6. free_node_count[i] > 0
  BY <1>1, <1>5, BlockSizes DEF FreeSpan
<1>7. /\ free_node_count \in [Arenas -> Int] /\ free_node_list \in [Arenas -> Pointers]
      /\ node \in NodeRecords
  BY DEF FillInv, NodeTypes
<1>. QED  BY <1>1, <1>2, <1>3, <1>4, <1>5, <1>6, <1>7, TakesBlock

\* A new arena is one span, and no block of it is in use.
LEMMA NewTakeKeeps ==
    ASSUME Consistent, HeapInv, HeapInv', FillInv, UseArena
    PROVE  FillInv' /\ twice' = twice
<1>. DEFINE a == call.by
            i == call.arena
            b == ArenaBase(i)
            r == call.request
            count == [free_node_count EXCEPT ![i] = ObjectCount(a)]
            list == [free_node_list EXCEPT ![i] = b]
            nodes == [node EXCEPT ![b] = [size |-> ObjectCount(a), next |-> b,
                                          previous |-> b]]
<1>1. /\ a \in Allocators /\ i \in taken[a] /\ ~Dying /\ Busy
      /\ \A x \in Allocators : Owned(x) = IF x = a THEN taken[a] \ {i} ELSE taken[x]
  BY CallKinds DEF HeapInv, BusyOwns, Busy, UseArena, Owned
<1>2. /\ NodeTaken(a, Free3(count, list, nodes), i)
      /\ Handed(b, r)
      /\ UNCHANGED <<records, arena_count, taken>> /\ call' = NoCall
  BY DEF UseArena
<1>. HIDE DEF a, i, r
<1>3. /\ i \in Arenas /\ i \in Allocated /\ PoolInv
      /\ \A x \in Allocators : i \in taken[x] => x = a
  BY <1>1, TakenOnce DEF HeapInv
<1>4. /\ ObjectCount(a) \in Nat \ {0} /\ Cut(a, ObjectCount(a)) = 0
      /\ 0 \in 0..(ObjectCount(a) - 1) /\ b = BlockAt(a, i, 0) /\ ObjectSize(a) \in Nat
  <2>1. ObjectCount(a) \in Nat \ {0} /\ ObjectSize(a) \in Nat
    BY <1>1, BlockSizes
  <2>2. i \in 0..Reserved /\ ArenaBase(i) \in Nat
    BY <1>3, ArenaBases DEF Arenas
  <2>. QED  BY <2>1, <2>2 DEF Cut, BlockAt
<1>5. b \in Nodes /\ b \in Int /\ GetArena(b) = i
  BY <1>1, <1>3, <1>4, BlockFound
<1>. HIDE DEF b
<1>6. /\ free_node_count \in [Arenas -> Int] /\ free_node_list \in [Arenas -> Pointers]
      /\ node \in NodeRecords
  BY DEF FillInv, NodeTypes
<1>7. /\ count \in [Arenas -> Int] /\ list \in [Arenas -> Pointers]
      /\ count[i] = ObjectCount(a) /\ list[i] = b
      /\ \A j \in Arenas \ {i} : count[j] = free_node_count[j] /\ list[j] = free_node_list[j]
  BY <1>3, <1>4, <1>5, <1>6 DEF Pointers
<1>8. /\ nodes \in NodeRecords /\ nodes[b].size = ObjectCount(a)
      /\ \A y \in Nodes : y # b => nodes[y].size = node[y].size
  BY <1>4, <1>5, <1>6 DEF NodeRecords, Pointers
<1>. HIDE DEF count, list, nodes
<1>9. \A y \in Nodes : GetArena(y) # i => nodes[y].size = node[y].size
  BY <1>5, <1>8
<1>10. count[i] > 0 /\ FreeSpan(a, i, count[i], list[i], nodes)
  BY <1>4, <1>7, <1>8 DEF FreeSpan
<1>11. HeldIn(i) = {}
  <2>. SUFFICES ASSUME NEW h \in held, GetArena(h.block) = i PROVE FALSE
    BY DEF HeldIn
  <2>1. PICK x \in Allocators : GetArena(h.block) \in Owned(x)
    BY <1>1 DEF Consistent, Dying
  <2>. QED  BY <1>1, <1>3, <2>1
<1>12. HandedFirst(a, i, count[i], HeldIn(i))
  BY <1>11 DEF HandedFirst
<1>13. Handed(list[i], r)
  BY <1>2, <1>7
<1>14. \A x \in Allocators : taken[x] \ {i} \subseteq Owned(x)
  BY <1>1
<1>. QED  BY <1>1, <1>2, <1>7, <1>8, <1>9, <1>10, <1>12, <1>13, <1>14, TakesBlock

\* The types of a step that writes to no node.
LEMMA GivenTypes ==
    ASSUME NodeTypes, NEW i \in Arenas, UNCHANGED node,
           free_node_count' = [free_node_count EXCEPT ![i] = 0],
           free_node_list' = [free_node_list EXCEPT ![i] = NULL]
    PROVE  NodeTypes'
<1>1. /\ free_node_count \in [Arenas -> Int] /\ free_node_list \in [Arenas -> Pointers]
      /\ node \in NodeRecords /\ NULL \in Pointers
  BY DEF NodeTypes, Pointers
<1>2. free_node_count' \in [Arenas -> Int]
  BY <1>1
<1>3. free_node_list' \in [Arenas -> Pointers]
  BY <1>1
<1>. QED  BY <1>1, <1>2, <1>3 DEF NodeTypes

LEMMA RequestFills ==
    ASSUME Consistent, HeapInv, HeapInv', FillInv, call = NoCall,
           NEW a \in Allocators, NEW r, RequestArena(a, r)
    PROVE  FillInv'
<1>1. /\ TakeArena(a) /\ UNCHANGED <<free_node_count, free_node_list, node, held>>
      /\ call' = IF taken' = taken /\ next_free_arena' = next_free_arena THEN NoCall
                 ELSE [op |-> "use", by |-> a, arena |-> Popped, request |-> r]
  BY DEF RequestArena, recordVars
<1>2. ~Busy /\ ~Dying /\ \A x \in Allocators : Owned(x) = taken[x]
  BY CallKinds DEF Owned, Busy
<1>3. /\ records' = records /\ arena_count' \in {arena_count, arena_count + 1}
      /\ \/ taken' = taken
         \/ taken' = [taken EXCEPT ![a] = @ \cup {Popped}]
  BY <1>1 DEF TakeArena, PopFree, PopNew, TakeNothing, AllocateArena,
              AllocateArenaFails, AllocateArenaFaults, GiveTo, Popped
<1>4. \A x \in Allocators : Owned(x)' \subseteq taken[x]
  <2>1. CASE taken' = taken
    BY <2>1 DEF Owned
  <2>2. CASE taken' # taken
    <3>1. taken' = [taken EXCEPT ![a] = @ \cup {Popped}]
      BY <1>3, <2>2
    <3>2. call' = [op |-> "use", by |-> a, arena |-> Popped, request |-> r]
      BY <1>1, <2>2
    <3>3. call'.op = "use" /\ call'.by = a /\ call'.arena = Popped
      BY <3>2
    <3>4. taken \in [Allocators -> SUBSET Arenas]
      BY DEF HeapInv, LinkTypes
    <3>5. /\ taken'[a] = taken[a] \cup {Popped}
          /\ \A x \in Allocators \ {a} : taken'[x] = taken[x]
      BY <3>1, <3>4
    <3>6. Owned(a)' = taken'[a] \ {Popped}
      BY <3>3 DEF Owned
    <3>7. \A x \in Allocators \ {a} : Owned(x)' \subseteq taken'[x]
      BY DEF Owned
    <3>. QED  BY <3>5, <3>6, <3>7
  <2>. QED  BY <2>1, <2>2
<1>5. NodeTypes'
  BY <1>1 DEF FillInv, NodeTypes
<1>. QED  BY <1>1, <1>2, <1>3, <1>4, <1>5, FillLeft

LEMMA ReleaseFills ==
    ASSUME Consistent, HeapInv, HeapInv', FillInv, call = NoCall,
           NEW a \in Allocators, NEW i \in taken[a], ReleaseArena(a, i),
           held' \subseteq held
    PROVE  FillInv'
<1>1. /\ free_node_count' = [free_node_count EXCEPT ![i] = @ + 1]
      /\ call' = [op |-> "give", by |-> a, arena |-> i]
      /\ UNCHANGED <<records, arena_count, taken, free_node_list, node>>
  BY DEF ReleaseArena
<1>2. ~Busy /\ ~Dying /\ \A x \in Allocators : Owned(x) = taken[x]
  BY CallKinds DEF Owned, Busy
<1>3. call'.op = "give" /\ call'.by = a /\ call'.arena = i
  BY <1>1
<1>4. \A x \in Allocators : Owned(x)' = IF x = a THEN taken[a] \ {i} ELSE taken[x]
  BY <1>1, <1>3 DEF Owned
<1>5. i \in Arenas /\ \A x \in Allocators : i \in taken[x] => x = a
  BY TakenOnce
<1>6. NodeTypes'
  <2>1. free_node_count \in [Arenas -> Int]
    BY DEF FillInv, NodeTypes
  <2>2. free_node_count' \in [Arenas -> Int]
    BY <1>1, <1>5, <2>1
  <2>. QED  BY <1>1, <2>2 DEF FillInv, NodeTypes
<1>7. ASSUME NEW x \in Allocators, NEW j \in Owned(x)'
      PROVE  /\ j \in Owned(x) /\ free_node_count'[j] = free_node_count[j]
             /\ free_node_list'[j] = free_node_list[j]
  <2>1. j \in taken[x] /\ j # i /\ j \in Arenas
    BY <1>4, <1>5, <1>7 DEF HeapInv, LinkTypes
  <2>. QED  BY <1>1, <1>2, <2>1 DEF FillInv, NodeTypes
<1>. QED  BY <1>1, <1>2, <1>6, <1>7, FillLeft

LEMMA GiveFills ==
    ASSUME Consistent, HeapInv, HeapInv', FillInv, FinishDeallocate
    PROVE  FillInv'
<1>. DEFINE a == call.by
            i == call.arena
<1>1. /\ a \in Allocators /\ i \in taken[a] /\ ~Dying
      /\ \A x \in Allocators : Owned(x) = IF x = a THEN taken[a] \ {i} ELSE taken[x]
  BY CallKinds DEF HeapInv, BusyOwns, Busy, FinishDeallocate, Owned
<1>2. /\ Give(a, i) /\ call' = NoCall /\ UNCHANGED <<node, held>>
  BY DEF FinishDeallocate
<1>. HIDE DEF a, i
<1>3. /\ free_node_count' = [free_node_count EXCEPT ![i] = 0]
      /\ free_node_list' = [free_node_list EXCEPT ![i] = NULL]
      /\ taken' = [taken EXCEPT ![a] = @ \ {i}]
      /\ records' = records /\ arena_count' = arena_count
  BY <1>2 DEF Give, GiveArena
<1>4. i \in Arenas /\ \A x \in Allocators : i \in taken[x] => x = a
  BY <1>1, TakenOnce
<1>5. NodeTypes'
  BY <1>2, <1>3, <1>4, GivenTypes DEF FillInv
<1>6. ASSUME NEW x \in Allocators, NEW j \in Owned(x)'
      PROVE  /\ j \in Owned(x) /\ free_node_count'[j] = free_node_count[j]
             /\ free_node_list'[j] = free_node_list[j]
  <2>1. j \in taken'[x] /\ taken \in [Allocators -> SUBSET Arenas]
    BY <1>6, OwnedTaken DEF Owned, HeapInv, LinkTypes
  <2>2. j \in taken[x] /\ j # i /\ j \in Arenas
    BY <1>1, <1>3, <1>4, <2>1
  <2>. QED  BY <1>1, <1>3, <2>2 DEF FillInv, NodeTypes
<1>. QED  BY <1>1, <1>2, <1>3, <1>5, <1>6, FillLeft

\* The destructor hands out nothing.
LEMMA DestroyFills ==
    ASSUME FillInv, HeapInv, Destroy \/ DestroyArena \/ DestroyPool \/ DestroyRegion
    PROVE  FillInv'
<1>1. Dying'
  BY DEF Destroy, DestroyArena, DestroyPool, DestroyRegion, Destroying, Dying
<1>2. NodeTypes'
  <2>1. CASE DestroyArena
    <3>1. call.arena \in Arenas
      BY <2>1 DEF HeapInv, DyingType, Dying, DestroyArena
    <3>. QED  BY <2>1, <3>1, GivenTypes DEF DestroyArena, Give, FillInv
  <2>2. CASE Destroy \/ DestroyPool \/ DestroyRegion
    BY <2>2 DEF Destroy, DestroyPool, DestroyRegion, recordVars, FillInv, NodeTypes
  <2>. QED  BY <2>1, <2>2
<1>. QED  BY <1>1, <1>2 DEF FillInv

\* Steps that change no list, no arena and no node.
LEMMA OthersFill ==
    ASSUME Consistent, HeapInv, HeapInv', FillInv, records => records',
           arena_count' \in {arena_count, arena_count + 1}, held' \subseteq held,
           UNCHANGED <<taken, call, free_node_count, free_node_list, node>>
    PROVE  FillInv'
<1>1. NodeTypes' /\ Dying' = Dying
  BY DEF FillInv, NodeTypes, Dying
<1>2. CASE Dying
  BY <1>1, <1>2 DEF FillInv
<1>3. CASE ~Dying
  <2>1. \A x \in Allocators : Owned(x)' = Owned(x)
    BY DEF Owned
  <2>. QED  BY <1>1, <1>3, <2>1, FillLeft
<1>. QED  BY <1>2, <1>3

LEMMA FillNextKeeps ==
    ASSUME HeapInv, HeapInv', FillInv, [Consistent /\ Next]_vars
    PROVE  FillInv' /\ (Consistent => twice' = twice)
<1>. DEFINE Goal == FillInv' /\ twice' = twice
<1>1. CASE UNCHANGED vars
  <2>1. /\ UNCHANGED <<records, arena_count, taken, call, held, twice>>
        /\ UNCHANGED <<free_node_count, free_node_list, node>>
    BY <1>1 DEF vars, poolVars, allocatorVars, recordVars
  <2>2. NodeTypes' /\ Dying' = Dying /\ (\A x \in Allocators : Owned(x)' = Owned(x))
    BY <2>1 DEF FillInv, NodeTypes, Dying, Owned
  <2>3. \A i \in Arenas : HeldIn(i)' = HeldIn(i)
    BY <2>1 DEF HeldIn, GetArena, ArenaBase
  <2>4. ASSUME NEW x \in Allocators, NEW i \in Owned(x), ~Dying
        PROVE  Filled(x, i)'
    <3>1. Filled(x, i) /\ i \in Arenas
      BY <2>4, OwnedTaken DEF FillInv, AllFilled, HeapInv, LinkTypes
    <3>. QED  BY <2>1, <2>3, <3>1 DEF Filled, FreeSpan, HandedFirst
  <2>5. ~Dying => AllFilled'
    BY <2>2, <2>4 DEF AllFilled
  <2>. QED  BY <2>1, <2>2, <2>5 DEF FillInv
<1>2. ASSUME Consistent, Next
      PROVE  Goal
  <2>1. CASE Construct
    <3>1. records = FALSE /\ arena_count' = arena_count
      BY <2>1 DEF Construct, MakeRecords, HeapInv, PoolInv
    <3>. QED  BY <1>2, <2>1, <3>1, OthersFill
              DEF Construct, MakeRecords, allocatorVars, recordVars
  <2>2. ASSUME NEW r \in Requests, Refuse(r)
        PROVE  Goal
    BY <1>2, <2>2, OthersFill DEF Refuse, vars, poolVars, allocatorVars, recordVars
  <2>3. ASSUME NEW r \in Requests, Allocate(r)
        PROVE  Goal
    <3>1. PoolFor(r) \in Allocators /\ call = NoCall
      BY <2>3, NullOutside DEF Allocate, Served, Ready
    <3>2. CASE AllocateFromList(PoolFor(r), r)
      BY <1>2, <3>1, <3>2, ListTakeKeeps
    <3>3. CASE RequestArena(PoolFor(r), r)
      <4>1. twice' = twice
        BY <3>3 DEF RequestArena
      <4>. QED  BY <1>2, <3>1, <3>3, <4>1, RequestFills
    <3>. QED  BY <2>3, <3>2, <3>3 DEF Allocate
  <2>4. CASE FinishAllocate
    BY <1>2, <2>4, NewTakeKeeps DEF FinishAllocate
  <2>5. ASSUME NEW h \in held, Deallocate(h)
        PROVE  Goal
    <3>. DEFINE i == GetArena(h.pointer)
                a == allocator[i]
    <3>1. /\ i # NULL /\ a # NULL /\ DeallocateIn(a, i) /\ call = NoCall
          /\ held' \subseteq held
      BY <2>5 DEF Deallocate, Ready
    <3>2. i \in Arenas
      BY <3>1, LookupType DEF HeapInv
    <3>3. a \in Allocators /\ i \in taken[a]
      BY <3>1, <3>2 DEF HeapInv, LinkTypes, NamedHas
    <3>. HIDE DEF i, a
    <3>4. CASE ReleaseArena(a, i)
      <4>1. twice' = twice
        BY <3>4 DEF ReleaseArena
      <4>. QED  BY <1>2, <3>1, <3>3, <3>4, <4>1, ReleaseFills
    <3>5. CASE WriteAtOffset(a, i)
      BY <1>2, <3>1, <3>5, OthersFill DEF WriteAtOffset, recordVars
    <3>. QED  BY <3>1, <3>4, <3>5 DEF DeallocateIn
  <2>6. CASE FinishDeallocate
    <3>1. twice' = twice
      BY <2>6 DEF FinishDeallocate
    <3>. QED  BY <1>2, <2>6, <3>1, GiveFills
  <2>7. ASSUME NEW count \in 1..Reserved, ReserveArenas(count)
        PROVE  Goal
    BY <1>2, <2>7, OthersFill
       DEF ReserveArenas, Reserve, allocatorVars, recordVars
  <2>8. CASE ReserveNext
    <3>1. records' = records /\ arena_count' \in {arena_count, arena_count + 1}
          /\ taken' = taken
      BY <2>8 DEF ReserveNext, ReserveOne, AllocateArena, AllocateArenaFails,
                  AllocateArenaFaults
    <3>. QED  BY <1>2, <2>8, <3>1, OthersFill
              DEF ReserveNext, allocatorVars, recordVars
  <2>9. CASE Destroy \/ DestroyArena \/ DestroyPool \/ DestroyRegion
    <3>1. twice' = twice
      BY <2>9 DEF Destroy, DestroyArena, DestroyPool, DestroyRegion
    <3>. QED  BY <2>9, <3>1, DestroyFills
  <2>. QED  BY <1>2, <2>1, <2>2, <2>3, <2>4, <2>5, <2>6, <2>7, <2>8, <2>9 DEF Next
<1>. QED  BY <1>1, <1>2

(* The executions in which each step finds the links in order; the last one *)
(* may put them out of order, and nothing is said of what happens then.     *)
OrderlySpec == Init /\ [][Consistent /\ Next]_vars

(* While the links are in order, the blocks of an arena go out one after    *)
(* the other, and its free node stands for all that have not gone.          *)
THEOREM FillInvHolds == OrderlySpec => []FillInv
<1>1. ASSUME Init
      PROVE  FillInv
  <2>1. NodeTypes
    BY <1>1 DEF Init, PoolInit, NodeTypes, NodeRecords, Pointers
  <2>2. \A a \in Allocators : Owned(a) = {}
    BY <1>1, OwnedTaken DEF Init, PoolInit, ArenaInit
  <2>. QED  BY <2>1, <2>2 DEF FillInv, AllFilled
<1>2. OrderlySpec => []HeapInv
  <2>1. OrderlySpec => Spec
    <3>1. [Consistent /\ Next]_vars => [Next]_vars
      OBVIOUS
    <3>. QED  BY <3>1, PTL DEF OrderlySpec, Spec
  <2>. QED  BY <2>1, HeapInvHolds, PTL
<1>3. HeapInv /\ HeapInv' /\ FillInv /\ [Consistent /\ Next]_vars => FillInv'
  BY FillNextKeeps
<1>. QED  BY <1>1, <1>2, <1>3, PTL DEF OrderlySpec

(* While the links are in order no block is handed out that the program has,*)
(* for any number of pools and arenas, any sizes of blocks and requests.    *)
THEOREM FreshBlocksHolds == OrderlySpec => FreshBlocks
<1>1. OrderlySpec => []HeapInv
  <2>1. [Consistent /\ Next]_vars => [Next]_vars
    OBVIOUS
  <2>. QED  BY <2>1, HeapInvHolds, PTL DEF OrderlySpec, Spec
<1>2. HeapInv /\ HeapInv' /\ FillInv /\ [Consistent /\ Next]_vars
      => [Consistent => twice' = twice]_vars
  BY FillNextKeeps
<1>. QED  BY <1>1, <1>2, FillInvHolds, PTL DEF OrderlySpec, FreshBlocks
=============================================================================
