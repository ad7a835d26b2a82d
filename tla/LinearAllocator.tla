--------------------------- MODULE LinearAllocator ---------------------------
(***************************************************************************)
(* holo::linear_allocator: one region, claimed as a whole, an offset into  *)
(* it, and a chain of markers that are stored in the region itself.        *)
(*                                                                         *)
(* The constructor leaves current_marker without a value.  Words of the    *)
(* region are read and written at aligned offsets; the program writes what *)
(* it likes over the blocks it was given.                                  *)
(***************************************************************************)
EXTENDS OwnedRegion

CONSTANTS
    RegionSizes,  \* arguments of the constructor
    Sizes, Alignments,  \* arguments of allocate
    WordWidth,    \* sizeof and alignof of std::size_t
    Written,      \* words that the program writes over its blocks
    Garbage       \* what current_marker can hold before it is assigned

ASSUME AddressAssumption ==
    /\ Base \in Nat \ {0}
    /\ WordWidth \in Nat \ {0} /\ Base % WordWidth = 0
    /\ RegionSizes \subseteq Nat /\ Sizes \subseteq 0..(Word - 1)
    /\ Alignments \subseteq Nat \ {0}
    /\ Written \subseteq 0..(Word - 1) /\ Garbage \subseteq 0..(Word - 1)
    \* No region reaches the end of the address space.
    /\ \A n \in RegionSizes : Base + n + PageSize < Word

VARIABLES
    status,          \* "new", "ready", "destroyed", "faulted" by a wild read
    memory, memory_offset, current_marker,
    word,            \* the words of the region, by offset
    blocks,          \* history: the block handed out last, until a reset
    called           \* history: the call that ran last, and the state before it

fields == <<memory, memory_offset, current_marker>>
linearVars == <<regionVars, status, fields, word, blocks, called>>

Offsets == 0..(Word - 1)

LinearTypeOK ==
    /\ status \in {"new", "ready", "destroyed", "faulted"}
    /\ memory \in {NULL, Base}
    /\ memory_offset \in Offsets /\ current_marker \in Offsets
    /\ word \in [Offsets -> Offsets]
    /\ blocks \subseteq [offset : Offsets, size : Sizes]

Called(op) ==
    called' = [op |-> op, offset |-> memory_offset, marker |-> current_marker]

\* The region is constructed; claiming it is the rest of the constructor.
LinearInit ==
    /\ \E n \in RegionSizes : RegionInit(n)
    /\ status = "new"
    /\ memory = NULL /\ memory_offset = 0
    /\ current_marker \in Garbage
    /\ word = [o \in Offsets |-> 0]
    /\ blocks = {}
    /\ called = [op |-> "none", offset |-> 0, marker |-> 0]

Claim ==
    /\ status = "new"
    /\ Memory!ClaimNothing(Region) \/ Memory!ClaimRest(Region)
    /\ memory' = last'.result
    /\ status' = "ready"
    /\ UNCHANGED <<memory_offset, current_marker, word, blocks, called>>

-----------------------------------------------------------------------------
Address(offset) == IF memory = NULL THEN offset ELSE memory + offset

Distance(left, right) == (left - right) % Word

Requested(offset, alignment) ==
    Distance(AlignPointer(Address(offset), alignment), Address(0))

\* Bug: only the beginning of the block is compared with the size.
FitsAtStart(size, alignment) == Requested(memory_offset, alignment) < get_size
\* Bug: an empty region has room for an empty block.
FitsExactly(size, alignment) ==
    (Requested(memory_offset, alignment) + size) % Word <= get_size
Fits(size, alignment) ==
    (Requested(memory_offset, alignment) + size) % Word < get_size

\* What allocate does for its caller and for align_construct: the offset moves
\* to the beginning of the block, not behind it.
Bump(size, alignment) ==
    /\ Fits(size, alignment)
    /\ memory_offset' = Requested(memory_offset, alignment)

AllocateBlock(size, alignment) ==
    /\ status = "ready"
    /\ Bump(size, alignment)
    /\ blocks' = {[offset |-> memory_offset', size |-> size]}
    /\ Called("allocate")
    /\ UNCHANGED <<regionVars, status, memory, current_marker, word>>

AllocateBlockFails(size, alignment) ==
    /\ status = "ready"
    /\ ~Fits(size, alignment)
    /\ Called("allocate")
    /\ UNCHANGED <<regionVars, status, fields, word, blocks>>

-----------------------------------------------------------------------------
(* Markers.                                                                 *)

\* Nothing was allocated, so that nothing has to be stored.
PushNothing ==
    /\ status = "ready" /\ memory_offset = 0
    /\ Called("none")
    /\ UNCHANGED <<regionVars, status, fields, word, blocks>>

PushMarker ==
    /\ status = "ready" /\ memory_offset # 0
    /\ Bump(WordWidth, WordWidth)
    /\ word' = [word EXCEPT ![memory_offset'] = current_marker]
    /\ current_marker' = memory_offset
    /\ Called("push")
    /\ UNCHANGED <<regionVars, status, memory, blocks>>

PushFails ==
    /\ status = "ready" /\ memory_offset # 0
    /\ ~Fits(WordWidth, WordWidth)
    /\ Called("none")
    /\ UNCHANGED <<regionVars, status, fields, word, blocks>>

\* Bug: the marker is read behind the word that it was stored in.
StoredBehind(marker) == Requested(marker, WordWidth) + WordWidth
\* Where the marker before this one was stored.
StoredAt(marker) == Requested(marker, WordWidth)

AfterReset ==
    /\ memory_offset' = 0 /\ current_marker' = 0
    /\ blocks' = {}

PopToStart ==
    /\ status = "ready" /\ memory_offset # 0 /\ current_marker = 0
    /\ AfterReset
    /\ Called("pop")
    /\ UNCHANGED <<regionVars, status, memory, word>>

PopMarker ==
    /\ status = "ready" /\ memory_offset # 0 /\ current_marker # 0
    /\ Readable(StoredAt(current_marker))
    /\ memory_offset' = current_marker
    /\ current_marker' = word[StoredAt(current_marker)]
    /\ Called("pop")
    /\ UNCHANGED <<regionVars, status, memory, word, blocks>>

\* A marker that was never assigned or that the program wrote over.
PopFaults ==
    /\ status = "ready" /\ memory_offset # 0 /\ current_marker # 0
    /\ ~Readable(StoredAt(current_marker))
    /\ status' = "faulted"
    /\ UNCHANGED <<regionVars, fields, word, blocks, called>>

PopNothing ==
    /\ status = "ready" /\ memory_offset = 0
    /\ Called("none")
    /\ UNCHANGED <<regionVars, status, fields, word, blocks>>

Reset ==
    /\ status = "ready"
    /\ AfterReset
    /\ Called("reset")
    /\ UNCHANGED <<regionVars, status, memory, word>>

\* The destructor, and that of the region.
DestroyLinear ==
    /\ status = "ready"
    /\ AfterReset
    /\ Memory!Destroy(Region)
    /\ status' = "destroyed"
    /\ UNCHANGED <<memory, word, called>>

\* The program writes a word within a block.
Write(b, v) ==
    /\ status = "ready"
    /\ \E o \in b.offset..(b.offset + b.size - 1) :
          /\ Readable(o) /\ (Base + o) % WordWidth = 0
          /\ word' = [word EXCEPT ![o] = v]
    /\ Called("none")
    /\ UNCHANGED <<regionVars, status, fields, blocks>>

LinearNext ==
    \/ Claim
    \/ \E size \in Sizes, alignment \in Alignments :
          AllocateBlock(size, alignment) \/ AllocateBlockFails(size, alignment)
    \/ PushNothing \/ PushMarker \/ PushFails
    \/ PopToStart \/ PopMarker \/ PopFaults \/ PopNothing
    \/ Reset \/ DestroyLinear
    \/ \E b \in blocks, v \in Written : Write(b, v)

LinearSpec == LinearInit /\ [][LinearNext]_linearVars

-----------------------------------------------------------------------------
(* Every byte of a block that was handed out is committed, whatever markers *)
(* were popped, also ones that were never assigned or were written over.    *)
(* A size whose sum with the offset wraps around is the one exception.      *)
BlocksCommitted ==
    \A b \in blocks : b.offset + b.size < Word =>
        \A o \in b.offset..(b.offset + b.size - 1) : status = "ready" => Readable(o)

(* Documented at linear_allocator.hpp:32-34: when the region could not be   *)
(* claimed, all further operations fail.  No block is handed out and no     *)
(* marker is stored, although the offset of an allocator without memory is  *)
(* as good as any for push_marker and the sizes are compared as words.      *)
FailedRefuses ==
    status = "ready" /\ memory = NULL =>
        blocks = {} /\ memory_offset = 0 /\ get_size = 0

(* pop_marker after push_marker takes the allocator back to where it was,   *)
(* whatever the offset and the marker before were: the word is read at the  *)
(* boundary at which it was stored.                                         *)
PushPopRestores ==
    [][called.op = "push" /\ called'.op = "pop" =>
          memory_offset' = called.offset /\ current_marker' = called.marker]_linearVars
=============================================================================
