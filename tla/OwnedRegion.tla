----------------------------- MODULE OwnedRegion -----------------------------
(***************************************************************************)
(* What the allocators that carve blocks out of one memory_region of their *)
(* own have in common: the region, which is module MemoryRegion with one   *)
(* object at one address, and math::align_pointer.                         *)
(***************************************************************************)
EXTENDS Integers

CONSTANTS
    NULL,         \* the null pointer
    Base,         \* the address where the platform can put the region
    PageSize, Granularity, Word

ASSUME RegionAssumption ==
    /\ Word \in Nat \ {0} /\ PageSize \in Nat \ {0}
    /\ NULL # Base

VARIABLES live, region, pages, committed, last

regionVars == <<live, region, pages, committed, last>>

Region == "region"
Memory == INSTANCE MemoryRegion
    WITH Regions <- {Region}, Addresses <- {Base},
         MaxSizes <- 0..(Word - 1), GrowSizes <- 0..(Word - 1)

\* A region of n bytes that was constructed, or moved into its owner.
RegionInit(n) ==
    /\ live = {Region}
    /\ region = [r \in {Region} |-> Memory!Fresh(n)]
    /\ pages = [a \in {Base} |-> 0]
    /\ committed = [a \in {Base} |-> {}]
    /\ last = [op |-> "none", obj |-> NULL, arg |-> 0, result |-> NULL]

\* The bytes the region was grown by so far.
get_size == region[Region].current_size

\* Can the byte at this offset be read and written?
Readable(offset) == (offset \div PageSize) \in committed[Base]

\* math::align_pointer: up to the next multiple, in std::size_t.
AlignPointer(pointer, alignment) ==
    (((pointer + alignment - 1) % Word) \div alignment) * alignment
=============================================================================
