-------------------------- MODULE MemoryArenaPool ---------------------------
(***************************************************************************)
(* holo::memory_arena_pool: arenas of equal size behind an array of        *)
(* records, all carved out of one memory_region, with the free arenas on a *)
(* list that is linked through the records.  Every change of the region is *)
(* an action of module MemoryRegion.                                       *)
(*                                                                         *)
(* An arena is its index in the array of records.  Pool allocators take    *)
(* arenas, write their name in the record, and give the arenas back; they  *)
(* are module PoolAllocator, which has the steps of the program.           *)
(***************************************************************************)
EXTENDS OwnedRegion  \* its NULL is also "no arena" and "no allocator"

CONSTANTS
    Allocators,  \* the allocators that use the pool
    ArenaSize,   \* the constructor's arena_size_hint
    Reserved,    \* the constructor's arena_count_hint
    RecordWidth  \* sizeof(arena_record)

Larger(m, n) == IF m > n THEN m ELSE n

\* Bytes set aside for the records: one page at least.
RecordSize == Larger(Larger(PageSize, Granularity), Reserved * RecordWidth)
SpanSize == ArenaSize * Reserved

ASSUME SizeAssumption ==
    /\ ArenaSize \in Nat \ {0} /\ Reserved \in Nat \ {0} /\ RecordWidth \in Nat \ {0}
    /\ Granularity \in Nat \ {0}
    \* No region reaches the end of the address space.
    /\ RecordSize + SpanSize + PageSize < Word
ASSUME AllocatorAssumption == NULL \notin Allocators \cup Int

Arenas == 0..(Reserved - 1)

VARIABLES
    phase,            \* "new", "ready", "destroyed", "faulted" by a write to NULL
    records,          \* are there records?  records and arena_pool are set together
    arena_count,
    next_free_arena,
    next,             \* the next pointer of each record
    allocator,        \* the allocator pointer of each record
    taken,            \* the arenas each allocator was given and still has
    reserving         \* iterations reserve may still make

poolVars == <<regionVars, phase, records, arena_count, next_free_arena, next,
              allocator, taken, reserving>>

ArenaTypeOK ==
    /\ Memory!TypeOK
    /\ phase \in {"new", "ready", "faulted", "destroyed"}
    /\ records \in BOOLEAN
    /\ arena_count \in 0..Reserved
    /\ next_free_arena \in Arenas \cup {NULL}
    /\ next \in [Arenas -> Arenas \cup {NULL}]
    /\ allocator \in [Arenas -> Allocators \cup {NULL}]
    /\ taken \in [Allocators -> SUBSET Arenas]
    /\ reserving \in Nat

\* The constructor has moved a region of the whole size into the pool; the
\* records are all zero once they exist.
ArenaInit ==
    /\ RegionInit(RecordSize + SpanSize)
    /\ phase = "new" /\ records = FALSE
    /\ arena_count = 0 /\ next_free_arena = NULL
    /\ next = [i \in Arenas |-> NULL]
    /\ allocator = [i \in Arenas |-> NULL]
    /\ taken = [a \in Allocators |-> {}]
    /\ reserving = 0

\* The constructor grows the region by the records, which may fail.
MakeRecords ==
    /\ phase = "new"
    /\ Memory!Grow(Region, RecordSize)
    /\ records' = (last'.result # NULL)
    /\ phase' = "ready"
    /\ UNCHANGED <<arena_count, next_free_arena, next, allocator, taken, reserving>>

Idle == phase = "ready" /\ reserving = 0

-----------------------------------------------------------------------------
(* allocate_arena.                                                          *)

MayAllocate == arena_count < Reserved

\* Bug: the arenas that were free before are dropped.
PutNewDropsOthers == [next EXCEPT ![arena_count] = NULL]
\* The new arena is put in front of the free list.
PutNew == [next EXCEPT ![arena_count] = next_free_arena]

\* Bug: only the first arena's bytes are asked for.
GrownOnce == IF arena_count = 0 THEN ArenaSize ELSE 0
\* What the region grows by for an arena.
Grown == ArenaSize

\* One arena more, when the region has memory for it.
AllocateArena ==
    /\ MayAllocate
    /\ Memory!Grow(Region, Grown) /\ last'.result # NULL
    /\ records
    /\ next' = PutNew
    /\ arena_count' = arena_count + 1
    /\ UNCHANGED phase

\* allocate_arena returns false.
AllocateArenaFails ==
    /\ \/ ~MayAllocate /\ UNCHANGED regionVars
       \/ MayAllocate /\ Memory!Grow(Region, Grown) /\ last'.result = NULL
    /\ UNCHANGED <<phase, arena_count, next_free_arena, next>>

\* The constructor's grow failed and this one succeeds: the record that is
\* written does not exist, and the program ends.
AllocateArenaFaults ==
    /\ MayAllocate
    /\ Memory!Grow(Region, Grown) /\ last'.result # NULL
    /\ ~records
    /\ phase' = "faulted"
    /\ UNCHANGED <<arena_count, next_free_arena, next>>

-----------------------------------------------------------------------------
(* reserve, take_arena, give_arena, get_arena and the destructor.           *)

\* reserve(count) starts.
Reserve(count) ==
    /\ Idle
    /\ reserving' = count
    /\ UNCHANGED <<regionVars, phase, records, arena_count, next_free_arena, next,
                   allocator, taken>>

\* One round of its loop; a failure ends it.
ReserveOne ==
    /\ phase = "ready" /\ reserving > 0
    /\ \/ AllocateArena /\ next_free_arena' = arena_count /\ reserving' = reserving - 1
       \/ AllocateArenaFails /\ reserving' = 0
       \/ AllocateArenaFaults /\ reserving' = 0
    /\ UNCHANGED <<records, allocator, taken>>

\* The caller writes its name in the record it was given.
GiveTo(a, i) ==
    /\ allocator' = [allocator EXCEPT ![i] = a]
    /\ taken' = [taken EXCEPT ![a] = @ \cup {i}]

PopFree(a) ==
    /\ next_free_arena # NULL
    /\ GiveTo(a, next_free_arena)
    /\ next_free_arena' = next[next_free_arena]
    /\ UNCHANGED <<regionVars, phase, arena_count, next>>

\* With an empty free list the arena that is popped is the one allocated.
PopNew(a) ==
    /\ next_free_arena = NULL
    /\ AllocateArena
    /\ GiveTo(a, arena_count)
    /\ next_free_arena' = next'[arena_count]

TakeNothing ==
    /\ next_free_arena = NULL
    /\ AllocateArenaFails \/ AllocateArenaFaults
    /\ UNCHANGED <<allocator, taken>>

TakeArena(a) ==
    /\ Idle
    /\ PopFree(a) \/ PopNew(a) \/ TakeNothing
    /\ UNCHANGED <<records, reserving>>

\* next is only set when other arenas are free; otherwise it keeps what it was.
GiveArena(a, i) ==
    /\ Idle
    /\ allocator' = [allocator EXCEPT ![i] = NULL]
    /\ next' = IF next_free_arena = NULL THEN next
               ELSE [next EXCEPT ![i] = next_free_arena]
    /\ next_free_arena' = i
    /\ taken' = [taken EXCEPT ![a] = @ \ {i}]
    /\ UNCHANGED <<regionVars, phase, records, arena_count, reserving>>

\* The destructor destroys the region.
DestroyPoolRegion ==
    /\ Idle
    /\ Memory!Destroy(Region)
    /\ phase' = "destroyed"
    /\ UNCHANGED <<records, arena_count, next_free_arena, next, allocator, taken,
                   reserving>>

\* Addresses are counted from the base of the region.
ArenaBase(i) == RecordSize + i * ArenaSize

\* Bug: the address behind the last arena is taken for one of its own.
GetArenaClosed(pointer) ==
    IF records /\ pointer \in ArenaBase(0)..ArenaBase(arena_count)
    THEN (pointer - ArenaBase(0)) \div ArenaSize ELSE NULL
GetArena(pointer) ==
    IF records /\ pointer \in ArenaBase(0)..(ArenaBase(arena_count) - 1)
    THEN (pointer - ArenaBase(0)) \div ArenaSize ELSE NULL

-----------------------------------------------------------------------------
Allocated == 0..(arena_count - 1)

\* The arenas that are reached along links: the least set that has the first one
\* and with each the next.
Closed(link, start, s) ==
    /\ start # NULL => start \in s
    /\ \A i \in s : link[i] # NULL => link[i] \in s
Reached(link, start) ==
    LET closed == {s \in SUBSET Arenas : Closed(link, start, s)}
    IN  {i \in Arenas : \A s \in closed : i \in s}

Free == Reached(next, next_free_arena)

(* Every byte of every arena that was handed out or is free can be read and *)
(* written, whichever grows failed before: the addresses computed from      *)
(* arena_count stay in step with what the region has committed.             *)
ArenasCommitted ==
    phase = "ready" => \A i \in Allocated :
        (ArenaBase(i) \div PageSize)..((ArenaBase(i + 1) - 1) \div PageSize)
            \subseteq committed[Base]

(* get_arena answers for exactly the bytes of the arenas allocated so far,  *)
(* with the arena they lie in, as the first and the last byte of each show: *)
(* deallocation by address finds its record.                                *)
LookupAgrees ==
    /\ \A i \in Arenas : \A p \in {ArenaBase(i), ArenaBase(i + 1) - 1} :
          GetArena(p) = IF i \in Allocated THEN i ELSE NULL
    /\ GetArena(ArenaBase(0) - 1) = NULL

\* Each allocated arena, and no other, is in exactly one place: free or with one
\* allocator.
Taken == UNION {taken[a] : a \in Allocators}
OnePlace ==
    /\ Allocated = Free \cup Taken
    /\ Taken \cap Free = {}
    /\ \A a, b \in Allocators : a # b => taken[a] \cap taken[b] = {}

(* Documented at memory_arena_pool.hpp:47-48: allocator is NULL if the      *)
(* arena is free.                                                           *)
FreeArenasUnowned == \A i \in Free : allocator[i] = NULL
=============================================================================
