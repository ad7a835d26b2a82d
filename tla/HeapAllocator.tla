---------------------------- MODULE HeapAllocator ----------------------------
(***************************************************************************)
(* holo::heap_allocator: a memory_arena_pool and one pool_allocator per    *)
(* power of two, named by its logarithm.  The program allocates with the   *)
(* sizes and alignments of Requests and gives back what it holds, and may  *)
(* reserve arenas at any time.                                             *)
(***************************************************************************)
EXTENDS PoolAllocator

CONSTANTS
    MinimumPool, MaximumPool,  \* minimum_pool_size and maximum_pool_size
    DefaultAlignment,
    Requests                   \* the sizes and alignments of allocate

Pools == MinimumPool..MaximumPool
ASSUME HeapAssumption ==
    /\ MinimumPool \in Nat /\ MaximumPool \in Nat /\ MinimumPool <= MaximumPool
    /\ Allocators = Pools
    /\ \A p \in Pools : ParameterSize[p] = 2^p
    /\ DefaultAlignment \in Nat \ {0}
    /\ Requests \subseteq [size : Nat, alignment : Nat \ {0}]

vars == <<poolVars, allocatorVars>>

Init == PoolInit

Construct ==
    /\ MakeRecords
    /\ UNCHANGED allocatorVars

-----------------------------------------------------------------------------
BitLog2(value) == CHOOSE n \in 0..Larger(value, 1) :
                      2^n <= Larger(value, 1) /\ Larger(value, 1) < 2^(n + 1)

\* The pool is chosen by the alignment; the size is compared only by the pool.
RequiredAlignment(alignment) ==
    LET excess == Larger(alignment, DefaultAlignment) - DefaultAlignment
    IN  IF excess > 0 THEN excess - 1 ELSE excess
PoolFor(r) == Larger(BitLog2(RequiredAlignment(r.alignment)), MinimumPool)

Served(r) == PoolFor(r) \in Pools /\ ~TooLarge(PoolFor(r), r.size)

\* No pool is large enough, or the pool refuses the size.
Refuse(r) ==
    /\ Ready
    /\ ~Served(r)
    /\ UNCHANGED vars

Allocate(r) ==
    /\ Ready
    /\ Served(r)
    /\ \/ AllocateFromList(PoolFor(r), r)
       \/ RequestArena(PoolFor(r), r)

FinishAllocate == UseArena

\* The allocator that the record of the pointer's arena names gets it back.
Deallocate(h) ==
    /\ Ready /\ h \in held
    /\ held' = held \ {h}
    /\ LET i == GetArena(h.pointer)
       IN  /\ i # NULL /\ allocator[i] # NULL
           /\ DeallocateIn(allocator[i], i)

ReserveArenas(count) ==
    /\ call = NoCall
    /\ Reserve(count)
    /\ UNCHANGED allocatorVars

ReserveNext ==
    /\ ReserveOne
    /\ UNCHANGED allocatorVars

-----------------------------------------------------------------------------
(* The destructor gives back the arenas of all pools but the largest.       *)

Destroying(p, i) == [op |-> "destroy", by |-> p, arena |-> i]

Destroy ==
    /\ Ready
    /\ call' = Destroying(MinimumPool, arena_list_head[MinimumPool])
    /\ UNCHANGED <<poolVars, recordVars, listVars, node, held, twice>>

\* ~pool_allocator reads the link before it gives the arena away.
DestroyArena ==
    /\ call.op = "destroy" /\ call.by < MaximumPool /\ call.arena # NULL
    /\ Give(call.by, call.arena)
    /\ call' = Destroying(call.by, next[call.arena])
    /\ UNCHANGED <<listVars, node, held, twice>>

DestroyPool ==
    /\ call.op = "destroy" /\ call.by < MaximumPool /\ call.arena = NULL
    /\ call' = Destroying(call.by + 1, arena_list_head[call.by + 1])
    /\ UNCHANGED <<poolVars, recordVars, listVars, node, held, twice>>

DestroyRegion ==
    /\ call.op = "destroy" /\ call.by = MaximumPool
    /\ DestroyPoolRegion
    /\ held' = {}
    /\ UNCHANGED <<recordVars, listVars, node, twice, call>>

Next ==
    \/ Construct
    \/ \E r \in Requests : Refuse(r) \/ Allocate(r)
    \/ FinishAllocate
    \/ \E h \in held : Deallocate(h)
    \/ FinishDeallocate
    \/ \E count \in 1..Reserved : ReserveArenas(count)
    \/ ReserveNext
    \/ Destroy \/ DestroyArena \/ DestroyPool \/ DestroyRegion

Spec == Init /\ [][Next]_vars

-----------------------------------------------------------------------------
TypeOK == PoolTypeOK

\* The arenas an allocator finds along its list, and those it should find; while
\* the destructor runs, the allocators before call.by are gone.
Destroyed(a) == call.op = "destroy" /\ a < call.by
ListStart(a) == IF call.op = "destroy" /\ call.by = a THEN call.arena
                ELSE arena_list_head[a]
Listed(a) == IF Destroyed(a) THEN {} ELSE Reached(next, ListStart(a))
Owned(a) == IF call.op \in {"use", "give"} /\ call.by = a
            THEN taken[a] \ {call.arena} ELSE taken[a]

\* The links and counts are in order, and the program has blocks of arenas that
\* belong to an allocator, each with the bytes it asked for.
InBlock(a, h) ==
    /\ h.pointer \in h.block..(h.block + ObjectSize(a) - 1)
    /\ h.pointer + h.size <= h.block + ObjectSize(a)
HeldIn(i) == {h \in held : GetArena(h.block) = i}
Consistent ==
    /\ OnePlace
    /\ call.op = "destroy" \/ \A h \in held :
          \E a \in Allocators : GetArena(h.block) \in Owned(a)
    /\ \A a \in Allocators :
          /\ Listed(a) = Owned(a)
          /\ \A i \in Owned(a) :
                /\ free_node_count[i] = ObjectCount(a) - Cardinality(HeldIn(i))
                /\ \A h \in HeldIn(i) : InBlock(a, h)

\* The arenas that the program can still get at: along the free list, along the
\* list of an allocator, or in the hands of the call that runs.
InHand == IF call.op \in {"use", "give"} THEN {call.arena} ELSE {}
Found == {i \in Arenas : i \in Free \cup InHand \/ \E a \in Allocators : i \in Listed(a)}

\* The previous pointer of an arena names the one before it in its list.  The
\* list's own operations do not keep it so: what stood behind the head before
\* an append goes on naming the head.
InPlace(a, i) ==
    IF i = arena_list_head[a] THEN previous[i] = NULL
    ELSE previous[i] \in Owned(a) /\ next[previous[i]] = i

\* The step follows a previous pointer that is out of place and writes to the next
\* pointer of what it finds: it removes such an arena, or appends behind one that
\* stands alone.
StaleRemove == call.op = "none" /\ call'.op = "give" /\ ~InPlace(call'.by, call'.arena)
StaleAppend ==
    /\ call.op = "use"
    /\ LET tail == arena_list_tail[call.by]
       IN  tail # NULL /\ next[tail] = NULL /\ ~InPlace(call.by, tail)

(* From links that are in order, an arena gets lost in two ways only, both  *)
(* through a previous pointer that an append or a give_arena left stale:    *)
(* removing the arena that has it, or appending behind that arena alone.    *)
(* No other call loses one: every allocated arena is found along the free   *)
(* list or an allocator's, although both run through the same next          *)
(* pointers, give_arena leaves a stale one in the last free record, and the *)
(* destructor gives away the arena that it stands on.                       *)
NoArenaLost ==
    [][Consistent /\ ~StaleRemove /\ ~StaleAppend => Allocated' \subseteq Found']_vars

(* As long as the links are in order, no block is handed out to two owners: *)
(* splitting a span lazily, emptying an arena, giving it back and cutting   *)
(* it up again for another size never yields a block that is in use.        *)
FreshBlocks == [][Consistent => twice' = twice]_vars
=============================================================================
