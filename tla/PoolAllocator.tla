---------------------------- MODULE PoolAllocator ----------------------------
(***************************************************************************)
(* holo::pool_allocator: blocks of one size, cut lazily out of arenas that *)
(* come from a memory_arena_pool and go back when no block of them is in   *)
(* use.  The arenas of an allocator are an intrusive_list through the same *)
(* records, and the same next pointers, that link the pool's free arenas.  *)
(*                                                                         *)
(* A call that takes or gives an arena is two steps, one of which is the   *)
(* pool's; nothing else runs between them.                                 *)
(***************************************************************************)
EXTENDS MemoryArenaPool, FiniteSets

CONSTANTS
    ParameterSize,  \* the object_size each allocator is constructed with
    NodeWidth       \* sizeof(free_node)

ASSUME SizesAssumption ==
    /\ ParameterSize \in [Allocators -> 1..ArenaSize]
    /\ NodeWidth \in Nat \ {0}
    \* object_count is computed from the parameter, the size of a block from
    \* the parameter or a free_node: below NodeWidth blocks overrun the arena.
    /\ \A a \in Allocators : ParameterSize[a] >= NodeWidth

VARIABLES
    previous,         \* the previous pointer of each arena record
    free_node_count,  \* and its free_node_count
    free_node_list,   \* and its free_node_list: the address of a node, or NULL
    arena_list_head, arena_list_tail,  \* of each allocator
    node,             \* the size, next and previous of each free_node
    held,             \* the blocks that the program has
    twice,            \* history: those it was handed while it had them
    call              \* what is left to do of the call that runs

recordVars == <<previous, free_node_count, free_node_list>>
listVars == <<arena_list_head, arena_list_tail>>
allocatorVars == <<recordVars, listVars, node, held, twice, call>>

List == INSTANCE IntrusiveList

ObjectSize(a) == Larger(ParameterSize[a], NodeWidth)
ObjectCount(a) == ArenaSize \div ParameterSize[a]

BlocksOf(a, i) == {ArenaBase(i) + k * ObjectSize(a) : k \in 0..(ObjectCount(a) - 1)}
Nodes == UNION {BlocksOf(a, i) : a \in Allocators, i \in Arenas}

NoCall == [op |-> "none"]

PoolTypeOK ==
    /\ ArenaTypeOK
    /\ previous \in [Arenas -> Arenas \cup {NULL}]
    /\ free_node_count \in [Arenas -> Nat]
    /\ free_node_list \in [Arenas -> Nodes \cup {NULL}]
    /\ arena_list_head \in [Allocators -> Arenas \cup {NULL}]
    /\ arena_list_tail \in [Allocators -> Arenas \cup {NULL}]
    /\ node \in [Nodes -> [size : Nat, next : Nodes \cup {NULL},
                           previous : Nodes \cup {NULL}]]

PoolInit ==
    /\ ArenaInit
    /\ previous = [i \in Arenas |-> NULL]
    /\ free_node_count = [i \in Arenas |-> 0]
    /\ free_node_list = [i \in Arenas |-> NULL]
    /\ arena_list_head = [a \in Allocators |-> NULL]
    /\ arena_list_tail = [a \in Allocators |-> NULL]
    /\ node = [b \in Nodes |-> [size |-> 0, next |-> NULL, previous |-> NULL]]
    /\ held = {} /\ twice = {}
    /\ call = NoCall

Ready == Idle /\ call = NoCall

-----------------------------------------------------------------------------
(* get_first_free_node.                                                     *)

\* The record n links behind record i.
Behind[n \in Nat] ==
    IF n = 0 THEN [i \in Arenas \cup {NULL} |-> i]
    ELSE LET before == Behind[n - 1]
         IN  [i \in Arenas \cup {NULL} |-> IF i = NULL THEN NULL ELSE before[next[i]]]

\* The distances from record i at which there is a record with free nodes.
FreeDistances(i) ==
    {n \in 0..Reserved : Behind[n][i] # NULL /\ free_node_list[Behind[n][i]] # NULL}
HasFreeNode(i) == FreeDistances(i) # {}
FirstWithFreeNode(i) ==
    Behind[CHOOSE n \in FreeDistances(i) : \A m \in FreeDistances(i) : n <= m][i]

\* The search does not end: the records are linked in a circle, all of them full.
NeverEnds(i) == ~HasFreeNode(i) /\ Behind[Reserved][i] # NULL

-----------------------------------------------------------------------------
(* allocate.                                                                *)

TooLarge(a, size) == size > ObjectSize(a)

\* The record of every arena's count, list and nodes, before and after.
Free3(count, list, nodes) == [count |-> count, list |-> list, nodes |-> nodes]

\* Bug: a node that stands for a span is handed out whole.
UnsplitSpan(a, nodes, b) ==
    [next |-> nodes[b].next, nodes |-> nodes]
\* The node behind b: the rest of the span that b stands for, or b's next.
Split(a, nodes, b) ==
    IF nodes[b].size > 1
    THEN [next |-> b + ObjectSize(a),
          nodes |-> [nodes EXCEPT ![b + ObjectSize(a)].size = nodes[b].size - 1,
                                  ![b + ObjectSize(a)].next = b]]
    ELSE [next |-> nodes[b].next, nodes |-> nodes]

\* The first node of record i is taken.  Its neighbours are written to, which
\* may be blocks that the program has.
TakeNode(a, s, i) ==
    LET b == s.list[i]
        arena == GetArena(b)
        count == [s.count EXCEPT ![i] = @ - 1]
        split == Split(a, s.nodes, b)
        linked == [split.nodes EXCEPT ![split.next].previous = split.nodes[b].previous]
    IN  IF count[arena] = 0
        THEN Free3(count, [s.list EXCEPT ![arena] = NULL], linked)
        ELSE Free3(count, [s.list EXCEPT ![arena] = split.next],
                   [linked EXCEPT ![linked[b].previous].next = split.next])

NodeTaken(a, s, i) ==
    LET t == TakeNode(a, s, i)
    IN  /\ free_node_count' = t.count
        /\ free_node_list' = t.list
        /\ node' = t.nodes

\* What the program is handed for the block at b, when the heap has aligned it,
\* whatever the block has room for: an address, and the bytes it asked for.
Handed(b, request) ==
    /\ held' = held \cup {[block |-> b, pointer |-> AlignPointer(b, request.alignment),
                           size |-> request.size]}
    /\ twice' = IF \E h \in held : h.block = b THEN twice \cup {b} ELSE twice

\* An arena of the allocator's list has a free node.
AllocateFromList(a, request) ==
    LET i == FirstWithFreeNode(arena_list_head[a])
    IN  /\ HasFreeNode(arena_list_head[a])
        /\ NodeTaken(a, Free3(free_node_count, free_node_list, node), i)
        /\ Handed(free_node_list[i], request)
        /\ UNCHANGED <<poolVars, previous, listVars, call>>

\* None has, and an arena is taken from the pool.
Popped == IF next_free_arena = NULL THEN arena_count ELSE next_free_arena
RequestArena(a, request) ==
    /\ ~HasFreeNode(arena_list_head[a]) /\ ~NeverEnds(arena_list_head[a])
    /\ TakeArena(a)
    /\ call' = IF taken' = taken /\ next_free_arena' = next_free_arena THEN NoCall
               ELSE [op |-> "use", by |-> a, arena |-> Popped, request |-> request]
    /\ UNCHANGED <<recordVars, listVars, node, held, twice>>

\* The tail of a list that is not empty stays what it was.
ArenaListed(a, i) ==
    IF arena_list_tail[a] = NULL
    THEN /\ arena_list_head' = [arena_list_head EXCEPT ![a] = i]
         /\ arena_list_tail' = [arena_list_tail EXCEPT ![a] = i]
         /\ UNCHANGED <<next, previous>>
    ELSE LET list == List!insert_after([next |-> next, previous |-> previous],
                                       i, arena_list_tail[a])
         IN  next' = list.next /\ previous' = list.previous /\ UNCHANGED listVars

\* The rest of request_empty_arena, and of allocate with its new arena.
UseArena ==
    /\ call.op = "use"
    /\ LET a == call.by
           i == call.arena
           b == ArenaBase(i)
       IN  /\ NodeTaken(a, Free3([free_node_count EXCEPT ![i] = ObjectCount(a)],
                                 [free_node_list EXCEPT ![i] = b],
                                 [node EXCEPT ![b] = [size |-> ObjectCount(a),
                                                      next |-> b, previous |-> b]]), i)
           /\ ArenaListed(a, i)
           /\ Handed(b, call.request)
    /\ call' = NoCall
    /\ UNCHANGED <<regionVars, phase, records, arena_count, next_free_arena,
                   allocator, taken, reserving>>

-----------------------------------------------------------------------------
(* deallocate.                                                              *)

\* The last block of an arena comes back, and the arena leaves the list.
ReleaseArena(a, i) ==
    LET list == List!remove([next |-> next, previous |-> previous], i)
    IN  /\ free_node_count[i] + 1 = ObjectCount(a)
        /\ free_node_count' = [free_node_count EXCEPT ![i] = @ + 1]
        /\ next' = list.next /\ previous' = list.previous
        /\ arena_list_head' = IF arena_list_head[a] = i
                              THEN [arena_list_head EXCEPT ![a] = list.next[i]]
                              ELSE arena_list_head
        /\ arena_list_tail' = IF arena_list_tail[a] = i
                              THEN [arena_list_tail EXCEPT ![a] = list.next[i]]
                              ELSE arena_list_tail
        /\ call' = [op |-> "give", by |-> a, arena |-> i]
        /\ UNCHANGED <<regionVars, phase, records, arena_count, next_free_arena,
                       allocator, taken, reserving, free_node_list, node, twice>>

\* give_arena, which also clears what the pool does not use.
Give(a, i) ==
    /\ GiveArena(a, i)
    /\ previous' = [previous EXCEPT ![i] = NULL]
    /\ free_node_count' = [free_node_count EXCEPT ![i] = 0]
    /\ free_node_list' = [free_node_list EXCEPT ![i] = NULL]

FinishDeallocate ==
    /\ call.op = "give"
    /\ Give(call.by, call.arena)
    /\ call' = NoCall
    /\ UNCHANGED <<listVars, node, held, twice>>

\* The pointer is replaced by its offset in the block, and the free node is
\* written at that address.
WriteAtOffset(a, i) ==
    /\ free_node_count[i] + 1 # ObjectCount(a)
    /\ phase' = "faulted"
    /\ UNCHANGED <<regionVars, records, arena_count, next_free_arena, next, allocator,
                   taken, reserving, recordVars, listVars, node, twice, call>>

\* deallocate of the allocator that record i names.
DeallocateIn(a, i) == ReleaseArena(a, i) \/ WriteAtOffset(a, i)
=============================================================================
