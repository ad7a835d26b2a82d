--------------------------- MODULE FixedAllocator ---------------------------
(***************************************************************************)
(* holo::fixed_allocator: equal nodes carved out of one memory region and  *)
(* kept on a last-in first-out list that is linked through the nodes       *)
(* themselves.  Addresses are counted from the base of the region.         *)
(*                                                                         *)
(* The calls are given as the steps between which another thread's steps   *)
(* can fall; a module that composes the allocator says who runs them and   *)
(* under which lock.                                                       *)
(***************************************************************************)
EXTENDS Integers, FiniteSets

CONSTANTS
    NULL,         \* the null pointer
    Junk,         \* any bit pattern a program leaves in memory it owns
    Committed,    \* bytes of the region, once claimed
    Offset,       \* bytes skipped to align the first node
    ObjectSize,   \* the constructor's object_size
    Alignment,    \* the constructor's alignment, a power of two
    PointerSize,  \* sizeof(free_node)
    Garbage       \* what node_count can hold before it is first assigned

ASSUME SizeAssumption ==
    /\ Committed \in Nat /\ Offset \in Nat /\ PointerSize \in Nat \ {0}
    /\ ObjectSize \in Nat /\ ObjectSize >= PointerSize
    /\ Alignment \in Nat \ {0} /\ Garbage \subseteq Nat
ASSUME NullAssumption == NULL \notin Int /\ Junk \notin Int \cup {NULL}

VARIABLES
    nodes,       \* the nodes the constructor put on the list
    free_nodes,  \* head of the free list
    next         \* the word at the start of each node

allocatorVars == <<nodes, free_nodes, next>>

-----------------------------------------------------------------------------
(* The constructor.                                                         *)

RoundUp(n, factor) == n + (factor - 1) - ((n - 1) % factor)

\* Bug: no padding, so that a node can start inside an aligned object.
NodeSizePacked == ObjectSize - (ObjectSize % Alignment)
NodeSize ==
    IF ObjectSize % Alignment = 0 THEN ObjectSize
    ELSE RoundUp(ObjectSize, Alignment)

\* node_count is divided by itself before it has a value: a leftover of 0
\* faults, any other gives a count that has nothing to do with NodeSize.
NodeCounts == {(Committed - Offset) \div garbage : garbage \in Garbage \ {0}}

\* The loop frees the last node first and stops at the first address that is
\* not above the base of the region.
TopNode(count) == Offset + (count - 1) * NodeSize
BottomNode ==
    IF Offset % NodeSize = 0 THEN NodeSize ELSE Offset % NodeSize
LoopCount(count) ==
    count + (Offset \div NodeSize) - (IF Offset % NodeSize = 0 THEN 1 ELSE 0)
Node(i) == BottomNode + i * NodeSize

\* Writing a free_node past the committed pages ends the program.
Survives(count) == TopNode(count) + PointerSize <= Committed

\* Bug: the lowest node's link is not cut off.
LinkCircular(i, n) == Node((i + 1) % n)
Link(i, n) == IF i + 1 < n THEN Node(i + 1) ELSE NULL

Constructed(n) ==
    /\ nodes = {Node(i) : i \in 0..(n - 1)}
    /\ free_nodes = IF n > 0 THEN Node(0) ELSE NULL
    /\ next = [a \in nodes |-> Link((a - BottomNode) \div NodeSize, n)]

AllocatorInit ==
    \/ \E count \in NodeCounts : Survives(count) /\ Constructed(LoopCount(count))
    \/ Constructed(0)   \* the region could not be claimed

-----------------------------------------------------------------------------
(* allocate and deallocate.                                                 *)

\* Bug: an object one byte too large is accepted.
TooLargeOffByOne(size) == size > ObjectSize + 1
TooLarge(size) == size > ObjectSize

\* free_nodes = node->next, for the head that was read before.
Pop(node) ==
    /\ free_nodes' = next[node]
    /\ UNCHANGED <<nodes, next>>

\* new_free_node->next = free_nodes
LinkNode(node) ==
    /\ next' = [next EXCEPT ![node] = free_nodes]
    /\ UNCHANGED <<nodes, free_nodes>>

\* free_nodes = new_free_node
PushNode(node) ==
    /\ free_nodes' = node
    /\ UNCHANGED <<nodes, next>>

\* The owner of a node writes what it likes over the link.
Scribble(node) ==
    /\ \E w \in nodes \cup {NULL, Junk} : next' = [next EXCEPT ![node] = w]
    /\ UNCHANGED <<nodes, free_nodes>>

-----------------------------------------------------------------------------
\* f enumerates the free list, and the list holds exactly the nodes of F.
Enumerates(n, f, F) ==
    /\ F = {f[i] : i \in 1..n}
    /\ \A i, j \in 1..n : f[i] = f[j] => i = j
    /\ free_nodes = IF n > 0 THEN f[1] ELSE NULL
    /\ \A i \in 1..n : next[f[i]] = IF i < n THEN f[i + 1] ELSE NULL

\* The free list is finite, without a cycle, and holds exactly F.
ListHolds(F, Lengths) ==
    \E n \in Lengths : \E f \in [1..n -> nodes] : Enumerates(n, f, F)

(* The objects in two nodes never overlap and every node is aligned.        *)
ObjectsDisjoint ==
    \A a, b \in nodes :
        /\ a < b => a + ObjectSize <= b
        /\ (a - Offset) % Alignment = 0
=============================================================================
