--------------------------- MODULE MCHeapAllocator ---------------------------
(***************************************************************************)
(* HeapAllocator for TLC: four arenas of 128 bytes behind records of 192,  *)
(* and pools with two blocks and one block in an arena.  What follows the  *)
(* first state whose links are out of order is not explored: the calls of  *)
(* such a program write through stale pointers.                            *)
(***************************************************************************)
EXTENDS HeapAllocator

MCParameterSize == [p \in Allocators |-> 2^p]
Request(size, alignment) == [size |-> size, alignment |-> alignment]
\* The smaller pool, the larger one in all arenas but the first, where the
\* aligned block lies behind the arena, a size that the pool refuses, and an
\* alignment that no pool serves.
MCRequests == {Request(33, 16), Request(32, 160), Request(100, 128), Request(32, 300)}
=============================================================================
