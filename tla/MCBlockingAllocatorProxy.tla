---------------------- MODULE MCBlockingAllocatorProxy ----------------------
(***************************************************************************)
(* Instances of BlockingAllocatorProxy.  Objects of 3 bytes are padded to  *)
(* nodes of 4 by an alignment of 2.                                        *)
(***************************************************************************)
EXTENDS BlockingAllocatorProxy, TLC

\* One size that fits, one that is a byte too large.
MCSizes == {3, 4}

Symmetry == Permutations(Threads)
=============================================================================
