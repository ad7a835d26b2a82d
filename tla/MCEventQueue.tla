---------------------------- MODULE MCEventQueue ----------------------------
(***************************************************************************)
(* EventQueue for TLC: three nodes, so that the queue is filled, emptied   *)
(* and found without nodes again.                                          *)
(***************************************************************************)
EXTENDS EventQueue

Symmetry == Permutations(Threads) \cup Permutations(Events)
=============================================================================
