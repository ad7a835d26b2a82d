------------------------------ MODULE MCThreads ------------------------------
(***************************************************************************)
(* Threads for TLC: two threads, two handlers, one thread object, and the  *)
(* exceptions of two source files, which may be initialized in any order.  *)
(***************************************************************************)
EXTENDS Threads, TLC

MCUnits == {<<"index_out_of_range", "invalid_operation", "invalid_argument",
              "platform">>, <<"out_of_memory">>}
Symmetry == Permutations(Handlers) \cup Permutations(Threads)
=============================================================================
