-------------------------- MODULE MCLinearAllocator --------------------------
(***************************************************************************)
(* LinearAllocator for TLC: a region of 14 bytes at address 4, so that     *)
(* blocks aligned to 8 and 16 start behind it, the last page is not used   *)
(* as a whole, and the size 60 wraps around a word of 64.                  *)
(***************************************************************************)
EXTENDS LinearAllocator

MCRegionSizes == {0, 14}
MCSizes == {0, 3, 60}
MCAlignments == {1, 8, 16}
MCWritten == {5}
\* 3 is not a boundary, 40 lies behind the region.
MCGarbage == {0, 3, 40}
=============================================================================
