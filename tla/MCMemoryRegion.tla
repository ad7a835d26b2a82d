--------------------------- MODULE MCMemoryRegion ---------------------------
(***************************************************************************)
(* Instances of MemoryRegion: words of 4 bits, pages of 2 bytes and a      *)
(* granularity of 4 bytes, so that a size can end inside a page, a page    *)
(* count can differ from the reservation's, and sums and roundings wrap.   *)
(***************************************************************************)
EXTENDS MemoryRegion, TLC

\* 0 is the empty region, 3 leaves a page of the reservation unused, 8 fills
\* one exactly, 15 is rounded up past the largest word.
MCMaxSizes == {0, 3, 8, 15}
\* 15 makes every sum with a non-zero size wrap.
MCGrowSizes == {0, 1, 3, 15}
Symmetry == Permutations(Regions) \cup Permutations(Addresses)
=============================================================================
