----------------------------- MODULE MCVramPool -----------------------------
(* Small pools for TLC: pages of 2 bytes in a 4-bit address space.         *)
EXTENDS VramPool

\* One pool that is not aligned to the largest alignment, one that ends at
\* the top of the address space, and the ways init can refuse.
MCInitArgs == {<<2, 2, 10>>, <<0, 4, 10>>, <<1, 2, 10>>, <<0, 8, 8>>, <<0, 0, 0>>}

\* Sizes that are rounded, too large or overflow, alignments that are
\* invalid, a page or more.
MCRequests == ({1, 4} \X {2, 4}) \cup {<<5, 2>>, <<3, 8>>, <<0, 2>>, <<15, 2>>, <<2, 1>>, <<2, 6>>}
=============================================================================
