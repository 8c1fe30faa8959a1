---------------------------- MODULE MCMemoryPool ----------------------------
(* Instances of MemoryPool for TLC.  Threads, addresses and memzones are   *)
(* only compared.                                                          *)
EXTENDS MemoryPool, TLC

Symmetry ==
  Permutations(Threads) \cup Permutations(Addresses) \cup Permutations(Memzones)

=============================================================================
