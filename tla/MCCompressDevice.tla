-------------------------- MODULE MCCompressDevice --------------------------
(* Instances of CompressDevice for TLC.  Operations and memzones are only    *)
(* compared, so they may be permuted.                                        *)
EXTENDS CompressRefinement, TLC

Symmetry == Permutations(Operations) \cup Permutations(Memzones)

\* Where a liveness property rules symmetry sets out, memzones are numbers, and
\* one initial stock stands for all of its permutations.
OrderedInit ==
  /\ pool = [i \in 1..NumPreallocated |-> i]
  /\ Init

OrderedSpec == OrderedInit /\ [][Next]_vars /\ \A q \in QueuePairs : Fairness(q)

=============================================================================
