---------------------------- MODULE MCScanQueue ----------------------------
(* Small instances of ScanQueue; each .cfg says which clients there are.   *)
EXTENDS QueueRefinement, TLC

\* Images are interchangeable, and so are workers.  (Safety runs only.)
Symmetry == Permutations(Ref) \cup Permutations(Workers)
=============================================================================
