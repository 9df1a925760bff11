--------------------------- MODULE MCIndexPipeline ---------------------------
(* Instances of IndexPipeline for TLC. *)
EXTENDS IndexPipeline, TLC

CONSTANTS a, b

\* Permuting the two texts, the chunk ids or the files changes nothing.
Symmetry == Permutations({a, b}) \cup Permutations(ChunkIds) \cup Permutations(Files)

=============================================================================
