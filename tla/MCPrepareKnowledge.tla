-------------------------- MODULE MCPrepareKnowledge -------------------------
(* Instances of PrepareKnowledge for TLC. *)
EXTENDS PrepareKnowledge, TLC

CONSTANTS a, b

\* Permuting the two texts, the chunk ids or the files changes nothing.
SymmetryP == Permutations({a, b}) \cup Permutations(ChunkIds) \cup Permutations(Files)

=============================================================================
