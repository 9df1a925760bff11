-------------------------- MODULE MCTextAlgorithms --------------------------
(* The pure algorithms on bounded inputs: a text is chunked, or a question *)
(* is answered from what was found.  The other one of the two rests.       *)
EXTENDS Chunking, Evidence

\* Three chunks in two files; the second file is newer.
MCFileOf == <<1, 1, 2>>
MCModified == <<1, 2>>
MCWeight == [vector |-> 5, keyword |-> 3, metadata |-> 2]

ChunkingRests == text = <<>> /\ target = 1 /\ overlap = 0 /\ start = 0 /\ chunks = <<>> /\ done = TRUE

EvidenceRests ==
  /\ step = "abstained" /\ path = "collection" /\ lists = NoLists /\ named = {}
  /\ size = [c \in Chunks |-> GroundedLen] /\ NothingYet

\* Bound: the question names at most one of the files (naming all prefers none).
NamedMax == 1

InitMC == (InitC /\ EvidenceRests) \/ (ChunkingRests /\ InitE /\ Cardinality(named) <= NamedMax)

NextMC == (NextC /\ UNCHANGED evars) \/ (NextE /\ UNCHANGED cvars)

mcvars == <<cvars, evars>>

SpecMC == InitMC /\ [][NextMC]_mcvars /\ WF_mcvars(NextC /\ UNCHANGED evars)

=============================================================================
