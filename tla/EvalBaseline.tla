---------------------------- MODULE EvalBaseline ----------------------------
(***************************************************************************)
(* A baseline of the evaluation (backend/evaluation/runner.py): after a    *)
(* preflight that compares rows and vectors of every gold file, the cases  *)
(* are asked one after the other and the result is published under a name  *)
(* made of the second it started in.  Runs may overlap, be killed, and     *)
(* meet an index that changes.                                             *)
(***************************************************************************)
EXTENDS Naturals, Sequences, FiniteSets

CONSTANTS
  BaselineRuns,  \* runs of the script
  GoldFiles,     \* files the cases expect
  NCases,        \* cases of the dataset
  MaxReindexed,  \* bound on the versions of a file
  Seconds        \* bound on the clock that names results

VARIABLES
  rows,       \* version of each gold file's text and chunk rows
  vectors,    \* version of its points; 0 without any
  indexed,    \* files with status INDEXED
  second,     \* the clock
  baseline,   \* each run
  published,  \* results by name
  temporary   \* temporary files, by run

bvars == <<rows, vectors, indexed, second, baseline, published, temporary>>

NotRun == [at |-> "start", listed |-> {}, left |-> GoldFiles, read |-> [f \in GoldFiles |-> 0], begun |-> 0,
           outcomes |-> <<>>, bases |-> <<>>, disturbed |-> FALSE]

\* The index as another history may have left it, vectors lost or stale included.
InitB ==
  /\ rows = [f \in GoldFiles |-> 2] /\ vectors \in [GoldFiles -> 0..2]
  /\ indexed \in SUBSET GoldFiles
  /\ second = 0 /\ baseline = [r \in BaselineRuns |-> NotRun]
  /\ published = <<>> /\ temporary = {}

Working == {"rows", "vectors", "cases", "written"}

\* Whatever changes the index disturbs the runs that have begun.
Disturb == baseline' = [r \in BaselineRuns |->
                          IF baseline[r].at \in Working THEN [baseline[r] EXCEPT !.disturbed = TRUE]
                          ELSE baseline[r]]

Reindexed(f) ==
  /\ rows[f] < MaxReindexed
  /\ rows' = [rows EXCEPT ![f] = @ + 1] /\ indexed' = indexed \ {f}
  /\ Disturb /\ UNCHANGED <<vectors, second, published, temporary>>

Embedded(f) ==
  /\ f \notin indexed
  /\ vectors' = [vectors EXCEPT ![f] = rows[f]] /\ indexed' = indexed \cup {f}
  /\ Disturb /\ UNCHANGED <<rows, second, published, temporary>>

NextSecond ==
  /\ second < Seconds /\ second' = second + 1
  /\ UNCHANGED <<rows, vectors, indexed, baseline, published, temporary>>

Put(r, run) ==
  baseline' = [baseline EXCEPT ![r] = run] /\ UNCHANGED <<rows, vectors, indexed, second>>

Kept == UNCHANGED <<published, temporary>>

\* What a run has read is of no use once it is over.
Over(at) == [NotRun EXCEPT !.at = at]

\* require_clean_git, unless overridden; the working tree is edited at any time.  Then
\* one query for the rows of all files and their statuses.
BeginRun(r) ==
  /\ baseline[r].at = "start"
  /\ \E tree \in {"clean", "dirty"}, override \in BOOLEAN :
       Put(r, IF tree = "dirty" /\ ~override THEN Over("refused")
              ELSE [baseline[r] EXCEPT !.at = "rows", !.listed = indexed])
  /\ Kept

\* verify_corpus for one file, in the order of the names: the status as listed, then the
\* document and the chunk rows, whose hashes must be the document's.
VerifyRows(r) ==
  /\ baseline[r].at = "rows"
  /\ IF baseline[r].left = {}
     THEN Put(r, [baseline[r] EXCEPT !.at = "cases", !.begun = second])
     ELSE LET f == CHOOSE g \in baseline[r].left : TRUE
          IN  Put(r, IF f \in baseline[r].listed THEN [baseline[r] EXCEPT !.at = "vectors", !.read[f] = rows[f]]
                     ELSE Over("refused"))
  /\ Kept

\* Mutant of VectorsMatch: points of any version will do.
VectorsExist(r, f) == vectors[f] # 0

VectorsMatch(r, f) == vectors[f] = baseline[r].read[f]

\* _verify_vector_points, a request to Qdrant after the queries.
VerifyVectors(r) ==
  /\ baseline[r].at = "vectors"
  /\ LET f == CHOOSE g \in baseline[r].left : TRUE
     IN  Put(r, IF VectorsMatch(r, f) THEN [baseline[r] EXCEPT !.at = "rows", !.left = @ \ {f}]
                ELSE Over("refused"))
  /\ Kept

\* execute_cases: a failure is a result of its case.
AskCase(r) ==
  LET run == baseline[r]
  IN  /\ run.at = "cases" /\ Len(run.outcomes) < NCases
      /\ \E outcome \in {"completed", "failed"} :
           Put(r, [run EXCEPT !.outcomes = Append(@, outcome),
                              !.bases = Append(@, [f \in GoldFiles |-> IF f \in indexed THEN vectors[f] ELSE 0])])
      /\ Kept

\* aggregate_results
RunStatus(outcomes) ==
  LET completed == {i \in DOMAIN outcomes : outcomes[i] = "completed"}
  IN  IF completed = DOMAIN outcomes THEN "completed"
      ELSE IF completed # {} THEN "partial_failure" ELSE "failed"

\* build_result_document and the first test of write_result_atomically.
WriteTemporary(r) ==
  /\ baseline[r].at = "cases" /\ Len(baseline[r].outcomes) = NCases
  /\ IF baseline[r].begun \in DOMAIN published
     THEN Put(r, Over("exists")) /\ Kept
     ELSE /\ Put(r, [baseline[r] EXCEPT !.at = "written"])
          /\ temporary' = temporary \cup {r} /\ UNCHANGED published

Document(r) == [by |-> r, manifest |-> baseline[r].read, bases |-> baseline[r].bases,
                outcomes |-> baseline[r].outcomes, status |-> RunStatus(baseline[r].outcomes),
                disturbed |-> baseline[r].disturbed]

\* Mutant of Link: a rename, which overwrites.
LinkReplacing(r) ==
  /\ baseline[r].at = "written"
  /\ published' = [n \in DOMAIN published \cup {baseline[r].begun} |->
                     IF n = baseline[r].begun THEN Document(r) ELSE published[n]]
  /\ Put(r, Over("linked")) /\ UNCHANGED temporary

\* os.link refuses a name that another run has taken since the test.
Link(r) ==
  /\ baseline[r].at = "written"
  /\ IF baseline[r].begun \in DOMAIN published
     THEN Put(r, Over("exists")) /\ Kept
     ELSE /\ published' = [n \in DOMAIN published \cup {baseline[r].begun} |->
                             IF n = baseline[r].begun THEN Document(r) ELSE published[n]]
          /\ Put(r, Over("linked")) /\ UNCHANGED temporary

\* The finally clause.
RemoveTemporary(r) ==
  /\ baseline[r].at \in {"linked", "exists"} /\ r \in temporary
  /\ temporary' = temporary \ {r}
  /\ UNCHANGED <<rows, vectors, indexed, second, baseline, published>>

Kill(r) ==
  /\ baseline[r].at \in Working \cup {"linked"}
  /\ Put(r, Over("killed")) /\ Kept

NextB ==
  \/ \E f \in GoldFiles : Reindexed(f) \/ Embedded(f)
  \/ NextSecond
  \/ \E r \in BaselineRuns :
       \/ BeginRun(r) \/ VerifyRows(r) \/ VerifyVectors(r) \/ AskCase(r)
       \/ WriteTemporary(r) \/ Link(r) \/ RemoveTemporary(r) \/ Kill(r)

SpecB == InitB /\ [][NextB]_bvars

-----------------------------------------------------------------------------
(* Properties. *)

\* A result that is there is whole, tells how its cases ended, and, if nothing touched the
\* index meanwhile, measures answers given from the very versions its manifest lists.
ResultsAreTrue ==
  \A n \in DOMAIN published :
    LET d == published[n]
    IN  /\ Len(d.outcomes) = NCases
        /\ d.status = "completed" <=> \A i \in 1..NCases : d.outcomes[i] = "completed"
        /\ ~d.disturbed => \A i \in 1..NCases : d.bases[i] = d.manifest

\* Runs that start in one second share a name: what was published first stays.
ResultsStay == \A n \in DOMAIN published : n \in DOMAIN published' /\ published'[n] = published[n]

\* What a baseline publishes can be relied on later.
BaselinesAreSound == [][ResultsAreTrue' /\ ResultsStay]_bvars

=============================================================================
