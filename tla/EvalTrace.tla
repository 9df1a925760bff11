------------------------------ MODULE EvalTrace ------------------------------
(***************************************************************************)
(* The collector of backend/app/evaluation/trace.py: what one answered     *)
(* question leaves for the evaluation.  A trace is a record; the operators *)
(* are the collector's methods.                                            *)
(***************************************************************************)
EXTENDS Naturals, Sequences

None == "none"

\* EvalTraceCollector with start.
NewTrace ==
  [stage |-> "initialization", attempts |-> <<>>, rewrites |-> <<>>, final |-> None,
   outcome |-> None, reason |-> None, error |-> None, finished |-> FALSE]

SetStage(t, stage) == [t EXCEPT !.stage = stage]

BeginAttempt(t, n) ==
  [t EXCEPT !.attempts = Append(@, [number |-> n, reranked |-> FALSE, sufficient |-> None, open |-> TRUE])]

\* _attempt: the first attempt with the number.
AttemptAt(t, n) ==
  CHOOSE i \in DOMAIN t.attempts : /\ t.attempts[i].number = n
                                   /\ \A j \in 1..i - 1 : t.attempts[j].number # n

\* record_reranked and record_evidence.
RecordEvidence(t, n, reranked, sufficient) ==
  [t EXCEPT !.attempts[AttemptAt(t, n)].reranked = reranked,
            !.attempts[AttemptAt(t, n)].sufficient = IF sufficient THEN "yes" ELSE "no"]

FinishAttempt(t, n) == [t EXCEPT !.attempts[AttemptAt(t, n)].open = FALSE]

RecordRewrite(t, after) == [t EXCEPT !.rewrites = Append(@, after)]

RecordFinal(t, answer) == [t EXCEPT !.final = answer, !.outcome = "ANSWERED"]

RecordAbstention(t, reason, answer) ==
  [t EXCEPT !.final = answer, !.outcome = "ABSTAINED", !.reason = reason]

\* The first error is kept, whatever follows; the outcome is FAILED.
RecordError(t, stage) ==
  [t EXCEPT !.error = IF @ = None THEN stage ELSE @, !.outcome = "FAILED"]

Finish(t) == [t EXCEPT !.finished = TRUE]

=============================================================================
