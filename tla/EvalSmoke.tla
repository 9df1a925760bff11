----------------------------- MODULE EvalSmoke -----------------------------
(***************************************************************************)
(* The smoke test of the tool agent (backend/evaluation/                   *)
(* agent_smoke_runner.py): the identity of the sources is frozen first,    *)
(* then every case is asked once, with a record on disk before anything    *)
(* is paid for.  A run may die anywhere and be started again, one at a     *)
(* time, and the sources may be edited under it.  The first run and the    *)
(* revision have a freeze and records of their own.                        *)
(***************************************************************************)
EXTENDS Naturals, Sequences, FiniteSets

CONSTANTS
  SmokeCases,   \* cases of the dataset
  MaxSteps,     \* model calls of a case
  MaxSources,   \* bound on the versions of the sources
  MaxSmokeRuns  \* bound on the runs started

ASSUME SmokeAssumption == SmokeCases \in Nat /\ MaxSources \in Nat

VARIABLES
  sources,  \* version of the files on disk that graph_tool_identity hashes
  frozen,   \* the identity in each freeze; 0 before it
  record,   \* the records on disk
  smoke,    \* the run under way
  calls     \* the calls posted to the model: [ledger, case, run, code]

svars == <<sources, frozen, record, smoke, calls>>

Ledgers == {"first", "revision"}

NoRecord == [status |-> "absent", identity |-> 0, steps |-> <<>>]

AtRest(n) == [at |-> "rest", run |-> n, ledger |-> "first", case |-> 0, code |-> 0]

InitS ==
  /\ sources = 1 /\ frozen = [l \in Ledgers |-> 0]
  /\ record = [l \in Ledgers |-> [c \in 1..SmokeCases |-> NoRecord]]
  /\ smoke = AtRest(0) /\ calls = {}

\* An edit, or its undoing.
EditSources ==
  /\ \E v \in 1..MaxSources : v # sources /\ sources' = v
  /\ UNCHANGED <<frozen, record, smoke, calls>>

\* --freeze, which refuses to freeze again; a revision starts from the first freeze.
Freeze(l) ==
  /\ smoke.at = "rest" /\ frozen[l] = 0 /\ (l = "revision" => frozen["first"] # 0)
  /\ frozen' = [frozen EXCEPT ![l] = sources]
  /\ UNCHANGED <<sources, record, smoke, calls>>

\* --execute: what is loaded must be what was frozen.  The process has loaded the sources
\* a moment before it hashes them; an edit in between is left out.
StartSmoke(l) ==
  /\ smoke.at = "rest" /\ smoke.run < MaxSmokeRuns
  /\ frozen[l] # 0 /\ sources = frozen[l]
  /\ smoke' = [at |-> "case", run |-> smoke.run + 1, ledger |-> l, case |-> 1, code |-> sources]
  /\ UNCHANGED <<sources, frozen, record, calls>>

Here == record[smoke.ledger][smoke.case]

\* The next step of the run, which saves this case's record.
Saving(rec, at) ==
  /\ record' = [record EXCEPT ![smoke.ledger][smoke.case] = rec]
  /\ smoke' = [smoke EXCEPT !.at = at]
  /\ UNCHANGED <<sources, frozen, calls>>

\* Mutant of Retained: a case without an outcome is asked again.
RetainedWhenCompleted(rec) == rec.status \in {"COMPLETED", "UNKNOWN"}

Retained(rec) == rec.status # "absent"

\* Sources edited since the freeze, or a record of others, end the run.
StaleSources ==
  /\ smoke.at = "case" /\ smoke.case <= SmokeCases
  /\ \/ sources # frozen[smoke.ledger]
     \/ Retained(Here) /\ Here.identity # frozen[smoke.ledger]
  /\ smoke' = AtRest(smoke.run)
  /\ UNCHANGED <<sources, frozen, record, calls>>

SkipCase ==
  /\ smoke.at = "case" /\ smoke.case <= SmokeCases /\ sources = frozen[smoke.ledger]
  /\ Retained(Here) /\ Here.identity = frozen[smoke.ledger]
  /\ smoke' = [smoke EXCEPT !.case = @ + 1]
  /\ UNCHANGED <<sources, frozen, record, calls>>

AskSmoke ==
  /\ smoke.at = "case" /\ smoke.case <= SmokeCases /\ sources = frozen[smoke.ledger]
  /\ ~Retained(Here)
  /\ Saving([status |-> "PENDING", identity |-> frozen[smoke.ledger], steps |-> <<>>], "run")

\* RecordingChat.step: recorded, posted, answered or failed.
RecordStep ==
  /\ smoke.at = "run" /\ Len(Here.steps) < MaxSteps
  /\ Saving([Here EXCEPT !.steps = Append(@, "PENDING")], "post")

PostStep ==
  /\ smoke.at = "post"
  /\ calls' = calls \cup {[ledger |-> smoke.ledger, case |-> smoke.case, run |-> smoke.run,
                           code |-> smoke.code, step |-> Len(Here.steps)]}
  /\ smoke' = [smoke EXCEPT !.at = "answer"]
  /\ UNCHANGED <<sources, frozen, record>>

Outcome(status) == [Here EXCEPT !.steps = [@ EXCEPT ![Len(@)] = status]]

StepAnswered == smoke.at = "answer" /\ Saving(Outcome("SUCCESS"), "run")

\* The agent ends its run after a failed step.
StepFailed == smoke.at \in {"post", "answer"} /\ Saving(Outcome("UNKNOWN"), "end")

\* Mutant of Finished: the agent's own failure decides.
FinishedAnyway ==
  /\ smoke.at \in {"run", "end"}
  /\ record' = [record EXCEPT ![smoke.ledger][smoke.case].status = "COMPLETED"]
  /\ smoke' = [smoke EXCEPT !.at = "case", !.case = @ + 1]
  /\ UNCHANGED <<sources, frozen, calls>>

Finished ==
  /\ smoke.at \in {"run", "end"}
  /\ record' = [record EXCEPT ![smoke.ledger][smoke.case].status =
                  IF \E i \in DOMAIN Here.steps : Here.steps[i] # "SUCCESS" THEN "UNKNOWN" ELSE "COMPLETED"]
  /\ smoke' = [smoke EXCEPT !.at = "case", !.case = @ + 1]
  /\ UNCHANGED <<sources, frozen, calls>>

\* The last case is done, the process is killed or an exception ends it.
EndSmoke ==
  /\ smoke.at # "rest"
  /\ smoke' = AtRest(smoke.run)
  /\ UNCHANGED <<sources, frozen, record, calls>>

NextS ==
  \/ EditSources \/ EndSmoke
  \/ \E l \in Ledgers : Freeze(l) \/ StartSmoke(l)
  \/ StaleSources \/ SkipCase \/ AskSmoke
  \/ RecordStep \/ PostStep \/ StepAnswered \/ StepFailed \/ Finished

SpecS == InitS /\ [][NextS]_svars

-----------------------------------------------------------------------------
(* Properties. *)

CallsOf(l, c) == {call \in calls : call.ledger = l /\ call.case = c}

\* "Never repost completed OR unknown/pending paid cases": wherever runs die and are
\* started again, every call paid for is on record before it is posted, was made by the
\* frozen sources, and belongs to the one run that asked its case; and a case counts as
\* completed only if each of its recorded calls was posted and answered.
NoCaseIsPaidTwice ==
  \A l \in Ledgers, c \in 1..SmokeCases :
    LET rec == record[l][c]
    IN  /\ \A call, other \in CallsOf(l, c) : call.run = other.run
        /\ \A call \in CallsOf(l, c) : call.step \in DOMAIN rec.steps /\ call.code = rec.identity
        /\ rec.status # "absent" => rec.identity = frozen[l]
        /\ rec.status = "COMPLETED" =>
             \A i \in DOMAIN rec.steps : rec.steps[i] = "SUCCESS" /\ \E call \in CallsOf(l, c) : call.step = i

=============================================================================
