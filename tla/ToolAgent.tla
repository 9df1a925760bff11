------------------------------ MODULE ToolAgent ------------------------------
(***************************************************************************)
(* One run of the tool agent (backend/app/agents/tool_rag and              *)
(* services/tool_agent_service.py): a model and read-only tools take       *)
(* turns, over an index that changes between any two queries of a tool.    *)
(*                                                                         *)
(* A passage <<f, g>> is what generation g of the rows of file f holds.    *)
(* What a call asks for is chosen when it is executed: nothing reads it    *)
(* before.                                                                 *)
(***************************************************************************)
EXTENDS Naturals, Sequences, FiniteSets, SequencesExt

CONSTANTS
  Files,
  NGenerations, \* generations of a file's rows
  Ends,        \* of each generation of each file's rows, how many characters there are up to
               \* the end of each row
  MaxRows,     \* the rows a full read fetches (20 in the code)
  Budget,      \* max_context_chars
  MaxChanges,  \* bound on the changes of the index during a run
  MaxCycles,   \* max_cycles: the model's steps (6 in the code)
  MaxCalls,    \* calls in one step (8 in the code)
  MaxExecuted  \* bound on the calls executed in a run

ASSUME ToolAgentAssumption ==
  /\ MaxCycles \in Nat \ {0} /\ MaxCalls \in Nat \ {0} /\ MaxRows \in Nat /\ MaxChanges \in Nat
  /\ Budget \in Nat \ {0}
  /\ NGenerations \in Nat \ {0} /\ Ends \in [Files -> [1..NGenerations -> Seq(Nat \ {0})]]
  /\ \A f \in Files, g \in 1..NGenerations :
       \A i, j \in DOMAIN Ends[f][g] : i < j => Ends[f][g][i] < Ends[f][g][j]

Generations == 1..NGenerations

VARIABLES
  live,     \* the INDEXED files
  rows,     \* the generation of each file's rows
  changes,  \* changes of the index so far
  a,        \* AgentState
  known,    \* the files the run's RuntimeHandleRegistry has a handle for
  call      \* how far the call under way has got

index == <<live, rows, changes>>
tvars == <<live, rows, changes, a, known, call>>

-----------------------------------------------------------------------------
(* The index, as the preparation changes it. *)

Withdraw(f) == f \in live /\ live' = live \ {f} /\ UNCHANGED rows

\* A preparation indexes a file, as it was or edited, or one that was indexed anew.
Publish(f) ==
  /\ live' = live \cup {f}
  /\ \E g \in {rows[f], rows[f] + 1} \cap Generations : rows' = [rows EXCEPT ![f] = g]
  /\ f \in live => rows' # rows

IndexChanges ==
  /\ a.pc \in {"agent", "tools"}   \* later nothing reads it
  /\ changes < MaxChanges /\ changes' = changes + 1
  /\ \E f \in Files : Withdraw(f) \/ Publish(f)
  /\ UNCHANGED <<a, known, call>>

-----------------------------------------------------------------------------
(* The run.  Fields of a:                                                  *)
(*   pc          the node that runs next, then what became of the run      *)
(*   cycles      cycle_count                                               *)
(*   hops        nodes run, which LangGraph limits                         *)
(*   failure     None, or why the run failed                               *)
(*   messages    the transcript, from the question on                      *)
(*   pending     ids of the calls still to be executed                     *)
(*   history     tool_history                                              *)
(*   answer      "model", "limit", "failure" or "no_evidence"              *)
(*   notice      the answer starts with TRUNCATION_NOTICE                  *)
(*   cites       the passages cited                                        *)
(* A record of history: the id, the outcome, the files its handles named,  *)
(* the files it returned, and of a read ("search" or "full") its passages  *)
(* and, for a full one, the generations counted and read, and how many     *)
(* rows and characters it counted and took.                                *)

None == "none"

User         == [role |-> "USER", ids |-> <<>>]
Says(ids)    == [role |-> "ASSISTANT", ids |-> ids]
Reports(id)  == [role |-> "TOOL", ids |-> <<id>>]

Nothing == [rows |-> 0, chars |-> 0]

Resting == [stage |-> "idle", named |-> {}, found |-> {}, counted |-> Nothing, of |-> 0]

NewRun ==
  [pc |-> "agent", cycles |-> 0, hops |-> 0, failure |-> None, messages |-> <<User>>, pending |-> <<>>,
   history |-> <<>>, answer |-> None, notice |-> FALSE, cites |-> {}]

\* Mutant of Registered: the registry is kept from an earlier run.
RegisteredBefore == Files

\* Every run has a registry of its own.
Registered == {}

InitT ==
  /\ live \in SUBSET Files
  /\ rows = [f \in Files |-> 1]
  /\ changes = 0
  /\ a = NewRun /\ known = Registered /\ call = Resting

Executed == {a.history[i].id : i \in DOMAIN a.history}

Read(entry) == entry.outcome = "ok" /\ entry.kind \in {"search", "full"}

Reads == {i \in DOMAIN a.history : Read(a.history[i])}

\* The sections kept, and with them the source handles.
Evidence == UNION {a.history[i].passages : i \in Reads}

-----------------------------------------------------------------------------
(* The node agent: a step of the model. *)

Fail(failure, cycles) ==
  /\ a' = [a EXCEPT !.pc = "fail_safe", !.failure = failure, !.cycles = cycles, !.hops = @ + 1]
  /\ UNCHANGED <<index, known, call>>

\* Too much has been said for one more completion.
MessageLimit == a.pc = "agent" /\ a.history # <<>> /\ Fail("MESSAGE_LIMIT", a.cycles)

\* The provider fails, or its reply has no valid form.
StepFails ==
  /\ a.pc = "agent" /\ a.cycles < MaxCycles
  /\ \E failure \in {"PROVIDER_ERROR", "MALFORMED_RESPONSE"} : Fail(failure, a.cycles + 1)

\* A call id that was executed before is not accepted again.
RepeatedId ==
  /\ a.pc = "agent" /\ a.cycles < MaxCycles
  /\ Executed # {}
  /\ Fail("STATE_ERROR", a.cycles + 1)

\* Text alone is the draft of the answer.
Conclude ==
  /\ a.pc = "agent" /\ a.cycles < MaxCycles
  /\ a' = [a EXCEPT !.pc = "finalize", !.cycles = @ + 1, !.hops = @ + 1, !.messages = Append(@, Says(<<>>))]
  /\ UNCHANGED <<index, known, call>>

\* ChatError: the request fails and the run is forgotten.
Raise ==
  /\ a' = [NewRun EXCEPT !.pc = "raised"]
  /\ known' = {} /\ call' = Resting
  /\ UNCHANGED index

\* New ids, distinct within the step.
NewIds ==
  {[i \in 1..n |-> Cardinality(Executed) + i] :
     n \in {m \in 1..MaxCalls : Len(a.history) + m <= MaxExecuted \/ a.cycles + 1 = MaxCycles}}

\* Mutant of AskTools: the calls of the last step are still executed.
AskToolsAtLimit ==
  /\ a.pc = "agent" /\ a.cycles < MaxCycles
  /\ \E ids \in NewIds :
       a' = [a EXCEPT !.cycles = @ + 1, !.hops = @ + 1,
                      !.messages = Append(@, Says(ids)),
                      !.pc = "tools",
                      !.pending = ids]
  /\ UNCHANGED <<index, known, call>>

\* In the last step there is no cycle left to use what they return.
AskTools ==
  /\ a.pc = "agent" /\ a.cycles < MaxCycles
  /\ \E ids \in NewIds :
       LET last == a.cycles + 1 >= MaxCycles
       IN  a' = [a EXCEPT !.cycles = @ + 1, !.hops = @ + 1,
                          !.messages = Append(@, Says(ids)),
                          !.failure = IF last THEN "CYCLE_LIMIT" ELSE @,
                          !.pc = IF last THEN "fail_safe" ELSE "tools",
                          !.pending = IF last THEN @ ELSE ids]
  /\ UNCHANGED <<index, known, call>>

-----------------------------------------------------------------------------
(* The node execute_tools: the calls of the step, one after the other.     *)

Calling(stage) == a.pc = "tools" /\ call.stage = stage

\* The result of a call: the message with its id and the record of what it did.
Returns(entry) ==
  /\ a' = [a EXCEPT !.messages = Append(@, Reports(Head(a.pending))),
                    !.history = Append(@, entry),
                    !.pending = Tail(@),
                    !.pc = IF Tail(a.pending) = <<>> THEN "agent" ELSE "tools",
                    !.hops = IF Tail(a.pending) = <<>> THEN @ + 1 ELSE @]
  /\ call' = Resting
  /\ UNCHANGED index

Entry(kind, outcome, returned) ==
  [id |-> Head(a.pending), kind |-> kind, outcome |-> outcome, named |-> call.named,
   returned |-> returned, passages |-> {}, counted |-> Nothing, took |-> Nothing, of |-> <<0, 0>>]

\* Arguments that do not fit, an unsupported scope, a handle the run does not know, a
\* reference to an earlier turn, or an ambiguous name.
Refused == Calling("idle") /\ Returns(Entry("none", "error", {})) /\ UNCHANGED known

\* An exception: a query fails, or a result does not fit its limits, when handles may
\* have been given out.
Breaks ==
  /\ a.pc = "tools"
  /\ Returns(Entry("none", "internal", {}))
  /\ known' \in {known, known \cup {p[1] : p \in call.found}}

\* files_query and resolve_file return indexed files.
FilesQuery ==
  /\ Calling("idle")
  /\ \E fs \in SUBSET live : Returns(Entry("files", "ok", fs)) /\ known' = known \cup fs

\* validate_files
Validate(fs, stage) ==
  IF fs \subseteq live
  THEN call' = [call EXCEPT !.stage = stage, !.named = fs] /\ UNCHANGED <<index, a, known>>
  ELSE Returns([Entry("none", "error", {}) EXCEPT !.named = fs]) /\ UNCHANGED known

\* search_knowledge among the files of its handles, or all; file_evidence for a query.
StartSearch ==
  /\ Calling("idle")
  /\ \E fs \in SUBSET known : Validate(fs, "retrieve")

\* The retriever finds rows that are eligible and in scope.
Retrieve ==
  /\ Calling("retrieve")
  /\ LET scope == IF call.named = {} THEN live ELSE call.named \cap live
     IN  \E fs \in SUBSET scope :
           call' = [call EXCEPT !.stage = "check", !.found = {<<f, rows[f]>> : f \in fs}]
  /\ UNCHANGED <<index, a, known>>

\* Mutant of FinishSearch: a search that finds nothing is tried again.
SearchUntilFound ==
  /\ Calling("check")
  /\ LET fs == {p[1] : p \in call.found}
     IN  IF fs = {} THEN call' = [call EXCEPT !.stage = "retrieve"] /\ UNCHANGED <<index, a, known>>
         ELSE IF fs \subseteq live
         THEN /\ Returns([Entry("search", "ok", fs) EXCEPT !.passages = call.found])
              /\ known' = known \cup fs
         ELSE Returns(Entry("none", "error", {})) /\ UNCHANGED known

\* What was found is checked again before it is shown.
FinishSearch ==
  /\ Calling("check")
  /\ LET fs == {p[1] : p \in call.found}
     IN  IF fs \subseteq live
         THEN /\ Returns([Entry("search", "ok", fs) EXCEPT !.passages = call.found])
              /\ known' = known \cup fs
         ELSE Returns(Entry("none", "error", {})) /\ UNCHANGED known

\* file_evidence in mode FULL_DOCUMENT
StartFullRead ==
  /\ Calling("idle")
  /\ \E f \in known : Validate({f}, "totals")

TheFile == CHOOSE f \in call.named : TRUE

\* What a query of full_document can see of the file.
Visible == IF TheFile \in live THEN Ends[TheFile][rows[TheFile]] ELSE <<>>

\* The first n rows with all their characters.
First(ends, n) == [rows |-> n, chars |-> IF n = 0 THEN 0 ELSE ends[n]]

Total(ends) == First(ends, Len(ends))

CountTotals ==
  /\ Calling("totals")
  /\ call' = [call EXCEPT !.stage = "rows", !.counted = Total(Visible), !.of = rows[TheFile]]
  /\ UNCHANGED <<index, a, known>>

\* The rows are taken as far as the budget goes.  The one it ends in is cut, and left
\* out if what remains of it is blank.
WithinBudget(ends) ==
  LET limit == IF Len(ends) < MaxRows THEN Len(ends) ELSE MaxRows
      whole == First(ends, Cardinality({i \in 1..limit : ends[i] <= Budget}))
  IN  {whole} \cup
      (IF whole.rows < limit /\ whole.chars < Budget
       THEN {[rows |-> whole.rows + 1, chars |-> Budget]} ELSE {})

\* Mutant of Truncated: a row that was cut counts as read.
TruncatedByRows(entry) == entry.kind = "full" /\ entry.took.rows < entry.counted.rows

Truncated(entry) ==
  /\ entry.kind = "full"
  /\ entry.took.rows < entry.counted.rows \/ entry.took.chars < entry.counted.chars

\* More rows or characters than were counted are an error.
ReadRows ==
  /\ Calling("rows")
  /\ \E took \in WithinBudget(Visible) :
       IF took.rows > call.counted.rows \/ took.chars > call.counted.chars
       THEN Returns(Entry("none", "internal", {}))
       ELSE Returns([Entry("full", "ok", call.named)
                       EXCEPT !.passages = IF took.rows = 0 THEN {} ELSE {<<TheFile, rows[TheFile]>>},
                              !.counted = call.counted, !.took = took,
                              !.of = <<call.of, rows[TheFile]>>])
  /\ UNCHANGED known

-----------------------------------------------------------------------------
(* The nodes finalize and fail_safe. *)

\* Mutant of Cited: without a marker of the model nothing is cited.
CitedOnlyMarked(sources) == SUBSET sources

\* Markers choose among the sources kept; without any, all are named as consulted.
Cited(sources) == IF sources = {} THEN {{}} ELSE (SUBSET sources) \ {{}}

Finalize ==
  /\ a.pc = "finalize"
  /\ \/ \E cites \in Cited(Evidence) :
          a' = [a EXCEPT !.pc = "adapter", !.hops = @ + 1, !.answer = "model", !.cites = cites]
     \* A handle or an id would be left in the text.
     \/ a' = [a EXCEPT !.pc = "adapter", !.hops = @ + 1, !.answer = "failure",
                       !.failure = "UNSAFE_FINAL_OUTPUT"]
  /\ UNCHANGED <<index, known, call>>

Answered == {a.messages[i].ids[1] : i \in {j \in DOMAIN a.messages : a.messages[j].role = "TOOL"}}

\* Mutant of Closing: open calls stay open.
ClosingNothing == <<>>

\* The calls of the last message that nothing answered, in their order.
Closing ==
  LET ids  == Last(a.messages).ids
      open == {k \in DOMAIN ids : ids[k] \notin Answered}
      ith(i) == CHOOSE k \in open : Cardinality({j \in open : j <= k}) = i
  IN  IF Last(a.messages).role = "ASSISTANT" THEN [i \in 1..Cardinality(open) |-> Reports(ids[ith(i)])] ELSE <<>>

FailSafe ==
  /\ a.pc = "fail_safe"
  /\ a' = [a EXCEPT !.pc = "adapter", !.hops = @ + 1,
                    !.answer = IF a.failure = "CYCLE_LIMIT" THEN "limit" ELSE "failure",
                    !.messages = Append(@ \o Closing, Says(<<>>))]
  /\ UNCHANGED <<index, known, call>>

-----------------------------------------------------------------------------
(* ToolAgentAdapter.answer *)

\* A read that found nothing does not prove that there is nothing.
Unsupported == a.failure = None /\ Evidence = {} /\ Reads # {}

Adapt ==
  /\ a.pc = "adapter"
  /\ IF \/ a.failure \notin {None, "CYCLE_LIMIT", "MESSAGE_LIMIT"}
        \/ \E i \in DOMAIN a.history : a.history[i].outcome = "internal"
     THEN Raise
     ELSE /\ a' = [a EXCEPT !.pc = "returned",
                            !.answer = IF Unsupported THEN "no_evidence" ELSE @,
                            !.notice = \E i \in DOMAIN a.history : Truncated(a.history[i])]
          /\ UNCHANGED <<index, known, call>>

\* The deadline passes in the middle of anything, or an exception leaves the graph.
Abort == a.pc \in {"agent", "tools", "finalize", "fail_safe"} /\ Raise

\* The model client does not close: the answer is lost.
CleanupFails == a.pc = "adapter" /\ Raise

RunNext ==
  \/ MessageLimit \/ StepFails \/ RepeatedId \/ Conclude \/ AskTools
  \/ Refused \/ Breaks \/ FilesQuery
  \/ StartSearch \/ Retrieve \/ FinishSearch
  \/ StartFullRead \/ CountTotals \/ ReadRows
  \/ Finalize \/ FailSafe \/ Adapt \/ Abort \/ CleanupFails

NextT == RunNext \/ IndexChanges

\* Every call returns or the deadline of the run passes.
SpecT == InitT /\ [][NextT]_tvars /\ WF_tvars(RunNext)

-----------------------------------------------------------------------------
(* Properties. *)

Over == a.pc \in {"returned", "raised"}

\* What a model provider is sent: before every step, and when the run is over, each call
\* of the transcript has exactly one result, which follows its message, in order.
EveryCallIsAnswered ==
  LET m == a.messages
  IN  a.pc \in {"agent", "finalize", "adapter", "returned"} =>
        \A i \in DOMAIN m :
          m[i].role = "ASSISTANT" =>
            /\ i + Len(m[i].ids) <= Len(m)
            /\ \A k \in DOMAIN m[i].ids : m[i + k] = Reports(m[i].ids[k])
            /\ i + Len(m[i].ids) < Len(m) => m[i + Len(m[i].ids) + 1].role # "TOOL"

\* However the model insists: no id is executed twice, what is asked for in the last step
\* is not executed, and the graph stays below the recursion limit it is given, so that a
\* run ends by its own messages.
RunsAreBounded ==
  /\ \A i, j \in DOMAIN a.history : a.history[i].id = a.history[j].id => i = j
  /\ Len(a.history) <= (MaxCycles - 1) * MaxCalls
  /\ a.hops <= 2 * MaxCycles + 4
  /\ a.pc = "agent" => a.cycles < MaxCycles

\* Handles belong to a run: the files a call names were returned to the model by an
\* earlier call of the same run, or one had failed and no answer is given.
NamedFilesWereReturned ==
  a.pc # "raised" =>
    \A i \in DOMAIN a.history :
      \/ \E j \in 1..i - 1 : a.history[j].outcome = "internal"
      \/ \A f \in a.history[i].named : \E j \in 1..i - 1 : f \in a.history[j].returned

\* The model's own words are given as an answer only if no read succeeded or some read
\* found something; then they come with citations, all of passages this run read, and
\* nothing in the run broke.
AnswersRestOnReads ==
  a.pc = "returned" /\ a.answer = "model" =>
    /\ \A i \in DOMAIN a.history : a.history[i].outcome # "internal"
    /\ a.cites \subseteq Evidence
    /\ Reads # {} => a.cites # {}

\* An answer without the notice rests on full reads that were whole, neither stopped at the
\* limit of rows nor cut by the budget of characters, unless the file was indexed anew
\* between the two queries of one.
TruncationIsTold ==
  a.pc = "returned" /\ ~a.notice =>
    \A i \in Reads :
      LET e == a.history[i]
      IN  e.kind = "full" /\ e.of[1] = e.of[2] =>
            \A f \in e.named : e.took \in {Nothing, Total(Ends[f][e.of[2]])}

\* Every run ends.
RunEnds == <>Over

=============================================================================
