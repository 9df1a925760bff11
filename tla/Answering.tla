------------------------------ MODULE Answering ------------------------------
(***************************************************************************)
(* One question answered (backend/app/services/rag_service.py, with the    *)
(* retrievers, the LangGraph path and the evaluation's trace), while the   *)
(* index it reads goes on changing: every query of a request sees what is  *)
(* committed at its moment.                                                *)
(*                                                                         *)
(* A passage <<f, g>> is what generation g of the rows of file f holds.    *)
(* The words of question and answer are left out: a question has a route,  *)
(* an answer is of a kind.  A request without a trace takes the same       *)
(* steps.                                                                  *)
(***************************************************************************)
EXTENDS Naturals, Sequences, FiniteSets, FiniteSetsExt, EvalTrace

CONSTANTS
  Files,
  MaxGen,      \* bound on the generations of a file's rows
  MaxChanges,  \* bound on the changes of the index during a request
  MaxHits,     \* bound on what one retriever finds
  MaxRewrites  \* agent_max_rewrite_attempts

ASSUME AnsweringAssumption == MaxGen \in Nat \ {0} /\ MaxRewrites \in Nat

Routes == {"history", "chitchat", "summary", "inventory", "target", "grounded"}
Sources == {"vector", "keyword", "metadata"}

VARIABLES
  status,   \* "INDEXED", "PREPARING" (any status on the way there) or "SKIPPED"
  rows,     \* the generation of each file's chunk rows
  changes,  \* changes of the index so far
  seen,     \* <<file, status, generation>> at any moment of the request
  r,        \* the request
  t,        \* its trace
  stored    \* the rows of query_history it added

index == <<status, rows, changes, seen>>
avars == <<index, r, t, stored>>

-----------------------------------------------------------------------------
(* The index, as the preparation changes it. *)

Becomes(f, s, g) ==
  /\ changes < MaxChanges /\ changes' = changes + 1
  /\ status' = [status EXCEPT ![f] = s]
  /\ rows' = [rows EXCEPT ![f] = g]
  /\ seen' = seen \cup {<<f, s, g>>}
  /\ UNCHANGED <<r, t, stored>>

\* A sync brings an edit, or finds the file gone or back.
Withdraw(f) == status[f] = "INDEXED" /\ Becomes(f, "PREPARING", rows[f])
Trash(f)    == status[f] # "SKIPPED" /\ Becomes(f, "SKIPPED", rows[f])
Restore(f)  == status[f] = "SKIPPED" /\ Becomes(f, "PREPARING", rows[f])

\* Chunking replaces the rows, a build indexes what they hold.
Rechunk(f) == status[f] = "PREPARING" /\ rows[f] < MaxGen /\ Becomes(f, "PREPARING", rows[f] + 1)
Publish(f) == status[f] = "PREPARING" /\ rows[f] > 0 /\ Becomes(f, "INDEXED", rows[f])

IndexChanges == \E f \in Files : Withdraw(f) \/ Trash(f) \/ Restore(f) \/ Rechunk(f) \/ Publish(f)

-----------------------------------------------------------------------------
(* The request.  Its fields:                                               *)
(*   pc, question ("asked" or "rewritten"), route, path                    *)
(*   files     files listed or resolved, with the status read              *)
(*   todo      files still to be looked up                                 *)
(*   src       what each retriever is doing or has found                   *)
(*   rewrites  rewrites of the retrieval query                             *)
(*   passages  what the answer is generated from                           *)
(*   answer, cites                                                         *)

Held == {p \in Files \X (1..MaxGen) : p[2] <= rows[p[1]]}

\* eligibility and is_eligible, at the moment of the query.
Eligible == {p \in Held : status[p[1]] = "INDEXED" /\ rows[p[1]] = p[2]}

Idle == [s \in Sources |-> [does |-> "nothing", found |-> {}]]

Request ==
  [pc |-> "start", question |-> "asked", route |-> None, path |-> None, files |-> {}, todo |-> {},
   src |-> Idle, rewrites |-> 0, passages |-> {}, answer |-> None, cites |-> {}]

InitA ==
  /\ status \in [Files -> {"INDEXED", "PREPARING", "SKIPPED"}]
  /\ rows = [f \in Files |-> 1]
  /\ changes = 0
  /\ seen = {<<f, status[f], rows[f]>> : f \in Files}
  /\ r = Request /\ t = NewTrace /\ stored = <<>>

Go(pc) == r' = [r EXCEPT !.pc = pc]

\* An exception leaves ask(): recorded where the request stood, then finished.
RaiseFrom(tr) ==
  /\ Go("raised")
  /\ t' = Finish(RecordError(tr, tr.stage))
  /\ UNCHANGED <<index, stored>>

Quiet == UNCHANGED <<index, stored>>

\* No question, or a history without its conversation.
Reject == r.pc = "start" /\ RaiseFrom(t)

\* A question that leans on the conversation is rewritten first.
Begin ==
  /\ r.pc = "start"
  /\ \E route \in Routes, leans \in BOOLEAN :
       r' = [r EXCEPT !.route = route,
                      !.pc = IF leans /\ route \notin {"history", "chitchat"} THEN "followup" ELSE "user"]
  /\ UNCHANGED t /\ Quiet

\* rewrite_followup: an answer it cannot use leaves the question as it is.
RewriteFollowup ==
  /\ r.pc = "followup"
  /\ \/ RaiseFrom(t)
     \/ Go("user") /\ UNCHANGED t /\ Quiet
     \/ /\ \E route \in Routes :
             r' = [r EXCEPT !.pc = "user", !.question = "rewritten", !.route = route]
        /\ t' = RecordRewrite(t, 0) /\ Quiet

\* resolve_active_user, then the route of the question as it now stands.
ResolveUser ==
  /\ r.pc = "user"
  /\ \/ RaiseFrom(SetStage(t, "user_resolution"))
     \/ /\ r' = [r EXCEPT !.pc = r.route, !.path = r.route]
        /\ t' = SetStage(t, "routing") /\ Quiet

-----------------------------------------------------------------------------
(* Answers without retrieval, and from lists of files. *)

\* An answer is there; next it is stored.
Answer(answer, cites, tr) ==
  /\ r' = [r EXCEPT !.pc = "persist", !.answer = answer, !.cites = cites]
  /\ t' = SetStage(tr, "persistence")
  /\ Quiet

\* A completion fails, or gives the answer with some of the passages cited.
Complete(answer, citable) ==
  LET tr == SetStage(t, "generation")
  IN  \/ RaiseFrom(tr)
      \/ \E cites \in SUBSET citable : Answer(answer, cites, RecordFinal(tr, answer))

RecallHistory == r.pc = "history" /\ Answer("recall", {}, RecordFinal(t, "recall"))

Chitchat == r.pc = "chitchat" /\ Complete("direct", {})

IndexedNow == {f \in Files : status[f] = "INDEXED"}
WithStatus(fs) == {<<f, status[f]>> : f \in fs}

\* FileInventoryRetriever: the matching files, then the text of the newest.
ListInventory ==
  /\ r.pc = "inventory"
  /\ \E fs \in SUBSET IndexedNow :
       r' = [r EXCEPT !.pc = "inventory_text", !.files = WithStatus(fs)]
  /\ t' = SetStage(t, "inventory_lookup") /\ Quiet

ReadInventory ==
  /\ r.pc = "inventory_text"
  /\ \/ r.files = {} /\ r' = [r EXCEPT !.pc = "inventory_answer"]
     \/ \E e \in r.files :
          r' = [r EXCEPT !.pc = "inventory_answer", !.passages = {<<e[1], rows[e[1]]>>}]
  /\ UNCHANGED t /\ Quiet

AnswerInventory == r.pc = "inventory_answer" /\ Complete("inventory", {})

\* _summarize_collection: the indexed files, then the rows of one after the other.
ListCollection ==
  /\ r.pc = "summary"
  /\ \/ RaiseFrom(SetStage(t, "collection_lookup"))
     \/ /\ r' = [r EXCEPT !.pc = "summary_rows", !.files = WithStatus(IndexedNow), !.todo = IndexedNow]
        /\ t' = SetStage(t, "collection_lookup") /\ Quiet

ReadCollection ==
  /\ r.pc = "summary_rows"
  /\ \/ \E f \in r.todo :
          r' = [r EXCEPT !.todo = @ \ {f}, !.passages = @ \cup {<<f, rows[f]>>}]
     \/ r.todo = {} /\ Go("summary_answer")
  /\ UNCHANGED t /\ Quiet

\* Without any file the fixed sentence is the answer; the trace still says answered.
AnswerCollection ==
  /\ r.pc = "summary_answer"
  /\ IF r.files = {}
     THEN Answer("no_evidence", {}, RecordFinal(SetStage(t, "generation"), "no_evidence"))
     ELSE Complete("summary", r.passages)

-----------------------------------------------------------------------------
(* A question about named files. *)

\* The names found in the question; none leaves it to retrieval.
ExtractTargets ==
  /\ r.pc = "target"
  /\ \/ Go("grounded")
     \/ \E named \in SUBSET Files : r' = [r EXCEPT !.pc = "resolve", !.todo = named]
  /\ t' = SetStage(t, "file_target_lookup") /\ Quiet

\* Mutant of ResolveTarget: a skipped file is found like any other.
ResolveTargetSkipped ==
  /\ r.pc = "resolve"
  /\ \E f \in r.todo :
       r' = [r EXCEPT !.todo = @ \ {f}, !.files = @ \cup WithStatus({f})]
  /\ UNCHANGED t /\ Quiet

\* _resolve_single_target: a skipped file does not exist.
ResolveTarget ==
  /\ r.pc = "resolve"
  /\ \E f \in r.todo :
       r' = [r EXCEPT !.todo = @ \ {f},
                      !.files = IF status[f] = "SKIPPED" THEN @ ELSE @ \cup WithStatus({f})]
  /\ UNCHANGED t /\ Quiet

\* _load_chunks_for_files asks for the status again.
LoadTarget ==
  /\ r.pc = "resolve" /\ r.todo = {}
  /\ LET ps == {p \in Eligible : <<p[1], "INDEXED">> \in r.files}
     IN  IF r.files = {}
         THEN Answer("not_found", {}, RecordAbstention(t, "FILE_NOT_FOUND", "not_found"))
         ELSE IF ps = {}
         THEN Answer("not_indexed", {}, RecordAbstention(t, "FILE_NOT_INDEXED", "not_indexed"))
         ELSE /\ r' = [r EXCEPT !.pc = "generate", !.passages = ps]
              /\ UNCHANGED t /\ Quiet

-----------------------------------------------------------------------------
(* Retrieval: the planned retrievers run concurrently. *)

\* build_retrieval_plan, over all intents.
Plans == {{"metadata", "keyword"}, {"keyword", "vector"}, Sources, {"metadata"}}

Searching(plan) == [s \in Sources |-> [does |-> IF s \in plan THEN "search" ELSE "nothing", found |-> {}]]

StartRetrieval ==
  /\ r.pc = "grounded"
  /\ \E path \in {"langgraph", "hybrid", "vector"} :
       \E plan \in (CASE path = "langgraph" -> Plans
                      [] path = "hybrid"    -> {Sources}
                      [] path = "vector"    -> {{"vector"}}) :
         r' = [r EXCEPT !.pc = "retrieve", !.path = path, !.src = Searching(plan)]
  /\ t' = BeginAttempt(SetStage(t, "retrieval"), 1) /\ Quiet

Few(S) == {H \in SUBSET S : Cardinality(H) <= MaxHits}

Source(s, does, found) == r' = [r EXCEPT !.src[s] = [does |-> does, found |-> found]]

\* Qdrant may hold points of rows long replaced.
SearchVector ==
  /\ r.src["vector"].does = "search"
  /\ \E H \in Few(Held) : Source("vector", "load", H)
  /\ UNCHANGED t /\ Quiet

\* Keyword search collects ids of eligible rows and loads them by a second query.
SearchKeyword ==
  /\ r.src["keyword"].does = "search"
  /\ \E H \in Few(Eligible) : Source("keyword", "load", H)
  /\ UNCHANGED t /\ Quiet

\* Metadata search finds and loads by one query.
SearchMetadata ==
  /\ r.src["metadata"].does = "search"
  /\ \E H \in Few(Eligible) : Source("metadata", "done", H)
  /\ UNCHANGED t /\ Quiet

\* Mutant of Load: the rows are loaded by their ids alone.
LoadById(s) ==
  /\ r.src[s].does = "load"
  /\ Source(s, "done", {p \in r.src[s].found : rows[p[1]] = p[2]})
  /\ UNCHANGED t /\ Quiet

\* _load_chunks: what is no longer eligible is dropped.
Load(s) ==
  /\ r.src[s].does = "load"
  /\ Source(s, "done", r.src[s].found \cap Eligible)
  /\ UNCHANGED t /\ Quiet

\* Mutant of SourceFails: a failed retriever is left out of the gathering.
SourceFailsSilently(s) ==
  /\ r.src[s].does \in {"search", "load"}
  /\ Source(s, "failed", {})
  /\ t' = RecordError(t, "retrieval")
  /\ Quiet

\* The first failure ends the gathering and the request; the other retrievers run
\* on, and theirs are recorded too.
SourceFails(s) ==
  /\ r.src[s].does \in {"search", "load"}
  /\ r' = [r EXCEPT !.pc = "raised", !.src[s] = [does |-> "failed", found |-> {}]]
  /\ t' = IF r.pc = "retrieve"
          THEN Finish(FinishAttempt(RecordError(t, "retrieval"), r.rewrites + 1))
          ELSE RecordError(t, "retrieval")
  /\ Quiet

Retrievers ==
  \/ SearchVector \/ SearchKeyword \/ SearchMetadata
  \/ \E s \in Sources : Load(s) \/ SourceFails(s)

AllFound == UNION {r.src[s].found : s \in Sources}

Gathering == r.pc = "retrieve" /\ \A s \in Sources : r.src[s].does \in {"nothing", "done"}

\* Without hybrid retrieval what vector search found is taken as it is.
TakeVector ==
  /\ Gathering /\ r.path = "vector"
  /\ r' = [r EXCEPT !.passages = AllFound, !.pc = IF AllFound = {} THEN "abstain" ELSE "generate"]
  /\ t' = FinishAttempt(t, 1) /\ Quiet

ShouldRewrite == r.path = "langgraph" /\ r.rewrites < MaxRewrites

\* Merged, reranked, cut and graded: all or nothing is kept.
Grade ==
  /\ Gathering /\ r.path # "vector"
  /\ \E sufficient \in {AllFound # {}, FALSE} :
       /\ t' = FinishAttempt(RecordEvidence(SetStage(t, "evidence_grading"), r.rewrites + 1,
                                            AllFound # {}, sufficient), r.rewrites + 1)
       /\ \/ /\ sufficient
             /\ \E top \in SUBSET AllFound \ {{}} :
                  r' = [r EXCEPT !.pc = "generate", !.passages = top]
          \/ /\ ~sufficient
             /\ Go(IF ShouldRewrite THEN "rewrite" ELSE "abstain")
  /\ Quiet

\* Mutant of RewriteQuery: the attempt after a rewrite takes the number of the one before.
RewriteSameAttempt ==
  /\ r.pc = "rewrite"
  /\ LET n == r.rewrites + 1
     IN  /\ r' = [r EXCEPT !.pc = "retrieve", !.rewrites = n,
                           !.src = Searching({s \in Sources : r.src[s].does # "nothing"})]
         /\ t' = BeginAttempt(SetStage(RecordRewrite(t, n), "retrieval"), n)
  /\ Quiet

\* The next attempt retrieves by the new query, or by a fixed rewording when the
\* completion failed.
RewriteQuery ==
  /\ r.pc = "rewrite"
  /\ LET n == r.rewrites + 1
     IN  /\ r' = [r EXCEPT !.pc = "retrieve", !.rewrites = n,
                           !.src = Searching({s \in Sources : r.src[s].does # "nothing"})]
         /\ t' = BeginAttempt(SetStage(RecordRewrite(t, n), "retrieval"), n + 1)
  /\ Quiet

\* A reply that is JSON but no object raises.
RewriteRaises == r.pc = "rewrite" /\ RaiseFrom(SetStage(t, "query_rewrite"))

\* Mutant of Rejected: both look at the first attempt.
RejectedByFirst == r.path # "vector" /\ t.attempts[1].reranked

\* Nothing to answer from: the linear path looks at the first attempt, the graph at
\* the last.
Rejected ==
  \/ r.path = "hybrid" /\ t.attempts[1].reranked
  \/ r.path = "langgraph" /\ t.attempts[Len(t.attempts)].reranked
                          /\ t.attempts[Len(t.attempts)].sufficient = "no"

Abstain ==
  /\ r.pc = "abstain"
  /\ Answer("no_evidence", {},
            RecordAbstention(t, IF Rejected THEN "EVIDENCE_REJECTED" ELSE "NO_RETRIEVAL_EVIDENCE",
                             "no_evidence"))

Generate == r.pc = "generate" /\ Complete("found", r.passages)

-----------------------------------------------------------------------------
(* The end. *)

\* The graph hands back the question it was given; the other paths keep the one asked.
Kept == IF r.path = "langgraph" THEN r.question ELSE "asked"

\* Mutant of Row: the question as it was rewritten is stored.
RowAsRewritten == [question |-> r.question, answer |-> r.answer, cites |-> r.cites]

Row == [question |-> Kept, answer |-> r.answer, cites |-> r.cites]

\* _persist_query_history: not in demo mode; the commit may fail, or the refresh
\* after it.
Persist ==
  /\ r.pc = "persist"
  /\ \/ Go("returned") /\ t' = Finish(t) /\ Quiet
     \/ RaiseFrom(t)
     \/ Go("returned") /\ t' = Finish(t) /\ stored' = Append(stored, Row) /\ UNCHANGED index
     \/ /\ Go("raised") /\ t' = Finish(RecordError(t, t.stage))
        /\ stored' = Append(stored, Row) /\ UNCHANGED index

\* Any query may fail.
QueryFails ==
  /\ r.pc \in {"inventory", "inventory_text", "summary_rows", "resolve"}
  /\ RaiseFrom(t)

RequestNext ==
  \/ Reject \/ Begin \/ RewriteFollowup \/ ResolveUser \/ RecallHistory \/ Chitchat
  \/ ListInventory \/ ReadInventory \/ AnswerInventory
  \/ ListCollection \/ ReadCollection \/ AnswerCollection
  \/ ExtractTargets \/ ResolveTarget \/ LoadTarget
  \/ StartRetrieval \/ Retrievers \/ TakeVector \/ Grade \/ RewriteQuery \/ RewriteRaises \/ Abstain \/ Generate
  \/ Persist \/ QueryFails

NextA == RequestNext \/ IndexChanges

\* Every call of the request returns or fails (the clients have timeouts).
SpecA == InitA /\ [][NextA]_avars /\ WF_avars(RequestNext)

-----------------------------------------------------------------------------
(* Properties. *)

Ended == r.pc \in {"returned", "raised"}

\* Whatever the index does meanwhile, a cited passage was the current text of an INDEXED
\* file at some moment of the request, although its id came from an earlier query or a
\* stale point; a summary promises less: its file was INDEXED at some moment.
CitesWereServed ==
  \A p \in r.cites :
    IF r.path = "summary"
    THEN \E g \in 0..MaxGen : <<p[1], "INDEXED", g>> \in seen
    ELSE <<p[1], "INDEXED", p[2]>> \in seen

\* "It is still being prepared": each file the answer names existed, and was not
\* INDEXED, at some moment of the request.
NotIndexedIsTrue ==
  r.answer = "not_indexed" =>
    \A e \in r.files : /\ \E x \in seen : x[1] = e[1] /\ x[2] # "INDEXED"
                       /\ \E x \in seen : x[1] = e[1] /\ x[2] # "SKIPPED"

\* What the evaluation reads of the outcome of a finished request: FAILED exactly for one that raised,
\* with the first error, wherever else its retrievers fail later; an abstention exactly
\* for a fixed answer of retrieval or lookup, with its reason.
OutcomeIsTold ==
  Ended =>
    /\ t.finished
    /\ r.pc = "raised" <=> t.outcome = "FAILED"
    /\ r.pc = "raised" <=> t.error # None
    /\ r.pc = "returned" =>
         /\ t.final = r.answer
         /\ t.outcome = "ABSTAINED"
              <=> r.answer \in {"not_indexed", "not_found", "no_evidence"} /\ r.path # "summary"
         /\ t.reason = "EVIDENCE_REJECTED" => t.attempts[Len(t.attempts)].sufficient = "no" /\ AllFound # {}
         /\ t.reason = "NO_RETRIEVAL_EVIDENCE" => AllFound = {}

\* The attempts of a finished request are numbered in order, closed once each, no more
\* than the rewrites allow, and every one but the last was followed by its rewrite; a
\* rewrite of the question itself comes before them.
AttemptsAreAccounted ==
  /\ Len(t.attempts) <= MaxRewrites + 1
  /\ \A i \in DOMAIN t.attempts : t.attempts[i].number = i
  /\ Ended => \A i \in DOMAIN t.attempts : ~t.attempts[i].open
  /\ LET first == IF r.question = "rewritten" THEN 1 ELSE 0
     IN  /\ \A i \in DOMAIN t.rewrites : t.rewrites[i] = i - first
         /\ t.attempts # <<>> => Len(t.rewrites) = Len(t.attempts) - 1 + first

\* The trace of a request tells its outcome and its attempts as they were.
TraceTellsTheTruth == OutcomeIsTold /\ AttemptsAreAccounted

\* The user's history shows what was answered: one row at most, with the answer that was
\* given; outside the graph under the question as it was asked; for a request that failed
\* only if it failed after the commit.
HistoryIsTheAnswer ==
  stored # <<>> =>
    /\ Len(stored) = 1 /\ stored[1].answer = t.final /\ stored[1].cites = r.cites
    /\ r.path # "langgraph" => stored[1].question = "asked"
    /\ r.pc = "raised" => t.error = "persistence"

\* Every request returns or fails, however its retrievers fail and its query is rewritten.
RequestEnds == <>Ended

=============================================================================
