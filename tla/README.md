# DriveMind AI: specifications, model checking and proofs

DriveMind AI answers questions about the files of a Google Drive account.  A
FastAPI backend copies file metadata from Drive, extracts and splits texts,
embeds the pieces into Qdrant and answers from them; a Next.js frontend drives
the preparation and holds the conversations.  The modules here specify both
halves: how what is in Drive becomes what is in the index, under edits, failures
and restarts; how a question is answered from an index that goes on changing, by
the fixed routes and by the tool agent; and the parts around them that keep
state of their own, in the browser, at login, at admission and in the evaluation.

## 1. The system

Paths are relative to `src/`; `app/` stands for `backend/app/`, `web/` for
`frontend/`.

| Component | State | Operations | Correct when |
|---|---|---|---|
| Metadata sync `app/services/drive_sync_service.py` | `drive_files` rows, `drive_sync_states.changes_page_token`, its job row | full scan, incremental sync, reconcile missing files, pending counts | no change of Drive is lost behind the cursor; a new version leaves the index; repeated syncs converge |
| Ingestion `app/services/ingestion_service.py`, `drive_content_service.py` | `documents`, file status | fast path, download (with a commit), extract, persist | a document counts as current only if it is; a failed file touches no other |
| Chunking `app/services/chunking_service.py` | `chunks` | replace a document's rows | rows come from the current document |
| Text splitting `app/ingestion/chunking.py` | none | `chunk_text` | terminates, loses no text, bounded pieces |
| Index build `app/services/indexing_service.py` | Qdrant points, file status | chunk, prune, embed, upsert, mark | an INDEXED file's document, rows and points agree |
| Vector store `app/embeddings/vector_store.py` | Qdrant points | upsert, delete, hashes, search | stale points are gone before a file is marked |
| Background jobs `app/api/index.py`, `app/main.py` | `indexing_jobs` | start, finish, fail, clean up at startup | every RUNNING row is settled |
| Preparation flow `web/lib/knowledge/prepare.ts`, `web/lib/api/indexing.ts` | step states, counts in hand, warning | scan, read, search, ready; polls with deadlines | ends; ready means nothing is left behind |
| Single-file preparation `web/lib/knowledge/prepare-file.ts` | none | ingest, chunk and build one file | as above |
| RAG service `app/services/rag_service.py` | `query_history` | follow-up rewriting, routes, retrieval, answer, history row | cites what was served; the history is the answer; ends |
| Retrieval `app/retrieval` | none | vector, keyword, metadata search, targets, inventory, summaries | only INDEXED files of the user are used; fusion and grading do not drop good evidence |
| Drive graph agent `app/agents/drive_graph` | attempts, rewrites | plan, retrieve concurrently, grade, rewrite, answer | rewriting is bounded; a failure ends the request once |
| Prompts and citations `app/llm/prompts.py`, `openai_service.py` | none | select passages, check and renumber markers | prompts fit; a marker leads to the passage the model saw |
| Tool agent `app/agents/tool_rag`, `app/services/tool_agent_service.py` | messages, tool history, cycle count, handles | model step, execute tools, finalise, fail safe | bounded; no call executed twice; answers rest on what was read |
| Evaluation trace `app/evaluation/trace.py` | one trace per question | record stages, attempts, rewrites, outcome | tells what happened |
| Baseline runner `backend/evaluation/runner.py` | result files, temporary files | preflight, cases, publish | a result measures what its manifest lists, and stays |
| Agent smoke runner `backend/evaluation/agent_smoke_runner.py` | freezes, ledger | freeze, execute, resume | no case is paid for twice |
| OAuth `app/services/google_oauth_service.py` | pending states, tokens | authorise, callback, clean up | a state lasts as long as its login may succeed |
| Demo admission `app/core/public_safety.py`, `app/api/dependencies.py` | admission times, active count | read body, check index, admit, release | limits hold at their boundary; nobody is refused without need |
| Conversations `web/lib/conversations`, `web/components/chat/chat-interface.tsx` | local storage, what each tab shows, requests | open, ask, regenerate, settle, recover, delete | an answer reaches its own question; nothing stays blocked |
| Status hooks `web/lib/hooks` | last responses | poll, load, refresh | a stale response is dropped |
| Drive client, extractors, embedding and chat clients, intent routing, conversation history, demo corpus, schema, views | | | not specified, see section 6 |

How they interact.  The frontend posts a job (`/index/sync`, `/ingest`,
`/chunk`, `/build`), a FastAPI background task runs it in one database session,
and the frontend polls the latest `indexing_jobs` row.  The jobs communicate
only through rows (`drive_files.status`, `documents`, `chunks`) and Qdrant
points; retrieval and the tools of the agent read rows and points of INDEXED
files, in several queries per question.  Tabs share localStorage and nothing
else.  The admission, the login, the hooks and the two evaluation scripts share
no state with each other.

What is hard here.  Qdrant is in no transaction.  One commit in the middle of a
batch (`drive_content_service.py:151`) makes everything staged so far durable.
Every exception handler commits as well.  The owner edits at any moment.  The
process may die between any two steps.  The frontend gives up on a poll while
the job runs on.  Every query of a request sees the index as committed at its
moment.  Responses overtake each other in the browser, and answers arrive in
conversations that were left, deleted or answered again.  `PROJECT.json` lists
forty such hazards at their lines, with the properties that would catch them.

## 2. Modules

| Module | Specifies |
|---|---|
| `DriveSync` | metadata sync against a Drive that changes under it |
| `IndexPipeline` | sync, ingest, chunk and build as jobs over one store, with faults |
| `ServedIndex` | abstractly, what the pipeline promises to retrieval; `IndexPipeline` implements it |
| `PrepareKnowledge` | the frontend's flow, EXTENDS `IndexPipeline` and drives its jobs |
| `Chunking` | `chunk_text` over every normalised text |
| `Evidence` | fusion, reranking, grading, prompt selection, summaries, citations |
| `Answering` | one request on every route over a changing index; EXTENDS `EvalTrace` |
| `EvalTrace` | the trace collector, as operators on a record |
| `ToolAgent` | one run of the tool agent over a changing index |
| `Conversations` | browser tabs that share the stored conversations |
| `StatusHook`, `Admission`, `OAuthLogin`, `EvalBaseline`, `EvalSmoke` | one small part each |
| `MC...` | model values, symmetry; `MCTextAlgorithms` and `MCServices` put parts that share nothing side by side, of which a behaviour runs one |
| `...Proofs` | theorems about the module of that name; `TextProofs` about `Chunking` and `Evidence`; `ServiceProofs` about `StatusHook`, `Admission`, `OAuthLogin`, `EvalBaseline` and `EvalSmoke` |

A definition whose comment begins with "Mutant of" is a plausible bug in the
definition it names.  No specification uses it; with it in place of the
original, the run named in `PROJECT.json` finds the property violated.

### DriveSync

`drive`, `changedAt` and `head` are Google's side: each file's liveness and
metadata version, the number of its last change, and the number of the last
change of all.  A page token is such a number.  `db` holds the committed rows
and cursor, `tx` what the running session sees, `job` the local variables of
`sync_metadata`, `jobRow` the status of its job row.

| Action | Code |
|---|---|
| `StartFull`, `StartIncremental` | the mode choice and the job row's commit in `sync_metadata` |
| `GetStartPageToken` | the token taken before the listing in `_run_full_sync` |
| `ListFile`, `ListMiss` | `iter_files`, page by page, and `_apply_metadata` |
| `Reconcile` | `_reconcile_missing_files` |
| `ChangesPage` | `list_changes` and the loop of `_run_incremental_sync` |
| `Save` | `_save_sync_state` and the commit of success |
| `ListError`, `ApplyError` | the two `except` clauses; the second keeps staged rows |
| `DbError`, `Crash`, `Restart` | a lost session; a dead process; `_cleanup_stuck_jobs` |
| `Change`, `Pipeline` | the owner; the other jobs' changes of status |

The code reads all pages and then stages rows; here a row is staged as its file
is read.  Nobody reads staged rows before the commit, and a failed listing drops
them.  Rows a failed staging keeps (`ApplyError`) are, in both, some of the files
read.  A listing that is read while files change may miss a changed file
(`ListMiss`), never an unchanged one.

### IndexPipeline

`db` and `tx` are records with, for every file, its status, `modified_at`,
document and chunk set; `points` is Qdrant.  A text is a member of `Texts`, its
hash is the text itself.  One edit is one tick of `now`; `updated_at` is the
tick at which a document was written, so `doc.at >= mod` is the comparison of
`_is_document_current`.  A set of chunk rows is one record with one id: the code
creates and deletes a document's rows as a whole, and every row has a UUID of its
own, so one id stands for the set; `Parts` keeps their points apart, because
they are upserted in batches and a crash may come between two of them.

| Action | Code |
|---|---|
| `SyncStart`, `SyncFile` | sync, with any set of files (which set is `DriveSync`'s question) |
| `IngestStart` | `_list_ingestible_files`, or one requested file |
| `IngestSkip`, `IngestCurrent` | the SKIPPED check and the fast path of `_ingest_single_file` |
| `IngestFetch`, `Download` | status INDEXING, then `fetch_file_content` and its commit |
| `ExtractBlank`, `ExtractSame`, `ExtractNew`, `IngestFail` | the four outcomes after it |
| `ChunkStart`, `ChunkFile` | `chunk_documents`, `_replace_chunks` |
| `BuildStart`, `BuildChunk`, `BuildPrune`, `UpsertBatch`, `MarkIndexed`, `BuildFail` | `_index_document` and `_index_document_safe` |
| `Finish`, `JobError`, `DbError` | the last commit; the handler's commit; a session that cannot commit |
| `Crash`, `Restart` | a dead process; `lifespan` with `_cleanup_stuck_jobs` |
| `Edit`, `TrashOrRestore` | the owner |

### PrepareKnowledge

`ui` is the state of one run of `prepareKnowledge`: where it stands, the counts
it holds, whether it carries a warning, and whether it left early.  Every action
of the flow is one branch of that function; a poll is a guard on `jobRow`, its
deadline is `Timeout`, and a failed request for counts is what the code's
`catch` puts in their place.

Which clicks `runPrepare` takes depends on the status the page holds, not on the
server's: the view asks for it when it is loaded and when a preparation succeeds
(`pollIntervalMs: 0`), and the `catch` of a failed one does not.  `ui.free` is
that status: `Look` fetches it (free unless the latest row is RUNNING or the
server is down), and `Click` only asks whether it is free and no preparation runs
in the page.  `POST /index/sync` does not look for running jobs either.  So a click
either starts its job alone (`ClickAtRest`), or beside the one of an earlier
preparation whose poll gave up (`ClickBeside`), or fails as the server is down
(`ClickFails`); and a page that is loaded while a lost job's row says RUNNING takes
no click until the server is restarted.

| Action | Code |
|---|---|
| `Look` | the status of `useKnowledgeStatus`, when the page is loaded or refreshed |
| `Click`, with `ClickAtRest` or `ClickBeside`; `ClickFails` | `runPrepare` and `POST /index/sync` |
| `ScanDone`, `Read`, `ReadDone`, `ReadFailed`, `Search`, `ChunkDone`, `BuildDone` | the branches of `prepareKnowledge` |
| `StepFailed`, `StartFailed`, `Timeout` | `runStep`'s error, and the deadline of `pollUntilJobDone` |
| `ServerP`, `Beside` | a step of the latest job or of the server; a step of the older job |

Two jobs side by side are two sessions.  `tx`, `job` and `jobRow` belong to the
latest one, which is the one a poll looks at; `Older` is `IndexPipeline` with the
older one's, and its steps are `Beside`.  What one of them commits the other reads
from its next query on, except in rows it has written itself (`Rebased`).
`overlapped` is history: it says that a click has met a running job, and the
properties that rest on one job at a time are stated up to then.


### Chunking

One step takes one chunk: `LastChunk` when the rest fits the window, `SplitChunk`
at the break `chunk_text` prefers.  A character is a letter, a full stop, a space
or a newline, which is all the code looks at.

### Evidence

`lists` is what the three retrievers return: vector and metadata search the
better hit first, keyword search its hits in any order, since for a plain question
`keyword.py` merges several paths without sorting (`SortedByScore`).  `Merge`, `Rerank` and `Grade` are
`merge.py`, `rerank.py` and `grade.py`; `Select` is `select_passages`, `Gather`
what `_summarize_collection` puts together; `Draft` is any set of markers a model
may write, `Cite` the check and the renumbering of `openai_service.py`.  Ranks,
scores and weights are integers over a common denominator, so that comparisons
are exact where the code's floats round.

### Answering

`r` is the request, `t` its trace, `status` and `rows` the index, `seen` all that
the index was during the request.  Each query is an action of its own: listing
the files and reading a file's chunks (`ListCollection`, `ReadCollection`,
`ListInventory`, `ReadInventory`), recognising a question's files and using
their status (`ExtractTargets`, `ResolveTarget`, `LoadTarget`), and for each of
the three retrievers, which run concurrently in the graph, the search and the
loading of the rows found (`SearchVector`, `Load`).  `SourceFails` and
`SourceFailsSilently` are a retriever's two ways to fail, `QueryFails` and
`RewriteRaises` those of the rest; `Persist` is the history row with its commit
and refresh.  The index changes between any two of them.

### ToolAgent

`a` is `AgentState`: the messages, the tool history, the cycle count, the
failure.  `AskTools`, `AskToolsAtLimit` and `Conclude` are a model step, with
ids the model chooses, repeated ones included (`RepeatedId`); a call is executed
in the steps of the executor (`StartSearch`, `Retrieve`, `FinishSearch`;
`StartFullRead`, `CountTotals`, `ReadRows`; `FilesQuery`), each one query.  `Abort` is
the deadline or a cancellation, wherever it falls; `FailSafe` and `Adapt` are the
safe ending and the adapter.

A file's rows are given by where each of them ends, in characters (`Ends`).  A full
read stops at the row limit or at the character budget (`WithinBudget`); the row in
which the budget ends is cut, and left out if what is left of it is blank.
`Truncated` compares rows and characters with the totals of the query before.

### Conversations

`store` is localStorage, `tab` what a tab shows and the turns it waits for
(`livePendingTurns`), `requests` the questions under way.  Handlers that touch
localStorage are synchronous and JavaScript runs one at a time in a tab, so each
handler up to its first `await` is one action: `Submit`, `Again` (regenerate or
retry), `AutoSend` (a question in the address), `Respond`, `Load` with its
recovery of interrupted turns, `Delete`, `Rename`, `Start`, `Close`.  Several tabs
interleave between handlers.

### The parts of MCServices

- `StatusHook`: `Connection(r)`, `FilesArrive(id)` and `FilesFail(id)` are
  responses in any order; `held` is a preparation that ends with the refresh of
  the render it started in.
- `Admission`: a question's body, the check of the index (whose outcome is a free
  choice), `Enter` and `Leave`, over a clock.
- `OAuthLogin`: a callback is one transaction in the steps `FindState`,
  `DeleteState`, `Exchange`, `CleanUp`, `Commit`; every failure rolls back.
- `EvalBaseline`: the preflight compares rows and vectors of each file in two
  steps; `WriteTemporary`, `Link` and `RemoveTemporary` publish.
- `EvalSmoke`: a record is saved before and after each paid call; a run may end
  anywhere (`EndSmoke`) and be started again.  The sources are hashed as they
  were loaded.

## 3. Runs

All bounds are constants in the `.cfg` files.

| Run | Checks | Bounds and why they are enough |
|---|---|---|
| `Sync` | `TypeOK`, `NoLostChange`, `CursorOnlyAdvancesOnSuccess`, `NewVersionIsNotServed`, `Converges` | two files on different pages, two changes, all faults: a change before, within or after a listing |
| `Pipeline` | `IndexedIsCoherent`, `SkippedComesBackBySync`, `JobSettles`, `ServesWholeTexts` | one file of two chunks, two texts and a blank one, two edits, all faults: old text, new text and a half-upserted third set |
| `PrepareSafety` | `EarlyMeansSettled`, `ReadyMeansSettled`, `FreshUnlessDisturbed` | two files, an edit at any moment, timeouts: one file can fail or be discovered while the other goes on; `MaxOverlap` is 0, as the properties speak of what comes before jobs run side by side |
| `PrepareLiveness` | `FlowEnds`, `DiscoveredGetsSettled` | one file, one edit, all faults and interruptions, and two steps of the server after a click that found a job running (`MaxOverlap`): the new job or the old one moves, fails or dies while the flow polls; no symmetry, as these are liveness properties |
| `TextAlgorithms` | `NoTextIsLost`, `EveryChunkAddsText`, `ChunkingEnds`, `BetterEverywhereComesFirst`, `RejectedEvidenceWasOvertaken`, `PromptsFit`, `MarkersKeepTheirPassage` | texts of up to six characters, every size and overlap, so that every kind of break falls inside, at the edge of and outside a window; lists of up to two of three chunks in two files, in every order for keyword search; a question that names at most one file (`NamedMax`); budgets cut so close that one separator decides |
| `Answering` | `CitesWereServed`, `NotIndexedIsTrue`, `TraceTellsTheTruth`, `HistoryIsTheAnswer`, `RequestEnds` | two files, two changes of the index during the request, one rewrite: a row can be replaced and published between two queries, and a second attempt follows a first |
| `ToolAgent` | `EveryCallIsAnswered`, `RunsAreBounded`, `NamedFilesWereReturned`, `AnswersRestOnReads`, `TruncationIsTold`, `RunEnds` | two files, three steps of two calls, one change of the index; a full read takes two of up to three rows (`MaxRows`) and three characters (`Budget`); of each file a generation that fits and one that does not, cut in a row for one file and at the row limit for the other |
| `Conversations` | `StoredTurnsBelong`, `OneQuestionAtATime`, `LoadingUnblocks` | two tabs, two conversations, three questions: one under way, one that overtakes it, one that follows a deletion |
| `Services` | `StatusIsTheNewest`, `AdmissionIsExact`, `StatesLastAsLongAsLogins`, `BaselinesAreSound`, `NoCaseIsPaidTwice` | each part with the least instance that meets its limit twice: three questions for two places, three callbacks for two logins, two baselines in one second over one gold file, three smoke runs of one case on two ledgers |

What they show.  A sync can fail anywhere and lose nothing, because the token is
taken before the listing and stored with the rows.  A crash anywhere in the
pipeline never leaves an INDEXED file half replaced: the status is the last
thing a build writes, and a file leaves INDEXED before its document or its
points change.  The second half is not written anywhere in the code; it holds
because ingest takes only files that are not INDEXED, except for an explicit
request, where `IngestFetch` sets INDEXING and `Download` commits it before the
document changes.  Hence the refinement: searches find a whole text or nothing,
and never see one text swapped for another.  A flow that ends as ready without a
warning has left nothing behind, if no click of its page found a job still running
and no crash hid a file (below).

A cited passage was current text of an INDEXED file at some moment of its
request, although ids, rows and statuses come from different queries; a
collection summary promises less, since it reads a file's chunks without asking
for its status again.  The trace and the history row tell what happened,
also when one of three concurrent retrievers fails while the others go on.  On
the LangGraph route the history holds the rewritten question
(`rag_service.py:494`), so `HistoryIsTheAnswer` speaks of the asked one elsewhere
only.  A run of the tool agent is bounded whatever the model asks for, its
transcript is one a provider accepts, and its answers rest on what this run
read, with a notice whenever a row or a character of a file was left out.

`OneQuestionAtATime` excludes the conversations in `stolen`: a tab that loads a
conversation interrupts a turn another tab is still waiting for, and the user may
then ask again.  `BaselinesAreSound` promises that a result measures its manifest
only for runs during which the index did not change: the runner does not notice
a change after its preflight.

`ChunkIds` bounds nothing the code has: an id that no row and no point holds may
be taken again, and an instance with too few ids would only block chunking.
Three ids suffice for one file (committed rows, staged rows, points of a former
build).  Symmetry is used in `PrepareSafety`, `Conversations` and `Services`,
whose properties are invariants and action properties.  `CHECK_DEADLOCK FALSE`
stands where a system ends: a request, a run, a text, or the bounded supply of
questions, requests and runs.

### Disagreements

Three texts of the repository say more than the code does.  Each run below finds a
counterexample to one of them.

| Run | Property | What happens |
|---|---|---|
| `EditDuringIngest` | `CurrentMeansFresh` | The owner edits between download and write.  `updated_at` is the time of the write, so `_is_document_current` ("still fresh") accepts the old text.  A later sync sends the file back, and the fast path skips the download: the old text stays until the next edit. |
| `EditWhileWaiting` | `IndexedIsFresh` | A poll times out and the file waits in INDEXING with its document.  The owner edits; sync resets INDEXED files only, so the next preparation builds the old text. |
| `CrashHidesFile` | `NothingPendingMeansIndexed` | A crash after the first download's commit leaves INDEXING without a document.  No pending count includes it, so the flow says everything is indexed (`prepare.ts:106`). |

The same commit with an older document at hand gives a second way to violate
`IndexedIsFresh`: edit, sync, download, crash, restart; the next preparation
builds the old document.  Give `EditWhileWaiting.cfg` `Faults = {"crash"}` and no
`Interruptions` to see it.

`NothingPendingMeansIndexed` needs no fault either.  Give `CrashHidesFile.cfg`
`Faults = {}`, `Interruptions = {"timeout"}` and `MaxOverlap = 10`: the poll of a
first ingest gives up, the owner clicks again, the new sync ends while the old
ingest has committed its download and not yet the document, the counts are all
zero, and the new preparation says that everything is indexed.
`EarlyMeansSettled` is what is left without faults: the same, as long as no click
found a job running.  If polls never gave up, no click would
(`PatientPreparationsDoNotOverlap`).

`FreshUnlessDisturbed` states when a file does hold its latest synced text: if it
was never edited during a preparation nor while it waited for one.  It needs runs
without crashes, and one job at a time: two first ingests side by side both find no
document and add one each, of which a later edit replaces the latest only.

## 4. Fairness

- `DriveSync!FairSpec`: the event loop runs a started sync on (`Progress`), an
  operator restarts a dead server (`Restart`), and the owner asks for syncs again
  and again.  Which mode is asked for is left open: convergence holds for full
  and incremental syncs in any mix, once failures cease.
- `IndexPipeline!FairSpec`: a started job runs on, a dead server is restarted.
- `PrepareKnowledge!FairSpecP`: the above, the page's code runs on (a poll that
  never sees its job end meets its deadline), and the owner keeps clicking, or looks
  again at a page that takes no click.  `DiscoveredGetsSettled` excepts what this
  cannot help: a page blocked by a row that stays RUNNING while the server is up
  (`Blocked`), a file a fault has hidden, and behaviours in which jobs overlapped.
- `Answering!SpecA`, `ToolAgent!SpecT`: the event loop runs the request; every
  query and every model call returns or raises, as their clients have timeouts.
- `Chunking!FairSpecC`: a loop runs on.

No fairness is assumed of the owner's edits, of faults, of changes of the index or
of timeouts; polling and timeouts share one condition, so a poll may always
expire.  `Conversations` and the parts of `MCServices` need none.

## 5. Proofs

Proved with TLAPS for all values of the constants that satisfy the modules'
assumptions (bounds are naturals, the fault sets are what they are, `Blank` is a
text, `NoId` is no chunk id; sizes, steps, calls and generations are positive where
the code counts from one).  Four theorems about `PrepareKnowledge` and two about
`Evidence` have hypotheses of their own, named in the table and explained below;
the instances of `PrepareSafety` and `TextAlgorithms` satisfy those they check.
Every invariant and every action property of the passing runs is stated by a
theorem.

| Theorem | Statement |
|---|---|
| `DriveSyncProofs!TypeCorrect` | `Spec => []TypeOK` |
| `DriveSyncProofs!NoChangeIsLost` | `Spec => []NoLostChange` |
| `DriveSyncProofs!CursorIsSafe` | `Spec => CursorOnlyAdvancesOnSuccess` |
| `DriveSyncProofs!NewVersionsAreNotServed` | `Spec => NewVersionIsNotServed` |
| `IndexPipelineProofs!TypeCorrect` | `Spec => []TypeOK` |
| `IndexPipelineProofs!IndexedFilesAreCoherent` | `Spec => []IndexedIsCoherent` |
| `IndexPipelineProofs!SkippedFilesStayAside` | `Spec => SkippedComesBackBySync` |
| `IndexPipelineProofs!PipelineServesWholeTexts` | `Spec => ServesWholeTexts`, the refinement of `ServedIndex` |
| `TextProofs!ChunkingIsTyped` | `SpecC => []TypeOKC` |
| `TextProofs!ChunksCoverTheText` | `SpecC => []NoTextIsLost` |
| `TextProofs!ChunksFit` | `SpecC => []ChunksFitTarget` |
| `TextProofs!ChunksAddText` | `SpecC => []EveryChunkAddsText` |
| `TextProofs!BetterChunksComeFirst` | `SpecE => []BetterEverywhereComesFirst` |
| `TextProofs!OnlyANamedFileOvertakes` | `SearchOutweighsMetadata`: `SpecE => []RejectedEvidenceWasOvertaken` |
| `TextProofs!PromptsStayWithinBudget` | `HeadersFit`: `SpecE => PromptsFit` |
| `TextProofs!MarkersLeadToTheirPassage` | `SpecE => MarkersKeepTheirPassage` |
| `ServiceProofs!NewestStatusIsShown` | `SpecH => []StatusIsTheNewest` |
| `ServiceProofs!DemoAdmitsWithinItsLimits` | `SpecM => AdmissionIsExact` |
| `ServiceProofs!StatesAreKept` | `SpecL => StatesLastAsLongAsLogins` |
| `ServiceProofs!BaselinesCanBeReliedOn` | `SpecB => BaselinesAreSound` |
| `ServiceProofs!CasesArePaidOnce` | `SpecS => []NoCaseIsPaidTwice` |
| `ToolAgentProofs!TranscriptsAreClosed` | `SpecT => []EveryCallIsAnswered` |
| `ToolAgentProofs!RunsStayBounded` | `SpecT => []RunsAreBounded` |
| `ToolAgentProofs!HandlesBelongToTheRun` | `SpecT => []NamedFilesWereReturned` |
| `ToolAgentProofs!ModelAnswersAreSupported` | `SpecT => []AnswersRestOnReads` |
| `ToolAgentProofs!CutReadsAreTold` | `SpecT => []TruncationIsTold` |
| `AnsweringProofs!CitationsWereServed` | `SpecA => []CitesWereServed` |
| `AnsweringProofs!PreparingIsTrue` | `SpecA => []NotIndexedIsTrue` |
| `AnsweringProofs!TracesTellTheTruth` | `SpecA => []TraceTellsTheTruth` |
| `AnsweringProofs!HistoryShowsTheAnswer` | `SpecA => []HistoryIsTheAnswer` |
| `ConversationsProofs!AnswersBelong` | `SpecV => []StoredTurnsBelong` |
| `ConversationsProofs!QuestionsComeOneByOne` | `SpecV => []OneQuestionAtATime` |
| `ConversationsProofs!NothingStaysBlocked` | `SpecV => LoadingUnblocks` |
| `PrepareKnowledgeProofs!PreparationDrivesThePipeline` | `SpecP => Init /\ [][overlapped' \/ [Next]_vars]_pvars` with `Init` and `Next` of `IndexPipeline`, under every fault |
| `PrepareKnowledgeProofs!UndisturbedFilesAreFresh` | `Faults = {}`: `SpecP => []FreshUnlessDisturbed` |
| `PrepareKnowledgeProofs!LeavingEarlyIsRight` | `Faults = {}`: `SpecP => []EarlyMeansSettled` |
| `PrepareKnowledgeProofs!PatientPreparationsDoNotOverlap` | `Faults = {}`, `"timeout" \notin Interruptions`: `SpecP => [](~overlapped /\ NothingPendingMeansIndexed)` |
| `PrepareKnowledgeProofs!ReadyLeavesNothing` | `Faults = {}`, `"counts" \notin Interruptions`: `SpecP => []ReadyMeansSettled` |

**NoLostChange** is not inductive: a sync in progress must not have recorded
less than its token promises.  `IInv` adds that the cursor and the token are
bounded by `head` (`Bounds`); that a change up to the cursor is reflected by the
staged row too, also while a sync stages (`StagedKeeps`); that an incremental
sync has staged every change up to its token (`CaughtUp`); and that a full scan
which has dealt with a file unchanged since its token has seen and staged it if
it is there, and has not seen it if it is not (`ScanCorrect`).  `Save` turns the
last two into `NoLostChange`; `ApplyError`, which commits staged rows under the
old cursor, needs `StagedKeeps`.  **NewVersionIsNotServed** needs, beyond it, that
no staged row has both a new version and status INDEXED (`StagedNotIndexed`).

**IndexedIsCoherent** is strengthened per file (`FileInv`): coherence of the
staged rows as well as of the committed ones, since an error handler may commit
them at any step; that a point which carries the id of a set of chunk rows carries
its text (`PointsMatch`), without which pruning by id would not establish
coherence; that equal ids in `tx` and `db` mean equal rows (`SameRows`), which
carries the former over a commit or a rollback; that a chunk or build job lists
only INDEXING files with a document (`Claimed`), that the file under build has
current rows, and after pruning no other points (`UnderBuild`), and that only one
file is in work (`Alone`).

**ServesWholeTexts** follows from `IInv`: in a coherent state both searches of an
INDEXED file find the whole text of its rows (`ServedWhole`), a file whose points
or rows change is not INDEXED, and so a step that changes what is served of a
file either withdraws it or publishes it from nothing.

The theorems about **Chunking** need to know where the next window starts: inside
the text, not after the end of the last chunk and not more than the overlap
before it.

**Evidence** is computed rather than stepped: the theorems rest on what its
operators return, for lists of any length.  A stable sort (`Ranked`) puts an
element where as many others come before it as in the sort's order; each place
is taken once, because a list's elements can be counted in that order.  A cut
list is a prefix of the sorted one, so what is cut ranks no higher than what is
kept.  `EvidenceInv` says that the candidates are what merging and reranking make
of the lists.  From it, **BetterEverywhereComesFirst**: whoever stands before
another and scores higher in every list that has the other gets the larger fusion
share and the larger weighted score, and survives both cuts.  Both conditions are
needed: fusion reads ranks, reranking scores, and in the keyword list of a plain
question the two may disagree.  **RejectedEvidenceWasOvertaken** needs
the settings: `SearchOutweighsMetadata` says that the searches weigh more than
the metadata, that either weight reaches the threshold, that a hit has a positive
score no less than the retrieval threshold, and that some candidates are kept, as
in the defaults of `config.py` (0.5, 0.3, 0.2; 0.15).  Without it a metadata match
may come first and be too weak.

What a prompt shows is a rearrangement of a part of its candidates: promoted
files, diverse order and the cut (`Prioritized`, `Diverse`, `Fitting`) each keep
or drop passages and invent none.  **MarkersKeepTheirPassage** needs of it that
candidates are different chunks and that the model was shown the list the
citations are taken from (`MarkersInv`).  The second half is not obvious for a
summary, where the passages are selected twice: a selection made again takes
the same, as its first result fits and its passages have equal scores.
**PromptsFit** needs that a room holds a header and a few characters of text, with
a margin of one (`HeadersFit`; the code leaves 50): `_with_truncated_text`
keeps at least one character and its ellipsis whatever the header takes, so a
file name longer than the room would exceed it.  For the summary the theorem adds
up: the length of a prompt does not depend on the order of its passages, except
for the digits of their numbers; the parts of the files, each within its budget,
make one prompt with one separator more for each file and at most one digit more
for each passage; `Slack` (512 in the code) pays for these and for the question.
That is the last conjunct of the module's assumption: the code's ten files of
four chunks need 58 characters more than the prompt's fixed words.

**AdmissionIsExact** speaks of a deque that forgets, so `AdmissionInv` relates it
to the log of all admissions: `admitted` is the end of the log, what was dropped
of it is out of the window (`LogInv`); so an admission after `RateLimit` others
comes when the oldest of them is out, and any `RateLimit + 1` admissions in a row
span a window (`RateInv`).  `active` is the number of questions being answered
(`PlacesInv`).

**StatusIsTheNewest** is inductive with types.  **StatesLastAsLongAsLogins** is
strengthened by what an open transaction has deleted (its own state or an expired
one, `DeletedIsOwn`, `OwnIsDeleted`), that a connected login has no state left, and
that each exchange spent a code of its own.  **BaselinesAreSound** is strengthened
per run: one that nothing disturbed knows the index as it is, file by file as the
preflight goes on (`Verified`), and its answers so far rest on the versions of its
manifest.  **NoCaseIsPaidTwice** is strengthened for the case under way: each step
before the last was posted and answered, and its calls are the run's own; a
record once there keeps the identity of its freeze, which never changes again.

**ToolAgent** rests on two invariants.  `AgentInv` counts: calls are numbered as
they are executed, those executed and those pending are within what the steps so
far allow, and the hops follow from the steps (`CountInv`); the transcript is
closed wherever a provider may see it, while the tools run it is closed but for
the message under way, whose pending calls are the last ones, and at the safe
ending it is closed or its last message is wholly open (`TalkInv`); handles were
returned by a call, unless one broke (`NamesInv`).  `ReadInv` says of what is read
that a full read takes no more rows and characters than it counted, and counts a
generation whole or not at all, since the check of the file and the reading of its rows are queries
of their own; and that the model's words come with citations `Finalize` chose.

**Answering** likewise.  `ServedInv`: `seen` has the index as it is; every passage a
retriever has loaded was the text of an INDEXED file then, but not one it only
searched for (a search and its loading are two queries, hence the condition on
`does`); the files of a summary were INDEXED when they were listed, which is all
that is known when their rows are read.  `TraceInv`: the collector's attempts and
rewrites are the request's, only the last attempt is open and only while it
retrieves (`TriesInv`); before it settles a request has told nothing, and then
the reason told is the true one (`OutcomeInv`); nothing is stored before `Persist`
(`HistoryInv`).  It is inductive relative to `AnswerInv`.

**Conversations.**  `ConvInv` ties three places together that several tabs change:
ids of turns are given once, over all conversations and tabs (`IdsInv`); a question
is under way from a tab that is up, for a turn of its own conversation, and was
asked with turns that come before it, whatever was deleted since (`RequestsInv`);
a turn a tab remembers as its own is one it still asks for, or is gone
(`LiveInv`), which is what lets a loading tab give up all the others; and where no
turn was interrupted, a question under way is alone, its turn is the pending one
and its tab remembers it (`WaitingInv`).  `OneQuestionAtATime` needs the last, and
`LoadingUnblocks` `LiveInv`.

**PrepareKnowledge.**  Until a click finds a job running, every step of the flow is
a step of the pipeline or leaves it alone (`PreparationDrivesThePipeline`,
`UntilOverlap`), so the invariant of `IndexPipeline` holds up to there; two jobs side
by side are no behaviour of that module.  The flow's own promises are proved up to
the same point, and between faults.  A crash between the commits of
ingest hides a file from the counts (the run `CrashHidesFile`), so with it
`LeavingEarlyIsRight` is false; and `prepare.ts:137` goes on with the counts from
before ingest when it cannot fetch new ones, so `ReadyLeavesNothing` is only claimed
where every count was fetched.  Polls may expire in all of these;
`PatientPreparationsDoNotOverlap` is the converse: where none does, a click finds
every job ended (`PhaseInv`), so none of the conditions on overlap is needed.
`FlowInv` says which job may
run at which point of the flow (`PhaseInv`), that a file in INDEXING that is not
being ingested has a document, and that times run forward (`WaitInv`), that the
document of an undisturbed file is its text if it is no older than the edit
(`FreshInv`), and `EarlyInv`.  `LeftInv` adds, at each point of the flow, which
statuses are left, and that a job which takes files of one status lists them all.
Both use the invariant of `IndexPipeline`.

The invariants of `DriveSync`, `IndexPipeline` and `PrepareKnowledge` were
model-checked on the runs' instances before they were proved, as were those of
`ToolAgent`, `Answering` and `Conversations`, and `MarkersInv` of `Evidence`; of
the other parts, the properties they strengthen.

Sums, folds and sorts are over lists of any length.  Where an induction over
them is needed (`Used`, `Gathered`, the growing log), the proof takes the least
number at which the claim fails and shows that it does not (`LeastNat`,
`UpToANumber`, `StepByStep`).

Only model-checked: liveness (`Converges`, `JobSettles`, `FlowEnds`,
`DiscoveredGetsSettled`, `ChunkingEnds`, `RequestEnds`, `RunEnds`), as TLAPS cannot
reason about fairness here.

## 6. Not modelled

- What overlapping jobs do to the rows.  `PrepareKnowledge` has the two jobs that
  one page can bring about, but not the second document of one file that two first
  ingests may add, and only `FlowEnds` is claimed once they have overlapped.
  Overlapping jobs of two tabs or of direct API calls, more than two at a time, and
  what two syncs make of the cursor are not there.  `DriveSync` and `IndexPipeline`
  run one job at a time.
- Folder paths, names and search vectors of chunks (a renamed file keeps old
  names in its rows and points).
- Several accounts: every row belongs to one.
- How a retriever scores a text, how a question's route and files are recognised,
  what a model writes: free choices where a module meets them.
- Two smoke runs at once, and sources edited between their loading and their
  hashing.
- The response for the connection has no guard against an older one
  (`use-connection-status.ts:40`): `StatusHook` has that step, and the next poll
  repairs it, so no property speaks of it.
- Extractors, embedding and chat clients, the Drive client: parsing and I/O with
  libraries and services outside.  Intent routing and conversation history
  validate one value and keep no state.  Schema and migrations are declarative;
  the demo corpus is loaded once by a script; the remaining views are layout; the
  remaining evaluation scripts compute offline measures.

## 7. Plan

1. `PipelineRaces`: the two sessions of `PrepareKnowledge` with lists of documents
   instead of one, two tabs, duplicate
   documents, the later commit of the older cursor; what still holds of
   `IndexedIsCoherent`, and which job a poll takes for its own.
2. Proofs of `PipelineRaces`: which parts of `FileInv` survive two sessions (`Alone`
   does not).  Nothing else that is safety is left to prove of the present modules.
3. Abstract specifications of the two dialogues: a bounded dialogue that
   `ToolAgent` implements, and a question settled once for `Conversations`.
