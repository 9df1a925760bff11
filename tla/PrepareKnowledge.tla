-------------------------- MODULE PrepareKnowledge ---------------------------
(***************************************************************************)
(* The "Set up" button of the knowledge page, prepareKnowledge() of        *)
(* frontend/lib/knowledge/prepare.ts, driving the jobs of IndexPipeline:   *)
(* it starts a job, polls the latest indexing_jobs row until it is         *)
(* completed or failed, reads the pending counts and decides from them     *)
(* which job comes next.                                                   *)
(*                                                                         *)
(* One tab is open.  Whether it takes a click depends on the status it     *)
(* fetched when it was loaded or last refreshed, which a preparation that  *)
(* fails does not renew: after a poll that timed out, a click starts a     *)
(* preparation while the job of the last one runs on.  The two jobs then   *)
(* run side by side, each in a session of its own.                         *)
(***************************************************************************)
EXTENDS IndexPipeline

CONSTANTS
  Interruptions, \* which of "timeout" (of a poll) and "counts" (a failed
                 \* GET /index/pending) may strike
  MaxOverlap     \* bound on the server's steps after a click that found a job running

ASSUME InterruptionsAssumption ==
  Interruptions \subseteq {"timeout", "counts"} /\ MaxOverlap \in Nat

VARIABLES
  ui,        \* pc: where prepareKnowledge stands; pending: the counts it holds;
             \* warned: ingestionWarning is set; early: it left at "nothing pending";
             \* free: the status the page has is not "preparing"
  disturbed, \* history: the files changed while a preparation ran or they waited
  overlapped, \* history: a click found a job still running
  oldJob, oldTx, oldRow, \* the job it found, the job's session and its row
  since      \* steps of the server since

overlaps == <<overlapped, oldJob, oldTx, oldRow, since>>

pvars == <<vars, ui, disturbed, overlaps>>

\* The same jobs, in the other session.
Older == INSTANCE IndexPipeline WITH tx <- oldTx, job <- oldJob, jobRow <- oldRow

-----------------------------------------------------------------------------
(* GET /index/pending.  The flow compares each count with zero only. *)

\* Mutants of ToIngest: failed, or discovered, files are not counted.
ToIngestWithoutFailed     == {f \in Files : db.status[f] = "DISCOVERED"}
ToIngestWithoutDiscovered == {f \in Files : db.status[f] = "FAILED"}

ToIngest == {f \in Files : db.status[f] \in {"DISCOVERED", "FAILED"}}
ToChunk  == {f \in Files : db.status[f] = "INDEXING" /\ HasDoc(db, f) /\ ~HasChunks(db, f)}
ToBuild  == {f \in Files : db.status[f] = "INDEXING" /\ HasDoc(db, f) /\ HasChunks(db, f)}

Counts == [ingest |-> ToIngest # {}, chunk |-> ToChunk # {}, build |-> ToBuild # {}]

\* The answers a request can get: the counts, or what the catch puts there.
CountsOr(fallback) == {Counts} \cup (IF "counts" \in Interruptions THEN {fallback} ELSE {})

NonePending == [ingest |-> FALSE, chunk |-> FALSE, build |-> FALSE]
AllPending  == [ingest |-> TRUE, chunk |-> TRUE, build |-> TRUE]

Rest == [pc |-> "rest", pending |-> NonePending, warned |-> FALSE, early |-> FALSE, free |-> TRUE]

\* No preparation runs in the page.
Resting == ui.pc \in {"rest", "ready", "error"}

\* Where the flow goes once it knows what is left to chunk and build.
SearchOrReady(pending) == IF pending.chunk \/ pending.build THEN "search" ELSE "ready"

Polling(pc, status) == up /\ ui.pc = pc /\ jobRow = status

-----------------------------------------------------------------------------

\* Files Drive has news of.  No cursor skips a change (DriveSync), so a sync
\* covers at least these.
News == {f \in Files :
           \/ drive[f].live /\ (db.status[f] = "NONE" \/ db.mod[f] # drive[f].mod)
           \/ ~drive[f].live /\ db.status[f] \notin {"NONE", "SKIPPED"}}

\* The page is loaded anew, or its status refreshed; a run that ended as ready does
\* the latter itself.  The status is "preparing" while the latest row is RUNNING,
\* and an error while the server is down.
Look ==
  /\ Resting
  /\ ui' = [ui EXCEPT !.free = up /\ jobRow # "RUNNING"]
  /\ UNCHANGED vars

\* No job runs.
ClickAtRest(S) == Start("sync", S) /\ UNCHANGED overlaps

\* POST /index/sync looks for no running job: another session is opened beside it.
\* Bound: two jobs at a time.
ClickBeside(S) ==
  /\ up /\ job.kind # "idle" /\ oldJob.kind = "idle"
  /\ overlapped' = TRUE /\ oldJob' = job /\ oldTx' = tx /\ oldRow' = jobRow
  /\ job' = [NoJob EXCEPT !.kind = "sync", !.todo = S]
  /\ tx' = db /\ jobRow' = "RUNNING"
  /\ UNCHANGED <<drive, now, db, points, up, since>>

\* runPrepare ignores a click while the status the page has is not free.
Click ==
  /\ Resting /\ ui.free
  /\ \E S \in SUBSET Files : News \subseteq S /\ (ClickAtRest(S) \/ ClickBeside(S))
  /\ ui' = [Rest EXCEPT !.pc = "scanning"]

\* The server is down.
ClickFails ==
  /\ Resting /\ ui.free /\ ~up
  /\ ui' = [Rest EXCEPT !.pc = "error"]
  /\ UNCHANGED vars

ScanDone ==
  /\ Polling("scanning", "COMPLETED")
  /\ \E p \in CountsOr(AllPending) :
       ui' = [ui EXCEPT !.pending = p,
                        !.early = p = NonePending,
                        !.pc = IF p.ingest THEN "read" ELSE SearchOrReady(p)]
  /\ UNCHANGED vars

Read ==
  /\ ui.pc = "read"
  /\ Start("ingest", Ingestible(db))
  /\ ui' = [ui EXCEPT !.pc = "reading"]

\* Best-effort refresh: on a failed request the old counts stay.
ReadDone ==
  /\ Polling("reading", "COMPLETED")
  /\ \E p \in CountsOr(ui.pending) :
       ui' = [ui EXCEPT !.pending = p, !.pc = SearchOrReady(p)]
  /\ UNCHANGED vars

\* A partial failure is a warning while healthy files can go on.
ReadFailed ==
  /\ Polling("reading", "FAILED")
  /\ \E p \in CountsOr(NonePending) :
       ui' = [ui EXCEPT !.pending = p, !.warned = p.chunk \/ p.build,
                        !.pc = IF p.chunk \/ p.build THEN "search" ELSE "error"]
  /\ UNCHANGED vars

Search ==
  /\ ui.pc = "search"
  /\ IF ui.pending.chunk
     THEN Start("chunk", Eligible(db)) /\ ui' = [ui EXCEPT !.pc = "chunking"]
     ELSE Start("build", Eligible(db)) /\ ui' = [ui EXCEPT !.pc = "building"]

\* The counts decide whether there is anything to build; if the request for
\* them fails, the step fails.
ChunkDone ==
  /\ Polling("chunking", "COMPLETED")
  /\ \/ ui' = [ui EXCEPT !.pending = [Counts EXCEPT !.chunk = FALSE],
                         !.pc = IF Counts.build THEN "search" ELSE "ready"]
     \/ "counts" \in Interruptions /\ ui' = [ui EXCEPT !.pc = "error"]
  /\ UNCHANGED vars

\* Mutant of BuildDone: the poll also accepts a failed job.
BuildDoneAllowFailed ==
  /\ up /\ ui.pc = "building" /\ jobRow \in {"COMPLETED", "FAILED"}
  /\ ui' = [ui EXCEPT !.pc = "ready"]
  /\ UNCHANGED vars

BuildDone ==
  /\ Polling("building", "COMPLETED")
  /\ ui' = [ui EXCEPT !.pc = "ready"]
  /\ UNCHANGED vars

StepFailed ==
  /\ ui.pc \in {"scanning", "chunking", "building"} /\ up /\ jobRow = "FAILED"
  /\ ui' = [ui EXCEPT !.pc = "error"]
  /\ UNCHANGED vars

\* The server is down when the next job is asked for: the step fails.
StartFailed ==
  /\ ui.pc \in {"read", "search"} /\ ~up
  /\ ui' = [ui EXCEPT !.pc = "error"]
  /\ UNCHANGED vars

\* Mutant of Timeout: the poll after chunking has no deadline.
TimeoutExceptChunk ==
  /\ "timeout" \in Interruptions
  /\ ui.pc \in {"scanning", "reading", "building"}
  /\ ui' = [ui EXCEPT !.pc = "error"]
  /\ UNCHANGED vars

\* The poll gives up while the job runs on, or the tab is closed.
Timeout ==
  /\ "timeout" \in Interruptions
  /\ ui.pc \in {"scanning", "reading", "chunking", "building"}
  /\ ui' = [ui EXCEPT !.pc = "error"]
  /\ UNCHANGED vars

\* Nobody is preparing and file f waits for nothing.
QuietFor(f) ==
  /\ job.kind = "idle"
  /\ Resting
  /\ db.status[f] # "INDEXING"

\* The owner's edits, and what the server does by itself.
OwnerP ==
  /\ \E f \in Files :
       /\ TrashOrRestore(f) \/ \E t \in Texts : Edit(f, t)
       /\ disturbed' = IF QuietFor(f) THEN disturbed ELSE disturbed \cup {f}
  /\ UNCHANGED ui

\* The session mine after the commit of another: what it has not written it reads anew.
\* (Two documents of one file, which two first ingests may add, are not represented.)
Rebased(mine) ==
  [c \in DOMAIN db |->
     [f \in Files |-> IF mine[c][f] = db[c][f] THEN db'[c][f] ELSE mine[c][f]]]

\* A step of the server.
Counted == IF overlapped THEN since < MaxOverlap /\ since' = since + 1 ELSE UNCHANGED since

\* The latest job; an older one waits meanwhile, or dies with the server.  Once it is
\* over, what is kept of it says nothing.
ServerP ==
  /\ Step \/ Fault \/ Restart
  /\ Counted
  /\ oldJob' = IF up' THEN oldJob ELSE NoJob
  /\ IF oldJob'.kind = "idle" THEN oldTx' = db' /\ oldRow' = "NONE"
     ELSE oldTx' = Rebased(oldTx) /\ UNCHANGED oldRow
  /\ UNCHANGED <<ui, overlapped>>

\* A step of the older job.
Beside ==
  /\ overlapped /\ oldJob.kind # "idle"
  /\ Counted
  /\ Older!Step \/ Older!JobError \/ Older!DbError
  /\ tx' = Rebased(tx)
  /\ UNCHANGED <<job, jobRow, ui, overlapped>>

-----------------------------------------------------------------------------

InitP ==
  /\ Init /\ ui = Rest /\ disturbed = {}
  /\ overlapped = FALSE /\ oldJob = NoJob /\ oldTx = tx /\ oldRow = "NONE" /\ since = 0

Flow == \/ ScanDone \/ Read \/ ReadDone \/ ReadFailed \/ Search \/ ChunkDone \/ BuildDone
        \/ StepFailed \/ StartFailed

NextP ==
  \/ OwnerP /\ UNCHANGED overlaps
  \/ (Look \/ ClickFails \/ Flow \/ Timeout) /\ UNCHANGED <<disturbed, overlaps>>
  \/ (Click \/ ServerP \/ Beside) /\ UNCHANGED disturbed

SpecP == InitP /\ [][NextP]_pvars

\* The page's code runs on (a poll that never succeeds meets its deadline), the
\* event loop runs a started job, a dead server is restarted, and the owner
\* keeps clicking, or looks again at a page that takes no click.
FairSpecP ==
  /\ SpecP
  /\ WF_pvars((Flow \/ Timeout) /\ UNCHANGED <<disturbed, overlaps>>)
  /\ WF_pvars(Click /\ UNCHANGED disturbed)
  /\ WF_pvars(Look /\ ~ui.free /\ UNCHANGED <<disturbed, overlaps>>)
  /\ WF_pvars(Step /\ ServerP /\ UNCHANGED disturbed)
  /\ WF_pvars(Restart /\ ServerP /\ UNCHANGED disturbed)

-----------------------------------------------------------------------------
(* Properties. *)

\* What the owner edits at rest is served: an INDEXED file that was never changed
\* during a preparation, nor while it waited for one, holds its latest synced
\* text, whatever timeouts and failed requests the preparations met, as long as
\* no click found a job still running.
FreshUnlessDisturbed ==
  ~overlapped =>
    \A f \in Files \ disturbed :
      db.status[f] = "INDEXED" /\ db.mod[f] = drive[f].mod
        => db.doc[f].text = drive[f].text

Settled(f) == db.status[f] \in {"NONE", "INDEXED", "SKIPPED"}

\* prepare.ts leaves after the scan when nothing is pending, because "All files
\* are already indexed".
NothingPendingMeansIndexed ==
  ui.pc = "ready" /\ ui.early => \A f \in Files : Settled(f)

\* The same of preparations that never met a job of an earlier one: whatever a poll
\* that timed out left behind, the counts tell the next click of it once the job is over.
EarlyMeansSettled == ~overlapped => NothingPendingMeansIndexed

\* A run that ends as ready without a warning leaves no file behind, if no click
\* found a job still running.
ReadyMeansSettled ==
  ~overlapped /\ ui.pc = "ready" /\ ~ui.warned => \A f \in Files : Settled(f)

\* Whatever happens to the job it waits for, a preparation comes to its end.
FlowEnds == ~Resting ~> (ui.pc \in {"ready", "error"})

\* An INDEXING file without a document is in no pending count: what a crash
\* between the commits of a first ingest leaves (see NothingPendingMeansIndexed).
Hidden(f) == db.status[f] = "INDEXING" /\ ~HasDoc(db, f)

\* A job that lost its database session leaves its row RUNNING.  A page that is loaded
\* then says "preparing", and takes no click, until the server is restarted.
Blocked == up /\ job.kind = "idle" /\ jobRow = "RUNNING" /\ ~ui.free

\* Once faults and expired polls cease, and if no click found a job still running, a
\* discovered file is dealt with in the end: indexed, set aside, reported as failed, or
\* hidden by an earlier fault, unless one has blocked the page.
DiscoveredGetsSettled ==
  <>[][~(Fault \/ Timeout)]_pvars /\ []~overlapped =>
    \A f \in Files :
      (db.status[f] = "DISCOVERED")
        ~> (db.status[f] \in {"INDEXED", "SKIPPED", "FAILED"} \/ Hidden(f) \/ Blocked)

=============================================================================
