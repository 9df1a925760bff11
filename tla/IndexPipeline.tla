---------------------------- MODULE IndexPipeline ----------------------------
(***************************************************************************)
(* The preparation pipeline of one Drive account: the background jobs      *)
(* sync, ingest, chunk and build (backend/app/services), run one at a      *)
(* time, over the PostgreSQL rows drive_files, documents and chunks and    *)
(* the Qdrant points.                                                      *)
(*                                                                         *)
(* A job works in one database session.  db is what is committed, tx what  *)
(* the session of the running job sees; a commit copies tx to db, a crash  *)
(* or a rollback copies db to tx.  Qdrant takes part in no transaction:    *)
(* points changes at once and survives a crash.                            *)
(*                                                                         *)
(* The contents of a file are a member of Texts, and extracted_text_hash   *)
(* is that member.  Times are counted in Drive edits: modified_at is the   *)
(* number of the edit, updated_at of a document the number of edits made   *)
(* before it was written, so that updated_at >= modified_at says exactly   *)
(* that the document was written after the edit.                           *)
(***************************************************************************)
EXTENDS Integers, FiniteSets

CONSTANTS
  Files,       \* Drive files of supported types
  Texts,       \* extracted texts, identified with their hashes
  Blank,       \* the text of a file with nothing to search for
  ChunkIds,    \* chunk row UUIDs
  NoId,        \* the id of no chunk
  Parts,       \* chunk_index values of a chunked document
  MaxEdits,    \* bound on Drive edits
  EditWindow,  \* when the owner edits: "stopped" (no job runs) or "any"
  Faults       \* which of "crash", "exception" and "database" may interrupt a job

ASSUME ConstantsAssumption ==
  /\ Blank \in Texts
  /\ NoId \notin ChunkIds
  /\ MaxEdits \in Nat
  /\ EditWindow \in {"stopped", "any"}
  /\ Faults \subseteq {"crash", "exception", "database"}

VARIABLES
  drive,   \* Google Drive: each file's liveness, modifiedTime and contents
  now,     \* Drive edits so far
  db,      \* committed rows
  tx,      \* the rows as the running job's session sees them
  points,  \* Qdrant points of each file
  job,     \* the running background job
  jobRow,  \* status of the latest indexing_jobs row
  up       \* whether the server process runs

vars == <<drive, now, db, tx, points, job, jobRow, up>>

-----------------------------------------------------------------------------
(* Rows.  "NONE" is a file without a drive_files row.  A document with     *)
(* Blank text stands for no document, a chunk set with Blank text for no   *)
(* chunk rows: the pipeline persists neither (see Extract below).          *)

Status  == {"NONE", "DISCOVERED", "INDEXING", "INDEXED", "SKIPPED", "FAILED"}
NoDoc   == [text |-> Blank, at |-> 0]
NoRows  == [id |-> NoId, text |-> Blank]

\* Points that stand for the chunk rows c: one per chunk_index.
PointsOf(c) == [id : {c.id}, part : Parts, text : {c.text}]

\* A store with one field of one file rewritten.
WithStatus(s, f, status) == [s EXCEPT !.status = [@ EXCEPT ![f] = status]]
WithDoc(s, f, doc)       == [s EXCEPT !.doc = [@ EXCEPT ![f] = doc]]
WithChunks(s, f, rows)   == [s EXCEPT !.chunks = [@ EXCEPT ![f] = rows]]
WithMod(s, f, mod)       == [s EXCEPT !.mod = [@ EXCEPT ![f] = mod]]

HasDoc(s, f)    == s.doc[f].text # Blank
HasChunks(s, f) == s.chunks[f].text # Blank

NoJob == [kind |-> "idle", pc |-> "next", todo |-> {}, cur |-> {},
          text |-> Blank, failed |-> FALSE]

Idle == up /\ job.kind = "idle"
Running(kind, pc) == up /\ job.kind = kind /\ job.pc = pc

-----------------------------------------------------------------------------
(* Google Drive and its owner. *)

EditAllowed ==
  /\ now < MaxEdits
  /\ EditWindow = "stopped" => job.kind = "idle"

Edit(f, text) ==
  /\ EditAllowed
  /\ drive[f].live
  /\ now' = now + 1
  /\ drive' = [drive EXCEPT ![f] = [live |-> TRUE, mod |-> now + 1, text |-> text]]
  /\ UNCHANGED <<db, tx, points, job, jobRow, up>>

\* Moving a file to the trash, or restoring it, leaves its modifiedTime.
TrashOrRestore(f) ==
  /\ EditAllowed
  /\ now' = now + 1
  /\ drive' = [drive EXCEPT ![f].live = ~@]
  /\ UNCHANGED <<db, tx, points, job, jobRow, up>>

-----------------------------------------------------------------------------
(* Starting and ending a job. *)

Start(kind, files) ==
  /\ Idle
  /\ job' = [NoJob EXCEPT !.kind = kind, !.todo = files]
  /\ jobRow' = "RUNNING"
  /\ UNCHANGED <<drive, now, db, tx, points, up>>

\* The last commit of a job.
Finish ==
  /\ up /\ job.kind # "idle" /\ job.pc = "next" /\ job.todo = {}
  /\ db' = tx
  /\ jobRow' = IF job.failed THEN "FAILED" ELSE "COMPLETED"
  /\ job' = NoJob
  /\ UNCHANGED <<drive, now, tx, points, up>>

\* An exception that reaches "except Exception" with a usable session: the
\* job is marked FAILED and the commit keeps whatever was staged so far.
JobError ==
  /\ "exception" \in Faults
  /\ up /\ job.kind # "idle"
  /\ db' = tx
  /\ jobRow' = "FAILED"
  /\ job' = NoJob
  /\ UNCHANGED <<drive, now, tx, points, up>>

\* A database error: the handler's own commit fails too, the transaction is
\* rolled back and the job row keeps RUNNING.
DbError ==
  /\ "database" \in Faults
  /\ up /\ job.kind # "idle"
  /\ tx' = db
  /\ job' = NoJob
  /\ UNCHANGED <<drive, now, db, points, jobRow, up>>

Crash ==
  /\ "crash" \in Faults
  /\ up
  /\ up' = FALSE
  /\ tx' = db
  /\ job' = NoJob
  /\ UNCHANGED <<drive, now, db, points, jobRow>>

\* Mutant of Restart: no cleanup.
RestartWithoutCleanup ==
  /\ ~up
  /\ up' = TRUE
  /\ UNCHANGED <<drive, now, db, tx, points, job, jobRow>>

\* lifespan runs _cleanup_stuck_jobs before the server accepts requests.
Restart ==
  /\ ~up
  /\ up' = TRUE
  /\ jobRow' = IF jobRow = "RUNNING" THEN "FAILED" ELSE jobRow
  /\ UNCHANGED <<drive, now, db, tx, points, job>>

\* The running job goes on to its next file, having staged s.
Done(s) ==
  /\ tx' = s
  /\ job' = [job EXCEPT !.pc = "next", !.cur = {}, !.text = Blank]

\* As Done, and the job counts the file as failed.
DoneFailed(f) ==
  /\ tx' = WithStatus(tx, f, "FAILED")
  /\ job' = [job EXCEPT !.pc = "next", !.cur = {}, !.text = Blank, !.failed = TRUE]

-----------------------------------------------------------------------------
(* Sync: the files a listing or a change page names are upserted or marked *)
(* removed.  The cursor that decides which files those are is the subject  *)
(* of DriveSync; here it may be any set.                                   *)

\* Mutant of Upsert: an edit leaves the file INDEXED.
UpsertKeepsIndexed(s, f) ==
  [s EXCEPT !.status[f] = IF @ \in {"NONE", "SKIPPED"} THEN "DISCOVERED" ELSE @,
            !.mod[f] = drive[f].mod]

Upsert(s, f) ==
  LET old    == s.status[f]
      edited == s.mod[f] # drive[f].mod
      new    == CASE old \in {"NONE", "SKIPPED"} -> "DISCOVERED"
                  [] old = "INDEXED" /\ edited   -> "DISCOVERED"
                  [] OTHER                       -> old
  IN  WithStatus(WithMod(s, f, drive[f].mod), f, new)

MarkRemoved(s, f) ==
  IF s.status[f] = "NONE" THEN s ELSE WithStatus(s, f, "SKIPPED")

SyncStart == \E S \in SUBSET Files : Start("sync", S)

SyncFile(f) ==
  /\ Running("sync", "next") /\ f \in job.todo
  /\ tx' = IF drive[f].live THEN Upsert(tx, f) ELSE MarkRemoved(tx, f)
  /\ job' = [job EXCEPT !.todo = @ \ {f}]
  /\ UNCHANGED <<drive, now, db, points, jobRow, up>>

-----------------------------------------------------------------------------
(* Ingest: download, extract, persist the document. *)

Ingestible(s) == {f \in Files : s.status[f] \in {"DISCOVERED", "INDEXING", "FAILED"}}

\* All eligible files, or the one file of an explicit request.
IngestStart ==
  \/ Start("ingest", Ingestible(db))
  \/ \E f \in Files : db.status[f] # "NONE" /\ Start("ingest", {f})

IsDocumentCurrent(s, f) == HasDoc(s, f) /\ s.doc[f].at >= s.mod[f]

IngestSkip(f) ==
  /\ Running("ingest", "next") /\ f \in job.todo
  /\ tx.status[f] = "SKIPPED"
  /\ job' = [job EXCEPT !.todo = @ \ {f}]
  /\ UNCHANGED <<drive, now, db, tx, points, jobRow, up>>

\* Mutant of IngestCurrent: the fast path comes before the SKIPPED check.
IngestCurrentFirst(f) ==
  /\ Running("ingest", "next") /\ f \in job.todo
  /\ IsDocumentCurrent(tx, f)
  /\ tx' = WithStatus(tx, f, "INDEXING")
  /\ job' = [job EXCEPT !.todo = @ \ {f}]
  /\ UNCHANGED <<drive, now, db, points, jobRow, up>>

\* The fast path: no download.
IngestCurrent(f) ==
  /\ Running("ingest", "next") /\ f \in job.todo
  /\ tx.status[f] # "SKIPPED"
  /\ IsDocumentCurrent(tx, f)
  /\ tx' = WithStatus(tx, f, "INDEXING")
  /\ job' = [job EXCEPT !.todo = @ \ {f}]
  /\ UNCHANGED <<drive, now, db, points, jobRow, up>>

IngestFetch(f) ==
  /\ Running("ingest", "next") /\ f \in job.todo
  /\ tx.status[f] # "SKIPPED"
  /\ ~IsDocumentCurrent(tx, f)
  /\ tx' = WithStatus(tx, f, "INDEXING")
  /\ job' = [job EXCEPT !.todo = @ \ {f}, !.cur = {f}, !.pc = "fetch"]
  /\ UNCHANGED <<drive, now, db, points, jobRow, up>>

\* fetch_file_content commits the session once the bytes are there.  A file
\* in the trash can still be read.
Download(f) ==
  /\ Running("ingest", "fetch") /\ f \in job.cur
  /\ db' = tx
  /\ job' = [job EXCEPT !.pc = "extract", !.text = drive[f].text]
  /\ UNCHANGED <<drive, now, tx, points, jobRow, up>>

\* A failed download or extraction, caught for this file only.
IngestFail(f) ==
  /\ up /\ job.kind = "ingest" /\ job.pc \in {"fetch", "extract"} /\ f \in job.cur
  /\ DoneFailed(f)
  /\ UNCHANGED <<drive, now, db, points, jobRow, up>>

\* No searchable text: the old document and chunks stay.
ExtractBlank(f) ==
  /\ Running("ingest", "extract") /\ f \in job.cur
  /\ job.text = Blank
  /\ Done(WithStatus(tx, f, "SKIPPED"))
  /\ UNCHANGED <<drive, now, db, points, jobRow, up>>

\* The hash still matches: the document, and its updated_at, stay.
ExtractSame(f) ==
  /\ Running("ingest", "extract") /\ f \in job.cur
  /\ job.text # Blank /\ job.text = tx.doc[f].text
  /\ Done(WithStatus(tx, f, "INDEXING"))
  /\ UNCHANGED <<drive, now, db, points, jobRow, up>>

\* updated_at is the time of this write, not of the download.
ExtractNew(f) ==
  /\ Running("ingest", "extract") /\ f \in job.cur
  /\ job.text # Blank /\ job.text # tx.doc[f].text
  /\ Done(WithStatus(WithDoc(tx, f, [text |-> job.text, at |-> now]), f, "INDEXING"))
  /\ UNCHANGED <<drive, now, db, points, jobRow, up>>

-----------------------------------------------------------------------------
(* Chunk: one set of rows per document, replaced as a whole. *)

ChunksAreCurrent(s, f) == HasChunks(s, f) /\ s.chunks[f].text = s.doc[f].text

\* UUIDs neither store holds.  An id no row and no point has any more may be
\* taken again: nothing can tell it from a new one.
FreshIds(f) == ChunkIds \ ({db.chunks[f].id, tx.chunks[f].id} \cup {p.id : p \in points[f]})

\* The outcomes of _replace_chunks for a file that has a document.  Its empty
\* case needs a blank document, which no job persists.
Replacements(f) ==
  IF ChunksAreCurrent(tx, f)
  THEN {tx}
  ELSE {WithChunks(tx, f, [id |-> c, text |-> tx.doc[f].text]) : c \in FreshIds(f)}

Eligible(s) == {f \in Files : s.status[f] = "INDEXING" /\ HasDoc(s, f)}

\* The listing takes eligible documents; an explicit request checks its file.
StageStart(kind) ==
  \/ Start(kind, Eligible(db))
  \/ \E f \in Files : db.status[f] # "NONE" /\ Start(kind, {f} \cap Eligible(db))

ChunkStart == StageStart("chunk")

ChunkFile(f) ==
  /\ Running("chunk", "next") /\ f \in job.todo
  /\ tx' \in Replacements(f)
  /\ job' = [job EXCEPT !.todo = @ \ {f}]
  /\ UNCHANGED <<drive, now, db, points, jobRow, up>>

-----------------------------------------------------------------------------
(* Build: chunk again if need be, drop stale points, embed and upsert the  *)
(* missing ones in batches, and mark the file.                             *)

BuildStart == StageStart("build")

BuildChunk(f) ==
  /\ Running("build", "next") /\ f \in job.todo
  /\ tx' \in Replacements(f)
  /\ job' = [job EXCEPT !.todo = @ \ {f}, !.cur = {f}, !.pc = "prune"]
  /\ UNCHANGED <<drive, now, db, points, jobRow, up>>

\* Mutant of BuildPrune: stale points stay.
BuildWithoutPrune(f) ==
  /\ Running("build", "prune") /\ f \in job.cur
  /\ job' = [job EXCEPT !.pc = "embed"]
  /\ UNCHANGED <<drive, now, db, tx, points, jobRow, up>>

\* delete_points_for_drive_file_except
BuildPrune(f) ==
  /\ Running("build", "prune") /\ f \in job.cur
  /\ points' = [points EXCEPT ![f] = {p \in @ : p.id = tx.chunks[f].id}]
  /\ job' = [job EXCEPT !.pc = "embed"]
  /\ UNCHANGED <<drive, now, db, tx, jobRow, up>>

\* Chunks whose stored hash is missing or differs.
Pending(f) == PointsOf(tx.chunks[f]) \ points[f]

UpsertBatch(f) ==
  /\ Running("build", "embed") /\ f \in job.cur
  /\ \E batch \in SUBSET Pending(f) :
       /\ batch # {}
       /\ points' = [points EXCEPT ![f] = @ \cup batch]
  /\ UNCHANGED <<drive, now, db, tx, job, jobRow, up>>

\* Mutant of MarkIndexed: the file is marked before its last batch.
MarkIndexedEarly(f) ==
  /\ Running("build", "embed") /\ f \in job.cur
  /\ Done(WithStatus(tx, f, "INDEXED"))
  /\ UNCHANGED <<drive, now, db, points, jobRow, up>>

MarkIndexed(f) ==
  /\ Running("build", "embed") /\ f \in job.cur
  /\ Pending(f) = {}
  /\ Done(WithStatus(tx, f, "INDEXED"))
  /\ UNCHANGED <<drive, now, db, points, jobRow, up>>

\* EmbeddingError or VectorStoreError, caught for this file only.
BuildFail(f) ==
  /\ up /\ job.kind = "build" /\ job.pc \in {"prune", "embed"} /\ f \in job.cur
  /\ DoneFailed(f)
  /\ UNCHANGED <<drive, now, db, points, jobRow, up>>

-----------------------------------------------------------------------------

Init ==
  /\ drive \in [Files -> [live : {TRUE}, mod : {0}, text : Texts]]
  /\ now = 0
  /\ db = [status |-> [f \in Files |-> "NONE"],  mod    |-> [f \in Files |-> 0],
           doc    |-> [f \in Files |-> NoDoc],   chunks |-> [f \in Files |-> NoRows]]
  /\ tx = db
  /\ points = [f \in Files |-> {}]
  /\ job = NoJob
  /\ jobRow = "NONE"
  /\ up = TRUE

Owner == \E f \in Files : TrashOrRestore(f) \/ \E t \in Texts : Edit(f, t)

SyncStep   == \E f \in Files : SyncFile(f)
IngestStep == \E f \in Files :
  \/ IngestSkip(f) \/ IngestCurrent(f) \/ IngestFetch(f) \/ Download(f) \/ IngestFail(f)
  \/ ExtractBlank(f) \/ ExtractSame(f) \/ ExtractNew(f)
ChunkStep  == \E f \in Files : ChunkFile(f)
BuildStep  == \E f \in Files :
  BuildChunk(f) \/ BuildPrune(f) \/ UpsertBatch(f) \/ MarkIndexed(f) \/ BuildFail(f)

Starts == SyncStart \/ IngestStart \/ ChunkStart \/ BuildStart
Step   == SyncStep \/ IngestStep \/ ChunkStep \/ BuildStep \/ Finish
Fault  == JobError \/ DbError \/ Crash

Next == Owner \/ Starts \/ Step \/ Fault \/ Restart

Spec == Init /\ [][Next]_vars

\* A started coroutine is run to its end by the event loop, and an operator
\* restarts a dead server.
FairSpec == Spec /\ WF_vars(Step) /\ WF_vars(Restart)

-----------------------------------------------------------------------------
(* Properties. *)

Texted == Texts \ {Blank}

StoreType ==
  [status : [Files -> Status],
   mod    : [Files -> 0..MaxEdits],
   doc    : [Files -> [text : Texts, at : 0..MaxEdits]],
   chunks : [Files -> [id : ChunkIds \cup {NoId}, text : Texts]]]

\* The type invariant of the pipeline.
TypeOK ==
  /\ drive \in [Files -> [live : BOOLEAN, mod : 0..MaxEdits, text : Texts]]
  /\ now \in 0..MaxEdits
  /\ db \in StoreType
  /\ tx \in StoreType
  /\ points \in [Files -> SUBSET [id : ChunkIds \cup {NoId}, part : Parts, text : Texts]]
  /\ job \in [kind : {"idle", "sync", "ingest", "chunk", "build"},
              pc : {"next", "fetch", "extract", "prune", "embed"},
              todo : SUBSET Files, cur : SUBSET Files, text : Texts, failed : BOOLEAN]
  /\ jobRow \in {"NONE", "RUNNING", "COMPLETED", "FAILED"}
  /\ up \in BOOLEAN

\* What retrieval relies on: the document, its chunk rows and the Qdrant
\* points of file f in store s all come from one extraction.
Coherent(s, f) ==
  /\ HasDoc(s, f) /\ HasChunks(s, f)
  /\ s.chunks[f].text = s.doc[f].text
  /\ points[f] = PointsOf(s.chunks[f])

\* A file retrieval may use (status INDEXED) is never half replaced: whatever
\* job was cut short, between its Qdrant calls or before its commit, the text,
\* the chunk rows and the vectors of an INDEXED file agree.
IndexedIsCoherent == \A f \in Files : db.status[f] = "INDEXED" => Coherent(db, f)

\* An INDEXED file whose latest edit has been synced is served with the text
\* of that edit.
IndexedIsFresh ==
  \A f \in Files :
    db.status[f] = "INDEXED" /\ db.mod[f] = drive[f].mod
      => db.doc[f].text = drive[f].text

\* _is_document_current says a document is "still fresh": then it must hold the
\* text Drive has for the synced modified_at.
CurrentMeansFresh ==
  \A f \in Files :
    IsDocumentCurrent(db, f) /\ db.mod[f] = drive[f].mod
      => db.doc[f].text = drive[f].text

\* A file set aside as SKIPPED (removed, unsupported or empty) comes back only
\* through a sync, and then to be ingested again, never straight to the index.
SkippedComesBackBySync ==
  [][\A f \in Files :
       db.status[f] = "SKIPPED" /\ db'.status[f] # "SKIPPED"
         => job.kind = "sync" /\ db'.status[f] = "DISCOVERED"]_vars

\* What keyword search finds are the rows of an INDEXED file, what vector search
\* finds are its points (both searches filter on the committed status).
Served ==
  [f \in Files |->
     IF db.status[f] = "INDEXED"
     THEN [keyword |-> {db.chunks[f].text} \X Parts,
           vector  |-> {<<p.text, p.part>> : p \in points[f]}]
     ELSE [keyword |-> {}, vector |-> {}]]

Index == INSTANCE ServedIndex WITH served <- Served

\* The pipeline implements ServedIndex: jobs cut short and commits in mid-batch
\* never show retrieval a part of a text, two texts, or a swap from one to another.
ServesWholeTexts == Index!Spec

\* A started job comes to its end, and a row that a dead server left RUNNING
\* does not stay so: clients poll it.
JobSettles ==
  /\ (job.kind # "idle") ~> (job.kind = "idle")
  /\ (~up /\ jobRow = "RUNNING") ~> (jobRow # "RUNNING")

=============================================================================
