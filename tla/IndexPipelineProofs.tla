------------------------- MODULE IndexPipelineProofs -------------------------
(***************************************************************************)
(* TLAPS proofs about IndexPipeline, for every set of files, texts, chunk  *)
(* ids and parts and every bound on edits: type correctness, that an       *)
(* INDEXED file is never half replaced, and that a file set aside comes    *)
(* back only through a sync.                                               *)
(***************************************************************************)
EXTENDS IndexPipeline, TLAPS

(***************************************************************************)
(* The inductive invariant, file by file.  The file's committed rows are   *)
(* coherent if it is INDEXED, and so are the staged ones, since the next   *)
(* commit or rollback makes either of them the other (CoherentIndexed).    *)
(* A build deletes and adds points outside any transaction; it does so     *)
(* only for a file that is INDEXING in both stores (Claimed, UnderBuild).  *)
(* Points never carry a text other than that of the chunk row whose id     *)
(* they have (PointsMatch), a fact that survives a change of store because *)
(* equal ids mean equal rows (SameRows).                                   *)
(***************************************************************************)
CoherentIndexed(s, f) == s.status[f] = "INDEXED" => Coherent(s, f)

PointsMatch(s, f) == \A p \in points[f] : p.id = s.chunks[f].id => p.text = s.chunks[f].text

SameRows(f) == tx.chunks[f].id = db.chunks[f].id => tx.chunks[f] = db.chunks[f]

Claimed(f) ==
  job.kind \in {"chunk", "build"} /\ f \in job.todo \cup job.cur =>
    db.status[f] = "INDEXING" /\ tx.status[f] = "INDEXING" /\ HasDoc(tx, f)

UnderBuild(f) ==
  job.kind = "build" /\ f \in job.cur =>
    /\ HasChunks(tx, f) /\ tx.chunks[f].text = tx.doc[f].text
    /\ job.pc = "embed" => points[f] \subseteq PointsOf(tx.chunks[f])

Alone(f) == f \in job.cur => job.cur = {f} /\ f \notin job.todo

SetAside(f) ==
  /\ db.status[f] = "SKIPPED" =>
       tx.status[f] = "SKIPPED" \/ (job.kind = "sync" /\ tx.status[f] = "DISCOVERED")
  /\ job.kind = "ingest" /\ f \in job.cur => tx.status[f] = "INDEXING"

FileInv(f) ==
  /\ CoherentIndexed(db, f) /\ CoherentIndexed(tx, f)
  /\ PointsMatch(db, f) /\ PointsMatch(tx, f) /\ SameRows(f)
  /\ Claimed(f) /\ UnderBuild(f) /\ Alone(f) /\ SetAside(f)

\* Between jobs the session sees what is committed; a dead server runs no job.
Between == (job.kind = "idle" => tx = db) /\ (~up => job.kind = "idle")

IInv == TypeOK /\ Between /\ \A f \in Files : FileInv(f)

-----------------------------------------------------------------------------
(* What the writes of the jobs do to a store. *)

\* Setting a status touches no other file and no other table.
LEMMA WithStatusStore ==
  ASSUME NEW s \in StoreType, NEW f \in Files, NEW st \in Status
  PROVE  LET r == WithStatus(s, f, st)
         IN  /\ r \in StoreType
             /\ r.status[f] = st /\ \A g \in Files : g # f => r.status[g] = s.status[g]
             /\ r.mod = s.mod /\ r.doc = s.doc /\ r.chunks = s.chunks
BY DEF WithStatus, StoreType

\* Replacing a file's chunk rows touches nothing else.
LEMMA WithChunksStore ==
  ASSUME NEW s \in StoreType, NEW f \in Files, NEW c \in [id : ChunkIds \cup {NoId}, text : Texts]
  PROVE  LET r == WithChunks(s, f, c)
         IN  /\ r \in StoreType
             /\ r.chunks[f] = c /\ \A g \in Files : g # f => r.chunks[g] = s.chunks[g]
             /\ r.status = s.status /\ r.mod = s.mod /\ r.doc = s.doc
BY DEF WithChunks, StoreType

\* Persisting a document touches nothing else.
LEMMA WithDocStore ==
  ASSUME NEW s \in StoreType, NEW f \in Files, NEW d \in [text : Texts, at : 0..MaxEdits]
  PROVE  LET r == WithDoc(s, f, d)
         IN  /\ r \in StoreType
             /\ r.doc[f] = d /\ \A g \in Files : g # f => r.doc[g] = s.doc[g]
             /\ r.status = s.status /\ r.mod = s.mod /\ r.chunks = s.chunks
BY DEF WithDoc, StoreType

\* Nor does recording the time of an edit.
LEMMA WithModStore ==
  ASSUME NEW s \in StoreType, NEW f \in Files, NEW m \in 0..MaxEdits
  PROVE  LET r == WithMod(s, f, m)
         IN  /\ r \in StoreType
             /\ r.mod[f] = m /\ \A g \in Files : g # f => r.mod[g] = s.mod[g]
             /\ r.status = s.status /\ r.doc = s.doc /\ r.chunks = s.chunks
BY DEF WithMod, StoreType

\* A sync never makes a file INDEXED and revives a SKIPPED one as DISCOVERED.
LEMMA UpsertStore ==
  ASSUME NEW s \in StoreType, NEW f \in Files, drive[f].mod \in 0..MaxEdits,
         NEW r, r = Upsert(s, f)
  PROVE  /\ r \in StoreType
         /\ r.doc = s.doc /\ r.chunks = s.chunks
         /\ \A g \in Files : g # f => r.status[g] = s.status[g]
         /\ r.status[f] = "INDEXED" => s.status[f] = "INDEXED"
         /\ s.status[f] = "SKIPPED" => r.status[f] = "DISCOVERED"
<1>1. PICK st \in Status :
        /\ Upsert(s, f) = WithStatus(WithMod(s, f, drive[f].mod), f, st)
        /\ st = "INDEXED" => s.status[f] = "INDEXED"
        /\ s.status[f] = "SKIPPED" => st = "DISCOVERED"
  <2>1. s.status[f] \in Status
    BY DEF StoreType
  <2>2. CASE s.status[f] \in {"NONE", "SKIPPED"}
    BY <2>2 DEF Upsert, Status
  <2>3. CASE s.status[f] = "INDEXED"
    BY <2>3 DEF Upsert, Status
  <2>4. CASE s.status[f] \in {"DISCOVERED", "INDEXING", "FAILED"}
    BY <2>4 DEF Upsert, Status
  <2>5. QED
    BY <2>1, <2>2, <2>3, <2>4 DEF Status
<1>2. QED
  BY <1>1, WithModStore, WithStatusStore, SMTT(30)

\* A removed file is SKIPPED, or was never there.
LEMMA MarkRemovedStore ==
  ASSUME NEW s \in StoreType, NEW f \in Files,
         NEW r, r = MarkRemoved(s, f)
  PROVE  /\ r \in StoreType
         /\ r.doc = s.doc /\ r.chunks = s.chunks
         /\ \A g \in Files : g # f => r.status[g] = s.status[g]
         /\ r.status[f] # "INDEXED"
         /\ s.status[f] = "SKIPPED" => r.status[f] = "SKIPPED"
<1>1. CASE s.status[f] = "NONE"
  BY <1>1 DEF MarkRemoved
<1>2. CASE s.status[f] # "NONE"
  <2>1. r = WithStatus(s, f, "SKIPPED") /\ "SKIPPED" \in Status
    BY <1>2 DEF MarkRemoved, Status
  <2>2. QED
    BY <2>1, WithStatusStore
<1>3. QED
  BY <1>1, <1>2

\* Chunking leaves the file alone if its rows are current; if not, it gives it
\* rows of the document's text under an id nobody has.
LEMMA ReplacementsStore ==
  ASSUME NEW f \in Files, tx \in StoreType, NEW r \in Replacements(f)
  PROVE  /\ r \in StoreType
         /\ r.status = tx.status /\ r.doc = tx.doc
         /\ \A g \in Files : g # f => r.chunks[g] = tx.chunks[g]
         /\ \/ r.chunks[f] = tx.chunks[f] /\ ChunksAreCurrent(tx, f)
            \/ r.chunks[f].id \in FreshIds(f) /\ r.chunks[f].text = tx.doc[f].text
<1>1. CASE ChunksAreCurrent(tx, f)
  BY <1>1 DEF Replacements
<1>2. CASE ~ChunksAreCurrent(tx, f)
  <2>1. PICK c \in FreshIds(f) : r = WithChunks(tx, f, [id |-> c, text |-> tx.doc[f].text])
    BY <1>2 DEF Replacements
  <2>2. [id |-> c, text |-> tx.doc[f].text] \in [id : ChunkIds \cup {NoId}, text : Texts]
    BY DEF FreshIds, StoreType
  <2>3. QED
    BY <2>1, <2>2, WithChunksStore
<1>3. QED
  BY <1>1, <1>2

-----------------------------------------------------------------------------
(* Type correctness. *)

\* Starting any job over any of the files keeps the types.
LEMMA StartType ==
  ASSUME TypeOK, NEW kind \in {"sync", "ingest", "chunk", "build"}, NEW S \in SUBSET Files,
         Start(kind, S)
  PROVE  TypeOK'
BY ConstantsAssumption DEF Start, TypeOK, NoJob

\* Writing a well-typed store and moving on to the next file keeps the types.
LEMMA DoneType ==
  ASSUME TypeOK, NEW s \in StoreType, Done(s), UNCHANGED <<drive, now, db, points, jobRow, up>>
  PROVE  TypeOK'
BY ConstantsAssumption DEF Done, TypeOK

\* So does giving the file up.
LEMMA DoneFailedType ==
  ASSUME TypeOK, NEW f \in Files, DoneFailed(f),
         UNCHANGED <<drive, now, db, points, jobRow, up>>
  PROVE  TypeOK'
<1>1. WithStatus(tx, f, "FAILED") \in StoreType
  BY WithStatusStore DEF TypeOK, Status
<1>2. QED
  BY <1>1, ConstantsAssumption DEF DoneFailed, TypeOK

\* Every step of a job keeps rows, points and job well typed.
LEMMA StepType == TypeOK /\ Step => TypeOK'
<1> SUFFICES ASSUME TypeOK, Step PROVE TypeOK'
  OBVIOUS
<1>s. \A f \in Files, st \in Status : WithStatus(tx, f, st) \in StoreType
  BY WithStatusStore DEF TypeOK
<1>1. ASSUME NEW f \in Files, SyncFile(f) PROVE TypeOK'
  <2>1. tx' \in StoreType
    BY <1>1, UpsertStore, MarkRemovedStore DEF SyncFile, TypeOK
  <2>2. QED
    BY <1>1, <2>1 DEF SyncFile, TypeOK
<1>2. ASSUME NEW f \in Files, IngestSkip(f) PROVE TypeOK'
  BY <1>2 DEF IngestSkip, TypeOK
<1>3. ASSUME NEW f \in Files, IngestCurrent(f) \/ IngestFetch(f) PROVE TypeOK'
  <2>1. tx' \in StoreType
    BY <1>3, <1>s DEF IngestCurrent, IngestFetch, Status
  <2>2. CASE IngestCurrent(f)
    BY <2>1, <2>2 DEF IngestCurrent, TypeOK
  <2>3. CASE IngestFetch(f)
    BY <2>1, <2>3 DEF IngestFetch, TypeOK
  <2>4. QED
    BY <1>3, <2>2, <2>3
<1>4. ASSUME NEW f \in Files, Download(f) PROVE TypeOK'
  BY <1>4 DEF Download, TypeOK
<1>5. ASSUME NEW f \in Files, IngestFail(f) \/ BuildFail(f) PROVE TypeOK'
  BY <1>5, DoneFailedType DEF IngestFail, BuildFail
<1>6. ASSUME NEW f \in Files, ExtractBlank(f) \/ ExtractSame(f) \/ MarkIndexed(f) PROVE TypeOK'
  BY <1>6, <1>s, DoneType DEF ExtractBlank, ExtractSame, MarkIndexed, Status
<1>7. ASSUME NEW f \in Files, ExtractNew(f) PROVE TypeOK'
  <2> DEFINE doc == [text |-> job.text, at |-> now]
  <2>1. doc \in [text : Texts, at : 0..MaxEdits]
    BY DEF TypeOK
  <2>2. Done(WithStatus(WithDoc(tx, f, doc), f, "INDEXING"))
    BY <1>7 DEF ExtractNew
  <2> HIDE DEF doc
  <2>3. WithStatus(WithDoc(tx, f, doc), f, "INDEXING") \in StoreType
    BY <2>1, WithDocStore, WithStatusStore DEF TypeOK, Status
  <2>4. UNCHANGED <<drive, now, db, points, jobRow, up>>
    BY <1>7 DEF ExtractNew
  <2>5. QED
    BY <2>2, <2>3, <2>4, DoneType
<1>8. ASSUME NEW f \in Files, ChunkFile(f) \/ BuildChunk(f) PROVE TypeOK'
  <2>1. tx' \in StoreType
    BY <1>8, ReplacementsStore DEF ChunkFile, BuildChunk, TypeOK
  <2>2. CASE ChunkFile(f)
    BY <2>1, <2>2 DEF ChunkFile, TypeOK
  <2>3. CASE BuildChunk(f)
    BY <2>1, <2>3 DEF BuildChunk, TypeOK
  <2>4. QED
    BY <1>8, <2>2, <2>3
<1>9. ASSUME NEW f \in Files, BuildPrune(f) PROVE TypeOK'
  BY <1>9 DEF BuildPrune, TypeOK
<1>10. ASSUME NEW f \in Files, UpsertBatch(f) PROVE TypeOK'
  <2>1. PICK batch \in SUBSET Pending(f) : points' = [points EXCEPT ![f] = @ \cup batch]
    BY <1>10 DEF UpsertBatch
  <2>2. Pending(f) \subseteq [id : ChunkIds \cup {NoId}, part : Parts, text : Texts]
    BY DEF Pending, PointsOf, TypeOK, StoreType
  <2>3. QED
    BY <1>10, <2>1, <2>2 DEF UpsertBatch, TypeOK
<1>11. CASE Finish
  BY <1>11, ConstantsAssumption DEF Finish, TypeOK, NoJob
<1>12. QED
  BY <1>1, <1>2, <1>3, <1>4, <1>5, <1>6, <1>7, <1>8, <1>9, <1>10, <1>11
     DEF Step, SyncStep, IngestStep, ChunkStep, BuildStep

\* Every step of the system keeps Drive, rows, points and job well typed.
LEMMA TypePreserved == TypeOK /\ [Next]_vars => TypeOK'
<1> SUFFICES ASSUME TypeOK, [Next]_vars PROVE TypeOK'
  OBVIOUS
<1> USE ConstantsAssumption
<1>1. ASSUME NEW f \in Files, NEW t \in Texts, Edit(f, t) PROVE TypeOK'
  BY <1>1 DEF Edit, EditAllowed, TypeOK
<1>2. ASSUME NEW f \in Files, TrashOrRestore(f) PROVE TypeOK'
  <2>1. PICK live \in BOOLEAN : drive' = [drive EXCEPT ![f] = [drive[f] EXCEPT !.live = live]]
    <3>1. drive[f].live \in BOOLEAN
      BY Zenon DEF TypeOK
    <3>2. drive' = [drive EXCEPT ![f] = [drive[f] EXCEPT !.live = ~drive[f].live]]
      BY <1>2, Zenon DEF TrashOrRestore
    <3>3. QED
      BY <3>1, <3>2, Zenon
  <2>2. [drive[f] EXCEPT !.live = live] \in [live : BOOLEAN, mod : 0..MaxEdits, text : Texts]
    BY Zenon DEF TypeOK
  <2>3. drive' \in [Files -> [live : BOOLEAN, mod : 0..MaxEdits, text : Texts]]
    BY <2>1, <2>2 DEF TypeOK
  <2>4. now' = now + 1 /\ now < MaxEdits /\ UNCHANGED <<db, tx, points, job, jobRow, up>>
    BY <1>2 DEF TrashOrRestore, EditAllowed
  <2>5. QED
    BY <2>3, <2>4 DEF TypeOK
<1>3. CASE SyncStart
  BY <1>3, StartType DEF SyncStart
<1>4. CASE IngestStart
  BY <1>4, StartType DEF IngestStart, Ingestible
<1>5. CASE ChunkStart \/ BuildStart
  BY <1>5, StartType DEF ChunkStart, BuildStart, StageStart, Eligible
<1>6. CASE Step
  BY <1>6, StepType
<1>7. CASE JobError
  BY <1>7 DEF JobError, TypeOK, NoJob
<1>8. CASE DbError
  BY <1>8 DEF DbError, TypeOK, NoJob
<1>9. CASE Crash
  <2>1. up' \in BOOLEAN
    BY <1>9, Zenon DEF Crash
  <2>2. job' = NoJob /\ tx' = db /\ UNCHANGED <<drive, now, db, points, jobRow>>
    BY <1>9 DEF Crash
  <2>3. QED
    BY <2>1, <2>2 DEF TypeOK, NoJob
<1>10. CASE Restart
  BY <1>10 DEF Restart, TypeOK
<1>11. CASE UNCHANGED vars
  BY <1>11 DEF vars, TypeOK
<1>12. QED
  BY <1>1, <1>2, <1>3, <1>4, <1>5, <1>6, <1>7, <1>8, <1>9, <1>10, <1>11
     DEF Next, Owner, Starts, Fault

\* The initial state is well typed.
LEMMA InitType == Init => TypeOK
<1> USE ConstantsAssumption DEF Init
<1>1. ASSUME Init PROVE drive \in [Files -> [live : BOOLEAN, mod : 0..MaxEdits, text : Texts]]
  <2>1. 0 \in 0..MaxEdits
    OBVIOUS
  <2>2. ASSUME NEW f \in Files
        PROVE  drive[f] \in [live : BOOLEAN, mod : 0..MaxEdits, text : Texts]
    <3>1. drive[f] \in [live : {TRUE}, mod : {0}, text : Texts]
      BY <1>1
    <3>2. QED
      BY <2>1, <3>1, Zenon
  <2>3. QED
    BY <1>1, <2>2
<1>2. ASSUME Init PROVE db \in StoreType /\ tx = db
  <2>1. NoDoc \in [text : Texts, at : 0..MaxEdits]
    BY DEF NoDoc
  <2>2. NoRows \in [id : ChunkIds \cup {NoId}, text : Texts]
    BY DEF NoRows
  <2>3. QED
    BY <1>2, <2>1, <2>2 DEF StoreType, Status
<1>3. ASSUME Init PROVE job \in [kind : {"idle", "sync", "ingest", "chunk", "build"},
                               pc : {"next", "fetch", "extract", "prune", "embed"},
                               todo : SUBSET Files, cur : SUBSET Files, text : Texts,
                               failed : BOOLEAN]
  BY <1>3 DEF NoJob
<1>4. ASSUME Init PROVE now \in 0..MaxEdits /\ points \in [Files -> SUBSET [id : ChunkIds \cup {NoId}, part : Parts, text : Texts]]
  BY <1>4
<1>5. ASSUME Init PROVE jobRow \in {"NONE", "RUNNING", "COMPLETED", "FAILED"} /\ up \in BOOLEAN
  BY <1>5, Zenon
<1>6. QED
  BY <1>1, <1>2, <1>3, <1>4, <1>5, Zenon DEF TypeOK

\* Every reachable state of the pipeline is well typed.
THEOREM TypeCorrect == Spec => []TypeOK
BY InitType, TypePreserved, PTL DEF Spec

-----------------------------------------------------------------------------
(* The inductive invariant. *)

\* The invariant holds at the start.
LEMMA InitIInv == Init => IInv
<1> SUFFICES ASSUME Init PROVE IInv
  OBVIOUS
<1>1. TypeOK
  BY InitType
<1>2. tx = db /\ job = NoJob /\ up
  BY DEF Init
<1>3. \A f \in Files : db.status[f] = "NONE" /\ points[f] = {}
  BY DEF Init
<1>4. Between
  BY <1>2 DEF Between, NoJob
<1>5. ASSUME NEW f \in Files PROVE FileInv(f)
  BY <1>2, <1>3 DEF NoJob, FileInv, CoherentIndexed, PointsMatch, SameRows, Claimed,
                    UnderBuild, Alone, SetAside
<1>6. QED
  BY <1>1, <1>4, <1>5 DEF IInv

\* A step that touches neither rows nor points nor the job keeps the invariant.
LEMMA Untouched ==
  ASSUME IInv, TypeOK', UNCHANGED <<db, tx, points, job>>, ~up' => job.kind = "idle"
  PROVE  IInv'
BY DEF IInv, Between, FileInv, CoherentIndexed, Coherent, HasDoc, HasChunks, PointsMatch,
       SameRows, Claimed, UnderBuild, Alone, SetAside

\* So does the start of a job, provided that chunk and build take up files that
\* are INDEXING and have a document.
LEMMA Started ==
  ASSUME IInv, TypeOK', NEW kind, NEW S \in SUBSET Files, Start(kind, S),
         kind \in {"chunk", "build"} => S \subseteq Eligible(db)
  PROVE  IInv'
<1>1. /\ tx = db /\ UNCHANGED <<db, tx, points, up>> /\ up
      /\ job'.kind = kind /\ job'.todo = S /\ job'.cur = {}
  <2>1. tx = db /\ UNCHANGED <<db, tx, points, up>> /\ up
    BY DEF Start, Idle, IInv, Between
  <2>2. job'.kind = kind /\ job'.todo = S /\ job'.cur = {}
    BY DEF Start, NoJob
  <2>3. QED
    BY <2>1, <2>2
<1>2. Between'
  BY <1>1 DEF Between
<1>3. ASSUME NEW f \in Files PROVE FileInv(f)'
  <2>1. Claimed(f)'
    BY <1>1 DEF Claimed, Eligible, HasDoc
  <2>2. CoherentIndexed(db, f)' /\ CoherentIndexed(tx, f)' /\ PointsMatch(db, f)' /\ PointsMatch(tx, f)'
    BY <1>1 DEF IInv, FileInv, CoherentIndexed, Coherent, HasDoc, HasChunks, PointsMatch
  <2>3. QED
    BY <1>1, <2>1, <2>2 DEF FileInv, SameRows, UnderBuild, Alone, SetAside
<1>4. QED
  BY <1>2, <1>3 DEF IInv

\* And the end of a job, however it ends: by commit, rollback or crash.
LEMMA Ended ==
  ASSUME IInv, TypeOK', UNCHANGED points, db' \in {db, tx}, tx' = db', job' = NoJob
  PROVE  IInv'
<1>1. job'.kind = "idle" /\ job'.todo = {} /\ job'.cur = {}
  BY DEF NoJob
<1>2. Between'
  BY <1>1 DEF Between
<1>3. ASSUME NEW f \in Files PROVE FileInv(f)'
  <2>1. CoherentIndexed(db, f)' /\ PointsMatch(db, f)'
    BY DEF IInv, FileInv, CoherentIndexed, Coherent, HasDoc, HasChunks, PointsMatch
  <2>2. CoherentIndexed(tx, f)' /\ PointsMatch(tx, f)'
    BY <2>1 DEF CoherentIndexed, Coherent, HasDoc, HasChunks, PointsMatch
  <2>3. QED
    BY <1>1, <2>1, <2>2 DEF FileInv, SameRows, Claimed, UnderBuild, Alone, SetAside
<1>4. QED
  BY <1>2, <1>3 DEF IInv

\* A step of a job on file f leaves the other files' part of the invariant alone.
LEMMA OneFile ==
  ASSUME IInv, TypeOK', NEW f \in Files, up, UNCHANGED <<db, up>>,
         job.kind # "idle", job'.kind = job.kind, job'.todo \subseteq job.todo,
         \A g \in Files \ {f} :
           /\ tx'.status[g] = tx.status[g] /\ tx'.doc[g] = tx.doc[g]
           /\ tx'.chunks[g] = tx.chunks[g] /\ points'[g] = points[g]
           /\ g \notin job'.cur \/ UNCHANGED <<job.cur, job.pc>>,
         FileInv(f)'
  PROVE  IInv'
<1>1. Between'
  BY DEF IInv, Between
<1>2. ASSUME NEW g \in Files \ {f} PROVE FileInv(g)'
  <2>1. FileInv(g)
    BY DEF IInv
  <2>2. /\ CoherentIndexed(db, g)' /\ CoherentIndexed(tx, g)'
        /\ PointsMatch(db, g)' /\ PointsMatch(tx, g)' /\ SameRows(g)'
    BY <2>1 DEF FileInv, CoherentIndexed, Coherent, HasDoc, HasChunks, PointsMatch, SameRows
  <2>3. Claimed(g)' /\ SetAside(g)' /\ Alone(g)'
    BY <2>1 DEF FileInv, Claimed, HasDoc, SetAside, Alone
  <2>4. UnderBuild(g)'
    BY <2>1 DEF FileInv, UnderBuild, HasChunks
  <2>5. QED
    BY <2>2, <2>3, <2>4 DEF FileInv
<1>3. QED
  BY <1>1, <1>2 DEF IInv

\* The job goes on to its next file, having set the status of f and perhaps its
\* document: the invariant is kept if the new status asks for nothing more.
LEMMA DoneKeeps ==
  ASSUME IInv, TypeOK', NEW f \in Files, NEW s, Done(s) \/ DoneFailed(f),
         UNCHANGED <<db, up, points>>, up, job.kind # "idle", f \in job.cur,
         job.kind = "build" \/ (job.kind = "ingest" /\ tx.status[f] = "INDEXING"),
         tx'.chunks = tx.chunks,
         \A g \in Files \ {f} : tx'.status[g] = tx.status[g] /\ tx'.doc[g] = tx.doc[g],
         tx'.status[f] = "INDEXED" => Coherent(tx, f) /\ tx'.doc = tx.doc
  PROVE  IInv'
<1> USE DEF IInv, FileInv
<1>1. job'.kind = job.kind /\ job'.todo = job.todo /\ job'.cur = {}
  BY ZenonT(40) DEF Done, DoneFailed, TypeOK
<1>2. f \notin job.todo
  BY DEF Alone
<1>3. db.status[f] # "SKIPPED"
  BY DEF SetAside, Claimed
<1>4. CoherentIndexed(db, f)' /\ CoherentIndexed(tx, f)'
  BY DEF CoherentIndexed, Coherent, HasDoc, HasChunks
<1>5. PointsMatch(db, f)' /\ PointsMatch(tx, f)' /\ SameRows(f)'
  BY DEF PointsMatch, SameRows
<1>6. Claimed(f)' /\ UnderBuild(f)' /\ Alone(f)' /\ SetAside(f)'
  BY <1>1, <1>2, <1>3 DEF Claimed, UnderBuild, Alone, SetAside
<1>7. FileInv(f)'
  BY <1>4, <1>5, <1>6
<1>8. QED
  BY <1>1, <1>7, OneFile

\* Every step of a sync or an ingestion preserves the invariant.
LEMMA SyncIngestIInv == IInv /\ (SyncStep \/ IngestStep) => IInv'
<1> SUFFICES ASSUME IInv, SyncStep \/ IngestStep PROVE IInv'
  OBVIOUS
<1>t. TypeOK /\ TypeOK'
  BY TypePreserved DEF IInv, Next, Step
<1>s. \A f \in Files, st \in Status :
        LET r == WithStatus(tx, f, st)
        IN  /\ r \in StoreType /\ r.doc = tx.doc /\ r.chunks = tx.chunks
            /\ r.status[f] = st /\ \A g \in Files : g # f => r.status[g] = tx.status[g]
  BY <1>t, WithStatusStore DEF TypeOK
<1>i. \A f \in Files : FileInv(f)
  BY DEF IInv
<1>1. ASSUME NEW f \in Files, SyncFile(f) PROVE IInv'
  <2>1. /\ UNCHANGED <<db, points, up>> /\ up /\ job.kind = "sync" /\ job'.kind = "sync"
        /\ job'.todo \subseteq job.todo /\ job'.cur = job.cur /\ job'.pc = job.pc
    BY <1>1, <1>t DEF SyncFile, Running, TypeOK
  <2>2. /\ tx'.doc = tx.doc /\ tx'.chunks = tx.chunks
        /\ \A g \in Files \ {f} : tx'.status[g] = tx.status[g]
        /\ tx'.status[f] = "INDEXED" => tx.status[f] = "INDEXED"
        /\ tx.status[f] = "SKIPPED" => tx'.status[f] \in {"SKIPPED", "DISCOVERED"}
        /\ tx.status[f] = "DISCOVERED" => tx'.status[f] \in {"SKIPPED", "DISCOVERED"}
    <3>1. CASE drive[f].live
      <4>1. tx' = Upsert(tx, f) /\ drive[f].mod \in 0..MaxEdits /\ tx \in StoreType
        BY <1>1, <1>t, <3>1 DEF SyncFile, TypeOK
      <4>2. tx.status[f] = "DISCOVERED" => tx'.status[f] = "DISCOVERED"
        <5>1. tx.status[f] = "DISCOVERED" =>
                tx' = WithStatus(WithMod(tx, f, drive[f].mod), f, "DISCOVERED")
          BY <4>1 DEF Upsert
        <5>2. WithMod(tx, f, drive[f].mod) \in StoreType /\ "DISCOVERED" \in Status
          BY <4>1, WithModStore DEF Status
        <5>3. QED
          BY <5>1, <5>2, WithStatusStore
      <4>3. QED
        BY <4>1, <4>2, UpsertStore
    <3>2. CASE ~drive[f].live
      <4>1. tx' = MarkRemoved(tx, f) /\ tx \in StoreType
        BY <1>1, <1>t, <3>2 DEF SyncFile, TypeOK
      <4>2. tx.status[f] = "DISCOVERED" => tx'.status[f] = "SKIPPED"
        BY <4>1, WithStatusStore, ZenonT(40) DEF MarkRemoved, Status
      <4>3. QED
        BY <4>1, <4>2, MarkRemovedStore
    <3>3. QED
      BY <3>1, <3>2
  <2>3. FileInv(f)'
    BY <2>1, <2>2, <1>i DEF FileInv, CoherentIndexed, Coherent, HasDoc, HasChunks, PointsMatch,
                            SameRows, Claimed, UnderBuild, Alone, SetAside
  <2>4. QED
    BY <2>1, <2>2, <2>3, <1>t, OneFile
<1>2. ASSUME NEW f \in Files, IngestSkip(f) PROVE IInv'
  <2>1. /\ UNCHANGED <<db, tx, points, up>> /\ up /\ job.kind = "ingest" /\ job'.kind = "ingest"
        /\ job'.todo \subseteq job.todo /\ job'.cur = job.cur /\ job'.pc = job.pc
    BY <1>2, <1>t DEF IngestSkip, Running, TypeOK
  <2>2. FileInv(f)'
    BY <2>1, <1>i DEF FileInv, CoherentIndexed, Coherent, HasDoc, HasChunks, PointsMatch,
                      SameRows, Claimed, UnderBuild, Alone, SetAside
  <2>3. QED
    BY <2>1, <2>2, <1>t, OneFile
<1>3. ASSUME NEW f \in Files, IngestCurrent(f) \/ IngestFetch(f) PROVE IInv'
  <2>1. /\ UNCHANGED <<db, points, up>> /\ up /\ job.kind = "ingest"
        /\ tx.status[f] # "SKIPPED" /\ tx' = WithStatus(tx, f, "INDEXING")
    BY <1>3 DEF IngestCurrent, IngestFetch, Running
  <2>2. /\ job'.kind = "ingest" /\ job'.todo = job.todo \ {f}
        /\ (job'.cur = job.cur /\ job'.pc = job.pc) \/ job'.cur = {f}
    <3>1. CASE IngestCurrent(f)
      BY <3>1, <1>t DEF IngestCurrent, Running, TypeOK
    <3>2. CASE IngestFetch(f)
      BY <3>2, <1>t DEF IngestFetch, Running, TypeOK
    <3>3. QED
      BY <1>3, <3>1, <3>2
  <2>3. /\ tx'.doc = tx.doc /\ tx'.chunks = tx.chunks /\ tx'.status[f] = "INDEXING"
        /\ \A g \in Files \ {f} : tx'.status[g] = tx.status[g]
    BY <2>1, <1>s DEF Status
  <2>4. FileInv(f)'
    BY <2>1, <2>2, <2>3, <1>i DEF FileInv, CoherentIndexed, Coherent, HasDoc, HasChunks,
            PointsMatch, SameRows, Claimed, UnderBuild, Alone, SetAside
  <2>5. QED
    BY <2>1, <2>2, <2>3, <2>4, <1>t, OneFile
<1>4. ASSUME NEW f \in Files, Download(f) PROVE IInv'
  <2>1. /\ UNCHANGED <<tx, points, up>> /\ up /\ db' = tx /\ job.kind = "ingest"
        /\ job'.kind = "ingest" /\ job'.todo = job.todo /\ job'.cur = job.cur
    BY <1>4, <1>t DEF Download, Running, TypeOK
  <2>2. ASSUME NEW g \in Files PROVE FileInv(g)'
    BY <2>1, <1>i DEF FileInv, CoherentIndexed, Coherent, HasDoc, HasChunks, PointsMatch,
                      SameRows, Claimed, UnderBuild, Alone, SetAside
  <2>3. QED
    BY <2>1, <2>2, <1>t DEF IInv, Between
<1>5. ASSUME NEW f \in Files, IngestFail(f) PROVE IInv'
  <2>1. /\ DoneFailed(f) /\ UNCHANGED <<db, up, points>> /\ up /\ job.kind = "ingest"
        /\ f \in job.cur /\ tx.status[f] = "INDEXING"
    BY <1>5, <1>i DEF IngestFail, FileInv, SetAside
  <2>2. /\ tx'.doc = tx.doc /\ tx'.chunks = tx.chunks /\ tx'.status[f] = "FAILED"
        /\ \A g \in Files \ {f} : tx'.status[g] = tx.status[g]
    BY <2>1, <1>s DEF DoneFailed, Status
  <2>3. QED
    BY <2>1, <2>2, <1>t, DoneKeeps
<1>6. ASSUME NEW f \in Files, NEW st \in {"SKIPPED", "INDEXING"}, Done(WithStatus(tx, f, st)),
             ExtractBlank(f) \/ ExtractSame(f) PROVE IInv'
  <2>1. /\ UNCHANGED <<db, up, points>> /\ up /\ job.kind = "ingest"
        /\ f \in job.cur /\ tx.status[f] = "INDEXING"
    BY <1>6, <1>i DEF ExtractBlank, ExtractSame, Running, FileInv, SetAside
  <2>2. /\ tx'.doc = tx.doc /\ tx'.chunks = tx.chunks /\ tx'.status[f] = st
        /\ \A g \in Files \ {f} : tx'.status[g] = tx.status[g]
    BY <1>6, <1>s DEF Done, Status
  <2>3. QED
    BY <1>6, <2>1, <2>2, <1>t, DoneKeeps
<1>7. ASSUME NEW f \in Files, ExtractNew(f) PROVE IInv'
  <2> DEFINE doc == [text |-> job.text, at |-> now]
  <2>1. doc \in [text : Texts, at : 0..MaxEdits]
    BY <1>t DEF TypeOK
  <2>2. /\ UNCHANGED <<db, up, points>> /\ up /\ job.kind = "ingest"
        /\ f \in job.cur /\ tx.status[f] = "INDEXING"
    BY <1>7, <1>i DEF ExtractNew, Running, FileInv, SetAside
  <2>3. Done(WithStatus(WithDoc(tx, f, doc), f, "INDEXING"))
    BY <1>7 DEF ExtractNew
  <2> HIDE DEF doc
  <2>4. /\ tx'.chunks = tx.chunks /\ tx'.status[f] = "INDEXING"
        /\ \A g \in Files \ {f} : tx'.status[g] = tx.status[g] /\ tx'.doc[g] = tx.doc[g]
    <3> DEFINE s == WithDoc(tx, f, doc)
    <3>1. /\ s \in StoreType /\ s.chunks = tx.chunks /\ s.status = tx.status
          /\ \A g \in Files \ {f} : s.doc[g] = tx.doc[g]
      BY <2>1, <1>t, WithDocStore DEF TypeOK
    <3>2. tx' = WithStatus(s, f, "INDEXING") /\ "INDEXING" \in Status
      BY <2>3 DEF Done, Status
    <3> HIDE DEF s
    <3>3. QED
      BY <3>1, <3>2, WithStatusStore
  <2>5. QED
    BY <2>2, <2>3, <2>4, <1>t, DoneKeeps
<1>8. QED
  <2>1. ASSUME NEW f \in Files, ExtractBlank(f) \/ ExtractSame(f)
        PROVE  Done(WithStatus(tx, f, "SKIPPED")) \/ Done(WithStatus(tx, f, "INDEXING"))
    BY <2>1 DEF ExtractBlank, ExtractSame
  <2>2. QED
    BY <2>1, <1>1, <1>2, <1>3, <1>4, <1>5, <1>6, <1>7 DEF SyncStep, IngestStep

\* Every step of chunking or of a build preserves the invariant.
LEMMA ChunkBuildIInv == IInv /\ (ChunkStep \/ BuildStep) => IInv'
<1> SUFFICES ASSUME IInv, ChunkStep \/ BuildStep PROVE IInv'
  OBVIOUS
<1>t. TypeOK /\ TypeOK'
  BY TypePreserved DEF IInv, Next, Step
<1>i. \A f \in Files : FileInv(f)
  BY DEF IInv
<1>s. \A f \in Files, st \in Status :
        LET r == WithStatus(tx, f, st)
        IN  /\ r \in StoreType /\ r.doc = tx.doc /\ r.chunks = tx.chunks
            /\ r.status[f] = st /\ \A g \in Files : g # f => r.status[g] = tx.status[g]
  BY <1>t, WithStatusStore DEF TypeOK
<1>r. ASSUME NEW f \in Files, f \in job.todo, job.kind \in {"chunk", "build"},
             tx' \in Replacements(f), UNCHANGED <<db, points>>
      PROVE  /\ tx'.status = tx.status /\ tx'.doc = tx.doc
             /\ db.status[f] = "INDEXING" /\ tx.status[f] = "INDEXING" /\ HasDoc(tx, f)
             /\ \A g \in Files \ {f} : tx'.chunks[g] = tx.chunks[g]
             /\ HasChunks(tx, f)' /\ tx'.chunks[f].text = tx'.doc[f].text
             /\ PointsMatch(tx, f)' /\ SameRows(f)'
  <2>1. /\ tx'.status = tx.status /\ tx'.doc = tx.doc
        /\ \A g \in Files \ {f} : tx'.chunks[g] = tx.chunks[g]
        /\ \/ tx'.chunks[f] = tx.chunks[f] /\ ChunksAreCurrent(tx, f)
           \/ tx'.chunks[f].id \in FreshIds(f) /\ tx'.chunks[f].text = tx.doc[f].text
    BY <1>r, <1>t, ReplacementsStore DEF TypeOK
  <2>2. db.status[f] = "INDEXING" /\ tx.status[f] = "INDEXING" /\ HasDoc(tx, f)
    BY <1>r, <1>i DEF FileInv, Claimed
  <2>3. CASE tx'.chunks[f] = tx.chunks[f] /\ ChunksAreCurrent(tx, f)
    BY <1>r, <1>i, <2>1, <2>2, <2>3
       DEF FileInv, ChunksAreCurrent, HasChunks, PointsMatch, SameRows
  <2>4. CASE tx'.chunks[f].id \in FreshIds(f) /\ tx'.chunks[f].text = tx.doc[f].text
    <3>1. tx'.chunks[f].id # db.chunks[f].id /\ \A p \in points[f] : p.id # tx'.chunks[f].id
      BY <2>4 DEF FreshIds
    <3>2. QED
      BY <1>r, <2>1, <2>2, <2>4, <3>1 DEF HasDoc, HasChunks, PointsMatch, SameRows
  <2>5. QED
    BY <2>1, <2>2, <2>3, <2>4
<1>1. ASSUME NEW f \in Files, ChunkFile(f) PROVE IInv'
  <2>1. /\ UNCHANGED <<db, points, up>> /\ up /\ job.kind = "chunk" /\ job'.kind = "chunk"
        /\ f \in job.todo /\ tx' \in Replacements(f)
        /\ job'.todo = job.todo \ {f} /\ job'.cur = job.cur /\ job'.pc = job.pc
    BY <1>1, <1>t DEF ChunkFile, Running, TypeOK
  <2>2. FileInv(f)'
    BY <2>1, <1>r, <1>i DEF FileInv, CoherentIndexed, Coherent, HasDoc, HasChunks, PointsMatch,
                            SameRows, Claimed, UnderBuild, Alone, SetAside
  <2>3. QED
    BY <2>1, <2>2, <1>r, <1>t, OneFile
<1>2. ASSUME NEW f \in Files, BuildChunk(f) PROVE IInv'
  <2>1. /\ UNCHANGED <<db, points, up>> /\ up /\ job.kind = "build" /\ job'.kind = "build"
        /\ f \in job.todo /\ tx' \in Replacements(f)
        /\ job'.todo = job.todo \ {f} /\ job'.cur = {f} /\ job'.pc = "prune"
    BY <1>2, <1>t DEF BuildChunk, Running, TypeOK
  <2>2. FileInv(f)'
    BY <2>1, <1>r, <1>i DEF FileInv, CoherentIndexed, Coherent, HasDoc, HasChunks, PointsMatch,
                            SameRows, Claimed, UnderBuild, Alone, SetAside
  <2>3. QED
    BY <2>1, <2>2, <1>r, <1>t, OneFile
<1>3. ASSUME NEW f \in Files, BuildPrune(f) \/ UpsertBatch(f) PROVE IInv'
  <2>1. /\ UNCHANGED <<db, tx, up>> /\ up /\ job.kind = "build" /\ f \in job.cur
        /\ db.status[f] = "INDEXING" /\ tx.status[f] = "INDEXING"
        /\ \A g \in Files \ {f} : points'[g] = points[g]
    <3>1. /\ UNCHANGED <<db, tx, up>> /\ up /\ job.kind = "build" /\ f \in job.cur
          /\ \E P : points' = [points EXCEPT ![f] = P]
      BY <1>3 DEF BuildPrune, UpsertBatch, Running
    <3>2. QED
      BY <3>1, <1>t, <1>i DEF TypeOK, FileInv, Claimed
  <2>2. /\ job'.kind = "build" /\ job'.todo = job.todo /\ job'.cur = job.cur
        /\ job.cur = {f} /\ job'.pc = "embed"
    <3>1. CASE BuildPrune(f)
      BY <2>1, <3>1, <1>t, <1>i DEF BuildPrune, TypeOK, FileInv, Alone
    <3>2. CASE UpsertBatch(f)
      BY <2>1, <3>2, <1>i DEF UpsertBatch, Running, FileInv, Alone
    <3>3. QED
      BY <1>3, <3>1, <3>2
  <2>3. points'[f] \subseteq PointsOf(tx.chunks[f])
    <3>1. CASE BuildPrune(f)
      <4>1. points'[f] = {p \in points[f] : p.id = tx.chunks[f].id}
        BY <3>1, <1>t DEF BuildPrune, TypeOK
      <4>2. ASSUME NEW p \in points[f], p.id = tx.chunks[f].id PROVE p \in PointsOf(tx.chunks[f])
        <5>1. p.text = tx.chunks[f].text
          BY <4>2, <1>i DEF FileInv, PointsMatch
        <5>2. p \in [id : ChunkIds \cup {NoId}, part : Parts, text : Texts]
          BY <1>t DEF TypeOK
        <5>3. QED
          BY <4>2, <5>1, <5>2 DEF PointsOf
      <4>3. QED
        BY <4>1, <4>2
    <3>2. CASE UpsertBatch(f)
      <4>1. PICK batch \in SUBSET Pending(f) : points' = [points EXCEPT ![f] = @ \cup batch]
        BY <3>2 DEF UpsertBatch
      <4>2. points[f] \subseteq PointsOf(tx.chunks[f])
        BY <2>1, <3>2, <1>i DEF UpsertBatch, Running, FileInv, UnderBuild
      <4>3. QED
        BY <4>1, <4>2, <1>t DEF Pending, TypeOK
    <3>3. QED
      BY <1>3, <3>1, <3>2
  <2>4. PointsMatch(tx, f)'
    BY <2>1, <2>3 DEF PointsMatch, PointsOf
  <2>5. PointsMatch(db, f)'
    BY <2>1, <2>3, <1>i DEF PointsMatch, PointsOf, FileInv, SameRows
  <2>6. FileInv(f)'
    BY <2>1, <2>2, <2>3, <2>4, <2>5, <1>i DEF FileInv, CoherentIndexed, HasDoc, HasChunks,
            SameRows, Claimed, UnderBuild, Alone, SetAside
  <2>7. QED
    BY <2>1, <2>2, <2>6, <1>t, OneFile
<1>4. ASSUME NEW f \in Files, MarkIndexed(f) PROVE IInv'
  <2>1. /\ UNCHANGED <<db, up, points>> /\ up /\ job.kind = "build" /\ f \in job.cur
        /\ Done(WithStatus(tx, f, "INDEXED")) /\ job.pc = "embed" /\ Pending(f) = {}
    BY <1>4 DEF MarkIndexed, Running
  <2>2. /\ tx'.doc = tx.doc /\ tx'.chunks = tx.chunks
        /\ \A g \in Files \ {f} : tx'.status[g] = tx.status[g]
    BY <2>1, <1>s DEF Done, Status
  <2>3. Coherent(tx, f)
    BY <2>1, <1>i DEF FileInv, Claimed, UnderBuild, Coherent, Pending
  <2>4. QED
    BY <2>1, <2>2, <2>3, <1>t, DoneKeeps
<1>5. ASSUME NEW f \in Files, BuildFail(f) PROVE IInv'
  <2>1. /\ UNCHANGED <<db, up, points>> /\ up /\ job.kind = "build" /\ f \in job.cur
        /\ DoneFailed(f)
    BY <1>5 DEF BuildFail
  <2>2. /\ tx'.doc = tx.doc /\ tx'.chunks = tx.chunks /\ tx'.status[f] = "FAILED"
        /\ \A g \in Files \ {f} : tx'.status[g] = tx.status[g]
    BY <2>1, <1>s DEF DoneFailed, Status
  <2>3. QED
    BY <2>1, <2>2, <1>t, DoneKeeps
<1>6. QED
  BY <1>1, <1>2, <1>3, <1>4, <1>5 DEF ChunkStep, BuildStep

\* Every step of the system preserves the invariant.
LEMMA NextIInv == IInv /\ [Next]_vars => IInv'
<1> SUFFICES ASSUME IInv, [Next]_vars PROVE IInv'
  OBVIOUS
<1>t. TypeOK'
  BY TypePreserved DEF IInv
<1>1. CASE Owner
  <2>1. UNCHANGED <<db, tx, points, job, up>>
    BY <1>1 DEF Owner, Edit, TrashOrRestore
  <2>2. QED
    BY <2>1, <1>t, Untouched DEF IInv, Between
<1>2. CASE Starts
  <2>1. CASE SyncStart
    <3>1. PICK S \in SUBSET Files : Start("sync", S)
      BY <2>1 DEF SyncStart
    <3>2. QED
      BY <3>1, <1>t, Started
  <2>2. CASE IngestStart
    <3>1. PICK S \in SUBSET Files : Start("ingest", S)
      <4>1. Ingestible(db) \in SUBSET Files /\ \A f \in Files : {f} \in SUBSET Files
        BY DEF Ingestible
      <4>2. QED
        BY <2>2, <4>1, Zenon DEF IngestStart
    <3>2. QED
      BY <3>1, <1>t, Started
  <2>3. ASSUME NEW kind \in {"chunk", "build"}, StageStart(kind) PROVE IInv'
    <3>1. PICK S \in SUBSET Eligible(db) : Start(kind, S)
      <4>1. /\ Eligible(db) \in SUBSET Eligible(db)
            /\ \A f \in Files : {f} \cap Eligible(db) \in SUBSET Eligible(db)
        OBVIOUS
      <4>2. QED
        BY <2>3, <4>1, Zenon DEF StageStart
    <3>2. S \in SUBSET Files /\ S \subseteq Eligible(db)
      BY DEF Eligible
    <3>3. QED
      BY <3>1, <3>2, <1>t, Started
  <2>4. QED
    BY <1>2, <2>1, <2>2, <2>3 DEF Starts, ChunkStart, BuildStart
<1>3. CASE SyncStep \/ IngestStep
  BY <1>3, SyncIngestIInv
<1>4. CASE ChunkStep \/ BuildStep
  BY <1>4, ChunkBuildIInv
<1>5. CASE Finish \/ JobError
  BY <1>5, <1>t, Ended DEF Finish, JobError
<1>6. CASE DbError \/ Crash
  BY <1>6, <1>t, Ended DEF DbError, Crash
<1>7. CASE Restart
  BY <1>7, <1>t, Untouched DEF Restart, IInv, Between
<1>8. CASE UNCHANGED vars
  BY <1>8, <1>t, Untouched DEF vars, IInv, Between
<1>9. QED
  BY <1>1, <1>2, <1>3, <1>4, <1>5, <1>6, <1>7, <1>8 DEF Next, Step, Fault

\* The invariant holds in every reachable state.
LEMMA Invariance == Spec => []IInv
BY InitIInv, NextIInv, PTL DEF Spec

\* A file retrieval may use is never half replaced: in every reachable state the
\* document, the chunk rows and the Qdrant points of an INDEXED file agree,
\* whatever failed and whenever (_index_document, _replace_chunks and
\* _ingest_single_file with their commits and handlers).
THEOREM IndexedFilesAreCoherent == Spec => []IndexedIsCoherent
<1>1. IInv => IndexedIsCoherent
  BY DEF IInv, FileInv, CoherentIndexed, IndexedIsCoherent
<1>2. QED
  BY <1>1, Invariance, PTL

\* A file set aside as SKIPPED comes back only through a sync, as DISCOVERED: no
\* ingest, chunk or build request, and no failure of one, can revive it.
THEOREM SkippedFilesStayAside == Spec => SkippedComesBackBySync
<1> DEFINE Back == \A f \in Files :
             db.status[f] = "SKIPPED" /\ db'.status[f] # "SKIPPED"
               => job.kind = "sync" /\ db'.status[f] = "DISCOVERED"
<1>1. IInv /\ [Next]_vars => [Back]_vars
  <2> SUFFICES ASSUME IInv, Next, NEW f \in Files, db.status[f] = "SKIPPED", db'.status[f] # "SKIPPED"
               PROVE  job.kind = "sync" /\ db'.status[f] = "DISCOVERED"
    OBVIOUS
  <2>1. UNCHANGED db \/ db' = tx
    BY DEF Next, Owner, Edit, TrashOrRestore, Starts, SyncStart, IngestStart, ChunkStart,
           BuildStart, StageStart, Start, Step, SyncStep, SyncFile, IngestStep, IngestSkip,
           IngestCurrent, IngestFetch, Download, IngestFail, ExtractBlank, ExtractSame,
           ExtractNew, ChunkStep, ChunkFile, BuildStep, BuildChunk, BuildPrune, UpsertBatch,
           MarkIndexed, BuildFail, Finish, Fault, JobError, DbError, Crash, Restart
  <2>2. QED
    BY <2>1 DEF IInv, FileInv, SetAside
<1>2. QED
  BY <1>1, Invariance, PTL DEF Spec, SkippedComesBackBySync

-----------------------------------------------------------------------------
(* The pipeline implements ServedIndex. *)

\* While a file stays INDEXED nothing touches its points: only a build writes to
\* Qdrant, and a build claims its files as INDEXING.
LEMMA IndexedPointsStay ==
  ASSUME IInv, [Next]_vars, NEW f \in Files, db.status[f] = "INDEXED"
  PROVE  points'[f] = points[f]
<1>1. \/ UNCHANGED points
      \/ \E g \in Files : BuildPrune(g) \/ UpsertBatch(g)
  <2>1. CASE Starts
    <3>1. CASE SyncStart
      BY <3>1 DEF SyncStart, Start
    <3>2. CASE IngestStart
      BY <3>2, Zenon DEF IngestStart, Start
    <3>3. CASE ChunkStart \/ BuildStart
      BY <3>3, Zenon DEF ChunkStart, BuildStart, StageStart, Start
    <3>4. QED
      BY <2>1, <3>1, <3>2, <3>3 DEF Starts
  <2>2. CASE SyncStep \/ IngestStep
    BY <2>2, Zenon DEF SyncStep, SyncFile, IngestStep, IngestSkip, IngestCurrent, IngestFetch,
                Download, IngestFail, ExtractBlank, ExtractSame, ExtractNew
  <2>3. CASE ChunkStep \/ BuildStep
    BY <2>3, Zenon DEF ChunkStep, ChunkFile, BuildStep, BuildChunk, MarkIndexed, BuildFail
  <2>4. CASE Owner \/ Finish
    BY <2>4, Zenon DEF Owner, Edit, TrashOrRestore, Finish
  <2>5. CASE Fault \/ Restart \/ UNCHANGED vars
    BY <2>5, Zenon DEF Fault, JobError, DbError, Crash, Restart, vars
  <2>6. QED
    BY <2>1, <2>2, <2>3, <2>4, <2>5, Zenon DEF Next, Step
<1>2. CASE UNCHANGED points
  BY <1>2
<1>3. CASE \E g \in Files : BuildPrune(g) \/ UpsertBatch(g)
  <2>1. PICK g \in Files : BuildPrune(g) \/ UpsertBatch(g)
    BY <1>3
  <2>2. job.kind = "build" /\ g \in job.cur
    BY <2>1 DEF BuildPrune, UpsertBatch, Running
  <2>3. f # g
    BY <2>2 DEF IInv, FileInv, Claimed
  <2>4. points \in [Files -> SUBSET [id : ChunkIds \cup {NoId}, part : Parts, text : Texts]]
    BY DEF IInv, TypeOK
  <2>5. QED
    BY <2>1, <2>3, <2>4 DEF BuildPrune, UpsertBatch
<1>4. QED
  BY <1>1, <1>2, <1>3

\* Both searches find the whole of what an INDEXED file's points carry.
ServedWhole ==
  \A f \in Files :
    db.status[f] = "INDEXED" =>
      /\ db.chunks[f].text \in Texts
      /\ Served[f].keyword = {db.chunks[f].text} \X Parts
      /\ Served[f].vector = {db.chunks[f].text} \X Parts
      /\ Served[f] = Index!Whole(db.chunks[f].text)

\* The points of a chunk set, as vector search sees them.
LEMMA PointTexts ==
  ASSUME NEW c, NEW t, c.text = t
  PROVE  {<<p.text, p.part>> : p \in PointsOf(c)} = {t} \X Parts
<1>1. ASSUME NEW x \in {<<p.text, p.part>> : p \in PointsOf(c)}
      PROVE  x \in {t} \X Parts
  BY DEF PointsOf
<1>2. ASSUME NEW x \in {t} \X Parts
      PROVE  x \in {<<p.text, p.part>> : p \in PointsOf(c)}
  <2>1. PICK q \in Parts : x = <<t, q>>
    OBVIOUS
  <2>2. [id |-> c.id, part |-> q, text |-> t] \in PointsOf(c)
    BY DEF PointsOf
  <2>3. QED
    BY <2>1, <2>2
<1>3. QED
  BY <1>1, <1>2

\* A coherent INDEXED file is found by both searches, as one whole text.
LEMMA CoherentServed == IInv => ServedWhole
<1> SUFFICES ASSUME IInv, NEW f \in Files, db.status[f] = "INDEXED"
             PROVE  /\ db.chunks[f].text \in Texts
                    /\ Served[f].keyword = {db.chunks[f].text} \X Parts
                    /\ Served[f].vector = {db.chunks[f].text} \X Parts
                    /\ Served[f] = Index!Whole(db.chunks[f].text)
  BY DEF ServedWhole
<1> DEFINE found == {<<p.text, p.part>> : p \in points[f]}
<1>1. points[f] = PointsOf(db.chunks[f])
  BY DEF IInv, FileInv, CoherentIndexed, Coherent
<1>2. db.chunks[f].text \in Texts
  BY DEF IInv, TypeOK, StoreType
<1>3. found = {db.chunks[f].text} \X Parts
  BY <1>1, PointTexts
<1>4. Served[f] = [keyword |-> {db.chunks[f].text} \X Parts, vector |-> found]
  BY Zenon DEF Served
<1> HIDE DEF found
<1>5. QED
  BY <1>2, <1>3, <1>4 DEF Index!Whole

\* The pipeline implements ServedIndex, under every fault: a file's searchable text
\* appears and disappears as a whole and is never swapped in place (what _index_document,
\* its prune and upsert calls and the commits around them show to hybrid retrieval).
THEOREM PipelineServesWholeTexts == Spec => ServesWholeTexts
<1>1. Init => Index!Init
  <2> SUFFICES ASSUME Init PROVE Index!Init
    OBVIOUS
  <2>1. \A f \in Files : db.status[f] = "NONE"
    BY DEF Init
  <2>2. QED
    BY <2>1, Zenon DEF Index!Init, Index!Nothing, Served
<1>2. ServedWhole /\ ServedWhole' /\ IInv /\ [Next]_vars => [Index!Next]_Served
  <2> SUFFICES ASSUME ServedWhole, ServedWhole', IInv, [Next]_vars
               PROVE  Index!Next
    OBVIOUS
  <2>1. Served' = [f \in Files |-> Served'[f]]
    BY Zenon DEF Served
  <2>2. ASSUME NEW f \in Files
        PROVE  Index!Publish(f) \/ Index!Withdraw(f) \/ Index!Keep(f)
    <3>1. CASE db'.status[f] # "INDEXED"
      BY <3>1, Zenon DEF Served, Index!Withdraw, Index!Nothing
    <3>2. CASE db'.status[f] = "INDEXED" /\ db.status[f] # "INDEXED"
      <4>1. Served[f] = Index!Nothing
        BY <3>2, Zenon DEF Served, Index!Nothing
      <4>2. db'.chunks[f].text \in Texts /\ Served'[f] = Index!Whole(db'.chunks[f].text)
        BY <3>2 DEF ServedWhole
      <4>3. QED
        BY <4>1, <4>2, Zenon DEF Index!Publish
    <3>3. CASE db'.status[f] = "INDEXED" /\ db.status[f] = "INDEXED"
      <4>1. points'[f] = points[f]
        BY <3>3, IndexedPointsStay
      <4>2. Served[f].vector = {<<p.text, p.part>> : p \in points[f]}
            /\ Served'[f].vector = {<<p.text, p.part>> : p \in points'[f]}
        BY <3>3 DEF Served
      <4>3. {db.chunks[f].text} \X Parts = {db'.chunks[f].text} \X Parts
        <5>1. Served[f].vector = {db.chunks[f].text} \X Parts
              /\ Served'[f].vector = {db'.chunks[f].text} \X Parts
          BY <3>3 DEF ServedWhole
        <5>2. QED
          BY <4>1, <4>2, <5>1
      <4>4. Served[f] = Index!Whole(db.chunks[f].text) /\ Served'[f] = Index!Whole(db'.chunks[f].text)
        BY <3>3 DEF ServedWhole
      <4>5. QED
        BY <4>3, <4>4, Zenon DEF Index!Keep, Index!Whole
    <3>4. QED
      BY <3>1, <3>2, <3>3
  <2>3. QED
    BY <2>1, <2>2, Zenon DEF Index!Next
<1>3. QED
  BY <1>1, <1>2, CoherentServed, Invariance, PTL DEF Spec, ServesWholeTexts, Index!Spec

=============================================================================
