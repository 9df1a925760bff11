----------------------- MODULE PrepareKnowledgeProofs ------------------------
(***************************************************************************)
(* What prepareKnowledge() promises, for any files, texts and edits, until *)
(* a click finds a job still running.  Until then its steps are steps of   *)
(* the pipeline, and what is proved of that holds here under every fault.  *)
(* The promises of the flow itself hold between faults: the theorems about *)
(* them assume that none strikes.                                          *)
(***************************************************************************)
EXTENDS PrepareKnowledge, IndexPipelineProofs

Stops   == {"rest", "ready", "error"}
Walking == {"read", "reading", "search", "chunking", "building"}

\* The jobs that may run while the flow is there.  After an expired poll, any.
JobsAt(pc) ==
  CASE pc = "scanning" -> {"idle", "sync"}
    [] pc = "reading"  -> {"idle", "ingest"}
    [] pc = "chunking" -> {"idle", "chunk"}
    [] pc = "building" -> {"idle", "build"}
    [] pc = "error" /\ "timeout" \in Interruptions -> {"idle", "sync", "ingest", "chunk", "build"}
    [] OTHER           -> {"idle"}

PendingType == [ingest : BOOLEAN, chunk : BOOLEAN, build : BOOLEAN]

PageType == [pc : Stops \cup Walking \cup {"scanning"}, pending : PendingType,
             warned : BOOLEAN, early : BOOLEAN, free : BOOLEAN]

PhaseInv ==
  /\ ui \in PageType
  /\ disturbed \subseteq Files
  /\ up
  /\ job.kind \in JobsAt(ui.pc)
  /\ IF job.kind = "idle" THEN job = NoJob ELSE jobRow = "RUNNING"
  /\ job.pc = "next" => job.cur = {}
  /\ ui.early => ui.pc = "ready"

Ingesting(f) == job.kind = "ingest" /\ f \in job.cur

\* Times run forward, and a file that waits has a document.
FileWaits(f) ==
  /\ drive[f].mod <= now /\ db.mod[f] <= now /\ tx.mod[f] <= now /\ tx.doc[f].at <= now
  /\ tx.status[f] = "INDEXING" /\ ~Ingesting(f) => HasDoc(tx, f)
  /\ job.kind = "ingest" /\ f \in job.todo \cup job.cur => tx.status[f] # "NONE"

WaitInv == \A f \in Files : FileWaits(f)

Holds(s, f) == s.doc[f].text = drive[f].text

NoNews(f) ==
  IF drive[f].live THEN tx.status[f] # "NONE" /\ tx.mod[f] = drive[f].mod ELSE tx.status[f] \in {"NONE", "SKIPPED"}

\* The sync of this preparation has dealt with every file.
Scanned == job.kind \in {"ingest", "chunk", "build"} \/ ui.pc \in Walking \/ (ui.pc = "scanning" /\ job.kind = "idle")

\* A file nobody disturbed: a document no older than its edit is its text, so is one that
\* waits or is served, and what was downloaded; and a sync leaves no news of it.
Fresh(f) ==
  /\ HasDoc(tx, f) /\ tx.doc[f].at >= drive[f].mod => Holds(tx, f)
  /\ job.kind = "ingest" /\ job.pc = "extract" /\ f \in job.cur => job.text = drive[f].text
  /\ \A s \in {db, tx} : s.status[f] = "INDEXED" /\ s.mod[f] = drive[f].mod => Holds(s, f)
  /\ tx.status[f] = "INDEXING" /\ ~Ingesting(f) => Holds(tx, f)
  /\ Scanned => NoNews(f)
  /\ job.kind = "sync" => f \in job.todo \/ NoNews(f)

FreshInv == \A f \in Files \ disturbed : Fresh(f)

EarlyInv == ui.early => \A f \in Files : Settled(f)

\* What is left to do for f at each point of the flow, when every count it goes by is
\* of the rows as they are.
Unread(f) == tx.status[f] \in {"DISCOVERED", "FAILED"}

Left(f) ==
  /\ ui.pc = "reading" => (Unread(f) => f \in job.todo \/ job.failed \/ jobRow = "FAILED")
  /\ ui.pc \in {"search", "chunking", "ready"} /\ ~ui.warned => ~Unread(f)
  /\ ui.pc = "building" /\ ~ui.warned => (Unread(f) => job.failed \/ jobRow = "FAILED")
  /\ ui.pc = "chunking" /\ tx.status[f] = "INDEXING" => f \in job.todo \/ HasChunks(tx, f)
  /\ ui.pc = "building" /\ tx.status[f] = "INDEXING" => f \in job.todo \cup job.cur
  /\ ui.pc = "ready" => tx.status[f] # "INDEXING"

LeftInv == \A f \in Files : Left(f)

-----------------------------------------------------------------------------
(* The flow drives the pipeline. *)

\* A click that finds no job running.
ClickAlone ==
  /\ Resting
  /\ \E S \in SUBSET Files : News \subseteq S /\ Start("sync", S)
  /\ ui' = [Rest EXCEPT !.pc = "scanning"]

\* The steps of a flow that meets no job of an earlier one.
NextAlone ==
  \/ OwnerP
  \/ (ClickAlone \/ ClickFails \/ Look \/ Flow \/ Timeout \/ ServerP) /\ UNCHANGED disturbed

LEMMA UntilOverlap == ASSUME [NextP]_pvars, ~overlapped' PROVE ~overlapped /\ [NextAlone]_<<vars, ui, disturbed>>
<1>1. CASE OwnerP /\ UNCHANGED overlaps
  BY <1>1 DEF NextAlone, overlaps
<1>2. CASE (Look \/ ClickFails \/ Flow \/ Timeout) /\ UNCHANGED <<disturbed, overlaps>>
  BY <1>2 DEF NextAlone, overlaps
<1>3. CASE Click /\ UNCHANGED disturbed
  <2>1. PICK S \in SUBSET Files : News \subseteq S /\ (ClickAtRest(S) \/ ClickBeside(S))
    BY <1>3 DEF Click
  <2>2. ClickAtRest(S)
    BY <2>1 DEF ClickBeside
  <2>3. Start("sync", S) /\ UNCHANGED overlapped
    BY <2>2 DEF ClickAtRest, overlaps
  <2>4. ClickAlone
    BY <1>3, <2>1, <2>3 DEF Click, ClickAlone
  <2> QED BY <1>3, <2>3, <2>4 DEF NextAlone
<1>4. CASE ServerP /\ UNCHANGED disturbed
  BY <1>4 DEF ServerP, NextAlone
<1>5. CASE Beside
  BY <1>5 DEF Beside
<1>6. CASE UNCHANGED pvars
  BY <1>6 DEF pvars, overlaps
<1> QED BY <1>1, <1>2, <1>3, <1>4, <1>5, <1>6 DEF NextP

LEMMA FlowSteps == [NextAlone]_<<vars, ui, disturbed>> => [Next]_vars
<1> SUFFICES ASSUME [NextAlone]_<<vars, ui, disturbed>> PROVE [Next]_vars
  OBVIOUS
<1>1. CASE OwnerP
  BY <1>1 DEF OwnerP, Next, Owner
<1>2. CASE ClickAlone
  BY <1>2 DEF ClickAlone, Next, Starts, SyncStart
<1>3. CASE Read
  BY <1>3 DEF Read, Next, Starts, IngestStart
<1>4. CASE Search
  BY <1>4 DEF Search, Next, Starts, ChunkStart, BuildStart, StageStart
<1>5. CASE ScanDone \/ ReadDone \/ ReadFailed \/ ChunkDone \/ BuildDone \/ StepFailed \/ StartFailed \/ Timeout \/ Look \/ ClickFails
  BY <1>5 DEF ClickFails, ScanDone, ReadDone, ReadFailed, ChunkDone, BuildDone, StepFailed, StartFailed, Timeout, Look
<1>6. CASE ServerP
  BY <1>6 DEF ServerP, Next
<1>7. CASE UNCHANGED <<vars, ui, disturbed>>
  BY <1>7
<1> QED BY <1>1, <1>2, <1>3, <1>4, <1>5, <1>6, <1>7 DEF NextAlone, Flow

\* Whatever times out or fails, prepareKnowledge() asks of the server only what the
\* pipeline allows: up to the first click that finds a job still running, which
\* /index/sync does not refuse, its steps are steps of IndexPipeline.
THEOREM PreparationDrivesThePipeline == SpecP => Init /\ [][overlapped' \/ [Next]_vars]_pvars
<1>1. [NextP]_pvars => overlapped' \/ [Next]_vars
  BY UntilOverlap, FlowSteps
<1>2. InitP => Init
  BY DEF InitP
<1> QED BY <1>1, <1>2, PTL DEF SpecP

-----------------------------------------------------------------------------
(* What a step of a job does to the files. *)

LEMMA UpsertRows ==
  ASSUME NEW s \in StoreType, NEW f \in Files, drive[f].mod \in 0..MaxEdits, NEW r, r = Upsert(s, f)
  PROVE  /\ r.mod[f] = drive[f].mod /\ \A g \in Files \ {f} : r.mod[g] = s.mod[g]
         /\ r.status[f] # "NONE"
         /\ r.status[f] = "INDEXED" => s.status[f] = "INDEXED" /\ s.mod[f] = drive[f].mod
         /\ r.status[f] = "INDEXING" => s.status[f] = "INDEXING"
<1> DEFINE m == WithMod(s, f, drive[f].mod)
<1>1. /\ m \in StoreType /\ m.mod[f] = drive[f].mod /\ \A g \in Files \ {f} : m.mod[g] = s.mod[g]
  BY WithModStore
<1>2. PICK st \in Status :
        /\ r = WithStatus(m, f, st) /\ st # "NONE"
        /\ st = "INDEXED" => s.status[f] = "INDEXED" /\ s.mod[f] = drive[f].mod
        /\ st = "INDEXING" => s.status[f] = "INDEXING"
  <2>1. s.status[f] \in Status
    BY DEF StoreType
  <2>2. CASE s.status[f] \in {"NONE", "SKIPPED"}
    BY <2>2 DEF Upsert, Status
  <2>3. CASE s.status[f] = "INDEXED"
    BY <2>3 DEF Upsert, Status
  <2>4. CASE s.status[f] \in {"DISCOVERED", "INDEXING", "FAILED"}
    BY <2>4 DEF Upsert, Status
  <2> QED BY <2>1, <2>2, <2>3, <2>4 DEF Status
<1> HIDE DEF m
<1> QED BY <1>1, <1>2, WithStatusStore

LEMMA RemovedRows ==
  ASSUME NEW s \in StoreType, NEW f \in Files, NEW r, r = MarkRemoved(s, f)
  PROVE  r.mod = s.mod /\ r.status[f] \in {"NONE", "SKIPPED"}
<1>1. CASE s.status[f] = "NONE"
  BY <1>1 DEF MarkRemoved
<1>2. CASE s.status[f] # "NONE"
  <2>1. r = WithStatus(s, f, "SKIPPED") /\ "SKIPPED" \in Status
    BY <1>2 DEF MarkRemoved, Status
  <2> QED BY <2>1, WithStatusStore
<1> QED BY <1>1, <1>2

LEMMA ReplacedRows ==
  ASSUME NEW f \in Files, tx \in StoreType, NEW r \in Replacements(f)
  PROVE  /\ r.status = tx.status /\ r.mod = tx.mod /\ r.doc = tx.doc
         /\ \A g \in Files \ {f} : r.chunks[g] = tx.chunks[g]
         /\ HasDoc(tx, f) => HasChunks(r, f)
<1>1. r.mod = tx.mod
  <2>1. CASE ChunksAreCurrent(tx, f)
    BY <2>1 DEF Replacements
  <2>2. CASE ~ChunksAreCurrent(tx, f)
    <3>1. PICK c \in FreshIds(f) : r = WithChunks(tx, f, [id |-> c, text |-> tx.doc[f].text])
      BY <2>2 DEF Replacements
    <3>2. [id |-> c, text |-> tx.doc[f].text] \in [id : ChunkIds \cup {NoId}, text : Texts]
      BY DEF FreshIds, StoreType
    <3> QED BY <3>1, <3>2, WithChunksStore
  <2> QED BY <2>1, <2>2
<1> QED BY <1>1, ReplacementsStore DEF HasDoc, HasChunks, ChunksAreCurrent

\* A step of a job for file f.
SameOthers(f) ==
  \A g \in Files \ {f} : /\ tx'.status[g] = tx.status[g] /\ tx'.mod[g] = tx.mod[g]
                         /\ tx'.doc[g] = tx.doc[g] /\ tx'.chunks[g] = tx.chunks[g]

OnFile(f) ==
  /\ f \in Files /\ UNCHANGED <<drive, now, jobRow, up>> /\ db' \in {db, tx} /\ SameOthers(f)
  /\ job.kind # "idle" /\ job'.kind = job.kind
  /\ job'.todo \subseteq job.todo /\ job.todo \ {f} \subseteq job'.todo
  /\ job.cur \subseteq {f} /\ job'.cur \subseteq {f} /\ (job'.pc = "next" => job'.cur = {})
  /\ job.failed => job'.failed

LEMMA SetStatus ==
  ASSUME TypeOK, NEW f \in Files, NEW st \in Status, tx' = WithStatus(tx, f, st)
  PROVE  SameOthers(f) /\ tx'.status[f] = st /\ tx'.mod = tx.mod /\ tx'.doc = tx.doc /\ tx'.chunks = tx.chunks
BY WithStatusStore DEF TypeOK, SameOthers

LEMMA SyncOnFile ==
  ASSUME IInv, PhaseInv, NEW f \in Files, SyncFile(f)
  PROVE  /\ OnFile(f) /\ UNCHANGED db /\ job.kind = "sync" /\ job'.pc = job.pc /\ tx'.doc = tx.doc
         /\ IF drive[f].live THEN tx'.mod[f] = drive[f].mod /\ tx'.status[f] # "NONE"
                             ELSE tx'.mod[f] = tx.mod[f] /\ tx'.status[f] \in {"NONE", "SKIPPED"}
         /\ tx'.status[f] = "INDEXED" => tx.status[f] = "INDEXED" /\ tx'.mod[f] = tx.mod[f]
         /\ tx'.status[f] = "INDEXING" => tx.status[f] = "INDEXING"
<1>1. TypeOK /\ tx \in StoreType /\ drive[f].mod \in 0..MaxEdits
  BY DEF IInv, TypeOK
<1>2. /\ job' = [job EXCEPT !.todo = @ \ {f}] /\ job.kind = "sync" /\ job.pc = "next" /\ job.cur = {}
      /\ UNCHANGED <<drive, now, db, points, jobRow, up>>
      /\ tx' = IF drive[f].live THEN Upsert(tx, f) ELSE MarkRemoved(tx, f)
  BY DEF SyncFile, Running, PhaseInv
<1>3. /\ job'.kind = job.kind /\ job'.pc = job.pc /\ job'.cur = {} /\ job'.failed = job.failed /\ job'.todo = job.todo \ {f}
  BY <1>1, <1>2 DEF TypeOK
<1>4. CASE drive[f].live
  <2>1. tx' = Upsert(tx, f)
    BY <1>2, <1>4
  <2>2. /\ tx'.doc = tx.doc /\ tx'.chunks = tx.chunks /\ (\A g \in Files : g # f => tx'.status[g] = tx.status[g])
        /\ tx'.status[f] = "INDEXED" => tx.status[f] = "INDEXED"
    BY <1>1, <2>1, UpsertStore
  <2>3. /\ tx'.mod[f] = drive[f].mod /\ (\A g \in Files \ {f} : tx'.mod[g] = tx.mod[g])
        /\ tx'.status[f] # "NONE"
        /\ tx'.status[f] = "INDEXED" => tx.status[f] = "INDEXED" /\ tx.mod[f] = drive[f].mod
        /\ tx'.status[f] = "INDEXING" => tx.status[f] = "INDEXING"
    BY <1>1, <2>1, UpsertRows
  <2> QED BY <1>2, <1>3, <1>4, <2>2, <2>3 DEF OnFile, SameOthers
<1>5. CASE ~drive[f].live
  <2>1. tx' = MarkRemoved(tx, f)
    BY <1>2, <1>5
  <2>2. /\ tx'.doc = tx.doc /\ tx'.chunks = tx.chunks /\ (\A g \in Files : g # f => tx'.status[g] = tx.status[g])
    BY <1>1, <2>1, MarkRemovedStore
  <2>3. tx'.mod = tx.mod /\ tx'.status[f] \in {"NONE", "SKIPPED"}
    BY <1>1, <2>1, RemovedRows
  <2> QED BY <1>2, <1>3, <1>5, <2>2, <2>3 DEF OnFile, SameOthers
<1> QED BY <1>4, <1>5

LEMMA IngestOnFile ==
  ASSUME IInv, PhaseInv, NEW f \in Files, IngestSkip(f) \/ IngestCurrent(f) \/ IngestFetch(f) \/ Download(f) \/ IngestFail(f)
  PROVE  /\ OnFile(f) /\ job.kind = "ingest" /\ tx'.mod = tx.mod /\ tx'.doc = tx.doc
         /\ f \in job.todo \/ f \in job.cur
         /\ \/ IngestSkip(f) /\ UNCHANGED <<db, tx>> /\ tx.status[f] = "SKIPPED" /\ job.cur = {} /\ job'.cur = {}
            \/ /\ IngestCurrent(f) /\ UNCHANGED db /\ tx'.status[f] = "INDEXING" /\ tx.status[f] # "SKIPPED"
               /\ IsDocumentCurrent(tx, f) /\ job.cur = {} /\ job'.cur = {}
            \/ IngestFetch(f) /\ UNCHANGED db /\ tx'.status[f] = "INDEXING" /\ job'.cur = {f} /\ job'.pc = "fetch"
            \/ /\ Download(f) /\ UNCHANGED tx /\ db' = tx /\ job'.todo = job.todo /\ job'.cur = job.cur /\ f \in job.cur
               /\ job'.text = drive[f].text
            \/ IngestFail(f) /\ UNCHANGED db /\ tx'.status[f] = "FAILED" /\ job'.cur = {} /\ job'.failed
<1> USE DEF IInv
<1>1. job \in [kind : {"idle", "sync", "ingest", "chunk", "build"}, pc : {"next", "fetch", "extract", "prune", "embed"},
               todo : SUBSET Files, cur : SUBSET Files, text : Texts, failed : BOOLEAN]
  BY DEF TypeOK
<1>2. job.pc = "next" => job.cur = {}
  BY DEF PhaseInv
<1>3. f \in job.cur => job.cur = {f}
  BY DEF FileInv, Alone
<1>4. CASE IngestSkip(f)
  <2>1. job' = [job EXCEPT !.todo = @ \ {f}] /\ UNCHANGED <<drive, now, db, tx, jobRow, up>> /\ job.kind = "ingest"
        /\ job.pc = "next" /\ f \in job.todo /\ tx.status[f] = "SKIPPED"
    BY <1>4 DEF IngestSkip, Running
  <2> QED BY <1>1, <1>2, <1>4, <2>1 DEF OnFile, SameOthers
<1>5. CASE IngestCurrent(f)
  <2>1. job' = [job EXCEPT !.todo = @ \ {f}] /\ UNCHANGED <<drive, now, db, jobRow, up>> /\ job.kind = "ingest"
        /\ job.pc = "next" /\ f \in job.todo /\ tx.status[f] # "SKIPPED" /\ IsDocumentCurrent(tx, f)
        /\ tx' = WithStatus(tx, f, "INDEXING") /\ "INDEXING" \in Status
    BY <1>5 DEF IngestCurrent, Running, Status
  <2>2. SameOthers(f) /\ tx'.status[f] = "INDEXING" /\ tx'.mod = tx.mod /\ tx'.doc = tx.doc
    BY <2>1, SetStatus
  <2> QED BY <1>1, <1>2, <1>5, <2>1, <2>2 DEF OnFile
<1>6. CASE IngestFetch(f)
  <2>1. job' = [job EXCEPT !.todo = @ \ {f}, !.cur = {f}, !.pc = "fetch"] /\ UNCHANGED <<drive, now, db, jobRow, up>>
        /\ job.kind = "ingest" /\ job.pc = "next" /\ f \in job.todo
        /\ tx' = WithStatus(tx, f, "INDEXING") /\ "INDEXING" \in Status
    BY <1>6 DEF IngestFetch, Running, Status
  <2>2. SameOthers(f) /\ tx'.status[f] = "INDEXING" /\ tx'.mod = tx.mod /\ tx'.doc = tx.doc
    BY <2>1, SetStatus
  <2> QED BY <1>1, <1>2, <1>6, <2>1, <2>2 DEF OnFile
<1>7. CASE Download(f)
  <2>1. job' = [job EXCEPT !.pc = "extract", !.text = drive[f].text] /\ UNCHANGED <<drive, now, tx, jobRow, up>>
        /\ job.kind = "ingest" /\ f \in job.cur /\ db' = tx
    BY <1>7 DEF Download, Running
  <2> QED BY <1>1, <1>3, <1>7, <2>1 DEF OnFile, SameOthers
<1>8. CASE IngestFail(f)
  <2>1. job' = [job EXCEPT !.pc = "next", !.cur = {}, !.text = Blank, !.failed = TRUE]
        /\ UNCHANGED <<drive, now, db, jobRow, up>> /\ job.kind = "ingest" /\ f \in job.cur
        /\ tx' = WithStatus(tx, f, "FAILED") /\ "FAILED" \in Status
    BY <1>8 DEF IngestFail, DoneFailed, Status
  <2>2. SameOthers(f) /\ tx'.status[f] = "FAILED" /\ tx'.mod = tx.mod /\ tx'.doc = tx.doc
    BY <2>1, SetStatus
  <2> QED BY <1>1, <1>3, <1>8, <2>1, <2>2 DEF OnFile
<1> QED BY <1>4, <1>5, <1>6, <1>7, <1>8

LEMMA ExtractOnFile ==
  ASSUME IInv, PhaseInv, NEW f \in Files, ExtractBlank(f) \/ ExtractSame(f) \/ ExtractNew(f)
  PROVE  /\ OnFile(f) /\ UNCHANGED db /\ job.kind = "ingest" /\ job.pc = "extract" /\ f \in job.cur /\ job'.cur = {}
         /\ tx'.mod = tx.mod
         /\ \/ ExtractBlank(f) /\ tx'.status[f] = "SKIPPED" /\ tx'.doc = tx.doc
            \/ ExtractSame(f) /\ tx'.status[f] = "INDEXING" /\ tx'.doc = tx.doc /\ tx.doc[f].text = job.text /\ job.text # Blank
            \/ ExtractNew(f) /\ tx'.status[f] = "INDEXING" /\ tx'.doc[f] = [text |-> job.text, at |-> now] /\ job.text # Blank
<1> USE DEF IInv
<1>1. job \in [kind : {"idle", "sync", "ingest", "chunk", "build"}, pc : {"next", "fetch", "extract", "prune", "embed"},
               todo : SUBSET Files, cur : SUBSET Files, text : Texts, failed : BOOLEAN]
  BY DEF TypeOK
<1>2. /\ job' = [job EXCEPT !.pc = "next", !.cur = {}, !.text = Blank] /\ UNCHANGED <<drive, now, db, jobRow, up>>
      /\ job.kind = "ingest" /\ job.pc = "extract" /\ f \in job.cur
  BY DEF ExtractBlank, ExtractSame, ExtractNew, Running, Done
<1>3. job.cur = {f}
  BY <1>2 DEF FileInv, Alone
<1>4. /\ job'.kind = job.kind /\ job'.todo = job.todo /\ job'.cur = {} /\ job'.failed = job.failed
  BY <1>1, <1>2
<1>5. "SKIPPED" \in Status /\ "INDEXING" \in Status
  BY DEF Status
<1>6. CASE ExtractBlank(f)
  <2>1. tx' = WithStatus(tx, f, "SKIPPED")
    BY <1>6 DEF ExtractBlank, Done
  <2>2. SameOthers(f) /\ tx'.status[f] = "SKIPPED" /\ tx'.mod = tx.mod /\ tx'.doc = tx.doc
    BY <1>5, <2>1, SetStatus
  <2> QED BY <1>2, <1>3, <1>4, <1>6, <2>2 DEF OnFile
<1>7. CASE ExtractSame(f)
  <2>1. tx' = WithStatus(tx, f, "INDEXING") /\ tx.doc[f].text = job.text /\ job.text # Blank
    BY <1>7 DEF ExtractSame, Done
  <2>2. SameOthers(f) /\ tx'.status[f] = "INDEXING" /\ tx'.mod = tx.mod /\ tx'.doc = tx.doc
    BY <1>5, <2>1, SetStatus
  <2> QED BY <1>2, <1>3, <1>4, <1>7, <2>1, <2>2 DEF OnFile
<1>8. CASE ExtractNew(f)
  <2> DEFINE doc == [text |-> job.text, at |-> now]
             s == WithDoc(tx, f, doc)
  <2>1. tx' = WithStatus(s, f, "INDEXING") /\ job.text # Blank
    BY <1>8 DEF ExtractNew, Done
  <2>2. doc \in [text : Texts, at : 0..MaxEdits] /\ tx \in StoreType
    BY DEF TypeOK
  <2>3. /\ s \in StoreType /\ s.doc[f] = doc /\ (\A g \in Files : g # f => s.doc[g] = tx.doc[g])
        /\ s.status = tx.status /\ s.mod = tx.mod /\ s.chunks = tx.chunks
    BY <2>2, WithDocStore
  <2> HIDE DEF s
  <2>4. /\ tx'.status[f] = "INDEXING" /\ (\A g \in Files : g # f => tx'.status[g] = s.status[g])
        /\ tx'.mod = s.mod /\ tx'.doc = s.doc /\ tx'.chunks = s.chunks
    BY <1>5, <2>1, <2>3, WithStatusStore, SMTT(30)
  <2>5. SameOthers(f) /\ tx'.doc[f] = doc /\ tx'.mod = tx.mod
    BY <2>3, <2>4 DEF SameOthers
  <2> QED BY <1>2, <1>3, <1>4, <1>8, <2>1, <2>4, <2>5 DEF OnFile
<1> QED BY <1>6, <1>7, <1>8

LEMMA StageOnFile ==
  ASSUME IInv, PhaseInv, NEW f \in Files,
         ChunkFile(f) \/ BuildChunk(f) \/ BuildPrune(f) \/ UpsertBatch(f) \/ MarkIndexed(f) \/ BuildFail(f)
  PROVE  /\ OnFile(f) /\ UNCHANGED db /\ tx'.mod = tx.mod /\ tx'.doc = tx.doc /\ tx.status[f] = "INDEXING" /\ HasDoc(tx, f)
         /\ \/ ChunkFile(f) /\ job.kind = "chunk" /\ tx'.status = tx.status /\ HasChunks(tx', f) /\ job'.cur = {}
            \/ job.kind = "build" /\ tx'.status = tx.status /\ f \in job'.cur
            \/ job.kind = "build" /\ tx'.status[f] = "INDEXED" /\ job'.cur = {}
            \/ job.kind = "build" /\ tx'.status[f] = "FAILED" /\ job'.cur = {} /\ job'.failed
<1> USE DEF IInv
<1>1. job \in [kind : {"idle", "sync", "ingest", "chunk", "build"}, pc : {"next", "fetch", "extract", "prune", "embed"},
               todo : SUBSET Files, cur : SUBSET Files, text : Texts, failed : BOOLEAN] /\ tx \in StoreType
  BY DEF TypeOK
<1>2. job.pc = "next" => job.cur = {}
  BY DEF PhaseInv
<1>3. f \in job.cur => job.cur = {f}
  BY DEF FileInv, Alone
<1>4. job.kind \in {"chunk", "build"} /\ f \in job.todo \cup job.cur => tx.status[f] = "INDEXING" /\ HasDoc(tx, f)
  BY DEF FileInv, Claimed
<1>5. CASE ChunkFile(f)
  <2>1. job' = [job EXCEPT !.todo = @ \ {f}] /\ UNCHANGED <<drive, now, db, jobRow, up>> /\ job.kind = "chunk"
        /\ job.pc = "next" /\ f \in job.todo /\ tx' \in Replacements(f)
    BY <1>5 DEF ChunkFile, Running
  <2>2. /\ tx'.status = tx.status /\ tx'.mod = tx.mod /\ tx'.doc = tx.doc
        /\ \A g \in Files \ {f} : tx'.chunks[g] = tx.chunks[g]
        /\ HasDoc(tx, f) => HasChunks(tx', f)
    BY <1>1, <2>1, ReplacedRows
  <2> QED BY <1>1, <1>2, <1>4, <1>5, <2>1, <2>2 DEF OnFile, SameOthers
<1>6. CASE BuildChunk(f)
  <2>1. job' = [job EXCEPT !.todo = @ \ {f}, !.cur = {f}, !.pc = "prune"] /\ UNCHANGED <<drive, now, db, jobRow, up>>
        /\ job.kind = "build" /\ job.pc = "next" /\ f \in job.todo /\ tx' \in Replacements(f)
    BY <1>6 DEF BuildChunk, Running
  <2>2. /\ tx'.status = tx.status /\ tx'.mod = tx.mod /\ tx'.doc = tx.doc
        /\ \A g \in Files \ {f} : tx'.chunks[g] = tx.chunks[g]
    BY <1>1, <2>1, ReplacedRows
  <2> QED BY <1>1, <1>2, <1>4, <1>6, <2>1, <2>2 DEF OnFile, SameOthers
<1>7. CASE BuildPrune(f) \/ UpsertBatch(f)
  <2>1. job' \in {job, [job EXCEPT !.pc = "embed"]} /\ UNCHANGED <<drive, now, db, tx, jobRow, up>>
        /\ job.kind = "build" /\ job.pc \in {"prune", "embed"} /\ f \in job.cur
    BY <1>7 DEF BuildPrune, UpsertBatch, Running
  <2> QED BY <1>1, <1>3, <1>4, <1>7, <2>1 DEF OnFile, SameOthers
<1>8. CASE MarkIndexed(f)
  <2>1. job' = [job EXCEPT !.pc = "next", !.cur = {}, !.text = Blank] /\ UNCHANGED <<drive, now, db, jobRow, up>>
        /\ job.kind = "build" /\ f \in job.cur /\ tx' = WithStatus(tx, f, "INDEXED") /\ "INDEXED" \in Status
    BY <1>8 DEF MarkIndexed, Running, Done, Status
  <2>2. SameOthers(f) /\ tx'.status[f] = "INDEXED" /\ tx'.mod = tx.mod /\ tx'.doc = tx.doc
    BY <2>1, SetStatus
  <2> QED BY <1>1, <1>3, <1>4, <1>8, <2>1, <2>2 DEF OnFile
<1>9. CASE BuildFail(f)
  <2>1. job' = [job EXCEPT !.pc = "next", !.cur = {}, !.text = Blank, !.failed = TRUE]
        /\ UNCHANGED <<drive, now, db, jobRow, up>> /\ job.kind = "build" /\ f \in job.cur
        /\ tx' = WithStatus(tx, f, "FAILED") /\ "FAILED" \in Status
    BY <1>9 DEF BuildFail, DoneFailed, Status
  <2>2. SameOthers(f) /\ tx'.status[f] = "FAILED" /\ tx'.mod = tx.mod /\ tx'.doc = tx.doc
    BY <2>1, SetStatus
  <2> QED BY <1>1, <1>3, <1>4, <1>9, <2>1, <2>2 DEF OnFile
<1> QED BY <1>5, <1>6, <1>7, <1>8, <1>9

\* A step of a job is for a file, or ends it.
LEMMA StepIsOnFile ==
  ASSUME IInv, PhaseInv, Step
  PROVE  Finish \/ \E f \in Files : OnFile(f)
BY SyncOnFile, IngestOnFile, ExtractOnFile, StageOnFile
   DEF Step, SyncStep, IngestStep, ChunkStep, BuildStep

LEMMA FinishEnds ==
  ASSUME IInv, PhaseInv, Finish
  PROVE  /\ UNCHANGED <<drive, now, tx, up>> /\ db' = tx /\ job' = NoJob /\ job'.kind = "idle" /\ job'.cur = {}
         /\ job'.todo = {} /\ ~job'.failed /\ job'.pc = "next" /\ job.kind # "idle" /\ job.todo = {} /\ job.cur = {}
         /\ jobRow' = IF job.failed THEN "FAILED" ELSE "COMPLETED"
BY DEF Finish, NoJob, PhaseInv

-----------------------------------------------------------------------------
(* Where the flow stands. *)

LEMMA PhaseStep == ASSUME Faults = {}, IInv, PhaseInv, [NextAlone]_<<vars, ui, disturbed>> PROVE PhaseInv'
<1>1. ui \in PageType /\ up /\ job \in [kind : {"idle", "sync", "ingest", "chunk", "build"},
                                  pc : {"next", "fetch", "extract", "prune", "embed"},
                                  todo : SUBSET Files, cur : SUBSET Files, text : Texts, failed : BOOLEAN]
  BY DEF PhaseInv, IInv, TypeOK
<1>2. Counts \in PendingType /\ NonePending \in PendingType /\ AllPending \in PendingType
      /\ [Counts EXCEPT !.chunk = FALSE] \in PendingType
  BY DEF Counts, NonePending, AllPending, PendingType
<1>3. CASE OwnerP
  BY <1>3 DEF OwnerP, TrashOrRestore, Edit, PhaseInv
<1>4. ASSUME NEW kind \in {"sync", "ingest", "chunk", "build"}, NEW S, Start(kind, S), ui' \in PageType, ~ui'.early,
             kind \in JobsAt(ui'.pc), UNCHANGED disturbed
      PROVE  PhaseInv'
  BY <1>1, <1>4 DEF Start, NoJob, PhaseInv
<1>5. CASE ClickAlone /\ UNCHANGED disturbed
  <2>1. ui' = [Rest EXCEPT !.pc = "scanning"]
    BY <1>5 DEF ClickAlone
  <2>2. ui' \in PageType /\ ~ui'.early /\ ui'.pc = "scanning"
    BY <1>2, <2>1 DEF Rest, PageType, Stops, Walking
  <2>3. "sync" \in JobsAt(ui'.pc)
    BY <2>2 DEF JobsAt
  <2> QED BY <1>4, <1>5, <2>2, <2>3 DEF ClickAlone
<1>6. CASE (Read \/ Search) /\ UNCHANGED disturbed
  <2>1. ~ui.early
    BY <1>6 DEF PhaseInv, Read, Search
  <2>2. PICK kind \in {"ingest", "chunk", "build"}, S \in {Ingestible(db), Eligible(db)} :
          /\ Start(kind, S)
          /\ \/ kind = "ingest" /\ ui' = [ui EXCEPT !.pc = "reading"]
             \/ kind = "chunk" /\ ui' = [ui EXCEPT !.pc = "chunking"]
             \/ kind = "build" /\ ui' = [ui EXCEPT !.pc = "building"]
    BY <1>6 DEF Read, Search
  <2>3. ui' \in PageType /\ ~ui'.early
    BY <1>1, <2>1, <2>2 DEF PageType, Stops, Walking
  <2>4. kind \in JobsAt(ui'.pc)
    BY <1>1, <2>2 DEF JobsAt, PageType
  <2> QED BY <1>4, <1>6, <2>2, <2>3, <2>4
<1>7. ASSUME UNCHANGED vars, UNCHANGED disturbed, ui' \in PageType, ui'.early => ui'.pc = "ready",
             job.kind = "idle" \/ (ui'.pc = "error" /\ "timeout" \in Interruptions)
      PROVE  PhaseInv'
  <2>1. job.kind \in JobsAt(ui'.pc)
    BY <1>1, <1>7 DEF JobsAt, PageType, Stops, Walking
  <2> QED BY <1>7, <2>1 DEF vars, PhaseInv
<1>8. jobRow # "RUNNING" => job.kind = "idle"
  BY DEF PhaseInv
<1>9. \A p \in PendingType : SearchOrReady(p) \in {"search", "ready"} /\ (p = NonePending => SearchOrReady(p) = "ready" /\ ~p.ingest)
  BY DEF SearchOrReady, NonePending, PendingType
<1>10. CASE ScanDone /\ UNCHANGED disturbed
  <2>1. PICK p \in PendingType :
          ui' = [ui EXCEPT !.pending = p, !.early = (p = NonePending), !.pc = IF p.ingest THEN "read" ELSE SearchOrReady(p)]
    BY <1>2, <1>10, ZenonT(40) DEF ScanDone, CountsOr
  <2>2. UNCHANGED vars /\ job.kind = "idle"
    BY <1>8, <1>10 DEF ScanDone, Polling
  <2> DEFINE e == (p = NonePending)
             pc == IF p.ingest THEN "read" ELSE SearchOrReady(p)
  <2>3. e \in BOOLEAN /\ pc \in {"read", "search", "ready"} /\ (e => pc = "ready")
    BY <1>9
  <2>4. ui' = [ui EXCEPT !.pending = p, !.early = e, !.pc = pc]
    BY <2>1
  <2> HIDE DEF e, pc
  <2>5. ui' \in PageType /\ (ui'.early => ui'.pc = "ready")
    BY <1>1, <2>3, <2>4 DEF PageType, Stops, Walking
  <2> QED BY <1>7, <1>10, <2>2, <2>5
<1>11. CASE (ReadDone \/ ReadFailed) /\ UNCHANGED disturbed
  <2>1. PICK p \in PendingType, w \in BOOLEAN, pc \in {"search", "ready", "error"} :
          ui' = [ui EXCEPT !.pending = p, !.warned = w, !.pc = pc]
    <3>1. CASE ReadDone
      <4>1. PICK p \in PendingType : ui' = [ui EXCEPT !.pending = p, !.pc = SearchOrReady(p)]
        BY <1>1, <1>2, <3>1 DEF ReadDone, CountsOr, PageType
      <4> DEFINE pc == SearchOrReady(p)
      <4>2. pc \in {"search", "ready"} /\ ui' = [ui EXCEPT !.pending = p, !.pc = pc]
        BY <1>9, <4>1
      <4> HIDE DEF pc
      <4>3. ui' = [ui EXCEPT !.pending = p, !.warned = ui.warned, !.pc = pc] /\ ui.warned \in BOOLEAN
        BY <1>1, <4>2 DEF PageType
      <4> QED BY <4>2, <4>3
    <3>2. CASE ReadFailed
      <4>1. PICK p \in CountsOr(NonePending) :
              ui' = [ui EXCEPT !.pending = p, !.warned = p.chunk \/ p.build,
                               !.pc = IF p.chunk \/ p.build THEN "search" ELSE "error"]
        BY <3>2, Zenon DEF ReadFailed
      <4>2. p \in PendingType
        BY <1>2 DEF CountsOr
      <4> DEFINE w == p.chunk \/ p.build
                 pc == IF w THEN "search" ELSE "error"
      <4>3. w \in BOOLEAN /\ pc \in {"search", "ready", "error"}
        BY <4>2 DEF PendingType
      <4>4. ui' = [ui EXCEPT !.pending = p, !.warned = w, !.pc = pc]
        BY <4>1
      <4> HIDE DEF w, pc
      <4> QED BY <4>2, <4>3, <4>4
    <3> QED BY <1>11, <3>1, <3>2, ZenonT(30)
  <2>2. UNCHANGED vars /\ job.kind = "idle" /\ ~ui.early
    BY <1>8, <1>11 DEF ReadDone, ReadFailed, Polling, PhaseInv
  <2>3. ui' \in PageType /\ ~ui'.early
    BY <1>1, <2>1, <2>2 DEF PageType, Stops, Walking
  <2> QED BY <1>7, <1>11, <2>2, <2>3
<1>12. CASE ChunkDone /\ UNCHANGED disturbed
  <2>1. UNCHANGED vars /\ job.kind = "idle" /\ ~ui.early
    BY <1>8, <1>12 DEF ChunkDone, Polling, PhaseInv
  <2>2. \/ ui' = [ui EXCEPT !.pc = "error"]
        \/ ui' = [ui EXCEPT !.pending = [Counts EXCEPT !.chunk = FALSE], !.pc = IF Counts.build THEN "search" ELSE "ready"]
    BY <1>12 DEF ChunkDone
  <2> DEFINE p == [Counts EXCEPT !.chunk = FALSE]
             pc == IF Counts.build THEN "search" ELSE "ready"
  <2>3. p \in PendingType /\ pc \in {"search", "ready"}
    BY <1>2
  <2>4. ui' = [ui EXCEPT !.pc = "error"] \/ ui' = [ui EXCEPT !.pending = p, !.pc = pc]
    BY <2>2
  <2> HIDE DEF p, pc
  <2>5. ui' \in PageType /\ ~ui'.early
    BY <1>1, <2>1, <2>3, <2>4, ZenonT(40) DEF PageType, Stops, Walking
  <2> QED BY <1>7, <1>12, <2>1, <2>5
<1>13. CASE (BuildDone \/ StepFailed \/ StartFailed \/ Timeout) /\ UNCHANGED disturbed
  <2>1. UNCHANGED vars /\ ~ui.early
    BY <1>13 DEF BuildDone, StepFailed, StartFailed, Timeout, Polling, PhaseInv
  <2>2. \/ ui' = [ui EXCEPT !.pc = "error"] /\ (job.kind = "idle" \/ "timeout" \in Interruptions)
        \/ ui' = [ui EXCEPT !.pc = "ready"] /\ job.kind = "idle"
    BY <1>1, <1>8, <1>13 DEF BuildDone, StepFailed, StartFailed, Timeout, Polling
  <2>3. ui' \in PageType /\ ~ui'.early /\ (job.kind = "idle" \/ (ui'.pc = "error" /\ "timeout" \in Interruptions))
    BY <1>1, <2>1, <2>2 DEF PageType, Stops, Walking
  <2> QED BY <1>7, <1>13, <2>1, <2>3
<1>14. CASE ServerP /\ UNCHANGED disturbed
  <2>1. Step /\ UNCHANGED ui
    BY <1>1, <1>14 DEF ServerP, Fault, JobError, DbError, Crash, Restart
  <2>2. CASE Finish
    <3>1. job'.kind \in JobsAt(ui.pc)
      BY <1>1, <2>2, FinishEnds DEF JobsAt, PageType, Stops, Walking
    <3> QED BY <1>1, <1>14, <2>1, <2>2, <3>1, FinishEnds DEF PhaseInv
  <2>3. ASSUME NEW f \in Files, OnFile(f) PROVE PhaseInv'
    BY <1>14, <2>1, <2>3 DEF OnFile, PhaseInv
  <2> QED BY <2>1, <2>2, <2>3, StepIsOnFile
<1>15. CASE Look /\ UNCHANGED disturbed
  <2>1. PICK b \in BOOLEAN : UNCHANGED vars /\ ui' = [ui EXCEPT !.free = b]
    BY <1>15 DEF Look
  <2>2. ui' \in PageType /\ ui'.pc = ui.pc /\ ui'.early = ui.early
    BY <1>1, <2>1 DEF PageType
  <2> QED BY <1>15, <2>1, <2>2 DEF vars, PhaseInv
<1>16. CASE ClickFails \/ UNCHANGED <<vars, ui, disturbed>>
  BY <1>16 DEF vars, PhaseInv, ClickFails
<1> QED BY <1>3, <1>5, <1>6, <1>10, <1>11, <1>12, <1>13, <1>14, <1>15, <1>16 DEF NextAlone, Flow

-----------------------------------------------------------------------------
(* Files that wait, and files nobody disturbed. *)

\* The files a step of a job is not for.
LEMMA OthersKeep ==
  ASSUME NEW f, OnFile(f), UNCHANGED <<ui, disturbed>>, NEW g \in Files \ {f}
  PROVE  (FileWaits(g) => FileWaits(g)') /\ (Fresh(g) => Fresh(g)') /\ (Left(g) => Left(g)')
<1>1. /\ tx'.status[g] = tx.status[g] /\ tx'.mod[g] = tx.mod[g] /\ tx'.doc[g] = tx.doc[g] /\ tx'.chunks[g] = tx.chunks[g]
      /\ g \notin job.cur /\ g \notin job'.cur /\ (g \in job'.todo <=> g \in job.todo) /\ job'.kind = job.kind
      /\ (job.failed => job'.failed) /\ UNCHANGED <<drive, now, jobRow, ui>> /\ db' \in {db, tx}
  BY DEF OnFile, SameOthers
<1>2. FileWaits(g) => FileWaits(g)'
  BY <1>1 DEF FileWaits, Ingesting, HasDoc
<1>3. Fresh(g) => Fresh(g)'
  <2>1. (NoNews(g) => NoNews(g)') /\ (Scanned' <=> Scanned)
    BY <1>1 DEF NoNews, Scanned
  <2> QED BY <1>1, <2>1 DEF Fresh, Holds, HasDoc, Ingesting
<1>4. Left(g) => Left(g)'
  BY <1>1 DEF Left, Unread, HasChunks
<1> QED BY <1>2, <1>3, <1>4

LEMMA StepWaits ==
  ASSUME IInv, PhaseInv, WaitInv, Step, UNCHANGED <<ui, disturbed>>
  PROVE  WaitInv'
<1>1. CASE Finish
  BY <1>1, FinishEnds DEF WaitInv, FileWaits, Ingesting, HasDoc
<1>2. ASSUME NEW f \in Files, OnFile(f), FileWaits(f)' PROVE WaitInv'
  BY <1>2, OthersKeep DEF WaitInv
<1>3. ASSUME NEW f \in Files, SyncFile(f) PROVE WaitInv'
  <2>1. OnFile(f) /\ UNCHANGED <<drive, now, db>> /\ job'.kind = "sync" /\ tx'.doc = tx.doc /\ job.kind = "sync"
        /\ (tx'.mod[f] = drive[f].mod \/ tx'.mod[f] = tx.mod[f]) /\ (tx'.status[f] = "INDEXING" => tx.status[f] = "INDEXING")
    BY <1>3, SyncOnFile DEF OnFile
  <2>2. FileWaits(f)'
    BY <2>1 DEF WaitInv, FileWaits, Ingesting, HasDoc
  <2> QED BY <1>2, <2>1, <2>2
<1>4. ASSUME NEW f \in Files, IngestSkip(f) \/ IngestCurrent(f) \/ IngestFetch(f) \/ Download(f) \/ IngestFail(f)
      PROVE  WaitInv'
  <2>1. OnFile(f) /\ UNCHANGED <<drive, now>> /\ job'.kind = "ingest" /\ job.kind = "ingest" /\ tx'.doc = tx.doc
        /\ tx'.mod = tx.mod /\ db' \in {db, tx}
    BY <1>4, IngestOnFile DEF OnFile
  <2>2. tx'.status[f] # "NONE" /\ (tx'.status[f] = "INDEXING" /\ f \notin job'.cur => HasDoc(tx, f))
    BY <1>4, IngestOnFile DEF WaitInv, FileWaits, IsDocumentCurrent, Ingesting
  <2>3. FileWaits(f)'
    BY <2>1, <2>2 DEF WaitInv, FileWaits, Ingesting, HasDoc
  <2> QED BY <1>2, <2>1, <2>3
<1>5. ASSUME NEW f \in Files, ExtractBlank(f) \/ ExtractSame(f) \/ ExtractNew(f) PROVE WaitInv'
  <2>1. OnFile(f) /\ UNCHANGED <<drive, now, db>> /\ job'.kind = "ingest" /\ tx'.mod = tx.mod
    BY <1>5, ExtractOnFile DEF OnFile
  <2>2. /\ tx'.status[f] \in {"INDEXING", "SKIPPED"} /\ (tx'.status[f] = "INDEXING" => tx'.doc[f].text # Blank)
        /\ tx'.doc[f] = tx.doc[f] \/ tx'.doc[f].at = now
    BY <1>5, ExtractOnFile
  <2>3. now <= now
    BY DEF IInv, TypeOK
  <2>4. FileWaits(f)'
    BY <2>1, <2>2, <2>3 DEF WaitInv, FileWaits, HasDoc
  <2> QED BY <1>2, <2>1, <2>4
<1>6. ASSUME NEW f \in Files,
             ChunkFile(f) \/ BuildChunk(f) \/ BuildPrune(f) \/ UpsertBatch(f) \/ MarkIndexed(f) \/ BuildFail(f)
      PROVE  WaitInv'
  <2>1. OnFile(f) /\ UNCHANGED <<drive, now, db>> /\ job'.kind \in {"chunk", "build"} /\ tx'.mod = tx.mod /\ tx'.doc = tx.doc
        /\ HasDoc(tx, f)
    BY <1>6, StageOnFile DEF OnFile
  <2>2. FileWaits(f)'
    BY <2>1 DEF WaitInv, FileWaits, HasDoc
  <2> QED BY <1>2, <2>1, <2>2
<1> QED BY <1>1, <1>3, <1>4, <1>5, <1>6 DEF Step, SyncStep, IngestStep, ChunkStep, BuildStep

LEMMA StepFresh ==
  ASSUME IInv, PhaseInv, WaitInv, FreshInv, Step, UNCHANGED <<ui, disturbed>>
  PROVE  FreshInv'
<1>1. CASE Finish
  <2> SUFFICES ASSUME NEW f \in Files \ disturbed PROVE Fresh(f)'
    BY DEF FreshInv
  <2>1. UNCHANGED <<drive, now, tx, ui>> /\ db' = tx /\ job'.kind = "idle" /\ job.kind # "idle" /\ job.todo = {} /\ job.cur = {}
    BY <1>1, FinishEnds
  <2>2. Fresh(f)
    BY DEF FreshInv
  <2>3. Scanned' => NoNews(f)
    <3>1. ui.pc = "scanning" => job.kind = "sync"
      BY <2>1 DEF PhaseInv, JobsAt
    <3> QED BY <2>1, <2>2, <3>1 DEF Scanned, Fresh
  <2> QED BY <2>1, <2>2, <2>3 DEF Fresh, HasDoc, Holds, NoNews, Ingesting
<1>2. ASSUME NEW f \in Files, OnFile(f), f \notin disturbed => Fresh(f)' PROVE FreshInv'
  BY <1>2, OthersKeep DEF FreshInv
<1>3. ASSUME NEW f \in Files, SyncFile(f) PROVE FreshInv'
  <2>1. /\ OnFile(f) /\ UNCHANGED <<drive, now, db, ui>> /\ job.kind = "sync" /\ job'.kind = "sync" /\ tx'.doc = tx.doc
        /\ IF drive[f].live THEN tx'.mod[f] = drive[f].mod /\ tx'.status[f] # "NONE"
                            ELSE tx'.mod[f] = tx.mod[f] /\ tx'.status[f] \in {"NONE", "SKIPPED"}
        /\ tx'.status[f] = "INDEXED" => tx.status[f] = "INDEXED" /\ tx'.mod[f] = tx.mod[f]
        /\ tx'.status[f] = "INDEXING" => tx.status[f] = "INDEXING"
    BY <1>3, SyncOnFile DEF OnFile
  <2>2. NoNews(f)'
    BY <2>1 DEF NoNews
  <2>3. f \notin disturbed => Fresh(f)'
    BY <2>1, <2>2 DEF FreshInv, Fresh, HasDoc, Holds, Ingesting
  <2> QED BY <1>2, <2>1, <2>3
<1>4. ASSUME NEW f \in Files, IngestSkip(f) \/ IngestCurrent(f) \/ IngestFetch(f) \/ Download(f) \/ IngestFail(f)
      PROVE  FreshInv'
  <2>1. /\ OnFile(f) /\ UNCHANGED <<drive, now, ui>> /\ job'.kind = "ingest" /\ job.kind = "ingest" /\ tx'.doc = tx.doc
        /\ tx'.mod = tx.mod /\ db' \in {db, tx}
    BY <1>4, IngestOnFile DEF OnFile
  <2>2. Scanned /\ Scanned'
    BY <2>1 DEF Scanned
  <2> SUFFICES ASSUME f \notin disturbed PROVE Fresh(f)'
    BY <1>2, <2>1
  <2>3. Fresh(f) /\ FileWaits(f) /\ NoNews(f)
    BY <2>2 DEF FreshInv, WaitInv, Fresh
  <2>4. CASE IngestSkip(f)
    <3>1. UNCHANGED <<db, tx>> /\ job.cur = {} /\ job'.cur = {}
      BY <1>4, <2>4, IngestOnFile DEF IngestSkip, PhaseInv, Running, OnFile
    <3> QED BY <2>1, <2>3, <3>1 DEF Fresh, HasDoc, Holds, Ingesting, NoNews
  <2>5. CASE IngestCurrent(f)
    <3>1. /\ UNCHANGED db /\ tx'.status[f] = "INDEXING" /\ IsDocumentCurrent(tx, f) /\ f \in job.todo /\ tx.status[f] # "SKIPPED"
          /\ job.pc = "next" /\ job'.cur = {}
      <4>1. /\ UNCHANGED db /\ IsDocumentCurrent(tx, f) /\ f \in job.todo /\ tx.status[f] # "SKIPPED" /\ job.pc = "next"
            /\ tx' = WithStatus(tx, f, "INDEXING") /\ "INDEXING" \in Status /\ job'.pc = "next"
        BY <2>5 DEF IngestCurrent, Running, Status, IInv, TypeOK
      <4>2. tx'.status[f] = "INDEXING"
        BY <4>1, SetStatus DEF IInv
      <4> QED BY <2>1, <4>1, <4>2 DEF OnFile
    <3>2. tx.status[f] # "NONE" /\ drive[f].live /\ tx.mod[f] = drive[f].mod
      BY <2>1, <2>3, <3>1 DEF FileWaits, NoNews
    <3>3. Holds(tx, f)
      BY <2>3, <3>1, <3>2 DEF IsDocumentCurrent, Fresh
    <3> QED BY <2>1, <2>3, <3>1, <3>2, <3>3 DEF Fresh, HasDoc, Holds, Ingesting, NoNews
  <2>6. CASE IngestFetch(f)
    <3>1. /\ UNCHANGED db /\ tx'.status[f] = "INDEXING" /\ f \in job.todo /\ tx.status[f] # "SKIPPED"
          /\ job'.pc = "fetch" /\ job'.cur = {f}
      <4>1. /\ UNCHANGED db /\ f \in job.todo /\ tx.status[f] # "SKIPPED"
            /\ tx' = WithStatus(tx, f, "INDEXING") /\ "INDEXING" \in Status /\ job'.pc = "fetch" /\ job'.cur = {f}
        BY <2>6 DEF IngestFetch, Running, Status, IInv, TypeOK
      <4>2. tx'.status[f] = "INDEXING"
        BY <4>1, SetStatus DEF IInv
      <4> QED BY <4>1, <4>2
    <3>2. tx.status[f] # "NONE" /\ drive[f].live /\ tx.mod[f] = drive[f].mod
      BY <2>1, <2>3, <3>1 DEF FileWaits, NoNews
    <3> QED BY <2>1, <2>3, <3>1, <3>2 DEF Fresh, HasDoc, Holds, Ingesting, NoNews
  <2>7. CASE Download(f)
    <3>1. UNCHANGED tx /\ db' = tx /\ job'.cur = job.cur /\ job'.text = drive[f].text
      BY <2>7 DEF Download, Running, IInv, TypeOK
    <3> QED BY <2>1, <2>3, <3>1 DEF Fresh, HasDoc, Holds, Ingesting, NoNews
  <2>8. CASE IngestFail(f)
    <3>1. UNCHANGED db /\ tx'.status[f] = "FAILED" /\ job'.pc = "next" /\ f \in job.cur
      <4>1. UNCHANGED db /\ tx' = WithStatus(tx, f, "FAILED") /\ "FAILED" \in Status /\ job'.pc = "next" /\ f \in job.cur
        BY <2>8 DEF IngestFail, DoneFailed, Status, IInv, TypeOK
      <4> QED BY <4>1, SetStatus DEF IInv
    <3>2. tx.status[f] = "INDEXING"
      BY <2>1, <3>1 DEF IInv, FileInv, SetAside
    <3> QED BY <2>1, <2>3, <3>1, <3>2 DEF Fresh, HasDoc, Holds, NoNews
  <2> QED BY <1>4, <2>4, <2>5, <2>6, <2>7, <2>8
<1>5. ASSUME NEW f \in Files, ExtractBlank(f) \/ ExtractSame(f) \/ ExtractNew(f) PROVE FreshInv'
  <2>1. /\ OnFile(f) /\ UNCHANGED <<drive, now, db, ui>> /\ job.kind = "ingest" /\ job'.kind = "ingest" /\ tx'.mod = tx.mod
        /\ job.pc = "extract" /\ f \in job.cur /\ job'.cur = {}
    BY <1>5, ExtractOnFile DEF OnFile
  <2>2. \/ tx'.status[f] = "SKIPPED" /\ tx'.doc[f] = tx.doc[f]
        \/ tx'.status[f] = "INDEXING" /\ tx'.doc[f] = tx.doc[f] /\ tx.doc[f].text = job.text
        \/ tx'.status[f] = "INDEXING" /\ tx'.doc[f].text = job.text
    BY <1>5, ExtractOnFile
  <2> SUFFICES ASSUME f \notin disturbed PROVE Fresh(f)'
    BY <1>2, <2>1
  <2>3. Scanned /\ Fresh(f) /\ job.text = drive[f].text /\ tx.status[f] = "INDEXING"
    BY <2>1 DEF Scanned, FreshInv, Fresh, IInv, FileInv, SetAside
  <2> QED BY <2>1, <2>2, <2>3 DEF Fresh, HasDoc, Holds, NoNews
<1>6. ASSUME NEW f \in Files,
             ChunkFile(f) \/ BuildChunk(f) \/ BuildPrune(f) \/ UpsertBatch(f) \/ MarkIndexed(f) \/ BuildFail(f)
      PROVE  FreshInv'
  <2>1. /\ OnFile(f) /\ UNCHANGED <<drive, now, db, ui>> /\ job.kind \in {"chunk", "build"} /\ job'.kind = job.kind
        /\ tx'.mod = tx.mod /\ tx'.doc = tx.doc /\ tx.status[f] = "INDEXING" /\ tx'.status[f] \in {"INDEXING", "INDEXED", "FAILED"}
    BY <1>6, StageOnFile DEF OnFile
  <2>2. f \notin disturbed => Fresh(f) /\ Scanned
    BY <2>1 DEF FreshInv, Scanned
  <2>3. f \notin disturbed => Fresh(f)'
    BY <2>1, <2>2 DEF Fresh, HasDoc, Holds, NoNews, Ingesting
  <2> QED BY <1>2, <2>1, <2>3
<1> QED BY <1>1, <1>3, <1>4, <1>5, <1>6 DEF Step, SyncStep, IngestStep, ChunkStep, BuildStep

\* The owner's edits: whoever is disturbed is out, and an edit of a file at rest makes
\* every document of it older than the edit.
LEMMA OwnerKeeps ==
  ASSUME IInv, WaitInv, FreshInv, OwnerP
  PROVE  WaitInv' /\ FreshInv'
<1>1. PICK e \in Files : /\ TrashOrRestore(e) \/ \E t \in Texts : Edit(e, t)
                         /\ disturbed' = IF QuietFor(e) THEN disturbed ELSE disturbed \cup {e}
  BY DEF OwnerP
<1>2. /\ now' = now + 1 /\ UNCHANGED <<db, tx, points, job, jobRow, up, ui>> /\ now \in Nat /\ TypeOK
      /\ drive' \in [Files -> [live : BOOLEAN, mod : 0..MaxEdits, text : Texts]]
      /\ \A f \in Files \ {e} : drive'[f] = drive[f]
      /\ \/ drive'[e].mod = drive[e].mod /\ drive'[e].text = drive[e].text
         \/ drive'[e].mod = now + 1
  <2>1. /\ now' = now + 1 /\ UNCHANGED <<db, tx, points, job, jobRow, up, ui>> /\ now \in Nat
    BY <1>1, ConstantsAssumption DEF OwnerP, TrashOrRestore, Edit, IInv, TypeOK
  <2>2. drive' \in [Files -> [live : BOOLEAN, mod : 0..MaxEdits, text : Texts]]
    <3>1. Next
      BY <1>1 DEF Next, Owner
    <3> QED BY <3>1, TypePreserved DEF IInv, TypeOK
  <2>3. drive \in [Files -> [live : BOOLEAN, mod : 0..MaxEdits, text : Texts]]
    BY DEF IInv, TypeOK
  <2>4. CASE TrashOrRestore(e)
    <3>1. drive' = [drive EXCEPT ![e] = [drive[e] EXCEPT !.live = ~drive[e].live]]
      BY <2>4, Zenon DEF TrashOrRestore
    <3> DEFINE live == ~drive[e].live
    <3>2. drive' = [drive EXCEPT ![e] = [drive[e] EXCEPT !.live = live]]
      BY <3>1
    <3> HIDE DEF live
    <3> QED BY <2>1, <2>2, <2>3, <3>2 DEF IInv
  <2>5. CASE \E t \in Texts : Edit(e, t)
    <3>1. PICK t \in Texts : drive' = [drive EXCEPT ![e] = [live |-> TRUE, mod |-> now + 1, text |-> t]]
      BY <2>5 DEF Edit
    <3> QED BY <2>1, <2>2, <2>3, <3>1 DEF IInv
  <2> QED BY <1>1, <2>4, <2>5
<1>3. \A f \in Files : /\ drive[f].mod \in Nat /\ db.mod[f] \in Nat /\ tx.mod[f] \in Nat /\ tx.doc[f].at \in Nat
                       /\ drive[f].mod <= now /\ db.mod[f] <= now /\ tx.mod[f] <= now /\ tx.doc[f].at <= now
  BY <1>2, ConstantsAssumption DEF TypeOK, StoreType, WaitInv, FileWaits
<1>4. WaitInv'
  <2> SUFFICES ASSUME NEW f \in Files PROVE FileWaits(f)'
    BY DEF WaitInv
  <2>1. drive'[f].mod <= now' /\ db.mod[f] <= now' /\ tx.mod[f] <= now' /\ tx.doc[f].at <= now'
    BY <1>2, <1>3
  <2> QED BY <1>2, <2>1 DEF WaitInv, FileWaits, Ingesting, HasDoc
<1>5. FreshInv'
  <2> SUFFICES ASSUME NEW f \in Files \ disturbed' PROVE Fresh(f)'
    BY DEF FreshInv
  <2>1. f \notin disturbed /\ Fresh(f)
    BY <1>1 DEF FreshInv
  <2>2. CASE f # e
    <3>1. drive'[f] = drive[f]
      BY <1>2, <2>2
    <3> QED BY <1>2, <2>1, <3>1 DEF Fresh, HasDoc, Holds, NoNews, Scanned, Ingesting
  <2>3. CASE f = e
    <3>1. QuietFor(f)
      BY <1>1, <2>3
    <3>2. job.kind = "idle" /\ ~Scanned /\ tx.status[f] # "INDEXING" /\ db = tx
      BY <3>1 DEF QuietFor, Resting, Scanned, Walking, IInv, Between
    <3>3. CASE drive'[f].mod = now + 1
      <4>1. ~(tx.doc[f].at >= now + 1) /\ db.mod[f] # now + 1 /\ tx.mod[f] # now + 1
        BY <1>2, <1>3
      <4> QED BY <1>2, <3>2, <3>3, <4>1 DEF Fresh, Scanned
    <3>4. CASE drive'[f].mod = drive[f].mod /\ drive'[f].text = drive[f].text
      BY <1>2, <2>1, <3>2, <3>4 DEF Fresh, HasDoc, Holds, Scanned
    <3> QED BY <1>2, <2>3, <3>3, <3>4
  <2> QED BY <2>2, <2>3
<1> QED BY <1>4, <1>5

\* The steps of the flow that read rows only.
Looks == ScanDone \/ ReadDone \/ ReadFailed \/ ChunkDone \/ BuildDone \/ StepFailed \/ StartFailed \/ Timeout
         \/ Look

LEMMA LooksKeep ==
  ASSUME PhaseInv, WaitInv, FreshInv, Looks, UNCHANGED disturbed
  PROVE  WaitInv' /\ FreshInv' /\ UNCHANGED vars
<1>1. UNCHANGED vars
  BY DEF Looks, ScanDone, ReadDone, ReadFailed, ChunkDone, BuildDone, StepFailed, StartFailed, Timeout, Look
<1>2. WaitInv'
  BY <1>1 DEF vars, WaitInv, FileWaits, Ingesting, HasDoc
<1>3. Scanned' => Scanned
  <2>1. ui'.pc \in Walking => ui.pc \in Walking \/ (ui.pc = "scanning" /\ jobRow = "COMPLETED")
    BY ZenonT(40) DEF PhaseInv, Looks, ScanDone, ReadDone, ReadFailed, ChunkDone, BuildDone, StepFailed, StartFailed, Timeout, Look,
          
           Polling, Walking, PageType
  <2>2. ui'.pc # "scanning"
    BY DEF PhaseInv, Looks, ScanDone, ReadDone, ReadFailed, ChunkDone, BuildDone, StepFailed, StartFailed, Timeout, Look,
          
           SearchOrReady, Resting, PageType
  <2>3. jobRow = "COMPLETED" => job.kind = "idle"
    BY DEF PhaseInv
  <2> QED BY <1>1, <2>1, <2>2, <2>3, SMTT(30) DEF Scanned, vars
<1>4. FreshInv'
  BY <1>1, <1>3 DEF vars, FreshInv, Fresh, HasDoc, Holds, NoNews, Ingesting
<1> QED BY <1>1, <1>2, <1>4, SMTT(30)

\* Jobs the flow starts.
LEMMA StartsKeep ==
  ASSUME IInv, PhaseInv, WaitInv, FreshInv, ClickAlone \/ Read \/ Search, UNCHANGED disturbed
  PROVE  WaitInv' /\ FreshInv'
<1>1. PICK kind \in {"sync", "ingest", "chunk", "build"}, S \in SUBSET Files :
        /\ Start(kind, S)
        /\ kind = "sync" => News \subseteq S /\ ui'.pc = "scanning"
        /\ kind # "sync" => ui.pc \in Walking
        /\ kind = "ingest" => S = Ingestible(db)
  BY DEF ClickAlone, Read, Search, Rest, Walking, Ingestible, Eligible
<1>2. /\ UNCHANGED <<drive, now, db, tx>> /\ job.kind = "idle" /\ job'.kind = kind /\ job'.todo = S /\ job'.cur = {}
      /\ job'.pc = "next" /\ db = tx /\ job.cur = {}
  BY <1>1 DEF Start, Idle, NoJob, IInv, Between, PhaseInv
<1>3. WaitInv'
  <2> SUFFICES ASSUME NEW f \in Files PROVE FileWaits(f)'
    BY DEF WaitInv
  <2>1. FileWaits(f) /\ (kind = "ingest" /\ f \in S => tx.status[f] # "NONE")
    BY <1>1, <1>2 DEF WaitInv, Ingestible
  <2> QED BY <1>2, <2>1 DEF FileWaits, Ingesting, HasDoc
<1>4. FreshInv'
  <2> SUFFICES ASSUME NEW f \in Files \ disturbed PROVE Fresh(f)'
    BY DEF FreshInv
  <2>1. Fresh(f)
    BY DEF FreshInv
  <2>2. kind = "sync" => f \in S \/ NoNews(f)
    <3>1. f \notin News => NoNews(f)
      BY <1>2 DEF News, NoNews
    <3> QED BY <1>1, <3>1
  <2>3. Scanned' => NoNews(f)
    <3>1. CASE kind = "sync"
      BY <1>1, <1>2, <3>1 DEF Scanned, Walking
    <3>2. CASE kind # "sync"
      BY <1>1, <2>1, <3>2 DEF Fresh, Scanned
    <3> QED BY <3>1, <3>2
  <2> QED BY <1>2, <2>1, <2>2, <2>3 DEF Fresh, HasDoc, Holds, NoNews, Ingesting
<1> QED BY <1>3, <1>4

\* Without faults, what the server does is a step of a job.
LEMMA ServerWorks ==
  ASSUME Faults = {}, PhaseInv, ServerP
  PROVE  Step /\ UNCHANGED ui
BY DEF PhaseInv, ServerP, Fault, JobError, DbError, Crash, Restart

LEMMA FreshStep ==
  ASSUME Faults = {}, IInv, PhaseInv, WaitInv, FreshInv, [NextAlone]_<<vars, ui, disturbed>>
  PROVE  WaitInv' /\ FreshInv'
<1>1. CASE OwnerP
  BY <1>1, OwnerKeeps
<1>2. CASE (ClickAlone \/ Read \/ Search) /\ UNCHANGED disturbed
  BY <1>2, StartsKeep
<1>3. CASE Looks /\ UNCHANGED disturbed
  BY <1>3, LooksKeep
<1>4. CASE ServerP /\ UNCHANGED disturbed
  BY <1>4, ServerWorks, StepWaits, StepFresh
<1>5. CASE ClickFails \/ UNCHANGED <<vars, ui, disturbed>>
  BY <1>5 DEF ClickFails, PhaseInv, vars, WaitInv, FileWaits, FreshInv, Fresh, HasDoc, Holds, NoNews, Scanned, Ingesting
<1> QED BY <1>1, <1>2, <1>3, <1>4, <1>5 DEF NextAlone, Flow, Looks

-----------------------------------------------------------------------------
(* Leaving because nothing is pending. *)

LEMMA NothingPendingSettles ==
  ASSUME IInv, PhaseInv, WaitInv, job.kind = "idle", NEW f \in Files
  PROVE  /\ db = tx
         /\ ~Counts.ingest => tx.status[f] \notin {"DISCOVERED", "FAILED"}
         /\ ~Counts.chunk /\ ~Counts.build => tx.status[f] # "INDEXING"
         /\ ~Counts.build /\ HasChunks(tx, f) => tx.status[f] # "INDEXING"
<1>1. db = tx
  BY DEF IInv, Between
<1>2. ~Counts.ingest => tx.status[f] \notin {"DISCOVERED", "FAILED"}
  BY <1>1 DEF Counts, ToIngest
<1>3. tx.status[f] = "INDEXING" => HasDoc(tx, f)
  BY DEF WaitInv, FileWaits, Ingesting
<1>4. ~Counts.chunk /\ ~Counts.build => tx.status[f] # "INDEXING"
  BY <1>1, <1>3 DEF Counts, ToChunk, ToBuild
<1>5. ~Counts.build /\ HasChunks(tx, f) => tx.status[f] # "INDEXING"
  BY <1>1, <1>3 DEF Counts, ToBuild
<1> QED BY <1>1, <1>2, <1>4, <1>5

LEMMA EarlyStep ==
  ASSUME Faults = {}, IInv, PhaseInv, WaitInv, EarlyInv, [NextAlone]_<<vars, ui, disturbed>>
  PROVE  EarlyInv'
<1> SUFFICES ASSUME ui'.early, NEW f \in Files PROVE Settled(f)'
  BY DEF EarlyInv
<1>1. CASE ui.early /\ UNCHANGED db
  BY <1>1 DEF EarlyInv, Settled
<1>2. CASE OwnerP
  BY <1>1, <1>2 DEF OwnerP, TrashOrRestore, Edit
<1>3. CASE (ClickAlone \/ Read \/ Search) /\ UNCHANGED disturbed
  BY <1>3 DEF ClickAlone, Read, Search, Rest, PhaseInv, PageType
<1>4. CASE (ReadDone \/ ReadFailed \/ ChunkDone \/ BuildDone \/ StepFailed \/ StartFailed \/ Timeout) /\ UNCHANGED disturbed
  BY <1>4 DEF ReadDone, ReadFailed, ChunkDone, BuildDone, StepFailed, StartFailed, Timeout, Polling, PhaseInv, PageType
<1>5. CASE ScanDone /\ UNCHANGED disturbed
  <2>1. PICK p \in CountsOr(AllPending) : ui'.early = (p = NonePending)
    BY <1>5, Zenon DEF ScanDone, PhaseInv, PageType
  <2>2. Counts = NonePending
    <3>1. p = NonePending
      BY <2>1, Zenon
    <3>2. AllPending.ingest /\ ~NonePending.ingest
      BY DEF AllPending, NonePending
    <3>3. p = Counts \/ p = AllPending
      BY DEF CountsOr
    <3> QED BY <3>1, <3>2, <3>3
  <2>3. job.kind = "idle" /\ UNCHANGED db
    BY <1>5 DEF ScanDone, Polling, vars, PhaseInv
  <2>4. ~Counts.ingest /\ ~Counts.chunk /\ ~Counts.build
    BY <2>2 DEF NonePending
  <2>5. tx.status[f] \in Status
    BY DEF IInv, TypeOK, StoreType
  <2> QED BY <2>3, <2>4, <2>5, NothingPendingSettles DEF Settled, Status
<1>6. CASE ServerP /\ UNCHANGED disturbed
  <2>1. ui.early /\ job.kind = "idle" /\ Step
    BY <1>6, ServerWorks DEF PhaseInv, JobsAt
  <2>2. CASE Finish
    BY <2>1, <2>2 DEF Finish
  <2>3. ASSUME NEW g \in Files, OnFile(g) PROVE FALSE
    BY <2>1, <2>3 DEF OnFile
  <2> QED BY <2>1, <2>2, <2>3, StepIsOnFile
<1>7. CASE Look \/ ClickFails \/ UNCHANGED <<vars, ui, disturbed>>
  BY <1>1, <1>7 DEF Look, ClickFails, vars, PhaseInv, PageType
<1> QED BY <1>2, <1>3, <1>4, <1>5, <1>6, <1>7 DEF NextAlone, Flow

-----------------------------------------------------------------------------
(* What is left to do. *)

LEMMA StepLeaves ==
  ASSUME IInv, PhaseInv, WaitInv, LeftInv, Step, UNCHANGED <<ui, disturbed>>
  PROVE  LeftInv'
<1>1. CASE Finish
  <2> SUFFICES ASSUME NEW f \in Files PROVE Left(f)'
    BY DEF LeftInv
  <2>1. UNCHANGED <<tx, ui>> /\ job.kind # "idle" /\ job.todo = {} /\ job.cur = {} /\ job'.todo = {} /\ job'.cur = {}
        /\ ~job'.failed /\ jobRow' = IF job.failed THEN "FAILED" ELSE "COMPLETED"
    BY <1>1, FinishEnds
  <2>2. Left(f) /\ jobRow # "FAILED"
    BY <2>1 DEF LeftInv, PhaseInv
  <2> QED BY <2>1, <2>2 DEF Left, Unread, HasChunks
<1>2. ASSUME NEW f \in Files, OnFile(f), Left(f)' PROVE LeftInv'
  BY <1>2, OthersKeep DEF LeftInv
<1>3. ASSUME NEW f \in Files, OnFile(f), job.kind \in {"ingest", "chunk", "build"}
      PROVE  /\ UNCHANGED <<ui, jobRow>> /\ Left(f)
             /\ job.kind = "ingest" => ui.pc \in {"reading", "error"}
             /\ job.kind = "chunk" => ui.pc \in {"chunking", "error"}
             /\ job.kind = "build" => ui.pc \in {"building", "error"}
  BY <1>3 DEF OnFile, LeftInv, PhaseInv, JobsAt
<1>4. ASSUME NEW f \in Files, SyncFile(f) PROVE LeftInv'
  <2>1. OnFile(f) /\ job.kind = "sync"
    BY <1>4, SyncOnFile
  <2>2. ui'.pc \in {"scanning", "error"}
    BY <2>1 DEF PhaseInv, JobsAt
  <2> QED BY <1>2, <2>1, <2>2 DEF Left
<1>5. ASSUME NEW f \in Files, IngestSkip(f) \/ IngestCurrent(f) \/ IngestFetch(f) \/ Download(f) \/ IngestFail(f)
      PROVE  LeftInv'
  <2>1. OnFile(f) /\ job.kind = "ingest"
    BY <1>5, IngestOnFile
  <2>2. tx'.status[f] \notin {"DISCOVERED", "FAILED"} \/ job'.failed
    <3>1. f \in job.cur => tx.status[f] = "INDEXING"
      BY <2>1 DEF IInv, FileInv, SetAside
    <3> QED BY <1>5, <3>1, IngestOnFile
  <2> QED BY <1>2, <1>3, <2>1, <2>2 DEF Left, Unread
<1>6. ASSUME NEW f \in Files, ExtractBlank(f) \/ ExtractSame(f) \/ ExtractNew(f) PROVE LeftInv'
  <2>1. OnFile(f) /\ job.kind = "ingest" /\ tx'.status[f] \in {"SKIPPED", "INDEXING"}
    BY <1>6, ExtractOnFile
  <2> QED BY <1>2, <1>3, <2>1 DEF Left, Unread
<1>7. ASSUME NEW f \in Files,
             ChunkFile(f) \/ BuildChunk(f) \/ BuildPrune(f) \/ UpsertBatch(f) \/ MarkIndexed(f) \/ BuildFail(f)
      PROVE  LeftInv'
  <2>1. OnFile(f) /\ job.kind \in {"chunk", "build"} /\ tx.status[f] = "INDEXING"
    BY <1>7, StageOnFile
  <2>2. CASE job.kind = "chunk"
    <3>1. tx'.status = tx.status /\ HasChunks(tx', f)
      BY <1>7, <2>2, StageOnFile
    <3> QED BY <1>2, <1>3, <2>1, <2>2, <3>1 DEF Left, Unread, HasChunks
  <2>3. CASE job.kind = "build"
    <3>1. \/ tx'.status = tx.status /\ f \in job'.cur
          \/ tx'.status[f] = "INDEXED"
          \/ tx'.status[f] = "FAILED" /\ job'.failed
      BY <1>7, <2>3, StageOnFile
    <3> QED BY <1>2, <1>3, <2>1, <2>3, <3>1 DEF Left, Unread
  <2> QED BY <2>1, <2>2, <2>3
<1> QED BY <1>1, <1>4, <1>5, <1>6, <1>7 DEF Step, SyncStep, IngestStep, ChunkStep, BuildStep

LEMMA StartsLeave ==
  ASSUME IInv, PhaseInv, WaitInv, LeftInv, ClickAlone \/ Read \/ Search
  PROVE  LeftInv'
<1> SUFFICES ASSUME NEW f \in Files PROVE Left(f)'
  BY DEF LeftInv
<1>1. ui \in PageType /\ Left(f)
  BY DEF PhaseInv, LeftInv
<1>2. CASE ClickAlone
  <2>1. ui'.pc = "scanning"
    BY <1>2 DEF ClickAlone, Rest
  <2> QED BY <2>1 DEF Left
<1>3. CASE Read
  <2>1. ui'.pc = "reading" /\ Start("ingest", Ingestible(db))
    BY <1>1, <1>3 DEF Read
  <2>2. db = tx /\ tx' = tx /\ job'.todo = Ingestible(db)
    BY <2>1 DEF Start, Idle, NoJob, IInv, Between
  <2> QED BY <2>1, <2>2 DEF Left, Unread, Ingestible
<1>4. CASE Search
  <2>1. PICK kind \in {"chunk", "build"} :
          Start(kind, Eligible(db)) /\ ui'.pc = (IF kind = "chunk" THEN "chunking" ELSE "building")
          /\ ui'.warned = ui.warned /\ ui.pc = "search"
    BY <1>1, <1>4 DEF Search, PageType
  <2>2. db = tx /\ tx' = tx /\ job'.todo = Eligible(db) /\ job.kind = "idle"
    BY <2>1 DEF Start, Idle, NoJob, IInv, Between
  <2>3. tx.status[f] = "INDEXING" => f \in Eligible(db)
    BY <2>2 DEF Eligible, WaitInv, FileWaits, Ingesting
  <2> QED BY <1>1, <2>1, <2>2, <2>3 DEF Left, Unread
<1> QED BY <1>2, <1>3, <1>4

LEMMA LooksLeave ==
  ASSUME "counts" \notin Interruptions, IInv, PhaseInv, WaitInv, LeftInv, Looks, UNCHANGED vars
  PROVE  LeftInv'
<1> SUFFICES ASSUME NEW f \in Files PROVE Left(f)'
  BY DEF LeftInv
<1>1. ui \in PageType /\ Left(f)
  BY DEF PhaseInv, LeftInv
<1>2. Counts \in PendingType /\ UNCHANGED <<tx, job, jobRow>> /\ (\A other : CountsOr(other) = {Counts})
  BY DEF Counts, PendingType, vars, CountsOr
<1>3. jobRow # "RUNNING" => job.kind = "idle" /\ job.todo = {} /\ job.cur = {} /\ ~job.failed
  BY DEF PhaseInv, NoJob
<1>4. /\ job.kind = "idle" /\ ~Counts.ingest => ~Unread(f)
      /\ job.kind = "idle" /\ ~Counts.chunk /\ ~Counts.build => tx.status[f] # "INDEXING"
      /\ job.kind = "idle" /\ ~Counts.build /\ HasChunks(tx, f) => tx.status[f] # "INDEXING"
  BY NothingPendingSettles DEF Unread
<1>5. CASE ui'.pc \in {"error", "read"}
  BY <1>5 DEF Left
<1>6. CASE ScanDone
  <2>1. job.kind = "idle" /\ ui'.pc = (IF Counts.ingest THEN "read" ELSE SearchOrReady(Counts))
    BY <1>1, <1>2, <1>3, <1>6 DEF ScanDone, Polling
  <2> QED BY <1>2, <1>4, <1>5, <2>1 DEF Left, Unread, SearchOrReady
<1>7. CASE ReadDone
  <2>1. job.kind = "idle" /\ ui'.pc = SearchOrReady(Counts) /\ ui.pc = "reading" /\ jobRow = "COMPLETED"
    BY <1>1, <1>2, <1>3, <1>7 DEF ReadDone, Polling
  <2>2. ~Unread(f)
    BY <1>1, <1>3, <2>1 DEF Left
  <2> QED BY <1>2, <1>4, <2>1, <2>2 DEF Left, Unread, SearchOrReady
<1>8. CASE ReadFailed
  <2>1. ui'.pc = "error" \/ (ui'.pc = "search" /\ ui'.warned)
    BY <1>1, <1>2, <1>8 DEF ReadFailed, PageType
  <2> QED BY <1>5, <2>1 DEF Left
<1>9. CASE ChunkDone
  <2>1. job.kind = "idle" /\ ui.pc = "chunking" /\ ui'.warned = ui.warned /\ job.todo = {}
        /\ ui'.pc = (IF Counts.build THEN "search" ELSE "ready")
    BY <1>1, <1>2, <1>3, <1>9 DEF ChunkDone, Polling, PageType
  <2> QED BY <1>1, <1>2, <1>4, <2>1 DEF Left, Unread
<1>10. CASE BuildDone
  <2>1. job.kind = "idle" /\ ui.pc = "building" /\ ui'.warned = ui.warned /\ ui'.pc = "ready" /\ jobRow = "COMPLETED"
    BY <1>1, <1>3, <1>10 DEF BuildDone, Polling
  <2> QED BY <1>1, <1>2, <1>3, <2>1 DEF Left, Unread
<1>11. CASE StepFailed \/ StartFailed \/ Timeout
  BY <1>1, <1>5, <1>11 DEF StepFailed, StartFailed, Timeout, PageType
<1>12. CASE Look
  <2>1. ui'.pc = ui.pc /\ ui'.warned = ui.warned
    BY <1>1, <1>12 DEF Look, PageType
  <2> QED BY <1>1, <1>2, <2>1 DEF Left, Unread, HasChunks
<1> QED BY <1>6, <1>7, <1>8, <1>9, <1>10, <1>11, <1>12 DEF Looks

LEMMA LeftStep ==
  ASSUME Faults = {}, "counts" \notin Interruptions, IInv, PhaseInv, WaitInv, LeftInv, [NextAlone]_<<vars, ui, disturbed>>
  PROVE  LeftInv'
<1>1. CASE OwnerP
  BY <1>1 DEF OwnerP, TrashOrRestore, Edit, LeftInv, Left, Unread, HasChunks
<1>2. CASE ClickAlone \/ Read \/ Search
  BY <1>2, StartsLeave
<1>3. CASE Looks
  <2>1. UNCHANGED vars
    BY <1>3 DEF Looks, ScanDone, ReadDone, ReadFailed, ChunkDone, BuildDone, StepFailed, StartFailed, Timeout, Look
  <2> QED BY SMTT(30), <1>3, <2>1, LooksLeave
<1>4. CASE ServerP /\ UNCHANGED disturbed
  BY <1>4, ServerWorks, StepLeaves
<1>5. CASE ClickFails \/ UNCHANGED <<vars, ui, disturbed>>
  BY <1>5 DEF ClickFails, PhaseInv, vars, LeftInv, Left, Unread, HasChunks
<1> QED BY <1>1, <1>2, <1>3, <1>4, <1>5 DEF NextAlone, Flow, Looks

-----------------------------------------------------------------------------

LEMMA InitialP == InitP => PhaseInv /\ WaitInv /\ FreshInv /\ EarlyInv /\ LeftInv
<1> SUFFICES ASSUME InitP PROVE PhaseInv /\ WaitInv /\ FreshInv /\ EarlyInv /\ LeftInv
  OBVIOUS
<1>1. /\ ui = Rest /\ disturbed = {} /\ job = NoJob /\ up /\ tx = db /\ now = 0
      /\ \A f \in Files : /\ drive[f].mod = 0 /\ tx.status[f] = "NONE" /\ tx.mod[f] = 0 /\ tx.doc[f] = NoDoc
  BY DEF InitP, Init
<1>2. ui.pc = "rest" /\ ~ui.early /\ job.kind = "idle"
  BY <1>1 DEF Rest, NoJob
<1>3. PhaseInv
  BY <1>1, <1>2 DEF PhaseInv, PageType, Rest, NonePending, PendingType, Stops, Walking, JobsAt, NoJob
<1>4. WaitInv /\ FreshInv
  BY <1>1, <1>2 DEF WaitInv, FileWaits, FreshInv, Fresh, HasDoc, NoDoc, Scanned, Walking
<1>5. EarlyInv /\ LeftInv
  BY <1>2 DEF EarlyInv, LeftInv, Left
<1> QED BY <1>3, <1>4, <1>5

\* The inductive invariant of a flow that no fault strikes, until an overlap.
FlowInv == IInv /\ PhaseInv /\ WaitInv /\ FreshInv /\ EarlyInv

LEMMA FlowInvariance == ASSUME Faults = {} PROVE SpecP => [](~overlapped => FlowInv)
<1>1. InitP => FlowInv
  BY InitialP, InitIInv DEF FlowInv, InitP
<1>2. FlowInv /\ [NextAlone]_<<vars, ui, disturbed>> => FlowInv'
  BY PhaseStep, FreshStep, EarlyStep, FlowSteps, NextIInv DEF FlowInv
<1>3. (~overlapped => FlowInv) /\ [NextP]_pvars => (~overlapped => FlowInv)'
  BY <1>2, UntilOverlap
<1> QED BY <1>1, <1>3, PTL DEF SpecP

\* What the owner edits at rest is served, for any files, texts and edits, and whatever
\* polls time out and requests for counts fail in prepare.ts, when no fault strikes and
\* as long as no click finds a job still running.
THEOREM UndisturbedFilesAreFresh == ASSUME Faults = {} PROVE SpecP => []FreshUnlessDisturbed
<1>1. (~overlapped => FlowInv) => FreshUnlessDisturbed
  BY DEF FlowInv, FreshInv, Fresh, Holds, FreshUnlessDisturbed
<1> QED BY <1>1, FlowInvariance, PTL

\* When prepare.ts leaves after the scan because nothing is pending, every file is settled:
\* between faults, and with one job at a time, no INDEXING file lacks the document that
\* makes it count.
THEOREM LeavingEarlyIsRight == ASSUME Faults = {} PROVE SpecP => []EarlyMeansSettled
<1>1. (~overlapped => FlowInv) => EarlyMeansSettled
  BY DEF FlowInv, EarlyInv, EarlyMeansSettled, NothingPendingMeansIndexed
<1> QED BY <1>1, FlowInvariance, PTL

\* Only a poll that gave up leads to a second job beside the first: if every poll of
\* prepare.ts waits for its job, a preparation that leaves because nothing is pending
\* leaves every file settled, with no condition on the clicks.
THEOREM PatientPreparationsDoNotOverlap ==
  ASSUME Faults = {}, "timeout" \notin Interruptions
  PROVE  SpecP => [](~overlapped /\ NothingPendingMeansIndexed)
<1>1. InitP => ~overlapped
  BY DEF InitP
<1>2. ~overlapped /\ (~overlapped => FlowInv) /\ [NextP]_pvars => ~overlapped'
  <2> SUFFICES ASSUME ~overlapped, FlowInv, [NextP]_pvars PROVE ~overlapped'
    OBVIOUS
  <2>1. CASE Click
    <3>1. PICK S : ClickAtRest(S) \/ ClickBeside(S)
      BY <2>1 DEF Click
    <3>2. job.kind = "idle"
      BY <2>1 DEF Click, Resting, FlowInv, PhaseInv, JobsAt
    <3> QED BY <3>1, <3>2 DEF ClickAtRest, ClickBeside, overlaps
  <2>2. CASE Beside \/ ServerP
    BY <2>2 DEF Beside, ServerP
  <2>3. CASE UNCHANGED overlaps \/ UNCHANGED pvars
    BY <2>3 DEF overlaps, pvars
  <2> QED BY <2>1, <2>2, <2>3 DEF NextP, overlaps
<1>3. ~overlapped /\ (~overlapped => FlowInv) => NothingPendingMeansIndexed
  BY DEF FlowInv, EarlyInv, NothingPendingMeansIndexed
<1> QED BY <1>1, <1>2, <1>3, FlowInvariance, PTL DEF SpecP

\* A flow that ends as ready without a warning leaves no file behind, if no fault strikes,
\* no click found a job still running, and every count it goes by was fetched (its catch
\* puts older counts in their place).
THEOREM ReadyLeavesNothing ==
  ASSUME Faults = {}, "counts" \notin Interruptions
  PROVE  SpecP => []ReadyMeansSettled
<1>1. InitP => LeftInv
  BY InitialP
<1>2. FlowInv /\ LeftInv /\ [NextAlone]_<<vars, ui, disturbed>> => LeftInv'
  BY LeftStep DEF FlowInv
<1>3. (~overlapped => FlowInv) /\ (~overlapped => LeftInv) /\ [NextP]_pvars => (~overlapped => LeftInv)'
  BY <1>2, UntilOverlap
<1>4. (~overlapped => FlowInv) /\ (~overlapped => LeftInv) => ReadyMeansSettled
  <2> SUFFICES ASSUME FlowInv, LeftInv, ui.pc = "ready", ~ui.warned, NEW f \in Files PROVE Settled(f)
    BY DEF ReadyMeansSettled
  <2>1. tx.status[f] \notin {"DISCOVERED", "FAILED", "INDEXING"}
    BY DEF LeftInv, Left, Unread
  <2>2. db = tx /\ tx.status[f] \in Status
    BY DEF IInv, Between, FlowInv, PhaseInv, JobsAt, TypeOK, StoreType
  <2> QED BY <2>1, <2>2 DEF Settled, Status
<1> QED BY <1>1, <1>3, <1>4, FlowInvariance, PTL DEF SpecP

=============================================================================
