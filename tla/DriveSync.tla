------------------------------ MODULE DriveSync ------------------------------
(***************************************************************************)
(* Metadata sync, backend/app/services/drive_sync_service.py: full scans   *)
(* and incremental syncs through the Changes API, with the cursor kept in  *)
(* drive_sync_states.  One sync runs at a time; the owner changes Drive at *)
(* any moment, between any two API calls.                                  *)
(*                                                                         *)
(* Drive numbers its changes 1, 2, ...; a page token is the number of the  *)
(* last change it covers.  changes.list names each file once, at its last  *)
(* change, with the metadata the file has when the page is read.           *)
(*                                                                         *)
(* The code reads all pages first and stages rows afterwards; here a row   *)
(* is staged as its file is read.  Staged rows are seen by nobody before   *)
(* the commit, and an error while listing (ListError) drops them.          *)
(***************************************************************************)
EXTENDS Integers

CONSTANTS
  Files,       \* Drive files of supported types
  MaxChanges,  \* bound on the changes made in Drive
  Faults       \* which of "list", "apply", "database" and "crash" may strike

ASSUME SyncAssumption ==
  /\ MaxChanges \in Nat
  /\ Faults \subseteq {"list", "apply", "database", "crash"}

VARIABLES
  drive,      \* each file's liveness and metadata version
  changedAt,  \* number of each file's last change
  head,       \* number of the last change
  db,         \* committed drive_files rows and cursor
  tx,         \* the same as the session of the running sync sees them
  job,        \* the running sync
  jobRow,     \* status of its indexing_jobs row
  up          \* whether the server runs

vars == <<drive, changedAt, head, db, tx, job, jobRow, up>>

-----------------------------------------------------------------------------

NoCursor == -1

\* The code has one SKIPPED; EMPTY is the one that the pipeline sets on a file
\* without searchable text.  Sync treats both alike.
Skipped == {"SKIPPED", "EMPTY"}
Status  == {"NONE", "DISCOVERED", "INDEXING", "INDEXED", "FAILED"} \cup Skipped

NoJob == [pc |-> "idle", token |-> 0, todo |-> {}, seen |-> {}]

Idle   == up /\ job.pc = "idle"
At(pc) == up /\ job.pc = pc

-----------------------------------------------------------------------------
(* The owner and the preparation pipeline. *)

\* Create, edit, rename, trash or restore: one numbered change.  Some changes
\* (a comment, say) show in no metadata.
Change(f) ==
  /\ head < MaxChanges
  /\ head' = head + 1
  /\ changedAt' = [changedAt EXCEPT ![f] = head + 1]
  /\ \/ drive' = [drive EXCEPT ![f] = [live |-> TRUE, ver |-> head + 1]]
     \/ \E live \in BOOLEAN : drive' = [drive EXCEPT ![f].live = live]
  /\ UNCHANGED <<db, tx, job, jobRow, up>>

\* The other jobs move a file that has a row and is not SKIPPED.
Pipeline(f) ==
  /\ Idle
  /\ db.row[f].status \notin {"NONE"} \cup Skipped
  /\ \E st \in {"INDEXING", "INDEXED", "FAILED", "EMPTY"} :
       db' = [db EXCEPT !.row[f].status = st]
  /\ tx' = db'
  /\ UNCHANGED <<drive, changedAt, head, job, jobRow, up>>

-----------------------------------------------------------------------------
(* Staging one file's row. *)

\* Mutant of Upsert: a new version leaves the file INDEXED.
UpsertKeepsIndexed(row, d) ==
  [ver |-> d.ver, status |-> IF row.status \in {"NONE"} \cup Skipped THEN "DISCOVERED" ELSE row.status]

\* Mutant of Upsert: a file set aside stays so.
UpsertKeepsSkipped(row, d) ==
  [ver    |-> d.ver,
   status |-> IF \/ row.status = "NONE"
                 \/ row.status = "INDEXED" /\ row.ver # d.ver
              THEN "DISCOVERED" ELSE row.status]

\* _upsert_file: an edit of an indexed file sends it back to be ingested, a
\* file set aside comes back, any other status is kept.
Upsert(row, d) ==
  [ver    |-> d.ver,
   status |-> IF \/ row.status \in {"NONE"} \cup Skipped
                 \/ row.status = "INDEXED" /\ row.ver # d.ver
              THEN "DISCOVERED" ELSE row.status]

\* _mark_file_removed, and _reconcile_missing_files for one file
MarkRemoved(row) ==
  IF row.status \in {"NONE"} \cup Skipped THEN row ELSE [row EXCEPT !.status = "SKIPPED"]

\* What becomes of a file's row when Drive shows it in state d.
Applied(row, d) == IF d.live THEN Upsert(row, d) ELSE MarkRemoved(row)

-----------------------------------------------------------------------------
(* sync_metadata *)

StartFull ==
  /\ Idle
  /\ job' = [NoJob EXCEPT !.pc = "token"]
  /\ jobRow' = "RUNNING"
  /\ UNCHANGED <<drive, changedAt, head, db, tx, up>>

StartIncremental ==
  /\ Idle
  /\ db.cursor # NoCursor
  /\ job' = [NoJob EXCEPT !.pc = "changes", !.token = db.cursor]
  /\ jobRow' = "RUNNING"
  /\ UNCHANGED <<drive, changedAt, head, db, tx, up>>

\* Mutant of GetStartPageToken: the token is the number of the next change.
GetStartPageTokenNext ==
  /\ At("token")
  /\ job' = [NoJob EXCEPT !.pc = "list", !.token = head + 1, !.todo = Files]
  /\ UNCHANGED <<drive, changedAt, head, db, tx, jobRow, up>>

\* The start page token is taken before anything is listed.
GetStartPageToken ==
  /\ At("token")
  /\ job' = [NoJob EXCEPT !.pc = "list", !.token = head, !.todo = Files]
  /\ UNCHANGED <<drive, changedAt, head, db, tx, jobRow, up>>

\* The page that holds f is read.
ListFile(f) ==
  /\ At("list") /\ f \in job.todo
  /\ drive[f].live
  /\ tx' = [tx EXCEPT !.row[f] = Upsert(@, drive[f])]
  /\ job' = [job EXCEPT !.todo = @ \ {f}, !.seen = @ \cup {f}]
  /\ UNCHANGED <<drive, changedAt, head, db, jobRow, up>>

\* The listing ends without f: it is not there, or it changed while the pages
\* were being read and slipped between two of them.
ListMiss(f) ==
  /\ At("list") /\ f \in job.todo
  /\ ~drive[f].live \/ changedAt[f] > job.token
  /\ job' = [job EXCEPT !.todo = @ \ {f}]
  /\ UNCHANGED <<drive, changedAt, head, db, tx, jobRow, up>>

\* Mutant of Reconcile: the page token is taken once the listing is complete.
ReconcileThenToken ==
  /\ At("list") /\ job.todo = {}
  /\ tx' = [tx EXCEPT !.row = [f \in Files |-> IF f \in job.seen THEN tx.row[f]
                                               ELSE MarkRemoved(tx.row[f])]]
  /\ job' = [job EXCEPT !.pc = "save", !.token = head]
  /\ UNCHANGED <<drive, changedAt, head, db, jobRow, up>>

Reconcile ==
  /\ At("list") /\ job.todo = {}
  /\ tx' = [tx EXCEPT !.row = [f \in Files |-> IF f \in job.seen THEN tx.row[f]
                                               ELSE MarkRemoved(tx.row[f])]]
  /\ job' = [job EXCEPT !.pc = "save"]
  /\ UNCHANGED <<drive, changedAt, head, db, jobRow, up>>

\* One page of changes, up to change m; the last page brings the new start
\* page token, the others the token of the next page.
ChangesPage(m) ==
  /\ At("changes")
  /\ m \in job.token..head
  /\ m > job.token \/ m = head
  /\ tx' = [tx EXCEPT !.row =
             [f \in Files |-> IF job.token < changedAt[f] /\ changedAt[f] <= m
                              THEN Applied(tx.row[f], drive[f]) ELSE tx.row[f]]]
  /\ job' = [job EXCEPT !.token = m, !.pc = IF m = head THEN "save" ELSE "changes"]
  /\ UNCHANGED <<drive, changedAt, head, db, jobRow, up>>

\* Rows, cursor and job row in one commit.
Save ==
  /\ At("save")
  /\ db' = [tx EXCEPT !.cursor = job.token]
  /\ tx' = db'
  /\ job' = NoJob
  /\ jobRow' = "COMPLETED"
  /\ UNCHANGED <<drive, changedAt, head, up>>

-----------------------------------------------------------------------------
(* Failures. *)

\* An API call fails before anything is staged.
ListError ==
  /\ "list" \in Faults
  /\ up /\ job.pc \in {"token", "list", "changes"}
  /\ tx' = db
  /\ job' = NoJob
  /\ jobRow' = "FAILED"
  /\ UNCHANGED <<drive, changedAt, head, db, up>>

\* Mutant of ApplyError: the cursor is set before the rows are staged.
ApplyErrorAfterCursor ==
  /\ "apply" \in Faults
  /\ up /\ job.pc \in {"list", "changes", "save"}
  /\ db' = [tx EXCEPT !.cursor = job.token]
  /\ tx' = db'
  /\ job' = NoJob
  /\ jobRow' = "FAILED"
  /\ UNCHANGED <<drive, changedAt, head, up>>

\* Metadata that cannot be read fails the sync halfway: the handler marks the
\* job FAILED, and its commit keeps the rows staged so far.
ApplyError ==
  /\ "apply" \in Faults
  /\ up /\ job.pc \in {"list", "changes", "save"}
  /\ db' = tx
  /\ job' = NoJob
  /\ jobRow' = "FAILED"
  /\ UNCHANGED <<drive, changedAt, head, tx, up>>

\* The session is unusable: nothing is committed, the job row keeps RUNNING.
DbError ==
  /\ "database" \in Faults
  /\ up /\ job.pc # "idle"
  /\ tx' = db
  /\ job' = NoJob
  /\ UNCHANGED <<drive, changedAt, head, db, jobRow, up>>

Crash ==
  /\ "crash" \in Faults
  /\ up
  /\ up' = FALSE
  /\ tx' = db
  /\ job' = NoJob
  /\ UNCHANGED <<drive, changedAt, head, db, jobRow>>

Restart ==
  /\ ~up
  /\ up' = TRUE
  /\ jobRow' = IF jobRow = "RUNNING" THEN "FAILED" ELSE jobRow
  /\ UNCHANGED <<drive, changedAt, head, db, tx, job>>

-----------------------------------------------------------------------------

Init ==
  /\ drive \in [Files -> [live : BOOLEAN, ver : {0}]]
  /\ changedAt = [f \in Files |-> 0]
  /\ head = 0
  /\ db = [row |-> [f \in Files |-> [status |-> "NONE", ver |-> 0]], cursor |-> NoCursor]
  /\ tx = db
  /\ job = NoJob
  /\ jobRow = "NONE"
  /\ up = TRUE

Progress ==
  \/ GetStartPageToken \/ Reconcile \/ Save
  \/ \E f \in Files : ListFile(f) \/ ListMiss(f)
  \/ \E m \in 0..MaxChanges : ChangesPage(m)

Fault == ListError \/ ApplyError \/ DbError \/ Crash

Next ==
  \/ \E f \in Files : Change(f) \/ Pipeline(f)
  \/ StartFull \/ StartIncremental
  \/ Progress
  \/ Fault \/ Restart

Spec == Init /\ [][Next]_vars

\* The event loop runs a started sync to its end, the owner asks for syncs
\* again and again, and a dead server is restarted.
FairSpec == Spec /\ WF_vars(Progress) /\ WF_vars(Restart) /\ WF_vars(StartFull \/ StartIncremental)

-----------------------------------------------------------------------------
(* Properties. *)

Row   == [status : Status, ver : 0..MaxChanges]
Store == [row : [Files -> Row], cursor : {NoCursor} \cup 0..MaxChanges]

\* The type invariant of sync.
TypeOK ==
  /\ drive \in [Files -> [live : BOOLEAN, ver : 0..MaxChanges]]
  /\ changedAt \in [Files -> 0..MaxChanges]
  /\ head \in 0..MaxChanges
  /\ db \in Store
  /\ tx \in Store
  /\ job \in [pc : {"idle", "token", "list", "changes", "save"}, token : 0..MaxChanges,
              todo : SUBSET Files, seen : SUBSET Files]
  /\ jobRow \in {"NONE", "RUNNING", "COMPLETED", "FAILED"}
  /\ up \in BOOLEAN

\* The row says of the file what Drive says of it.
Reflects(row, d) ==
  IF d.live THEN row.status \notin {"NONE", "SKIPPED"} /\ row.ver = d.ver
            ELSE row.status \in {"NONE"} \cup Skipped

\* No change is lost: a file's row reflects Drive, or the file's last change
\* lies beyond the stored cursor, where the next incremental sync will meet it.
\* This is what taking the start page token before the listing, and storing the
\* cursor with the rows in one commit, is for.
NoLostChange ==
  \A f \in Files : changedAt[f] <= db.cursor => Reflects(db.row[f], drive[f])

\* A failed sync, even one that kept half of its rows, does not move the cursor,
\* and no sync moves it back.
CursorOnlyAdvancesOnSuccess ==
  [][db'.cursor # db.cursor => db'.cursor > db.cursor /\ jobRow' = "COMPLETED"]_vars

\* A sync that brings a new version of a file never leaves the file INDEXED:
\* the answers would go on quoting the old text.
NewVersionIsNotServed ==
  [][\A f \in Files : db'.row[f].ver # db.row[f].ver => db'.row[f].status # "INDEXED"]_vars

\* Whatever syncs failed halfway before, once failures cease repeated syncs make
\* every row reflect Drive, for good once Drive is left alone (it changes at
\* most MaxChanges times): no committed half of a sync and no crash leaves the
\* rows in a state that later syncs would not mend.
Converges ==
  <>[][~Fault]_vars => <>[](\A f \in Files : Reflects(db.row[f], drive[f]))

=============================================================================
