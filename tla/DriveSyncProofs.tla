--------------------------- MODULE DriveSyncProofs ---------------------------
(***************************************************************************)
(* TLAPS proofs about DriveSync: type correctness, and that no change made *)
(* in Drive is lost, whatever the set of files and the bound on changes.   *)
(***************************************************************************)
EXTENDS DriveSync, TLAPS

(***************************************************************************)
(* What the session has staged while a sync runs.                          *)
(*   - Outside a sync it sees the committed rows, and it never touches the *)
(*     cursor before the last commit.                                      *)
(*   - Staging never un-does what the rows already reflect (StagedKeeps).  *)
(*   - An incremental sync has caught up with every change up to the page  *)
(*     token it holds; a full scan has dealt with every file that is no    *)
(*     longer on its list, unless the file changed after the start token.  *)
(***************************************************************************)
StagedKeeps ==
  \A f \in Files : changedAt[f] <= db.cursor => Reflects(tx.row[f], drive[f])

CaughtUp ==
  job.pc \in {"changes", "save"} =>
    \A f \in Files : changedAt[f] <= job.token => Reflects(tx.row[f], drive[f])

ScanCorrect ==
  job.pc = "list" =>
    /\ job.todo \cap job.seen = {}
    /\ \A f \in Files : f \notin job.todo /\ changedAt[f] <= job.token =>
         IF drive[f].live THEN f \in job.seen /\ Reflects(tx.row[f], drive[f])
                          ELSE f \notin job.seen

Bounds ==
  /\ \A f \in Files : changedAt[f] <= head
  /\ db.cursor <= head
  /\ tx.cursor = db.cursor
  /\ job.pc \in {"list", "changes", "save"} => db.cursor <= job.token /\ job.token <= head

IInv ==
  /\ TypeOK
  /\ Bounds
  /\ job.pc \in {"idle", "token"} => tx = db
  /\ NoLostChange
  /\ StagedKeeps
  /\ CaughtUp
  /\ ScanCorrect

-----------------------------------------------------------------------------

\* Staging what Drive shows of a file makes its row well formed and true.
LEMMA AppliedReflects ==
  ASSUME NEW row \in Row, NEW d \in [live : BOOLEAN, ver : 0..MaxChanges]
  PROVE  /\ Applied(row, d) \in Row
         /\ Reflects(Applied(row, d), d)
         /\ d.live => Applied(row, d) = Upsert(row, d)
         /\ ~d.live => Applied(row, d) = MarkRemoved(row)
  BY DEF Applied, Upsert, MarkRemoved, Reflects, Row, Status, Skipped

\* Marking a row removed keeps it well formed.
LEMMA MarkRemovedType ==
  ASSUME NEW row \in Row
  PROVE  MarkRemoved(row) \in Row
  BY DEF MarkRemoved, Row, Status, Skipped

-----------------------------------------------------------------------------

\* Every step keeps rows, cursor, job and Drive well typed.
LEMMA TypePreserved == TypeOK /\ [Next]_vars => TypeOK'
<1> USE SyncAssumption
<1> SUFFICES ASSUME TypeOK, [Next]_vars PROVE TypeOK'
  OBVIOUS
<1> USE DEF TypeOK
<1>1. ASSUME NEW f \in Files, Change(f) PROVE TypeOK'
  <2>1. PICK d \in [live : BOOLEAN, ver : 0..MaxChanges] : drive' = [drive EXCEPT ![f] = d]
    <3>1. CASE drive' = [drive EXCEPT ![f] = [live |-> TRUE, ver |-> head + 1]]
      <4>1. [live |-> TRUE, ver |-> head + 1] \in [live : BOOLEAN, ver : 0..MaxChanges]
        BY <1>1 DEF Change
      <4>2. QED
        BY <3>1, <4>1
    <3>2. ASSUME NEW live \in BOOLEAN, drive' = [drive EXCEPT ![f].live = live]
          PROVE  \E d \in [live : BOOLEAN, ver : 0..MaxChanges] : drive' = [drive EXCEPT ![f] = d]
      <4>1. [drive[f] EXCEPT !.live = live] \in [live : BOOLEAN, ver : 0..MaxChanges]
        BY Zenon
      <4>2. QED
        BY <3>2, <4>1, Zenon
    <3>3. QED
      BY <1>1, <3>1, <3>2 DEF Change
  <2>2. drive' \in [Files -> [live : BOOLEAN, ver : 0..MaxChanges]]
    BY <2>1
  <2>3. /\ head' \in 0..MaxChanges
        /\ changedAt' \in [Files -> 0..MaxChanges]
        /\ UNCHANGED <<db, tx, job, jobRow, up>>
    BY <1>1 DEF Change
  <2>4. QED
    BY <2>2, <2>3
<1>2. ASSUME NEW f \in Files, Pipeline(f) PROVE TypeOK'
  <2>1. PICK st \in Status : db' = [db EXCEPT !.row[f].status = st]
    BY <1>2 DEF Pipeline, Status, Skipped
  <2>2. db' \in Store
    <3>1. db.row[f] \in Row
      BY DEF Store
    <3>2. [db.row[f] EXCEPT !.status = st] \in Row
      BY <3>1 DEF Row
    <3>3. [db.row EXCEPT ![f] = [db.row[f] EXCEPT !.status = st]] \in [Files -> Row]
      BY <3>2 DEF Store
    <3>4. db' = [db EXCEPT !.row = [db.row EXCEPT ![f] = [db.row[f] EXCEPT !.status = st]]]
      BY <2>1, Zenon
    <3>5. QED
      BY <3>3, <3>4 DEF Store
  <2>3. tx' = db' /\ UNCHANGED <<drive, changedAt, head, job, jobRow, up>>
    BY <1>2 DEF Pipeline
  <2>4. QED
    BY <2>2, <2>3
<1>3. CASE StartFull
  BY <1>3 DEF StartFull, NoJob
<1>4. CASE StartIncremental
  BY <1>4 DEF StartIncremental, NoJob, Store, NoCursor
<1>5. CASE GetStartPageToken
  BY <1>5 DEF GetStartPageToken, NoJob
<1>6. ASSUME NEW f \in Files, ListFile(f) PROVE TypeOK'
  <2>1. Upsert(tx.row[f], drive[f]) \in Row
    BY <1>6, AppliedReflects DEF ListFile, Store
  <2>2. QED
    BY <1>6, <2>1 DEF ListFile, Store
<1>7. ASSUME NEW f \in Files, ListMiss(f) PROVE TypeOK'
  BY <1>7 DEF ListMiss
<1>8. CASE Reconcile
  <2>1. \A f \in Files : MarkRemoved(tx.row[f]) \in Row
    BY MarkRemovedType DEF Store
  <2>2. QED
    BY <1>8, <2>1 DEF Reconcile, Store
<1>9. ASSUME NEW m \in 0..MaxChanges, ChangesPage(m) PROVE TypeOK'
  <2>1. \A f \in Files : Applied(tx.row[f], drive[f]) \in Row
    BY AppliedReflects DEF Store
  <2>2. QED
    BY <1>9, <2>1 DEF ChangesPage, Store
<1>10. CASE Save
  BY <1>10 DEF Save, NoJob, Store
<1>11. CASE ListError
  BY <1>11 DEF ListError, NoJob
<1>12. CASE ApplyError
  BY <1>12 DEF ApplyError, NoJob
<1>13. CASE DbError
  BY <1>13 DEF DbError, NoJob
<1>14. CASE Crash
  <2>1. up' \in BOOLEAN
    BY <1>14, Zenon DEF Crash
  <2>2. job' = NoJob /\ tx' = db /\ UNCHANGED <<drive, changedAt, head, db, jobRow>>
    BY <1>14 DEF Crash
  <2>3. QED
    BY <2>1, <2>2 DEF NoJob
<1>15. CASE Restart
  BY <1>15 DEF Restart
<1>16. CASE UNCHANGED vars
  BY <1>16 DEF vars
<1>17. QED
  BY <1>1, <1>2, <1>3, <1>4, <1>5, <1>6, <1>7, <1>8, <1>9, <1>10, <1>11, <1>12,
     <1>13, <1>14, <1>15, <1>16 DEF Next, Progress, Fault

\* Every reachable state of a sync is well typed (rows, cursor, job, Drive).
THEOREM TypeCorrect == Spec => []TypeOK
<1>1. Init => TypeOK
  BY SyncAssumption DEF Init, TypeOK, Store, Row, Status, Skipped, NoCursor, NoJob
<1>2. QED
  BY <1>1, TypePreserved, PTL DEF Spec

-----------------------------------------------------------------------------

\* A file whose last change the cursor covers did not change just now.
LEMMA ChangeIsBeyond ==
  ASSUME IInv, NEW f \in Files, Change(f), NEW g \in Files, NEW n \in Int, n <= head,
         changedAt'[g] <= n
  PROVE  g # f /\ changedAt[g] <= n /\ drive'[g] = drive[g]
<1>1. changedAt'[f] = head + 1
  BY DEF Change, IInv, TypeOK
<1>2. g # f
  BY <1>1 DEF IInv, TypeOK
<1>3. QED
  BY <1>2 DEF Change, IInv, TypeOK

\* The invariant holds at the start.
LEMMA InitIInv == Init => IInv
<1> SUFFICES ASSUME Init PROVE IInv
  OBVIOUS
<1>1. TypeOK
  BY SyncAssumption DEF Init, TypeOK, Store, Row, Status, Skipped, NoCursor, NoJob
<1>2. QED
  BY <1>1 DEF Init, IInv, Bounds, NoLostChange, StagedKeeps, CaughtUp, ScanCorrect, NoCursor, NoJob

\* Once a sync is over, the session sees the committed rows and only those
\* have to be right.
LEMMA Settled ==
  ASSUME TypeOK', tx' = db', job'.pc \in {"idle", "token"}, NoLostChange',
         db'.cursor <= head', \A f \in Files : changedAt'[f] <= head'
  PROVE  IInv'
BY DEF IInv, Bounds, StagedKeeps, NoLostChange, CaughtUp, ScanCorrect

\* While a sync stages rows, Drive and the committed rows stay, so only the
\* staged rows have to be looked at.
LEMMA Staging ==
  ASSUME IInv, TypeOK', UNCHANGED <<drive, changedAt, head, db>>,
         job.pc \in {"list", "changes"}, job'.pc \in {"list", "changes", "save"},
         job.token <= job'.token, job'.token <= head, tx'.cursor = tx.cursor,
         StagedKeeps', CaughtUp', ScanCorrect'
  PROVE  IInv'
BY DEF IInv, TypeOK, Bounds, NoLostChange, Store, NoCursor

\* Every step of the system preserves the invariant.
LEMMA NextIInv == IInv /\ [Next]_vars => IInv'
<1> SUFFICES ASSUME IInv, [Next]_vars PROVE IInv'
  OBVIOUS
<1>t. TypeOK /\ TypeOK'
  BY TypePreserved DEF IInv
<1> USE SyncAssumption
<1>1. ASSUME NEW f \in Files, Change(f) PROVE IInv'
  <2>1. UNCHANGED <<db, tx, job, jobRow, up>> /\ head' = head + 1
    BY <1>1 DEF Change
  <2>2. ASSUME NEW g \in Files, NEW n \in Int, n <= head, changedAt'[g] <= n
        PROVE  g # f /\ changedAt[g] <= n /\ drive'[g] = drive[g]
    BY <1>1, <2>2, ChangeIsBeyond
  <2>3. Bounds'
    BY <1>1, <2>1, <1>t DEF Change, IInv, Bounds, TypeOK, Store, NoCursor
  <2>4. NoLostChange' /\ StagedKeeps'
    BY <2>1, <2>2, <1>t DEF IInv, Bounds, NoLostChange, StagedKeeps, TypeOK, Store, NoCursor
  <2>5. CaughtUp'
    BY <2>1, <2>2, <1>t DEF IInv, Bounds, CaughtUp, TypeOK
  <2>6. ScanCorrect'
    BY <2>1, <2>2, <1>t DEF IInv, Bounds, ScanCorrect, TypeOK
  <2>7. QED
    BY <2>1, <2>3, <2>4, <2>5, <2>6, <1>t DEF IInv
<1>2. ASSUME NEW f \in Files, Pipeline(f) PROVE IInv'
  <2>1. PICK st \in {"INDEXING", "INDEXED", "FAILED", "EMPTY"} :
          db' = [db EXCEPT !.row[f].status = st]
    BY <1>2 DEF Pipeline
  <2>2. UNCHANGED <<drive, changedAt, head, job>> /\ tx' = db' /\ job.pc = "idle"
        /\ db.row[f].status \notin {"NONE"} \cup Skipped
    BY <1>2 DEF Pipeline, Idle
  <2>3. db'.cursor = db.cursor
    BY <2>1, <1>t DEF TypeOK, Store
  <2>4. ASSUME NEW g \in Files, Reflects(db.row[g], drive[g])
        PROVE  Reflects(db'.row[g], drive[g])
    <3>1. CASE g # f
      <4>1. db'.row[g] = db.row[g]
        BY <2>1, <3>1, <1>t DEF TypeOK, Store
      <4>2. QED
        BY <2>4, <4>1
    <3>2. CASE g = f
      <4>1. db'.row[f] = [db.row[f] EXCEPT !.status = st]
        BY <2>1, <1>t, Zenon DEF TypeOK, Store
      <4>2. db.row[f] \in Row
        BY <1>t DEF TypeOK, Store
      <4>3. db'.row[f].status = st /\ db'.row[f].ver = db.row[f].ver
        BY <4>1, <4>2 DEF Row
      <4>4. drive[f].live
        BY <2>2, <2>4, <3>2 DEF Reflects
      <4>5. QED
        BY <2>4, <3>2, <4>3, <4>4 DEF Reflects
    <3>3. QED
      BY <3>1, <3>2
  <2>5. NoLostChange'
    BY <2>2, <2>3, <2>4 DEF IInv, NoLostChange
  <2>6. QED
    BY <2>2, <2>3, <2>5, <1>t, Settled DEF IInv, Bounds
<1>3. CASE StartFull
  <2>1. UNCHANGED <<drive, changedAt, head, db, tx>> /\ tx = db /\ job'.pc = "token"
    BY <1>3 DEF StartFull, Idle, NoJob, IInv
  <2>2. NoLostChange'
    BY <2>1 DEF IInv, NoLostChange
  <2>3. QED
    BY <2>1, <2>2, <1>t, Settled DEF IInv, Bounds
<1>4. CASE StartIncremental
  <2>1. /\ UNCHANGED <<drive, changedAt, head, db, tx>> /\ tx = db
        /\ job'.pc = "changes" /\ job'.token = db.cursor
    BY <1>4 DEF StartIncremental, Idle, NoJob, IInv
  <2>2. Bounds'
    BY <2>1, <1>t DEF IInv, Bounds, TypeOK, Store, NoCursor
  <2>3. NoLostChange' /\ StagedKeeps' /\ CaughtUp' /\ ScanCorrect'
    BY <2>1 DEF IInv, NoLostChange, StagedKeeps, CaughtUp, ScanCorrect
  <2>4. QED
    BY <2>1, <2>2, <2>3, <1>t DEF IInv
<1>5. CASE GetStartPageToken
  <2>1. /\ UNCHANGED <<drive, changedAt, head, db, tx>> /\ tx = db
        /\ job'.pc = "list" /\ job'.token = head /\ job'.todo = Files /\ job'.seen = {}
    <3>1. UNCHANGED <<drive, changedAt, head, db, tx>> /\ tx = db
      BY <1>5 DEF GetStartPageToken, At, IInv
    <3>2. QED
      BY <1>5, <3>1 DEF GetStartPageToken, NoJob
  <2>2. Bounds'
    BY <2>1, <1>t DEF IInv, Bounds, TypeOK
  <2>3. NoLostChange' /\ StagedKeeps' /\ CaughtUp' /\ ScanCorrect'
    BY <2>1 DEF IInv, NoLostChange, StagedKeeps, CaughtUp, ScanCorrect
  <2>4. QED
    BY <2>1, <2>2, <2>3, <1>t DEF IInv
<1>6. ASSUME NEW f \in Files, ListFile(f) PROVE IInv'
  <2>1. /\ UNCHANGED <<drive, changedAt, head, db>> /\ drive[f].live
        /\ job.pc = "list" /\ job'.pc = "list" /\ job'.token = job.token
        /\ job'.todo = job.todo \ {f} /\ job'.seen = job.seen \cup {f}
        /\ tx'.cursor = tx.cursor
    BY <1>6, <1>t DEF ListFile, At, TypeOK, Store
  <2>2. \A g \in Files : tx'.row[g] = IF g = f THEN Upsert(tx.row[f], drive[f]) ELSE tx.row[g]
    BY <1>6, <1>t DEF ListFile, TypeOK, Store
  <2>3. Reflects(tx'.row[f], drive[f])
    BY <2>1, <2>2, <1>t, AppliedReflects DEF TypeOK, Store
  <2>4. StagedKeeps' /\ ScanCorrect' /\ CaughtUp'
    BY <2>1, <2>2, <2>3 DEF IInv, StagedKeeps, ScanCorrect, CaughtUp
  <2>5. QED
    BY <2>1, <2>4, <1>t, Staging DEF IInv, Bounds, TypeOK
<1>7. ASSUME NEW f \in Files, ListMiss(f) PROVE IInv'
  <2>1. /\ UNCHANGED <<drive, changedAt, head, db, tx>>
        /\ ~drive[f].live \/ changedAt[f] > job.token
        /\ job.pc = "list" /\ job'.pc = "list" /\ job'.token = job.token
        /\ f \in job.todo /\ job'.todo = job.todo \ {f} /\ job'.seen = job.seen
    BY <1>7, <1>t DEF ListMiss, At, TypeOK
  <2>2. StagedKeeps' /\ ScanCorrect' /\ CaughtUp'
    BY <2>1, <1>t DEF IInv, StagedKeeps, ScanCorrect, CaughtUp, TypeOK
  <2>3. QED
    BY <2>1, <2>2, <1>t, Staging DEF IInv, Bounds, TypeOK
<1>8. CASE Reconcile
  <2>1. /\ UNCHANGED <<drive, changedAt, head, db>>
        /\ job.pc = "list" /\ job'.pc = "save" /\ job'.token = job.token
        /\ job.todo = {} /\ job.seen = job'.seen
        /\ tx'.cursor = tx.cursor
    BY <1>8, <1>t DEF Reconcile, At, TypeOK, Store
  <2>2. \A g \in Files : tx'.row[g] = IF g \in job.seen THEN tx.row[g] ELSE MarkRemoved(tx.row[g])
    BY <1>8, <1>t DEF Reconcile, TypeOK, Store
  <2>3. \A g \in Files : ~drive[g].live => Reflects(MarkRemoved(tx.row[g]), drive[g])
    BY <1>t, AppliedReflects DEF TypeOK, Store
  <2>4. CaughtUp'
    BY <2>1, <2>2, <2>3 DEF IInv, ScanCorrect, CaughtUp
  <2>5. \A g \in Files : changedAt[g] <= db.cursor => changedAt[g] <= job.token
    BY <2>1, <1>t DEF IInv, Bounds, TypeOK, Store, NoCursor
  <2>6. StagedKeeps'
    BY <2>1, <2>4, <2>5 DEF StagedKeeps, CaughtUp
  <2>7. ScanCorrect'
    BY <2>1 DEF ScanCorrect
  <2>8. QED
    BY <2>1, <2>4, <2>6, <2>7, <1>t, Staging DEF IInv, Bounds, TypeOK
<1>9. ASSUME NEW m \in 0..MaxChanges, ChangesPage(m) PROVE IInv'
  <2>1. /\ UNCHANGED <<drive, changedAt, head, db>>
        /\ job.pc = "changes" /\ job'.pc \in {"changes", "save"}
        /\ job'.token = m /\ job.token <= m /\ m <= head
        /\ tx'.cursor = tx.cursor
    BY <1>9, <1>t DEF ChangesPage, At, TypeOK, Store
  <2>2. \A g \in Files :
          tx'.row[g] = IF job.token < changedAt[g] /\ changedAt[g] <= m
                       THEN Applied(tx.row[g], drive[g]) ELSE tx.row[g]
    BY <1>9, <1>t DEF ChangesPage, TypeOK, Store
  <2>3. \A g \in Files : Reflects(Applied(tx.row[g], drive[g]), drive[g])
    BY <1>t, AppliedReflects DEF TypeOK, Store
  <2>4. CaughtUp'
    BY <2>1, <2>2, <2>3, <1>t DEF IInv, CaughtUp, TypeOK
  <2>5. StagedKeeps'
    BY <2>1, <2>2, <2>3 DEF IInv, StagedKeeps
  <2>6. ScanCorrect'
    BY <2>1 DEF ScanCorrect
  <2>7. QED
    BY <2>1, <2>4, <2>5, <2>6, <1>t, Staging DEF IInv, Bounds, TypeOK
<1>10. CASE Save
  <2>1. /\ UNCHANGED <<drive, changedAt, head>> /\ tx' = db'
        /\ job.pc = "save" /\ job'.pc = "idle"
        /\ db'.row = tx.row /\ db'.cursor = job.token
    BY <1>10, <1>t DEF Save, At, NoJob, TypeOK, Store
  <2>2. NoLostChange'
    BY <2>1 DEF IInv, NoLostChange, CaughtUp
  <2>3. QED
    BY <2>1, <2>2, <1>t, Settled DEF IInv, Bounds
<1>11. CASE ListError \/ DbError \/ Crash
  <2>1. UNCHANGED <<drive, changedAt, head, db>> /\ tx' = db' /\ job'.pc = "idle"
    BY <1>11 DEF ListError, DbError, Crash, NoJob
  <2>2. QED
    BY <2>1, <1>t, Settled DEF IInv, Bounds, NoLostChange
<1>12. CASE ApplyError
  <2>1. UNCHANGED <<drive, changedAt, head>> /\ db' = tx /\ tx' = db' /\ job'.pc = "idle"
    BY <1>12 DEF ApplyError, NoJob
  <2>2. NoLostChange'
    BY <2>1 DEF IInv, Bounds, StagedKeeps, NoLostChange
  <2>3. QED
    BY <2>1, <2>2, <1>t, Settled DEF IInv, Bounds
<1>13. CASE Restart
  <2>1. UNCHANGED <<drive, changedAt, head, db, tx, job>>
    BY <1>13 DEF Restart
  <2>2. QED
    BY <2>1, <1>t DEF IInv, Bounds, NoLostChange, StagedKeeps, CaughtUp, ScanCorrect
<1>14. CASE UNCHANGED vars
  <2>1. UNCHANGED <<drive, changedAt, head, db, tx, job>>
    BY <1>14 DEF vars
  <2>2. QED
    BY <2>1, <1>t DEF IInv, Bounds, NoLostChange, StagedKeeps, CaughtUp, ScanCorrect
<1>15. QED
  BY <1>1, <1>2, <1>3, <1>4, <1>5, <1>6, <1>7, <1>8, <1>9, <1>10, <1>11, <1>12, <1>13, <1>14
     DEF Next, Progress, Fault

\* The invariant holds in every reachable state.
LEMMA Invariance == Spec => []IInv
BY InitIInv, NextIInv, PTL DEF Spec

\* No change the owner makes is ever lost between the rows and the cursor,
\* whatever fails and whenever Drive changes under a running sync.
THEOREM NoChangeIsLost == Spec => []NoLostChange
<1>1. IInv => NoLostChange
  BY DEF IInv
<1>2. QED
  BY <1>1, Invariance, PTL

-----------------------------------------------------------------------------

\* The cursor moves only forward, and only with a sync that completes: the
\* handlers of sync_metadata commit rows but never a page token.
THEOREM CursorIsSafe == Spec => CursorOnlyAdvancesOnSuccess
<1> DEFINE Advance == db'.cursor # db.cursor => db'.cursor > db.cursor /\ jobRow' = "COMPLETED"
<1>1. IInv /\ [Next]_vars => [Advance]_vars
  <2> SUFFICES ASSUME IInv, Next PROVE Advance
    OBVIOUS
  <2>1. CASE Save
    <3>0. TypeOK
      BY DEF IInv
    <3>1. db'.cursor = job.token /\ jobRow' = "COMPLETED" /\ job.pc = "save"
      BY <2>1, <3>0 DEF Save, At, TypeOK, Store
    <3>2. job.token \in Int /\ db.cursor \in Int
      BY <3>0, SyncAssumption DEF TypeOK, Store, NoCursor
    <3>3. db.cursor <= job.token
      BY <3>1 DEF IInv, Bounds
    <3>4. QED
      BY <3>1, <3>2, <3>3
  <2>2. CASE ApplyError
    BY <2>2 DEF ApplyError, IInv, Bounds
  <2>3. ASSUME NEW f \in Files, Pipeline(f) PROVE Advance
    BY <2>3 DEF Pipeline, IInv, TypeOK, Store
  <2>4. ASSUME ~Save, ~ApplyError, \A f \in Files : ~Pipeline(f) PROVE Advance
    BY <2>4 DEF Next, Change, StartFull, StartIncremental, Progress, GetStartPageToken, ListFile,
                ListMiss, Reconcile, ChangesPage, Fault, ListError, DbError, Crash, Restart
  <2>5. QED
    BY <2>1, <2>2, <2>3, <2>4
<1>2. QED
  BY <1>1, Invariance, PTL DEF Spec, CursorOnlyAdvancesOnSuccess

-----------------------------------------------------------------------------

(***************************************************************************)
(* A row staged with another version than the committed one is not         *)
(* INDEXED.  The first stage of the new version took it out of INDEXED,    *)
(* and no later stage of the same sync puts it back.                       *)
(***************************************************************************)
StagedNotIndexed ==
  \A f \in Files : tx.row[f].ver # db.row[f].ver => tx.row[f].status # "INDEXED"

\* Staging a row either keeps version and INDEXED, or leaves INDEXED.
LEMMA AppliedVersion ==
  ASSUME NEW row \in Row, NEW d \in [live : BOOLEAN, ver : 0..MaxChanges]
  PROVE  /\ Upsert(row, d).status = "INDEXED" => row.status = "INDEXED" /\ Upsert(row, d).ver = row.ver
         /\ MarkRemoved(row).status # "INDEXED"
BY DEF Upsert, MarkRemoved, Row, Status, Skipped

\* Every step keeps it so.
LEMMA NextStagedNotIndexed ==
  IInv /\ StagedNotIndexed /\ [Next]_vars => StagedNotIndexed'
<1> SUFFICES ASSUME IInv, StagedNotIndexed, [Next]_vars PROVE StagedNotIndexed'
  OBVIOUS
<1>t. /\ \A f \in Files : tx.row[f] \in Row
      /\ \A f \in Files : drive[f] \in [live : BOOLEAN, ver : 0..MaxChanges]
  BY DEF IInv, TypeOK, Store
<1>a. ASSUME UNCHANGED db,
             \A f \in Files : tx'.row[f] \in {tx.row[f], Upsert(tx.row[f], drive[f]), MarkRemoved(tx.row[f])}
      PROVE  StagedNotIndexed'
  <2>1. SUFFICES ASSUME NEW f \in Files, tx'.row[f].ver # db.row[f].ver, tx'.row[f].status = "INDEXED"
                 PROVE  FALSE
    BY <1>a DEF StagedNotIndexed
  <2>2. tx'.row[f].ver = tx.row[f].ver /\ tx.row[f].status = "INDEXED"
    BY <1>a, <1>t, <2>1, AppliedVersion
  <2>3. QED
    BY <2>1, <2>2 DEF StagedNotIndexed
<1>1. ASSUME NEW f \in Files, ListFile(f) PROVE StagedNotIndexed'
  BY <1>1, <1>a DEF ListFile, IInv, TypeOK, Store
<1>2. CASE Reconcile
  BY <1>2, <1>a DEF Reconcile, IInv, TypeOK, Store
<1>3. ASSUME NEW m \in 0..MaxChanges, ChangesPage(m) PROVE StagedNotIndexed'
  <2>1. \A f \in Files : tx'.row[f] \in {tx.row[f], Applied(tx.row[f], drive[f])}
    BY <1>3 DEF ChangesPage, IInv, TypeOK, Store
  <2>2. QED
    BY <1>3, <2>1, <1>a DEF ChangesPage, Applied
<1>4. ASSUME tx' = db' PROVE StagedNotIndexed'
  BY <1>4 DEF StagedNotIndexed
<1>5. ASSUME UNCHANGED <<db, tx>> PROVE StagedNotIndexed'
  BY <1>5 DEF StagedNotIndexed
<1>6. QED
  <2>1. \/ \E f \in Files : ListFile(f)
        \/ Reconcile
        \/ \E m \in 0..MaxChanges : ChangesPage(m)
        \/ tx' = db'
        \/ UNCHANGED <<db, tx>>
    BY DEF Next, Change, Pipeline, StartFull, StartIncremental, Progress, GetStartPageToken,
           ListMiss, Save, Fault, ListError, ApplyError, DbError, Crash, Restart, vars
  <2>2. QED
    BY <2>1, <1>1, <1>2, <1>3, <1>4, <1>5

\* A sync that brings a new version of a file never leaves the file INDEXED,
\* not even a sync that fails halfway and keeps what it staged (_upsert_file).
THEOREM NewVersionsAreNotServed == Spec => NewVersionIsNotServed
<1> DEFINE Kept == \A f \in Files : db'.row[f].ver # db.row[f].ver => db'.row[f].status # "INDEXED"
<1>1. Init => StagedNotIndexed
  BY DEF Init, StagedNotIndexed
<1>2. StagedNotIndexed /\ IInv /\ [Next]_vars => [Kept]_vars
  <2> SUFFICES ASSUME StagedNotIndexed, IInv, Next PROVE Kept
    OBVIOUS
  <2>1. CASE db'.row = tx.row
    BY <2>1 DEF StagedNotIndexed
  <2>2. CASE UNCHANGED db
    BY <2>2
  <2>3. ASSUME NEW f \in Files, Pipeline(f) PROVE Kept
    <3>1. PICK st : db' = [db EXCEPT !.row[f].status = st]
      BY <2>3 DEF Pipeline
    <3>2. \A g \in Files : db'.row[g].ver = db.row[g].ver
      <4>1. db'.row = [db.row EXCEPT ![f] = [db.row[f] EXCEPT !.status = st]]
        BY <3>1, Zenon DEF IInv, TypeOK, Store
      <4>2. QED
        BY <4>1 DEF IInv, TypeOK, Store, Row
    <3>3. QED
      BY <3>2
  <2>4. db'.row = tx.row \/ UNCHANGED db \/ \E f \in Files : Pipeline(f)
    <3>1. CASE Save
      BY <3>1 DEF Save, IInv, TypeOK, Store
    <3>2. CASE ~Save
      BY <3>2 DEF Next, Change, StartFull, StartIncremental, Progress, GetStartPageToken,
           ListFile, ListMiss, Reconcile, ChangesPage, Fault, ListError, ApplyError, DbError,
           Crash, Restart
    <3>3. QED
      BY <3>1, <3>2
  <2>5. QED
    BY <2>1, <2>2, <2>3, <2>4
<1>3. QED
  BY <1>1, <1>2, NextStagedNotIndexed, Invariance, PTL DEF Spec, NewVersionIsNotServed

=============================================================================
