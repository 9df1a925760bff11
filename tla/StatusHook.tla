----------------------------- MODULE StatusHook -----------------------------
(***************************************************************************)
(* What a page knows of the knowledge base (frontend/lib/hooks,            *)
(* use-connection-status.ts and use-knowledge-status.ts): the connection   *)
(* is asked for again and again, the files when it is there.  Responses    *)
(* arrive in any order, or fail, and the function that asks for both may   *)
(* be called long after the render that made it.                           *)
(***************************************************************************)
EXTENDS Naturals, FiniteSets

CONSTANTS
  MaxConnection,  \* bound on the requests for the connection
  MaxFileIds      \* bound on fileRequestId

VARIABLES
  connection,  \* what is shown of it: [connected, error]
  asked,       \* requests for the connection
  asking,      \* those under way
  latest,      \* fileRequestId
  loads,       \* ids of the requests for files under way
  files,       \* what is shown: [from, loaded, loading, error]; from is 0 for EMPTY_STATS
  held         \* whether a preparation goes on, which holds the refresh it was started with

hvars == <<connection, asked, asking, latest, loads, files, held>>

InitH ==
  /\ connection = [connected |-> FALSE, error |-> FALSE]
  /\ asked = 0 /\ asking = {}
  /\ latest = 1 /\ loads = {}
  /\ files = [from |-> 0, loaded |-> FALSE, loading |-> FALSE, error |-> FALSE]
  /\ held = FALSE

CanBrowse(c) == c.connected /\ ~c.error

\* refetch: on mount, by the timer, by hand and when a preparation is over.
AskConnection ==
  /\ asked < MaxConnection
  /\ asked' = asked + 1 /\ asking' = asking \cup {asked + 1}

\* loadFiles
LoadFiles(id) ==
  /\ id <= MaxFileIds
  /\ latest' = id /\ loads' = loads \cup {id}
  /\ files' = [files EXCEPT !.loading = TRUE]

Forgotten == [from |-> 0, loaded |-> FALSE, loading |-> FALSE, error |-> FALSE]

\* The effect on canBrowse: the cleanup of the last one takes an id, and so does this one.
BrowseChanged(now) ==
  /\ latest + 2 <= MaxFileIds
  /\ IF now
     THEN LoadFiles(latest + 2)
     ELSE files' = Forgotten /\ latest' = latest + 2 /\ UNCHANGED loads

\* The connection has no guard: an older response overwrites a newer one.  After a
\* failure the last one known is kept.
Connection(r) ==
  /\ asking' = asking \ {r}
  /\ \E answer \in {[connected |-> TRUE, error |-> FALSE], [connected |-> FALSE, error |-> FALSE],
                    [connection EXCEPT !.error = TRUE]} :
       /\ connection' = answer
       /\ IF CanBrowse(answer) = CanBrowse(connection)
          THEN UNCHANGED <<latest, loads, files>>
          ELSE BrowseChanged(CanBrowse(answer))
  /\ UNCHANGED <<asked, held>>

Poll == AskConnection /\ UNCHANGED <<connection, latest, loads, files, held>>

Refresh ==
  /\ AskConnection
  /\ IF CanBrowse(connection) THEN LoadFiles(latest + 1) ELSE UNCHANGED <<latest, loads, files>>
  /\ UNCHANGED <<connection, held>>

\* runPrepare, when the connection is there, and its end, whatever has become of it:
\* the refresh is still the one that loads files.
StartPrepare ==
  /\ CanBrowse(connection) /\ ~held /\ held' = TRUE
  /\ UNCHANGED <<connection, asked, asking, latest, loads, files>>

EndPrepare ==
  /\ held /\ held' = FALSE
  /\ AskConnection /\ LoadFiles(latest + 1)
  /\ UNCHANGED connection

\* Mutant of FilesArrive: whatever arrives is shown.
FilesArriveUnchecked(id) ==
  /\ loads' = loads \ {id}
  /\ files' = [from |-> id, loaded |-> TRUE, loading |-> FALSE, error |-> FALSE]
  /\ UNCHANGED <<connection, asked, asking, latest, held>>

\* Only the response to the latest request counts.
FilesArrive(id) ==
  /\ loads' = loads \ {id}
  /\ files' = IF id = latest THEN [from |-> id, loaded |-> TRUE, loading |-> FALSE, error |-> FALSE]
              ELSE files
  /\ UNCHANGED <<connection, asked, asking, latest, held>>

FilesFail(id) ==
  /\ loads' = loads \ {id}
  /\ files' = IF id = latest THEN [files EXCEPT !.loaded = TRUE, !.loading = FALSE, !.error = TRUE]
              ELSE files
  /\ UNCHANGED <<connection, asked, asking, latest, held>>

NextH ==
  \/ Poll \/ Refresh \/ StartPrepare \/ EndPrepare
  \/ \E r \in asking : Connection(r)
  \/ \E id \in loads : FilesArrive(id) \/ FilesFail(id)

SpecH == InitH /\ [][NextH]_hvars

-----------------------------------------------------------------------------
(* Properties. *)

\* The counts that decide whether a question may be asked (needsPrepare, isReady) are
\* those of the newest request, however responses overtake each other and the connection
\* comes and goes: counts shown as loaded came with a response and not from EMPTY_STATS,
\* those of a page at rest with the newest, and a page that loads waits for a request
\* that can still end it.
StatusIsTheNewest ==
  /\ files.loaded /\ ~files.error => files.from # 0
  /\ files.loaded /\ ~files.error /\ ~files.loading => files.from = latest
  /\ files.loading => latest \in loads
  /\ files.from <= latest /\ (files.from # 0 => files.from \notin loads)

=============================================================================
