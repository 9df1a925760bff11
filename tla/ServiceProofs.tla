---------------------------- MODULE ServiceProofs ----------------------------
(***************************************************************************)
(* What the services and scripts beside the index promise, for any number  *)
(* of requests, logins, runs and cases: the status hook, the Google login, *)
(* the evaluation's baseline, the runner of the agent's smoke cases and    *)
(* the admission of questions in the demo.                                 *)
(***************************************************************************)
EXTENDS StatusHook, OAuthLogin, EvalBaseline, EvalSmoke, Admission, FiniteSetTheorems, SequenceTheorems,
        WellFoundedInduction, TLAPS

-----------------------------------------------------------------------------
(* The status hook shows the newest counts, whatever the bounds on its requests. *)

\* Ids are counted up, and only ids that were given are under way or shown.
TypeOKH ==
  /\ latest \in Nat /\ loads \subseteq 1..latest
  /\ files \in [from : 0..latest, loaded : BOOLEAN, loading : BOOLEAN, error : BOOLEAN]

HookInv == TypeOKH /\ StatusIsTheNewest

\* A new id makes every earlier request stale, and the page waits for the new one.
LEMMA LoadKeeps ==
  ASSUME HookInv, NEW id \in Nat, id > latest, LoadFiles(id)
  PROVE  HookInv'
<1>1. latest' = id /\ loads' = loads \cup {id} /\ files' = [files EXCEPT !.loading = TRUE]
  BY DEF LoadFiles
<1>2. /\ files' \in [from : 0..latest, loaded : BOOLEAN, loading : BOOLEAN, error : BOOLEAN]
      /\ files'.from = files.from /\ files'.loaded = files.loaded
      /\ files'.loading = TRUE /\ files'.error = files.error
  BY <1>1 DEF HookInv, TypeOKH
<1>3. TypeOKH'
  BY <1>1, <1>2 DEF HookInv, TypeOKH
<1>4. StatusIsTheNewest'
  BY <1>1, <1>2 DEF HookInv, TypeOKH, StatusIsTheNewest
<1> QED BY <1>3, <1>4 DEF HookInv

\* A lost connection forgets the counts and makes the requests under way stale.
LEMMA BrowseKeeps ==
  ASSUME HookInv, NEW now \in BOOLEAN, BrowseChanged(now)
  PROVE  HookInv'
<1>1. CASE now
  BY <1>1, LoadKeeps DEF BrowseChanged, HookInv, TypeOKH
<1>2. CASE ~now
  <2>1. files' = Forgotten /\ latest' = latest + 2 /\ loads' = loads
    BY <1>2 DEF BrowseChanged
  <2> QED BY <2>1 DEF Forgotten, HookInv, TypeOKH, StatusIsTheNewest
<1> QED BY <1>1, <1>2

\* A response is shown if no request came after its own, and ends the wait for it.
LEMMA ResponseKeeps ==
  ASSUME HookInv, NEW id \in loads, FilesArrive(id) \/ FilesFail(id)
  PROVE  HookInv'
<1>1. latest' = latest /\ loads' = loads \ {id} /\ id \in 1..latest /\ latest \in Nat
  BY DEF FilesArrive, FilesFail, HookInv, TypeOKH
<1>2. CASE id # latest
  <2>1. files' = files
    BY <1>2 DEF FilesArrive, FilesFail
  <2> QED BY <1>1, <1>2, <2>1 DEF HookInv, TypeOKH, StatusIsTheNewest
<1>3. CASE id = latest /\ FilesArrive(id)
  <2>1. files' = [from |-> id, loaded |-> TRUE, loading |-> FALSE, error |-> FALSE]
    BY <1>3 DEF FilesArrive
  <2> QED BY <1>1, <1>3, <2>1 DEF HookInv, TypeOKH, StatusIsTheNewest
<1>4. CASE id = latest /\ FilesFail(id)
  <2>1. files' = [files EXCEPT !.loaded = TRUE, !.loading = FALSE, !.error = TRUE]
    BY <1>4 DEF FilesFail
  <2>2. /\ files' \in [from : 0..latest, loaded : BOOLEAN, loading : BOOLEAN, error : BOOLEAN]
        /\ files'.from = files.from /\ files'.loaded /\ ~files'.loading /\ files'.error
    BY <2>1 DEF HookInv, TypeOKH
  <2> QED BY <1>1, <1>4, <2>2 DEF HookInv, TypeOKH, StatusIsTheNewest
<1> QED BY <1>2, <1>3, <1>4

LEMMA HookInvInductive == HookInv /\ [NextH]_hvars => HookInv'
<1> SUFFICES ASSUME HookInv, [NextH]_hvars PROVE HookInv'
  OBVIOUS
<1>1. CASE UNCHANGED <<latest, loads, files>>
  BY <1>1 DEF HookInv, TypeOKH, StatusIsTheNewest
<1>2. CASE Refresh
  BY <1>2, <1>1, LoadKeeps DEF Refresh, HookInv, TypeOKH
<1>3. CASE EndPrepare
  BY <1>3, LoadKeeps DEF EndPrepare, HookInv, TypeOKH
<1>4. ASSUME NEW r \in asking, Connection(r) PROVE HookInv'
  BY <1>4, <1>1, BrowseKeeps DEF Connection, CanBrowse
<1>5. ASSUME NEW id \in loads, FilesArrive(id) \/ FilesFail(id) PROVE HookInv'
  BY <1>5, ResponseKeeps
<1> QED BY <1>1, <1>2, <1>3, <1>4, <1>5 DEF NextH, hvars, Poll, StartPrepare

\* The counts a page decides by are those of its newest request (use-knowledge-status.ts).
THEOREM NewestStatusIsShown == SpecH => []StatusIsTheNewest
<1>1. InitH => HookInv
  BY DEF InitH, HookInv, TypeOKH, StatusIsTheNewest
<1>2. HookInv => StatusIsTheNewest
  BY DEF HookInv
<1> QED BY <1>1, <1>2, HookInvInductive, PTL DEF SpecH

-----------------------------------------------------------------------------
(* A pending state lasts exactly as long as its login may still succeed,   *)
(* for any number of logins, callbacks, codes and expiries.                *)

Places == {"start", "found", "popped", "exchanged", "cleaned", "connected", "failed"}

Callback == [at : Places, login : Logins \cup {NoLogin}, code : Nat, deleted : SUBSET Logins]

TypeOKL ==
  /\ pending \subseteq Logins /\ expired \subseteq Logins /\ connected \subseteq Logins
  /\ codes \in [Logins -> Nat]
  /\ callback \in [Callbacks -> Callback]

\* What a callback has deleted is its own state or an expired one, and nothing before its
\* delete and after its end.
DeletedIsOwn ==
  \A k \in Callbacks :
    /\ callback[k].deleted \subseteq {callback[k].login} \cup expired
    /\ callback[k].at \notin {"popped", "exchanged", "cleaned"} => callback[k].deleted = {}

\* A callback past the first query works for a login that has a code; one past the delete
\* has deleted its state, or another one has, for good.
OwnIsDeleted ==
  \A k \in Callbacks :
    /\ callback[k].at \in {"found", "popped", "exchanged", "cleaned"}
         => callback[k].login \in Logins /\ codes[callback[k].login] > 0
    /\ callback[k].at \in {"popped", "exchanged", "cleaned"}
         => callback[k].login \in callback[k].deleted \/ callback[k].login \notin pending

\* A connected login has no state, nor will it get one.
ConnectedAreGone == pending \cap connected = {}

HasTokens(k) == callback[k].at \in {"exchanged", "cleaned", "connected"}
CodeOf(k) == <<callback[k].login, callback[k].code>>

\* Each callback that got tokens spent a code of its own.
CodesAreOwn ==
  /\ \A k \in Callbacks : HasTokens(k) => CodeOf(k) \in spent
  /\ \A k, other \in Callbacks :
       k # other /\ HasTokens(k) /\ HasTokens(other) => CodeOf(k) # CodeOf(other)

LoginInv ==
  TypeOKL /\ FailedLoginsKeepTheirState /\ DeletedIsOwn /\ OwnIsDeleted /\ ConnectedAreGone /\ CodesAreOwn

-----------------------------------------------------------------------------

LEMMA InitLogin == InitL => LoginInv
BY DEF InitL, Unused, NoLogin, Callback, Places, LoginInv, TypeOKL, FailedLoginsKeepTheirState, DeletedIsOwn, OwnIsDeleted,
       ConnectedAreGone, CodesAreOwn, HasTokens

\* A login whose state is gone has expired or connected, and is not started again.
LEMMA StartLoginKeeps ==
  ASSUME LoginInv, NEW l \in Logins, StartLogin(l)
  PROVE  LoginInv'
<1>1. /\ pending' = pending \cup {l} /\ l \notin pending \cup expired \cup connected
      /\ UNCHANGED <<expired, codes, spent, connected, callback>>
  BY DEF StartLogin
<1>2. codes[l] = 0
  BY <1>1 DEF LoginInv, TypeOKL, FailedLoginsKeepTheirState
<1>3. OwnIsDeleted'
  BY <1>1, <1>2 DEF LoginInv, TypeOKL, OwnIsDeleted
<1>4. CodesAreOwn'
  BY <1>1 DEF LoginInv, CodesAreOwn, HasTokens, CodeOf
<1> QED BY <1>1, <1>3, <1>4 DEF LoginInv, TypeOKL, FailedLoginsKeepTheirState, DeletedIsOwn, ConnectedAreGone

LEMMA ConsentKeeps ==
  ASSUME LoginInv, NEW l \in Logins, Consent(l)
  PROVE  LoginInv'
<1>1. /\ l \in pending /\ codes' = [codes EXCEPT ![l] = @ + 1]
      /\ UNCHANGED <<pending, expired, spent, connected, callback>>
  BY DEF Consent
<1>2. codes' \in [Logins -> Nat] /\ \A m \in Logins : m # l => codes'[m] = codes[m]
  BY <1>1 DEF LoginInv, TypeOKL
<1>3. \A m \in Logins : codes[m] > 0 => codes'[m] > 0
  BY <1>1 DEF LoginInv, TypeOKL
<1>4. FailedLoginsKeepTheirState'
  BY <1>1, <1>2 DEF LoginInv, FailedLoginsKeepTheirState
<1>5. OwnIsDeleted'
  BY <1>1, <1>3 DEF LoginInv, OwnIsDeleted
<1>6. CodesAreOwn'
  BY <1>1 DEF LoginInv, CodesAreOwn, HasTokens, CodeOf
<1> QED BY <1>1, <1>2, <1>4, <1>5, <1>6 DEF LoginInv, TypeOKL, DeletedIsOwn, ConnectedAreGone

LEMMA ExpireKeeps ==
  ASSUME LoginInv, NEW l \in Logins, Expire(l)
  PROVE  LoginInv'
<1>1. expired' = expired \cup {l} /\ UNCHANGED <<pending, codes, spent, connected, callback>>
  BY DEF Expire
<1>2. OwnIsDeleted' /\ CodesAreOwn'
  BY <1>1 DEF LoginInv, OwnIsDeleted, CodesAreOwn, HasTokens, CodeOf
<1> QED BY <1>1, <1>2 DEF LoginInv, TypeOKL, FailedLoginsKeepTheirState, DeletedIsOwn, ConnectedAreGone

-----------------------------------------------------------------------------
(* The steps of one callback.  Each leaves the other callbacks as they were. *)

Others(k) == \A other \in Callbacks \ {k} : callback'[other] = callback[other]

\* A callback that ends without a commit leaves everything as it was.
LEMMA RollbackKeeps ==
  ASSUME LoginInv, NEW k \in Callbacks, Rollback(k),
         spent \subseteq spent', UNCHANGED <<pending, expired, codes, connected>>
  PROVE  LoginInv'
<1>1. TypeOKL' /\ Others(k)
  BY ZenonT(40) DEF Rollback, LoginInv, TypeOKL, Others, Callback, Places
<1>2. callback'[k].at = "failed" /\ callback'[k].deleted = {}
  BY DEF Rollback, LoginInv, TypeOKL
<1>3. DeletedIsOwn'
  BY <1>1, <1>2 DEF LoginInv, DeletedIsOwn, Others
<1>4. OwnIsDeleted'
  BY <1>1, <1>2 DEF LoginInv, OwnIsDeleted, Others
<1>5. CodesAreOwn'
  BY <1>1, <1>2 DEF LoginInv, CodesAreOwn, HasTokens, CodeOf, Others
<1> QED BY <1>1, <1>3, <1>4, <1>5 DEF LoginInv, FailedLoginsKeepTheirState, ConnectedAreGone

\* A callback that moves on without tokens, deleting at most its own state.
LEMMA MoveKeeps ==
  ASSUME LoginInv, NEW k \in Callbacks, UNCHANGED <<pending, expired, codes, spent, connected>>,
         TypeOKL', Others(k), callback'[k].at \in {"found", "failed", "popped"},
         callback'[k].at \in {"found", "popped"} => callback'[k].login \in Logins /\ codes[callback'[k].login] > 0,
         callback'[k].deleted \subseteq {callback'[k].login},
         IF callback'[k].at = "popped"
         THEN callback'[k].login \in callback'[k].deleted \/ callback'[k].login \notin pending
         ELSE callback'[k].deleted = {}
  PROVE  LoginInv'
<1>1. DeletedIsOwn'
  BY DEF LoginInv, DeletedIsOwn, Others
<1>2. OwnIsDeleted'
  BY DEF LoginInv, OwnIsDeleted, Others
<1>3. CodesAreOwn'
  BY DEF LoginInv, CodesAreOwn, HasTokens, CodeOf, Others
<1> QED BY <1>1, <1>2, <1>3 DEF LoginInv, FailedLoginsKeepTheirState, ConnectedAreGone

LEMMA FindKeeps ==
  ASSUME LoginInv, NEW k \in Callbacks, FindState(k)
  PROVE  LoginInv' /\ (callback'[k].login \in connected => callback'[k].at = "failed")
<1>1. UNCHANGED <<pending, expired, codes, spent, connected>>
  BY DEF FindState
<1>a. PICK l \in Logins : \E code \in 1..codes[l] :
        callback' = [callback EXCEPT ![k].at = IF l \in pending THEN "found" ELSE "failed",
                                     ![k].login = l, ![k].code = code]
  BY DEF FindState
<1> DEFINE found == IF l \in pending THEN "found" ELSE "failed"
<1>2. PICK code \in 1..codes[l] :
        callback' = [callback EXCEPT ![k].at = found, ![k].login = l, ![k].code = code]
  BY <1>a
<1>b. found \in Places
  BY DEF Places
<1> HIDE DEF found
<1>3. codes[l] > 0 /\ code \in Nat
  BY DEF LoginInv, TypeOKL
<1>4. TypeOKL' /\ Others(k)
  BY <1>1, <1>2, <1>3, <1>b, ZenonT(40) DEF LoginInv, TypeOKL, Others, Callback
<1>c. callback'[k].at = found /\ callback'[k].login = l /\ callback'[k].deleted = callback[k].deleted
  BY <1>2 DEF LoginInv, TypeOKL, Callback
<1>5. /\ callback'[k].at = IF l \in pending THEN "found" ELSE "failed"
      /\ callback'[k].login = l /\ callback'[k].deleted = callback[k].deleted
  BY <1>c DEF found
<1>6. callback[k].deleted = {}
  BY DEF FindState, LoginInv, DeletedIsOwn
<1>7. LoginInv'
  BY <1>1, <1>3, <1>4, <1>5, <1>6, MoveKeeps
<1>8. l \in connected => callback'[k].at = "failed"
  BY <1>5 DEF LoginInv, ConnectedAreGone
<1> QED BY <1>5, <1>7, <1>8

LEMMA DeleteKeeps ==
  ASSUME LoginInv, NEW k \in Callbacks, DeleteState(k)
  PROVE  LoginInv'
<1> DEFINE l == callback[k].login
<1>1. UNCHANGED <<pending, expired, codes, spent, connected>> /\ callback[k].at = "found"
  BY DEF DeleteState
<1>2. CASE l \in expired
  BY <1>1, <1>2, RollbackKeeps DEF DeleteState
<1>3. CASE l \notin expired
  <2>1. callback' = [callback EXCEPT ![k].at = "popped", ![k].deleted = {l} \cap pending]
    BY <1>3 DEF DeleteState
  <2>2. l \in Logins /\ codes[l] > 0
    BY <1>1 DEF LoginInv, OwnIsDeleted
  <2>3. TypeOKL' /\ Others(k)
    BY <1>1, <2>1, <2>2, ZenonT(40) DEF LoginInv, TypeOKL, Others, Callback, Places
  <2>4. callback'[k].at = "popped" /\ callback'[k].login = l /\ callback'[k].deleted = {l} \cap pending
    BY <2>1 DEF LoginInv, TypeOKL
  <2> QED BY <1>1, <2>2, <2>3, <2>4, MoveKeeps
<1> QED BY <1>2, <1>3

\* Google takes a code once, so that the new tokens come from a code of their own.
LEMMA ExchangeKeeps ==
  ASSUME LoginInv, NEW k \in Callbacks, Exchange(k)
  PROVE  LoginInv'
<1>1. /\ callback[k].at = "popped" /\ spent' = spent \cup {CodeOf(k)}
      /\ UNCHANGED <<pending, expired, codes, connected>>
  BY DEF Exchange, CodeOf
<1>2. CASE Rollback(k)
  BY <1>1, <1>2, RollbackKeeps
<1>3. CASE CodeOf(k) \notin spent /\ callback' = [callback EXCEPT ![k].at = "exchanged"]
  <2>1. TypeOKL' /\ Others(k)
    BY <1>1, <1>3 DEF LoginInv, TypeOKL, Others, Callback, Places
  <2>2. /\ callback'[k].at = "exchanged" /\ callback'[k].login = callback[k].login
        /\ callback'[k].code = callback[k].code /\ callback'[k].deleted = callback[k].deleted
    BY <1>3 DEF LoginInv, TypeOKL
  <2>3. DeletedIsOwn'
    BY <1>1, <2>1, <2>2 DEF LoginInv, DeletedIsOwn, Others
  <2>4. OwnIsDeleted'
    BY <1>1, <2>1, <2>2 DEF LoginInv, OwnIsDeleted, Others
  <2>5. \A other \in Callbacks \ {k} : HasTokens(other)' => CodeOf(other)' = CodeOf(other) /\ CodeOf(other) \in spent
    BY <2>1 DEF LoginInv, CodesAreOwn, HasTokens, CodeOf, Others
  <2>6. CodeOf(k)' = CodeOf(k) /\ CodeOf(k) \notin spent
    BY <1>3, <2>2 DEF CodeOf
  <2>7. \A p, q \in Callbacks \ {k} : p # q /\ HasTokens(p)' /\ HasTokens(q)' => CodeOf(p)' # CodeOf(q)'
    BY <2>1 DEF LoginInv, CodesAreOwn, HasTokens, CodeOf, Others
  <2>8. CodesAreOwn'
    BY <1>1, <2>5, <2>6, <2>7 DEF CodesAreOwn
  <2> QED BY <1>1, <2>1, <2>3, <2>4, <2>8 DEF LoginInv, FailedLoginsKeepTheirState, ConnectedAreGone
<1> QED BY <1>2, <1>3 DEF Exchange, Become, CodeOf

LEMMA CleanUpKeeps ==
  ASSUME LoginInv, NEW k \in Callbacks, CleanUp(k)
  PROVE  LoginInv'
<1>1. callback[k].at = "exchanged" /\ UNCHANGED <<pending, expired, codes, spent, connected>>
  BY DEF CleanUp
<1>a. callback' = [callback EXCEPT ![k].at = "cleaned", ![k].deleted = @ \cup (pending \cap expired)]
  BY DEF CleanUp
<1>2. TypeOKL' /\ Others(k)
  BY <1>1, <1>a, ZenonT(40) DEF LoginInv, TypeOKL, Others, Callback, Places
<1>3. /\ callback'[k].at = "cleaned" /\ callback'[k].login = callback[k].login
      /\ callback'[k].code = callback[k].code
      /\ callback'[k].deleted = callback[k].deleted \cup (pending \cap expired)
  BY <1>a DEF LoginInv, TypeOKL, Callback
<1>4. DeletedIsOwn'
  BY <1>1, <1>2, <1>3 DEF LoginInv, DeletedIsOwn, Others
<1>5. OwnIsDeleted'
  BY <1>1, <1>2, <1>3 DEF LoginInv, OwnIsDeleted, Others
<1>6. \A other \in Callbacks : (HasTokens(other)' <=> HasTokens(other)) /\ CodeOf(other)' = CodeOf(other)
  BY <1>1, <1>2, <1>3 DEF HasTokens, CodeOf, Others
<1>7. CodesAreOwn'
  BY <1>1, <1>6 DEF LoginInv, CodesAreOwn
<1> QED BY <1>1, <1>2, <1>4, <1>5, <1>7 DEF LoginInv, FailedLoginsKeepTheirState, ConnectedAreGone

\* A commit takes away its own state, as connected, and expired ones.
LEMMA CommitKeeps ==
  ASSUME LoginInv, NEW k \in Callbacks, Commit(k)
  PROVE  LoginInv'
<1> DEFINE l == callback[k].login
<1>1. /\ callback[k].at = "cleaned" /\ UNCHANGED <<expired, codes, spent>>
      /\ pending' = pending \ callback[k].deleted /\ connected' = connected \cup {l}
  BY DEF Commit
<1>a. callback' = [callback EXCEPT ![k].at = "connected", ![k].deleted = {}]
  BY DEF Commit
<1>2. l \in Logins /\ (l \in callback[k].deleted \/ l \notin pending)
  BY <1>1 DEF LoginInv, OwnIsDeleted
<1>3. TypeOKL' /\ Others(k)
  BY <1>1, <1>2, <1>a, ZenonT(40) DEF LoginInv, TypeOKL, Others, Callback, Places
<1>4. /\ callback'[k].at = "connected" /\ callback'[k].login = l
      /\ callback'[k].code = callback[k].code /\ callback'[k].deleted = {}
  BY <1>a DEF LoginInv, TypeOKL, Callback
<1>5. FailedLoginsKeepTheirState'
  BY <1>1 DEF LoginInv, FailedLoginsKeepTheirState, DeletedIsOwn
<1>6. DeletedIsOwn'
  BY <1>1, <1>3, <1>4 DEF LoginInv, DeletedIsOwn, Others
<1>7. OwnIsDeleted'
  BY <1>1, <1>3, <1>4 DEF LoginInv, OwnIsDeleted, Others
<1>8. ConnectedAreGone'
  BY <1>1, <1>2 DEF LoginInv, ConnectedAreGone
<1>9. \A other \in Callbacks : (HasTokens(other)' <=> HasTokens(other)) /\ CodeOf(other)' = CodeOf(other)
  BY <1>1, <1>3, <1>4 DEF HasTokens, CodeOf, Others
<1>10. CodesAreOwn'
  BY <1>1, <1>9 DEF LoginInv, CodesAreOwn
<1> QED BY <1>3, <1>5, <1>6, <1>7, <1>8, <1>10 DEF LoginInv

-----------------------------------------------------------------------------

LEMMA StutterKeeps == LoginInv /\ UNCHANGED lvars => LoginInv'
BY DEF lvars, LoginInv, TypeOKL, FailedLoginsKeepTheirState, DeletedIsOwn, OwnIsDeleted, ConnectedAreGone,
       CodesAreOwn, HasTokens, CodeOf

LEMMA LoginInvInductive == LoginInv /\ [NextL]_lvars => LoginInv'
<1> SUFFICES ASSUME LoginInv, [NextL]_lvars PROVE LoginInv'
  OBVIOUS
<1>1. ASSUME NEW l \in Logins, StartLogin(l) \/ Consent(l) \/ Expire(l) PROVE LoginInv'
  BY <1>1, StartLoginKeeps, ConsentKeeps, ExpireKeeps
<1>2. ASSUME NEW k \in Callbacks, ExchangeFails(k) \/ DatabaseFails(k) PROVE LoginInv'
  BY <1>2, RollbackKeeps DEF ExchangeFails, DatabaseFails
<1>3. ASSUME NEW k \in Callbacks, FindState(k) \/ DeleteState(k) \/ Exchange(k) \/ CleanUp(k) \/ Commit(k)
      PROVE  LoginInv'
  BY <1>3, FindKeeps, DeleteKeeps, ExchangeKeeps, CleanUpKeeps, CommitKeeps
<1> QED BY <1>1, <1>2, <1>3, StutterKeeps DEF NextL

\* Only the first query moves a callback from its start, and it finds no connected login.
LEMMA StartedLateFails ==
  ASSUME LoginInv, [NextL]_lvars
  PROVE  LateCallbacksFail
<1> SUFFICES ASSUME NEW k \in Callbacks, callback[k].at = "start", callback'[k].at # "start",
                    callback'[k].login \in connected
             PROVE  callback'[k].at = "failed"
  BY DEF LateCallbacksFail
<1>1. ASSUME NEW p \in Callbacks, FindState(p) PROVE callback'[k].at = "failed"
  <2>1. CASE p = k
    BY <1>1, <2>1, FindKeeps
  <2>2. CASE p # k
    BY <1>1, <2>2 DEF FindState, LoginInv, TypeOKL
  <2> QED BY <2>1, <2>2
<1>2. ASSUME NEW p \in Callbacks,
             \/ DeleteState(p) \/ Exchange(p) \/ ExchangeFails(p) \/ CleanUp(p) \/ Commit(p) \/ DatabaseFails(p)
      PROVE  callback'[k] = callback[k]
  <2>1. p # k
    BY <1>2 DEF DeleteState, Exchange, ExchangeFails, CleanUp, Commit, DatabaseFails
  <2> QED BY <1>2, <2>1 DEF DeleteState, Exchange, ExchangeFails, CleanUp, Commit, DatabaseFails, Rollback,
                            Become, LoginInv, TypeOKL
<1>3. ASSUME NEW l \in Logins, StartLogin(l) \/ Consent(l) \/ Expire(l) PROVE callback' = callback
  BY <1>3 DEF StartLogin, Consent, Expire
<1> QED BY <1>1, <1>2, <1>3 DEF NextL, lvars

LEMMA InvConnectsOnce == LoginInv => CodesConnectOnce
BY DEF LoginInv, CodesAreOwn, HasTokens, CodeOf, CodesConnectOnce

\* Whatever callbacks overlap and fail: a state goes only when its login has connected or
\* expired, and a code connects once (google_oauth_service.py).
THEOREM StatesAreKept == SpecL => StatesLastAsLongAsLogins
<1> DEFINE Step == FailedLoginsKeepTheirState' /\ LateCallbacksFail /\ CodesConnectOnce'
<1>1. LoginInv /\ LoginInv' /\ [NextL]_lvars => [Step]_lvars
  BY StartedLateFails, InvConnectsOnce DEF LoginInv, CodesConnectOnce, CodesAreOwn, HasTokens, CodeOf
<1> QED BY <1>1, InitLogin, LoginInvInductive, PTL DEF SpecL, StatesLastAsLongAsLogins

-----------------------------------------------------------------------------
(* Published baselines are sound, for any number of runs, gold files and   *)
(* cases, and however often the index changes.                             *)

Versions == [GoldFiles -> Nat]

BaselineRun == [at : Working \cup {"start", "refused", "exists", "linked", "killed"},
        listed : SUBSET GoldFiles, left : SUBSET GoldFiles, read : Versions, begun : Nat,
        outcomes : Seq({"completed", "failed"}), bases : Seq(Versions), disturbed : BOOLEAN]

TypeOKB ==
  /\ rows \in Versions /\ vectors \in Versions /\ indexed \subseteq GoldFiles /\ second \in Nat
  /\ baseline \in [BaselineRuns -> BaselineRun]

Verified(run, f) == f \in indexed /\ vectors[f] = run.read[f]

\* What holds of a run; of one that nothing disturbed, that it knows the index as it is.
BaselineRunInv(run) ==
  /\ Len(run.bases) = Len(run.outcomes)
  /\ run.at = "start" => run.left = GoldFiles
  /\ run.at \notin {"cases", "written"} => run.outcomes = <<>>
  /\ run.at = "written" => Len(run.outcomes) = NCases
  /\ run.at = "vectors" => run.left # {}
  /\ ~run.disturbed =>
       /\ run.at \in {"rows", "vectors"} =>
            run.listed = indexed /\ \A f \in GoldFiles \ run.left : Verified(run, f)
       /\ run.at = "vectors" => (CHOOSE g \in run.left : TRUE) \in indexed
       /\ run.at \in {"cases", "written"} =>
            /\ \A f \in GoldFiles : Verified(run, f)
            /\ \A i \in DOMAIN run.bases : run.bases[i] = run.read

BaselineInv == TypeOKB /\ (\A r \in BaselineRuns : BaselineRunInv(baseline[r])) /\ ResultsAreTrue

-----------------------------------------------------------------------------

LEMMA NotRunIsRun == NotRun \in BaselineRun /\ BaselineRunInv(NotRun)
BY DEF NotRun, BaselineRun, Versions, BaselineRunInv, Working

LEMMA OverIsRun ==
  ASSUME NEW at \in {"refused", "exists", "linked", "killed"}
  PROVE  Over(at) \in BaselineRun /\ BaselineRunInv(Over(at))
<1>1. NotRun \in BaselineRun /\ NotRun.outcomes = <<>> /\ NotRun.bases = <<>>
  BY NotRunIsRun DEF NotRun
<1> HIDE DEF NotRun
<1>2. Over(at) \in BaselineRun
  BY <1>1 DEF Over, BaselineRun
<1>3. Over(at).at = at /\ Over(at).outcomes = <<>> /\ Over(at).bases = <<>>
  BY <1>1 DEF Over, BaselineRun
<1> QED BY <1>2, <1>3 DEF BaselineRunInv

\* A change of the index leaves no run undisturbed that has read of it.
LEMMA DisturbKeeps ==
  ASSUME BaselineInv, Disturb, rows' \in Versions, vectors' \in Versions, indexed' \subseteq GoldFiles,
         UNCHANGED <<second, published>>
  PROVE  BaselineInv'
<1>1. ASSUME NEW r \in BaselineRuns
      PROVE  baseline'[r] \in BaselineRun /\ BaselineRunInv(baseline[r])'
  <2>1. baseline[r] \in BaselineRun /\ BaselineRunInv(baseline[r])
    BY DEF BaselineInv, TypeOKB
  <2>2. CASE baseline[r].at \in Working
    <3> DEFINE run == baseline[r]  next == [run EXCEPT !.disturbed = TRUE]
    <3>1. baseline'[r] = next
      BY <2>2 DEF Disturb
    <3>2. next \in BaselineRun
      BY <2>1 DEF BaselineRun
    <3>3. next.disturbed /\ next.at = run.at /\ next.left = run.left
          /\ next.outcomes = run.outcomes /\ next.bases = run.bases
      BY <2>1 DEF BaselineRun
    <3> HIDE DEF next
    <3> QED BY <2>1, <3>1, <3>2, <3>3 DEF BaselineRunInv
  <2>3. CASE baseline[r].at \notin Working
    <3>1. baseline'[r] = baseline[r]
      BY <2>3 DEF Disturb
    <3> QED BY <2>1, <2>3, <3>1 DEF BaselineRunInv, Working
  <2> QED BY <2>2, <2>3
<1>2. baseline' = [r \in BaselineRuns |-> baseline'[r]]
  BY DEF Disturb
<1>3. baseline' \in [BaselineRuns -> BaselineRun]
  BY <1>1, <1>2
<1>4. TypeOKB'
  BY <1>3 DEF BaselineInv, TypeOKB
<1>5. ResultsAreTrue'
  BY DEF BaselineInv, ResultsAreTrue
<1> QED BY <1>1, <1>4, <1>5 DEF BaselineInv

\* A run that moves on by itself.
LEMMA PutKeeps ==
  ASSUME BaselineInv, NEW r \in BaselineRuns, NEW run \in BaselineRun, BaselineRunInv(run), Put(r, run), ResultsAreTrue'
  PROVE  BaselineInv'
<1>1. UNCHANGED <<rows, vectors, indexed, second>> /\ baseline' \in [BaselineRuns -> BaselineRun]
      /\ baseline'[r] = run /\ \A q \in BaselineRuns \ {r} : baseline'[q] = baseline[q]
  BY DEF Put, BaselineInv, TypeOKB
<1>2. ASSUME NEW q \in BaselineRuns PROVE BaselineRunInv(baseline[q])'
  <2>1. BaselineRunInv(baseline[q])
    BY DEF BaselineInv
  <2>2. CASE q = r
    BY <1>1, <2>2 DEF BaselineRunInv, Verified
  <2>3. CASE q # r
    BY <1>1, <2>1, <2>3, ZenonT(40) DEF BaselineRunInv, Verified
  <2> QED BY <2>2, <2>3
<1>3. TypeOKB'
  BY <1>1 DEF BaselineInv, TypeOKB
<1> QED BY <1>2, <1>3 DEF BaselineInv

LEMMA UnpublishedKeeps == ResultsAreTrue /\ UNCHANGED published => ResultsAreTrue'
BY DEF ResultsAreTrue

LEMMA UnpublishedStays == UNCHANGED published => ResultsStay
BY DEF ResultsStay

-----------------------------------------------------------------------------

LEMMA BeginKeeps ==
  ASSUME BaselineInv, NEW r \in BaselineRuns, BeginRun(r)
  PROVE  BaselineInv'
<1> DEFINE run == baseline[r]  next == [run EXCEPT !.at = "rows", !.listed = indexed]
<1>1. run \in BaselineRun /\ BaselineRunInv(run) /\ run.at = "start" /\ indexed \subseteq GoldFiles
  BY DEF BaselineInv, TypeOKB, BeginRun
<1>2. Put(r, Over("refused")) \/ Put(r, next)
  BY DEF BeginRun
<1>3. ResultsAreTrue'
  BY UnpublishedKeeps DEF BeginRun, Kept, BaselineInv
<1>4. next \in BaselineRun
  BY <1>1 DEF BaselineRun, Working
<1>5. next.at = "rows" /\ next.listed = indexed /\ next.left = run.left /\ next.read = run.read
      /\ next.outcomes = run.outcomes /\ next.bases = run.bases /\ next.disturbed = run.disturbed
  BY <1>1 DEF BaselineRun
<1>6. BaselineRunInv(next)
  <2> HIDE DEF next
  <2> QED BY <1>1, <1>5 DEF BaselineRunInv
<1> HIDE DEF next
<1> QED BY <1>2, <1>3, <1>4, <1>6, PutKeeps, OverIsRun

LEMMA VerifyRowsKeeps ==
  ASSUME BaselineInv, NEW r \in BaselineRuns, VerifyRows(r)
  PROVE  BaselineInv'
<1> DEFINE run == baseline[r]  f == CHOOSE g \in run.left : TRUE
           oneMore == [run EXCEPT !.at = "cases", !.begun = second]
           checked == [run EXCEPT !.at = "vectors", !.read[f] = rows[f]]
<1>1. run \in BaselineRun /\ BaselineRunInv(run) /\ run.at = "rows" /\ rows \in Versions /\ second \in Nat
  BY DEF BaselineInv, TypeOKB, VerifyRows
<1>2. ResultsAreTrue'
  BY UnpublishedKeeps DEF VerifyRows, Kept, BaselineInv
<1>3. CASE run.left = {}
  <2>1. Put(r, oneMore)
    BY <1>3 DEF VerifyRows
  <2>2. oneMore \in BaselineRun
    BY <1>1 DEF BaselineRun, Working
  <2>3. oneMore.at = "cases" /\ oneMore.read = run.read /\ oneMore.left = {} /\ oneMore.outcomes = <<>> /\ oneMore.bases = run.bases
        /\ oneMore.disturbed = run.disturbed
    BY <1>1, <1>3 DEF BaselineRun, BaselineRunInv
  <2>4. run.bases = <<>> /\ run.outcomes = <<>>
    BY <1>1 DEF BaselineRunInv, BaselineRun
  <2> HIDE DEF oneMore
  <2>5. BaselineRunInv(oneMore)
    BY <1>1, <1>3, <2>3, <2>4 DEF BaselineRunInv, Verified
  <2> QED BY <1>2, <2>1, <2>2, <2>5, PutKeeps
<1>4. CASE run.left # {} /\ f \notin run.listed
  <2>1. Put(r, Over("refused"))
    BY <1>4 DEF VerifyRows
  <2> QED BY <1>2, <2>1, PutKeeps, OverIsRun
<1>5. CASE run.left # {} /\ f \in run.listed
  <2>1. Put(r, checked)
    BY <1>5 DEF VerifyRows
  <2>2. f \in run.left /\ f \in GoldFiles
    BY <1>1, <1>5 DEF BaselineRun
  <2> HIDE DEF f
  <2>3. run.read \in Versions /\ [run.read EXCEPT ![f] = rows[f]] \in Versions
        /\ \A g \in GoldFiles \ {f} : [run.read EXCEPT ![f] = rows[f]][g] = run.read[g]
    BY <1>1, <2>2 DEF BaselineRun, Versions
  <2>4. checked.at = "vectors" /\ checked.read = [run.read EXCEPT ![f] = rows[f]] /\ checked.left = run.left
        /\ checked.listed = run.listed /\ checked.outcomes = run.outcomes /\ checked.bases = run.bases
        /\ checked.disturbed = run.disturbed
    BY <1>1 DEF BaselineRun
  <2>5. checked \in BaselineRun
    BY <1>1, <2>3 DEF BaselineRun, Working
  <2> HIDE DEF checked
  <2>6. BaselineRunInv(checked)
    <3>1. f = CHOOSE g \in run.left : TRUE
      BY DEF f
    <3> QED BY <1>1, <1>5, <2>2, <2>3, <2>4, <3>1 DEF BaselineRunInv, Verified
  <2> QED BY <1>2, <2>1, <2>5, <2>6, PutKeeps
<1> QED BY <1>3, <1>4, <1>5

LEMMA VerifyVectorsKeeps ==
  ASSUME BaselineInv, NEW r \in BaselineRuns, VerifyVectors(r)
  PROVE  BaselineInv'
<1> DEFINE run == baseline[r]  f == CHOOSE g \in run.left : TRUE
           next == [run EXCEPT !.at = "rows", !.left = @ \ {f}]
<1>1. run \in BaselineRun /\ BaselineRunInv(run) /\ run.at = "vectors"
  BY DEF BaselineInv, TypeOKB, VerifyVectors
<1>2. ResultsAreTrue'
  BY UnpublishedKeeps DEF VerifyVectors, Kept, BaselineInv
<1>3. CASE ~VectorsMatch(r, f)
  <2>1. Put(r, Over("refused"))
    BY <1>3 DEF VerifyVectors
  <2> QED BY <1>2, <2>1, PutKeeps, OverIsRun
<1>4. CASE VectorsMatch(r, f)
  <2>1. Put(r, next) /\ vectors[f] = run.read[f]
    BY <1>4 DEF VerifyVectors, VectorsMatch
  <2>2. next \in BaselineRun
    BY <1>1 DEF BaselineRun, Working
  <2>3. next.at = "rows" /\ next.left = run.left \ {f} /\ next.listed = run.listed /\ next.read = run.read
        /\ next.outcomes = run.outcomes /\ next.bases = run.bases /\ next.disturbed = run.disturbed
    BY <1>1 DEF BaselineRun
  <2> HIDE DEF next
  <2>4. ~run.disturbed => f \in indexed
    BY <1>1 DEF BaselineRunInv
  <2> HIDE DEF f
  <2>5. BaselineRunInv(next)
    BY <1>1, <2>1, <2>3, <2>4 DEF BaselineRunInv, Verified
  <2> QED BY <1>2, <2>1, <2>2, <2>5, PutKeeps
<1> QED BY <1>3, <1>4

\* The answer rests on the index as it is, which an undisturbed run has verified.
LEMMA AskCaseKeeps ==
  ASSUME BaselineInv, NEW r \in BaselineRuns, AskCase(r)
  PROVE  BaselineInv'
<1> DEFINE run == baseline[r]  base == [f \in GoldFiles |-> IF f \in indexed THEN vectors[f] ELSE 0]
<1>1. run \in BaselineRun /\ BaselineRunInv(run) /\ run.at = "cases" /\ base \in Versions
  BY DEF BaselineInv, TypeOKB, AskCase, Versions
<1>2. ResultsAreTrue'
  BY UnpublishedKeeps DEF AskCase, Kept, BaselineInv
<1>3. PICK outcome \in {"completed", "failed"} :
        Put(r, [run EXCEPT !.outcomes = Append(@, outcome), !.bases = Append(@, base)])
  BY DEF AskCase
<1> DEFINE next == [run EXCEPT !.outcomes = Append(@, outcome), !.bases = Append(@, base)]
<1>4. ~run.disturbed => base = run.read
  <2>1. run.read \in Versions
    BY <1>1 DEF BaselineRun
  <2>2. ~run.disturbed => \A f \in GoldFiles : base[f] = run.read[f]
    BY <1>1 DEF BaselineRunInv, Verified
  <2> QED BY <1>1, <2>1, <2>2 DEF Versions
<1> HIDE DEF base
<1>5. run.outcomes \in Seq({"completed", "failed"}) /\ run.bases \in Seq(Versions)
  BY <1>1 DEF BaselineRun
<1>6. /\ Append(run.outcomes, outcome) \in Seq({"completed", "failed"}) /\ Append(run.bases, base) \in Seq(Versions)
      /\ Len(Append(run.outcomes, outcome)) = Len(run.outcomes) + 1
      /\ Len(Append(run.bases, base)) = Len(run.bases) + 1
      /\ \A i \in DOMAIN Append(run.bases, base) :
           (i \in DOMAIN run.bases /\ Append(run.bases, base)[i] = run.bases[i]) \/ Append(run.bases, base)[i] = base
  BY <1>1, <1>5
<1>7. next \in BaselineRun
  BY <1>1, <1>6 DEF BaselineRun
<1>8. next.at = "cases" /\ next.read = run.read /\ next.disturbed = run.disturbed
      /\ next.outcomes = Append(run.outcomes, outcome) /\ next.bases = Append(run.bases, base)
  BY <1>1 DEF BaselineRun
<1> HIDE DEF next
<1>9. BaselineRunInv(next)
  BY <1>1, <1>4, <1>6, <1>8 DEF BaselineRunInv, Verified
<1> QED BY <1>2, <1>3, <1>7, <1>9, PutKeeps DEF next

LEMMA WriteTemporaryKeeps ==
  ASSUME BaselineInv, NEW r \in BaselineRuns, WriteTemporary(r)
  PROVE  BaselineInv'
<1> DEFINE run == baseline[r]  next == [run EXCEPT !.at = "written"]
<1>1. run \in BaselineRun /\ BaselineRunInv(run) /\ run.at = "cases" /\ Len(run.outcomes) = NCases
  BY DEF BaselineInv, TypeOKB, WriteTemporary
<1>2. ResultsAreTrue'
  BY UnpublishedKeeps DEF WriteTemporary, Kept, BaselineInv
<1>3. Put(r, Over("exists")) \/ Put(r, next)
  BY DEF WriteTemporary
<1>4. next \in BaselineRun
  BY <1>1 DEF BaselineRun, Working
<1>5. next.at = "written" /\ next.read = run.read /\ next.outcomes = run.outcomes /\ next.bases = run.bases
      /\ next.disturbed = run.disturbed
  BY <1>1 DEF BaselineRun
<1> HIDE DEF next
<1>6. BaselineRunInv(next)
  BY <1>1, <1>5 DEF BaselineRunInv, Verified
<1> QED BY <1>2, <1>3, <1>4, <1>6, PutKeeps, OverIsRun

\* What a run publishes is whole and, if it was undisturbed, measures what it verified.
LEMMA DocumentIsTrue ==
  ASSUME BaselineInv, NEW r \in BaselineRuns, baseline[r].at = "written"
  PROVE  LET d == Document(r)
         IN  /\ Len(d.outcomes) = NCases
             /\ d.status = "completed" <=> \A i \in 1..NCases : d.outcomes[i] = "completed"
             /\ ~d.disturbed => \A i \in 1..NCases : d.bases[i] = d.manifest
<1> DEFINE run == baseline[r]
<1>1. run \in BaselineRun /\ BaselineRunInv(run)
  BY DEF BaselineInv, TypeOKB
<1>2. run.outcomes \in Seq({"completed", "failed"}) /\ run.bases \in Seq(Versions)
  BY <1>1 DEF BaselineRun
<1>3. Len(run.outcomes) = NCases /\ Len(run.bases) = NCases
      /\ DOMAIN run.outcomes = 1..NCases /\ DOMAIN run.bases = 1..NCases
  BY <1>1, <1>2 DEF BaselineRunInv
<1>4. RunStatus(run.outcomes) = "completed" <=> \A i \in 1..NCases : run.outcomes[i] = "completed"
  BY <1>3 DEF RunStatus
<1>5. ~run.disturbed => \A i \in 1..NCases : run.bases[i] = run.read
  BY <1>1, <1>3 DEF BaselineRunInv
<1> QED BY <1>3, <1>4, <1>5 DEF Document

LEMMA LinkKeeps ==
  ASSUME BaselineInv, NEW r \in BaselineRuns, Link(r)
  PROVE  BaselineInv' /\ ResultsStay
<1>1. baseline[r].at = "written" /\ ResultsAreTrue
  BY DEF Link, BaselineInv
<1>2. CASE baseline[r].begun \in DOMAIN published
  <2>1. Put(r, Over("exists")) /\ UNCHANGED published
    BY <1>2 DEF Link, Kept
  <2> QED BY <1>1, <2>1, UnpublishedKeeps, PutKeeps, OverIsRun DEF ResultsStay
<1>3. CASE baseline[r].begun \notin DOMAIN published
  <2> DEFINE name == baseline[r].begun
  <2>1. Put(r, Over("linked"))
        /\ published' = [n \in DOMAIN published \cup {name} |-> IF n = name THEN Document(r) ELSE published[n]]
    BY <1>3 DEF Link
  <2> HIDE DEF name
  <2>2. DOMAIN published' = DOMAIN published \cup {name} /\ published'[name] = Document(r)
        /\ \A n \in DOMAIN published : n # name => published'[n] = published[n]
    BY <2>1
  <2>3. ResultsAreTrue'
    BY <1>1, <2>2, DocumentIsTrue DEF ResultsAreTrue
  <2>4. ResultsStay
    BY <1>3, <2>2 DEF ResultsStay, name
  <2> QED BY <2>1, <2>3, <2>4, PutKeeps, OverIsRun
<1> QED BY <1>2, <1>3

-----------------------------------------------------------------------------

LEMMA InitialB == InitB => BaselineInv
<1> SUFFICES ASSUME InitB PROVE BaselineInv
  OBVIOUS
<1>1. TypeOKB
  BY NotRunIsRun DEF InitB, TypeOKB, Versions
<1>2. \A r \in BaselineRuns : BaselineRunInv(baseline[r])
  BY NotRunIsRun DEF InitB
<1>3. ResultsAreTrue
  BY DEF InitB, ResultsAreTrue
<1> QED BY <1>1, <1>2, <1>3 DEF BaselineInv

LEMMA NextKeeps == BaselineInv /\ [NextB]_bvars => BaselineInv' /\ ResultsStay
<1> SUFFICES ASSUME BaselineInv, [NextB]_bvars PROVE BaselineInv' /\ ResultsStay
  OBVIOUS
<1>1. ASSUME NEW f \in GoldFiles, Reindexed(f) PROVE BaselineInv' /\ ResultsStay
  <2>1. rows' \in Versions /\ vectors' \in Versions /\ indexed' \subseteq GoldFiles
    BY <1>1 DEF Reindexed, BaselineInv, TypeOKB, Versions
  <2> QED BY <1>1, <2>1, DisturbKeeps DEF Reindexed, ResultsStay
<1>2. ASSUME NEW f \in GoldFiles, Embedded(f) PROVE BaselineInv' /\ ResultsStay
  <2>1. rows' \in Versions /\ vectors' \in Versions /\ indexed' \subseteq GoldFiles
    BY <1>2 DEF Embedded, BaselineInv, TypeOKB, Versions
  <2> QED BY <1>2, <2>1, DisturbKeeps DEF Embedded, ResultsStay
<1>3. CASE NextSecond
  BY <1>3 DEF NextSecond, BaselineInv, TypeOKB, BaselineRunInv, Verified, ResultsAreTrue, ResultsStay
<1>4. ASSUME NEW r \in BaselineRuns, BeginRun(r) PROVE BaselineInv' /\ ResultsStay
  <2>1. UNCHANGED published
    BY <1>4 DEF BeginRun, Kept
  <2> QED BY <1>4, <2>1, BeginKeeps, UnpublishedStays
<1>5. ASSUME NEW r \in BaselineRuns, VerifyRows(r) PROVE BaselineInv' /\ ResultsStay
  <2>1. UNCHANGED published
    BY <1>5 DEF VerifyRows, Kept
  <2> QED BY <1>5, <2>1, VerifyRowsKeeps, UnpublishedStays
<1>6. ASSUME NEW r \in BaselineRuns, VerifyVectors(r) PROVE BaselineInv' /\ ResultsStay
  <2>1. UNCHANGED published
    BY <1>6 DEF VerifyVectors, Kept
  <2> QED BY <1>6, <2>1, VerifyVectorsKeeps, UnpublishedStays
<1>7. ASSUME NEW r \in BaselineRuns, AskCase(r) PROVE BaselineInv' /\ ResultsStay
  <2>1. UNCHANGED published
    BY <1>7 DEF AskCase, Kept
  <2> QED BY <1>7, <2>1, AskCaseKeeps, UnpublishedStays
<1>8. ASSUME NEW r \in BaselineRuns, WriteTemporary(r) PROVE BaselineInv' /\ ResultsStay
  <2>1. UNCHANGED published
    BY <1>8 DEF WriteTemporary, Kept
  <2> QED BY <1>8, <2>1, WriteTemporaryKeeps, UnpublishedStays
<1>9. ASSUME NEW r \in BaselineRuns, Link(r) PROVE BaselineInv' /\ ResultsStay
  BY <1>9, LinkKeeps
<1>10. ASSUME NEW r \in BaselineRuns, RemoveTemporary(r) PROVE BaselineInv' /\ ResultsStay
  BY <1>10 DEF RemoveTemporary, BaselineInv, TypeOKB, BaselineRunInv, Verified, ResultsAreTrue, ResultsStay
<1>11. ASSUME NEW r \in BaselineRuns, Kill(r) PROVE BaselineInv' /\ ResultsStay
  <2>1. ResultsAreTrue'
    BY <1>11, UnpublishedKeeps DEF Kill, Kept, BaselineInv
  <2> QED BY <1>11, <2>1, PutKeeps, OverIsRun DEF Kill, Kept, ResultsStay
<1>12. CASE UNCHANGED bvars
  BY <1>12 DEF bvars, BaselineInv, TypeOKB, BaselineRunInv, Verified, ResultsAreTrue, ResultsStay
<1> QED BY <1>1, <1>2, <1>3, <1>4, <1>5, <1>6, <1>7, <1>8, <1>9, <1>10, <1>11, <1>12 DEF NextB

\* Whatever is published by write_result_atomically is whole, measures the versions of its
\* manifest unless the index changed meanwhile, and is never overwritten.
THEOREM BaselinesCanBeReliedOn == SpecB => BaselinesAreSound
<1>1. InitB => BaselineInv
  BY InitialB
<1>2. BaselineInv /\ [NextB]_bvars => BaselineInv'
  BY NextKeeps
<1>3. BaselineInv /\ BaselineInv' /\ [NextB]_bvars => [ResultsAreTrue' /\ ResultsStay]_bvars
  BY NextKeeps DEF BaselineInv
<1> QED BY <1>1, <1>2, <1>3, PTL DEF SpecB, BaselinesAreSound

-----------------------------------------------------------------------------
(* No case is paid for twice, for any number of cases, steps, edits of the *)
(* sources and runs, wherever the runs die.                                *)

Cases == 1..SmokeCases
CaseRecord == [status : {"absent", "PENDING", "COMPLETED", "UNKNOWN"}, identity : Nat,
               steps : Seq({"PENDING", "SUCCESS", "UNKNOWN"})]
AtWork == {"run", "post", "answer", "end"}
SmokeRun == [at : AtWork \cup {"rest", "case"}, run : Nat, ledger : Ledgers, case : Nat, code : Nat]
Call == [ledger : Ledgers, case : Cases, run : Nat, code : Nat, step : Nat]

TypeOKS ==
  /\ sources \in Nat /\ frozen \in [Ledgers -> Nat]
  /\ record \in [Ledgers -> [Cases -> CaseRecord]]
  /\ smoke \in SmokeRun /\ calls \subseteq Call

Posted(l, c, i) == \E call \in calls : call.ledger = l /\ call.case = c /\ call.step = i

\* A record starts empty and carries the identity of its freeze, which is never 0; its
\* calls are of one run and of the sources it names.
RecordInv(l, c) ==
  LET rec == record[l][c]
  IN  /\ rec.status = "absent" => rec.steps = <<>>
      /\ rec.status # "absent" => rec.identity = frozen[l] /\ frozen[l] # 0
      /\ rec.status = "COMPLETED" => \A i \in DOMAIN rec.steps : rec.steps[i] = "SUCCESS" /\ Posted(l, c, i)
      /\ \A call \in calls : call.ledger = l /\ call.case = c =>
           /\ call.step \in DOMAIN rec.steps /\ call.code = rec.identity
           /\ \A other \in calls : other.ledger = l /\ other.case = c => call.run = other.run

\* Of the case under way, every step before the last was posted and answered, and the calls
\* are the run's own.
UnderWayInv ==
  LET rec == record[smoke.ledger][smoke.case]
  IN  /\ smoke.at # "rest" => smoke.code = frozen[smoke.ledger] /\ smoke.code # 0
      /\ smoke.at = "case" => smoke.case >= 1
      /\ smoke.at \in AtWork =>
           /\ smoke.case \in Cases /\ rec.status = "PENDING"
           /\ \A call \in calls : call.ledger = smoke.ledger /\ call.case = smoke.case => call.run = smoke.run
           /\ smoke.at # "run" => rec.steps # <<>>
           /\ \A i \in DOMAIN rec.steps : (i # Len(rec.steps) \/ smoke.at = "run") =>
                rec.steps[i] = "SUCCESS" /\ Posted(smoke.ledger, smoke.case, i)
           /\ smoke.at = "answer" => Posted(smoke.ledger, smoke.case, Len(rec.steps))
           /\ smoke.at = "end" => rec.steps[Len(rec.steps)] = "UNKNOWN"

SmokeInv == TypeOKS /\ (\A l \in Ledgers, c \in Cases : RecordInv(l, c)) /\ UnderWayInv

-----------------------------------------------------------------------------

LEMMA SmokeInvImpliesProperty == SmokeInv => NoCaseIsPaidTwice
<1> SUFFICES ASSUME SmokeInv, NEW l \in Ledgers, NEW c \in Cases
             PROVE  LET rec == record[l][c]
                    IN  /\ \A call, other \in CallsOf(l, c) : call.run = other.run
                        /\ \A call \in CallsOf(l, c) : call.step \in DOMAIN rec.steps /\ call.code = rec.identity
                        /\ rec.status # "absent" => rec.identity = frozen[l]
                        /\ rec.status = "COMPLETED" =>
                             \A i \in DOMAIN rec.steps :
                               rec.steps[i] = "SUCCESS" /\ \E call \in CallsOf(l, c) : call.step = i
  BY DEF NoCaseIsPaidTwice, Cases
<1>1. RecordInv(l, c)
  BY DEF SmokeInv
<1> QED BY <1>1 DEF RecordInv, CallsOf, Posted

LEMMA InitialS == InitS => SmokeInv
<1> SUFFICES ASSUME InitS PROVE SmokeInv
  OBVIOUS
<1>1. NoRecord \in CaseRecord /\ NoRecord.status = "absent" /\ NoRecord.steps = <<>>
  BY DEF NoRecord, CaseRecord
<1>2. AtRest(0) \in SmokeRun /\ AtRest(0).at = "rest"
  BY DEF AtRest, SmokeRun, AtWork, Ledgers
<1>3. \A l \in Ledgers, c \in Cases : record[l][c] = NoRecord
  BY DEF InitS, Cases
<1>4. TypeOKS
  BY <1>1, <1>2 DEF InitS, TypeOKS, Cases
<1>5. \A l \in Ledgers, c \in Cases : RecordInv(l, c)
  BY <1>1, <1>3 DEF RecordInv, InitS
<1>6. UnderWayInv
  BY <1>2 DEF UnderWayInv, InitS, AtWork
<1> QED BY <1>4, <1>5, <1>6 DEF SmokeInv

-----------------------------------------------------------------------------

\* What a run that stops leaves behind is only its records.
LEMMA RestKeeps ==
  ASSUME SmokeInv, smoke' = AtRest(smoke.run), UNCHANGED <<sources, frozen, record, calls>>
  PROVE  SmokeInv'
<1>1. smoke' \in SmokeRun /\ smoke'.at = "rest"
  BY DEF SmokeInv, TypeOKS, SmokeRun, AtRest, AtWork, Ledgers
<1>2. TypeOKS'
  BY <1>1 DEF SmokeInv, TypeOKS
<1>3. \A l \in Ledgers, c \in Cases : RecordInv(l, c)'
  BY DEF SmokeInv, RecordInv, Posted
<1>4. UnderWayInv'
  BY <1>1, SMTT(30) DEF UnderWayInv, AtWork
<1> QED BY <1>2, <1>3, <1>4 DEF SmokeInv

LEMMA EditKeeps == ASSUME SmokeInv, EditSources PROVE SmokeInv'
<1>1. sources' \in Nat
  BY SmokeAssumption DEF EditSources
<1> QED BY <1>1 DEF EditSources, SmokeInv, TypeOKS, RecordInv, UnderWayInv, Posted

LEMMA FreezeKeeps == ASSUME SmokeInv, NEW l \in Ledgers, Freeze(l) PROVE SmokeInv'
<1>1. frozen' \in [Ledgers -> Nat] /\ frozen[l] = 0 /\ \A k \in Ledgers \ {l} : frozen'[k] = frozen[k]
  BY DEF Freeze, SmokeInv, TypeOKS
<1>2. TypeOKS'
  BY <1>1 DEF Freeze, SmokeInv, TypeOKS
<1>3. ASSUME NEW k \in Ledgers, NEW c \in Cases PROVE RecordInv(k, c)'
  BY <1>1 DEF Freeze, SmokeInv, RecordInv, Posted
<1>4. UnderWayInv'
  BY DEF Freeze, UnderWayInv, AtWork
<1> QED BY <1>2, <1>3, <1>4 DEF SmokeInv

LEMMA StartSmokeKeeps == ASSUME SmokeInv, NEW l \in Ledgers, StartSmoke(l) PROVE SmokeInv'
<1>1. smoke' \in SmokeRun /\ smoke'.at = "case" /\ smoke'.case = 1 /\ smoke'.ledger = l /\ smoke'.code = frozen[l]
  BY DEF StartSmoke, SmokeInv, TypeOKS, SmokeRun
<1>2. TypeOKS'
  BY <1>1 DEF StartSmoke, SmokeInv, TypeOKS
<1>3. \A k \in Ledgers, c \in Cases : RecordInv(k, c)'
  BY DEF StartSmoke, SmokeInv, RecordInv, Posted
<1>4. UnderWayInv'
  BY <1>1 DEF StartSmoke, UnderWayInv, AtWork
<1> QED BY <1>2, <1>3, <1>4 DEF SmokeInv

LEMMA SkipKeeps == ASSUME SmokeInv, SkipCase PROVE SmokeInv'
<1>1. smoke' \in SmokeRun /\ smoke'.at = "case" /\ smoke'.case = smoke.case + 1 /\ smoke'.ledger = smoke.ledger
      /\ smoke'.code = smoke.code /\ smoke.case \in Nat
  BY DEF SkipCase, SmokeInv, TypeOKS, SmokeRun
<1>2. TypeOKS'
  BY <1>1 DEF SkipCase, SmokeInv, TypeOKS
<1>3. \A k \in Ledgers, c \in Cases : RecordInv(k, c)'
  BY DEF SkipCase, SmokeInv, RecordInv, Posted
<1>4. UnderWayInv'
  BY <1>1 DEF SkipCase, SmokeInv, UnderWayInv, AtWork
<1> QED BY <1>2, <1>3, <1>4 DEF SmokeInv

-----------------------------------------------------------------------------
(* Sequences of steps. *)

LEMMA StepAppended ==
  ASSUME NEW S, NEW s \in Seq(S), NEW e \in S
  PROVE  LET t == Append(s, e)
         IN  /\ t \in Seq(S) /\ t # <<>> /\ Len(t) = Len(s) + 1
             /\ \A i \in DOMAIN t : i # Len(t) => i \in DOMAIN s /\ t[i] = s[i]
             /\ \A i \in DOMAIN s : i \in DOMAIN t
OBVIOUS

LEMMA LastStepReplaced ==
  ASSUME NEW S, NEW s \in Seq(S), s # <<>>, NEW e \in S
  PROVE  LET t == [s EXCEPT ![Len(s)] = e]
         IN  /\ t \in Seq(S) /\ t # <<>> /\ DOMAIN t = DOMAIN s /\ Len(t) = Len(s) /\ t[Len(t)] = e
             /\ \A i \in DOMAIN t : i # Len(t) => t[i] = s[i]
OBVIOUS

-----------------------------------------------------------------------------
(* The steps of the case under way, c of ledger l. *)

UnderWay(l, c) == l \in Ledgers /\ c \in Cases /\ l = smoke.ledger /\ c = smoke.case

\* One record is written: what has to be shown of it alone.
LEMMA WriteKeeps ==
  ASSUME SmokeInv, UNCHANGED <<sources, frozen, calls>>, NEW rec \in CaseRecord, smoke' \in SmokeRun,
         NEW l \in Ledgers, NEW c \in Cases, record' = [record EXCEPT ![l][c] = rec],
         RecordInv(l, c)', UnderWayInv'
  PROVE  SmokeInv'
<1>1. record' \in [Ledgers -> [Cases -> CaseRecord]]
  BY DEF SmokeInv, TypeOKS
<1>2. ASSUME NEW k \in Ledgers, NEW d \in Cases, k # l \/ d # c
      PROVE  record'[k][d] = record[k][d]
  BY <1>2 DEF SmokeInv, TypeOKS
<1>3. ASSUME NEW k \in Ledgers, NEW d \in Cases PROVE RecordInv(k, d)'
  <2>1. CASE k = l /\ d = c
    BY <2>1
  <2>2. CASE k # l \/ d # c
    BY <1>2, <2>2 DEF SmokeInv, RecordInv, Posted
  <2> QED BY <2>1, <2>2
<1>4. TypeOKS'
  BY <1>1 DEF SmokeInv, TypeOKS
<1> QED BY <1>3, <1>4 DEF SmokeInv

LEMMA AskKeeps == ASSUME SmokeInv, AskSmoke, NEW l, NEW c, UnderWay(l, c) PROVE SmokeInv'
<1> DEFINE rec == [status |-> "PENDING", identity |-> frozen[l], steps |-> <<>>]
<1>0. l \in Ledgers /\ c \in Cases /\ l = smoke.ledger /\ c = smoke.case
  BY DEF UnderWay
<1>1. smoke.at = "case" /\ Here.status = "absent" /\ smoke.code = frozen[l] /\ smoke.code # 0
  BY <1>0 DEF AskSmoke, Retained, SmokeInv, UnderWayInv
<1>2. rec \in CaseRecord
  BY <1>0 DEF CaseRecord, SmokeInv, TypeOKS
<1>3. smoke' \in SmokeRun /\ smoke'.at = "run" /\ smoke'.case = c /\ smoke'.ledger = l
      /\ smoke'.code = smoke.code /\ smoke'.run = smoke.run
  BY <1>0 DEF AskSmoke, Saving, SmokeInv, TypeOKS, SmokeRun, AtWork
<1>4. record' = [record EXCEPT ![l][c] = rec] /\ UNCHANGED <<sources, frozen, calls>>
  BY <1>0 DEF AskSmoke, Saving
<1>5. rec.status = "PENDING" /\ rec.identity = frozen[l] /\ rec.steps = <<>>
  OBVIOUS
<1> HIDE DEF rec
<1>6. Here = record[l][c] /\ record'[l][c] = rec /\ RecordInv(l, c)
  BY <1>0, <1>4 DEF SmokeInv, TypeOKS, Here
<1>7. \A call \in calls : ~(call.ledger = l /\ call.case = c)
  BY <1>0, <1>1, <1>6 DEF RecordInv
<1>8. RecordInv(l, c)'
  BY <1>0, <1>1, <1>4, <1>5, <1>6, <1>7 DEF RecordInv
<1>9. UnderWayInv'
  BY <1>0, <1>1, <1>3, <1>4, <1>5, <1>6, <1>7 DEF UnderWayInv
<1> QED BY <1>0, <1>2, <1>3, <1>4, <1>8, <1>9, WriteKeeps

LEMMA RecordStepKeeps == ASSUME SmokeInv, RecordStep, NEW l, NEW c, UnderWay(l, c) PROVE SmokeInv'
<1> DEFINE old == Here  rec == [old EXCEPT !.steps = Append(@, "PENDING")]
<1>0. l \in Ledgers /\ c \in Cases /\ l = smoke.ledger /\ c = smoke.case
  BY DEF UnderWay
<1>1. smoke.at = "run"
  BY <1>0 DEF RecordStep
<1>2. old \in CaseRecord /\ old.steps \in Seq({"PENDING", "SUCCESS", "UNKNOWN"})
  <2>1. old \in CaseRecord
    BY <1>0 DEF SmokeInv, TypeOKS, Here
  <2> HIDE DEF old
  <2> QED BY <2>1 DEF CaseRecord
<1>3. rec \in CaseRecord /\ rec.status = old.status /\ rec.identity = old.identity
      /\ rec.steps = Append(old.steps, "PENDING")
  <2> DEFINE steps == Append(old.steps, "PENDING")
  <2>1. steps \in Seq({"PENDING", "SUCCESS", "UNKNOWN"})
    BY <1>2
  <2> HIDE DEF steps, old
  <2>2. [old EXCEPT !.steps = steps] \in CaseRecord /\ [old EXCEPT !.steps = steps].status = old.status
        /\ [old EXCEPT !.steps = steps].identity = old.identity /\ [old EXCEPT !.steps = steps].steps = steps
    BY <1>2, <2>1 DEF CaseRecord
  <2> QED BY <2>2 DEF steps
<1>4. record' = [record EXCEPT ![l][c] = rec] /\ UNCHANGED <<sources, frozen, calls>>
  BY <1>0 DEF RecordStep, Saving
<1>5. smoke' \in SmokeRun /\ smoke'.at = "post" /\ smoke'.case = c /\ smoke'.ledger = l
      /\ smoke'.code = smoke.code /\ smoke'.run = smoke.run
  BY <1>0 DEF RecordStep, Saving, SmokeInv, TypeOKS, SmokeRun, AtWork
<1> HIDE DEF rec
<1>6. old = record[l][c] /\ record'[l][c] = rec /\ RecordInv(l, c)
  BY <1>0, <1>4 DEF SmokeInv, TypeOKS, Here
<1> HIDE DEF old
<1>7. /\ rec.steps # <<>>
      /\ \A i \in DOMAIN rec.steps : i # Len(rec.steps) => i \in DOMAIN old.steps /\ rec.steps[i] = old.steps[i]
      /\ \A i \in DOMAIN old.steps : i \in DOMAIN rec.steps
  BY <1>2, <1>3, StepAppended
<1>8. /\ old.status = "PENDING" /\ smoke.code = frozen[l] /\ smoke.code # 0
      /\ \A call \in calls : call.ledger = l /\ call.case = c => call.run = smoke.run
      /\ \A i \in DOMAIN old.steps : old.steps[i] = "SUCCESS" /\ Posted(l, c, i)
  <2>1. UnderWayInv /\ smoke.at \in AtWork
    BY <1>1 DEF SmokeInv, AtWork
  <2>2. smoke.code = frozen[l] /\ smoke.code # 0
    BY <1>0, <1>1, <2>1 DEF UnderWayInv
  <2>3. record[smoke.ledger][smoke.case] = old
    BY <1>0, <1>6
  <2>4. \A i \in DOMAIN old.steps : old.steps[i] = "SUCCESS" /\ Posted(smoke.ledger, smoke.case, i)
    BY <1>1, <2>1, <2>3 DEF UnderWayInv
  <2>5. old.status = "PENDING"
    BY <2>1, <2>3 DEF UnderWayInv
  <2>6. \A call \in calls : call.ledger = smoke.ledger /\ call.case = smoke.case => call.run = smoke.run
    BY <2>1, SMTT(30) DEF UnderWayInv
  <2> QED BY <1>0, <2>2, <2>4, <2>5, <2>6
<1>9. RecordInv(l, c)'
  <2>1. \A call \in calls : call.ledger = l /\ call.case = c => call.step \in DOMAIN rec.steps
    BY <1>0, <1>6, <1>7 DEF RecordInv
  <2> QED BY <1>0, <1>3, <1>4, <1>6, <1>8, <2>1, ZenonT(40) DEF RecordInv
<1>10. UnderWayInv'
  <2>1. \A i \in DOMAIN rec.steps : i # Len(rec.steps) => rec.steps[i] = "SUCCESS" /\ Posted(l, c, i)'
    BY <1>0, <1>4, <1>7, <1>8 DEF Posted
  <2>2. rec.steps # <<>> /\ rec.status = "PENDING"
    BY <1>3, <1>7, <1>8
  <2> QED BY <1>0, <1>4, <1>5, <1>6, <1>8, <2>1, <2>2 DEF UnderWayInv
<1> QED BY <1>0, <1>3, <1>4, <1>5, <1>9, <1>10, WriteKeeps

\* The answer, or its absence, is written over the last step.
LEMMA OutcomeKeeps ==
  ASSUME SmokeInv, NEW l, NEW c, UnderWay(l, c), NEW status, NEW at, Saving(Outcome(status), at),
         \/ smoke.at = "answer" /\ status = "SUCCESS" /\ at = "run"
         \/ smoke.at \in {"post", "answer"} /\ status = "UNKNOWN" /\ at = "end"
  PROVE  SmokeInv'
<1> DEFINE old == Here  rec == Outcome(status)
<1>0. l \in Ledgers /\ c \in Cases /\ l = smoke.ledger /\ c = smoke.case
  BY DEF UnderWay
<1>1. smoke.at \in {"post", "answer"} /\ at \in {"run", "end"} /\ status \in {"SUCCESS", "UNKNOWN"}
  OBVIOUS
<1>2. old \in CaseRecord /\ old.steps \in Seq({"PENDING", "SUCCESS", "UNKNOWN"})
  <2>1. old \in CaseRecord
    BY <1>0 DEF SmokeInv, TypeOKS, Here
  <2> HIDE DEF old
  <2> QED BY <2>1 DEF CaseRecord
<1>3. rec.status = old.status /\ rec.identity = old.identity
      /\ rec.steps = [old.steps EXCEPT ![Len(old.steps)] = status]
  BY <1>2 DEF CaseRecord, Outcome
<1>4. record' = [record EXCEPT ![l][c] = rec] /\ UNCHANGED <<sources, frozen, calls>>
  BY <1>0 DEF Saving
<1>5. smoke' \in SmokeRun /\ smoke'.at = at /\ smoke'.case = c /\ smoke'.ledger = l
      /\ smoke'.code = smoke.code /\ smoke'.run = smoke.run
  BY <1>0, <1>1 DEF Saving, SmokeInv, TypeOKS, SmokeRun, AtWork
<1>6. old = record[l][c]
  BY <1>0 DEF Here
<1> HIDE DEF old
<1>7. /\ old.status = "PENDING" /\ smoke.code = frozen[l] /\ smoke.code # 0 /\ old.steps # <<>>
      /\ \A call \in calls : call.ledger = l /\ call.case = c => call.run = smoke.run
      /\ \A i \in DOMAIN old.steps : i # Len(old.steps) => old.steps[i] = "SUCCESS" /\ Posted(l, c, i)
      /\ smoke.at = "answer" => Posted(l, c, Len(old.steps))
  BY <1>0, <1>1, <1>6 DEF SmokeInv, UnderWayInv, AtWork
<1>8. /\ rec.steps \in Seq({"PENDING", "SUCCESS", "UNKNOWN"}) /\ rec.steps # <<>>
      /\ DOMAIN rec.steps = DOMAIN old.steps /\ Len(rec.steps) = Len(old.steps)
      /\ rec.steps[Len(rec.steps)] = status
      /\ \A i \in DOMAIN rec.steps : i # Len(rec.steps) => rec.steps[i] = old.steps[i]
  BY <1>1, <1>2, <1>3, <1>7, LastStepReplaced
<1>9. rec \in CaseRecord
  <2> DEFINE steps == [old.steps EXCEPT ![Len(old.steps)] = status]
  <2>1. steps \in Seq({"PENDING", "SUCCESS", "UNKNOWN"})
    BY <1>3, <1>8
  <2>2. rec = [old EXCEPT !.steps = steps]
    BY DEF Outcome, old
  <2> HIDE DEF steps, rec
  <2> QED BY <1>2, <2>1, <2>2 DEF CaseRecord
<1> HIDE DEF rec
<1>10. record'[l][c] = rec /\ RecordInv(l, c)
  BY <1>0, <1>4, <1>9 DEF SmokeInv, TypeOKS, Here
<1>11. RecordInv(l, c)'
  <2>1. rec.status = "PENDING" /\ old.status = "PENDING" /\ rec.identity = old.identity
        /\ DOMAIN rec.steps = DOMAIN old.steps
    BY <1>3, <1>7, <1>8
  <2> QED BY <1>4, <1>6, <1>10, <2>1 DEF RecordInv
<1>12. UnderWayInv'
  <2>1. \A i \in DOMAIN rec.steps : i # Len(rec.steps) \/ at = "run" => rec.steps[i] = "SUCCESS" /\ Posted(l, c, i)'
    BY <1>0, <1>4, <1>7, <1>8 DEF Posted
  <2>2. /\ rec.steps # <<>> /\ rec.status = "PENDING" /\ smoke.code = frozen[l] /\ smoke.code # 0
        /\ at \notin {"rest", "case", "post", "answer"} /\ (at = "end" => rec.steps[Len(rec.steps)] = "UNKNOWN")
        /\ \A call \in calls : call.ledger = l /\ call.case = c => call.run = smoke.run
    BY <1>3, <1>7, <1>8
  <2> QED BY <1>0, <1>4, <1>5, <1>10, <2>1, <2>2 DEF UnderWayInv
<1> QED BY <1>0, <1>4, <1>5, <1>9, <1>11, <1>12, WriteKeeps

LEMMA FinishedKeeps == ASSUME SmokeInv, Finished, NEW l, NEW c, UnderWay(l, c) PROVE SmokeInv'
<1> DEFINE old == Here
           status == IF \E i \in DOMAIN old.steps : old.steps[i] # "SUCCESS" THEN "UNKNOWN" ELSE "COMPLETED"
           rec == [old EXCEPT !.status = status]
<1>0. l \in Ledgers /\ c \in Cases /\ l = smoke.ledger /\ c = smoke.case
  BY DEF UnderWay
<1>1. smoke.at \in {"run", "end"}
  BY <1>0 DEF Finished
<1>2. old \in CaseRecord /\ old = record[l][c]
  BY <1>0 DEF SmokeInv, TypeOKS, Here
<1>3. rec \in CaseRecord /\ rec.status = status /\ rec.identity = old.identity /\ rec.steps = old.steps
  BY <1>2 DEF CaseRecord
<1>4. record' = [record EXCEPT ![l][c] = rec] /\ UNCHANGED <<sources, frozen, calls>>
  BY <1>0, <1>2 DEF Finished, SmokeInv, TypeOKS
<1>5. smoke' \in SmokeRun /\ smoke'.at = "case" /\ smoke'.case = c + 1 /\ smoke'.ledger = l
      /\ smoke'.code = smoke.code
  <2> DEFINE n == smoke.case + 1  next == [smoke EXCEPT !.at = "case", !.case = n]
  <2>1. smoke \in SmokeRun /\ n \in Nat
    BY DEF SmokeInv, TypeOKS, SmokeRun
  <2>2. smoke' = next
    BY DEF Finished
  <2> HIDE DEF n
  <2>3. next \in SmokeRun
    BY <2>1 DEF SmokeRun, AtWork
  <2>4. next.at = "case" /\ next.case = n /\ next.ledger = smoke.ledger /\ next.code = smoke.code
    BY <2>1 DEF SmokeRun
  <2> HIDE DEF next
  <2> QED BY <1>0, <2>2, <2>3, <2>4 DEF n
<1> HIDE DEF rec
<1>6. record'[l][c] = rec /\ RecordInv(l, c)
  BY <1>0, <1>4 DEF SmokeInv, TypeOKS, Here
<1> HIDE DEF old
<1>7. /\ old.status = "PENDING" /\ smoke.code = frozen[l] /\ smoke.code # 0
      /\ smoke.at = "run" => \A i \in DOMAIN old.steps : Posted(l, c, i)
      /\ smoke.at = "end" => old.steps # <<>> /\ old.steps[Len(old.steps)] = "UNKNOWN"
  BY <1>0, <1>1, <1>2 DEF SmokeInv, UnderWayInv, AtWork
<1>8. rec.status = "COMPLETED" => \A i \in DOMAIN old.steps : old.steps[i] = "SUCCESS" /\ Posted(l, c, i)
  <2>1. CASE smoke.at = "run"
    BY <1>0, <1>3, <1>7, <2>1
  <2>2. CASE smoke.at = "end"
    <3>1. Len(old.steps) \in DOMAIN old.steps
      BY <1>0, <1>2, <1>7, <2>2 DEF CaseRecord
    <3> QED BY <1>0, <1>3, <1>7, <2>2, <3>1
  <2> QED BY <1>0, <1>1, <2>1, <2>2
<1>9. RecordInv(l, c)'
  <2>1. rec.status # "absent" /\ rec.identity = frozen[l] /\ frozen[l] # 0
    BY <1>2, <1>3, <1>6, <1>7 DEF RecordInv
  <2> QED BY <1>2, <1>3, <1>4, <1>6, <1>8, <2>1 DEF RecordInv, Posted
<1>10. UnderWayInv'
  BY <1>0, <1>4, <1>5, <1>7 DEF UnderWayInv, AtWork, Cases
<1> QED BY <1>0, <1>3, <1>4, <1>5, <1>9, <1>10, WriteKeeps

\* A call is posted for the step that is on record.
LEMMA PostKeeps == ASSUME SmokeInv, PostStep, NEW l, NEW c, UnderWay(l, c) PROVE SmokeInv'
<1> DEFINE new == [ledger |-> l, case |-> c, run |-> smoke.run, code |-> smoke.code, step |-> Len(record[l][c].steps)]
           rec == record[l][c]
<1>0. l \in Ledgers /\ c \in Cases /\ l = smoke.ledger /\ c = smoke.case
  BY DEF UnderWay
<1>1. smoke.at = "post" /\ calls' = calls \cup {new} /\ UNCHANGED <<sources, frozen, record>>
  BY <1>0 DEF PostStep, Here
<1>2. rec \in CaseRecord /\ rec.steps \in Seq({"PENDING", "SUCCESS", "UNKNOWN"}) /\ smoke \in SmokeRun
  BY <1>0 DEF SmokeInv, TypeOKS, CaseRecord
<1>3. smoke' \in SmokeRun /\ smoke'.at = "answer" /\ smoke'.case = c /\ smoke'.ledger = l
      /\ smoke'.code = smoke.code /\ smoke'.run = smoke.run
  BY <1>0, <1>2 DEF PostStep, SmokeRun, AtWork
<1>4. /\ rec.status = "PENDING" /\ smoke.code = frozen[l] /\ smoke.code # 0 /\ rec.steps # <<>>
      /\ \A call \in calls : call.ledger = l /\ call.case = c => call.run = smoke.run
      /\ \A i \in DOMAIN rec.steps : i # Len(rec.steps) => rec.steps[i] = "SUCCESS" /\ Posted(l, c, i)
  BY <1>0, <1>1 DEF SmokeInv, UnderWayInv, AtWork
<1>5. RecordInv(l, c) /\ rec.identity = frozen[l]
  BY <1>0, <1>4 DEF SmokeInv, RecordInv
<1>6. Len(rec.steps) \in DOMAIN rec.steps /\ Len(rec.steps) \in Nat
  <2>1. rec.steps \in Seq({"PENDING", "SUCCESS", "UNKNOWN"}) /\ rec.steps # <<>>
    BY <1>2, <1>4
  <2> HIDE DEF rec
  <2> QED BY <2>1
<1>7. new \in Call /\ new.ledger = l /\ new.case = c /\ new.run = smoke.run /\ new.code = rec.identity
      /\ new.step = Len(rec.steps)
  BY <1>0, <1>2, <1>4, <1>5, <1>6 DEF Call, SmokeRun
<1> HIDE DEF new
<1>8. TypeOKS'
  BY <1>0, <1>1, <1>3, <1>7 DEF SmokeInv, TypeOKS
<1>9. ASSUME NEW k \in Ledgers, NEW d \in Cases PROVE RecordInv(k, d)'
  <2>1. CASE k = l /\ d = c
    BY <1>0, <1>1, <1>4, <1>5, <1>6, <1>7, <2>1 DEF RecordInv
  <2>2. CASE k # l \/ d # c
    BY <1>0, <1>1, <1>7, <2>2, SMTT(30) DEF SmokeInv, RecordInv, Posted
  <2> QED BY <2>1, <2>2, SMTT(30)
<1>10. UnderWayInv'
  <2>1. \A i \in DOMAIN rec.steps : Posted(l, c, i)'
    BY <1>0, <1>1, <1>4, <1>7 DEF Posted
  <2> QED BY <1>0, <1>1, <1>3, <1>4, <1>7, <2>1 DEF UnderWayInv
<1> QED BY <1>0, <1>8, <1>9, <1>10 DEF SmokeInv

-----------------------------------------------------------------------------

LEMMA NextKeepsSmoke == SmokeInv /\ [NextS]_svars => SmokeInv'
<1> SUFFICES ASSUME SmokeInv, [NextS]_svars PROVE SmokeInv'
  OBVIOUS
<1> DEFINE l == smoke.ledger  c == smoke.case
<1>1. smoke.at \in AtWork => UnderWay(l, c)
  BY DEF SmokeInv, TypeOKS, SmokeRun, UnderWayInv, UnderWay
<1>2. smoke.at = "case" /\ c <= SmokeCases => UnderWay(l, c)
  BY SmokeAssumption DEF SmokeInv, TypeOKS, SmokeRun, UnderWayInv, UnderWay, Cases
<1> HIDE DEF l, c
<1>3. CASE EditSources
  BY <1>3, EditKeeps
<1>4. CASE EndSmoke \/ StaleSources
  BY <1>4, RestKeeps DEF EndSmoke, StaleSources
<1>5. ASSUME NEW k \in Ledgers, Freeze(k) \/ StartSmoke(k) PROVE SmokeInv'
  BY <1>5, FreezeKeeps, StartSmokeKeeps
<1>6. CASE SkipCase
  BY <1>6, SkipKeeps
<1>7. CASE AskSmoke
  BY <1>2, <1>7, AskKeeps DEF AskSmoke, c
<1>8. CASE RecordStep
  BY <1>1, <1>8, RecordStepKeeps DEF RecordStep, AtWork
<1>9. CASE PostStep
  BY <1>1, <1>9, PostKeeps DEF PostStep, AtWork
<1>10. CASE StepAnswered
  BY <1>1, <1>10, OutcomeKeeps DEF StepAnswered, AtWork
<1>11. CASE StepFailed
  BY <1>1, <1>11, OutcomeKeeps DEF StepFailed, AtWork
<1>12. CASE Finished
  BY <1>1, <1>12, FinishedKeeps, SMTT(30) DEF Finished, AtWork
<1>13. CASE UNCHANGED svars
  BY <1>13 DEF svars, SmokeInv, TypeOKS, RecordInv, UnderWayInv, Posted
<1> QED BY <1>3, <1>4, <1>5, <1>6, <1>7, <1>8, <1>9, <1>10, <1>11, <1>12, <1>13 DEF NextS

\* The ledger of agent_smoke_runner.py holds whatever dies and is started again: every call
\* paid for is on record, of the frozen sources, and belongs to the one run that asked its
\* case.
THEOREM CasesArePaidOnce == SpecS => []NoCaseIsPaidTwice
<1>1. InitS => SmokeInv
  BY InitialS
<1>2. SmokeInv /\ [NextS]_svars => SmokeInv'
  BY NextKeepsSmoke
<1>3. SmokeInv => NoCaseIsPaidTwice
  BY SmokeInvImpliesProperty
<1> QED BY <1>1, <1>2, <1>3, PTL DEF SpecS

-----------------------------------------------------------------------------
(* The admission keeps to its limits, whatever they are. *)

\* No time is before an earlier one.
Growing(times) == \A i, j \in 1..Len(times) : i <= j => times[i] <= times[j]

\* d times are gone of those that were old, and the others stand as they did.
Dropped(times, rest, d) ==
  /\ d \in 0..Len(times) /\ Len(rest) = Len(times) - d
  /\ \A i \in 1..Len(rest) : rest[i] = times[d + i]

\* A non-empty set of numbers has a least member.
LEMMA LeastNat ==
  ASSUME NEW T \in SUBSET Nat, T # {}
  PROVE  \E m \in T : \A k \in T : m <= k
<1>1. PICK m \in T : \A k \in T : ~(k < m)
  <2>1. T \subseteq Nat
    OBVIOUS
  <2>2. PICK m \in T : \A k \in T : ~(<<k, m>> \in OpToRel(<, Nat))
    BY <2>1, NatLessThanWellFounded, WFMin
  <2> QED BY <2>1, <2>2 DEF OpToRel
<1>2. \A k \in T : k \in Nat /\ m \in Nat
  OBVIOUS
<1> QED BY <1>1, <1>2

\* Dropping from the head takes exactly the times that are a window old or older.
LEMMA RecentIs ==
  ASSUME NEW times \in Seq(Nat), Growing(times), time \in Nat
  PROVE  /\ Recent(times) \in Seq(Nat)
         /\ \E d \in 0..Len(times) :
              /\ Dropped(times, Recent(times), d)
              /\ \A i \in 1..Len(times) : times[i] <= time - Window <=> i <= d
<1> DEFINE n == Len(times)
           h == time - Window
           T == {i \in 1..n : times[i] > h}
           gone == {i \in DOMAIN times : \A j \in 1..i : times[j] <= h}
<1>1. n \in Nat /\ DOMAIN times = 1..n /\ h \in Int /\ \A i \in 1..n : times[i] \in Nat
  BY LenProperties, ElementOfSeq, AdmissionAssumption
<1>2. \E d \in 0..n : (\A i \in 1..d : times[i] <= h) /\ (d < n => times[d + 1] > h)
  <2>1. CASE T = {}
    BY <1>1, <2>1, SMTT(30)
  <2>2. CASE T # {}
    <3>0. T \in SUBSET Nat
      BY <1>1
    <3> HIDE DEF h, n
    <3>1. PICK m \in T : \A k \in T : m <= k
      <4> HIDE DEF T
      <4> QED BY <2>2, <3>0, LeastNat
    <3>2. m \in 1..n /\ times[m] > h /\ \A k \in 1..n : times[k] > h => m <= k
      BY <3>1
    <3>3. m - 1 \in 0..n /\ m - 1 + 1 = m
      BY <1>1, <3>2
    <3>4. ASSUME NEW i \in 1..m - 1 PROVE times[i] <= h
      <4>1. i \in 1..n /\ i < m
        BY <1>1, <3>2
      <4>2. ~(times[i] > h)
        BY <3>2, <4>1
      <4> QED BY <1>1, <4>1, <4>2
    <3> QED BY <3>2, <3>3, <3>4
  <2> QED BY <2>1, <2>2
<1>3. PICK d \in 0..n : (\A i \in 1..d : times[i] <= h) /\ (d < n => times[d + 1] > h)
  BY <1>2
<1> HIDE DEF h, n
<1>4. \A i \in 1..n : times[i] <= h <=> i <= d
  <2> SUFFICES ASSUME NEW i \in 1..n, i > d PROVE ~(times[i] <= h)
    BY <1>1, <1>3
  <2>1. d < n /\ d + 1 \in 1..n /\ d + 1 <= i
    BY <1>1
  <2>2. times[d + 1] <= times[i]
    BY <2>1 DEF Growing, n
  <2> QED BY <1>1, <1>3, <2>1, <2>2
<1>5. gone = 1..d
  <2>1. ASSUME NEW i \in 1..n PROVE i \in gone <=> i \in 1..d
    <3>1. CASE i <= d
      <4>1. \A j \in 1..i : j \in 1..d
        BY <3>1, <1>1
      <4> QED BY <1>1, <1>3, <3>1, <4>1
    <3>2. CASE i > d
      <4>1. ~(times[i] <= h) /\ i \in 1..i
        BY <1>1, <1>4, <3>2
      <4> QED BY <1>1, <3>2, <4>1
    <3> QED BY <1>1, <3>1, <3>2
  <2>2. gone \subseteq 1..n /\ 1..d \subseteq 1..n
    BY <1>1
  <2> HIDE DEF gone
  <2> QED BY <2>1, <2>2
<1>6. Cardinality(gone) = d
  <2>1. d \in Nat /\ 1 \in Int /\ d \in Int
    BY <1>1
  <2>2. Cardinality(1..d) = IF 1 > d THEN 0 ELSE d - 1 + 1
    BY <2>1, FS_Interval
  <2> HIDE DEF gone
  <2> QED BY <1>5, <2>1, <2>2
<1>7. Recent(times) = SubSeq(times, 1 + d, n)
  BY <1>6 DEF Recent, Without, h, n
<1>8. /\ SubSeq(times, 1 + d, n) \in Seq(Nat)
      /\ Len(SubSeq(times, 1 + d, n)) = n - d
      /\ \A i \in 1..n - d : SubSeq(times, 1 + d, n)[i] = times[d + i]
  <2>1. 1 + d \in Int /\ n \in Int /\ \A i \in 1 + d..n : times[i] \in Nat
    BY <1>1
  <2> DEFINE s == SubSeq(times, 1 + d, n)
  <2>2. /\ s \in Seq(Nat) /\ Len(s) = IF 1 + d <= n THEN n - (1 + d) + 1 ELSE 0
        /\ \A i \in 1..n - (1 + d) + 1 : s[i] = times[(1 + d) + i - 1]
    BY <2>1, SubSeqProperties
  <2> HIDE DEF s
  <2>3. Len(s) = n - d /\ n - (1 + d) + 1 = n - d
    BY <1>1, <2>2
  <2>4. \A i \in 1..n - d : (1 + d) + i - 1 = d + i
    BY <1>1
  <2>5. \A i \in 1..n - d : s[i] = times[d + i]
    BY <2>2, <2>3, <2>4
  <2> QED BY <2>2, <2>3, <2>5 DEF s
<1> QED BY <1>3, <1>4, <1>7, <1>8 DEF Dropped, n, h

States == {"reading", "read", "checked", "too large", "gone", "unavailable", "busy", "limited", "answering",
           "answered", "failed", "cancelled"}

TypeOKM ==
  /\ time \in Nat /\ active \in Nat /\ admitted \in Seq(Nat) /\ log \in Seq(Nat)
  /\ question \in [Questions -> States]

Answering == {q \in Questions : BeingAnswered(q)}

\* Times grow; the deque holds the last admissions, no more than the limit, and what was
\* dropped from it is out of the window.
LogInv ==
  /\ Growing(log) /\ \A i \in 1..Len(log) : log[i] <= time
  /\ Len(admitted) <= RateLimit
  /\ \E d \in 0..Len(log) : Dropped(log, admitted, d) /\ \A i \in 1..d : log[i] <= time - Window

PlacesInv == IsFiniteSet(Answering) /\ active = Cardinality(Answering) /\ active <= Concurrency

RateInv == \A i \in 1..Len(log) : i + RateLimit \in 1..Len(log) => log[i + RateLimit] - log[i] >= Window

AdmissionInv == TypeOKM /\ LogInv /\ PlacesInv /\ RateInv

\* What the limits are.
LEMMA AdmissionConstants ==
  Concurrency \in Nat /\ Concurrency >= 1 /\ RateLimit \in Nat /\ RateLimit >= 1 /\ Window \in Nat /\ Window >= 1
BY AdmissionAssumption

\* Nothing is admitted at first.
LEMMA InitialM == InitM => AdmissionInv
<1> SUFFICES ASSUME InitM PROVE AdmissionInv
  OBVIOUS
<1>1. /\ time = 0 /\ active = 0 /\ admitted = <<>> /\ log = <<>> /\ Len(log) = 0 /\ Len(admitted) = 0
      /\ question = [q \in Questions |-> "reading"]
  BY DEF InitM
<1>2. TypeOKM
  <2>1. <<>> \in Seq(Nat)
    BY EmptySeq
  <2> QED BY <1>1, <2>1 DEF TypeOKM, States
<1>3. LogInv
  <2>1. Dropped(log, admitted, 0) /\ 0 \in 0..Len(log)
    BY <1>1 DEF Dropped
  <2> QED BY <1>1, <2>1, AdmissionConstants DEF LogInv, Growing
<1>4. PlacesInv
  <2>1. Answering = {}
    BY <1>1 DEF Answering, BeingAnswered
  <2> QED BY <1>1, <2>1, FS_EmptySet, AdmissionConstants DEF PlacesInv
<1>5. RateInv
  BY <1>1 DEF RateInv
<1> QED BY <1>2, <1>3, <1>4, <1>5 DEF AdmissionInv

\* A question that neither takes nor leaves a place.
LEMMA Passing ==
  ASSUME TypeOKM, NEW q \in Questions, NEW state \in States, question[q] # "answering", state # "answering", To(q, state)
  PROVE  question' \in [Questions -> States] /\ Answering' = Answering
<1>1. /\ question' \in [Questions -> States]
      /\ \A p \in Questions : question'[p] = IF p = q THEN state ELSE question[p]
  BY DEF TypeOKM, To
<1> QED BY <1>1 DEF Answering, BeingAnswered

\* Dropping the old times changes nothing that the limits look at.
LEMMA DroppingKeeps ==
  ASSUME AdmissionInv
  PROVE  /\ Recent(admitted) \in Seq(Nat) /\ Len(Recent(admitted)) <= Len(admitted)
         /\ \E d \in 0..Len(log) :
              /\ Dropped(log, Recent(admitted), d)
              /\ \A i \in 1..Len(log) : log[i] <= time - Window <=> i <= d
<1> DEFINE n == Len(log)
           r == Recent(admitted)
<1>1. /\ n \in Nat /\ Len(admitted) \in Nat /\ time \in Nat /\ Window \in Nat
      /\ \A i \in 1..n : log[i] \in Nat
  BY LenProperties, ElementOfSeq, AdmissionConstants DEF AdmissionInv, TypeOKM
<1>2. PICK d \in 0..n : Dropped(log, admitted, d) /\ \A i \in 1..d : log[i] <= time - Window
  BY DEF AdmissionInv, LogInv
<1>3. /\ Len(admitted) = n - d /\ \A i \in 1..n - d : admitted[i] = log[d + i] /\ d + i \in 1..n
  BY <1>1, <1>2 DEF Dropped
<1>4. Growing(admitted)
  <2> SUFFICES ASSUME NEW i \in 1..n - d, NEW j \in 1..n - d, i <= j PROVE admitted[i] <= admitted[j]
    BY <1>3 DEF Growing
  <2>1. d + i <= d + j /\ d + i \in 1..n /\ d + j \in 1..n
    BY <1>1
  <2> QED BY <1>3, <2>1 DEF AdmissionInv, LogInv, Growing
<1>5. /\ r \in Seq(Nat)
      /\ \E e \in 0..Len(admitted) :
           /\ Dropped(admitted, r, e)
           /\ \A i \in 1..Len(admitted) : admitted[i] <= time - Window <=> i <= e
  BY <1>1, <1>4, RecentIs DEF AdmissionInv, TypeOKM
<1>6. PICK e \in 0..Len(admitted) :
           /\ Dropped(admitted, r, e)
           /\ \A i \in 1..Len(admitted) : admitted[i] <= time - Window <=> i <= e
  BY <1>5
<1> HIDE DEF r, n
<1>7. Len(r) = n - d - e /\ e \in 0..n - d /\ d + e \in 0..n /\ \A i \in 1..n - d - e : r[i] = admitted[e + i] /\ e + i \in 1..n - d
  BY <1>1, <1>3, <1>6 DEF Dropped
<1>8. Dropped(log, r, d + e)
  <2>1. \A i \in 1..n - d - e : r[i] = log[d + (e + i)] /\ d + (e + i) = (d + e) + i
    BY <1>1, <1>3, <1>7
  <2>2. n - (d + e) = n - d - e
    BY <1>1, <1>7
  <2> QED BY <1>7, <2>1, <2>2 DEF Dropped, n
<1>9. ASSUME NEW i \in 1..n PROVE log[i] <= time - Window <=> i <= d + e
  <2>1. CASE i <= d
    BY <1>1, <1>2, <1>7, <2>1
  <2>2. CASE i > d
    <3>1. i - d \in 1..n - d /\ d + (i - d) = i
      BY <1>1, <2>2
    <3>2. admitted[i - d] = log[i]
      BY <1>3, <3>1
    <3>3. log[i] <= time - Window <=> i - d <= e
      BY <1>3, <1>6, <3>1, <3>2
    <3> QED BY <1>1, <1>7, <3>1, <3>3
  <2> QED BY <1>1, <2>1, <2>2
<1>10. Len(r) <= Len(admitted)
  BY <1>1, <1>3, <1>7
<1> QED BY <1>5, <1>7, <1>8, <1>9, <1>10 DEF r, n

\* What a refused question leaves behind.
LEMMA RefusedKeeps ==
  ASSUME AdmissionInv, NEW q \in Questions, NEW state \in {"busy", "limited"}, question[q] = "checked",
         To(q, state), admitted' = Recent(admitted), UNCHANGED <<time, active, log>>
  PROVE  AdmissionInv'
<1>1. question' \in [Questions -> States] /\ Answering' = Answering
  BY Passing DEF AdmissionInv, States
<1>2. TypeOKM'
  BY <1>1, DroppingKeeps DEF AdmissionInv, TypeOKM
<1>3. LogInv'
  <2>1. PICK d \in 0..Len(log) : Dropped(log, Recent(admitted), d) /\ \A i \in 1..Len(log) : log[i] <= time - Window <=> i <= d
    BY DroppingKeeps
  <2>2. Len(log) \in Nat /\ \A i \in 1..d : i \in 1..Len(log) /\ i <= d
    BY LenProperties DEF AdmissionInv, TypeOKM
  <2>3. \A i \in 1..d : log[i] <= time - Window
    BY <2>1, <2>2
  <2>4. Len(Recent(admitted)) <= RateLimit
    <3>1. Len(Recent(admitted)) \in Nat /\ Len(admitted) \in Nat
      BY DroppingKeeps, LenProperties DEF AdmissionInv, TypeOKM
    <3> QED BY <3>1, DroppingKeeps, AdmissionConstants DEF AdmissionInv, LogInv
  <2> QED BY <2>1, <2>3, <2>4 DEF AdmissionInv, LogInv
<1> QED BY <1>1, <1>2, <1>3 DEF AdmissionInv, PlacesInv, RateInv

\* An admitted question takes a place and leaves its time.
LEMMA AdmittedKeeps ==
  ASSUME AdmissionInv, NEW q \in Questions, question[q] = "checked",
         active < Concurrency, Len(Recent(admitted)) < RateLimit,
         To(q, "answering"), admitted' = Append(Recent(admitted), time), log' = Append(log, time),
         active' = active + 1, time' = time
  PROVE  AdmissionInv'
<1> DEFINE n == Len(log)
           r == Recent(admitted)
<1>1. /\ n \in Nat /\ r \in Seq(Nat) /\ Len(r) \in Nat /\ time \in Nat /\ log \in Seq(Nat) /\ active \in Nat
      /\ \A i \in 1..n : log[i] \in Nat
  BY LenProperties, ElementOfSeq, DroppingKeeps DEF AdmissionInv, TypeOKM
<1>2. PICK d \in 0..n : Dropped(log, r, d) /\ \A i \in 1..n : log[i] <= time - Window <=> i <= d
  BY DroppingKeeps
<1> HIDE DEF r
<1>3. /\ log' \in Seq(Nat) /\ Len(log') = n + 1 /\ log'[n + 1] = time /\ \A i \in 1..n : log'[i] = log[i]
      /\ admitted' \in Seq(Nat) /\ Len(admitted') = Len(r) + 1 /\ admitted'[Len(r) + 1] = time
      /\ \A i \in 1..Len(r) : admitted'[i] = r[i]
  BY <1>1, AppendProperties DEF r
<1>4. /\ question' \in [Questions -> States]
      /\ \A p \in Questions : question'[p] = IF p = q THEN "answering" ELSE question[p]
  BY DEF AdmissionInv, TypeOKM, To, States
<1>5. TypeOKM'
  BY <1>1, <1>3, <1>4 DEF TypeOKM
<1>6. Len(r) = n - d /\ \A i \in 1..n - d : r[i] = log[d + i] /\ d + i \in 1..n
  BY <1>1, <1>2 DEF Dropped
<1> HIDE DEF n
<1>7. LogInv'
  <2>1. Growing(log')
    <3> SUFFICES ASSUME NEW i \in 1..n + 1, NEW j \in 1..n + 1, i <= j PROVE log'[i] <= log'[j]
      BY <1>3 DEF Growing
    <3>1. CASE j = n + 1
      <4>1. i = n + 1 \/ i \in 1..n
        BY <1>1
      <4>2. \A k \in 1..n : log[k] <= time
        BY DEF AdmissionInv, LogInv, n
      <4> QED BY <1>1, <1>3, <3>1, <4>1, <4>2
    <3>2. CASE j \in 1..n
      <4>1. i \in 1..n
        BY <1>1, <3>2
      <4>2. log[i] <= log[j]
        BY <3>2, <4>1 DEF AdmissionInv, LogInv, Growing, n
      <4>3. log'[i] = log[i] /\ log'[j] = log[j]
        BY <1>3, <3>2, <4>1
      <4> QED BY <4>2, <4>3
    <3>3. j = n + 1 \/ j \in 1..n
      BY <1>1
    <3> QED BY <3>1, <3>2, <3>3
  <2>2. \A i \in 1..n + 1 : log'[i] <= time'
    <3>1. \A i \in 1..n : log[i] <= time
      BY DEF AdmissionInv, LogInv, n
    <3>2. \A i \in 1..n + 1 : i \in 1..n \/ i = n + 1
      BY <1>1
    <3> QED BY <1>1, <1>3, <3>1, <3>2
  <2>3. Len(admitted') <= RateLimit
    BY <1>1, <1>3, AdmissionConstants DEF r
  <2>4. Dropped(log', admitted', d)
    <3>1. d \in 0..n + 1 /\ Len(r) + 1 = n + 1 - d
      BY <1>1, <1>6
    <3>2. ASSUME NEW i \in 1..n + 1 - d PROVE admitted'[i] = log'[d + i]
      <4>1. i \in 1..n - d \/ (i = n - d + 1 /\ d + i = n + 1)
        BY <1>1
      <4>2. CASE i \in 1..n - d
        <5>1. i \in 1..Len(r) /\ r[i] = log[d + i] /\ d + i \in 1..n
          BY <1>6, <4>2
        <5>2. admitted'[i] = r[i] /\ log'[d + i] = log[d + i]
          BY <1>3, <5>1
        <5> QED BY <5>1, <5>2
      <4>3. CASE i = n - d + 1 /\ d + i = n + 1
        <5>1. i = Len(r) + 1
          BY <1>6, <4>3
        <5> QED BY <1>3, <4>3, <5>1
      <4> QED BY <4>1, <4>2, <4>3
    <3>3. d \in 0..Len(log') /\ Len(admitted') = n + 1 - d /\ Len(log') = n + 1
      BY <1>3, <3>1
    <3>4. \A i \in 1..Len(admitted') : admitted'[i] = log'[d + i]
      BY <3>2, <3>3
    <3>5. Len(admitted') = Len(log') - d
      BY <1>1, <3>3
    <3> QED BY ONLY <3>3, <3>4, <3>5 DEF Dropped
  <2>5. \A i \in 1..d : log'[i] <= time' - Window
    <3>1. \A i \in 1..d : i \in 1..n /\ i <= d
      BY <1>1
    <3> QED BY <1>2, <1>3, <3>1
  <2>6. d \in 0..n + 1
    BY <1>1
  <2> QED BY <1>3, <2>1, <2>2, <2>3, <2>4, <2>5, <2>6 DEF LogInv
<1>8. PlacesInv'
  <2>1. Answering' = Answering \cup {q} /\ q \notin Answering
    BY <1>4 DEF Answering, BeingAnswered
  <2>2. IsFiniteSet(Answering') /\ Cardinality(Answering') = Cardinality(Answering) + 1
    BY <2>1, FS_AddElement DEF AdmissionInv, PlacesInv
  <2>3. active + 1 <= Concurrency
    BY <1>1, AdmissionConstants
  <2> QED BY <2>2, <2>3 DEF AdmissionInv, PlacesInv
<1>9. RateInv'
  <2> SUFFICES ASSUME NEW i \in 1..n + 1, i + RateLimit \in 1..n + 1 PROVE log'[i + RateLimit] - log'[i] >= Window
    BY <1>3 DEF RateInv
  <2>1. i \in 1..n /\ (i + RateLimit \in 1..n \/ i + RateLimit = n + 1)
    BY <1>1, AdmissionConstants
  <2>2. CASE i + RateLimit \in 1..n
    <3>1. log'[i] = log[i] /\ log'[i + RateLimit] = log[i + RateLimit]
      BY <1>3, <2>1, <2>2
    <3>2. log[i + RateLimit] - log[i] >= Window
      BY <2>1, <2>2 DEF AdmissionInv, RateInv, n
    <3> QED BY <3>1, <3>2
  <2>3. CASE i + RateLimit = n + 1
    <3>1. i <= d
      BY <1>1, <1>6, <2>1, <2>3, AdmissionConstants DEF r
    <3>2. log[i] <= time - Window /\ log[i] \in Nat
      BY <1>1, <1>2, <2>1, <3>1
    <3>3. log'[i] = log[i] /\ log'[i + RateLimit] = time
      BY <1>3, <2>1, <2>3
    <3>4. time - log[i] >= Window
      BY <1>1, <3>2, AdmissionConstants
    <3> QED BY <3>3, <3>4
  <2> QED BY <2>1, <2>2, <2>3
<1> QED BY <1>5, <1>7, <1>8, <1>9 DEF AdmissionInv

\* An answer that ends gives its place back.
LEMMA LeavingKeeps ==
  ASSUME AdmissionInv, NEW q \in Questions, Leave(q)
  PROVE  AdmissionInv'
<1>1. PICK end \in {"answered", "failed", "cancelled"} : To(q, end)
  BY DEF Leave
<1>2. question[q] = "answering" /\ active' = active - 1 /\ UNCHANGED <<time, admitted, log>>
  BY DEF Leave
<1>3. /\ question' \in [Questions -> States]
      /\ \A p \in Questions : question'[p] = IF p = q THEN end ELSE question[p]
  BY <1>1 DEF AdmissionInv, TypeOKM, To, States
<1>4. Answering' = Answering \ {q} /\ q \in Answering
  BY <1>1, <1>2, <1>3 DEF Answering, BeingAnswered
<1>5. IsFiniteSet(Answering') /\ Cardinality(Answering') = Cardinality(Answering) - 1
  BY <1>4, FS_RemoveElement DEF AdmissionInv, PlacesInv
<1>6. Cardinality(Answering') \in Nat
  BY <1>5, FS_CardinalityType
<1>7. active' \in Nat /\ active' = Cardinality(Answering') /\ active' <= Concurrency
  BY <1>2, <1>5, <1>6, AdmissionConstants DEF AdmissionInv, TypeOKM, PlacesInv
<1>8. TypeOKM'
  BY <1>2, <1>3, <1>7 DEF AdmissionInv, TypeOKM
<1>9. LogInv' /\ RateInv'
  BY <1>2 DEF AdmissionInv, LogInv, RateInv
<1> QED BY <1>5, <1>7, <1>8, <1>9 DEF AdmissionInv, PlacesInv

\* Time only makes old admissions older.
LEMMA TickKeeps ==
  ASSUME AdmissionInv, Tick
  PROVE  AdmissionInv'
<1>1. time' = time + 1 /\ UNCHANGED <<active, admitted, question, received, log>>
  BY DEF Tick
<1>2. time \in Nat /\ Len(log) \in Nat /\ \A i \in 1..Len(log) : log[i] \in Nat
  BY LenProperties, ElementOfSeq DEF AdmissionInv, TypeOKM
<1>3. PICK d \in 0..Len(log) : Dropped(log, admitted, d) /\ \A i \in 1..d : log[i] <= time - Window
  BY DEF AdmissionInv, LogInv
<1>4. \A i \in 1..d : i \in 1..Len(log)
  BY <1>2
<1>5. \A i \in 1..d : log[i] <= time' - Window
  BY <1>1, <1>2, <1>3, <1>4, AdmissionConstants
<1>6. \A i \in 1..Len(log) : log[i] <= time'
  BY <1>1, <1>2 DEF AdmissionInv, LogInv
<1>7. Answering' = Answering
  BY <1>1 DEF Answering, BeingAnswered
<1>8. LogInv'
  BY <1>1, <1>3, <1>5, <1>6 DEF AdmissionInv, LogInv, Growing, Dropped
<1> QED BY <1>1, <1>2, <1>7, <1>8 DEF AdmissionInv, TypeOKM, PlacesInv, RateInv

\* A question that is not answered and will not be by this step.
LEMMA PassingKeeps ==
  ASSUME AdmissionInv, NEW q \in Questions, NEW state \in States, question[q] # "answering", state # "answering",
         To(q, state), Outside
  PROVE  AdmissionInv'
<1>1. question' \in [Questions -> States] /\ Answering' = Answering
  BY Passing DEF AdmissionInv
<1> QED BY <1>1 DEF AdmissionInv, TypeOKM, LogInv, PlacesInv, RateInv, Outside, Growing, Dropped

\* Every step keeps the invariant.
LEMMA AdmissionStep ==
  ASSUME AdmissionInv, [NextM]_mvars
  PROVE  AdmissionInv'
<1>1. CASE Tick
  BY <1>1, TickKeeps
<1>2. ASSUME NEW q \in Questions, ReadBody(q) PROVE AdmissionInv'
  <2>1. PICK size \in 0..MaxBody + 1, more \in BOOLEAN :
          IF received[q] + size > MaxBody THEN To(q, "too large")
          ELSE IF more THEN UNCHANGED question ELSE To(q, "read")
    BY <1>2 DEF ReadBody
  <2>2. question[q] = "reading" /\ Outside
    BY <1>2 DEF ReadBody
  <2>3. CASE UNCHANGED question
    BY <2>2, <2>3 DEF AdmissionInv, TypeOKM, LogInv, PlacesInv, RateInv, Outside, Growing, Dropped, Answering,
       BeingAnswered
  <2>4. CASE To(q, "too large")
    BY <2>2, <2>4, PassingKeeps DEF States
  <2>5. CASE To(q, "read")
    BY <2>2, <2>5, PassingKeeps DEF States
  <2> QED BY <2>1, <2>3, <2>4, <2>5
<1>3. ASSUME NEW q \in Questions, Disconnect(q) PROVE AdmissionInv'
  BY <1>3, PassingKeeps DEF Disconnect, States
<1>4. ASSUME NEW q \in Questions, CheckIndex(q) PROVE AdmissionInv'
  <2>1. To(q, "checked") \/ To(q, "unavailable")
    BY <1>4 DEF CheckIndex
  <2>2. question[q] = "read" /\ Outside
    BY <1>4 DEF CheckIndex
  <2> QED BY <2>1, <2>2, PassingKeeps DEF States
<1>5. ASSUME NEW q \in Questions, Enter(q) PROVE AdmissionInv'
  <2>1. question[q] = "checked" /\ UNCHANGED time
    BY <1>5 DEF Enter
  <2>2. CASE active >= Concurrency
    BY <1>5, <2>1, <2>2, RefusedKeeps DEF Enter
  <2>3. CASE ~(active >= Concurrency) /\ Len(Recent(admitted)) >= RateLimit
    BY <1>5, <2>1, <2>3, RefusedKeeps DEF Enter
  <2>4. CASE ~(active >= Concurrency) /\ ~(Len(Recent(admitted)) >= RateLimit)
    <3>1. active \in Nat /\ Len(Recent(admitted)) \in Nat
      BY DroppingKeeps, LenProperties DEF AdmissionInv, TypeOKM
    <3>2. active < Concurrency /\ Len(Recent(admitted)) < RateLimit
      BY <2>4, <3>1, AdmissionConstants
    <3> QED BY <1>5, <2>1, <2>4, <3>2, AdmittedKeeps DEF Enter
  <2> QED BY <2>2, <2>3, <2>4
<1>6. ASSUME NEW q \in Questions, Leave(q) PROVE AdmissionInv'
  BY <1>6, LeavingKeeps
<1>7. CASE UNCHANGED mvars
  BY <1>7 DEF AdmissionInv, TypeOKM, LogInv, PlacesInv, RateInv, mvars, Growing, Dropped, Answering, BeingAnswered
<1> QED BY <1>1, <1>2, <1>3, <1>4, <1>5, <1>6, <1>7 DEF NextM

\* The deque of the last admissions stands for all of them: what it dropped is too old to count,
\* and the places taken are those of the questions being answered.
THEOREM AdmissionInvariant == SpecM => []AdmissionInv
<1>1. InitM => AdmissionInv
  BY InitialM
<1>2. AdmissionInv /\ [NextM]_mvars => AdmissionInv'
  BY AdmissionStep
<1> QED BY <1>1, <1>2, PTL DEF SpecM

-----------------------------------------------------------------------------

\* The invariant says that the limits are kept.
LEMMA InvKeepsLimits == AdmissionInv => WithinLimits
<1> SUFFICES ASSUME AdmissionInv PROVE WithinLimits
  OBVIOUS
<1>1. DOMAIN log = 1..Len(log)
  BY LenProperties DEF AdmissionInv, TypeOKM
<1> QED BY <1>1 DEF AdmissionInv, PlacesInv, RateInv, WithinLimits, Answering

\* A full deque is what counts as recent.
LEMMA FullDeque ==
  ASSUME AdmissionInv, Len(Recent(admitted)) >= RateLimit
  PROVE  Cardinality({i \in DOMAIN log : log[i] > time - Window}) = RateLimit
<1> DEFINE n == Len(log)
           r == Recent(admitted)
           T == {i \in DOMAIN log : log[i] > time - Window}
<1>1. /\ n \in Nat /\ Len(r) \in Nat /\ Len(admitted) \in Nat /\ time \in Nat /\ DOMAIN log = 1..n
      /\ \A i \in 1..n : log[i] \in Nat
  BY LenProperties, ElementOfSeq, DroppingKeeps DEF AdmissionInv, TypeOKM
<1>2. PICK d \in 0..n : Dropped(log, r, d) /\ \A i \in 1..n : log[i] <= time - Window <=> i <= d
  BY DroppingKeeps
<1>3. Len(r) = RateLimit
  BY <1>1, DroppingKeeps, AdmissionConstants DEF AdmissionInv, LogInv
<1>4. n - d = RateLimit
  BY <1>1, <1>2, <1>3 DEF Dropped
<1> HIDE DEF n, r
<1>5. T = d + 1..n
  <2>1. ASSUME NEW i \in 1..n PROVE log[i] > time - Window <=> d + 1 <= i
    <3>1. log[i] > time - Window <=> ~(log[i] <= time - Window)
      BY <1>1, AdmissionConstants
    <3>2. d + 1 <= i <=> ~(i <= d)
      BY <1>1
    <3> QED BY <1>2, <3>1, <3>2
  <2>2. \A i : i \in d + 1..n <=> i \in 1..n /\ d + 1 <= i
    BY <1>1
  <2> QED BY <1>1, <2>1, <2>2
<1> HIDE DEF T
<1>6. Cardinality(T) = RateLimit
  <2>1. d + 1 \in Int /\ n \in Int
    BY <1>1
  <2>2. Cardinality(d + 1..n) = IF d + 1 > n THEN 0 ELSE n - (d + 1) + 1
    BY <2>1, FS_Interval
  <2> QED BY <1>1, <1>4, <1>5, <2>2, AdmissionConstants
<1> QED BY <1>6 DEF T

\* Only a question that enters is refused, and for the reason it is told.
LEMMA RefusalsHaveAReason ==
  ASSUME AdmissionInv, [NextM]_mvars
  PROVE  RefusedForAReason
<1> SUFFICES ASSUME NEW p \in Questions, NEW state \in {"busy", "limited"}, Turned(p, state)
             PROVE  /\ state = "busy" => Cardinality(Answering) = Concurrency
                    /\ state = "limited" => Cardinality({i \in DOMAIN log : log[i] > time - Window}) = RateLimit
  BY DEF RefusedForAReason, Answering
<1>0. question[p] # state /\ question'[p] = state /\ question \in [Questions -> States]
  BY DEF Turned, AdmissionInv, TypeOKM
<1>1. \A q \in Questions : \A to : To(q, to) => question'[p] = IF p = q THEN to ELSE question[p]
  BY <1>0 DEF To
<1>2. PICK q \in Questions : Enter(q)
  <2>1. ~Tick /\ ~UNCHANGED mvars
    BY <1>0 DEF Tick, mvars
  <2>2. \A q \in Questions : ~ReadBody(q) /\ ~Disconnect(q)
    <3>1. \A q \in Questions : ReadBody(q) => To(q, "too large") \/ To(q, "read") \/ UNCHANGED question
      BY DEF ReadBody
    <3>2. \A q \in Questions : Disconnect(q) => To(q, "gone")
      BY DEF Disconnect
    <3>3. ASSUME NEW q \in Questions, NEW to, To(q, to), state # to PROVE FALSE
      BY <1>0, <1>1, <3>3
    <3>4. ~UNCHANGED question
      BY <1>0
    <3> QED BY <3>1, <3>2, <3>3, <3>4
  <2>3. \A q \in Questions : ~CheckIndex(q) /\ ~Leave(q)
    BY <1>0, <1>1 DEF CheckIndex, Leave
  <2> QED BY <2>1, <2>2, <2>3 DEF NextM
<1>3. CASE active >= Concurrency
  <2>1. To(q, "busy")
    BY <1>2, <1>3 DEF Enter
  <2>2. state = "busy"
    BY <1>0, <1>1, <2>1
  <2>3. Cardinality(Answering) = Concurrency
    BY <1>3, AdmissionConstants DEF AdmissionInv, PlacesInv, TypeOKM
  <2> QED BY <2>2, <2>3
<1>4. CASE ~(active >= Concurrency) /\ Len(Recent(admitted)) >= RateLimit
  <2>1. To(q, "limited")
    BY <1>2, <1>4 DEF Enter
  <2>2. state = "limited"
    BY <1>0, <1>1, <2>1
  <2> QED BY <1>4, <2>2, FullDeque
<1>5. CASE ~(active >= Concurrency) /\ ~(Len(Recent(admitted)) >= RateLimit)
  <2>1. To(q, "answering")
    BY <1>2, <1>5 DEF Enter
  <2> QED BY <1>0, <1>1, <2>1
<1> QED BY <1>3, <1>4, <1>5

\* The public demo (DemoChatLimits.execution) admits what its limits allow and nothing
\* else, and refuses only for the reason it gives, for any number of requests and limits.
THEOREM DemoAdmitsWithinItsLimits == SpecM => AdmissionIsExact
<1>1. AdmissionInv /\ [NextM]_mvars => AdmissionInv'
  BY AdmissionStep
<1>2. AdmissionInv' => WithinLimits'
  <2>1. AdmissionInv => WithinLimits
    BY InvKeepsLimits
  <2> QED BY <2>1, PTL
<1>3. AdmissionInv /\ [NextM]_mvars => RefusedForAReason
  BY RefusalsHaveAReason
<1>4. AdmissionInv /\ AdmissionInv' /\ [NextM]_mvars => [WithinLimits' /\ RefusedForAReason]_mvars
  BY <1>2, <1>3
<1> QED BY <1>1, <1>4, AdmissionInvariant, PTL DEF SpecM, AdmissionIsExact

=============================================================================
