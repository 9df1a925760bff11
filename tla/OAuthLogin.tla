----------------------------- MODULE OAuthLogin -----------------------------
(***************************************************************************)
(* Connecting a Google account (services/google_oauth_service.py,          *)
(* api/auth.py): a pending state is stored when the user is sent to        *)
(* Google, whose redirect calls back with a code.  A callback is one       *)
(* database transaction; the same address may be called twice, and         *)
(* callbacks overlap wherever they wait for the database.                  *)
(***************************************************************************)
EXTENDS Naturals, FiniteSets

CONSTANTS
  Logins,     \* logins started, each with a state of its own
  Callbacks,  \* requests to the callback
  MaxCodes,   \* bound on the codes Google gives for one state
  MaxExpired  \* bound on the states that expire

VARIABLES
  pending,    \* the states stored, as committed
  expired,    \* those past expires_at
  codes,      \* how many codes Google has given for each state
  spent,      \* codes exchanged at Google
  connected,  \* logins whose tokens were stored, as committed
  callback    \* each callback: where it is, its login and code, and the rows it has deleted

lvars == <<pending, expired, codes, spent, connected, callback>>

NoLogin == "none"

Unused == [at |-> "start", login |-> NoLogin, code |-> 0, deleted |-> {}]

InitL ==
  /\ pending = {} /\ expired = {} /\ codes = [l \in Logins |-> 0] /\ spent = {} /\ connected = {}
  /\ callback = [k \in Callbacks |-> Unused]

Become(k, at) == callback' = [callback EXCEPT ![k].at = at]

\* create_authorization_url, with its commit.
StartLogin(l) ==
  /\ l \notin pending \cup expired \cup connected
  /\ pending' = pending \cup {l}
  /\ UNCHANGED <<expired, codes, spent, connected, callback>>

\* The user agrees at the address given, once more after going back there.
Consent(l) ==
  /\ l \in pending /\ codes[l] < MaxCodes
  /\ codes' = [codes EXCEPT ![l] = @ + 1]
  /\ UNCHANGED <<pending, expired, spent, connected, callback>>

Expire(l) ==
  /\ l \in pending \ expired /\ Cardinality(expired) < MaxExpired
  /\ expired' = expired \cup {l}
  /\ UNCHANGED <<pending, codes, spent, connected, callback>>

\* The rollback of a session that is closed without a commit.
Rollback(k) == callback' = [callback EXCEPT ![k].at = "failed", ![k].deleted = {}]

\* _pop_code_verifier: the row is read; without one the callback fails.
FindState(k) ==
  /\ callback[k].at = "start"
  /\ \E l \in Logins : \E code \in 1..codes[l] :
       callback' = [callback EXCEPT ![k].at = IF l \in pending THEN "found" ELSE "failed",
                                    ![k].login = l, ![k].code = code]
  /\ UNCHANGED <<pending, expired, codes, spent, connected>>

\* Rows that other transactions have deleted and not committed: a delete waits for them.
Locked(k) == UNION {callback[other].deleted : other \in Callbacks \ {k}}

\* Mutant of DeleteState: the delete is committed at once.
DeleteStateCommitted(k) ==
  /\ callback[k].at = "found" /\ callback[k].login \notin Locked(k)
  /\ pending' = pending \ {callback[k].login}
  /\ IF callback[k].login \in expired THEN Rollback(k) ELSE Become(k, "popped")
  /\ UNCHANGED <<expired, codes, spent, connected>>

\* The delete and its flush, then the test of expires_at.  A row that another callback
\* has deleted meanwhile is no error.
DeleteState(k) ==
  LET l == callback[k].login
  IN  /\ callback[k].at = "found" /\ l \notin Locked(k)
      /\ IF l \in expired
         THEN Rollback(k)
         ELSE callback' = [callback EXCEPT ![k].at = "popped", ![k].deleted = {l} \cap pending]
      /\ UNCHANGED <<pending, expired, codes, spent, connected>>

\* Google takes a code once; the exchange or the profile request after it may fail.
Exchange(k) ==
  LET code == <<callback[k].login, callback[k].code>>
  IN  /\ callback[k].at = "popped"
      /\ spent' = spent \cup {code}
      /\ IF code \in spent THEN Rollback(k) ELSE Become(k, "exchanged") \/ Rollback(k)
      /\ UNCHANGED <<pending, expired, codes, connected>>

ExchangeFails(k) ==
  /\ callback[k].at = "popped" /\ Rollback(k)
  /\ UNCHANGED <<pending, expired, codes, spent, connected>>

\* User and tokens are written, then _cleanup_expired_pending_states deletes.
CleanUp(k) ==
  /\ callback[k].at = "exchanged" /\ pending \cap expired \cap Locked(k) = {}
  /\ callback' = [callback EXCEPT ![k].at = "cleaned", ![k].deleted = @ \cup (pending \cap expired)]
  /\ UNCHANGED <<pending, expired, codes, spent, connected>>

Commit(k) ==
  /\ callback[k].at = "cleaned"
  /\ pending' = pending \ callback[k].deleted
  /\ connected' = connected \cup {callback[k].login}
  /\ callback' = [callback EXCEPT ![k].at = "connected", ![k].deleted = {}]
  /\ UNCHANGED <<expired, codes, spent>>

\* The database gives up (a deadlock of two cleanups, a user inserted twice), or the
\* server dies.
DatabaseFails(k) ==
  /\ callback[k].at \in {"found", "popped", "exchanged", "cleaned"} /\ Rollback(k)
  /\ UNCHANGED <<pending, expired, codes, spent, connected>>

NextL ==
  \/ \E l \in Logins : StartLogin(l) \/ Consent(l) \/ Expire(l)
  \/ \E k \in Callbacks :
       FindState(k) \/ DeleteState(k) \/ Exchange(k) \/ ExchangeFails(k) \/ CleanUp(k) \/ Commit(k) \/ DatabaseFails(k)

SpecL == InitL /\ [][NextL]_lvars

-----------------------------------------------------------------------------
(* Properties. *)

\* A login that fails before its tokens are stored can be tried again: its state is gone
\* only when it has expired or the account is connected, whatever other callbacks of the
\* same or another login do meanwhile.
FailedLoginsKeepTheirState ==
  \A l \in Logins : codes[l] > 0 /\ l \notin pending => l \in expired \cup connected

\* A callback that comes after its login was connected finds no state.
LateCallbacksFail ==
  \A k \in Callbacks :
    callback[k].at = "start" /\ callback'[k].at # "start" /\ callback'[k].login \in connected
      => callback'[k].at = "failed"

\* One that overlaps with that commit needs a code of its own to connect as well.
CodesConnectOnce ==
  \A k, other \in Callbacks :
    k # other /\ callback[k].at = "connected" /\ callback[other].at = "connected"
      => <<callback[k].login, callback[k].code>> # <<callback[other].login, callback[other].code>>

\* A pending state lasts exactly as long as its login may still succeed.
StatesLastAsLongAsLogins ==
  [][FailedLoginsKeepTheirState' /\ LateCallbacksFail /\ CodesConnectOnce']_lvars

=============================================================================
