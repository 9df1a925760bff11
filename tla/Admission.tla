------------------------------ MODULE Admission ------------------------------
(***************************************************************************)
(* The admission of questions in the public demo (core/public_safety.py,   *)
(* api/chat.py, api/dependencies.py): a body is read up to a limit, the    *)
(* sample index is checked, and a question is admitted if few enough are   *)
(* being answered and few enough were admitted within the window.          *)
(***************************************************************************)
EXTENDS Integers, Sequences, FiniteSets, SequencesExt

CONSTANTS
  Questions,    \* requests to /chat, each made once
  Concurrency,  \* demo_chat_concurrency
  RateLimit,    \* demo_chat_rate_limit
  Window,       \* demo_chat_rate_window_seconds
  MaxBody,      \* demo_chat_max_body_bytes
  MaxTime       \* bound on the clock

ASSUME AdmissionAssumption ==
  Concurrency \in Nat \ {0} /\ RateLimit \in Nat \ {0} /\ Window \in Nat \ {0} /\ MaxTime \in Nat

VARIABLES
  time,      \* the monotonic clock
  active,    \* DemoChatLimits.active
  admitted,  \* DemoChatLimits.admitted
  question,  \* where each request is
  received,  \* the bytes read of each
  log        \* the times of all admissions so far

mvars == <<time, active, admitted, question, received, log>>

InitM ==
  /\ time = 0 /\ active = 0 /\ admitted = <<>> /\ log = <<>>
  /\ question = [q \in Questions |-> "reading"] /\ received = [q \in Questions |-> 0]

Tick == time < MaxTime /\ time' = time + 1 /\ UNCHANGED <<active, admitted, question, received, log>>

To(q, state) == question' = [question EXCEPT ![q] = state]

Outside == UNCHANGED <<time, active, admitted, log>>

\* A part of the body, which may be the last one.
ReadBody(q) ==
  /\ question[q] = "reading"
  /\ \E size \in 0..MaxBody + 1, more \in BOOLEAN :
       IF received[q] + size > MaxBody
       THEN To(q, "too large") /\ UNCHANGED received
       ELSE /\ size > 0 \/ ~more
            /\ received' = [received EXCEPT ![q] = @ + size]
            /\ IF more THEN UNCHANGED question ELSE To(q, "read")
  /\ Outside

Disconnect(q) == question[q] = "reading" /\ To(q, "gone") /\ UNCHANGED received /\ Outside

\* require_demo_index, before the route; the database is asked.
CheckIndex(q) ==
  /\ question[q] = "read"
  /\ \E ready \in BOOLEAN : To(q, IF ready THEN "checked" ELSE "unavailable")
  /\ UNCHANGED received /\ Outside

\* The times without the first of them, as far as they are Old.
Without(times, Old(_)) ==
  SubSeq(times, 1 + Cardinality({i \in DOMAIN times : \A j \in 1..i : Old(times[j])}), Len(times))

\* Mutant of Recent: an admission exactly a window ago still counts.
RecentInclusive(times) == Without(times, LAMBDA at : at < time - Window)

\* The while loop that takes old times off the head of the deque.
Recent(times) == Without(times, LAMBDA at : at <= time - Window)

\* DemoChatLimits.execution up to its yield: without an await, hence one step.
Enter(q) ==
  /\ question[q] = "checked"
  /\ IF active >= Concurrency
     THEN To(q, "busy") /\ admitted' = Recent(admitted) /\ UNCHANGED <<active, log>>
     ELSE IF Len(Recent(admitted)) >= RateLimit
     THEN To(q, "limited") /\ admitted' = Recent(admitted) /\ UNCHANGED <<active, log>>
     ELSE /\ To(q, "answering")
          /\ admitted' = Append(Recent(admitted), time) /\ log' = Append(log, time)
          /\ active' = active + 1
  /\ UNCHANGED <<time, received>>

\* Mutant of Leave: the place is given back by an answer only.
LeaveAnswered(q) ==
  /\ question[q] = "answering"
  /\ \E end \in {"answered", "failed", "cancelled"} :
       To(q, end) /\ active' = IF end = "answered" THEN active - 1 ELSE active
  /\ UNCHANGED <<time, admitted, received, log>>

\* An answer, an exception or a cancelled request: the finally clause.
Leave(q) ==
  /\ question[q] = "answering"
  /\ \E end \in {"answered", "failed", "cancelled"} : To(q, end)
  /\ active' = active - 1
  /\ UNCHANGED <<time, admitted, received, log>>

NextM ==
  \/ Tick
  \/ \E q \in Questions : ReadBody(q) \/ Disconnect(q) \/ CheckIndex(q) \/ Enter(q) \/ Leave(q)

SpecM == InitM /\ [][NextM]_mvars

-----------------------------------------------------------------------------
(* Properties. *)

BeingAnswered(q) == question[q] = "answering"

\* Never more than Concurrency answers at once, nor more than RateLimit admissions in any
\* window, wherever it starts.
WithinLimits ==
  /\ active = Cardinality({q \in Questions : BeingAnswered(q)}) /\ active <= Concurrency
  /\ \A i \in DOMAIN log : i + RateLimit \in DOMAIN log => log[i + RateLimit] - log[i] >= Window

Turned(q, state) == question[q] # state /\ question'[q] = state

\* No visitor is turned away without need: "busy" only while all places are taken, however
\* the answers before ended, and "limited" only after RateLimit admissions within the window.
RefusedForAReason ==
  \A q \in Questions :
    /\ Turned(q, "busy") => Cardinality({p \in Questions : BeingAnswered(p)}) = Concurrency
    /\ Turned(q, "limited") => Cardinality({i \in DOMAIN log : log[i] > time - Window}) = RateLimit

\* The public demo admits what its limits allow and nothing else.
AdmissionIsExact == [][WithinLimits' /\ RefusedForAReason]_mvars

=============================================================================
