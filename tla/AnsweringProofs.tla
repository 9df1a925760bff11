--------------------------- MODULE AnsweringProofs ---------------------------
(***************************************************************************)
(* What an answered question promises, for any number of files, changes of *)
(* the index and rewrites of the query.                                    *)
(***************************************************************************)
EXTENDS Answering, SequenceTheorems, TLAPS

Generations == 1..MaxGen
Passages == Files \X Generations
Statuses == {"INDEXED", "PREPARING", "SKIPPED"}
Early    == {"start", "followup", "user", "history", "chitchat", "summary", "inventory", "target"}
Settling == {"persist", "returned", "raised"}
Doings   == {"nothing", "search", "load", "done", "failed"}
Answers  == {None, "recall", "direct", "inventory", "summary", "no_evidence", "not_found", "not_indexed", "found"}
Pcs      == Early \cup Settling \cup
              {"inventory_text", "inventory_answer", "summary_rows", "summary_answer", "resolve", "grounded",
               "retrieve", "rewrite", "abstain", "generate"}
Retriever == [does : Doings, found : SUBSET Passages]

Req == [pc : Pcs, question : {"asked", "rewritten"}, route : Routes \cup {None},
        path : Routes \cup {None, "langgraph", "hybrid", "vector"}, files : SUBSET (Files \X Statuses),
        todo : SUBSET Files, src : [Sources -> Retriever], rewrites : Nat, passages : SUBSET Passages,
        answer : Answers, cites : SUBSET Passages]

TypeOKA ==
  /\ status \in [Files -> Statuses] /\ rows \in [Files -> Generations]
  /\ r \in Req
  /\ r.pc \in {"followup", "user"} => r.route \in Routes
  /\ r.pc \notin {"retrieve", "raised"} => \A s \in Sources : r.src[s].does \in {"nothing", "done"}

WasIndexed(f) == \E g \in 0..MaxGen : <<f, "INDEXED", g>> \in seen
Served(p)     == <<p[1], "INDEXED", p[2]>> \in seen

\* What is true of the index is on record.  Everything found has been eligible once, and
\* so has what an answer is generated from; the files of a summary have been INDEXED.
ServedInv ==
  /\ \A f \in Files : <<f, status[f], rows[f]>> \in seen
  /\ \A s \in Sources : r.src[s].does # "load" => \A p \in r.src[s].found : Served(p)
  /\ r.pc \in Early => r.files = {} /\ r.passages = {}
  /\ r.pc \notin Settling => r.answer = None /\ r.cites = {}
  /\ r.pc \in {"summary", "summary_rows", "summary_answer"} => r.path = "summary"
  /\ r.pc \in {"target", "resolve", "grounded", "retrieve", "rewrite", "abstain", "generate"} => r.path # "summary"
  /\ r.pc \in {"summary_rows", "summary_answer"} =>
       /\ \A f \in r.todo : WasIndexed(f)
       /\ \A p \in r.passages : WasIndexed(p[1])
  /\ r.pc = "generate" => \A p \in r.passages : Served(p)
  /\ r.pc = "resolve" =>
       \A e \in r.files : e[2] # "SKIPPED" /\ \E g \in Generations : <<e[1], e[2], g>> \in seen
  /\ CitesWereServed
  /\ NotIndexedIsTrue

AnswerInv == TypeOKA /\ ServedInv

LEMMA Generation == MaxGen \in Nat /\ 1 \in Generations /\ Generations \subseteq 0..MaxGen /\ Generations \subseteq Nat
BY AnsweringAssumption DEF Generations

LEMMA RequestType == Request \in Req /\ \A s \in Sources : Idle[s] = [does |-> "nothing", found |-> {}]
<1>1. Idle \in [Sources -> Retriever] /\ \A s \in Sources : Idle[s] = [does |-> "nothing", found |-> {}]
  BY DEF Idle, Retriever, Doings
<1> QED BY <1>1 DEF Request, Req, Pcs, Early, Answers, None

LEMMA InitialAnswer == InitA => AnswerInv
<1> SUFFICES ASSUME InitA PROVE AnswerInv
  OBVIOUS
<1>1. r = Request /\ r.pc = "start" /\ r.src = Idle /\ r.files = {} /\ r.passages = {} /\ r.answer = None /\ r.cites = {}
  BY DEF InitA, Request
<1>2. TypeOKA
  BY <1>1, Generation, RequestType DEF InitA, TypeOKA, Statuses
<1>3. \A f \in Files : <<f, status[f], rows[f]>> \in seen
  BY DEF InitA
<1>4. CitesWereServed /\ NotIndexedIsTrue
  BY <1>1 DEF CitesWereServed, NotIndexedIsTrue, None
<1>5. \A s \in Sources : r.src[s].found = {}
  BY <1>1, RequestType
<1> QED BY <1>1, <1>2, <1>3, <1>4, <1>5 DEF AnswerInv, ServedInv, Early, Settling

-----------------------------------------------------------------------------
(* The index. *)

\* What has been seen stays seen.
LEMMA SeenKeeps ==
  ASSUME AnswerInv, r' = r, status' \in [Files -> Statuses], rows' \in [Files -> Generations], seen \subseteq seen',
         \A f \in Files : <<f, status'[f], rows'[f]>> \in seen'
  PROVE  AnswerInv'
<1>1. TypeOKA'
  BY DEF AnswerInv, TypeOKA
<1>2. /\ \A p : Served(p) => Served(p)'
      /\ \A f : WasIndexed(f) => WasIndexed(f)'
  BY DEF Served, WasIndexed
<1>3. CitesWereServed'
  BY DEF AnswerInv, ServedInv, CitesWereServed
<1>4. NotIndexedIsTrue'
  BY DEF AnswerInv, ServedInv, NotIndexedIsTrue
<1>5. (r.pc = "resolve" =>
         \A e \in r.files : e[2] # "SKIPPED" /\ \E g \in Generations : <<e[1], e[2], g>> \in seen)'
  BY DEF AnswerInv, ServedInv
<1> QED BY <1>1, <1>2, <1>3, <1>4, <1>5 DEF AnswerInv, ServedInv

LEMMA IndexKeeps == ASSUME AnswerInv, IndexChanges PROVE AnswerInv'
<1>1. PICK f \in Files, s \in Statuses, g \in Generations : Becomes(f, s, g)
  <2>1. PICK f \in Files : Withdraw(f) \/ Trash(f) \/ Restore(f) \/ Rechunk(f) \/ Publish(f)
    BY DEF IndexChanges
  <2>2. rows[f] \in Generations /\ (rows[f] < MaxGen => rows[f] + 1 \in Generations)
    BY Generation DEF AnswerInv, TypeOKA, Generations
  <2> QED BY <2>1, <2>2 DEF Withdraw, Trash, Restore, Rechunk, Publish, Statuses
<1>2. /\ status' = [status EXCEPT ![f] = s] /\ rows' = [rows EXCEPT ![f] = g]
      /\ seen' = seen \cup {<<f, s, g>>} /\ r' = r
  BY <1>1 DEF Becomes
<1>3. status \in [Files -> Statuses] /\ rows \in [Files -> Generations]
      /\ \A x \in Files : <<x, status[x], rows[x]>> \in seen
  BY DEF AnswerInv, TypeOKA, ServedInv
<1>4. \A x \in Files : <<x, status'[x], rows'[x]>> \in seen'
  BY <1>2, <1>3
<1> QED BY <1>2, <1>3, <1>4, SeenKeeps

-----------------------------------------------------------------------------
(* The request.  Steps that raise, and steps that answer. *)

LEMMA RaisedKeeps ==
  ASSUME AnswerInv, UNCHANGED index, r' \in Req, r'.pc = "raised",
         r'.path = r.path, r'.files = r.files, r'.answer = r.answer, r'.cites = r.cites,
         \A s \in Sources : r'.src[s] = r.src[s] \/ r'.src[s].found = {}
  PROVE  AnswerInv'
<1>1. TypeOKA'
  BY DEF AnswerInv, TypeOKA, index
<1>2. CitesWereServed' /\ NotIndexedIsTrue'
  BY DEF AnswerInv, ServedInv, CitesWereServed, NotIndexedIsTrue, index
<1>3. (\A s \in Sources : r.src[s].does # "load" => \A p \in r.src[s].found : Served(p))'
  BY DEF AnswerInv, ServedInv, Served, index
<1>4. (\A f \in Files : <<f, status[f], rows[f]>> \in seen)'
  BY DEF AnswerInv, ServedInv, index
<1> QED BY <1>1, <1>2, <1>3, <1>4 DEF AnswerInv, ServedInv, Settling, Early

LEMMA GoType ==
  ASSUME AnswerInv, NEW pc \in Pcs, Go(pc)
  PROVE  /\ r' \in Req /\ r'.pc = pc /\ r'.question = r.question /\ r'.route = r.route /\ r'.path = r.path
         /\ r'.files = r.files /\ r'.todo = r.todo /\ r'.src = r.src /\ r'.rewrites = r.rewrites
         /\ r'.passages = r.passages /\ r'.answer = r.answer /\ r'.cites = r.cites
BY DEF Go, Req, AnswerInv, TypeOKA

LEMMA RaiseKeeps == ASSUME AnswerInv, NEW tr, RaiseFrom(tr) PROVE AnswerInv'
<1>1. Go("raised") /\ UNCHANGED index /\ "raised" \in Pcs
  BY DEF RaiseFrom, Pcs, Settling
<1> QED BY <1>1, GoType, RaisedKeeps

LEMMA AnswerKeeps ==
  ASSUME AnswerInv, NEW answer \in Answers, NEW cites \in SUBSET Passages, NEW tr, Answer(answer, cites, tr),
         r.pc \notin {"retrieve", "raised"},
         IF r.path = "summary" THEN \A p \in cites : WasIndexed(p[1]) ELSE \A p \in cites : Served(p),
         answer = "not_indexed" =>
           \A e \in r.files : /\ \E x \in seen : x[1] = e[1] /\ x[2] # "INDEXED"
                              /\ \E x \in seen : x[1] = e[1] /\ x[2] # "SKIPPED"
  PROVE  AnswerInv'
<1>1. r \in Req /\ r' = [r EXCEPT !.pc = "persist", !.answer = answer, !.cites = cites] /\ UNCHANGED index
  BY DEF AnswerInv, TypeOKA, Answer, Quiet
<1>2. /\ r' \in Req /\ r'.pc = "persist" /\ r'.path = r.path /\ r'.files = r.files /\ r'.src = r.src
      /\ r'.answer = answer /\ r'.cites = cites
  BY <1>1 DEF Req, Pcs, Settling
<1>3. TypeOKA'
  BY <1>1, <1>2 DEF AnswerInv, TypeOKA, index
<1>4. CitesWereServed'
  BY <1>1, <1>2 DEF CitesWereServed, Served, WasIndexed, index
<1>5. NotIndexedIsTrue'
  BY <1>1, <1>2 DEF NotIndexedIsTrue, index
<1>6. (\A s \in Sources : r.src[s].does # "load" => \A p \in r.src[s].found : Served(p))'
  BY <1>1, <1>2 DEF AnswerInv, ServedInv, Served, index
<1>7. (\A f \in Files : <<f, status[f], rows[f]>> \in seen)'
  BY <1>1 DEF AnswerInv, ServedInv, index
<1> QED BY <1>2, <1>3, <1>4, <1>5, <1>6, <1>7 DEF AnswerInv, ServedInv, Settling, Early

LEMMA CompleteKeeps ==
  ASSUME AnswerInv, NEW answer \in Answers \ {"not_indexed"}, NEW citable \in SUBSET Passages, Complete(answer, citable),
         r.pc \notin {"retrieve", "raised"},
         IF r.path = "summary" THEN \A p \in citable : WasIndexed(p[1]) ELSE \A p \in citable : Served(p)
  PROVE  AnswerInv'
<1> DEFINE tr == SetStage(t, "generation")
<1>1. CASE RaiseFrom(tr)
  BY <1>1, RaiseKeeps
<1>2. CASE \E cites \in SUBSET citable : Answer(answer, cites, RecordFinal(tr, answer))
  <2>1. PICK cites \in SUBSET citable : Answer(answer, cites, RecordFinal(tr, answer))
    BY <1>2
  <2> QED BY <2>1, AnswerKeeps
<1> QED BY <1>1, <1>2 DEF Complete

\* A step that asks about the index, goes on and answers nothing.
LEMMA PlainKeeps ==
  ASSUME AnswerInv, UNCHANGED index, r' \in Req, r'.pc \notin Settling, r'.pc \notin {"resolve", "generate", "retrieve"},
         r'.pc \in {"followup", "user"} => r'.route \in Routes,
         r'.pc \in Early => r'.files = {} /\ r'.passages = {},
         r'.pc \in {"summary", "summary_rows", "summary_answer"} => r'.path = "summary",
         r'.pc \in {"target", "grounded", "rewrite", "abstain"} => r'.path # "summary",
         r'.pc \in {"summary_rows", "summary_answer"} =>
           /\ \A f \in r'.todo : WasIndexed(f)
           /\ \A p \in r'.passages : WasIndexed(p[1]),
         r'.src = r.src, \A s \in Sources : r.src[s].does \in {"nothing", "done"},
         r'.answer = None, r'.cites = {}
  PROVE  AnswerInv'
<1>1. TypeOKA'
  BY DEF AnswerInv, TypeOKA, index, Settling
<1>2. CitesWereServed' /\ NotIndexedIsTrue'
  BY DEF CitesWereServed, NotIndexedIsTrue, None
<1>3. (\A s \in Sources : r.src[s].does # "load" => \A p \in r.src[s].found : Served(p))'
  BY DEF AnswerInv, ServedInv, Served, index
<1>4. (\A f \in Files : <<f, status[f], rows[f]>> \in seen)'
  BY DEF AnswerInv, ServedInv, index
<1>5. \A f : WasIndexed(f)' <=> WasIndexed(f)
  BY DEF WasIndexed, index
<1> QED BY <1>1, <1>2, <1>3, <1>4, <1>5 DEF AnswerInv, ServedInv

\* The same for a step that looks up a named file, and for one that has something to
\* generate from.
LEMMA ResolveTypeKeeps ==
  ASSUME AnswerInv, UNCHANGED index, r' \in Req, r'.pc = "resolve", r'.path # "summary",
         \A e \in r'.files : e[2] # "SKIPPED" /\ \E g \in Generations : <<e[1], e[2], g>> \in seen,
         r'.src = r.src, \A s \in Sources : r.src[s].does \in {"nothing", "done"},
         r'.answer = None, r'.cites = {}
  PROVE  AnswerInv'
<1>1. TypeOKA'
  BY DEF AnswerInv, TypeOKA, index
<1>2. CitesWereServed' /\ NotIndexedIsTrue'
  BY DEF CitesWereServed, NotIndexedIsTrue, None
<1>3. (\A s \in Sources : r.src[s].does # "load" => \A p \in r.src[s].found : Served(p))'
  BY DEF AnswerInv, ServedInv, Served, index
<1>4. (\A f \in Files : <<f, status[f], rows[f]>> \in seen)'
  BY DEF AnswerInv, ServedInv, index
<1>5. (\A e \in r.files : e[2] # "SKIPPED" /\ \E g \in Generations : <<e[1], e[2], g>> \in seen)'
  BY DEF index
<1> QED BY <1>1, <1>2, <1>3, <1>4, <1>5 DEF AnswerInv, ServedInv, Early, Settling

LEMMA GenerateTypeKeeps ==
  ASSUME AnswerInv, UNCHANGED index, r' \in Req, r'.pc = "generate", r'.path # "summary",
         \A p \in r'.passages : Served(p),
         r'.src = r.src, \A s \in Sources : r.src[s].does \in {"nothing", "done"},
         r'.answer = None, r'.cites = {}
  PROVE  AnswerInv'
<1>1. TypeOKA'
  BY DEF AnswerInv, TypeOKA, index
<1>2. CitesWereServed' /\ NotIndexedIsTrue'
  BY DEF CitesWereServed, NotIndexedIsTrue, None
<1>3. (\A s \in Sources : r.src[s].does # "load" => \A p \in r.src[s].found : Served(p))'
  BY DEF AnswerInv, ServedInv, Served, index
<1>4. (\A f \in Files : <<f, status[f], rows[f]>> \in seen)' /\ (\A p \in r.passages : Served(p))'
  BY DEF AnswerInv, ServedInv, Served, index
<1> QED BY <1>1, <1>2, <1>3, <1>4 DEF AnswerInv, ServedInv, Early, Settling

\* Where the request stands when no retriever is at work and nothing has been answered.
LEMMA Standing ==
  ASSUME AnswerInv, r.pc \notin Settling, r.pc # "retrieve"
  PROVE  /\ r \in Req /\ r.answer = None /\ r.cites = {}
         /\ \A s \in Sources : r.src[s].does \in {"nothing", "done"}
BY DEF AnswerInv, TypeOKA, ServedInv, Settling

LEMMA BeginKeeps == ASSUME AnswerInv, Begin PROVE AnswerInv'
<1>1. r.pc = "start" /\ r.files = {} /\ r.passages = {} /\ UNCHANGED index
  BY DEF Begin, Quiet, AnswerInv, ServedInv, Early
<1>2. PICK route \in Routes, pc \in {"followup", "user"} : r' = [r EXCEPT !.route = route, !.pc = pc]
  BY DEF Begin
<1>3. /\ r \in Req /\ r.answer = None /\ r.cites = {}
      /\ \A s \in Sources : r.src[s].does \in {"nothing", "done"}
  BY <1>1, Standing DEF Settling
<1>4. r' \in Req /\ r'.pc = pc /\ r'.route = route /\ r'.files = r.files /\ r'.passages = r.passages
      /\ r'.src = r.src /\ r'.answer = r.answer /\ r'.cites = r.cites
  <2>1. pc \in Pcs /\ route \in Routes \cup {None}
    BY DEF Pcs, Early
  <2> QED BY <1>2, <1>3, <2>1 DEF Req
<1> QED BY <1>1, <1>3, <1>4, PlainKeeps DEF Settling

LEMMA FollowupKeeps == ASSUME AnswerInv, RewriteFollowup PROVE AnswerInv'
<1>1. r.pc = "followup" /\ r.files = {} /\ r.passages = {} /\ r.route \in Routes
  BY DEF RewriteFollowup, AnswerInv, TypeOKA, ServedInv, Early
<1>2. CASE RaiseFrom(t)
  BY <1>2, RaiseKeeps
<1>3. CASE ~RaiseFrom(t)
  <2>1. PICK route \in Routes, question \in {"asked", "rewritten"} :
          r' = [r EXCEPT !.pc = "user", !.question = question, !.route = route]
    <3>1. r \in Req
      BY DEF AnswerInv, TypeOKA
    <3>2. CASE Go("user")
      <4>1. r' = [r EXCEPT !.pc = "user", !.question = r.question, !.route = r.route]
        BY <3>1, <3>2 DEF Go, Req
      <4> QED BY <1>1, <3>1, <4>1 DEF Req
    <3> QED BY <1>3, <3>2 DEF RewriteFollowup
  <2>2. UNCHANGED index
    BY <1>3 DEF RewriteFollowup, Quiet
  <2>3. /\ r \in Req /\ r.answer = None /\ r.cites = {}
        /\ \A s \in Sources : r.src[s].does \in {"nothing", "done"}
    BY <1>1, Standing DEF Settling
  <2>4. r' \in Req /\ r'.pc = "user" /\ r'.route = route /\ r'.files = r.files /\ r'.passages = r.passages
        /\ r'.src = r.src /\ r'.answer = r.answer /\ r'.cites = r.cites
    <3>1. "user" \in Pcs /\ route \in Routes \cup {None}
      BY DEF Pcs, Early
    <3> QED BY <2>1, <2>3, <3>1 DEF Req
  <2> QED BY <1>1, <2>2, <2>3, <2>4, PlainKeeps, SMTT(30) DEF Settling
<1> QED BY <1>2, <1>3

LEMMA ResolveUserKeeps == ASSUME AnswerInv, ResolveUser PROVE AnswerInv'
<1>1. r.pc = "user" /\ r.files = {} /\ r.passages = {} /\ r.route \in Routes
  BY DEF ResolveUser, AnswerInv, TypeOKA, ServedInv, Early
<1>2. CASE RaiseFrom(SetStage(t, "user_resolution"))
  BY <1>2, RaiseKeeps
<1>3. CASE ~RaiseFrom(SetStage(t, "user_resolution"))
  <2>1. r' = [r EXCEPT !.pc = r.route, !.path = r.route] /\ UNCHANGED index
    BY <1>3 DEF ResolveUser, Quiet
  <2>3. /\ r \in Req /\ r.answer = None /\ r.cites = {}
        /\ \A s \in Sources : r.src[s].does \in {"nothing", "done"}
    BY <1>1, Standing DEF Settling
  <2>4. r' \in Req /\ r'.pc = r.route /\ r'.path = r.route /\ r'.files = r.files /\ r'.passages = r.passages
        /\ r'.src = r.src /\ r'.answer = r.answer /\ r'.cites = r.cites
    <3>1. r.route \in Pcs /\ r.route \in Routes \cup {None, "langgraph", "hybrid", "vector"}
      BY <1>1 DEF Pcs, Early, Routes
    <3> QED BY <2>1, <2>3, <3>1 DEF Req
  <2> QED BY <1>1, <2>1, <2>3, <2>4, PlainKeeps DEF Settling, Routes
<1> QED BY <1>2, <1>3

-----------------------------------------------------------------------------
(* Lists of files. *)

LEMMA NowIndexed ==
  ASSUME AnswerInv, NEW f \in Files, status[f] = "INDEXED"
  PROVE  <<f, "INDEXED", rows[f]>> \in seen /\ WasIndexed(f)
<1>1. rows[f] \in Generations /\ <<f, status[f], rows[f]>> \in seen
  BY DEF AnswerInv, TypeOKA, ServedInv
<1> QED BY <1>1, Generation DEF WasIndexed

LEMMA InventoryKeeps == ASSUME AnswerInv, ListInventory \/ ReadInventory \/ AnswerInventory PROVE AnswerInv'
<1>1. r \in Req /\ rows \in [Files -> Generations] /\ status \in [Files -> Statuses]
  BY DEF AnswerInv, TypeOKA
<1>2. CASE ListInventory
  <2>1. PICK fs \in SUBSET IndexedNow : r' = [r EXCEPT !.pc = "inventory_text", !.files = WithStatus(fs)]
    BY <1>2 DEF ListInventory
  <2>2. WithStatus(fs) \in SUBSET (Files \X Statuses)
    BY <1>1 DEF WithStatus, IndexedNow
  <2>3. r' \in Req /\ r'.pc = "inventory_text" /\ r'.src = r.src /\ r'.answer = r.answer /\ r'.cites = r.cites
    BY <1>1, <2>1, <2>2 DEF Req, Pcs
  <2>4. /\ r.answer = None /\ r.cites = {} /\ UNCHANGED index
        /\ \A s \in Sources : r.src[s].does \in {"nothing", "done"}
    BY <1>2, Standing DEF ListInventory, Settling, Quiet
  <2> QED BY <2>3, <2>4, PlainKeeps DEF Settling, Early
<1>3. CASE ReadInventory
  <2>1. PICK passages \in SUBSET Passages : r' = [r EXCEPT !.pc = "inventory_answer", !.passages = passages]
    <3>1. CASE r' = [r EXCEPT !.pc = "inventory_answer"]
      <4>1. r' = [r EXCEPT !.pc = "inventory_answer", !.passages = r.passages] /\ r.passages \in SUBSET Passages
        BY <1>1, <3>1 DEF Req
      <4> QED BY <4>1
    <3>2. CASE \E e \in r.files : r' = [r EXCEPT !.pc = "inventory_answer", !.passages = {<<e[1], rows[e[1]]>>}]
      <4>1. PICK e \in r.files : r' = [r EXCEPT !.pc = "inventory_answer", !.passages = {<<e[1], rows[e[1]]>>}]
        BY <3>2
      <4>2. e[1] \in Files
        BY <1>1 DEF Req
      <4>3. {<<e[1], rows[e[1]]>>} \in SUBSET Passages
        BY <1>1, <4>2 DEF Passages
      <4> QED BY <4>1, <4>3
    <3> QED BY <1>3, <3>1, <3>2 DEF ReadInventory
  <2>3. r' \in Req /\ r'.pc = "inventory_answer" /\ r'.src = r.src /\ r'.answer = r.answer /\ r'.cites = r.cites
    BY <1>1, <2>1 DEF Req, Pcs
  <2>4. /\ r.answer = None /\ r.cites = {} /\ UNCHANGED index
        /\ \A s \in Sources : r.src[s].does \in {"nothing", "done"}
    BY <1>3, Standing DEF ReadInventory, Settling, Quiet
  <2> QED BY <2>3, <2>4, PlainKeeps DEF Settling, Early
<1>4. CASE AnswerInventory
  BY <1>4, CompleteKeeps DEF AnswerInventory, Answers, None
<1> QED BY <1>2, <1>3, <1>4

LEMMA CollectionKeeps == ASSUME AnswerInv, ListCollection \/ ReadCollection \/ AnswerCollection PROVE AnswerInv'
<1>1. r \in Req /\ rows \in [Files -> Generations] /\ status \in [Files -> Statuses]
  BY DEF AnswerInv, TypeOKA
<1>2. CASE ListCollection
  <2>1. CASE RaiseFrom(SetStage(t, "collection_lookup"))
    BY <2>1, RaiseKeeps
  <2>2. CASE ~RaiseFrom(SetStage(t, "collection_lookup"))
    <3>1. r' = [r EXCEPT !.pc = "summary_rows", !.files = WithStatus(IndexedNow), !.todo = IndexedNow]
      BY <1>2, <2>2 DEF ListCollection
    <3>2. WithStatus(IndexedNow) \in SUBSET (Files \X Statuses) /\ IndexedNow \in SUBSET Files
      BY <1>1 DEF WithStatus, IndexedNow
    <3>3. /\ r' \in Req /\ r'.pc = "summary_rows" /\ r'.src = r.src /\ r'.answer = r.answer /\ r'.cites = r.cites
          /\ r'.path = r.path /\ r'.todo = IndexedNow /\ r'.passages = r.passages
      BY <1>1, <3>1, <3>2, ZenonT(40) DEF Req, Pcs
    <3>4. /\ r.answer = None /\ r.cites = {} /\ UNCHANGED index /\ r.path = "summary" /\ r.passages = {}
          /\ \A s \in Sources : r.src[s].does \in {"nothing", "done"}
      BY <1>2, <2>2, Standing DEF ListCollection, Settling, Quiet, AnswerInv, ServedInv, Early
    <3>5. \A f \in IndexedNow : WasIndexed(f)
      BY NowIndexed DEF IndexedNow
    <3> QED BY <3>3, <3>4, <3>5, PlainKeeps DEF Settling, Early
  <2> QED BY <2>1, <2>2
<1>3. CASE ReadCollection
  <2>1. /\ r.answer = None /\ r.cites = {} /\ UNCHANGED index /\ r.path = "summary"
        /\ \A s \in Sources : r.src[s].does \in {"nothing", "done"}
        /\ \A f \in r.todo : f \in Files /\ WasIndexed(f)
        /\ \A p \in r.passages : WasIndexed(p[1])
    BY <1>1, <1>3, Standing DEF ReadCollection, Settling, Quiet, AnswerInv, ServedInv, Req
  <2>2. CASE r.todo = {} /\ Go("summary_answer")
    <3>1. "summary_answer" \in Pcs
      BY DEF Pcs
    <3> QED BY <2>1, <2>2, <3>1, GoType, PlainKeeps DEF Settling, Early
  <2>3. CASE \E f \in r.todo : r' = [r EXCEPT !.todo = @ \ {f}, !.passages = @ \cup {<<f, rows[f]>>}]
    <3>1. PICK f \in r.todo : r' = [r EXCEPT !.todo = @ \ {f}, !.passages = @ \cup {<<f, rows[f]>>}]
      BY <2>3
    <3>2. <<f, rows[f]>> \in Passages
      BY <1>1, <2>1 DEF Passages
    <3>3. /\ r' \in Req /\ r'.pc = r.pc /\ r'.src = r.src /\ r'.answer = r.answer /\ r'.cites = r.cites
          /\ r'.path = r.path /\ r'.todo = r.todo \ {f} /\ r'.passages = r.passages \cup {<<f, rows[f]>>}
      BY <1>1, <3>1, <3>2 DEF Req
    <3>4. r.pc = "summary_rows"
      BY <1>3 DEF ReadCollection
    <3> QED BY <2>1, <3>3, <3>4, PlainKeeps DEF Settling, Early
  <2> QED BY <1>3, <2>2, <2>3 DEF ReadCollection
<1>4. CASE AnswerCollection
  <2>1. r.pc = "summary_answer" /\ r.path = "summary" /\ \A p \in r.passages : WasIndexed(p[1])
    BY <1>4 DEF AnswerCollection, AnswerInv, ServedInv
  <2>2. r.passages \in SUBSET Passages /\ "no_evidence" \in Answers /\ "summary" \in Answers
    BY <1>1 DEF Req, Answers
  <2>3. CASE r.files = {}
    BY <1>4, <2>1, <2>2, <2>3, AnswerKeeps DEF AnswerCollection
  <2>4. CASE r.files # {}
    BY <1>4, <2>1, <2>2, <2>4, CompleteKeeps DEF AnswerCollection
  <2> QED BY <2>3, <2>4
<1> QED BY <1>2, <1>3, <1>4

-----------------------------------------------------------------------------
(* Named files. *)

LEMMA ExtractKeeps == ASSUME AnswerInv, ExtractTargets PROVE AnswerInv'
<1>1. /\ r \in Req /\ r.pc = "target" /\ r.files = {} /\ r.passages = {} /\ r.path # "summary"
      /\ UNCHANGED index
  BY DEF ExtractTargets, Quiet, AnswerInv, TypeOKA, ServedInv, Early
<1>2. r.answer = None /\ r.cites = {} /\ \A s \in Sources : r.src[s].does \in {"nothing", "done"}
  BY <1>1, Standing DEF Settling
<1>3. CASE Go("grounded")
  <2>1. "grounded" \in Pcs
    BY DEF Pcs
  <2> QED BY <1>1, <1>2, <1>3, <2>1, GoType, PlainKeeps DEF Settling, Early
<1>4. CASE \E named \in SUBSET Files : r' = [r EXCEPT !.pc = "resolve", !.todo = named]
  <2>1. PICK named \in SUBSET Files : r' = [r EXCEPT !.pc = "resolve", !.todo = named]
    BY <1>4
  <2>2. /\ r' \in Req /\ r'.pc = "resolve" /\ r'.files = {} /\ r'.src = r.src
        /\ r'.path = r.path /\ r'.answer = None /\ r'.cites = {}
    BY <1>1, <1>2, <2>1, ZenonT(40) DEF Req, Pcs
  <2> QED BY <1>1, <1>2, <2>2, ResolveTypeKeeps
<1> QED BY <1>3, <1>4 DEF ExtractTargets

LEMMA ResolveKeeps == ASSUME AnswerInv, ResolveTarget PROVE AnswerInv'
<1>1. PICK f \in r.todo :
        r' = [r EXCEPT !.todo = @ \ {f},
                      !.files = IF status[f] = "SKIPPED" THEN @ ELSE @ \cup WithStatus({f})]
  BY DEF ResolveTarget
<1>2. /\ r \in Req /\ r.pc = "resolve" /\ r.path # "summary" /\ UNCHANGED index
      /\ rows \in [Files -> Generations] /\ status \in [Files -> Statuses]
      /\ \A e \in r.files : e[2] # "SKIPPED" /\ \E g \in Generations : <<e[1], e[2], g>> \in seen
  BY DEF ResolveTarget, Quiet, AnswerInv, TypeOKA, ServedInv
<1>3. r.answer = None /\ r.cites = {} /\ \A s \in Sources : r.src[s].does \in {"nothing", "done"}
  BY <1>2, Standing DEF Settling
<1>4. f \in Files /\ <<f, status[f], rows[f]>> \in seen
  BY <1>2 DEF Req, AnswerInv, ServedInv
<1> DEFINE files == IF status[f] = "SKIPPED" THEN r.files ELSE r.files \cup WithStatus({f})
<1>5. /\ files \in SUBSET (Files \X Statuses)
      /\ \A e \in files : e[2] # "SKIPPED" /\ \E g \in Generations : <<e[1], e[2], g>> \in seen
  <2>1. WithStatus({f}) = {<<f, status[f]>>}
    BY DEF WithStatus
  <2>2. r.files \in SUBSET (Files \X Statuses) /\ <<f, status[f]>> \in Files \X Statuses /\ rows[f] \in Generations
    BY <1>2, <1>4 DEF Req
  <2>3. <<f, status[f]>>[1] = f /\ <<f, status[f]>>[2] = status[f]
    OBVIOUS
  <2>4. CASE status[f] = "SKIPPED"
    BY <1>2, <2>2, <2>4
  <2>5. CASE status[f] # "SKIPPED"
    <3>1. files = r.files \cup {<<f, status[f]>>}
      BY <2>1, <2>5
    <3>2. \E g \in Generations : <<f, status[f], g>> \in seen
      BY <1>4, <2>2
    <3> HIDE DEF files
    <3> QED BY <1>2, <2>2, <2>3, <2>5, <3>1, <3>2
  <2> QED BY <2>4, <2>5
<1>6. r' = [r EXCEPT !.todo = r.todo \ {f}, !.files = files]
  BY <1>1
<1> HIDE DEF files
<1>7. /\ r' \in Req /\ r'.pc = "resolve" /\ r'.files = files /\ r'.src = r.src
      /\ r'.path = r.path /\ r'.answer = None /\ r'.cites = {}
  BY <1>2, <1>3, <1>5, <1>6 DEF Req
<1> QED BY <1>2, <1>3, <1>5, <1>7, ResolveTypeKeeps

\* The rows that may be read now have been served.
LEMMA EligibleServed == ASSUME AnswerInv PROVE Eligible \in SUBSET Passages /\ \A p \in Eligible : Served(p)
<1>1. Held \in SUBSET Passages
  BY DEF Held, Passages, Generations
<1>2. ASSUME NEW p \in Eligible PROVE p \in Passages /\ Served(p)
  <2>1. p \in Passages /\ p[1] \in Files /\ status[p[1]] = "INDEXED" /\ rows[p[1]] = p[2]
    BY <1>1 DEF Eligible, Passages
  <2> QED BY <2>1, NowIndexed DEF Served
<1> QED BY <1>2

LEMMA LoadTargetKeeps == ASSUME AnswerInv, LoadTarget PROVE AnswerInv'
<1> DEFINE ps == {p \in Eligible : <<p[1], "INDEXED">> \in r.files}
<1>1. /\ r \in Req /\ r.pc = "resolve" /\ r.path # "summary"
      /\ rows \in [Files -> Generations] /\ status \in [Files -> Statuses]
      /\ \A e \in r.files : e[2] # "SKIPPED" /\ \E g \in Generations : <<e[1], e[2], g>> \in seen
  BY DEF LoadTarget, AnswerInv, TypeOKA, ServedInv
<1>2. "not_found" \in Answers /\ "not_indexed" \in Answers /\ {} \in SUBSET Passages
  BY DEF Answers
<1>3. CASE r.files = {}
  <2>1. Answer("not_found", {}, RecordAbstention(t, "FILE_NOT_FOUND", "not_found"))
    BY <1>3 DEF LoadTarget
  <2> QED BY <1>1, <1>2, <2>1, AnswerKeeps
<1>4. CASE r.files # {} /\ ps = {}
  <2>1. Answer("not_indexed", {}, RecordAbstention(t, "FILE_NOT_INDEXED", "not_indexed"))
    BY <1>4 DEF LoadTarget
  <2>2. ASSUME NEW e \in r.files
        PROVE  /\ \E x \in seen : x[1] = e[1] /\ x[2] # "INDEXED"
               /\ \E x \in seen : x[1] = e[1] /\ x[2] # "SKIPPED"
    <3>1. e[1] \in Files /\ e[2] \in Statuses /\ e = <<e[1], e[2]>>
      BY <1>1 DEF Req
    <3>2. PICK g \in Generations : <<e[1], e[2], g>> \in seen
      BY <1>1
    <3>3. CASE e[2] # "INDEXED"
      BY <1>1, <3>2, <3>3
    <3>4. CASE e[2] = "INDEXED"
      <4>1. rows[e[1]] \in Generations /\ <<e[1], status[e[1]], rows[e[1]]>> \in seen
        BY <1>1, <3>1 DEF AnswerInv, ServedInv
      <4>2. status[e[1]] # "INDEXED"
        <5> SUFFICES ASSUME status[e[1]] = "INDEXED" PROVE <<e[1], rows[e[1]]>> \in ps
          BY <1>4
        <5>1. <<e[1], rows[e[1]]>> \in Held
          BY <3>1, <4>1, Generation DEF Held, Generations
        <5>2. <<e[1], rows[e[1]]>> \in Eligible
          BY <5>1 DEF Eligible
        <5> QED BY <3>1, <3>4, <5>2
      <4> QED BY <1>1, <3>2, <4>1, <4>2
    <3> QED BY <3>3, <3>4
  <2> QED BY <1>1, <1>2, <2>1, <2>2, AnswerKeeps
<1>5. CASE r.files # {} /\ ps # {}
  <2>1. r' = [r EXCEPT !.pc = "generate", !.passages = ps] /\ UNCHANGED index
    BY <1>5 DEF LoadTarget, Quiet
  <2>2. ps \in SUBSET Passages /\ \A p \in ps : Served(p)
    BY EligibleServed
  <2> HIDE DEF ps
  <2>3. /\ r' \in Req /\ r'.pc = "generate" /\ r'.passages = ps /\ r'.src = r.src
        /\ r'.path = r.path /\ r'.answer = r.answer /\ r'.cites = r.cites
    BY <1>1, <2>1, <2>2 DEF Req, Pcs
  <2> QED BY <1>1, <2>1, <2>2, <2>3, Standing, GenerateTypeKeeps DEF Settling
<1> QED BY <1>3, <1>4, <1>5

-----------------------------------------------------------------------------
(* Retrieval. *)

LEMMA RetrieveKeeps ==
  ASSUME AnswerInv, UNCHANGED index, r' \in Req, r'.pc \in {"retrieve", "raised"},
         r'.pc = "retrieve" => r'.path # "summary" /\ r'.answer = None /\ r'.cites = {},
         r'.pc = "raised" => r.pc = "raised" /\ r'.path = r.path /\ r'.files = r.files /\ r'.answer = r.answer
                             /\ r'.cites = r.cites,
         \A s \in Sources : r'.src[s].does # "load" => \A p \in r'.src[s].found : Served(p)
  PROVE  AnswerInv'
<1>1. TypeOKA'
  BY DEF AnswerInv, TypeOKA, index
<1>2. CitesWereServed' /\ NotIndexedIsTrue'
  <2>1. CASE r'.pc = "retrieve"
    BY <2>1 DEF CitesWereServed, NotIndexedIsTrue, None
  <2>2. CASE r'.pc = "raised"
    BY <2>2 DEF CitesWereServed, NotIndexedIsTrue, AnswerInv, ServedInv, index
  <2> QED BY <2>1, <2>2
<1>3. (\A f \in Files : <<f, status[f], rows[f]>> \in seen)'
  BY DEF AnswerInv, ServedInv, index
<1>4. (\A s \in Sources : r.src[s].does # "load" => \A p \in r.src[s].found : Served(p))'
  BY DEF Served, index
<1> QED BY <1>1, <1>2, <1>3, <1>4 DEF AnswerInv, ServedInv, Early, Settling

LEMMA SearchingType ==
  \A plan : /\ Searching(plan) \in [Sources -> Retriever]
            /\ \A s \in Sources : Searching(plan)[s].found = {}
<1> SUFFICES ASSUME NEW plan
             PROVE  /\ Searching(plan) \in [Sources -> Retriever]
                    /\ \A s \in Sources : Searching(plan)[s].found = {}
  OBVIOUS
<1>1. \A s \in Sources : [does |-> IF s \in plan THEN "search" ELSE "nothing", found |-> {}] \in Retriever
  BY DEF Retriever, Doings
<1> QED BY <1>1 DEF Searching

LEMMA StartRetrievalKeeps == ASSUME AnswerInv, StartRetrieval PROVE AnswerInv'
<1>1. /\ r \in Req /\ r.pc = "grounded" /\ UNCHANGED index
      /\ r.answer = None /\ r.cites = {}
  BY Standing DEF StartRetrieval, Quiet, AnswerInv, TypeOKA, ServedInv, Settling
<1>2. PICK path \in {"langgraph", "hybrid", "vector"} : \E plan :
        r' = [r EXCEPT !.pc = "retrieve", !.path = path, !.src = Searching(plan)]
  BY DEF StartRetrieval
<1>3. PICK plan : r' = [r EXCEPT !.pc = "retrieve", !.path = path, !.src = Searching(plan)]
  BY <1>2
<1>4. /\ r' \in Req /\ r'.pc = "retrieve" /\ r'.path = path /\ r'.src = Searching(plan)
      /\ r'.answer = r.answer /\ r'.cites = r.cites
  BY <1>1, <1>3, SearchingType, ZenonT(40) DEF Req, Pcs
<1> QED BY <1>1, <1>4, SearchingType, RetrieveKeeps

LEMMA RewriteKeeps == ASSUME AnswerInv, RewriteQuery PROVE AnswerInv'
<1>1. /\ r \in Req /\ r.pc = "rewrite" /\ r.path # "summary" /\ UNCHANGED index
      /\ r.answer = None /\ r.cites = {} /\ r.rewrites + 1 \in Nat
  BY Standing DEF RewriteQuery, Quiet, AnswerInv, TypeOKA, ServedInv, Settling, Req
<1>2. PICK plan : r' = [r EXCEPT !.pc = "retrieve", !.rewrites = r.rewrites + 1, !.src = Searching(plan)]
  BY DEF RewriteQuery
<1>3. /\ r' \in Req /\ r'.pc = "retrieve" /\ r'.path = r.path /\ r'.src = Searching(plan)
      /\ r'.answer = r.answer /\ r'.cites = r.cites
  BY <1>1, <1>2, SearchingType, ZenonT(40) DEF Req, Pcs
<1> QED BY <1>1, <1>3, SearchingType, RetrieveKeeps

\* A retriever has found something: of rows that may be read, or only ids to be loaded.
LEMMA SourceKeeps ==
  ASSUME AnswerInv, UNCHANGED index, NEW s \in Sources, NEW does \in Doings, NEW found \in SUBSET Passages,
         r.src[s].does \in {"search", "load"}, Source(s, does, found),
         does # "load" => \A p \in found : Served(p)
  PROVE  AnswerInv'
<1>1. r \in Req /\ r.pc \in {"retrieve", "raised"} /\ [does |-> does, found |-> found] \in Retriever
  BY DEF AnswerInv, TypeOKA, Retriever
<1>2. r' = [r EXCEPT !.src = [r.src EXCEPT ![s] = [does |-> does, found |-> found]]]
  BY <1>1 DEF Source, Req
<1>3. [r.src EXCEPT ![s] = [does |-> does, found |-> found]] \in [Sources -> Retriever]
  BY <1>1 DEF Req
<1>4. /\ r' \in Req /\ r'.pc = r.pc /\ r'.path = r.path /\ r'.files = r.files
      /\ r'.src = [r.src EXCEPT ![s] = [does |-> does, found |-> found]]
      /\ r'.answer = r.answer /\ r'.cites = r.cites
  BY <1>1, <1>2, <1>3 DEF Req
<1>5. \A u \in Sources : r'.src[u] = IF u = s THEN [does |-> does, found |-> found] ELSE r.src[u]
  BY <1>1, <1>4 DEF Req
<1>6. \A u \in Sources : r'.src[u].does # "load" => \A p \in r'.src[u].found : Served(p)
  BY <1>5 DEF AnswerInv, ServedInv
<1>7. r.pc = "retrieve" => r.path # "summary" /\ r.answer = None /\ r.cites = {}
  BY DEF AnswerInv, ServedInv, Settling
<1> QED BY <1>1, <1>4, <1>6, <1>7, RetrieveKeeps

LEMMA RetrieversKeep == ASSUME AnswerInv, Retrievers PROVE AnswerInv'
<1>1. Held \in SUBSET Passages /\ Eligible \in SUBSET Passages /\ \A p \in Eligible : Served(p)
  BY EligibleServed DEF Held, Passages, Generations
<1>2. {"vector", "keyword", "metadata"} = Sources /\ {"load", "done", "failed"} \subseteq Doings
  BY DEF Sources, Doings
<1>3. CASE SearchVector
  <2>1. PICK H \in SUBSET Held : Source("vector", "load", H)
    BY <1>3 DEF SearchVector, Few
  <2> QED BY <1>1, <1>2, <1>3, <2>1, SourceKeeps DEF SearchVector, Quiet
<1>4. CASE SearchKeyword
  <2>1. PICK H \in SUBSET Eligible : Source("keyword", "load", H)
    BY <1>4 DEF SearchKeyword, Few
  <2> QED BY <1>1, <1>2, <1>4, <2>1, SourceKeeps DEF SearchKeyword, Quiet
<1>5. CASE SearchMetadata
  <2>1. PICK H \in SUBSET Eligible : Source("metadata", "done", H)
    BY <1>5 DEF SearchMetadata, Few
  <2> QED BY <1>1, <1>2, <1>5, <2>1, SourceKeeps DEF SearchMetadata, Quiet
<1>6. ASSUME NEW s \in Sources, Load(s) PROVE AnswerInv'
  <2>1. r.src[s].found \cap Eligible \in SUBSET Passages /\ \A p \in r.src[s].found \cap Eligible : Served(p)
    BY <1>1
  <2> QED BY <1>2, <1>6, <2>1, SourceKeeps DEF Load, Quiet
<1>7. ASSUME NEW s \in Sources, SourceFails(s) PROVE AnswerInv'
  <2> DEFINE src == [r.src EXCEPT ![s] = [does |-> "failed", found |-> {}]]
  <2>1. r \in Req /\ UNCHANGED index /\ [does |-> "failed", found |-> {}] \in Retriever
    BY <1>7 DEF SourceFails, Quiet, AnswerInv, TypeOKA, Retriever, Doings
  <2>2. r' = [r EXCEPT !.pc = "raised", !.src = src]
    BY <1>7, <2>1 DEF SourceFails, Req
  <2>3. src \in [Sources -> Retriever] /\ \A u \in Sources : src[u] = r.src[u] \/ src[u].found = {}
    BY <2>1 DEF Req
  <2> HIDE DEF src
  <2>4. /\ r' \in Req /\ r'.pc = "raised" /\ r'.path = r.path /\ r'.files = r.files /\ r'.answer = r.answer
        /\ r'.cites = r.cites /\ r'.src = src
    BY <2>1, <2>2, <2>3 DEF Req, Pcs, Settling
  <2> QED BY <2>1, <2>3, <2>4, RaisedKeeps
<1> QED BY <1>3, <1>4, <1>5, <1>6, <1>7 DEF Retrievers

\* When the retrievers are done, all that was found was served.
LEMMA GatheredServed ==
  ASSUME AnswerInv, Gathering
  PROVE  AllFound \in SUBSET Passages /\ (\A p \in AllFound : Served(p))
         /\ \A s \in Sources : r.src[s].does \in {"nothing", "done"}
<1>1. \A s \in Sources : r.src[s].does \in {"nothing", "done"} /\ r.src[s].found \in SUBSET Passages
  BY DEF Gathering, AnswerInv, TypeOKA, Req, Retriever
<1>2. \A s \in Sources : \A p \in r.src[s].found : Served(p)
  BY <1>1 DEF AnswerInv, ServedInv
<1> QED BY <1>1, <1>2 DEF AllFound

LEMMA GradeKeeps == ASSUME AnswerInv, TakeVector \/ Grade PROVE AnswerInv'
<1>1. /\ r \in Req /\ Gathering /\ r.pc = "retrieve" /\ r.path # "summary" /\ UNCHANGED index
      /\ r.answer = None /\ r.cites = {}
  BY ZenonT(40) DEF TakeVector, Grade, Gathering, Quiet, AnswerInv, TypeOKA, ServedInv, Settling
<1>2. PICK pc \in {"generate", "abstain", "rewrite"}, passages \in SUBSET Passages :
        /\ r' = [r EXCEPT !.pc = pc, !.passages = passages]
        /\ pc = "generate" => \A p \in passages : Served(p)
  <2>1. CASE TakeVector
    BY <2>1, <1>1, GatheredServed, ZenonT(40) DEF TakeVector
  <2>2. CASE Grade
    <3>1. CASE \E top \in SUBSET AllFound \ {{}} : r' = [r EXCEPT !.pc = "generate", !.passages = top]
      BY <3>1, <1>1, GatheredServed
    <3>2. CASE Go(IF ShouldRewrite THEN "rewrite" ELSE "abstain")
      <4>1. PICK pc \in {"abstain", "rewrite"} : r' = [r EXCEPT !.pc = pc]
        BY <3>2 DEF Go
      <4>2. r' = [r EXCEPT !.pc = pc, !.passages = r.passages] /\ r.passages \in SUBSET Passages
        BY <1>1, <4>1 DEF Req
      <4> QED BY <4>1, <4>2
    <3> QED BY <2>2, <3>1, <3>2 DEF Grade
  <2> QED BY <2>1, <2>2, ZenonT(40)
<1>3. /\ r' \in Req /\ r'.pc = pc /\ r'.passages = passages /\ r'.src = r.src
      /\ r'.path = r.path /\ r'.answer = r.answer /\ r'.cites = r.cites
  BY <1>1, <1>2, ZenonT(40) DEF Req, Pcs
<1>4. \A s \in Sources : r.src[s].does \in {"nothing", "done"}
  BY <1>1, GatheredServed
<1>5. CASE pc = "generate"
  BY <1>1, <1>2, <1>3, <1>4, <1>5, GenerateTypeKeeps
<1>6. CASE pc # "generate"
  BY <1>1, <1>3, <1>4, <1>6, PlainKeeps DEF Settling, Early
<1> QED BY <1>5, <1>6

LEMMA AbstainKeeps == ASSUME AnswerInv, Abstain \/ Generate PROVE AnswerInv'
<1>1. CASE Abstain
  <2>1. "no_evidence" \in Answers /\ r.pc = "abstain" /\ r.path # "summary"
    BY <1>1 DEF Abstain, Answers, AnswerInv, ServedInv
  <2>2. PICK tr : Answer("no_evidence", {}, tr)
    BY <1>1 DEF Abstain
  <2> QED BY <2>1, <2>2, AnswerKeeps
<1>2. CASE Generate
  <2>1. "found" \in Answers /\ r.pc = "generate" /\ r.path # "summary" /\ \A p \in r.passages : Served(p)
    BY <1>2 DEF Generate, Answers, AnswerInv, ServedInv
  <2>2. r.passages \in SUBSET Passages
    BY DEF AnswerInv, TypeOKA, Req
  <2> QED BY <1>2, <2>1, <2>2, CompleteKeeps DEF Generate
<1> QED BY <1>1, <1>2

LEMMA PersistKeeps == ASSUME AnswerInv, Persist PROVE AnswerInv'
<1>1. PICK pc \in {"returned", "raised"} : Go(pc) /\ UNCHANGED index
  BY DEF Persist, RaiseFrom, Quiet
<1>2. pc \in Pcs /\ r.pc = "persist"
  BY DEF Pcs, Settling, Persist
<1>3. r' \in Req /\ r'.pc = pc /\ r'.path = r.path /\ r'.files = r.files /\ r'.src = r.src /\ r'.answer = r.answer
      /\ r'.cites = r.cites /\ r'.route = r.route
  BY <1>1, <1>2, GoType
<1>4. TypeOKA'
  BY <1>1, <1>2, <1>3 DEF AnswerInv, TypeOKA, index
<1>5. CitesWereServed' /\ NotIndexedIsTrue'
  BY <1>1, <1>3 DEF AnswerInv, ServedInv, CitesWereServed, NotIndexedIsTrue, index
<1>6. (\A s \in Sources : r.src[s].does # "load" => \A p \in r.src[s].found : Served(p))'
  <2>1. \A s \in Sources : r.src[s].does # "load" => \A p \in r.src[s].found : Served(p)
    BY DEF AnswerInv, ServedInv
  <2>2. \A p : Served(p)' <=> Served(p)
    BY <1>1 DEF Served, index
  <2> QED BY <1>3, <2>1, <2>2
<1>7. (\A f \in Files : <<f, status[f], rows[f]>> \in seen)'
  BY <1>1 DEF AnswerInv, ServedInv, index
<1> QED BY <1>3, <1>4, <1>5, <1>6, <1>7 DEF AnswerInv, ServedInv, Settling, Early

LEMMA AnswerInvStep == AnswerInv /\ [NextA]_avars => AnswerInv'
<1> SUFFICES ASSUME AnswerInv, [NextA]_avars PROVE AnswerInv'
  OBVIOUS
<1>1. CASE RecallHistory \/ Chitchat
  <2>1. "recall" \in Answers /\ "direct" \in Answers /\ {} \in SUBSET Passages
    BY DEF Answers
  <2>2. CASE RecallHistory
    BY <2>1, <2>2, AnswerKeeps DEF RecallHistory
  <2>3. CASE Chitchat
    BY <2>1, <2>3, CompleteKeeps DEF Chitchat
  <2> QED BY <1>1, <2>2, <2>3
<1>2. CASE Reject \/ RewriteRaises \/ QueryFails
  BY <1>2, RaiseKeeps DEF Reject, RewriteRaises, QueryFails
<1>3. CASE UNCHANGED avars
  <2>1. r' = r /\ UNCHANGED index
    BY <1>3 DEF avars
  <2> QED BY <2>1, SeenKeeps DEF index, AnswerInv, TypeOKA, ServedInv
<1> QED BY <1>1, <1>2, <1>3, BeginKeeps, FollowupKeeps, ResolveUserKeeps, InventoryKeeps, CollectionKeeps, ExtractKeeps,
           ResolveKeeps, LoadTargetKeeps, StartRetrievalKeeps, RetrieversKeep, GradeKeeps, RewriteKeeps, AbstainKeeps,
           PersistKeeps, IndexKeeps DEF NextA, RequestNext

\* The inductive invariant of what is served.
THEOREM AnswerInvariant == SpecA => []AnswerInv
<1>1. InitA => AnswerInv
  BY InitialAnswer
<1>2. AnswerInv /\ [NextA]_avars => AnswerInv'
  BY AnswerInvStep
<1> QED BY <1>1, <1>2, PTL DEF SpecA

\* However the index changes while a question is answered, each cited passage was the current
\* text of an INDEXED file at some moment of the request; in a summary its file was INDEXED.
THEOREM CitationsWereServed == SpecA => []CitesWereServed
<1>1. AnswerInv => CitesWereServed
  BY DEF AnswerInv, ServedInv
<1> QED BY <1>1, AnswerInvariant, PTL

\* A file that an answer calls not yet indexed existed, and was not INDEXED, at some moment.
THEOREM PreparingIsTrue == SpecA => []NotIndexedIsTrue
<1>1. AnswerInv => NotIndexedIsTrue
  BY DEF AnswerInv, ServedInv
<1> QED BY <1>1, AnswerInvariant, PTL

-----------------------------------------------------------------------------
(* The trace. *)

Stages   == {"initialization", "user_resolution", "routing", "generation", "persistence", "inventory_lookup",
             "collection_lookup", "file_target_lookup", "retrieval", "evidence_grading", "query_rewrite"}
Outcomes == {None, "ANSWERED", "ABSTAINED", "FAILED"}
Reasons  == {None, "FILE_NOT_FOUND", "FILE_NOT_INDEXED", "EVIDENCE_REJECTED", "NO_RETRIEVAL_EVIDENCE"}
Attempt  == [number : Nat, reranked : BOOLEAN, sufficient : {None, "yes", "no"}, open : BOOLEAN]
Trace    == [stage : Stages, attempts : Seq(Attempt), rewrites : Seq(Nat), final : Answers, outcome : Outcomes,
             reason : Reasons, error : Stages \cup {None}, finished : BOOLEAN]

\* Two traces that differ in their stage, or in their outcome, only.
SameTries(u, v)   == u.attempts = v.attempts /\ u.rewrites = v.rewrites
SameOutcome(u, v) == u.final = v.final /\ u.outcome = v.outcome /\ u.reason = v.reason /\ u.error = v.error
                     /\ u.finished = v.finished

LEMMA StageSet ==
  ASSUME NEW u \in Trace, NEW stage \in Stages
  PROVE  /\ SetStage(u, stage) \in Trace /\ SetStage(u, stage).stage = stage
         /\ SameTries(SetStage(u, stage), u) /\ SameOutcome(SetStage(u, stage), u)
BY DEF SetStage, Trace, SameTries, SameOutcome

LEMMA FinalRecorded ==
  ASSUME NEW u \in Trace, NEW answer \in Answers
  PROVE  LET v == RecordFinal(u, answer)
         IN  /\ v \in Trace /\ v.stage = u.stage /\ SameTries(v, u) /\ v.final = answer /\ v.outcome = "ANSWERED"
             /\ v.reason = u.reason /\ v.error = u.error /\ v.finished = u.finished
BY DEF RecordFinal, Trace, SameTries, Outcomes

LEMMA AbstentionRecorded ==
  ASSUME NEW u \in Trace, NEW answer \in Answers, NEW reason \in Reasons
  PROVE  LET v == RecordAbstention(u, reason, answer)
         IN  /\ v \in Trace /\ v.stage = u.stage /\ SameTries(v, u) /\ v.final = answer /\ v.outcome = "ABSTAINED"
             /\ v.reason = reason /\ v.error = u.error /\ v.finished = u.finished
BY DEF RecordAbstention, Trace, SameTries, Outcomes

LEMMA ErrorRecorded ==
  ASSUME NEW u \in Trace, NEW stage \in Stages
  PROVE  LET v == RecordError(u, stage)
         IN  /\ v \in Trace /\ v.stage = u.stage /\ SameTries(v, u) /\ v.outcome = "FAILED" /\ v.error # None
             /\ v.error = IF u.error = None THEN stage ELSE u.error
             /\ v.final = u.final /\ v.reason = u.reason /\ v.finished = u.finished
<1> DEFINE error == IF u.error = None THEN stage ELSE u.error
<1>1. error \in Stages
  BY DEF Trace
<1>2. RecordError(u, stage) = [u EXCEPT !.error = error, !.outcome = "FAILED"]
  BY DEF RecordError
<1>3. None \notin Stages /\ "FAILED" \in Outcomes
  BY DEF Stages, None, Outcomes
<1>4. error = IF u.error = None THEN stage ELSE u.error
  OBVIOUS
<1> HIDE DEF error
<1> QED BY <1>1, <1>2, <1>3, <1>4, ZenonT(40) DEF Trace, SameTries

LEMMA Finished ==
  ASSUME NEW u \in Trace
  PROVE  LET v == Finish(u)
         IN  /\ v \in Trace /\ v.finished /\ v.stage = u.stage /\ SameTries(v, u) /\ v.final = u.final
             /\ v.outcome = u.outcome /\ v.reason = u.reason /\ v.error = u.error
BY DEF Finish, Trace, SameTries

LEMMA RewriteRecorded ==
  ASSUME NEW u \in Trace, NEW after \in Nat
  PROVE  LET v == RecordRewrite(u, after)
         IN  /\ v \in Trace /\ v.stage = u.stage /\ SameOutcome(v, u) /\ v.attempts = u.attempts
             /\ v.rewrites = Append(u.rewrites, after)
<1>1. Append(u.rewrites, after) \in Seq(Nat)
  BY DEF Trace
<1> QED BY <1>1 DEF RecordRewrite, Trace, SameOutcome

LEMMA AttemptBegun ==
  ASSUME NEW u \in Trace, NEW n \in Nat
  PROVE  LET v == BeginAttempt(u, n)
         IN  /\ v \in Trace /\ v.stage = u.stage /\ SameOutcome(v, u) /\ v.rewrites = u.rewrites
             /\ Len(v.attempts) = Len(u.attempts) + 1 /\ Len(u.attempts) \in Nat
             /\ \A i \in 1..Len(u.attempts) : v.attempts[i] = u.attempts[i]
             /\ v.attempts[Len(u.attempts) + 1].number = n
             /\ v.attempts # <<>>
<1> DEFINE new == [number |-> n, reranked |-> FALSE, sufficient |-> None, open |-> TRUE]
<1>1. new \in Attempt /\ new.number = n /\ u.attempts \in Seq(Attempt)
  BY DEF Attempt, Trace
<1>2. BeginAttempt(u, n) = [u EXCEPT !.attempts = Append(u.attempts, new)]
  BY DEF BeginAttempt
<1> HIDE DEF new
<1>3. /\ Append(u.attempts, new) \in Seq(Attempt) /\ Len(u.attempts) \in Nat
      /\ Len(Append(u.attempts, new)) = Len(u.attempts) + 1
      /\ Append(u.attempts, new)[Len(u.attempts) + 1] = new /\ Append(u.attempts, new) # <<>>
      /\ \A i \in 1..Len(u.attempts) : Append(u.attempts, new)[i] = u.attempts[i]
  BY <1>1, LenProperties, AppendProperties
<1> QED BY <1>1, <1>2, <1>3 DEF Trace, SameOutcome

\* When attempts are numbered in order the one with a number is at that place.
LEMMA AttemptPlace ==
  ASSUME NEW u \in Trace, NEW n \in 1..Len(u.attempts), \A i \in 1..Len(u.attempts) : u.attempts[i].number = i
  PROVE  AttemptAt(u, n) = n
<1>1. DOMAIN u.attempts = 1..Len(u.attempts) /\ Len(u.attempts) \in Nat
  BY LenProperties DEF Trace
<1>2. \A i \in DOMAIN u.attempts : u.attempts[i].number = n /\ (\A j \in 1..i - 1 : u.attempts[j].number # n) <=> i = n
  <2> SUFFICES ASSUME NEW i \in 1..Len(u.attempts)
               PROVE  u.attempts[i].number = n /\ (\A j \in 1..i - 1 : u.attempts[j].number # n) <=> i = n
    BY <1>1
  <2>1. \A j \in 1..i - 1 : j \in 1..Len(u.attempts) /\ j < i
    BY <1>1
  <2> QED BY <2>1
<1> QED BY <1>1, <1>2 DEF AttemptAt

Replaced(u, n, x) == [u EXCEPT !.attempts = [u.attempts EXCEPT ![n] = x]]

LEMMA AttemptReplaced ==
  ASSUME NEW u \in Trace, NEW n \in 1..Len(u.attempts), \A i \in 1..Len(u.attempts) : u.attempts[i].number = i,
         NEW x \in Attempt, x.number = n
  PROVE  LET v == Replaced(u, n, x)
         IN  /\ v \in Trace /\ v.stage = u.stage /\ SameOutcome(v, u) /\ v.rewrites = u.rewrites
             /\ Len(v.attempts) = Len(u.attempts) /\ v.attempts # <<>>
             /\ \A i \in 1..Len(u.attempts) : v.attempts[i].number = i /\ (i # n => v.attempts[i] = u.attempts[i])
             /\ v.attempts[n] = x
<1> DEFINE s == [u.attempts EXCEPT ![n] = x]
<1>1. u.attempts \in Seq(Attempt) /\ Len(u.attempts) \in Nat
  BY LenProperties DEF Trace
<1>2. s \in Seq(Attempt) /\ Len(s) = Len(u.attempts)
      /\ \A i \in 1..Len(u.attempts) : s[i] = IF i = n THEN x ELSE u.attempts[i]
  BY <1>1, ExceptSeq
<1>3. s # <<>>
  BY <1>1, <1>2, EmptySeq
<1> DEFINE v == [u EXCEPT !.attempts = s]
<1> HIDE DEF s
<1>4. /\ v \in Trace /\ v.stage = u.stage /\ SameOutcome(v, u) /\ v.rewrites = u.rewrites /\ v.attempts = s
  BY <1>2 DEF Trace, SameOutcome
<1> HIDE DEF v
<1>5. \A i \in 1..Len(u.attempts) : v.attempts[i].number = i /\ (i # n => v.attempts[i] = u.attempts[i])
  BY <1>2, <1>4
<1>6. v.attempts[n] = x
  BY <1>2, <1>4
<1> QED BY <1>2, <1>3, <1>4, <1>5, <1>6 DEF Replaced, v, s

LEMMA AttemptFinished ==
  ASSUME NEW u \in Trace, NEW n \in 1..Len(u.attempts), \A i \in 1..Len(u.attempts) : u.attempts[i].number = i
  PROVE  LET v == FinishAttempt(u, n)
         IN  /\ v \in Trace /\ v.stage = u.stage /\ SameOutcome(v, u) /\ v.rewrites = u.rewrites
             /\ Len(v.attempts) = Len(u.attempts) /\ v.attempts # <<>>
             /\ \A i \in 1..Len(u.attempts) : v.attempts[i].number = i /\ (i # n => v.attempts[i] = u.attempts[i])
             /\ ~v.attempts[n].open /\ v.attempts[n].reranked = u.attempts[n].reranked
             /\ v.attempts[n].sufficient = u.attempts[n].sufficient
<1> DEFINE x == [u.attempts[n] EXCEPT !.open = FALSE]
<1>1. u.attempts \in Seq(Attempt) /\ DOMAIN u.attempts = 1..Len(u.attempts) /\ u.attempts[n] \in Attempt
  BY LenProperties, ElementOfSeq DEF Trace
<1>2. x \in Attempt /\ x.number = n /\ ~x.open /\ x.reranked = u.attempts[n].reranked
      /\ x.sufficient = u.attempts[n].sufficient
  BY <1>1 DEF Attempt
<1>3. FinishAttempt(u, n) = Replaced(u, n, x)
  BY <1>1, AttemptPlace DEF FinishAttempt, Trace, Replaced
<1> HIDE DEF x
<1> DEFINE v == Replaced(u, n, x)
<1>4. /\ v \in Trace /\ v.stage = u.stage /\ SameOutcome(v, u) /\ v.rewrites = u.rewrites
      /\ Len(v.attempts) = Len(u.attempts) /\ v.attempts # <<>>
      /\ \A i \in 1..Len(u.attempts) : v.attempts[i].number = i /\ (i # n => v.attempts[i] = u.attempts[i])
      /\ v.attempts[n] = x
  BY <1>2, AttemptReplaced
<1> HIDE DEF v
<1>5. ~v.attempts[n].open /\ v.attempts[n].reranked = u.attempts[n].reranked
      /\ v.attempts[n].sufficient = u.attempts[n].sufficient
  BY <1>2, <1>4
<1>6. FinishAttempt(u, n) = v
  BY <1>3 DEF v
<1> QED
  <2> DEFINE w == FinishAttempt(u, n)
  <2>1. w = v
    BY <1>6
  <2> HIDE DEF w
  <2>2. /\ w \in Trace /\ w.stage = u.stage /\ SameOutcome(w, u) /\ w.rewrites = u.rewrites
        /\ Len(w.attempts) = Len(u.attempts) /\ w.attempts # <<>>
        /\ \A i \in 1..Len(u.attempts) : w.attempts[i].number = i /\ (i # n => w.attempts[i] = u.attempts[i])
    BY <1>4, <2>1
  <2>3. ~w.attempts[n].open /\ w.attempts[n].reranked = u.attempts[n].reranked
        /\ w.attempts[n].sufficient = u.attempts[n].sufficient
    BY <1>5, <2>1
  <2> QED BY <2>2, <2>3 DEF w

LEMMA EvidenceRecorded ==
  ASSUME NEW u \in Trace, NEW n \in 1..Len(u.attempts), \A i \in 1..Len(u.attempts) : u.attempts[i].number = i,
         NEW reranked \in BOOLEAN, NEW sufficient \in BOOLEAN
  PROVE  LET v == RecordEvidence(u, n, reranked, sufficient)
         IN  /\ v \in Trace /\ v.stage = u.stage /\ SameOutcome(v, u) /\ v.rewrites = u.rewrites
             /\ Len(v.attempts) = Len(u.attempts) /\ v.attempts # <<>>
             /\ \A i \in 1..Len(u.attempts) : v.attempts[i].number = i /\ (i # n => v.attempts[i] = u.attempts[i])
             /\ v.attempts[n].open = u.attempts[n].open /\ v.attempts[n].reranked = reranked
             /\ v.attempts[n].sufficient = IF sufficient THEN "yes" ELSE "no"
<1> DEFINE said == IF sufficient THEN "yes" ELSE "no"
           x == [u.attempts[n] EXCEPT !.reranked = reranked]
           v == Replaced(u, n, x)
           y == [v.attempts[n] EXCEPT !.sufficient = said]
           w == Replaced(v, n, y)
<1>1. u.attempts \in Seq(Attempt) /\ DOMAIN u.attempts = 1..Len(u.attempts) /\ u.attempts[n] \in Attempt
  BY LenProperties, ElementOfSeq DEF Trace
<1>2. said \in {None, "yes", "no"}
  OBVIOUS
<1>3. RecordEvidence(u, n, reranked, sufficient) = w
  BY <1>1, AttemptPlace DEF RecordEvidence, Trace, Replaced
<1> HIDE DEF said
<1>4. x \in Attempt /\ x.number = n /\ x.open = u.attempts[n].open /\ x.reranked = reranked
  BY <1>1 DEF Attempt
<1> HIDE DEF x
<1>5. /\ v \in Trace /\ v.stage = u.stage /\ SameOutcome(v, u) /\ v.rewrites = u.rewrites
      /\ Len(v.attempts) = Len(u.attempts) /\ v.attempts # <<>>
      /\ \A i \in 1..Len(u.attempts) : v.attempts[i].number = i /\ (i # n => v.attempts[i] = u.attempts[i])
      /\ v.attempts[n] = x
  BY <1>4, AttemptReplaced, SMTT(30)
<1> HIDE DEF v
<1>6. y \in Attempt /\ y.number = n /\ y.open = x.open /\ y.reranked = reranked /\ y.sufficient = said
  BY <1>2, <1>4, <1>5 DEF Attempt
<1> HIDE DEF y
<1>7. /\ w \in Trace /\ w.stage = v.stage /\ SameOutcome(w, v) /\ w.rewrites = v.rewrites
      /\ Len(w.attempts) = Len(v.attempts) /\ w.attempts # <<>>
      /\ \A i \in 1..Len(v.attempts) : w.attempts[i].number = i /\ (i # n => w.attempts[i] = v.attempts[i])
      /\ w.attempts[n] = y
  BY <1>5, <1>6, AttemptReplaced
<1> HIDE DEF w
<1>8. w.stage = u.stage /\ SameOutcome(w, u) /\ w.rewrites = u.rewrites /\ Len(w.attempts) = Len(u.attempts)
  BY <1>5, <1>7 DEF SameOutcome
<1>9. \A i \in 1..Len(u.attempts) : w.attempts[i].number = i /\ (i # n => w.attempts[i] = u.attempts[i])
  BY <1>5, <1>7
<1>10. w.attempts[n].open = u.attempts[n].open /\ w.attempts[n].reranked = reranked
       /\ w.attempts[n].sufficient = IF sufficient THEN "yes" ELSE "no"
  BY <1>4, <1>6, <1>7 DEF said
<1> QED BY <1>3, <1>7, <1>8, <1>9, <1>10

-----------------------------------------------------------------------------
(* What the trace and the history say. *)

\* The rewrites of the question itself.
First == IF r.question = "rewritten" THEN 1 ELSE 0

\* Attempts and rewrites are counted by the request; only the attempt under way is open.
TriesInv ==
  /\ r.rewrites <= MaxRewrites
  /\ IF t.attempts = <<>> THEN r.rewrites = 0 ELSE Len(t.attempts) = r.rewrites + 1
  /\ \A i \in 1..Len(t.attempts) :
       /\ t.attempts[i].number = i
       /\ t.attempts[i].open => i = Len(t.attempts) /\ r.pc = "retrieve"
  /\ r.pc \in {"retrieve", "rewrite", "abstain"} => t.attempts # <<>> /\ r.path \in {"langgraph", "hybrid", "vector"}
  /\ r.pc \in Early \cup {"resolve", "grounded"} => t.attempts = <<>>
  /\ r.pc = "rewrite" => ShouldRewrite
  /\ r.path \in {"hybrid", "vector"} => r.rewrites = 0
  /\ r.pc \in {"start", "followup"} => r.question = "asked"
  /\ Len(t.rewrites) = r.rewrites + First
  /\ \A i \in 1..Len(t.rewrites) : t.rewrites[i] = i - First

\* The outcome of an answer that is not yet stored.
Told ==
  /\ t.final = r.answer
  /\ t.outcome = "ABSTAINED" <=> r.answer \in {"not_indexed", "not_found", "no_evidence"} /\ r.path # "summary"
  /\ t.reason = "EVIDENCE_REJECTED" => t.attempts[Len(t.attempts)].sufficient = "no" /\ AllFound # {}
  /\ t.reason = "NO_RETRIEVAL_EVIDENCE" => AllFound = {}

OutcomeInv ==
  /\ r.pc \notin Settling => t.final = None /\ t.outcome = None /\ t.reason = None /\ t.error = None
  /\ r.pc = "abstain" =>
       IF r.path = "vector" THEN AllFound = {}
       ELSE /\ t.attempts[Len(t.attempts)].reranked = (AllFound # {})
            /\ t.attempts[Len(t.attempts)].sufficient = "no"
  /\ r.pc = "persist" => Told /\ t.error = None /\ t.outcome # "FAILED" /\ t.stage = "persistence"
  /\ OutcomeIsTold

HistoryInv ==
  /\ r.pc \notin {"returned", "raised"} => stored = <<>>
  /\ HistoryIsTheAnswer

TraceInv == t \in Trace /\ TriesInv /\ OutcomeInv /\ HistoryInv

LEMMA InitialTrace == InitA => TraceInv
<1> SUFFICES ASSUME InitA PROVE TraceInv
  OBVIOUS
<1>1. /\ r.pc = "start" /\ r.rewrites = 0 /\ r.question = "asked" /\ r.path = None /\ stored = <<>>
      /\ t.attempts = <<>> /\ t.rewrites = <<>> /\ t.final = None /\ t.outcome = None /\ t.reason = None
      /\ t.error = None
  BY DEF InitA, Request, NewTrace
<1>2. t \in Trace
  <2>1. <<>> \in Seq(Attempt) /\ <<>> \in Seq(Nat)
    BY EmptySeq
  <2> QED BY <2>1 DEF InitA, NewTrace, Trace, Stages, Answers, Outcomes, Reasons
<1>3. TriesInv
  BY <1>1, AnsweringAssumption DEF TriesInv, First, None
<1>4. OutcomeInv /\ HistoryInv
  BY <1>1 DEF OutcomeInv, OutcomeIsTold, Ended, HistoryInv, HistoryIsTheAnswer, Settling
<1> QED BY <1>2, <1>3, <1>4 DEF TraceInv

\* A step of the request between two that retrieve, answer or raise.
LEMMA MoveTells ==
  ASSUME TraceInv, r' \in Req, t' \in Trace, stored' = stored,
         r.pc \notin Settling \cup {"retrieve"}, r'.pc \notin Settling \cup {"retrieve", "rewrite", "abstain"},
         r'.rewrites = r.rewrites, r'.question = r.question,
         r'.path \in {"hybrid", "vector"} => r'.path = r.path,
         r'.pc \in Early \cup {"resolve", "grounded"} => t.attempts = <<>>,
         r'.pc \in {"start", "followup"} => r.pc \in {"start", "followup"},
         SameTries(t', t), SameOutcome(t', t)
  PROVE  TraceInv'
<1>1. TriesInv'
  BY DEF TraceInv, TriesInv, First, SameTries
<1>2. OutcomeInv' /\ HistoryInv'
  BY DEF TraceInv, OutcomeInv, HistoryInv, HistoryIsTheAnswer, OutcomeIsTold, Ended, SameOutcome, Settling
<1> QED BY <1>1, <1>2 DEF TraceInv

LEMMA StandsTells ==
  ASSUME TraceInv, r' = r, t' = t, stored' = stored
  PROVE  TraceInv'
<1>1. TriesInv'
  BY DEF TraceInv, TriesInv, First, ShouldRewrite
<1>2. AllFound' = AllFound /\ Told' = Told
  BY DEF AllFound, Told
<1>3. OutcomeInv'
  BY <1>2 DEF TraceInv, OutcomeInv, OutcomeIsTold, Ended
<1>4. HistoryInv'
  BY DEF TraceInv, HistoryInv, HistoryIsTheAnswer
<1> QED BY <1>1, <1>3, <1>4 DEF TraceInv

\* The tries of a request that leaves retrieval alone.
LEMMA TriesStay ==
  ASSUME TriesInv, r' \in Req, r'.pc \in Settling, r'.rewrites = r.rewrites, r'.question = r.question,
         r'.path = r.path, SameTries(t', t), r.pc # "retrieve"
  PROVE  TriesInv'
BY DEF TriesInv, First, SameTries, Settling, Early

LEMMA RaiseTells ==
  ASSUME AnswerInv, TraceInv, NEW tr \in Trace, SameTries(tr, t), RaiseFrom(tr),
         r.pc \notin {"retrieve", "returned", "raised"}
  PROVE  TraceInv'
<1>1. Go("raised") /\ t' = Finish(RecordError(tr, tr.stage)) /\ stored' = stored /\ "raised" \in Pcs
      /\ tr.stage \in Stages
  BY DEF RaiseFrom, Pcs, Settling, Trace
<1>2. r' \in Req /\ r'.pc = "raised" /\ r'.rewrites = r.rewrites /\ r'.question = r.question /\ r'.path = r.path
  BY <1>1, GoType
<1>3. t' \in Trace /\ t'.finished /\ SameTries(t', t) /\ t'.outcome = "FAILED" /\ t'.error # None
  <2>1. /\ RecordError(tr, tr.stage) \in Trace /\ SameTries(RecordError(tr, tr.stage), tr)
        /\ RecordError(tr, tr.stage).outcome = "FAILED" /\ RecordError(tr, tr.stage).error # None
    BY <1>1, ErrorRecorded
  <2> QED BY <1>1, <2>1, Finished DEF SameTries
<1>4. TriesInv'
  BY <1>2, <1>3, TriesStay DEF TraceInv, Settling
<1>5. OutcomeInv'
  BY <1>2, <1>3 DEF OutcomeInv, OutcomeIsTold, Ended, Settling
<1>6. HistoryInv'
  BY <1>1 DEF TraceInv, HistoryInv, HistoryIsTheAnswer
<1> QED BY <1>3, <1>4, <1>5, <1>6 DEF TraceInv

LEMMA AnswerTells ==
  ASSUME AnswerInv, AnswerInv', TraceInv, NEW answer \in Answers, NEW cites \in SUBSET Passages, NEW tr \in Trace,
         SameTries(tr, t), Answer(answer, cites, tr), r.pc \notin Settling \cup {"retrieve"},
         tr.final = answer, tr.error = None, tr.outcome # "FAILED",
         tr.outcome = "ABSTAINED" <=> answer \in {"not_indexed", "not_found", "no_evidence"} /\ r.path # "summary",
         tr.reason = "EVIDENCE_REJECTED" => t.attempts[Len(t.attempts)].sufficient = "no" /\ AllFound # {},
         tr.reason = "NO_RETRIEVAL_EVIDENCE" => AllFound = {}
  PROVE  TraceInv'
<1>1. /\ r \in Req /\ r' \in Req /\ r' = [r EXCEPT !.pc = "persist", !.answer = answer, !.cites = cites]
      /\ t' = SetStage(tr, "persistence") /\ stored' = stored /\ "persistence" \in Stages
  BY DEF AnswerInv, TypeOKA, Answer, Quiet, Stages
<1>2. /\ r'.pc = "persist" /\ r'.path = r.path /\ r'.src = r.src /\ r'.rewrites = r.rewrites
      /\ r'.question = r.question /\ r'.answer = answer
  BY <1>1 DEF Req
<1>3. t' \in Trace /\ t'.stage = "persistence" /\ SameTries(t', t) /\ SameOutcome(t', tr)
  BY <1>1, StageSet DEF SameTries
<1>4. TriesInv'
  BY <1>1, <1>2, <1>3, TriesStay DEF TraceInv, Settling
<1>5. AllFound' = AllFound /\ t'.attempts = t.attempts
  BY <1>2, <1>3 DEF AllFound, SameTries
<1>6. Told' /\ t'.error = None /\ t'.outcome # "FAILED"
  BY <1>2, <1>3, <1>5 DEF Told, SameOutcome
<1>7. OutcomeInv'
  BY <1>2, <1>3, <1>6 DEF OutcomeInv, OutcomeIsTold, Ended, Settling
<1>8. HistoryInv'
  BY <1>1, <1>2 DEF TraceInv, HistoryInv, HistoryIsTheAnswer, Settling
<1> QED BY <1>3, <1>4, <1>7, <1>8 DEF TraceInv

\* Before an answer there is nothing in the trace about it.
LEMMA Untold ==
  ASSUME TraceInv, r.pc \notin Settling
  PROVE  t \in Trace /\ t.final = None /\ t.outcome = None /\ t.reason = None /\ t.error = None
BY DEF TraceInv, OutcomeInv

LEMMA CompleteTells ==
  ASSUME AnswerInv, AnswerInv', TraceInv, NEW answer \in Answers \ {"not_indexed", "not_found", "no_evidence"},
         NEW citable \in SUBSET Passages, Complete(answer, citable), r.pc \notin Settling \cup {"retrieve"}
  PROVE  TraceInv'
<1> DEFINE tr == SetStage(t, "generation")
<1>1. tr \in Trace /\ SameTries(tr, t) /\ SameOutcome(tr, t) /\ t.error = None /\ t.reason = None
  BY Untold, StageSet DEF Stages
<1> HIDE DEF tr
<1>2. CASE RaiseFrom(tr)
  BY <1>1, <1>2, RaiseTells DEF Settling
<1>3. CASE \E cites \in SUBSET citable : Answer(answer, cites, RecordFinal(tr, answer))
  <2>1. PICK cites \in SUBSET citable : Answer(answer, cites, RecordFinal(tr, answer))
    BY <1>3
  <2> DEFINE v == RecordFinal(tr, answer)
  <2>2. /\ v \in Trace /\ SameTries(v, t) /\ v.final = answer /\ v.outcome = "ANSWERED"
        /\ v.reason = None /\ v.error = None
    BY <1>1, FinalRecorded DEF SameTries, SameOutcome
  <2> HIDE DEF v
  <2>3. v.reason # "EVIDENCE_REJECTED" /\ v.reason # "NO_RETRIEVAL_EVIDENCE"
    BY <2>2 DEF None
  <2>4. Answer(answer, cites, v) /\ cites \in SUBSET Passages
    BY <2>1 DEF v
  <2> QED BY <2>2, <2>3, <2>4, AnswerTells
<1> QED BY <1>2, <1>3 DEF Complete, tr

-----------------------------------------------------------------------------
(* Every step keeps the trace true. *)

LEMMA RouteTells == ASSUME AnswerInv, AnswerInv', TraceInv, Reject \/ Begin \/ ResolveUser PROVE TraceInv'
<1>1. r \in Req /\ r' \in Req /\ t \in Trace
  BY DEF AnswerInv, TypeOKA, TraceInv
<1>2. CASE Reject
  BY <1>1, <1>2, RaiseTells DEF Reject, SameTries
<1>3. CASE Begin
  <2>1. PICK route \in Routes, pc \in {"followup", "user"} : r' = [r EXCEPT !.route = route, !.pc = pc]
    BY <1>3 DEF Begin
  <2>2. r'.pc = pc /\ r'.rewrites = r.rewrites /\ r'.question = r.question /\ r'.path = r.path
    BY <1>1, <2>1 DEF Req
  <2>3. r.pc = "start" /\ t' = t /\ stored' = stored /\ t.attempts = <<>>
    BY <1>3 DEF Begin, Quiet, TraceInv, TriesInv, Early
  <2> QED BY <1>1, <2>2, <2>3, MoveTells DEF SameTries, SameOutcome, Settling
<1>4. CASE ResolveUser
  <2>1. r.pc = "user" /\ t.attempts = <<>> /\ r.route \in Routes
    BY <1>4 DEF ResolveUser, TraceInv, TriesInv, Early, AnswerInv, TypeOKA
  <2>2. CASE RaiseFrom(SetStage(t, "user_resolution"))
    <3>1. SetStage(t, "user_resolution") \in Trace /\ SameTries(SetStage(t, "user_resolution"), t)
      BY <1>1, StageSet DEF Stages
    <3> QED BY <2>1, <2>2, <3>1, RaiseTells
  <2>3. CASE ~RaiseFrom(SetStage(t, "user_resolution"))
    <3>1. r' = [r EXCEPT !.pc = r.route, !.path = r.route] /\ t' = SetStage(t, "routing") /\ stored' = stored
      BY <1>4, <2>3 DEF ResolveUser, Quiet
    <3>2. r'.pc = r.route /\ r'.rewrites = r.rewrites /\ r'.question = r.question /\ r'.path = r.route
      BY <1>1, <3>1 DEF Req
    <3>3. t' \in Trace /\ SameTries(t', t) /\ SameOutcome(t', t)
      BY <1>1, <3>1, StageSet DEF Stages
    <3> QED BY <1>1, <2>1, <3>1, <3>2, <3>3, MoveTells DEF Settling, Routes
  <2> QED BY <2>2, <2>3
<1> QED BY <1>2, <1>3, <1>4

LEMMA FollowupTells == ASSUME AnswerInv, AnswerInv', TraceInv, RewriteFollowup PROVE TraceInv'
<1>1. /\ r \in Req /\ r' \in Req /\ t \in Trace /\ r.pc = "followup" /\ t.attempts = <<>>
      /\ r.rewrites = 0 /\ r.question = "asked"
  BY DEF AnswerInv, TypeOKA, TraceInv, TriesInv, Early, RewriteFollowup
<1>2. CASE RaiseFrom(t)
  BY <1>1, <1>2, RaiseTells DEF SameTries
<1>3. CASE Go("user") /\ UNCHANGED t /\ Quiet
  <2>1. r'.pc = "user" /\ r'.rewrites = r.rewrites /\ r'.question = r.question /\ r'.path = r.path
    BY <1>3, GoType DEF Pcs, Early
  <2> QED BY <1>1, <1>3, <2>1, MoveTells DEF Quiet, SameTries, SameOutcome, Settling
<1>4. CASE /\ \E route \in Routes : r' = [r EXCEPT !.pc = "user", !.question = "rewritten", !.route = route]
           /\ t' = RecordRewrite(t, 0) /\ Quiet
  <2>1. PICK route \in Routes : r' = [r EXCEPT !.pc = "user", !.question = "rewritten", !.route = route]
    BY <1>4
  <2>2. r'.pc = "user" /\ r'.rewrites = 0 /\ r'.question = "rewritten" /\ r'.path = r.path /\ stored' = stored
    BY <1>1, <1>4, <2>1 DEF Req, Quiet
  <2>3. t' \in Trace /\ SameOutcome(t', t) /\ t'.attempts = <<>> /\ t'.rewrites = Append(t.rewrites, 0)
    BY <1>1, <1>4, RewriteRecorded
  <2>4. t.rewrites \in Seq(Nat) /\ Len(t.rewrites) = 0
    BY <1>1 DEF TraceInv, TriesInv, First, Trace
  <2>5. Len(t'.rewrites) = 1 /\ t'.rewrites[1] = 0
    BY <2>3, <2>4, AppendProperties
  <2>6. TriesInv'
    BY <2>2, <2>3, <2>5, AnsweringAssumption DEF TraceInv, TriesInv, First, Early
  <2>7. OutcomeInv' /\ HistoryInv'
    BY <1>1, <2>2, <2>3 DEF TraceInv, OutcomeInv, HistoryInv, HistoryIsTheAnswer, OutcomeIsTold, Ended, SameOutcome, Settling
  <2> QED BY <2>3, <2>6, <2>7 DEF TraceInv
<1> QED BY <1>2, <1>3, <1>4 DEF RewriteFollowup

LEMMA RecallTells == ASSUME AnswerInv, AnswerInv', TraceInv, RecallHistory \/ Chitchat PROVE TraceInv'
<1>1. "recall" \in Answers /\ "direct" \in Answers /\ {} \in SUBSET Passages
  BY DEF Answers
<1>2. CASE RecallHistory
  <2> DEFINE v == RecordFinal(t, "recall")
  <2>1. t \in Trace /\ t.reason = None /\ t.error = None
    BY <1>2, Untold DEF RecallHistory, Settling
  <2>2. /\ v \in Trace /\ SameTries(v, t) /\ v.final = "recall" /\ v.outcome = "ANSWERED"
        /\ v.reason = None /\ v.error = None
    BY <1>1, <2>1, FinalRecorded
  <2>3. Answer("recall", {}, v) /\ r.pc = "history"
    BY <1>2 DEF RecallHistory
  <2> HIDE DEF v
  <2> QED BY <1>1, <2>2, <2>3, AnswerTells DEF Settling, None
<1>3. CASE Chitchat
  BY <1>1, <1>3, CompleteTells DEF Chitchat, Settling
<1> QED BY <1>2, <1>3

LEMMA ListsTell ==
  ASSUME AnswerInv, AnswerInv', TraceInv, ListInventory \/ ReadInventory \/ ListCollection \/ ReadCollection
  PROVE  TraceInv'
<1>1. r \in Req /\ r' \in Req /\ t \in Trace
  BY DEF AnswerInv, TypeOKA, TraceInv
<1>2. CASE ListCollection /\ RaiseFrom(SetStage(t, "collection_lookup"))
  <2>1. SetStage(t, "collection_lookup") \in Trace /\ SameTries(SetStage(t, "collection_lookup"), t)
    BY <1>1, StageSet DEF Stages
  <2> QED BY <1>2, <2>1, RaiseTells DEF ListCollection
<1>3. CASE ~(ListCollection /\ RaiseFrom(SetStage(t, "collection_lookup")))
  <2>1. /\ r.pc \in {"inventory", "inventory_text", "summary", "summary_rows"}
        /\ stored' = stored /\ t' \in {t, SetStage(t, "inventory_lookup"), SetStage(t, "collection_lookup")}
    BY <1>3 DEF ListInventory, ReadInventory, ListCollection, ReadCollection, Quiet
  <2>2. t' \in Trace /\ SameTries(t', t) /\ SameOutcome(t', t)
    <3>1. SameTries(t, t) /\ SameOutcome(t, t)
      BY DEF SameTries, SameOutcome
    <3> QED BY <1>1, <2>1, <3>1, StageSet DEF Stages
  <2>3. /\ r'.pc \in {"inventory_text", "inventory_answer", "summary_rows", "summary_answer"}
        /\ r'.rewrites = r.rewrites /\ r'.question = r.question /\ r'.path = r.path
    <3>1. CASE ListInventory
      BY <1>1, <3>1 DEF ListInventory, Req
    <3>2. CASE ReadInventory
      BY <1>1, <3>2 DEF ReadInventory, Req
    <3>3. CASE ListCollection
      BY <1>1, <1>3, <3>3 DEF ListCollection, Req
    <3>4. CASE ReadCollection
      BY <1>1, <3>4 DEF ReadCollection, Req, Go
    <3> QED BY <3>1, <3>2, <3>3, <3>4
  <2> QED BY <1>1, <2>1, <2>2, <2>3, MoveTells, SMTT(30) DEF Settling, Early
<1> QED BY <1>2, <1>3

LEMMA ListAnswersTell == ASSUME AnswerInv, AnswerInv', TraceInv, AnswerInventory \/ AnswerCollection PROVE TraceInv'
<1>1. /\ "inventory" \in Answers \ {"not_indexed", "not_found", "no_evidence"}
      /\ "summary" \in Answers \ {"not_indexed", "not_found", "no_evidence"}
      /\ "no_evidence" \in Answers /\ {} \in SUBSET Passages /\ r.passages \in SUBSET Passages
  BY DEF Answers, AnswerInv, TypeOKA, Req
<1>2. CASE AnswerInventory
  BY <1>1, <1>2, CompleteTells DEF AnswerInventory, Settling
<1>3. CASE AnswerCollection /\ r.files # {}
  BY <1>1, <1>3, CompleteTells DEF AnswerCollection, Settling
<1>4. CASE AnswerCollection /\ r.files = {}
  <2> DEFINE u == SetStage(t, "generation")
             v == RecordFinal(u, "no_evidence")
  <2>1. r.pc = "summary_answer" /\ r.path = "summary" /\ Answer("no_evidence", {}, v)
    BY <1>4 DEF AnswerCollection, AnswerInv, ServedInv
  <2>2. t \in Trace /\ t.reason = None /\ t.error = None
    BY <2>1, Untold DEF Settling
  <2>3. u \in Trace /\ SameTries(u, t) /\ SameOutcome(u, t)
    BY <2>2, StageSet DEF Stages
  <2> HIDE DEF u
  <2>4. /\ v \in Trace /\ SameTries(v, t) /\ v.final = "no_evidence" /\ v.outcome = "ANSWERED"
        /\ v.reason = None /\ v.error = None
    BY <1>1, <2>2, <2>3, FinalRecorded, ZenonT(40) DEF SameTries, SameOutcome
  <2> HIDE DEF v
  <2> QED BY <1>1, <2>1, <2>4, AnswerTells DEF Settling, None
<1> QED BY <1>2, <1>3, <1>4

LEMMA TargetsTell ==
  ASSUME AnswerInv, AnswerInv', TraceInv, ExtractTargets \/ ResolveTarget \/ LoadTarget
  PROVE  TraceInv'
<1>1. r \in Req /\ r' \in Req /\ t \in Trace /\ r.pc \in {"target", "resolve"} /\ t.attempts = <<>> /\ r.path # "summary"
  BY DEF AnswerInv, TypeOKA, ServedInv, TraceInv, TriesInv, Early, ExtractTargets, ResolveTarget, LoadTarget
<1>2. t.reason = None /\ t.error = None
  BY <1>1, Untold DEF Settling
<1>3. CASE /\ r'.pc \in {"grounded", "resolve", "generate"}
           /\ r'.rewrites = r.rewrites /\ r'.question = r.question /\ r'.path = r.path
           /\ t' \in {t, SetStage(t, "file_target_lookup")} /\ stored' = stored
  <2>1. t' \in Trace /\ SameTries(t', t) /\ SameOutcome(t', t)
    <3>1. SameTries(t, t) /\ SameOutcome(t, t)
      BY DEF SameTries, SameOutcome
    <3> QED BY <1>1, <1>3, <3>1, StageSet DEF Stages
  <2> QED BY <1>1, <1>3, <2>1, MoveTells DEF Settling, Early
<1>4. ASSUME NEW answer \in {"not_found", "not_indexed"}, NEW reason \in {"FILE_NOT_FOUND", "FILE_NOT_INDEXED"},
             Answer(answer, {}, RecordAbstention(t, reason, answer))
      PROVE  TraceInv'
  <2> DEFINE v == RecordAbstention(t, reason, answer)
  <2>1. answer \in Answers /\ reason \in Reasons /\ {} \in SUBSET Passages
    BY DEF Answers, Reasons
  <2>2. /\ v \in Trace /\ SameTries(v, t) /\ v.final = answer /\ v.outcome = "ABSTAINED"
        /\ v.reason = reason /\ v.error = None
    BY <1>1, <1>2, <2>1, AbstentionRecorded
  <2>3. Answer(answer, {}, v)
    BY <1>4
  <2> HIDE DEF v
  <2> QED BY <1>1, <2>1, <2>2, <2>3, AnswerTells DEF Settling
<1>5. CASE ExtractTargets
  <2>1. /\ r'.pc \in {"grounded", "resolve"}
        /\ r'.rewrites = r.rewrites /\ r'.question = r.question /\ r'.path = r.path
    BY <1>1, <1>5, ZenonT(40) DEF ExtractTargets, Go, Req
  <2> QED BY <1>3, <1>5, <2>1 DEF ExtractTargets, Quiet
<1>6. CASE ResolveTarget
  <2>1. PICK f \in r.todo :
          r' = [r EXCEPT !.todo = @ \ {f},
                        !.files = IF status[f] = "SKIPPED" THEN @ ELSE @ \cup WithStatus({f})]
    BY <1>6 DEF ResolveTarget
  <2>2. /\ r'.pc = r.pc /\ r.pc = "resolve"
        /\ r'.rewrites = r.rewrites /\ r'.question = r.question /\ r'.path = r.path
    BY <1>1, <1>6, <2>1 DEF ResolveTarget, Req
  <2> QED BY <1>3, <1>6, <2>2 DEF ResolveTarget, Quiet
<1>7. CASE LoadTarget
  <2> DEFINE ps == {p \in Eligible : <<p[1], "INDEXED">> \in r.files}
  <2>1. CASE r.files # {} /\ ps # {}
    <3>1. r' = [r EXCEPT !.pc = "generate", !.passages = ps] /\ t' = t /\ stored' = stored
      BY <1>7, <2>1 DEF LoadTarget, Quiet
    <3> HIDE DEF ps
    <3>2. r'.pc = "generate" /\ r'.rewrites = r.rewrites /\ r'.question = r.question /\ r'.path = r.path
      BY <1>1, <3>1 DEF Req
    <3> QED BY <1>3, <3>1, <3>2
  <2>2. CASE r.files = {} \/ ps = {}
    BY <1>4, <1>7, <2>2 DEF LoadTarget
  <2> QED BY <2>1, <2>2
<1> QED BY <1>5, <1>6, <1>7

LEMMA StartTells == ASSUME AnswerInv, AnswerInv', TraceInv, StartRetrieval PROVE TraceInv'
<1>1. /\ r \in Req /\ r' \in Req /\ t \in Trace /\ r.pc = "grounded" /\ stored' = stored
      /\ t.attempts = <<>> /\ r.rewrites = 0
  BY DEF AnswerInv, TypeOKA, TraceInv, TriesInv, Early, StartRetrieval, Quiet
<1>2. PICK path \in {"langgraph", "hybrid", "vector"} : \E plan :
        r' = [r EXCEPT !.pc = "retrieve", !.path = path, !.src = Searching(plan)]
  BY DEF StartRetrieval
<1>3. r'.pc = "retrieve" /\ r'.path = path /\ r'.rewrites = 0 /\ r'.question = r.question
  BY <1>1, <1>2 DEF Req
<1> DEFINE u == SetStage(t, "retrieval")
<1>4. u \in Trace /\ SameTries(u, t) /\ SameOutcome(u, t) /\ t' = BeginAttempt(u, 1)
  BY <1>1, StageSet DEF Stages, StartRetrieval
<1> HIDE DEF u
<1>5. Len(u.attempts) = 0
  BY <1>1, <1>4, EmptySeq DEF SameTries
<1>6. /\ t' \in Trace /\ SameOutcome(t', t) /\ t'.rewrites = t.rewrites
      /\ Len(t'.attempts) = 1 /\ t'.attempts[1].number = 1 /\ t'.attempts # <<>>
  <2>1. /\ t' \in Trace /\ SameOutcome(t', u) /\ t'.rewrites = u.rewrites
        /\ Len(t'.attempts) = Len(u.attempts) + 1 /\ t'.attempts[Len(u.attempts) + 1].number = 1 /\ t'.attempts # <<>>
    BY <1>4, AttemptBegun
  <2>2. SameOutcome(t', t) /\ t'.rewrites = t.rewrites
    BY <1>4, <2>1 DEF SameTries, SameOutcome
  <2>3. Len(u.attempts) + 1 = 1
    BY <1>5
  <2> QED BY <2>1, <2>2, <2>3
<1>7. TriesInv'
  <2>1. \A i \in 1..Len(t'.attempts) : t'.attempts[i].number = i /\ i = Len(t'.attempts)
    BY <1>6
  <2> QED BY <1>1, <1>3, <1>6, <2>1 DEF TraceInv, TriesInv, First, Early
<1>8. OutcomeInv' /\ HistoryInv'
  BY <1>1, <1>3, <1>6 DEF TraceInv, OutcomeInv, HistoryInv, HistoryIsTheAnswer, OutcomeIsTold, Ended, SameOutcome, Settling
<1> QED BY <1>6, <1>7, <1>8 DEF TraceInv

LEMMA RewriteTells == ASSUME AnswerInv, AnswerInv', TraceInv, RewriteQuery PROVE TraceInv'
<1> DEFINE n == r.rewrites + 1
           u == RecordRewrite(t, n)
           v == SetStage(u, "retrieval")
<1>1. /\ r \in Req /\ r' \in Req /\ t \in Trace /\ r.pc = "rewrite" /\ stored' = stored /\ r.rewrites \in Nat
      /\ r.path = "langgraph" /\ r.rewrites < MaxRewrites /\ t.attempts # <<>>
  BY ZenonT(40) DEF AnswerInv, TypeOKA, Req, TraceInv, TriesInv, RewriteQuery, Quiet, ShouldRewrite
<1>2. PICK plan : r' = [r EXCEPT !.pc = "retrieve", !.rewrites = n, !.src = Searching(plan)]
  BY DEF RewriteQuery
<1>3. r'.pc = "retrieve" /\ r'.path = "langgraph" /\ r'.rewrites = n /\ r'.question = r.question
  BY <1>1, <1>2 DEF Req
<1>4. n \in Nat /\ n <= MaxRewrites /\ t' = BeginAttempt(v, n + 1)
  BY <1>1, AnsweringAssumption DEF RewriteQuery
<1>5. /\ Len(t.attempts) = n /\ (\A i \in 1..n : t.attempts[i].number = i /\ ~t.attempts[i].open)
      /\ Len(t.rewrites) = r.rewrites + First /\ \A i \in 1..Len(t.rewrites) : t.rewrites[i] = i - First
  BY <1>1 DEF TraceInv, TriesInv
<1> HIDE DEF n
<1>6. u \in Trace /\ SameOutcome(u, t) /\ u.attempts = t.attempts /\ u.rewrites = Append(t.rewrites, n)
  BY <1>1, <1>4, RewriteRecorded
<1> HIDE DEF u
<1>7. v \in Trace /\ SameOutcome(v, t) /\ v.attempts = t.attempts /\ v.rewrites = Append(t.rewrites, n)
  BY <1>6, StageSet DEF Stages, SameTries, SameOutcome
<1> HIDE DEF v
<1>8. /\ t' \in Trace /\ SameOutcome(t', t) /\ t'.rewrites = Append(t.rewrites, n)
      /\ Len(t'.attempts) = n + 1 /\ t'.attempts[n + 1].number = n + 1 /\ t'.attempts # <<>>
      /\ \A i \in 1..n : t'.attempts[i] = t.attempts[i]
  <2>1. n + 1 \in Nat /\ Len(v.attempts) = n
    BY <1>4, <1>5, <1>7
  <2>2. /\ t' \in Trace /\ SameOutcome(t', v) /\ t'.rewrites = v.rewrites
        /\ Len(t'.attempts) = n + 1 /\ t'.attempts[n + 1].number = n + 1 /\ t'.attempts # <<>>
        /\ \A i \in 1..n : t'.attempts[i] = v.attempts[i]
    BY <1>4, <1>7, <2>1, AttemptBegun, ZenonT(40)
  <2>3. SameOutcome(t', t)
    BY <1>7, <2>2 DEF SameOutcome
  <2> QED BY <1>7, <2>2, <2>3
<1>9. \A i \in 1..Len(t'.attempts) : t'.attempts[i].number = i /\ (t'.attempts[i].open => i = n + 1)
  BY <1>4, <1>5, <1>8
<1>10. /\ Len(t'.rewrites) = n + First /\ \A i \in 1..Len(t'.rewrites) : t'.rewrites[i] = i - First
  <2>1. t.rewrites \in Seq(Nat) /\ First \in Nat
    BY <1>1 DEF Trace, First
  <2>2. /\ Len(t'.rewrites) = Len(t.rewrites) + 1 /\ t'.rewrites[Len(t.rewrites) + 1] = n
        /\ \A i \in 1..Len(t.rewrites) : t'.rewrites[i] = t.rewrites[i]
    <3>1. t'.rewrites = Append(t.rewrites, n)
      BY <1>8
    <3> QED BY <1>4, <2>1, <3>1, AppendProperties, SMTT(30)
  <2>3. Len(t.rewrites) + 1 = n + First
    BY <1>1, <1>5, <2>1 DEF n
  <2>4. \A i \in 1..Len(t'.rewrites) : i \in 1..Len(t.rewrites) \/ i = Len(t.rewrites) + 1
    BY <2>1, <2>2, LenProperties
  <2>5. n = Len(t.rewrites) + 1 - First
    BY <1>4, <2>1, <2>3, LenProperties
  <2> SUFFICES ASSUME NEW i \in 1..Len(t'.rewrites) PROVE t'.rewrites[i] = i - First
    BY <2>2, <2>3
  <2>6. CASE i \in 1..Len(t.rewrites)
    BY <1>5, <2>2, <2>6
  <2>7. CASE i = Len(t.rewrites) + 1
    <3>1. t'.rewrites[i] = n
      BY <2>2, <2>7
    <3>2. n = i - First
      BY <1>4, <2>1, <2>5, <2>7, LenProperties
    <3> QED BY <3>1, <3>2
  <2> QED BY <2>4, <2>6, <2>7
<1>11. First' = First
  BY <1>3 DEF First
<1>12. TriesInv'
  BY <1>3, <1>4, <1>8, <1>9, <1>10, <1>11 DEF TriesInv, Early
<1>13. OutcomeInv' /\ HistoryInv'
  BY <1>1, <1>3, <1>8 DEF TraceInv, OutcomeInv, HistoryInv, HistoryIsTheAnswer, OutcomeIsTold, Ended, SameOutcome, Settling
<1> QED BY <1>8, <1>12, <1>13, SMTT(30) DEF TraceInv

\* While it retrieves, a request has one attempt open at most, the last.
LEMMA LastAttempt ==
  ASSUME AnswerInv, TraceInv, r.pc = "retrieve"
  PROVE  /\ t \in Trace /\ r.rewrites + 1 \in 1..Len(t.attempts) /\ Len(t.attempts) = r.rewrites + 1
         /\ \A i \in 1..Len(t.attempts) : t.attempts[i].number = i /\ (t.attempts[i].open => i = r.rewrites + 1)
BY DEF AnswerInv, TypeOKA, Req, TraceInv, TriesInv

\* Closing that attempt accounts for it.
LEMMA ClosedTries ==
  ASSUME AnswerInv, TraceInv, r.pc = "retrieve", r' \in Req, t'.rewrites = t.rewrites, t'.attempts # <<>>,
         Len(t'.attempts) = Len(t.attempts), \A i \in 1..Len(t.attempts) : t'.attempts[i].number = i,
         \A i \in 1..Len(t.attempts) : ~t'.attempts[i].open,
         r'.pc \in {"rewrite", "abstain", "generate", "raised"}, r'.pc = "rewrite" => ShouldRewrite,
         r'.rewrites = r.rewrites, r'.question = r.question, r'.path = r.path
  PROVE  TriesInv'
<1>1. /\ r.rewrites <= MaxRewrites /\ Len(t.attempts) = r.rewrites + 1 /\ r.path \in {"langgraph", "hybrid", "vector"}
      /\ (r.path \in {"hybrid", "vector"} => r.rewrites = 0) /\ Len(t.rewrites) = r.rewrites + First
      /\ \A i \in 1..Len(t.rewrites) : t.rewrites[i] = i - First
  BY DEF TraceInv, TriesInv
<1>2. First' = First /\ ShouldRewrite' = ShouldRewrite
  BY DEF First, ShouldRewrite
<1> QED BY <1>1, <1>2 DEF TriesInv, Early

LEMMA SourceTells ==
  ASSUME AnswerInv, AnswerInv', TraceInv, NEW s \in Sources, NEW does, NEW found, r.src[s].does \in {"search", "load"},
         Source(s, does, found), UNCHANGED t, Quiet
  PROVE  TraceInv'
<1>1. r \in Req /\ r.pc \in {"retrieve", "raised"} /\ stored' = stored
  BY DEF AnswerInv, TypeOKA, Quiet
<1>2. r'.pc = r.pc /\ r'.path = r.path /\ r'.rewrites = r.rewrites /\ r'.question = r.question /\ r'.cites = r.cites
  BY <1>1 DEF Source, Req
<1>3. TriesInv'
  BY <1>1, <1>2 DEF TraceInv, TriesInv, First, Early
<1>4. OutcomeInv' /\ HistoryInv'
  BY <1>1, <1>2 DEF TraceInv, OutcomeInv, HistoryInv, HistoryIsTheAnswer, OutcomeIsTold, Ended, Settling
<1> QED BY <1>3, <1>4 DEF TraceInv

LEMMA FailureTells == ASSUME AnswerInv, AnswerInv', TraceInv, NEW s \in Sources, SourceFails(s) PROVE TraceInv'
<1>1. r \in Req /\ r' \in Req /\ r.pc \in {"retrieve", "raised"} /\ stored' = stored /\ t \in Trace
      /\ "retrieval" \in Stages
  BY DEF AnswerInv, TypeOKA, Quiet, SourceFails, TraceInv, Stages
<1>2. /\ r'.pc = "raised" /\ r'.path = r.path /\ r'.rewrites = r.rewrites /\ r'.question = r.question
      /\ r'.cites = r.cites
  BY <1>1 DEF SourceFails, Req
<1> DEFINE u == RecordError(t, "retrieval")
<1>3. /\ u \in Trace /\ SameTries(u, t) /\ u.outcome = "FAILED" /\ u.error # None /\ u.finished = t.finished
      /\ u.final = t.final /\ (t.error # None => u.error = t.error)
  BY <1>1, ErrorRecorded
<1>4. CASE r.pc = "retrieve"
  <2> DEFINE n == r.rewrites + 1
             v == FinishAttempt(u, n)
  <2>1. t' = Finish(v)
    BY <1>4 DEF SourceFails
  <2>2. n \in 1..Len(u.attempts) /\ Len(u.attempts) = Len(t.attempts) /\ u.rewrites = t.rewrites
        /\ \A i \in 1..Len(u.attempts) : u.attempts[i].number = i /\ (u.attempts[i].open => i = n)
    BY <1>3, <1>4, LastAttempt DEF SameTries
  <2> HIDE DEF u, n
  <2>3. /\ v \in Trace /\ SameOutcome(v, u) /\ v.rewrites = u.rewrites
        /\ Len(v.attempts) = Len(u.attempts) /\ v.attempts # <<>>
        /\ \A i \in 1..Len(u.attempts) : v.attempts[i].number = i /\ (i # n => v.attempts[i] = u.attempts[i])
        /\ ~v.attempts[n].open
    BY <1>3, <2>2, AttemptFinished
  <2> HIDE DEF v
  <2>4. \A i \in 1..Len(t.attempts) : ~v.attempts[i].open
    BY <2>2, <2>3
  <2>5. t' \in Trace /\ t'.finished /\ SameTries(t', v) /\ t'.outcome = "FAILED" /\ t'.error # None
    BY <1>3, <2>1, <2>3, Finished DEF SameOutcome
  <2>6. TriesInv'
    BY <1>1, <1>2, <1>4, <2>2, <2>3, <2>4, <2>5, ClosedTries DEF SameTries
  <2>7. OutcomeInv'
    BY <1>2, <2>5 DEF OutcomeInv, OutcomeIsTold, Ended, Settling
  <2>8. HistoryInv'
    BY <1>1, <1>4 DEF TraceInv, HistoryInv, HistoryIsTheAnswer
  <2> QED BY <2>5, <2>6, <2>7, <2>8 DEF TraceInv
<1>5. CASE r.pc = "raised"
  <2>1. t' = u /\ t.finished /\ t.error # None
    BY <1>5 DEF SourceFails, TraceInv, OutcomeInv, OutcomeIsTold, Ended
  <2> HIDE DEF u
  <2>2. TriesInv'
    BY <1>1, <1>2, <1>3, <1>5, <2>1, TriesStay DEF TraceInv, Settling
  <2>3. OutcomeInv'
    BY <1>2, <1>3, <2>1 DEF OutcomeInv, OutcomeIsTold, Ended, Settling
  <2>4. HistoryInv'
    BY <1>1, <1>2, <1>3, <1>5, <2>1 DEF TraceInv, HistoryInv, HistoryIsTheAnswer
  <2> QED BY <1>3, <2>1, <2>2, <2>3, <2>4 DEF TraceInv
<1> QED BY <1>1, <1>4, <1>5

LEMMA RetrieversTell == ASSUME AnswerInv, AnswerInv', TraceInv, Retrievers PROVE TraceInv'
<1>1. {"vector", "keyword", "metadata"} = Sources
  BY DEF Sources
<1>2. CASE SearchVector \/ SearchKeyword \/ SearchMetadata
  <2>1. PICK s \in Sources, does \in {"load", "done"} :
          r.src[s].does = "search" /\ \E found : Source(s, does, found)
    BY <1>1, <1>2 DEF SearchVector, SearchKeyword, SearchMetadata
  <2> QED BY <1>2, <2>1, SourceTells DEF SearchVector, SearchKeyword, SearchMetadata
<1>3. ASSUME NEW s \in Sources, Load(s) PROVE TraceInv'
  BY <1>3, SourceTells DEF Load
<1> QED BY <1>2, <1>3, FailureTells DEF Retrievers

LEMMA GradeTells == ASSUME AnswerInv, AnswerInv', TraceInv, TakeVector \/ Grade PROVE TraceInv'
<1>1. r \in Req /\ r' \in Req /\ r.pc = "retrieve" /\ stored' = stored
  BY DEF AnswerInv, TypeOKA, TakeVector, Grade, Gathering, Quiet
<1> DEFINE n == r.rewrites + 1
<1>2. /\ t \in Trace /\ n \in 1..Len(t.attempts) /\ Len(t.attempts) = n
      /\ \A i \in 1..Len(t.attempts) : t.attempts[i].number = i /\ (t.attempts[i].open => i = n)
  BY <1>1, LastAttempt
<1>3. ASSUME NEW pc \in {"rewrite", "abstain", "generate"}, NEW passages, NEW u \in Trace,
             r' = [r EXCEPT !.pc = pc, !.passages = passages],
             SameOutcome(u, t), u.rewrites = t.rewrites, Len(u.attempts) = Len(t.attempts),
             \A i \in 1..Len(t.attempts) : u.attempts[i].number = i /\ (u.attempts[i].open => i = n),
             t' = FinishAttempt(u, n), pc = "rewrite" => ShouldRewrite,
             pc = "abstain" =>
               IF r.path = "vector" THEN AllFound = {}
               ELSE u.attempts[n].reranked = (AllFound # {}) /\ u.attempts[n].sufficient = "no"
      PROVE  TraceInv'
  <2>1. /\ r'.pc = pc /\ r'.path = r.path /\ r'.src = r.src /\ r'.rewrites = r.rewrites
        /\ r'.question = r.question
    BY <1>1, <1>3 DEF Req
  <2> HIDE DEF n
  <2>2. /\ t' \in Trace /\ SameOutcome(t', u) /\ t'.rewrites = u.rewrites
        /\ Len(t'.attempts) = Len(u.attempts) /\ t'.attempts # <<>>
        /\ \A i \in 1..Len(u.attempts) : t'.attempts[i].number = i /\ (i # n => t'.attempts[i] = u.attempts[i])
        /\ ~t'.attempts[n].open /\ t'.attempts[n].reranked = u.attempts[n].reranked
        /\ t'.attempts[n].sufficient = u.attempts[n].sufficient
    BY <1>2, <1>3, AttemptFinished
  <2>3. \A i \in 1..Len(t.attempts) : ~t'.attempts[i].open
    BY <1>3, <2>2
  <2>4. TriesInv'
    BY <1>1, <1>3, <2>1, <2>2, <2>3, ClosedTries
  <2>5. AllFound' = AllFound
    BY <2>1 DEF AllFound
  <2>6. SameOutcome(t', t) /\ Len(t'.attempts) = n
    BY <1>2, <1>3, <2>2 DEF SameOutcome
  <2>7. t'.final = None /\ t'.outcome = None /\ t'.reason = None /\ t'.error = None
    BY <1>1, <2>6, Untold DEF Settling, SameOutcome
  <2>8. OutcomeInv'
    BY <1>3, <2>1, <2>2, <2>5, <2>6, <2>7 DEF OutcomeInv, OutcomeIsTold, Ended, Settling
  <2>9. HistoryInv'
    BY <1>1 DEF TraceInv, HistoryInv, HistoryIsTheAnswer
  <2> QED BY <2>2, <2>4, <2>8, <2>9 DEF TraceInv
<1>4. CASE TakeVector
  <2> DEFINE pc == IF AllFound = {} THEN "abstain" ELSE "generate"
  <2>1. r.path = "vector" /\ n = 1
    BY <1>1, <1>4 DEF TakeVector, TraceInv, TriesInv
  <2>2. r' = [r EXCEPT !.pc = pc, !.passages = AllFound] /\ t' = FinishAttempt(t, n)
    BY <1>4, <2>1 DEF TakeVector
  <2>3. pc \in {"abstain", "generate"} /\ (pc = "abstain" => AllFound = {})
    OBVIOUS
  <2>4. SameOutcome(t, t)
    BY DEF SameOutcome
  <2> HIDE DEF pc, n
  <2> QED BY <1>2, <1>3, <2>1, <2>2, <2>3, <2>4
<1>5. CASE Grade
  <2>1. PICK sufficient \in {AllFound # {}, FALSE} :
          /\ t' = FinishAttempt(RecordEvidence(SetStage(t, "evidence_grading"), n, AllFound # {}, sufficient), n)
          /\ \/ /\ sufficient
                /\ \E top \in SUBSET AllFound \ {{}} : r' = [r EXCEPT !.pc = "generate", !.passages = top]
             \/ /\ ~sufficient
                /\ Go(IF ShouldRewrite THEN "rewrite" ELSE "abstain")
    BY <1>5 DEF Grade
  <2> DEFINE w == SetStage(t, "evidence_grading")
             found == AllFound # {}
             u == RecordEvidence(w, n, found, sufficient)
  <2>2. w \in Trace /\ SameOutcome(w, t) /\ w.attempts = t.attempts /\ w.rewrites = t.rewrites
    BY <1>2, StageSet DEF Stages, SameTries
  <2>3. sufficient \in BOOLEAN /\ found \in BOOLEAN
    BY <2>1
  <2> HIDE DEF w, n, found
  <2>4. /\ u \in Trace /\ SameOutcome(u, w) /\ u.rewrites = w.rewrites /\ Len(u.attempts) = Len(w.attempts)
        /\ \A i \in 1..Len(w.attempts) : u.attempts[i].number = i /\ (i # n => u.attempts[i] = w.attempts[i])
        /\ u.attempts[n].open = w.attempts[n].open /\ u.attempts[n].reranked = found
        /\ u.attempts[n].sufficient = IF sufficient THEN "yes" ELSE "no"
    <3>1. n \in 1..Len(w.attempts) /\ \A i \in 1..Len(w.attempts) : w.attempts[i].number = i
      BY <1>2, <2>2
    <3> QED BY <2>2, <2>3, <3>1, EvidenceRecorded, SMTT(30)
  <2>5. t' = FinishAttempt(u, n)
    BY <2>1 DEF w, found
  <2> HIDE DEF u
  <2>6. /\ SameOutcome(u, t) /\ u.rewrites = t.rewrites /\ Len(u.attempts) = Len(t.attempts)
        /\ \A i \in 1..Len(t.attempts) : u.attempts[i].number = i /\ (u.attempts[i].open => i = n)
    BY <1>2, <2>2, <2>4 DEF SameOutcome
  <2>7. r.path # "vector"
    BY <1>5 DEF Grade
  <2>8. CASE sufficient
    <3>1. PICK top : r' = [r EXCEPT !.pc = "generate", !.passages = top]
      BY <2>1, <2>8
    <3> QED BY <1>3, <2>4, <2>5, <2>6, <3>1
  <2>9. CASE ~sufficient
    <3>1. PICK pc \in {"rewrite", "abstain"} : r' = [r EXCEPT !.pc = pc] /\ (pc = "rewrite" => ShouldRewrite)
      BY <2>1, <2>9 DEF Go
    <3>2. r' = [r EXCEPT !.pc = pc, !.passages = r.passages]
      BY <1>1, <3>1 DEF Req
    <3>3. u.attempts[n].reranked = (AllFound # {}) /\ u.attempts[n].sufficient = "no"
      BY <2>4, <2>9 DEF found
    <3>4. pc = "abstain" => IF r.path = "vector" THEN AllFound = {}
                            ELSE u.attempts[n].reranked = (AllFound # {}) /\ u.attempts[n].sufficient = "no"
      BY <2>7, <3>3
    <3>5. u \in Trace /\ pc \in {"rewrite", "abstain", "generate"}
      BY <2>4
    <3> QED BY <1>3, <2>5, <2>6, <3>1, <3>2, <3>4, <3>5, ZenonT(40)
  <2> QED BY <2>8, <2>9
<1> QED BY <1>4, <1>5

LEMMA AbstainTells == ASSUME AnswerInv, AnswerInv', TraceInv, Abstain \/ Generate PROVE TraceInv'
<1>1. "no_evidence" \in Answers /\ {} \in SUBSET Passages /\ r.passages \in SUBSET Passages
      /\ "found" \in Answers \ {"not_indexed", "not_found", "no_evidence"}
  BY DEF Answers, AnswerInv, TypeOKA, Req
<1>2. CASE Abstain
  <2> DEFINE reason == IF Rejected THEN "EVIDENCE_REJECTED" ELSE "NO_RETRIEVAL_EVIDENCE"
             v == RecordAbstention(t, reason, "no_evidence")
  <2>1. r.pc = "abstain" /\ r.path # "summary" /\ r.path \in {"langgraph", "hybrid", "vector"}
    BY <1>2 DEF Abstain, AnswerInv, ServedInv, TraceInv, TriesInv
  <2>2. t \in Trace /\ t.error = None
    BY <2>1, Untold DEF Settling
  <2>3. reason \in Reasons
    BY DEF Reasons
  <2>4. Answer("no_evidence", {}, v)
    BY <1>2 DEF Abstain
  <2>5. r.path \in {"hybrid", "vector"} => Len(t.attempts) = 1
    <3>1. t.attempts # <<>> /\ (r.path \in {"hybrid", "vector"} => r.rewrites = 0)
      BY <2>1 DEF TraceInv, TriesInv
    <3>2. Len(t.attempts) = r.rewrites + 1
      BY <3>1 DEF TraceInv, TriesInv
    <3> QED BY <3>1, <3>2
  <2>6. IF r.path = "vector" THEN AllFound = {}
        ELSE /\ t.attempts[Len(t.attempts)].reranked = (AllFound # {})
             /\ t.attempts[Len(t.attempts)].sufficient = "no"
    BY <2>1 DEF TraceInv, OutcomeInv
  <2>7. /\ reason = "EVIDENCE_REJECTED" => t.attempts[Len(t.attempts)].sufficient = "no" /\ AllFound # {}
        /\ reason = "NO_RETRIEVAL_EVIDENCE" => AllFound = {}
    BY <2>1, <2>5, <2>6 DEF Rejected
  <2> HIDE DEF reason
  <2>8. /\ v \in Trace /\ SameTries(v, t) /\ v.final = "no_evidence" /\ v.outcome = "ABSTAINED"
        /\ v.reason = reason /\ v.error = None
    BY <1>1, <2>2, <2>3, AbstentionRecorded
  <2> HIDE DEF v
  <2> QED BY <1>1, <2>1, <2>4, <2>7, <2>8, AnswerTells DEF Settling
<1>3. CASE Generate
  BY <1>1, <1>3, CompleteTells DEF Generate, Settling
<1> QED BY <1>2, <1>3

LEMMA PersistTells == ASSUME AnswerInv, AnswerInv', TraceInv, Persist PROVE TraceInv'
<1>1. /\ r \in Req /\ r' \in Req /\ r.pc = "persist" /\ t \in Trace /\ stored = <<>> /\ t.stage = "persistence"
      /\ Told /\ t.error = None /\ t.outcome # "FAILED"
  BY DEF AnswerInv, TypeOKA, Persist, TraceInv, OutcomeInv, HistoryInv
<1>2. CASE RaiseFrom(t)
  BY <1>1, <1>2, RaiseTells DEF SameTries
<1>3. ASSUME NEW pc \in {"returned", "raised"}, Go(pc), stored' \in {<<>>, Append(stored, Row)},
             pc = "raised" => t' = Finish(RecordError(t, t.stage)) /\ stored' = Append(stored, Row),
             pc = "returned" => t' = Finish(t)
      PROVE  TraceInv'
  <2>1. /\ r'.pc = pc /\ r'.path = r.path /\ r'.src = r.src /\ r'.answer = r.answer /\ r'.cites = r.cites
        /\ r'.rewrites = r.rewrites /\ r'.question = r.question
    BY <1>1, <1>3, GoType DEF Pcs, Settling
  <2>2. /\ t' \in Trace /\ t'.finished /\ SameTries(t', t) /\ t'.final = t.final /\ t'.reason = t.reason
        /\ IF pc = "raised" THEN t'.outcome = "FAILED" /\ t'.error = "persistence"
           ELSE t'.outcome = t.outcome /\ t'.error = None
    <3>1. CASE pc = "returned"
      BY <1>1, <1>3, <3>1, Finished
    <3>2. CASE pc = "raised"
      <4> DEFINE u == RecordError(t, "persistence")
      <4>1. /\ u \in Trace /\ SameTries(u, t) /\ u.outcome = "FAILED" /\ u.error = "persistence"
            /\ u.final = t.final /\ u.reason = t.reason
        BY <1>1, ErrorRecorded DEF Stages
      <4>2. t' = Finish(u)
        BY <1>1, <1>3, <3>2
      <4> HIDE DEF u
      <4> QED BY <3>2, <4>1, <4>2, Finished DEF SameTries
    <3> QED BY <3>1, <3>2
  <2>3. TriesInv'
    BY <1>1, <2>1, <2>2, TriesStay DEF TraceInv, Settling
  <2>4. AllFound' = AllFound /\ t'.attempts = t.attempts
    BY <2>1, <2>2 DEF AllFound, SameTries
  <2>5. OutcomeInv'
    <3>1. OutcomeIsTold'
      BY <1>1, <1>3, <2>1, <2>2, <2>4 DEF OutcomeIsTold, Ended, Told, None
    <3> QED BY <1>3, <2>1, <3>1 DEF OutcomeInv, Settling
  <2>6. HistoryInv'
    <3>1. CASE stored' = <<>>
      BY <1>3, <2>1, <3>1 DEF HistoryInv, HistoryIsTheAnswer
    <3>2. CASE stored' = Append(stored, Row)
      <4>1. Len(stored') = 1 /\ stored'[1] = Row
        BY <1>1, <3>2
      <4>2. Row.answer = r.answer /\ Row.cites = r.cites /\ (r.path # "langgraph" => Row.question = "asked")
        BY DEF Row, Kept
      <4>3. r'.pc = "raised" => t'.error = "persistence"
        BY <2>1, <2>2
      <4>4. t'.final = r.answer
        BY <1>1, <2>2 DEF Told
      <4> QED BY <1>3, <2>1, <4>1, <4>2, <4>3, <4>4 DEF HistoryInv, HistoryIsTheAnswer
    <3> QED BY <1>3, <3>1, <3>2
  <2> QED BY <2>2, <2>3, <2>5, <2>6 DEF TraceInv
<1> QED BY <1>1, <1>2, <1>3 DEF Persist, Quiet

LEMMA TraceInvStep == AnswerInv /\ TraceInv /\ [NextA]_avars => TraceInv'
<1> SUFFICES ASSUME AnswerInv, TraceInv, [NextA]_avars PROVE TraceInv'
  OBVIOUS
<1>1. AnswerInv'
  BY AnswerInvStep
<1>2. CASE UNCHANGED avars \/ IndexChanges
  <2>1. r' = r /\ t' = t /\ stored' = stored
    BY <1>2 DEF avars, IndexChanges, Withdraw, Trash, Restore, Rechunk, Publish, Becomes
  <2> QED BY <2>1, StandsTells
<1>3. CASE RewriteRaises
  <2>1. t \in Trace /\ SetStage(t, "query_rewrite") \in Trace /\ SameTries(SetStage(t, "query_rewrite"), t)
    BY StageSet DEF TraceInv, Stages
  <2> QED BY <1>3, <2>1, RaiseTells DEF RewriteRaises
<1>4. CASE QueryFails
  BY <1>4, RaiseTells DEF QueryFails, TraceInv, SameTries
<1> QED BY <1>1, <1>2, <1>3, <1>4, RouteTells, FollowupTells, RecallTells, ListsTell, ListAnswersTell, TargetsTell,
           StartTells, RetrieversTell, GradeTells, RewriteTells, AbstainTells, PersistTells DEF NextA, RequestNext

-----------------------------------------------------------------------------

\* The inductive invariant of the trace: the collector's record follows the request
\* step by step.
THEOREM TraceInvariant == SpecA => []TraceInv
<1>1. InitA => TraceInv
  BY InitialTrace
<1>2. AnswerInv /\ TraceInv /\ [NextA]_avars => TraceInv'
  BY TraceInvStep
<1> QED BY <1>1, <1>2, AnswerInvariant, PTL DEF SpecA

\* What an evaluation reads of a finished request is what happened to it: FAILED exactly
\* when it raised, abstained exactly for a fixed answer and with the true reason, its
\* attempts numbered, closed and no more than the rewrites allow.
THEOREM TracesTellTheTruth == SpecA => []TraceTellsTheTruth
<1>1. AnswerInv /\ TraceInv => TraceTellsTheTruth
  <2> SUFFICES ASSUME AnswerInv, TraceInv PROVE TraceTellsTheTruth
    OBVIOUS
  <2>1. /\ DOMAIN t.attempts = 1..Len(t.attempts) /\ DOMAIN t.rewrites = 1..Len(t.rewrites)
        /\ Len(t.attempts) \in Nat /\ r.rewrites \in Nat
    BY LenProperties DEF AnswerInv, TypeOKA, Req, TraceInv, Trace
  <2>2. Len(t.attempts) <= MaxRewrites + 1
    <3>1. t.attempts = <<>> => Len(t.attempts) = 0
      BY EmptySeq
    <3> QED BY <2>1, <3>1, AnsweringAssumption DEF TraceInv, TriesInv
  <2>3. Ended => \A i \in DOMAIN t.attempts : ~t.attempts[i].open
    BY <2>1 DEF TraceInv, TriesInv, Ended
  <2>4. t.attempts # <<>> => Len(t.rewrites) = Len(t.attempts) - 1 + First
    <3>1. First \in Nat
      BY DEF First
    <3>2. Len(t.rewrites) = r.rewrites + First /\ (t.attempts # <<>> => Len(t.attempts) = r.rewrites + 1)
      BY DEF TraceInv, TriesInv
    <3> QED BY <2>1, <3>1, <3>2, SMTT(30)
  <2> QED BY <2>1, <2>2, <2>3, <2>4 DEF TraceTellsTheTruth, AttemptsAreAccounted, TraceInv, OutcomeInv, TriesInv, First
<1> QED BY <1>1, AnswerInvariant, TraceInvariant, PTL

\* One row at most is stored for a question: the answer that was given, for a failed
\* request only when the failure came after the commit.
THEOREM HistoryShowsTheAnswer == SpecA => []HistoryIsTheAnswer
<1>1. TraceInv => HistoryIsTheAnswer
  BY DEF TraceInv, HistoryInv
<1> QED BY <1>1, TraceInvariant, PTL

=============================================================================
