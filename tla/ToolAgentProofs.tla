--------------------------- MODULE ToolAgentProofs ---------------------------
(***************************************************************************)
(* The promises of a run of the tool agent, for any number of files, steps *)
(* and calls, and any changes of the index meanwhile.                      *)
(***************************************************************************)
EXTENDS ToolAgent, FiniteSetTheorems, SequenceTheorems, TLAPS

Passages == Files \X Generations
Amount   == [rows : Nat, chars : Nat]
Message  == [role : {"USER", "ASSISTANT", "TOOL"}, ids : Seq(Nat)]
Outcome  == [id : Nat, kind : {"none", "files", "search", "full"}, outcome : {"ok", "error", "internal"},
             named : SUBSET Files, returned : SUBSET Files, passages : SUBSET Passages,
             counted : Amount, took : Amount, of : (0..NGenerations) \X (0..NGenerations)]
Failures == {None, "MESSAGE_LIMIT", "PROVIDER_ERROR", "MALFORMED_RESPONSE", "STATE_ERROR", "CYCLE_LIMIT",
             "UNSAFE_FINAL_OUTPUT"}
Answers  == {None, "model", "limit", "failure", "no_evidence"}
Run  == [pc : {"agent", "tools", "finalize", "fail_safe", "adapter", "returned", "raised"},
         cycles : Nat, hops : Nat, failure : Failures, messages : Seq(Message), pending : Seq(Nat),
         history : Seq(Outcome), answer : Answers, notice : BOOLEAN, cites : SUBSET Passages]
Stage == [stage : {"idle", "retrieve", "check", "totals", "rows"}, named : SUBSET Files,
          found : SUBSET Passages, counted : Amount, of : Nat]

\* Calls are pending exactly while the tools run; a full read is of one file, whose chunks
\* were all counted, or none when it was not INDEXED.
TypeOKT ==
  /\ live \in SUBSET Files /\ rows \in [Files -> Generations] /\ changes \in Nat
  /\ a \in Run /\ known \in SUBSET Files /\ call \in Stage
  /\ a.pc = "tools" <=> a.pending # <<>>
  /\ call.stage \in {"totals", "rows"} => \E f \in Files : call.named = {f}
  /\ call.stage = "rows" =>
       call.of \in Generations /\ \A f \in call.named : call.counted \in {Nothing, Total(Ends[f][call.of])}

LEMMA Constants ==
  /\ NGenerations \in Nat /\ 1 \in Generations /\ Generations \subseteq Nat
  /\ Generations \subseteq 0..NGenerations
  /\ \A f \in Files, g \in Generations : Ends[f][g] \in Seq(Nat \ {0})
  /\ Budget \in Nat
  /\ MaxCycles \in Nat /\ MaxCycles >= 1 /\ MaxCalls \in Nat /\ MaxCalls >= 1 /\ MaxRows \in Nat
BY ToolAgentAssumption DEF Generations

\* What an exception or the deadline leaves of a run.
LEMMA Raised ==
  LET gone == [NewRun EXCEPT !.pc = "raised"]
  IN  /\ gone \in Run /\ gone.pc = "raised" /\ gone.history = <<>> /\ gone.messages = <<User>>
      /\ gone.pending = <<>> /\ gone.hops = 0 /\ gone.cycles = 0 /\ gone.answer = None
      /\ Resting \in Stage /\ NewRun \in Run /\ User \in Message
<1>1. User \in Message /\ <<User>> \in Seq(Message)
  BY DEF User, Message
<1>2. NewRun \in Run
  BY <1>1, EmptySeq DEF NewRun, Run, None, Failures, Answers
<1>3. Resting \in Stage
  BY DEF Resting, Stage, Nothing, Amount
<1> QED BY <1>1, <1>2, <1>3 DEF NewRun, Run

LEMMA InitialType == InitT => TypeOKT
<1> SUFFICES ASSUME InitT PROVE TypeOKT
  OBVIOUS
<1>1. NewRun.pc = "agent" /\ NewRun.pending = <<>> /\ Resting.stage = "idle"
  BY SMTT(30) DEF NewRun, Resting
<1> QED BY <1>1, Raised, Constants DEF InitT, TypeOKT, Registered

\* What a call leaves is a new record and a new message.
LEMMA ReturnsType ==
  ASSUME TypeOKT, a.pc = "tools", a.pending # <<>>, NEW entry \in Outcome, Returns(entry)
  PROVE  /\ a' \in Run /\ call' = Resting /\ call' \in Stage /\ UNCHANGED index
         /\ a'.messages = Append(a.messages, Reports(Head(a.pending)))
         /\ a'.history = Append(a.history, entry)
         /\ a'.pending = Tail(a.pending)
         /\ a'.pc = IF a'.pending = <<>> THEN "agent" ELSE "tools"
         /\ a'.hops = IF a'.pending = <<>> THEN a.hops + 1 ELSE a.hops
         /\ a'.cycles = a.cycles /\ a'.failure = a.failure /\ a'.answer = a.answer /\ a'.cites = a.cites
<1>1. a \in Run /\ call' = Resting /\ UNCHANGED index
  BY DEF TypeOKT, Returns
<1>2. Resting \in Stage
  BY Raised
<1>3. Head(a.pending) \in Nat /\ Tail(a.pending) \in Seq(Nat)
  BY <1>1 DEF Run
<1>4. Reports(Head(a.pending)) \in Message
  BY <1>3 DEF Reports, Message
<1>5. a' = [a EXCEPT !.messages = Append(@, Reports(Head(a.pending))),
                    !.history = Append(@, entry),
                    !.pending = Tail(@),
                    !.pc = IF Tail(a.pending) = <<>> THEN "agent" ELSE "tools",
                    !.hops = IF Tail(a.pending) = <<>> THEN @ + 1 ELSE @]
  BY DEF Returns
<1>6. Append(a.messages, Reports(Head(a.pending))) \in Seq(Message) /\ Append(a.history, entry) \in Seq(Outcome)
  BY <1>1, <1>4 DEF Run
<1>7. a' \in Run
  <2> DEFINE pc   == IF Tail(a.pending) = <<>> THEN "agent" ELSE "tools"
             hops == IF Tail(a.pending) = <<>> THEN a.hops + 1 ELSE a.hops
  <2>1. hops \in Nat /\ pc \in {"agent", "tools"}
    BY <1>1 DEF Run
  <2>2. a' = [a EXCEPT !.messages = Append(a.messages, Reports(Head(a.pending))),
                      !.history = Append(a.history, entry), !.pending = Tail(a.pending), !.pc = pc, !.hops = hops]
    BY <1>5
  <2> HIDE DEF pc, hops
  <2> QED BY <1>1, <1>3, <1>6, <2>1, <2>2 DEF Run
<1> QED BY <1>1, <1>2, <1>5, <1>7, ZenonT(40) DEF Run

-----------------------------------------------------------------------------

LEMMA RaiseType == ASSUME TypeOKT, Raise PROVE TypeOKT'
<1>1. a' = [NewRun EXCEPT !.pc = "raised"] /\ known' = {} /\ call' = Resting /\ UNCHANGED index
  BY DEF Raise
<1>2. Resting.stage = "idle"
  BY DEF Resting
<1> QED BY <1>1, <1>2, Raised DEF TypeOKT, index

LEMMA FailType ==
  ASSUME TypeOKT, a.pc = "agent", NEW failure \in Failures, NEW cycles \in Nat, Fail(failure, cycles)
  PROVE  TypeOKT' /\ a'.pc = "fail_safe"
<1>1. a \in Run /\ a.hops + 1 \in Nat
  BY DEF TypeOKT, Run
<1>2. a' = [a EXCEPT !.pc = "fail_safe", !.failure = failure, !.cycles = cycles, !.hops = a.hops + 1]
  BY DEF Fail
<1>3. a' \in Run /\ a'.pc = "fail_safe" /\ a'.pending = a.pending
  BY <1>1, <1>2 DEF Run
<1> QED BY <1>3 DEF Fail, TypeOKT, index

LEMMA EntryType ==
  ASSUME TypeOKT, a.pc = "tools", NEW kind \in {"none", "files", "search", "full"},
         NEW outcome \in {"ok", "error", "internal"}, NEW returned \in SUBSET Files
  PROVE  Entry(kind, outcome, returned) \in Outcome
<1>1. Head(a.pending) \in Nat
  BY DEF TypeOKT, Run
<1>2. <<0, 0>> \in (0..NGenerations) \X (0..NGenerations) /\ Nothing \in Amount
  BY Constants DEF Nothing, Amount
<1> QED BY <1>1, <1>2 DEF Entry, Outcome, TypeOKT, Stage

-----------------------------------------------------------------------------

\* The actions of the tools.
Works ==
  \/ Refused \/ Breaks \/ FilesQuery
  \/ StartSearch \/ Retrieve \/ FinishSearch
  \/ StartFullRead \/ CountTotals \/ ReadRows

\* A full read takes no more than it counted, and counts a generation whole or nothing.
Counted(entry) ==
  entry.kind = "full" =>
    /\ entry.took.rows <= entry.counted.rows /\ entry.took.chars <= entry.counted.chars
    /\ \A f \in entry.named : entry.counted \in {Nothing, Total(Ends[f][entry.of[1]])}

\* What a record of a call says: the files named had handles, those returned have one now
\* unless the call broke, and a full read counted what it took.
Honest(entry) ==
  /\ entry \in Outcome /\ entry.id = Head(a.pending)
  /\ entry.named \subseteq known /\ known \subseteq known'
  /\ entry.outcome = "internal" \/ known' \subseteq known \cup entry.returned
  /\ Counted(entry)

Waits   == a' = a /\ known' = known /\ call'.named \subseteq known
Hands == \E entry \in Outcome : Returns(entry) /\ Honest(entry)

LEMMA ReturnsKeepsType ==
  ASSUME TypeOKT, a.pc = "tools", NEW entry \in Outcome, Returns(entry), known' \in SUBSET Files
  PROVE  TypeOKT'
<1>1. a.pending # <<>> /\ Resting.stage = "idle"
  BY DEF TypeOKT, Resting
<1> QED BY <1>1, ReturnsType DEF TypeOKT, index

\* A call that is refused, or breaks, returns nothing.
LEMMA PlainHonest ==
  ASSUME TypeOKT, call.named \subseteq known, a.pc = "tools",
         NEW kind \in {"none", "files"}, NEW outcome \in {"ok", "error", "internal"},
         NEW returned \in SUBSET Files, known \subseteq known',
         outcome = "internal" \/ known' \subseteq known \cup returned
  PROVE  Honest(Entry(kind, outcome, returned))
<1>1. Entry(kind, outcome, returned) \in Outcome
  BY EntryType
<1>2. Counted(Entry(kind, outcome, returned))
  BY DEF Counted, Entry
<1> QED BY <1>1, <1>2 DEF Honest, Entry

LEMMA ValidateEffect ==
  ASSUME TypeOKT, call.named \subseteq known, a.pc = "tools",
         NEW fs \in SUBSET known, NEW stage \in {"retrieve", "totals"},
         stage = "totals" => \E f \in Files : fs = {f},
         Validate(fs, stage)
  PROVE  TypeOKT' /\ (Waits \/ Hands)
<1>1. CASE fs \subseteq live
  <2>1. call' = [call EXCEPT !.stage = stage, !.named = fs] /\ UNCHANGED <<index, a, known>>
    BY <1>1 DEF Validate
  <2>2. call' \in Stage /\ call'.named = fs /\ call'.stage = stage
    BY <2>1 DEF TypeOKT, Stage
  <2> QED BY <2>1, <2>2 DEF TypeOKT, Waits, index
<1>2. CASE ~(fs \subseteq live)
  <2> DEFINE plain == Entry("none", "error", {})
             entry == [plain EXCEPT !.named = fs]
  <2>1. Returns(entry) /\ known' = known
    BY <1>2 DEF Validate
  <2>2. Honest(plain) /\ plain.kind = "none"
    BY <2>1, PlainHonest DEF Entry
  <2> HIDE DEF plain
  <2>3. Honest(entry)
    <3>1. entry \in Outcome /\ entry.kind = "none" /\ entry.id = plain.id /\ entry.outcome = plain.outcome
          /\ entry.named = fs /\ entry.returned = plain.returned
      BY SMTT(30), <2>2 DEF Honest, Outcome, TypeOKT
    <3> HIDE DEF entry
    <3>2. Counted(entry)
      BY <3>1 DEF Counted
    <3> QED BY <2>1, <2>2, <3>1, <3>2 DEF Honest
  <2>4. entry \in Outcome
    BY <2>3 DEF Honest
  <2> QED BY <2>1, <2>3, <2>4, ReturnsKeepsType DEF Hands, TypeOKT
<1> QED BY <1>1, <1>2

LEMMA RetrieveEffect ==
  ASSUME TypeOKT, call.named \subseteq known, Retrieve
  PROVE  TypeOKT' /\ Waits
<1>1. PICK fs \in SUBSET live : call' = [call EXCEPT !.stage = "check", !.found = {<<f, rows[f]>> : f \in fs}]
  BY DEF Retrieve
<1>2. {<<f, rows[f]>> : f \in fs} \in SUBSET Passages
  BY DEF TypeOKT, Passages
<1>3. call' \in Stage /\ call'.stage = "check" /\ call'.named = call.named
  BY <1>1, <1>2 DEF TypeOKT, Stage
<1> QED BY <1>3 DEF Retrieve, TypeOKT, Waits, index

LEMMA FinishSearchEffect ==
  ASSUME TypeOKT, call.named \subseteq known, FinishSearch
  PROVE  TypeOKT' /\ (Waits \/ Hands)
<1> DEFINE fs == {p[1] : p \in call.found}
<1>1. a.pc = "tools" /\ fs \subseteq Files /\ call.found \in SUBSET Passages
  BY DEF FinishSearch, Calling, TypeOKT, Stage, Passages
<1>2. CASE fs \subseteq live
  <2> DEFINE plain == Entry("search", "ok", fs)
             entry == [plain EXCEPT !.passages = call.found]
  <2>1. Returns(entry) /\ known' = known \cup fs
    BY <1>2 DEF FinishSearch
  <2>2. plain \in Outcome /\ plain.id = Head(a.pending) /\ plain.named = call.named /\ plain.returned = fs
        /\ plain.kind = "search"
    BY <1>1, EntryType DEF Entry
  <2> HIDE DEF plain
  <2>3. entry \in Outcome /\ Honest(entry)
    <3>1. entry \in Outcome /\ entry.id = plain.id /\ entry.named = plain.named /\ entry.returned = fs
          /\ entry.kind = "search"
      BY <1>1, <2>2 DEF Outcome
    <3> HIDE DEF entry
    <3>2. Counted(entry)
      BY <3>1 DEF Counted
    <3> QED BY <2>1, <2>2, <3>1, <3>2 DEF Honest
  <2>4. known' \in SUBSET Files
    BY <1>1, <2>1 DEF TypeOKT
  <2> QED BY <1>1, <2>1, <2>3, <2>4, ReturnsKeepsType DEF Hands
<1>3. CASE ~(fs \subseteq live)
  <2>1. Returns(Entry("none", "error", {})) /\ known' = known
    BY <1>3 DEF FinishSearch
  <2>2. Honest(Entry("none", "error", {})) /\ Entry("none", "error", {}) \in Outcome
    BY <1>1, <2>1, PlainHonest, EntryType
  <2> QED BY <1>1, <2>1, <2>2, ReturnsKeepsType DEF Hands, TypeOKT
<1> QED BY <1>2, <1>3

\* The amounts of a sequence of rows.
LEMMA Amounts ==
  ASSUME NEW ends \in Seq(Nat \ {0})
  PROVE  Total(ends) \in Amount /\ \A took \in WithinBudget(ends) : took \in Amount
<1>1. Len(ends) \in Nat /\ DOMAIN ends = 1..Len(ends) /\ \A i \in 1..Len(ends) : ends[i] \in Nat
  BY LenProperties, ElementOfSeq
<1>2. ASSUME NEW n \in 0..Len(ends) PROVE First(ends, n) \in Amount /\ First(ends, n).rows = n
  BY <1>1 DEF First, Amount
<1>3. Total(ends) \in Amount
  BY <1>1, <1>2 DEF Total
<1> DEFINE limit == IF Len(ends) < MaxRows THEN Len(ends) ELSE MaxRows
           W == {i \in 1..limit : ends[i] <= Budget}
           whole == First(ends, Cardinality(W))
<1>4. limit \in Nat /\ limit <= Len(ends)
  BY <1>1, Constants
<1> HIDE DEF limit
<1>5. IsFiniteSet(1..limit) /\ Cardinality(1..limit) = limit
  BY <1>4, FS_Interval
<1>6. Cardinality(W) \in 0..Len(ends)
  <2>1. W \subseteq 1..limit
    OBVIOUS
  <2> HIDE DEF W
  <2>2. IsFiniteSet(W) /\ Cardinality(W) <= limit
    BY ZenonT(40), <1>5, <2>1, FS_Subset
  <2> QED BY <1>1, <1>4, <2>2, FS_CardinalityType
<1>7. whole \in Amount /\ whole.rows \in Nat
  BY <1>1, <1>2, <1>6
<1> HIDE DEF W, whole
<1>8. [rows |-> whole.rows + 1, chars |-> Budget] \in Amount
  BY <1>7, Constants DEF Amount
<1>9. WithinBudget(ends) \subseteq {whole, [rows |-> whole.rows + 1, chars |-> Budget]}
  BY DEF WithinBudget, limit, W, whole
<1> QED BY <1>3, <1>7, <1>8, <1>9

\* A query sees the rows of the file, or none.
LEMMA SeesRows ==
  ASSUME TypeOKT, NEW f \in Files, TheFile = f
  PROVE  /\ Visible \in Seq(Nat \ {0})
         /\ Total(Visible) \in {Nothing, Total(Ends[f][rows[f]])} /\ Total(Visible) \in Amount
<1>1. rows[f] \in Generations /\ Ends[f][rows[f]] \in Seq(Nat \ {0})
  BY Constants DEF TypeOKT
<1>2. <<>> \in Seq(Nat \ {0}) /\ Total(<<>>) = Nothing
  BY EmptySeq DEF Total, First, Nothing
<1>3. Visible = <<>> \/ Visible = Ends[f][rows[f]]
  BY DEF Visible
<1> QED BY <1>1, <1>2, <1>3, Amounts

LEMMA CountTotalsEffect ==
  ASSUME TypeOKT, call.named \subseteq known, CountTotals
  PROVE  TypeOKT' /\ Waits
<1>1. PICK f \in Files : call.named = {f}
  BY DEF CountTotals, Calling, TypeOKT
<1>2. TheFile = f
  BY <1>1 DEF TheFile
<1>3. rows[f] \in Generations /\ rows[f] \in Nat
  BY Constants DEF TypeOKT
<1>4. Total(Visible) \in {Nothing, Total(Ends[f][rows[f]])} /\ Total(Visible) \in Amount
  BY <1>2, <1>3, SeesRows
<1>5. call' = [call EXCEPT !.stage = "rows", !.counted = Total(Visible), !.of = rows[f]]
  BY <1>2 DEF CountTotals
<1>6. /\ call' \in Stage /\ call'.stage = "rows" /\ call'.named = {f}
      /\ call'.of = rows[f] /\ call'.counted = Total(Visible)
  BY <1>1, <1>3, <1>4, <1>5 DEF TypeOKT, Stage
<1> QED BY <1>1, <1>3, <1>4, <1>6 DEF CountTotals, TypeOKT, Waits, index

LEMMA ReadRowsEffect ==
  ASSUME TypeOKT, call.named \subseteq known, ReadRows
  PROVE  TypeOKT' /\ Hands
<1>1. a.pc = "tools" /\ known' = known /\ call.of \in Generations
  BY DEF ReadRows, Calling, TypeOKT
<1>2. PICK f \in Files : call.named = {f}
  BY DEF ReadRows, Calling, TypeOKT
<1>3. TheFile = f /\ call.counted \in {Nothing, Total(Ends[f][call.of])} /\ call.counted \in Amount
  BY <1>2 DEF TheFile, ReadRows, Calling, TypeOKT, Stage
<1>4. rows[f] \in Generations
  BY DEF TypeOKT
<1> DEFINE More(took) == took.rows > call.counted.rows \/ took.chars > call.counted.chars
           read(took) == IF took.rows = 0 THEN {} ELSE {<<TheFile, rows[TheFile]>>}
           plain == Entry("full", "ok", call.named)
           record(took) == [plain EXCEPT !.passages = read(took), !.counted = call.counted, !.took = took,
                                         !.of = <<call.of, rows[TheFile]>>]
<1>5. PICK took \in WithinBudget(Visible) :
        IF More(took) THEN Returns(Entry("none", "internal", {})) ELSE Returns(record(took))
  BY DEF ReadRows
<1>6. took \in Amount
  BY <1>3, <1>5, SeesRows, Amounts
<1>7. CASE More(took)
  <2>1. Returns(Entry("none", "internal", {}))
    BY <1>5, <1>7
  <2>2. Honest(Entry("none", "internal", {})) /\ Entry("none", "internal", {}) \in Outcome
    BY <1>1, PlainHonest, EntryType
  <2> QED BY <1>1, <2>1, <2>2, ReturnsKeepsType DEF Hands, TypeOKT
<1>8. CASE ~More(took)
  <2> DEFINE entry == record(took)
  <2>1. Returns(entry)
    BY <1>5, <1>8
  <2>2. plain \in Outcome /\ plain.id = Head(a.pending) /\ plain.named = call.named /\ plain.returned = call.named
    BY <1>1, EntryType DEF Entry, TypeOKT, Stage
  <2>3. read(took) \in SUBSET Passages
    BY <1>3, <1>4 DEF Passages
  <2>4. <<call.of, rows[TheFile]>> \in (0..NGenerations) \X (0..NGenerations)
    BY <1>1, <1>3, <1>4, Constants
  <2>5. took.rows <= call.counted.rows /\ took.chars <= call.counted.chars
    BY <1>3, <1>6, <1>8 DEF Amount
  <2> DEFINE r == read(took)
             o == <<call.of, rows[TheFile]>>
  <2>6. entry = [plain EXCEPT !.passages = r, !.counted = call.counted, !.took = took, !.of = o]
    OBVIOUS
  <2>7. o[1] = call.of
    OBVIOUS
  <2> HIDE DEF plain, r, o, entry, record, read
  <2>8. entry \in Outcome /\ entry.id = plain.id /\ entry.named = plain.named
        /\ entry.took = took /\ entry.counted = call.counted /\ entry.of = o
    BY <1>3, <1>6, <2>2, <2>3, <2>4, <2>6 DEF Outcome, r, o
  <2>9. Counted(entry)
    BY <1>2, <1>3, <2>2, <2>5, <2>7, <2>8 DEF Counted
  <2>10. Honest(entry)
    BY <1>1, <2>2, <2>8, <2>9 DEF Honest
  <2> QED BY <1>1, <2>1, <2>8, <2>10, ReturnsKeepsType DEF Hands, TypeOKT
<1> QED BY <1>7, <1>8

LEMMA WorksEffect ==
  ASSUME TypeOKT, call.named \subseteq known, Works
  PROVE  TypeOKT' /\ a.pc = "tools" /\ (Waits \/ Hands)
<1>1. a.pc = "tools"
  BY DEF Works, Refused, Breaks, FilesQuery, StartSearch, Retrieve, FinishSearch, StartFullRead, CountTotals,
         ReadRows, Calling
<1>2. CASE Refused
  <2>1. Returns(Entry("none", "error", {})) /\ known' = known
    BY <1>2 DEF Refused
  <2>2. Honest(Entry("none", "error", {})) /\ Entry("none", "error", {}) \in Outcome
    BY <1>1, <2>1, PlainHonest, EntryType
  <2> QED BY <1>1, <2>1, <2>2, ReturnsKeepsType DEF Hands, TypeOKT
<1>3. CASE Breaks
  <2>1. Returns(Entry("none", "internal", {})) /\ known' \in SUBSET Files /\ known \subseteq known'
    BY <1>3 DEF Breaks, TypeOKT, Stage, Passages
  <2>2. Honest(Entry("none", "internal", {})) /\ Entry("none", "internal", {}) \in Outcome
    BY <1>1, <2>1, PlainHonest, EntryType
  <2> QED BY <1>1, <2>1, <2>2, ReturnsKeepsType DEF Hands
<1>4. CASE FilesQuery
  <2>1. PICK fs \in SUBSET live : Returns(Entry("files", "ok", fs)) /\ known' = known \cup fs
    BY <1>4 DEF FilesQuery
  <2>2. fs \in SUBSET Files
    BY DEF TypeOKT
  <2>3. Honest(Entry("files", "ok", fs)) /\ Entry("files", "ok", fs) \in Outcome
    BY <1>1, <2>1, <2>2, PlainHonest, EntryType
  <2> QED BY <1>1, <2>1, <2>2, <2>3, ReturnsKeepsType DEF Hands, TypeOKT
<1>5. CASE StartSearch
  BY <1>1, <1>5, ValidateEffect DEF StartSearch
<1>6. CASE StartFullRead
  <2>1. PICK f \in known : Validate({f}, "totals")
    BY <1>6 DEF StartFullRead
  <2>2. f \in Files
    BY DEF TypeOKT
  <2> QED BY <1>1, <2>1, <2>2, ValidateEffect
<1> QED BY SMTT(30), <1>1, <1>2, <1>3, <1>4, <1>5, <1>6, RetrieveEffect, FinishSearchEffect, CountTotalsEffect,
           ReadRowsEffect DEF Works

-----------------------------------------------------------------------------
(* Transcripts. *)

\* Within the first n messages every call has its one result.
Closed(m, n) ==
  \A i \in 1..n : m[i].role = "ASSISTANT" =>
    /\ i + Len(m[i].ids) <= n
    /\ \A k \in 1..Len(m[i].ids) : m[i + k] = Reports(m[i].ids[k])
    /\ i + Len(m[i].ids) < n => m[i + Len(m[i].ids) + 1].role # "TOOL"

\* The calls of message l are being executed: those that are pending are the last ones.
Underway(m, pending, l) ==
  /\ l \in 1..Len(m) /\ Closed(m, l - 1) /\ m[l].role = "ASSISTANT"
  /\ Len(m[l].ids) = Len(m) - l + Len(pending)
  /\ \A k \in 1..Len(m) - l : m[l + k] = Reports(m[l].ids[k])
  /\ \A j \in 1..Len(pending) : pending[j] = m[l].ids[Len(m) - l + j]

LEMMA MessageFields ==
  ASSUME NEW m \in Seq(Message), NEW i \in 1..Len(m)
  PROVE  m[i] \in Message /\ m[i].ids \in Seq(Nat) /\ Len(m[i].ids) \in Nat
<1>1. m[i] \in Message
  BY ElementOfSeq
<1>2. m[i].ids \in Seq(Nat)
  BY <1>1 DEF Message
<1> QED BY <1>1, <1>2, LenProperties

LEMMA ClosedAppend ==
  ASSUME NEW m \in Seq(Message), NEW x \in Message, NEW n \in 0..Len(m), Closed(m, n)
  PROVE  Closed(Append(m, x), n)
<1>1. \A i \in 1..n : Append(m, x)[i] = m[i] /\ Len(m[i].ids) \in Nat
  BY MessageFields, AppendProperties
<1>2. ASSUME NEW i \in 1..n, m[i].role = "ASSISTANT"
      PROVE  /\ i + Len(m[i].ids) <= n
             /\ \A k \in 1..Len(m[i].ids) : Append(m, x)[i + k] = Reports(m[i].ids[k])
             /\ i + Len(m[i].ids) < n => Append(m, x)[i + Len(m[i].ids) + 1].role # "TOOL"
  BY <1>1, <1>2 DEF Closed
<1> QED BY <1>1, <1>2 DEF Closed

LEMMA ClosedOne ==
  ASSUME NEW m \in Seq(Message), NEW x \in Message, Closed(m, Len(m)),
         x.role # "TOOL", x.role = "ASSISTANT" => x.ids = <<>>
  PROVE  Closed(Append(m, x), Len(Append(m, x)))
<1> DEFINE n == Len(m)
           w == Append(m, x)
<1>1. Len(w) = n + 1 /\ n \in Nat /\ w[n + 1] = x /\ \A i \in 1..n : w[i] = m[i]
  BY AppendProperties
<1>2. Closed(w, n)
  BY ClosedAppend
<1>3. \A i \in 1..n : Len(w[i].ids) \in Nat
  BY <1>1, MessageFields
<1> HIDE DEF w, n
<1>4. ASSUME NEW i \in 1..n + 1, w[i].role = "ASSISTANT"
      PROVE  /\ i + Len(w[i].ids) <= n + 1
             /\ \A k \in 1..Len(w[i].ids) : w[i + k] = Reports(w[i].ids[k])
             /\ i + Len(w[i].ids) < n + 1 => w[i + Len(w[i].ids) + 1].role # "TOOL"
  <2>1. CASE i = n + 1
    BY <1>1, <1>4, <2>1
  <2>2. CASE i \in 1..n
    <3>1. /\ Len(w[i].ids) \in Nat /\ i + Len(w[i].ids) <= n
          /\ \A k \in 1..Len(w[i].ids) : w[i + k] = Reports(w[i].ids[k])
          /\ i + Len(w[i].ids) < n => w[i + Len(w[i].ids) + 1].role # "TOOL"
      BY <1>2, <1>3, <1>4, <2>2 DEF Closed
    <3>2. i + Len(w[i].ids) = n => w[i + Len(w[i].ids) + 1].role # "TOOL"
      BY <1>1
    <3>3. i + Len(w[i].ids) <= n /\ i + Len(w[i].ids) \in Nat /\ n \in Nat
      <4>1. Len(w[i].ids) \in Nat /\ i + Len(w[i].ids) <= n
        BY <3>1
      <4>2. i \in Nat /\ n \in Nat
        BY <1>1, <2>2
      <4> QED BY <4>1, <4>2
    <3>4. \A e \in Nat, d \in Nat : e <= d => (e < d \/ e = d) /\ e <= d + 1
      OBVIOUS
    <3>5. (i + Len(w[i].ids) < n \/ i + Len(w[i].ids) = n) /\ i + Len(w[i].ids) <= n + 1
      BY <3>3, <3>4
    <3> QED BY <3>1, <3>2, <3>5
  <2> QED BY <1>1, <2>1, <2>2
<1> QED BY <1>1, <1>4 DEF Closed, w

LEMMA UnderwayStarts ==
  ASSUME NEW m \in Seq(Message), NEW ids \in Seq(Nat), Closed(m, Len(m))
  PROVE  Underway(Append(m, Says(ids)), ids, Len(m) + 1)
<1>1. Says(ids) \in Message /\ Says(ids).role = "ASSISTANT" /\ Says(ids).ids = ids
  BY DEF Says, Message
<1> DEFINE w == Append(m, Says(ids))
<1>2. Len(w) = Len(m) + 1 /\ Len(m) \in Nat /\ w[Len(m) + 1] = Says(ids) /\ Closed(w, Len(m))
  BY <1>1, AppendProperties, ClosedAppend
<1> HIDE DEF w
<1> QED BY <1>1, <1>2 DEF Underway, w

LEMMA UnderwayGoesOn ==
  ASSUME NEW m \in Seq(Message), NEW pending \in Seq(Nat), pending # <<>>,
         NEW l \in Nat, Underway(m, pending, l)
  PROVE  Underway(Append(m, Reports(Head(pending))), Tail(pending), l)
<1>1. Head(pending) = pending[1] /\ Head(pending) \in Nat /\ Len(Tail(pending)) = Len(pending) - 1
      /\ Len(pending) \in Nat \ {0} /\ \A j \in 1..Len(Tail(pending)) : Tail(pending)[j] = pending[j + 1]
  BY HeadTailProperties
<1> DEFINE x == Reports(Head(pending))
           w == Append(m, x)
<1>2. x \in Message
  BY <1>1 DEF Reports, Message
<1>3. Len(w) = Len(m) + 1 /\ Len(m) \in Nat /\ w[Len(m) + 1] = x /\ \A i \in 1..Len(m) : w[i] = m[i]
  BY <1>2, AppendProperties
<1>4. l \in 1..Len(m) /\ Closed(w, l - 1)
  BY <1>2, ClosedAppend DEF Underway
<1>5. x = Reports(m[l].ids[Len(m) - l + 1])
  BY <1>1, <1>3, <1>4 DEF Underway
<1> HIDE DEF x, w
<1>6. ASSUME NEW k \in 1..Len(w) - l PROVE w[l + k] = Reports(w[l].ids[k])
  <2>1. w[l] = m[l]
    BY <1>3, <1>4
  <2>2. CASE k = Len(m) - l + 1
    BY <1>3, <1>4, <1>5, <2>1, <2>2
  <2>3. CASE k \in 1..Len(m) - l
    <3>1. l + k \in 1..Len(m) /\ m[l + k] = Reports(m[l].ids[k])
      BY <1>3, <1>4, <2>3 DEF Underway
    <3> QED BY <1>3, <2>1, <3>1
  <2> QED BY <1>3, <1>4, <2>2, <2>3
<1>7. \A j \in 1..Len(Tail(pending)) : Tail(pending)[j] = w[l].ids[Len(w) - l + j]
  BY <1>1, <1>3, <1>4, SMTT(30) DEF Underway
<1>8. w[l] = m[l] /\ Len(m[l].ids) = Len(m) - l + Len(pending) /\ m[l].role = "ASSISTANT" /\ l \in 1..Len(w)
  BY <1>3, <1>4 DEF Underway
<1>9. Len(w[l].ids) = Len(w) - l + Len(Tail(pending))
  BY <1>1, <1>3, <1>4, <1>8
<1> QED BY <1>4, <1>6, <1>7, <1>8, <1>9 DEF Underway, w, x

LEMMA UnderwayEnds ==
  ASSUME NEW m \in Seq(Message), NEW l \in Nat, Underway(m, <<>>, l)
  PROVE  Closed(m, Len(m))
<1>1. Len(m) \in Nat /\ l \in 1..Len(m) /\ Len(m[l].ids) = Len(m) - l
  BY DEF Underway
<1>2. \A i \in 1..Len(m) : Len(m[i].ids) \in Nat
  BY MessageFields
<1>3. ASSUME NEW i \in 1..Len(m), m[i].role = "ASSISTANT"
      PROVE  /\ i + Len(m[i].ids) <= Len(m)
             /\ \A k \in 1..Len(m[i].ids) : m[i + k] = Reports(m[i].ids[k])
             /\ i + Len(m[i].ids) < Len(m) => m[i + Len(m[i].ids) + 1].role # "TOOL"
  <2>1. CASE i < l
    <3> DEFINE e == i + Len(m[i].ids)
    <3>1. Closed(m, l - 1) /\ i \in 1..l - 1
      BY <1>1, <2>1 DEF Underway
    <3>2. /\ e <= l - 1
          /\ \A k \in 1..Len(m[i].ids) : m[i + k] = Reports(m[i].ids[k])
          /\ e < l - 1 => m[e + 1].role # "TOOL"
      BY <1>3, <3>1 DEF Closed
    <3>3. e \in Nat /\ l - 1 \in Nat /\ l <= Len(m) /\ Len(m) \in Nat
      BY <1>1, <1>2, <3>1
    <3> HIDE DEF e
    <3>4. (e < l - 1 \/ e = l - 1) /\ e <= Len(m) /\ (e = l - 1 => e + 1 = l)
      BY <3>2, <3>3
    <3>5. m[e + 1].role # "TOOL"
      BY <3>2, <3>4 DEF Underway
    <3> QED BY <3>2, <3>4, <3>5 DEF e
  <2>2. CASE i = l
    <3>1. i + Len(m[i].ids) = Len(m)
      BY <1>1, <2>2
    <3>2. \A k \in 1..Len(m[i].ids) : m[i + k] = Reports(m[i].ids[k])
      BY <1>1, <2>2 DEF Underway
    <3> QED BY <1>1, <3>1, <3>2, SMTT(30)
  <2>3. CASE i > l
    <3>1. i = l + (i - l) /\ i - l \in 1..Len(m) - l
      BY <1>1, <2>3
    <3>2. m[i] = Reports(m[l].ids[i - l])
      BY <3>1 DEF Underway
    <3> QED BY <1>3, <3>2 DEF Reports
  <2> QED BY <1>1, <2>1, <2>2, <2>3
<1> QED BY <1>3 DEF Closed

\* All calls of the last message are closed at once.
LEMMA ClosedByResults ==
  ASSUME NEW m \in Seq(Message), m # <<>>, Closed(m, Len(m) - 1), m[Len(m)].role = "ASSISTANT",
         NEW s \in Seq(Message), Len(s) = Len(m[Len(m)].ids),
         \A k \in 1..Len(s) : s[k] = Reports(m[Len(m)].ids[k])
  PROVE  Closed(m \o s, Len(m \o s))
<1> DEFINE w == m \o s
<1>1. w \in Seq(Message) /\ Len(w) = Len(m) + Len(s) /\ Len(m) \in Nat \ {0} /\ Len(s) \in Nat
  <2>1. Len(m) \in Nat \ {0} /\ Len(s) \in Nat
    BY EmptySeq, LenProperties
  <2> QED BY <2>1, ConcatProperties
<1>5. \A i \in 1..Len(m) : w[i] = m[i]
  BY <1>1, ConcatProperties
<1>6. ASSUME NEW k \in 1..Len(s) PROVE w[Len(m) + k] = s[k]
  <2>1. Len(m) + k \in 1..Len(m) + Len(s) /\ ~(Len(m) + k <= Len(m)) /\ Len(m) + k - Len(m) = k
    BY <1>1
  <2> QED BY <2>1, ConcatProperties
<1>2. \A i \in 1..Len(m) : Len(m[i].ids) \in Nat
  BY MessageFields
<1> HIDE DEF w
<1>3. Closed(w, Len(m) - 1)
  <2> SUFFICES ASSUME NEW i \in 1..Len(m) - 1, w[i].role = "ASSISTANT"
               PROVE  /\ i + Len(w[i].ids) <= Len(m) - 1
                      /\ \A k \in 1..Len(w[i].ids) : w[i + k] = Reports(w[i].ids[k])
                      /\ i + Len(w[i].ids) < Len(m) - 1 => w[i + Len(w[i].ids) + 1].role # "TOOL"
    BY DEF Closed
  <2>1. w[i] = m[i] /\ i \in 1..Len(m) /\ Len(m[i].ids) \in Nat
    BY <1>1, <1>2, <1>5
  <2>2. /\ i + Len(m[i].ids) <= Len(m) - 1
        /\ \A k \in 1..Len(m[i].ids) : m[i + k] = Reports(m[i].ids[k])
        /\ i + Len(m[i].ids) < Len(m) - 1 => m[i + Len(m[i].ids) + 1].role # "TOOL"
    BY <2>1 DEF Closed
  <2> DEFINE n == Len(m[i].ids)
  <2>3. n \in Nat /\ i \in Nat /\ i + n <= Len(m) - 1
    BY <1>1, <2>1, <2>2
  <2> HIDE DEF n
  <2>4. (\A k \in 1..n : i + k \in 1..Len(m)) /\ (i + n < Len(m) - 1 => i + n + 1 \in 1..Len(m))
    BY <1>1, <2>1, <2>3
  <2>5. \A k \in 1..n : w[i + k] = Reports(w[i].ids[k])
    BY <1>5, <2>1, <2>2, <2>4 DEF n
  <2>6. i + n < Len(m) - 1 => w[i + n + 1].role # "TOOL"
    BY <1>5, <2>2, <2>4 DEF n
  <2> QED BY <2>1, <2>3, <2>5, <2>6 DEF n
<1>4. Underway(w, <<>>, Len(m))
  <2>1. w[Len(m)] = m[Len(m)] /\ Len(w[Len(m)].ids) = Len(w) - Len(m) + 0 /\ Len(w) - Len(m) = Len(s)
    BY <1>1, <1>5
  <2> QED BY <1>1, <1>3, <1>6, <2>1 DEF Underway
<1> QED BY <1>1, <1>4, UnderwayEnds DEF w

-----------------------------------------------------------------------------
(* The invariant. *)

\* Calls are numbered as they are executed; what has been asked for is within what the steps
\* allow; every step and every round of calls is one hop.
CountInv ==
  /\ \A i \in 1..Len(a.history) : a.history[i].id = i
  /\ Len(a.history) <= (MaxCycles - 1) * MaxCalls
  /\ a.hops <= 2 * MaxCycles + 2
  /\ a.pc \in {"agent", "tools"} =>
       /\ a.cycles < MaxCycles
       /\ Len(a.history) + Len(a.pending) <= a.cycles * MaxCalls
       /\ \A j \in 1..Len(a.pending) : a.pending[j] = Len(a.history) + j
       /\ a.hops = IF a.pc = "agent" THEN 2 * a.cycles ELSE 2 * a.cycles - 1
  /\ a.pc \in {"finalize", "fail_safe"} => a.hops <= 2 * MaxCycles + 1

\* The last message asks for calls that nothing answered.
LastOpen ==
  LET m == a.messages
      n == Len(m)
  IN  /\ Closed(m, n - 1) /\ m[n].role = "ASSISTANT"
      /\ \A k \in 1..Len(m[n].ids) : m[n].ids[k] \notin Answered

\* Outside execute_tools the transcript is closed, or the calls of its last message are
\* still open; results carry the numbers of the calls executed.
TalkInv ==
  LET m == a.messages
  IN  /\ m # <<>>
      /\ a.pc \notin {"tools", "fail_safe"} => Closed(m, Len(m))
      /\ a.pc = "tools" => \E l \in 1..Len(m) : Underway(m, a.pending, l)
      /\ a.pc = "fail_safe" => Closed(m, Len(m)) \/ LastOpen
      /\ a.pc \in {"agent", "tools"} =>
           \A i \in 1..Len(m) : m[i].role = "TOOL" => m[i].ids[1] \in 1..Len(a.history)

\* What is named had been returned, and the files the run has handles for were, unless
\* a call broke.
NamesInv ==
  /\ call.named \subseteq known
  /\ \/ \E j \in 1..Len(a.history) : a.history[j].outcome = "internal"
     \/ \A f \in known : \E j \in 1..Len(a.history) : f \in a.history[j].returned
  /\ NamedFilesWereReturned

AgentInv == TypeOKT /\ CountInv /\ TalkInv /\ NamesInv

LEMMA Products ==
  /\ \A c \in Nat : (c + 1) * MaxCalls = c * MaxCalls + MaxCalls
  /\ \A c \in Nat : c < MaxCycles => c * MaxCalls <= (MaxCycles - 1) * MaxCalls
  /\ 0 * MaxCalls = 0 /\ (MaxCycles - 1) * MaxCalls >= 0
<1>1. MaxCycles \in Nat /\ MaxCycles >= 1 /\ MaxCalls \in Nat
  BY Constants
<1>2. \A c \in Nat : (c + 1) * MaxCalls = c * MaxCalls + MaxCalls
  BY <1>1
<1>3. ASSUME NEW c \in Nat, c < MaxCycles PROVE c * MaxCalls <= (MaxCycles - 1) * MaxCalls
  <2>1. PICK d \in Nat : MaxCycles - 1 = c + d
    BY <1>1, <1>3
  <2>2. (c + d) * MaxCalls = c * MaxCalls + d * MaxCalls /\ d * MaxCalls \in Nat /\ c * MaxCalls \in Nat
    BY <1>1
  <2> QED BY <2>1, <2>2
<1>4. MaxCycles - 1 \in Nat /\ 0 * MaxCalls = 0
  BY <1>1
<1>5. (MaxCycles - 1) * MaxCalls \in Nat
  BY <1>1, <1>4
<1> QED BY <1>2, <1>3, <1>4, <1>5

LEMMA InitialInv == InitT => AgentInv
<1> SUFFICES ASSUME InitT PROVE AgentInv
  OBVIOUS
<1>1. TypeOKT
  BY InitialType
<1>2. /\ a.pc = "agent" /\ a.history = <<>> /\ a.pending = <<>> /\ a.cycles = 0 /\ a.hops = 0
      /\ a.messages = <<User>> /\ known = {} /\ call.named = {}
  BY DEF InitT, NewRun, Registered, Resting
<1>3. CountInv
  BY <1>2, Products, Constants DEF CountInv
<1>4. TalkInv
  <2>1. Closed(<<User>>, 1) /\ Len(<<User>>) = 1 /\ <<User>>[1].role = "USER"
    BY DEF Closed, User
  <2> QED BY <1>2, <2>1 DEF TalkInv
<1>5. NamesInv
  BY <1>2 DEF NamesInv, NamedFilesWereReturned
<1> QED BY <1>1, <1>3, <1>4, <1>5 DEF AgentInv

-----------------------------------------------------------------------------
(* Steps of the tools, and of the index. *)

LEMMA QuietKeeps ==
  ASSUME AgentInv, TypeOKT', a' = a, known' = known, call'.named \subseteq known
  PROVE  AgentInv'
<1>1. CountInv'
  BY DEF AgentInv, CountInv
<1>3. LastOpen => LastOpen'
  BY DEF LastOpen, Answered
<1>4. TalkInv'
  BY <1>3 DEF AgentInv, TalkInv
<1>2. NamesInv'
  BY DEF AgentInv, NamesInv, NamedFilesWereReturned
<1> QED BY <1>1, <1>2, <1>4 DEF AgentInv

LEMMA HandsKeepsCount ==
  ASSUME AgentInv, a.pc = "tools", NEW entry \in Outcome, Returns(entry), entry.id = Head(a.pending)
  PROVE  CountInv'
<1> DEFINE h == a.history
           p == a.pending
<1>1. /\ h \in Seq(Outcome) /\ Len(h) \in Nat /\ p \in Seq(Nat) /\ Len(p) \in Nat \ {0} /\ p # <<>>
      /\ a.hops \in Nat /\ a.cycles \in Nat
  BY EmptySeq, LenProperties DEF AgentInv, TypeOKT, Run
<1>2. /\ a'.history = Append(h, entry) /\ a'.pending = Tail(p) /\ a'.cycles = a.cycles
      /\ a'.pc = IF a'.pending = <<>> THEN "agent" ELSE "tools"
      /\ a'.hops = IF a'.pending = <<>> THEN a.hops + 1 ELSE a.hops
  BY <1>1, ReturnsType DEF AgentInv
<1> DEFINE allowed == a.cycles * MaxCalls
           most    == (MaxCycles - 1) * MaxCalls
<1>15. Len(h) + Len(p) <= allowed
  BY DEF AgentInv, CountInv
<1>3. /\ a.cycles < MaxCycles
      /\ \A j \in 1..Len(p) : p[j] = Len(h) + j
      /\ a.hops = 2 * a.cycles - 1 /\ a.hops <= 2 * MaxCycles + 2
      /\ \A i \in 1..Len(h) : h[i].id = i
  BY DEF AgentInv, CountInv
<1>4. Head(p) = p[1] /\ Tail(p) \in Seq(Nat) /\ Len(Tail(p)) = Len(p) - 1 /\ \A j \in 1..Len(p) - 1 : Tail(p)[j] = p[j + 1]
  BY <1>1, HeadTailProperties
<1>5. /\ Len(a'.history) = Len(h) + 1 /\ a'.history[Len(h) + 1] = entry
      /\ \A i \in 1..Len(h) : a'.history[i] = h[i]
  BY <1>1, <1>2, AppendProperties, SMTT(30)
<1>6. allowed <= most
  BY <1>1, <1>3, Products
<1>7. MaxCycles \in Nat
  BY Constants
<1>16. allowed \in Int /\ most \in Int
  BY <1>1, Constants
<1>14. entry.id = Len(h) + 1
  BY <1>1, <1>3, <1>4
<1> HIDE DEF h, p, allowed, most
<1>8. Len(a'.pending) = Len(p) - 1 /\ \A j \in 1..Len(a'.pending) : a'.pending[j] = p[j + 1]
  BY <1>2, <1>4
<1>9. ASSUME NEW i \in 1..Len(a'.history) PROVE a'.history[i].id = i
  <2>1. i \in 1..Len(h) \/ i = Len(h) + 1
    BY <1>1, <1>5
  <2>2. CASE i \in 1..Len(h)
    BY <1>3, <1>5, <2>2
  <2> QED BY <1>5, <1>14, <2>1, <2>2
<1>10. Len(a'.history) + Len(a'.pending) <= a'.cycles * MaxCalls
  <2>1. Len(a'.history) + Len(a'.pending) = Len(h) + Len(p)
    BY <1>1, <1>5, <1>8
  <2> QED BY <1>2, <1>15, <2>1 DEF allowed
<1>11. Len(a'.history) <= (MaxCycles - 1) * MaxCalls
  <2>1. Len(a'.history) <= most
    BY <1>1, <1>5, <1>6, <1>15, <1>16
  <2> QED BY <2>1 DEF most
<1>12. ASSUME NEW j \in 1..Len(a'.pending) PROVE a'.pending[j] = Len(a'.history) + j
  <2>1. j \in Nat /\ j + 1 \in 1..Len(p)
    BY <1>1, <1>8
  <2>2. a'.pending[j] = p[j + 1] /\ p[j + 1] = Len(h) + (j + 1)
    <3>1. p[j + 1] = Len(h) + (j + 1)
      BY <1>3, <2>1
    <3> QED BY <1>8, <3>1
  <2> QED BY <1>1, <1>5, <2>1, <2>2
<1>13. a'.hops <= 2 * MaxCycles + 2 /\ (a'.hops = IF a'.pc = "agent" THEN 2 * a'.cycles ELSE 2 * a'.cycles - 1)
  <2>1. a.hops = 2 * a.cycles - 1 /\ a.cycles \in Nat /\ a.cycles < MaxCycles /\ a'.cycles = a.cycles
    BY <1>1, <1>2, <1>3
  <2>2. CASE a'.pending = <<>>
    <3>1. a'.pc = "agent" /\ a'.hops = a.hops + 1
      BY <1>2, <2>2
    <3> QED BY <1>7, <2>1, <3>1
  <2>3. CASE a'.pending # <<>>
    <3>1. a'.pc = "tools" /\ a'.hops = a.hops
      BY <1>2, <2>3
    <3> QED BY <1>7, <2>1, <3>1
  <2> QED BY <2>2, <2>3
<1> QED BY <1>2, <1>3, <1>9, <1>10, <1>11, <1>12, <1>13 DEF CountInv

LEMMA HandsKeepsTalk ==
  ASSUME AgentInv, a.pc = "tools", NEW entry \in Outcome, Returns(entry)
  PROVE  TalkInv'
<1> DEFINE m == a.messages
           p == a.pending
           x == Reports(Head(p))
<1>1. /\ m \in Seq(Message) /\ Len(m) \in Nat /\ p \in Seq(Nat) /\ p # <<>> /\ a.history \in Seq(Outcome)
      /\ Head(p) = p[1] /\ p[1] \in Nat /\ 1 \in 1..Len(p)
  BY EmptySeq, LenProperties, HeadTailProperties DEF AgentInv, TypeOKT, Run
<1>2. /\ a'.messages = Append(m, x) /\ a'.pending = Tail(p) /\ a'.history = Append(a.history, entry)
      /\ a'.pc = IF a'.pending = <<>> THEN "agent" ELSE "tools"
      /\ a' \in Run
  BY <1>1, ReturnsType DEF AgentInv
<1>3. x \in Message /\ x.ids[1] = Head(p)
  BY <1>1 DEF Reports, Message
<1>4. PICK l \in 1..Len(m) : Underway(m, p, l)
  BY DEF AgentInv, TalkInv
<1>5. Underway(a'.messages, a'.pending, l)
  BY <1>1, <1>2, <1>4, UnderwayGoesOn, SMTT(30)
<1>6. /\ a'.messages \in Seq(Message) /\ Len(a'.messages) = Len(m) + 1 /\ a'.messages # <<>>
      /\ a'.messages[Len(m) + 1] = x
  <2> HIDE DEF m, x
  <2>1. m \in Seq(Message) /\ x \in Message /\ a'.messages = Append(m, x)
    BY <1>1, <1>2, <1>3
  <2> QED BY <2>1, AppendProperties
<1>7. Len(a'.history) = Len(a.history) + 1 /\ Len(a.history) \in Nat
  BY <1>1, <1>2, AppendProperties, LenProperties
<1>8. ASSUME NEW i \in 1..Len(a'.messages), a'.messages[i].role = "TOOL"
      PROVE  a'.messages[i].ids[1] \in 1..Len(a'.history)
  <2>1. CASE i = Len(m) + 1
    <3>1. \A j \in 1..Len(p) : p[j] = Len(a.history) + j
      BY DEF AgentInv, CountInv
    <3>2. p[1] = Len(a.history) + 1
      BY <1>1, <3>1
    <3>3. a'.messages[i].ids[1] = Len(a.history) + 1
      BY <1>1, <1>3, <1>6, <2>1, <3>2
    <3> QED BY <1>7, <3>3
  <2>2. CASE i \in 1..Len(m)
    <3>1. a'.messages[i] = m[i]
      BY <1>1, <1>2, <1>3, <2>2, AppendProperties
    <3>2. m[i].ids[1] \in 1..Len(a.history)
      BY <1>8, <2>2, <3>1 DEF AgentInv, TalkInv
    <3> QED BY <1>7, <3>1, <3>2, SMTT(30)
  <2> QED BY <1>1, <1>6, <2>1, <2>2
<1>9. a'.pc = "agent" => Closed(a'.messages, Len(a'.messages))
  <2> SUFFICES ASSUME a'.pc = "agent" PROVE Closed(a'.messages, Len(a'.messages))
    OBVIOUS
  <2>1. a'.pending = <<>> /\ l \in Nat
    BY <1>1, <1>2, SMTT(30)
  <2>2. Underway(a'.messages, <<>>, l)
    BY <1>5, <2>1
  <2> QED BY <1>6, <2>1, <2>2, UnderwayEnds
<1>10. l \in 1..Len(a'.messages)
  BY <1>1, <1>6
<1> HIDE DEF m, p, x
<1> QED BY <1>2, <1>5, <1>6, <1>8, <1>9, <1>10 DEF TalkInv

LEMMA HandsKeepsNames ==
  ASSUME AgentInv, a.pc = "tools", NEW entry \in Outcome, Returns(entry), Honest(entry)
  PROVE  NamesInv'
<1> DEFINE h == a.history
<1>1. h \in Seq(Outcome) /\ Len(h) \in Nat /\ a.pending # <<>>
  BY LenProperties DEF AgentInv, TypeOKT, Run
<1>2. a'.history = Append(h, entry) /\ call' = Resting
  BY <1>1, ReturnsType DEF AgentInv
<1>3. /\ Len(a'.history) = Len(h) + 1 /\ a'.history[Len(h) + 1] = entry
      /\ \A i \in 1..Len(h) : a'.history[i] = h[i]
      /\ DOMAIN h = 1..Len(h) /\ DOMAIN a'.history = 1..Len(h) + 1
  BY <1>1, <1>2, AppendProperties, LenProperties
<1>4. call'.named \subseteq known'
  BY <1>2 DEF Resting
<1> HIDE DEF h
<1>5. \/ \E j \in 1..Len(a'.history) : a'.history[j].outcome = "internal"
      \/ \A f \in known' : \E j \in 1..Len(a'.history) : f \in a'.history[j].returned
  <2>1. CASE \E j \in 1..Len(h) : h[j].outcome = "internal"
    BY <1>1, <1>3, <2>1
  <2>2. CASE entry.outcome = "internal"
    BY <1>1, <1>3, <2>2
  <2>3. CASE /\ known' \subseteq known \cup entry.returned
             /\ \A f \in known : \E j \in 1..Len(h) : f \in h[j].returned
    BY <1>1, <1>3, <2>3
  <2> QED BY <2>1, <2>2, <2>3 DEF AgentInv, NamesInv, Honest, h
<1>6. ASSUME NEW i \in 1..Len(h) + 1
      PROVE  \/ \E j \in 1..i - 1 : a'.history[j].outcome = "internal"
             \/ \A f \in a'.history[i].named : \E j \in 1..i - 1 : f \in a'.history[j].returned
  <2>1. CASE i \in 1..Len(h)
    <3>1. \/ \E j \in 1..i - 1 : h[j].outcome = "internal"
          \/ \A f \in h[i].named : \E j \in 1..i - 1 : f \in h[j].returned
      BY <1>3, <2>1 DEF AgentInv, NamesInv, NamedFilesWereReturned, h
    <3>2. \A j \in 1..i - 1 : a'.history[j] = h[j]
      BY <1>1, <1>3, <2>1
    <3> QED BY <1>3, <2>1, <3>1, <3>2
  <2>2. CASE i = Len(h) + 1
    <3>1. i - 1 = Len(h) /\ a'.history[i] = entry
      BY <1>1, <1>3, <2>2
    <3>2. entry.named \subseteq known
      BY DEF Honest
    <3>3. \/ \E j \in 1..Len(h) : h[j].outcome = "internal"
          \/ \A f \in known : \E j \in 1..Len(h) : f \in h[j].returned
      BY DEF AgentInv, NamesInv, h
    <3> QED BY <1>3, <3>1, <3>2, <3>3
  <2> QED BY <1>1, <2>1, <2>2
<1> QED BY <1>3, <1>4, <1>5, <1>6 DEF NamesInv, NamedFilesWereReturned

LEMMA WorksKeeps == ASSUME AgentInv, Works PROVE AgentInv'
<1>1. TypeOKT' /\ a.pc = "tools" /\ (Waits \/ Hands)
  BY WorksEffect DEF AgentInv, NamesInv
<1>2. CASE Waits
  BY <1>1, <1>2, QuietKeeps DEF Waits
<1>3. CASE Hands
  <2>1. PICK entry \in Outcome : Returns(entry) /\ Honest(entry)
    BY <1>3 DEF Hands
  <2>2. entry.id = Head(a.pending)
    BY <2>1 DEF Honest
  <2> QED BY <1>1, <2>1, <2>2, HandsKeepsCount, HandsKeepsTalk, HandsKeepsNames DEF AgentInv
<1> QED BY <1>1, <1>2, <1>3

LEMMA IndexKeeps == ASSUME AgentInv, IndexChanges PROVE AgentInv'
<1>1. a' = a /\ known' = known /\ call' = call /\ changes' \in Nat
  BY DEF IndexChanges, AgentInv, TypeOKT
<1>2. PICK f \in Files : Withdraw(f) \/ Publish(f)
  BY DEF IndexChanges
<1>3. live' \in SUBSET Files /\ rows' \in [Files -> Generations]
  BY <1>2 DEF Withdraw, Publish, AgentInv, TypeOKT
<1>4. TypeOKT'
  BY <1>1, <1>3 DEF AgentInv, TypeOKT
<1> QED BY <1>1, <1>4, QuietKeeps DEF AgentInv, NamesInv

-----------------------------------------------------------------------------
(* Steps of the model, and the end of a run. *)

LEMMA RaiseKeeps == ASSUME AgentInv, Raise PROVE AgentInv'
<1>1. TypeOKT'
  BY RaiseType DEF AgentInv
<1>2. /\ a'.pc = "raised" /\ a'.history = <<>> /\ a'.hops = 0 /\ a'.messages = <<User>>
      /\ known' = {} /\ call'.named = {}
  BY Raised DEF Raise, Resting
<1>3. CountInv'
  BY <1>2, Products, Constants DEF CountInv
<1>4. TalkInv'
  <2>1. Closed(<<User>>, 1) /\ Len(<<User>>) = 1 /\ <<User>> # <<>>
    BY DEF Closed, User
  <2> QED BY <1>2, <2>1 DEF TalkInv
<1>5. NamesInv'
  BY <1>2 DEF NamesInv, NamedFilesWereReturned
<1> QED BY <1>1, <1>3, <1>4, <1>5 DEF AgentInv

LEMMA FailKeeps ==
  ASSUME AgentInv, a.pc = "agent", NEW failure \in Failures, NEW cycles \in Nat, Fail(failure, cycles)
  PROVE  AgentInv'
<1>1. TypeOKT' /\ a'.pc = "fail_safe"
  BY FailType DEF AgentInv
<1>2. a \in Run /\ a.hops \in Nat /\ a.cycles \in Nat
  BY DEF AgentInv, TypeOKT, Run
<1>3. a' = [a EXCEPT !.pc = "fail_safe", !.failure = failure, !.cycles = cycles, !.hops = @ + 1]
      /\ known' = known /\ call' = call
  BY DEF Fail
<1>4. a'.history = a.history /\ a'.messages = a.messages /\ a'.hops = a.hops + 1
  BY <1>2, <1>3 DEF Run
<1>5. a.hops = 2 * a.cycles /\ a.cycles < MaxCycles
  BY DEF AgentInv, CountInv
<1>6. CountInv'
  BY <1>1, <1>2, <1>4, <1>5, Constants DEF AgentInv, CountInv
<1>7. TalkInv'
  BY <1>1, <1>4 DEF AgentInv, TalkInv
<1>8. NamesInv'
  BY <1>1, <1>3, <1>4 DEF AgentInv, NamesInv, NamedFilesWereReturned
<1> QED BY <1>1, <1>6, <1>7, <1>8 DEF AgentInv

LEMMA ExecutedCount ==
  ASSUME AgentInv
  PROVE  Executed = 1..Len(a.history) /\ Cardinality(Executed) = Len(a.history) /\ Len(a.history) \in Nat
<1>1. Len(a.history) \in Nat /\ DOMAIN a.history = 1..Len(a.history)
  BY LenProperties DEF AgentInv, TypeOKT, Run
<1>2. \A i \in 1..Len(a.history) : a.history[i].id = i
  BY DEF AgentInv, CountInv
<1>3. Executed = 1..Len(a.history)
  BY <1>1, <1>2 DEF Executed
<1> QED BY <1>1, <1>3, FS_Interval

\* The model speaks, with or without calls.
LEMMA SaysKeeps ==
  ASSUME AgentInv, a.pc = "agent", NEW ids \in Seq(Nat)
  PROVE  LET m == Append(a.messages, Says(ids))
         IN  /\ Says(ids) \in Message /\ m \in Seq(Message) /\ m # <<>> /\ Len(m) = Len(a.messages) + 1
             /\ Len(a.messages) \in Nat /\ m[Len(m)] = Says(ids)
             /\ Underway(m, ids, Len(m)) /\ Closed(m, Len(m) - 1)
             /\ ids = <<>> => Closed(m, Len(m))
             /\ \A i \in 1..Len(m) : m[i].role = "TOOL" => m[i].ids[1] \in 1..Len(a.history)
<1> DEFINE m == Append(a.messages, Says(ids))
<1>1. a.messages \in Seq(Message) /\ Len(a.messages) \in Nat /\ Closed(a.messages, Len(a.messages))
  BY LenProperties DEF AgentInv, TypeOKT, Run, TalkInv
<1>2. Says(ids) \in Message /\ Says(ids).role = "ASSISTANT" /\ Says(ids).ids = ids
  BY DEF Says, Message
<1>3. /\ m \in Seq(Message) /\ m # <<>> /\ Len(m) = Len(a.messages) + 1 /\ m[Len(m)] = Says(ids)
      /\ \A i \in 1..Len(a.messages) : m[i] = a.messages[i]
  BY <1>1, <1>2, AppendProperties
<1>4. Underway(m, ids, Len(m)) /\ Closed(m, Len(m) - 1)
  <2>1. Closed(m, Len(a.messages))
    BY <1>1, <1>2, ClosedAppend
  <2> QED BY <1>1, <1>3, <2>1, UnderwayStarts
<1>5. ids = <<>> => Closed(m, Len(m))
  BY <1>1, <1>2, ClosedOne
<1>6. ASSUME NEW i \in 1..Len(m), m[i].role = "TOOL" PROVE m[i].ids[1] \in 1..Len(a.history)
  <2>1. i \in 1..Len(a.messages) /\ m[i] = a.messages[i]
    BY <1>1, <1>2, <1>3, <1>6
  <2> QED BY <1>6, <2>1 DEF AgentInv, TalkInv
<1> QED BY <1>1, <1>2, <1>3, <1>4, <1>5, <1>6

LEMMA ConcludeKeeps == ASSUME AgentInv, Conclude PROVE AgentInv'
<1>1. a \in Run /\ a.hops \in Nat /\ a.cycles \in Nat /\ a.pc = "agent" /\ <<>> \in Seq(Nat) /\ a.pending = <<>>
  BY EmptySeq DEF Conclude, AgentInv, TypeOKT, Run
<1> DEFINE m == Append(a.messages, Says(<<>>))
<1>2. m \in Seq(Message) /\ m # <<>> /\ Closed(m, Len(m))
  BY <1>1, SaysKeeps
<1>3. a' = [a EXCEPT !.pc = "finalize", !.cycles = a.cycles + 1, !.hops = a.hops + 1, !.messages = m]
      /\ known' = known /\ call' = call /\ UNCHANGED index
  BY DEF Conclude
<1> HIDE DEF m
<1>4. /\ a' \in Run /\ a'.pc = "finalize" /\ a'.hops = a.hops + 1 /\ a'.messages = m
      /\ a'.history = a.history /\ a'.pending = a.pending
  <2>1. a \in Run /\ a.hops + 1 \in Nat /\ a.cycles + 1 \in Nat /\ m \in Seq(Message)
    BY <1>1, <1>2
  <2>2. a' = [a EXCEPT !.pc = "finalize", !.cycles = a.cycles + 1, !.hops = a.hops + 1, !.messages = m]
    BY <1>3
  <2> QED BY <2>1, <2>2 DEF Run
<1>5. TypeOKT'
  BY <1>1, <1>3, <1>4 DEF AgentInv, TypeOKT, index
<1>6. a.hops = 2 * a.cycles /\ a.cycles < MaxCycles
  BY <1>1 DEF AgentInv, CountInv
<1>7. CountInv'
  BY <1>1, <1>4, <1>6, Constants, SMTT(30) DEF AgentInv, CountInv
<1>8. TalkInv'
  BY <1>2, <1>4 DEF TalkInv
<1>9. NamesInv'
  BY <1>1, <1>3, <1>4 DEF AgentInv, NamesInv, NamedFilesWereReturned
<1> QED BY <1>5, <1>7, <1>8, <1>9 DEF AgentInv

LEMMA AskToolsKeeps == ASSUME AgentInv, AskTools PROVE AgentInv'
<1> DEFINE h == a.history
<1>1. a \in Run /\ a.hops + 1 \in Nat /\ a.cycles + 1 \in Nat /\ a.cycles \in Nat /\ a.pc = "agent"
  BY DEF AskTools, AgentInv, TypeOKT, Run
<1>2. Cardinality(Executed) = Len(h) /\ Len(h) \in Nat /\ MaxCycles \in Nat /\ MaxCalls \in Nat
  BY ExecutedCount, Constants
<1>3. PICK ids \in NewIds :
        a' = [a EXCEPT !.cycles = a.cycles + 1, !.hops = a.hops + 1,
                       !.messages = Append(a.messages, Says(ids)),
                       !.failure = IF a.cycles + 1 >= MaxCycles THEN "CYCLE_LIMIT" ELSE a.failure,
                       !.pc = IF a.cycles + 1 >= MaxCycles THEN "fail_safe" ELSE "tools",
                       !.pending = IF a.cycles + 1 >= MaxCycles THEN a.pending ELSE ids]
  BY DEF AskTools
<1>4. known' = known /\ call' = call /\ UNCHANGED index
  BY DEF AskTools
<1>5. PICK n \in 1..MaxCalls : ids = [i \in 1..n |-> Len(h) + i]
  BY <1>2 DEF NewIds
<1>6. ids \in Seq(Nat) /\ Len(ids) = n /\ n \in Nat /\ ids # <<>> /\ \A k \in 1..Len(ids) : ids[k] = Len(h) + k
  BY <1>2, <1>5
<1> DEFINE m == Append(a.messages, Says(ids))
<1>7. /\ Says(ids).ids = ids /\ Says(ids).role = "ASSISTANT" /\ m \in Seq(Message) /\ m # <<>>
      /\ Len(m) \in Nat \ {0} /\ m[Len(m)] = Says(ids)
      /\ Underway(m, ids, Len(m)) /\ Closed(m, Len(m) - 1)
      /\ \A i \in 1..Len(m) : m[i].role = "TOOL" => m[i].ids[1] \in 1..Len(h)
  BY <1>1, <1>6, SaysKeeps, SMTT(30) DEF Says
<1> HIDE DEF m, h
<1>8. a.cycles < MaxCycles /\ a.hops = 2 * a.cycles
  BY <1>1 DEF AgentInv, CountInv
<1>9. CASE a.cycles + 1 >= MaxCycles
  <2>1. a' = [a EXCEPT !.cycles = a.cycles + 1, !.hops = a.hops + 1, !.messages = m,
                       !.failure = "CYCLE_LIMIT", !.pc = "fail_safe", !.pending = a.pending]
    BY <1>3, <1>9 DEF m
  <2>2. "CYCLE_LIMIT" \in Failures
    BY DEF Failures
  <2>3. a' \in Run
    BY <1>1, <1>7, <2>1, <2>2 DEF Run
  <2>4. /\ a'.pc = "fail_safe" /\ a'.messages = m /\ a'.hops = a.hops + 1
        /\ a'.history = h /\ a'.pending = a.pending
    BY <1>1, <2>1 DEF Run, h
  <2>5. TypeOKT'
    BY <1>1, <1>4, <2>3, <2>4 DEF AgentInv, TypeOKT, index
  <2>6. CountInv'
    BY <1>1, <1>2, <1>8, <2>4 DEF AgentInv, CountInv, h
  <2>7. LastOpen'
    <3>1. DOMAIN m = 1..Len(m)
      BY <1>7, LenProperties
    <3>2. ASSUME NEW k \in 1..Len(ids) PROVE ids[k] \notin Answered'
      BY <1>2, <1>6, <1>7, <2>4, <3>1, SMTT(30) DEF Answered
    <3> QED BY <1>7, <2>4, <3>2 DEF LastOpen
  <2>8. TalkInv'
    BY <1>7, <2>4, <2>7 DEF TalkInv
  <2>9. NamesInv'
    BY <1>1, <1>4, <2>4 DEF AgentInv, NamesInv, NamedFilesWereReturned, h
  <2> QED BY <2>5, <2>6, <2>8, <2>9 DEF AgentInv
<1>10. CASE ~(a.cycles + 1 >= MaxCycles)
  <2>1. a' = [a EXCEPT !.cycles = a.cycles + 1, !.hops = a.hops + 1, !.messages = m,
                       !.failure = a.failure, !.pc = "tools", !.pending = ids]
    BY <1>3, <1>10 DEF m
  <2>2. a' \in Run
    BY <1>1, <1>6, <1>7, <2>1 DEF Run
  <2>3. /\ a'.pc = "tools" /\ a'.messages = m /\ a'.hops = a.hops + 1 /\ a'.cycles = a.cycles + 1
        /\ a'.history = h /\ a'.pending = ids
    BY <1>1, <2>1 DEF Run, h
  <2>4. TypeOKT'
    BY <1>4, <1>6, <2>2, <2>3 DEF AgentInv, TypeOKT, index
  <2>5. CountInv'
    <3>1. Len(h) <= a.cycles * MaxCalls /\ Len(h) <= (MaxCycles - 1) * MaxCalls /\ \A i \in 1..Len(h) : h[i].id = i
      <4>1. a.pending = <<>>
        BY <1>1 DEF AgentInv, TypeOKT
      <4>2. Len(h) + Len(a.pending) <= a.cycles * MaxCalls
        BY <1>1 DEF AgentInv, CountInv, h
      <4> QED BY <1>2, <4>1, <4>2 DEF AgentInv, CountInv, h
    <3>2. Len(h) + Len(ids) <= (a.cycles + 1) * MaxCalls
      <4>1. (a.cycles + 1) * MaxCalls = a.cycles * MaxCalls + MaxCalls /\ a.cycles * MaxCalls \in Int
        BY <1>1, <1>2, Products
      <4> QED BY <1>2, <1>5, <1>6, <3>1, <4>1
    <3>3. a'.hops = 2 * a'.cycles - 1 /\ a'.hops <= 2 * MaxCycles + 2 /\ a'.cycles < MaxCycles
      BY <1>1, <1>2, <1>8, <1>10, <2>3, SMTT(30)
    <3> QED BY <1>6, <2>3, <3>1, <3>2, <3>3 DEF CountInv
  <2>6. TalkInv'
    <3>1. Len(m) \in 1..Len(m)
      BY <1>7
    <3> QED BY <1>7, <2>3, <3>1 DEF TalkInv, h
  <2>7. NamesInv'
    BY <1>1, <1>4, <2>3 DEF AgentInv, NamesInv, NamedFilesWereReturned, h
  <2> QED BY <2>4, <2>5, <2>6, <2>7 DEF AgentInv
<1> QED BY <1>9, <1>10

LEMMA Below == \A n \in Nat : \A k \in 1..n : {j \in 1..n : j <= k} = 1..k /\ Cardinality(1..k) = k
<1> SUFFICES ASSUME NEW n \in Nat, NEW k \in 1..n
             PROVE  {j \in 1..n : j <= k} = 1..k /\ Cardinality(1..k) = k
  OBVIOUS
<1>1. k \in Nat /\ k - 1 + 1 = k
  OBVIOUS
<1>2. Cardinality(1..k) = k
  BY <1>1, FS_Interval
<1>3. \A j : j \in {i \in 1..n : i <= k} <=> j \in 1..k
  OBVIOUS
<1> QED BY <1>2, <1>3

\* What fail_safe adds are the results of all calls of a last message nobody answered.
LEMMA ClosingIsAll ==
  ASSUME AgentInv, Last(a.messages).role = "ASSISTANT",
         \A k \in 1..Len(Last(a.messages).ids) : Last(a.messages).ids[k] \notin Answered
  PROVE  Closing = [k \in 1..Len(Last(a.messages).ids) |-> Reports(Last(a.messages).ids[k])]
<1> DEFINE ids  == Last(a.messages).ids
           open == {k \in DOMAIN ids : ids[k] \notin Answered}
           ith(i) == CHOOSE k \in open : Cardinality({j \in open : j <= k}) = i
<1>1. a.messages \in Seq(Message) /\ Len(a.messages) \in 1..Len(a.messages)
  BY EmptySeq, LenProperties DEF AgentInv, TypeOKT, Run, TalkInv
<1>2. ids \in Seq(Nat) /\ Len(ids) \in Nat /\ DOMAIN ids = 1..Len(ids)
  BY <1>1, MessageFields, LenProperties DEF Last
<1>3. open = 1..Len(ids)
  BY <1>2
<1>4. \A k \in Nat : Cardinality(1..k) = k
  BY FS_Interval
<1>5. ASSUME NEW i \in 1..Len(ids) PROVE ith(i) = i
  <2>1. ASSUME NEW k \in 1..Len(ids) PROVE Cardinality({j \in open : j <= k}) = k
    <3>1. {j \in 1..Len(ids) : j <= k} = 1..k /\ Cardinality(1..k) = k
      BY <1>2, Below
    <3>2. {j \in open : j <= k} = {j \in 1..Len(ids) : j <= k}
      BY <1>3
    <3> QED BY <3>1, <3>2
  <2> HIDE DEF open
  <2> QED BY <1>3, <2>1
<1>6. Closing = [i \in 1..Cardinality(open) |-> Reports(ids[ith(i)])]
  BY DEF Closing
<1>7. Cardinality(open) = Len(ids)
  BY <1>2, <1>3, <1>4
<1> HIDE DEF ids, open, ith
<1> QED BY <1>5, <1>6, <1>7 DEF ids

\* However fail_safe was reached, the transcript it leaves is closed.
LEMMA FailSafeTalk ==
  ASSUME AgentInv, a.pc = "fail_safe"
  PROVE  /\ Append(a.messages \o Closing, Says(<<>>)) \in Seq(Message)
         /\ Append(a.messages \o Closing, Says(<<>>)) # <<>>
         /\ Closed(Append(a.messages \o Closing, Says(<<>>)), Len(Append(a.messages \o Closing, Says(<<>>))))
<1> DEFINE m == a.messages
           n == Len(m)
           w == m \o Closing
<1>1. m \in Seq(Message) /\ n \in Nat /\ n \in 1..n /\ m # <<>> /\ Last(m) = m[n] /\ DOMAIN m = 1..n
  BY EmptySeq, LenProperties DEF AgentInv, TypeOKT, Run, TalkInv, Last
<1>2. m[n].ids \in Seq(Nat) /\ Len(m[n].ids) \in Nat
  BY <1>1, MessageFields
<1>3. Closed(m, n) \/ LastOpen
  BY DEF AgentInv, TalkInv
<1>4. w \in Seq(Message) /\ Closed(w, Len(w))
  <2>1. CASE m[n].role # "ASSISTANT"
    <3>1. Closing = <<>> /\ Closed(m, n)
      BY <1>1, <1>3, <2>1 DEF Closing, LastOpen
    <3>2. w = m
      BY <1>1, <3>1, ConcatEmptySeq
    <3> QED BY <1>1, <3>1, <3>2
  <2>2. CASE m[n].role = "ASSISTANT" /\ Closed(m, n)
    <3>1. m[n].ids = <<>>
      <4>1. n + Len(m[n].ids) <= n
        BY <1>1, <2>2 DEF Closed
      <4>2. Len(m[n].ids) = 0
        BY <1>1, <1>2, <4>1
      <4> QED BY <1>2, <4>2, EmptySeq
    <3>2. Closing = <<>>
      <4>1. Closing = [k \in 1..0 |-> Reports(Last(m).ids[k])]
        BY <1>1, <2>2, <3>1, ClosingIsAll
      <4> QED BY <4>1
    <3>3. w = m
      BY <1>1, <3>2, ConcatEmptySeq
    <3> QED BY <1>1, <2>2, <3>3
  <2>3. CASE m[n].role = "ASSISTANT" /\ LastOpen
    <3>1. Closing = [k \in 1..Len(m[n].ids) |-> Reports(m[n].ids[k])]
      BY <1>1, <2>3, ClosingIsAll DEF LastOpen
    <3>2. \A k \in 1..Len(m[n].ids) : Reports(m[n].ids[k]) \in Message
      BY <1>2, SMTT(30) DEF Reports, Message
    <3>3. Closing \in Seq(Message) /\ Len(Closing) = Len(m[n].ids)
      BY <1>2, <3>1, <3>2
    <3>4. Closed(m, n - 1) /\ \A k \in 1..Len(Closing) : Closing[k] = Reports(m[n].ids[k])
      BY <2>3, <3>1, <3>3 DEF LastOpen
    <3> QED BY <1>1, <2>3, <3>3, <3>4, ClosedByResults, ConcatProperties
  <2> QED BY <1>3, <2>1, <2>2, <2>3
<1>5. Says(<<>>) \in Message /\ Says(<<>>).role = "ASSISTANT" /\ Says(<<>>).ids = <<>>
  BY EmptySeq DEF Says, Message
<1> HIDE DEF w
<1>6. Closed(Append(w, Says(<<>>)), Len(Append(w, Says(<<>>))))
  BY <1>4, <1>5, ClosedOne
<1>7. Append(w, Says(<<>>)) \in Seq(Message) /\ Append(w, Says(<<>>)) # <<>>
  BY <1>4, <1>5, AppendProperties
<1> QED BY <1>6, <1>7 DEF w

LEMMA FailSafeKeeps == ASSUME AgentInv, FailSafe PROVE AgentInv'
<1> DEFINE m == Append(a.messages \o Closing, Says(<<>>))
           answer == IF a.failure = "CYCLE_LIMIT" THEN "limit" ELSE "failure"
<1>1. a \in Run /\ a.hops + 1 \in Nat /\ a.hops \in Nat /\ a.pc = "fail_safe" /\ answer \in Answers
  BY DEF FailSafe, AgentInv, TypeOKT, Run, Answers
<1>2. m \in Seq(Message) /\ m # <<>> /\ Closed(m, Len(m))
  BY <1>1, FailSafeTalk
<1>3. a' = [a EXCEPT !.pc = "adapter", !.hops = a.hops + 1, !.answer = answer, !.messages = m]
  BY DEF FailSafe
<1>4. known' = known /\ call' = call /\ UNCHANGED index
  BY DEF FailSafe
<1> HIDE DEF m, answer
<1>5. a' \in Run
  BY <1>1, <1>2, <1>3 DEF Run
<1>6. /\ a'.pc = "adapter" /\ a'.messages = m /\ a'.hops = a.hops + 1
      /\ a'.history = a.history /\ a'.pending = a.pending
  BY <1>1, <1>3 DEF Run
<1>7. TypeOKT'
  BY <1>1, <1>4, <1>5, <1>6 DEF AgentInv, TypeOKT, index
<1>8. CountInv'
  BY <1>1, <1>6, Constants DEF AgentInv, CountInv
<1>9. TalkInv'
  BY <1>2, <1>6 DEF TalkInv
<1>10. NamesInv'
  BY <1>1, <1>4, <1>6 DEF AgentInv, NamesInv, NamedFilesWereReturned
<1> QED BY <1>7, <1>8, <1>9, <1>10 DEF AgentInv

LEMMA EvidenceType == AgentInv => Evidence \in SUBSET Passages
<1> SUFFICES ASSUME AgentInv PROVE Evidence \in SUBSET Passages
  OBVIOUS
<1>1. a.history \in Seq(Outcome) /\ DOMAIN a.history = 1..Len(a.history)
  BY LenProperties DEF AgentInv, TypeOKT, Run
<1>2. \A i \in Reads : a.history[i] \in Outcome
  BY <1>1, ElementOfSeq DEF Reads
<1>3. \A i \in Reads : a.history[i].passages \in SUBSET Passages
  BY <1>2 DEF Outcome
<1> QED BY <1>3 DEF Evidence

LEMMA FinalizeKeeps ==
  ASSUME AgentInv, Finalize
  PROVE  AgentInv' /\ a'.history = a.history /\ a'.pc = "adapter"
         /\ \/ a'.answer = "model" /\ a'.failure = a.failure /\ a'.cites \in Cited(Evidence)
            \/ a'.answer = "failure"
<1>1. a \in Run /\ a.hops + 1 \in Nat /\ a.hops \in Nat /\ a.pc = "finalize" /\ a.failure \in Failures
  <2>1. a \in Run /\ a.pc = "finalize"
    BY DEF Finalize, AgentInv, TypeOKT
  <2>2. a.hops \in Nat /\ a.failure \in Failures
    BY <2>1, SMTT(30) DEF Run
  <2> QED BY <2>1, <2>2
<1>2. PICK cites \in SUBSET Passages, answer \in Answers, failure \in Failures :
        /\ a' = [a EXCEPT !.pc = "adapter", !.hops = a.hops + 1, !.answer = answer, !.cites = cites, !.failure = failure]
        /\ (answer = "model" /\ failure = a.failure /\ cites \in Cited(Evidence)) \/ answer = "failure"
  <2>1. CASE \E cites \in Cited(Evidence) :
               a' = [a EXCEPT !.pc = "adapter", !.hops = @ + 1, !.answer = "model", !.cites = cites]
    <3>1. PICK cites \in Cited(Evidence) :
            a' = [a EXCEPT !.pc = "adapter", !.hops = @ + 1, !.answer = "model", !.cites = cites]
      BY <2>1
    <3>2. cites \in SUBSET Passages
      BY EvidenceType DEF Cited
    <3>3. a' = [a EXCEPT !.pc = "adapter", !.hops = a.hops + 1, !.answer = "model", !.cites = cites, !.failure = a.failure]
      BY <1>1, <3>1 DEF Run
    <3>4. "model" \in Answers
      BY DEF Answers
    <3> QED BY <1>1, <3>1, <3>2, <3>3, <3>4
  <2>2. CASE a' = [a EXCEPT !.pc = "adapter", !.hops = @ + 1, !.answer = "failure", !.failure = "UNSAFE_FINAL_OUTPUT"]
    <3>1. a.cites \in SUBSET Passages /\ "UNSAFE_FINAL_OUTPUT" \in Failures /\ "failure" \in Answers
      BY <1>1 DEF Run, Failures, Answers
    <3>2. a' = [a EXCEPT !.pc = "adapter", !.hops = a.hops + 1, !.answer = "failure", !.cites = a.cites,
                         !.failure = "UNSAFE_FINAL_OUTPUT"]
      BY <1>1, <2>2 DEF Run
    <3> QED BY <3>1, <3>2
  <2> QED BY <2>1, <2>2 DEF Finalize
<1>3. known' = known /\ call' = call /\ UNCHANGED index
  BY DEF Finalize
<1>4. a' \in Run
  BY <1>1, <1>2 DEF Run
<1>5. /\ a'.pc = "adapter" /\ a'.messages = a.messages /\ a'.hops = a.hops + 1
      /\ a'.history = a.history /\ a'.pending = a.pending
      /\ a'.answer = answer /\ a'.failure = failure /\ a'.cites = cites
  BY <1>1, <1>2 DEF Run
<1>6. TypeOKT'
  BY <1>1, <1>3, <1>4, <1>5 DEF AgentInv, TypeOKT, index
<1>7. CountInv'
  BY <1>1, <1>5, Constants DEF AgentInv, CountInv
<1>8. TalkInv'
  BY <1>1, <1>5 DEF AgentInv, TalkInv
<1>9. NamesInv'
  BY <1>1, <1>3, <1>5 DEF AgentInv, NamesInv, NamedFilesWereReturned
<1> QED BY <1>2, <1>5, <1>6, <1>7, <1>8, <1>9 DEF AgentInv

LEMMA AdaptKeeps ==
  ASSUME AgentInv, Adapt
  PROVE  /\ AgentInv'
         /\ \/ Raise
            \/ /\ a.failure \in {None, "CYCLE_LIMIT", "MESSAGE_LIMIT"}
               /\ \A i \in 1..Len(a.history) : a.history[i].outcome # "internal"
               /\ a'.pc = "returned" /\ a'.history = a.history /\ a'.cites = a.cites
               /\ a'.answer = IF Unsupported THEN "no_evidence" ELSE a.answer
               /\ a'.notice = (\E i \in 1..Len(a.history) : Truncated(a.history[i]))
<1>1. CASE Raise
  BY <1>1, RaiseKeeps
<1>2. CASE ~Raise
  <2> DEFINE answer == IF Unsupported THEN "no_evidence" ELSE a.answer
             notice == \E i \in DOMAIN a.history : Truncated(a.history[i])
  <2>1. a \in Run /\ a.pc = "adapter" /\ a.history \in Seq(Outcome) /\ DOMAIN a.history = 1..Len(a.history)
    <3>1. a \in Run /\ a.pc = "adapter"
      BY DEF Adapt, AgentInv, TypeOKT
    <3>2. a.history \in Seq(Outcome)
      BY <3>1 DEF Run
    <3> QED BY <3>1, <3>2, LenProperties
  <2>2. /\ a.failure \in {None, "CYCLE_LIMIT", "MESSAGE_LIMIT"}
        /\ \A i \in 1..Len(a.history) : a.history[i].outcome # "internal"
        /\ a' = [a EXCEPT !.pc = "returned", !.answer = answer, !.notice = notice]
        /\ known' = known /\ call' = call /\ UNCHANGED index
    BY <1>2, <2>1 DEF Adapt
  <2>3. answer \in Answers /\ notice \in BOOLEAN
    BY <2>1 DEF Run, Answers
  <2>4. a' \in Run
    <3> HIDE DEF answer, notice
    <3> QED BY <2>1, <2>2, <2>3 DEF Run
  <2>5. /\ a'.pc = "returned" /\ a'.messages = a.messages /\ a'.hops = a.hops
        /\ a'.history = a.history /\ a'.pending = a.pending /\ a'.cites = a.cites
        /\ a'.answer = answer /\ a'.notice = notice
    <3> HIDE DEF answer, notice
    <3> QED BY <2>1, <2>2 DEF Run
  <2>6. TypeOKT'
    BY <2>1, <2>2, <2>4, <2>5 DEF AgentInv, TypeOKT, index
  <2>7. CountInv'
    BY <2>1, <2>5 DEF AgentInv, CountInv
  <2>8. TalkInv'
    BY <2>1, <2>5 DEF AgentInv, TalkInv
  <2>9. NamesInv'
    BY <2>1, <2>2, <2>5 DEF AgentInv, NamesInv, NamedFilesWereReturned
  <2>10. a'.notice = (\E i \in 1..Len(a.history) : Truncated(a.history[i]))
    BY <2>1, <2>5
  <2> QED BY <2>2, <2>5, <2>6, <2>7, <2>8, <2>9, <2>10 DEF AgentInv
<1> QED BY <1>1, <1>2

-----------------------------------------------------------------------------
(* Every step keeps the invariant. *)

LEMMA AgentInvStep == AgentInv /\ [NextT]_tvars => AgentInv'
<1> SUFFICES ASSUME AgentInv, [NextT]_tvars PROVE AgentInv'
  OBVIOUS
<1>1. a.pc = "agent" => a.cycles \in Nat /\ a.cycles + 1 \in Nat
  BY DEF AgentInv, TypeOKT, Run
<1>2. CASE MessageLimit
  <2>1. "MESSAGE_LIMIT" \in Failures
    BY DEF Failures
  <2> QED BY <1>1, <1>2, <2>1, FailKeeps DEF MessageLimit
<1>3. CASE StepFails
  <2>1. PICK failure \in {"PROVIDER_ERROR", "MALFORMED_RESPONSE"} : Fail(failure, a.cycles + 1)
    BY <1>3 DEF StepFails
  <2>2. failure \in Failures
    BY DEF Failures
  <2> QED BY <1>1, <1>3, <2>1, <2>2, FailKeeps DEF StepFails
<1>4. CASE RepeatedId
  <2>1. "STATE_ERROR" \in Failures
    BY DEF Failures
  <2> QED BY <1>1, <1>4, <2>1, FailKeeps DEF RepeatedId
<1>5. CASE Works
  BY <1>5, WorksKeeps
<1>6. CASE Abort \/ CleanupFails
  BY <1>6, RaiseKeeps DEF Abort, CleanupFails
<1>7. CASE UNCHANGED tvars
  <2>1. TypeOKT'
    BY <1>7 DEF AgentInv, TypeOKT, tvars
  <2> QED BY <1>7, <2>1, QuietKeeps DEF tvars, AgentInv, NamesInv
<1> QED
  BY <1>2, <1>3, <1>4, <1>5, <1>6, <1>7, ConcludeKeeps, AskToolsKeeps, FinalizeKeeps, FailSafeKeeps, AdaptKeeps,
     IndexKeeps DEF NextT, RunNext, Works

\* The inductive invariant behind every theorem of this module.
THEOREM AgentInvariant == SpecT => []AgentInv
<1>1. InitT => AgentInv
  BY InitialInv
<1>2. AgentInv /\ [NextT]_tvars => AgentInv'
  BY AgentInvStep
<1> QED BY <1>1, <1>2, PTL DEF SpecT

-----------------------------------------------------------------------------
(* What an answer rests on. *)

\* A run that goes on has not failed; the model's own words come with what Finalize chose
\* from the passages read, which no later step adds to.
ReadInv ==
  /\ \A i \in 1..Len(a.history) : Counted(a.history[i])
  /\ a.pc \in {"agent", "tools", "finalize"} => a.failure = None
  /\ a.pc = "adapter" /\ a.answer = "model" => a.failure = None /\ a.cites \in Cited(Evidence)
  /\ a.pc = "returned" => a.notice = (\E i \in 1..Len(a.history) : Truncated(a.history[i]))
  /\ AnswersRestOnReads

LEMMA InitialReads == InitT => ReadInv
<1> SUFFICES ASSUME InitT PROVE ReadInv
  OBVIOUS
<1>1. a.pc = "agent" /\ a.failure = None /\ a.history = <<>> /\ Len(a.history) = 0
  BY DEF InitT, NewRun
<1> QED BY <1>1 DEF ReadInv, AnswersRestOnReads

\* A step that reads nothing and gives no answer.
LEMMA PlainReads ==
  ASSUME ReadInv, a'.history = a.history,
         \/ a'.pc \in {"agent", "tools", "finalize"} /\ a'.failure = None
         \/ a'.pc = "fail_safe"
         \/ a'.pc = "adapter" /\ a'.answer # "model"
  PROVE  ReadInv'
<1>1. a'.pc # "returned"
  OBVIOUS
<1>2. (\A i \in 1..Len(a.history) : Counted(a.history[i]))'
  BY DEF ReadInv, Counted
<1> QED BY <1>1, <1>2 DEF ReadInv, AnswersRestOnReads

LEMMA SameReads == ASSUME ReadInv, a' = a PROVE ReadInv'
<1>1. Evidence' = Evidence /\ Reads' = Reads
  BY DEF Evidence, Reads, Read
<1>2. AnswersRestOnReads'
  BY <1>1 DEF ReadInv, AnswersRestOnReads
<1> QED BY <1>1, <1>2 DEF ReadInv, Counted, Truncated, Cited

LEMMA RaiseReads == ASSUME Raise PROVE ReadInv'
<1>1. a'.pc = "raised" /\ a'.history = <<>>
  BY Raised DEF Raise
<1> QED BY <1>1 DEF ReadInv, AnswersRestOnReads

LEMMA WorksReads == ASSUME AgentInv, ReadInv, Works PROVE ReadInv'
<1>1. TypeOKT /\ a.pc = "tools" /\ (Waits \/ Hands)
  BY WorksEffect DEF AgentInv, NamesInv
<1>2. CASE Waits
  BY <1>2, SameReads, SMTT(30) DEF Waits
<1>3. CASE Hands
  <2>1. PICK entry \in Outcome : Returns(entry) /\ Honest(entry)
    BY <1>3 DEF Hands
  <2>2. a.pending # <<>> /\ a.history \in Seq(Outcome) /\ Len(a.history) \in Nat
    BY <1>1, LenProperties DEF TypeOKT, Run
  <2>3. /\ a'.history = Append(a.history, entry) /\ a'.failure = a.failure
        /\ a'.pc \in {"agent", "tools"}
    BY <1>1, <2>1, <2>2, ReturnsType
  <2>4. Counted(entry)
    BY <2>1 DEF Honest, Counted
  <2>5. /\ Len(a'.history) = Len(a.history) + 1 /\ a'.history[Len(a.history) + 1] = entry
        /\ \A i \in 1..Len(a.history) : a'.history[i] = a.history[i]
    BY <2>2, <2>3, AppendProperties
  <2>6. \A i \in 1..Len(a'.history) : Counted(a'.history[i])
    BY <2>2, <2>4, <2>5 DEF ReadInv
  <2>7. a.failure = None
    BY <1>1 DEF ReadInv
  <2> QED BY <2>3, <2>6, <2>7 DEF ReadInv, AnswersRestOnReads, Counted
<1> QED BY <1>1, <1>2, <1>3

LEMMA FinalizeReads == ASSUME AgentInv, ReadInv, Finalize PROVE ReadInv'
<1>1. /\ a'.history = a.history /\ a'.pc = "adapter"
      /\ \/ a'.answer = "model" /\ a'.failure = a.failure /\ a'.cites \in Cited(Evidence)
         \/ a'.answer = "failure"
  BY FinalizeKeeps
<1>2. a.failure = None
  BY DEF Finalize, ReadInv
<1>3. Evidence' = Evidence
  BY <1>1 DEF Evidence, Reads, Read
<1>4. (\A i \in 1..Len(a.history) : Counted(a.history[i]))'
  BY <1>1 DEF ReadInv, Counted
<1> QED BY <1>1, <1>2, <1>3, <1>4 DEF ReadInv, AnswersRestOnReads, Cited

LEMMA AdaptReads == ASSUME AgentInv, ReadInv, Adapt PROVE ReadInv'
<1>1. CASE Raise
  BY <1>1, RaiseReads
<1>2. CASE ~Raise
  <2>1. /\ \A i \in 1..Len(a.history) : a.history[i].outcome # "internal"
        /\ a'.pc = "returned" /\ a'.history = a.history /\ a'.cites = a.cites
        /\ a'.answer = IF Unsupported THEN "no_evidence" ELSE a.answer
        /\ a'.notice = (\E i \in 1..Len(a.history) : Truncated(a.history[i]))
    BY <1>2, AdaptKeeps
  <2>2. Evidence' = Evidence /\ Reads' = Reads
    BY <2>1 DEF Evidence, Reads, Read
  <2>3. (\A i \in 1..Len(a.history) : Counted(a.history[i]))'
    BY <2>1 DEF ReadInv, Counted
  <2>4. DOMAIN a.history = 1..Len(a.history)
    BY LenProperties DEF AgentInv, TypeOKT, Run
  <2>5. AnswersRestOnReads'
    <3> SUFFICES ASSUME a'.answer = "model"
                 PROVE  a.cites \subseteq Evidence /\ (Reads # {} => a.cites # {})
      BY <2>1, <2>2, <2>4 DEF AnswersRestOnReads
    <3>1. ~Unsupported /\ a.answer = "model" /\ a.pc = "adapter"
      BY <2>1 DEF Adapt
    <3>2. a.failure = None /\ a.cites \in Cited(Evidence)
      BY <3>1 DEF ReadInv
    <3>3. a.cites \subseteq Evidence /\ (Evidence # {} => a.cites # {})
      BY <3>2 DEF Cited
    <3> QED BY <3>1, <3>2, <3>3 DEF Unsupported
  <2>6. (\E i \in 1..Len(a.history) : Truncated(a.history[i]))' = (\E i \in 1..Len(a.history) : Truncated(a.history[i]))
    BY <2>1 DEF Truncated
  <2> QED BY <2>1, <2>3, <2>5, <2>6 DEF ReadInv
<1> QED BY <1>1, <1>2

LEMMA ReadInvStep == AgentInv /\ ReadInv /\ [NextT]_tvars => ReadInv'
<1> SUFFICES ASSUME AgentInv, ReadInv, [NextT]_tvars PROVE ReadInv'
  OBVIOUS
<1>1. a \in Run
  BY DEF AgentInv, TypeOKT
<1>2. CASE MessageLimit \/ StepFails \/ RepeatedId
  <2>1. PICK failure, cycles : Fail(failure, cycles)
    BY <1>2 DEF MessageLimit, StepFails, RepeatedId
  <2>2. a'.pc = "fail_safe" /\ a'.history = a.history
    BY <1>1, <2>1 DEF Fail, Run
  <2> QED BY <2>2, PlainReads
<1>3. CASE Conclude
  <2>1. a'.pc = "finalize" /\ a'.history = a.history /\ a'.failure = a.failure /\ a.pc = "agent"
    BY <1>1, <1>3 DEF Conclude, Run
  <2>2. a.failure = None
    BY <2>1 DEF ReadInv
  <2> QED BY <2>1, <2>2, PlainReads
<1>4. CASE AskTools
  <2> DEFINE last == a.cycles + 1 >= MaxCycles
  <2>1. PICK ids \in NewIds :
          a' = [a EXCEPT !.cycles = @ + 1, !.hops = @ + 1, !.messages = Append(@, Says(ids)),
                         !.failure = IF last THEN "CYCLE_LIMIT" ELSE @,
                         !.pc = IF last THEN "fail_safe" ELSE "tools",
                         !.pending = IF last THEN @ ELSE ids]
    BY <1>4 DEF AskTools
  <2> HIDE DEF last
  <2>2. a'.history = a.history /\ (a'.pc = "fail_safe" \/ (a'.pc = "tools" /\ a'.failure = a.failure))
    BY <1>1, <2>1 DEF Run
  <2>3. a.failure = None
    BY <1>4 DEF AskTools, ReadInv
  <2> QED BY <2>2, <2>3, PlainReads
<1>5. CASE FailSafe
  <2>1. a'.pc = "adapter" /\ a'.history = a.history /\ a'.answer # "model"
    BY <1>1, <1>5 DEF FailSafe, Run
  <2> QED BY <2>1, PlainReads
<1>6. CASE Abort \/ CleanupFails
  BY <1>6, RaiseReads DEF Abort, CleanupFails
<1>7. CASE IndexChanges \/ UNCHANGED tvars
  BY <1>7, SameReads DEF IndexChanges, tvars
<1> QED
  BY <1>2, <1>3, <1>4, <1>5, <1>6, <1>7, WorksReads, FinalizeReads, AdaptReads DEF NextT, RunNext, Works

LEMMA ReadInvariant == SpecT => []ReadInv
<1>1. InitT => ReadInv
  BY InitialReads
<1>2. AgentInv /\ ReadInv /\ [NextT]_tvars => ReadInv'
  BY ReadInvStep
<1> QED BY <1>1, <1>2, AgentInvariant, PTL DEF SpecT

-----------------------------------------------------------------------------
(* The promises. *)

\* Whatever the model asks for and whatever fails, the transcript sent to a provider, and the
\* one a finished run leaves, has one result for each call, right after its message.
THEOREM TranscriptsAreClosed == SpecT => []EveryCallIsAnswered
<1>1. AgentInv => EveryCallIsAnswered
  <2> SUFFICES ASSUME AgentInv, a.pc \in {"agent", "finalize", "adapter", "returned"},
                      NEW i \in DOMAIN a.messages, a.messages[i].role = "ASSISTANT"
               PROVE  /\ i + Len(a.messages[i].ids) <= Len(a.messages)
                      /\ \A k \in DOMAIN a.messages[i].ids : a.messages[i + k] = Reports(a.messages[i].ids[k])
                      /\ i + Len(a.messages[i].ids) < Len(a.messages) =>
                           a.messages[i + Len(a.messages[i].ids) + 1].role # "TOOL"
    BY DEF EveryCallIsAnswered
  <2>1. a.messages \in Seq(Message) /\ DOMAIN a.messages = 1..Len(a.messages)
    BY LenProperties DEF AgentInv, TypeOKT, Run
  <2>2. DOMAIN a.messages[i].ids = 1..Len(a.messages[i].ids)
    BY <2>1, MessageFields, LenProperties
  <2>3. Closed(a.messages, Len(a.messages))
    BY DEF AgentInv, TalkInv
  <2> QED BY <2>1, <2>2, <2>3 DEF Closed
<1> QED BY <1>1, AgentInvariant, PTL

\* However long the model goes on: no call is executed twice, never more than the steps
\* before the last one allow, and the hops stay below the limit given to the graph.
THEOREM RunsStayBounded == SpecT => []RunsAreBounded
<1>1. AgentInv => RunsAreBounded
  <2> SUFFICES ASSUME AgentInv PROVE RunsAreBounded
    OBVIOUS
  <2>1. /\ DOMAIN a.history = 1..Len(a.history) /\ a.hops \in Nat /\ a.cycles \in Nat
        /\ MaxCycles \in Nat
    <3>1. a \in Run
      BY DEF AgentInv, TypeOKT
    <3> QED BY <3>1, LenProperties, Constants DEF Run
  <2>2. \A i \in 1..Len(a.history) : a.history[i].id = i
    BY DEF AgentInv, CountInv
  <2>3. \A i, j \in DOMAIN a.history : a.history[i].id = a.history[j].id => i = j
    BY <2>1, <2>2
  <2>4. a.hops <= 2 * MaxCycles + 2 /\ Len(a.history) <= (MaxCycles - 1) * MaxCalls
        /\ (a.pc = "agent" => a.cycles < MaxCycles)
    BY DEF AgentInv, CountInv
  <2>5. a.hops <= 2 * MaxCycles + 4
    BY <2>1, <2>4
  <2> QED BY <2>3, <2>4, <2>5 DEF RunsAreBounded
<1> QED BY <1>1, AgentInvariant, PTL

\* A call names only files that an earlier call of the same run returned, unless one broke.
THEOREM HandlesBelongToTheRun == SpecT => []NamedFilesWereReturned
<1>1. AgentInv => NamedFilesWereReturned
  BY DEF AgentInv, NamesInv
<1> QED BY <1>1, AgentInvariant, PTL

\* The model's own words are an answer only with citations of what the run read, when a read
\* succeeded and something was found, and only if nothing broke.
THEOREM ModelAnswersAreSupported == SpecT => []AnswersRestOnReads
<1>1. ReadInv => AnswersRestOnReads
  BY DEF ReadInv
<1> QED BY <1>1, ReadInvariant, PTL

\* An answer without the notice of truncation rests on full reads that took every row and
\* every character of the file, whatever the limits of rows and characters
\* (full_document, FileEvidencePayload.truncated).
THEOREM CutReadsAreTold == SpecT => []TruncationIsTold
<1>1. AgentInv /\ ReadInv => TruncationIsTold
  <2> SUFFICES ASSUME AgentInv, ReadInv, a.pc = "returned", ~a.notice, NEW i \in Reads,
                      a.history[i].kind = "full", a.history[i].of[1] = a.history[i].of[2],
                      NEW f \in a.history[i].named
               PROVE  a.history[i].took \in {Nothing, Total(Ends[f][a.history[i].of[2]])}
    BY DEF TruncationIsTold
  <2> DEFINE e == a.history[i]
  <2>1. a.history \in Seq(Outcome) /\ i \in 1..Len(a.history)
    BY LenProperties DEF AgentInv, TypeOKT, Run, Reads
  <2>2. e \in Outcome
    BY <2>1, ElementOfSeq
  <2>3. Counted(e) /\ ~Truncated(e)
    BY <2>1 DEF ReadInv
  <2>4. e.took \in Amount /\ e.counted \in Amount
    BY <2>2 DEF Outcome
  <2>5. e.kind = "full" /\ e.of[1] = e.of[2] /\ f \in e.named
    OBVIOUS
  <2> HIDE DEF e
  <2>6. e.took.rows = e.counted.rows /\ e.took.chars = e.counted.chars
    BY <2>3, <2>4, <2>5 DEF Counted, Truncated, Amount
  <2>7. e.took = e.counted
    BY <2>4, <2>6 DEF Amount
  <2>8. e.counted \in {Nothing, Total(Ends[f][e.of[2]])}
    BY <2>3, <2>5 DEF Counted
  <2> QED BY <2>7, <2>8 DEF e
<1> QED BY <1>1, AgentInvariant, ReadInvariant, PTL

=============================================================================
