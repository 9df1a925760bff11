------------------------------ MODULE Evidence ------------------------------
(***************************************************************************)
(* From retrieved passages to cited answer (backend/app/retrieval, llm):   *)
(* the lists of the three retrievers are fused, reranked and graded, or    *)
(* the first chunks of every file are gathered for a collection summary;   *)
(* what fits the prompt is selected; the model's draft is accepted only    *)
(* with source markers, and markers and citations are renumbered.          *)
(*                                                                         *)
(* A passage is [chunk, len, score]: a chunk, how much of its text is      *)
(* shown, and its score (the same for all in a summary).                   *)
(* Scores are small integers; shares and weights keep a common             *)
(* denominator, so that comparisons are exact.                             *)
(***************************************************************************)
EXTENDS Integers, Sequences, FiniteSets, SequencesExt, FiniteSetsExt

CONSTANTS
  NChunks,       \* chunks are 1..NChunks
  NFiles,        \* files are 1..NFiles, in the order of their names
  FileOf,        \* the file of each chunk
  Modified,      \* modified_at of each file
  Scores,        \* scores a retriever gives
  ListMax,       \* longest list a retriever returns
  Weight,        \* hybrid_weight_*, in tenths
  RrfK,          \* hybrid_rrf_k
  Denominator,   \* of fusion shares: a multiple of RrfK + 1, ..., RrfK + ListMax
  CandidateK,    \* retrieval_candidate_k
  TopK,          \* retrieval_top_k
  MinPercent,    \* evidence_min_fusion_score, in hundredths
  VectorMin,     \* retrieval_score_threshold
  DraftMarkers,  \* bound on the markers of a draft
  Lengths,       \* lengths of a chunk's text
  GroundedLen,   \* the length of every chunk a retriever returns
  MaxContext,    \* rag_max_context_chars
  Fixed,         \* the prompt's words around question and context
  QuestionLen,   \* length of the question
  SummaryLen,    \* length of "Summarize this document"
  Header,        \* a passage's header, without the digits of its number
  Ten,           \* the first number of two digits
  Margin,        \* what truncation leaves free
  Slack,         \* what a summary's budget leaves free
  MinBudget,     \* the least budget of a summarised file
  SummaryFiles,  \* MAX_SUMMARY_FILES
  SummaryChunks  \* MAX_CHUNKS_PER_FILE

Chunks  == 1..NChunks
Files   == 1..NFiles
Sources == {"vector", "keyword", "metadata"}

ASSUME EvidenceAssumption ==
  /\ NChunks \in Nat /\ FileOf \in [Chunks -> Files] /\ Modified \in [Files -> Nat]
  /\ Weight \in [Sources -> Nat \ {0}] /\ Scores \subseteq Nat
  /\ ListMax \in Nat /\ RrfK \in Nat /\ CandidateK \in Nat /\ TopK \in Nat
  /\ MinPercent \in Nat /\ VectorMin \in Nat
  /\ NFiles \in Nat /\ Lengths \subseteq Nat /\ GroundedLen \in Nat /\ DraftMarkers \in Nat
  /\ MaxContext \in Nat /\ Fixed \in Nat /\ QuestionLen \in Nat /\ SummaryLen \in Nat
  /\ Header \in Nat /\ Ten \in Nat /\ Margin \in Nat /\ Slack \in Nat /\ MinBudget \in Nat
  /\ SummaryFiles \in Nat \ {0} /\ SummaryChunks \in Nat
  /\ Denominator \in Nat \ {0} /\ \A i \in 1..ListMax : Denominator % (RrfK + i) = 0
  \* the summary's slack pays for separators, second digits and a longer question
  /\ Slack + SummaryFiles * (Fixed + SummaryLen)
       >= Fixed + 2 * (SummaryFiles - 1) + SummaryFiles * SummaryChunks

VARIABLES
  step,    \* what ask() does next
  path,    \* "grounded" or "collection"
  lists,   \* what each retriever returned: a sequence of [chunk, score]
  named,   \* the files the question names
  size,    \* length of each chunk's text
  cands,   \* the candidates, best first: chunks, then passages
  shown,   \* the passages in the prompt
  allowed, \* the markers generation accepts
  markers, \* the source markers of the draft, then of the answer
  cites,   \* the citations returned with the answer
  drafts   \* completions asked for

evars == <<step, path, lists, named, size, cands, shown, allowed, markers, cites, drafts>>

-----------------------------------------------------------------------------
(* Sequences. *)

\* s in the order of Better, equal elements as they stand (list.sort is stable).
Ranked(s, Better(_, _)) ==
  LET Before(i, j) == Better(s[i], s[j]) \/ (~Better(s[j], s[i]) /\ i < j)
      Earlier(i) == {j \in DOMAIN s : Before(j, i)}
  IN  [k \in DOMAIN s |-> s[CHOOSE i \in DOMAIN s : Cardinality(Earlier(i)) = k - 1]]

Upto(s, n) == SubSeq(s, 1, IF n < Len(s) THEN n ELSE Len(s))

\* The elements of s at the positions S, in their order.
InOrder(s, S) ==
  [k \in 1..Cardinality(S) |-> s[CHOOSE i \in S : Cardinality({j \in S : j <= i}) = k]]

-----------------------------------------------------------------------------
(* Fusion, reranking and grading. *)

RankIn(c, source) == {i \in DOMAIN lists[source] : lists[source][i].chunk = c}

Rank(c, source) == CHOOSE i \in RankIn(c, source) : TRUE

ScoreIn(c, source) == IF RankIn(c, source) = {} THEN 0 ELSE lists[source][Rank(c, source)].score

Found == {c \in Chunks : \E s \in Sources : RankIn(c, s) # {}}

\* Reciprocal rank fusion: weight / (k + rank), summed over the lists.
Share(c, s) ==
  IF RankIn(c, s) = {} THEN 0 ELSE Weight[s] * (Denominator \div (RrfK + Rank(c, s)))
Fusion(c)   == Share(c, "vector") + Share(c, "keyword") + Share(c, "metadata")

Newer(c, d) == Modified[FileOf[c]] > Modified[FileOf[d]]

\* Chunks in the order in which the merge meets them.
FirstMet ==
  LET all == [i \in DOMAIN lists["vector"] |-> lists["vector"][i].chunk]
             \o [i \in DOMAIN lists["keyword"] |-> lists["keyword"][i].chunk]
             \o [i \in DOMAIN lists["metadata"] |-> lists["metadata"][i].chunk]
      first == {i \in DOMAIN all : \A j \in 1..i - 1 : all[j] # all[i]}
  IN  InOrder(all, first)

Merged ==
  LET score == [c \in Found |-> Fusion(c)]
  IN  Upto(Ranked(FirstMet, LAMBDA c, d : score[c] > score[d] \/ (score[c] = score[d] /\ Newer(c, d))),
           2 * CandidateK)

\* The best score each source gives a candidate (1 where it gives none).
Top(source, s) == Max({ScoreIn(s[i], source) : i \in DOMAIN s} \cup {1})

Weighted(c, s) ==
  LET v == Top("vector", s)  k == Top("keyword", s)  m == Top("metadata", s)
  IN  Weight["vector"] * ScoreIn(c, "vector") * k * m
      + Weight["keyword"] * ScoreIn(c, "keyword") * v * m
      + Weight["metadata"] * ScoreIn(c, "metadata") * v * k

\* What a weighted score of one would be.
Whole(s) == 10 * Top("vector", s) * Top("keyword", s) * Top("metadata", s)

IsNamed(c) == FileOf[c] \in named

\* Mutant of Reranked: the list is sorted without reverse.
RerankedAscending(s) ==
  Upto(Ranked(s, LAMBDA c, d : Weighted(c, s) < Weighted(d, s)), TopK)

\* weighted_fusion_rerank: a file named in the question first, whatever its score.
Reranked(s) ==
  LET score == [c \in Found |-> Weighted(c, s)]
      Better(c, d) == \/ IsNamed(c) /\ ~IsNamed(d)
                      \/ /\ IsNamed(c) = IsNamed(d)
                         /\ score[c] > score[d] \/ (score[c] = score[d] /\ Newer(c, d))
  IN  Upto(Ranked(s, Better), TopK)

\* Mutant of TopIsWeak: the threshold meets the scale of the fusion.
TopIsWeakByFusion(s, all) == 100 * Fusion(s[1]) < MinPercent * 10 * Denominator

\* grade_evidence looks at the first candidate and at the signals of all.
TopIsWeak(s, all) == 100 * Weighted(s[1], all) < MinPercent * Whole(all)

SignalsAreWeak(s) ==
  /\ \A i \in DOMAIN s : ScoreIn(s[i], "vector") < VectorMin
  /\ \A i \in DOMAIN s : ScoreIn(s[i], "keyword") = 0

-----------------------------------------------------------------------------
(* The prompt.  A passage's block is its header, its number and its text. *)

Digits(i) == IF i < Ten THEN 1 ELSE 2
Block(i, p) == Header + Digits(i) + p.len

\* prioritize_filename_targets
Prioritized(s) ==
  LET matched == {i \in DOMAIN s : IsNamed(s[i].chunk)}
  IN  InOrder(s, matched) \o InOrder(s, DOMAIN s \ matched)

\* _source_diverse_order: a file's first passage is promoted over repeated ones
\* unless it scores below nine tenths of the first passage that was a repeat.
Diverse(s) ==
  LET Repeat(i) == \E j \in 1..i - 1 : FileOf[s[j].chunk] = FileOf[s[i].chunk]
      Competes(i) == \A d \in 1..i - 1 :
                       Repeat(d) /\ (\A e \in 1..d - 1 : ~Repeat(e))
                         => 10 * s[i].score >= 9 * s[d].score
      firsts == {i \in DOMAIN s : ~Repeat(i) /\ Competes(i)}
  IN  InOrder(s, firsts) \o InOrder(s, DOMAIN s \ firsts)

Truncated(p, room) ==
  LET budget == Max({room - Margin - Header - 1, 1})
  IN  [p EXCEPT !.len = IF @ > budget THEN Max({budget - 3, 1}) + 3 ELSE @]

\* The length of the first n blocks with the separators between them.
Used(s, n) ==
  LET used[i \in 0..Len(s)] ==
        IF i = 0 THEN 0 ELSE used[i - 1] + (IF i = 1 THEN 0 ELSE 2) + Block(i, s[i])
  IN  used[n]

\* Mutant of Fitting: a passage is taken before it is measured.
FittingOneMore(s, room) == Upto(s, 1 + Max({n \in 0..Len(s) : \A m \in 1..n : Used(s, m) <= room}))

\* select_context_chunks
Fitting(s, room) ==
  IF s # <<>> /\ Block(1, s[1]) > room
  THEN <<Truncated(s[1], room)>>
  ELSE Upto(s, Max({n \in 0..Len(s) : \A m \in 1..n : Used(s, m) <= room}))

\* select_prompt_chunks; the caller sees to it that room is left.
Selected(s, room) == Fitting(Diverse(Prioritized(s)), room)
SelectedNoNames(s, room) == Fitting(Diverse(s), room)

Room == MaxContext - Fixed - QuestionLen

-----------------------------------------------------------------------------
(* A collection summary. *)

\* Mutant of SummaryBudget: the budget is shared out to the last character.
SummaryBudgetWhole == MaxContext \div SummaryFiles

SummaryBudget == (MaxContext - QuestionLen - Slack) \div SummaryFiles

Least(a, b) == IF a < b THEN a ELSE b

\* The first chunks of a file, their texts cut to the budget.
Excerpts(f) ==
  LET own == InOrder([c \in Chunks |-> c], {c \in Chunks : FileOf[c] = f})
  IN  [i \in 1..Least(Len(own), SummaryChunks) |->
         [chunk |-> own[i], len |-> Least(size[own[i]], SummaryBudget), score |-> 1]]

\* Each file within its own budget, in the order of the names.
Gathered ==
  LET last == Least(NFiles, SummaryFiles)
      upto[f \in 0..last] ==
        IF f = 0 THEN <<>>
        ELSE upto[f - 1] \o SelectedNoNames(Excerpts(f), SummaryBudget - Fixed - SummaryLen)
  IN  upto[last]

-----------------------------------------------------------------------------
(* Markers and citations. *)

\* The markers that name a passage.
Known(ms, n) == InOrder(ms, {i \in DOMAIN ms : ms[i] \in 1..n})

\* The same, each at its first use.
FirstUses(ms, n) ==
  InOrder(ms, {i \in DOMAIN ms : ms[i] \in 1..n /\ \A j \in 1..i - 1 : ms[j] # ms[i]})

\* normalize_answer_citations: passages in the order of their first use, markers
\* renumbered, unknown markers dropped.
Citations(ms, ps) == LET used == FirstUses(ms, Len(ps)) IN [k \in DOMAIN used |-> ps[used[k]]]

\* Mutant of Renumbered: the draft's own numbers stay.
NotRenumbered(ms, n) == Known(ms, n)

Renumbered(ms, n) ==
  LET used == FirstUses(ms, n)
      known == Known(ms, n)
  IN  [i \in DOMAIN known |-> CHOOSE k \in DOMAIN used : used[k] = known[i]]

-----------------------------------------------------------------------------

\* Vector and metadata search return the higher score first.  Keyword search returns a
\* plain question's hits as its paths met them, so a better one may stand behind.
SortedByScore == {"vector", "metadata"}

\* What a retriever may return: no chunk twice.
RankedLists(s) ==
  {l \in UNION {[1..n -> [chunk : Chunks, score : Scores]] : n \in 0..ListMax} :
     \A i, j \in DOMAIN l :
       i < j => l[i].chunk # l[j].chunk /\ (s \in SortedByScore => l[i].score >= l[j].score)}

\* Any number the model may write.
AnyMarker == 0..NChunks + 1

NoLists == [s \in Sources |-> <<>>]

\* Once the passages are chosen, what they were chosen from is not read again.
InputsForgotten ==
  /\ lists' = NoLists /\ named' = {}
  /\ size' = [c \in Chunks |-> GroundedLen]

NothingYet == /\ cands = <<>> /\ shown = <<>> /\ allowed = AnyMarker
              /\ markers = <<>> /\ cites = <<>> /\ drafts = 0

InitE ==
  /\ \/ /\ path = "grounded" /\ step = "merge"
        /\ \E v \in RankedLists("vector"), k \in RankedLists("keyword"), m \in RankedLists("metadata") :
             lists = [vector |-> v, keyword |-> k, metadata |-> m]
        /\ size = [c \in Chunks |-> GroundedLen]
     \/ /\ path = "collection" /\ step = "gather"
        /\ lists = NoLists
        /\ size \in [Chunks -> Lengths]
  /\ named \in SUBSET Files
  /\ NothingYet

Merge ==
  /\ step = "merge"
  /\ cands' = Merged
  /\ step' = "rerank"
  /\ UNCHANGED <<path, lists, named, size, shown, allowed, markers, cites, drafts>>

Rerank ==
  /\ step = "rerank"
  /\ cands' = Reranked(cands)
  /\ step' = "grade"
  /\ UNCHANGED <<path, lists, named, size, shown, allowed, markers, cites, drafts>>

\* The grade: rejected evidence leads to the fixed answer without sources.
Grade ==
  /\ step = "grade"
  /\ IF cands = <<>> \/ TopIsWeak(cands, Merged) \/ SignalsAreWeak(cands)
     THEN step' = "abstained" /\ UNCHANGED cands
     ELSE step' = "select" /\ cands' = [i \in DOMAIN cands |->
           [chunk |-> cands[i], len |-> size[cands[i]], score |-> Weighted(cands[i], Merged)]]
  /\ UNCHANGED <<path, lists, named, size, shown, allowed, markers, cites, drafts>>

\* generate_grounded_answer and the service select from the same list.  For a
\* question about relations only some of the passages are put to the model
\* (select_relationship_evidence); if none is, a fixed sentence is the answer.
Select ==
  /\ step = "select"
  /\ cands' = Selected(cands, Room)
  /\ shown' = Selected(cands, Room)
  /\ allowed' \in {AnyMarker} \cup SUBSET (1..Len(shown'))
  /\ step' = IF allowed' = {} THEN "declined" ELSE "draft"
  /\ InputsForgotten
  /\ UNCHANGED <<path, markers, cites, drafts>>

\* _summarize_collection selects from what it gathered, and generation selects
\* again from the result.
Gather ==
  /\ step = "gather"
  /\ IF SummaryBudget < MinBudget
     THEN step' = "failed" /\ UNCHANGED <<cands, shown>>
     ELSE /\ cands' = Selected(Gathered, Room)
          /\ shown' = Selected(Selected(Gathered, Room), Room)
          /\ step' = IF Gathered = <<>> THEN "abstained" ELSE "draft"
  /\ InputsForgotten
  /\ UNCHANGED <<path, allowed, markers, cites, drafts>>

\* A draft is accepted with a marker that names a passage, and none that is not allowed.
Accepted(ms) == FirstUses(ms, Len(shown)) # <<>> /\ \A i \in DOMAIN ms : ms[i] \in allowed

\* A completion: markers up to one past the last passage, or 0.
Draft ==
  /\ step = "draft"
  /\ drafts' = drafts + 1
  /\ \E ms \in UNION {[1..n -> 0..Len(shown) + 1] : n \in 0..DraftMarkers} :
       IF Accepted(ms)
       THEN markers' = ms /\ step' = "cite"
       ELSE /\ markers' = <<>>
            /\ step' = IF drafts = 1 THEN "failed" ELSE "draft"
  /\ UNCHANGED <<path, lists, named, size, cands, shown, allowed, cites>>

\* The completion fails or is empty: ChatError.
DraftFails ==
  /\ step = "draft"
  /\ step' = "failed"
  /\ UNCHANGED <<path, lists, named, size, cands, shown, allowed, markers, cites, drafts>>

\* The model says that its sources do not answer.
Decline ==
  /\ step = "draft"
  /\ drafts' = drafts + 1
  /\ step' = "declined"
  /\ UNCHANGED <<path, lists, named, size, cands, shown, allowed, markers, cites>>

Cite ==
  /\ step = "cite"
  /\ cites' = Citations(markers, cands)
  /\ markers' = Renumbered(markers, Len(cands))
  /\ step' = "answered"
  /\ UNCHANGED <<path, lists, named, size, cands, shown, allowed, drafts>>

NextE == Merge \/ Rerank \/ Grade \/ Select \/ Gather \/ Draft \/ DraftFails \/ Decline \/ Cite

SpecE == InitE /\ [][NextE]_evars

-----------------------------------------------------------------------------
(* Properties. *)

\* c stands before x, and scores higher, in every list that holds x.
Beats(c, x) ==
  \A s \in Sources : RankIn(x, s) # {} =>
    ScoreIn(c, s) > ScoreIn(x, s) /\ Rank(c, s) < Rank(x, s)

\* Fusion goes by ranks, reranking by scores, and they agree on plain cases: a chunk that
\* every retriever that found another ranks before it and scores higher is never cut or
\* placed below it, unless the other belongs to a file the question names.
BetterEverywhereComesFirst ==
  step = "grade" =>
    \A i \in DOMAIN cands : \A c \in Found :
      Beats(c, cands[i]) => IsNamed(cands[i]) \/ \E j \in 1..i - 1 : cands[j] = c

\* Evidence that vector or keyword search found is rejected only if a file the question
\* names has taken the first place: for any other first candidate the weights put the
\* best score of either search above the threshold (rerank.py and grade.py together).
RejectedEvidenceWasOvertaken ==
  path = "grounded" /\ step = "abstained"
    /\ (lists["vector"] # <<>> \/ lists["keyword"] # <<>>)
    => IsNamed(cands[1])

\* What the prompt holds fits max_context_chars, however many separators and
\* two-digit numbers it takes.
PromptFits == Used(shown, Len(shown)) <= Room

\* "Covering N of M indexed files": the budgets of a summary's files add up to one
\* prompt.  Whatever their chunks measure, separators, second digits and the longer
\* question included, no excerpt of any file is dropped when they are put together.
SummaryKeepsEveryExcerpt ==
  step = "gather" /\ step' = "draft" => ToSet(Gathered) \subseteq ToSet(shown')

\* The budgets of a prompt (select_passages, _summarize_collection) are neither exceeded
\* by what is counted after them nor so small that an excerpt chosen for a summary goes.
PromptsFit == [][PromptFits' /\ SummaryKeepsEveryExcerpt]_evars

\* A marker of the answer leads to the passage the model saw under the number it wrote:
\* the passages are selected once for the prompt and again for the citations, then
\* renumbered.  Every citation is used and none is listed twice.
MarkersKeepTheirPassage ==
  [][step = "cite" =>
       LET known == Known(markers, Len(shown))
       IN  /\ Len(markers') = Len(known)
           /\ \A i \in DOMAIN known : markers'[i] \in DOMAIN cites' /\ cites'[markers'[i]] = shown[known[i]]
           /\ \A k \in DOMAIN cites' : \E i \in DOMAIN known : markers'[i] = k
           /\ \A k, l \in DOMAIN cites' : cites'[k] = cites'[l] => k = l]_evars

=============================================================================
