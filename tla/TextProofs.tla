----------------------------- MODULE TextProofs -----------------------------
(***************************************************************************)
(* TLAPS proofs about Chunking and Evidence.                               *)
(*                                                                         *)
(* Chunking: for texts and sizes without any bound that matters, the       *)
(* chunks cover the text, fit the target size and, below the critical      *)
(* overlap, each add text.  The invariant relates the next start to the    *)
(* end of the last chunk: it lies at or before it (no gap), and at most    *)
(* overlap characters before it (so that the next end, MinOffset or more   *)
(* further on, lies beyond it).                                            *)
(*                                                                         *)
(* Evidence: for any number of chunks, files and scores, what a sorted     *)
(* list owes its order (stable sorts are counted, so every element has one *)
(* place), that a chunk which every retriever ranks higher is merged       *)
(* before, and that the evidence is refused as weak only when a named file *)
(* pushed stronger candidates out.  Then, for any passages and budgets,    *)
(* what a prompt shows is a rearrangement of a part of its candidates: it  *)
(* fits, a selection made again takes the same, the answer's markers lead  *)
(* to the passages shown, and a summary loses none of its excerpts.        *)
(*                                                                         *)
(* What is computed element by element is proved by the least counter-     *)
(* example (LeastNat, UpToANumber).                                        *)
(***************************************************************************)
EXTENDS Chunking, Evidence, FiniteSetTheorems, SequenceTheorems,
        WellFoundedInduction, TLAPS

-----------------------------------------------------------------------------
(* Numbers. *)

\* A non-empty set of numbers has a least member.
LEMMA LeastNat ==
  ASSUME NEW T \in SUBSET Nat, T # {}
  PROVE  \E m \in T : \A k \in T : m <= k
<1>1. PICK m \in T : \A k \in T : ~(k < m)
  <2>1. T \subseteq Nat
    OBVIOUS
  <2>2. PICK m \in T : \A k \in T : ~(<<k, m>> \in OpToRel(<, Nat))
    BY <2>1, NatLessThanWellFounded, WFMin
  <2> QED BY <2>1, <2>2 DEF OpToRel
<1>2. \A k \in T : k \in Nat /\ m \in Nat
  OBVIOUS
<1> QED BY <1>1, <1>2

\* A non-empty bounded set of numbers has a greatest member.
LEMMA GreatestNat ==
  ASSUME NEW hi \in Nat, NEW S \in SUBSET (0..hi), S # {}
  PROVE  Max(S) \in S /\ \A k \in S : k <= Max(S)
<1> DEFINE T == {hi - e : e \in S}
<1>1. T \in SUBSET Nat /\ T # {} /\ \A e \in S : e \in Nat
  <2>1. \A e \in S : e \in 0..hi
    OBVIOUS
  <2>2. \A e \in 0..hi : e \in Nat /\ hi - e \in Nat
    OBVIOUS
  <2> QED BY <2>1, <2>2
<1>2. PICK m \in T : \A n \in T : m <= n
  <2> HIDE DEF T
  <2> QED BY <1>1, LeastNat
<1>3. PICK e \in S : m = hi - e
  BY <1>2
<1>4. \A k \in S : e >= k
  <2> SUFFICES ASSUME NEW k \in S PROVE e >= k
    OBVIOUS
  <2>1. m <= hi - k
    BY <1>2
  <2> QED BY <1>1, <1>3, <2>1
<1>5. Max(S) \in S /\ \A k \in S : Max(S) >= k
  BY <1>3, <1>4 DEF Max
<1> QED BY <1>1, <1>5

\* Of two numbers, the greater.
LEMMA GreaterOfTwo ==
  ASSUME NEW a \in Int, NEW b \in Int
  PROVE  Max({a, b}) = IF a >= b THEN a ELSE b
<1> DEFINE S == {a, b}
           g == IF a >= b THEN a ELSE b
<1>1. g \in S /\ \A y \in S : g >= y
  OBVIOUS
<1>2. \A y \in S : y \in Int
  OBVIOUS
<1> HIDE DEF g, S
<1>3. Max(S) \in S /\ \A y \in S : Max(S) >= y
  BY <1>1 DEF Max
<1>4. Max(S) = g
  BY <1>1, <1>2, <1>3
<1> QED BY <1>4 DEF S, g

\* What holds of 0 and goes over from each number to the next holds up to n.
LEMMA UpToANumber ==
  ASSUME NEW n \in Nat, NEW S, 0 \in S, \A i \in 1..n : i - 1 \in S => i \in S
  PROVE  \A i \in 0..n : i \in S
<1> DEFINE T == {i \in 0..n : i \notin S}
<1>1. SUFFICES ASSUME T # {} PROVE FALSE
  OBVIOUS
<1>2. T \in SUBSET Nat
  OBVIOUS
<1>3. PICK m \in T : \A k \in T : m <= k
  <2> HIDE DEF T
  <2> QED BY <1>1, <1>2, LeastNat
<1>4. m \in 0..n /\ m \notin S /\ \A k \in 0..n : k \notin S => m <= k
  BY <1>3
<1> HIDE DEF T
<1>5. m # 0
  BY <1>4
<1>6. m \in 1..n /\ m - 1 \in 0..n /\ ~(m <= m - 1)
  BY <1>4, <1>5
<1> QED BY <1>4, <1>6

\* G gives the next value from the last one and the number of the step.
Continues(G, n, V) == \A i \in 1..n : \A v \in V : G[<<v, i>>] \in V

Proceeds(f, n, V, a, G) == f \in [0..n -> V] /\ f[0] = a /\ \A i \in 1..n : f[i] = G[<<f[i - 1], i>>]

\* What is computed step by step exists.
LEMMA StepByStep ==
  ASSUME NEW n \in Nat, NEW V, NEW a \in V, NEW G, Continues(G, n, V)
  PROVE  \E f : Proceeds(f, n, V, a, G)
<1> DEFINE Reaches(m) == \E f \in [0..m -> V] : f[0] = a /\ \A i \in 1..m : f[i] = G[<<f[i - 1], i>>]
           T == {m \in 0..n : ~Reaches(m)}
<1>0. \A i \in 1..n : \A v \in V : G[<<v, i>>] \in V
  BY DEF Continues
<1>1. SUFFICES ASSUME T # {} PROVE FALSE
  <2>1. Reaches(n)
    OBVIOUS
  <2> QED BY <2>1 DEF Proceeds
<1>2. T \in SUBSET Nat
  OBVIOUS
<1>3. PICK m \in T : \A k \in T : m <= k
  <2> HIDE DEF T
  <2> QED BY <1>1, <1>2, LeastNat
<1>4. m \in 0..n /\ ~Reaches(m) /\ \A k \in 0..n : ~Reaches(k) => m <= k
  BY <1>3
<1> HIDE DEF T
<1>5. CASE m = 0
  <2> DEFINE f == [i \in 0..m |-> a]
  <2>1. f \in [0..m -> V] /\ f[0] = a /\ \A i \in 1..m : FALSE
    BY <1>5
  <2>2. Reaches(m)
    <3> HIDE DEF f
    <3> QED BY <2>1
  <2> QED BY <1>4, <2>2
<1>6. CASE m # 0
  <2> HIDE DEF Reaches
  <2>1. m \in Nat /\ m - 1 \in 0..n /\ m - 1 \in Nat /\ m \in 1..n /\ ~(m <= m - 1)
    BY <1>4, <1>6
  <2>2. Reaches(m - 1)
    BY <1>4, <2>1
  <2>3. PICK g \in [0..m - 1 -> V] : g[0] = a /\ \A i \in 1..m - 1 : g[i] = G[<<g[i - 1], i>>]
    BY <2>2 DEF Reaches
  <2> DEFINE f == [i \in 0..m |-> IF i = m THEN G[<<g[m - 1], m>>] ELSE g[i]]
  <2>4. m - 1 \in 0..m - 1 /\ g[m - 1] \in V
    BY <2>1
  <2>5. \A i \in 0..m : i # m => i \in 0..m - 1
    BY <2>1
  <2>6. f \in [0..m -> V]
    BY <1>0, <2>1, <2>4, <2>5
  <2>7. f[0] = a
    BY <1>6, <2>1, <2>3
  <2>8. ASSUME NEW i \in 1..m PROVE f[i] = G[<<f[i - 1], i>>]
    <3>1. i \in 0..m /\ i - 1 \in 0..m /\ i - 1 # m
      BY <2>1
    <3>2. f[i - 1] = g[i - 1]
      BY <3>1
    <3>3. CASE i = m
      BY <3>1, <3>2, <3>3
    <3>4. CASE i # m
      <4>1. i \in 1..m - 1
        BY <2>1, <3>4
      <4> QED BY <2>3, <3>1, <3>2, <3>4, <4>1
    <3> QED BY <3>3, <3>4
  <2>9. Reaches(m)
    <3> HIDE DEF f
    <3> QED BY <2>6, <2>7, <2>8 DEF Reaches
  <2> QED BY <1>4, <2>9
<1> QED BY <1>5, <1>6

-----------------------------------------------------------------------------
(* Chunking. *)

\* The last of a bounded set of offsets is one of them, and there is one.
LEMMA LastOfBounded ==
  ASSUME NEW lo \in Nat, NEW hi \in Nat, NEW S \in SUBSET (lo..hi), S # {}
  PROVE  LastOf(S) \in S
<1>1. S \in SUBSET (0..hi)
  OBVIOUS
<1>2. Max(S) \in S /\ \A d \in S : d <= Max(S)
  BY <1>1, GreatestNat
<1> QED
  BY <1>2 DEF LastOf

\* A window ends after its first quarter, or where the target size puts it.
LEMMA SplitEndBounds ==
  ASSUME TypeOKC, ChunkingAssumption, NEW a \in Nat
  PROVE  /\ SplitEnd(a) \in a + 1 .. a + target
         /\ SplitEnd(a) >= a + MinOffset \/ SplitEnd(a) = a + target
<1> DEFINE lo == a + MinOffset
           hi == a + target
<1>1. target \in Nat \ {0} /\ MinOffset \in Nat \ {0}
  BY DEF TypeOKC, Sizes, MinOffset, ChunkingAssumption
<1>2. lo \in Nat /\ hi \in Nat
  BY <1>1
<1>3. /\ Paragraphs(a) \subseteq lo..hi /\ Lines(a) \subseteq lo..hi
      /\ Sentences(a) \subseteq lo..hi /\ Spaces(a) \subseteq lo..hi
  BY <1>1 DEF Paragraphs, Lines, Sentences, Spaces
<1>4. \A S \in SUBSET (lo..hi) : S # {} => LastOf(S) \in lo..hi
  BY <1>2, LastOfBounded
<1>5. SplitEnd(a) \in lo..hi \/ SplitEnd(a) = hi
  BY <1>3, <1>4 DEF SplitEnd
<1>6. QED
  BY <1>1, <1>5

-----------------------------------------------------------------------------

IInv ==
  /\ TypeOKC /\ NoTextIsLost /\ ChunksFitTarget /\ EveryChunkAddsText
  /\ ~done => start < N
  /\ chunks = <<>> /\ ~done => start = 0
  /\ chunks # <<>> /\ ~done =>
       LET end == chunks[Len(chunks)].to
       IN  start <= end /\ end < N /\ end <= start + overlap

\* The invariant holds before the first chunk.
LEMMA InitIInv == InitC => IInv
<1> SUFFICES ASSUME InitC
             PROVE  IInv
  OBVIOUS
<1>1. PICK n \in 0..MaxText : text \in [1..n -> Char]
  BY DEF InitC
<1>2. n \in Nat /\ text \in Seq(Char) /\ Len(text) = n
  BY <1>1, ChunkingAssumption DEF ChunkingAssumption
<1>3. chunks = <<>> /\ Len(chunks) = 0 /\ DOMAIN chunks = {} /\ chunks \in Seq([from : Nat, to : Nat])
  BY DEF InitC
<1>4. TypeOKC
  BY <1>2, <1>3 DEF InitC, TypeOKC, Sizes
<1>d. (done => text = <<>>) /\ (~done => text # <<>>)
  BY Zenon DEF InitC
<1>5. NoTextIsLost /\ ChunksFitTarget /\ EveryChunkAddsText
  BY <1>3, <1>d DEF NoTextIsLost, ChunksFitTarget, EveryChunkAddsText
<1>6. ~done => start < N
  <2>1. text # <<>> => n > 0
    BY <1>1, <1>2
  <2>2. QED
    BY <1>2, <1>d, <2>1 DEF InitC, N
<1>7. QED
  BY <1>3, <1>4, <1>5, <1>6 DEF InitC, IInv

\* A further chunk that starts in or right after the last one and ends beyond
\* where the invariant asks keeps what the invariant says of the chunks.
LEMMA Appended ==
  ASSUME IInv, NEW e \in Nat, e > start, e - start <= target, ~done,
         overlap < MinOffset /\ chunks # <<>> => e > chunks[Len(chunks)].to,
         chunks' = Append(chunks, [from |-> start, to |-> e]),
         UNCHANGED <<text, target, overlap>>
  PROVE  /\ chunks' \in Seq([from : Nat, to : Nat])
         /\ chunks' # <<>> /\ chunks'[1].from = 0 /\ chunks'[Len(chunks')].to = e
         /\ \A i \in 1..Len(chunks') - 1 : chunks'[i + 1].from <= chunks'[i].to
         /\ ChunksFitTarget' /\ EveryChunkAddsText'
<1> DEFINE c == [from |-> start, to |-> e]
           n == Len(chunks)
<1>1. c \in [from : Nat, to : Nat] /\ chunks \in Seq([from : Nat, to : Nat]) /\ start \in Nat
  BY DEF IInv, TypeOKC
<1>2. /\ n \in Nat /\ Len(chunks') = n + 1 /\ chunks'[n + 1] = c
      /\ \A i \in 1..n : chunks'[i] = chunks[i] /\ chunks[i] \in [from : Nat, to : Nat]
      /\ chunks' \in Seq([from : Nat, to : Nat]) /\ chunks' # <<>>
  <2>1. chunks' = Append(chunks, c)
    OBVIOUS
  <2> HIDE DEF c
  <2>2. n \in Nat /\ Len(chunks') = n + 1 /\ chunks'[n + 1] = c
    BY <1>1, <2>1
  <2>3. \A i \in 1..n : chunks'[i] = chunks[i] /\ chunks[i] \in [from : Nat, to : Nat]
    <3> SUFFICES ASSUME NEW i \in 1..n
                 PROVE  chunks'[i] = chunks[i] /\ chunks[i] \in [from : Nat, to : Nat]
      OBVIOUS
    <3>1. chunks'[i] = chunks[i]
      BY <1>1, <2>1, AppendProperties
    <3>2. chunks[i] \in [from : Nat, to : Nat]
      BY <1>1, ElementOfSeq
    <3>3. QED
      BY <3>1, <3>2
  <2>4. chunks' \in Seq([from : Nat, to : Nat])
    BY <1>1, <2>1
  <2>5. QED
    BY <2>2, <2>3, <2>4, SMTT(30)
<1>3. chunks'[1].from = 0
  BY <1>2 DEF IInv, NoTextIsLost
<1>4. \A i \in 1..Len(chunks') - 1 : chunks'[i + 1].from <= chunks'[i].to
  BY <1>2, SMTT(30) DEF IInv, NoTextIsLost
<1>5. ChunksFitTarget'
  <2> SUFFICES ASSUME NEW i \in 1..n + 1
               PROVE  chunks'[i].to - chunks'[i].from \in 1..target
    BY <1>2, SMTT(30) DEF ChunksFitTarget
  <2>1. target \in Nat
    BY DEF IInv, TypeOKC, Sizes
  <2>2. QED
    BY SMTT(30), <1>1, <1>2, <2>1 DEF IInv, ChunksFitTarget
<1>6. EveryChunkAddsText'
  <2>1. MinOffset' = MinOffset
    BY DEF MinOffset
  <2>2. QED
    BY <1>2, <2>1, SMTT(30) DEF IInv, EveryChunkAddsText
<1>7. chunks'[Len(chunks')].to = e
  BY <1>2
<1>8. QED
  BY <1>2, <1>3, <1>4, <1>5, <1>6, <1>7

\* Every step of the loop keeps it.
LEMMA NextIInv == IInv /\ [NextC]_cvars => IInv'
<1> SUFFICES ASSUME IInv, [NextC]_cvars
             PROVE  IInv'
  OBVIOUS
<1> USE ChunkingAssumption
<1>t. /\ text \in Seq(Char) /\ target \in Nat \ {0} /\ overlap \in 0..target - 1 /\ start \in Nat
      /\ N \in Nat /\ TypeOKC /\ MinOffset \in Nat \ {0}
  BY DEF IInv, TypeOKC, Sizes, N, MinOffset
<1>e. chunks # <<>> => chunks[Len(chunks)].to \in Nat
  <2>1. chunks \in Seq([from : Nat, to : Nat])
    BY DEF IInv, TypeOKC
  <2>2. chunks # <<>> => Len(chunks) \in 1..Len(chunks)
    BY <2>1
  <2>3. chunks # <<>> => chunks[Len(chunks)] \in [from : Nat, to : Nat]
    BY <2>1, <2>2, ElementOfSeq
  <2>4. QED
    BY <2>3
<1>1. CASE LastChunk
  <2>1. overlap < MinOffset /\ chunks # <<>> => N > chunks[Len(chunks)].to
    BY <1>1 DEF LastChunk, IInv
  <2>2. /\ chunks' \in Seq([from : Nat, to : Nat])
        /\ chunks' # <<>> /\ chunks'[1].from = 0 /\ chunks'[Len(chunks')].to = N
        /\ \A i \in 1..Len(chunks') - 1 : chunks'[i + 1].from <= chunks'[i].to
        /\ ChunksFitTarget' /\ EveryChunkAddsText'
    BY <1>1, <1>t, <2>1, Appended DEF LastChunk
  <2>3. QED
    BY <1>1, <1>t, <2>2 DEF LastChunk, IInv, TypeOKC, Sizes, NoTextIsLost, N
<1>2. CASE SplitChunk
  <2> DEFINE e == SplitEnd(start)
  <2>1. e \in start + 1 .. start + target /\ (e >= start + MinOffset \/ e = start + target)
    BY <1>t, SplitEndBounds
  <2>2. e \in Nat /\ e < N
    BY <1>2, <1>t, <2>1 DEF SplitChunk
  <2>3. overlap < MinOffset /\ chunks # <<>> => e > chunks[Len(chunks)].to
    BY <1>2, <1>t, <1>e, <2>1, SMTT(30) DEF SplitChunk, IInv
  <2>a. /\ ~done /\ chunks' = Append(chunks, [from |-> start, to |-> e])
        /\ UNCHANGED <<text, target, overlap>>
    BY <1>2 DEF SplitChunk
  <2> HIDE DEF e
  <2>b. e > start /\ e - start <= target
    BY <1>t, <2>1
  <2>4. /\ chunks' \in Seq([from : Nat, to : Nat])
        /\ chunks' # <<>> /\ chunks'[1].from = 0 /\ chunks'[Len(chunks')].to = e
        /\ \A i \in 1..Len(chunks') - 1 : chunks'[i + 1].from <= chunks'[i].to
        /\ ChunksFitTarget' /\ EveryChunkAddsText'
    BY <2>2, <2>3, <2>a, <2>b, Appended
  <2>5. start' = IF e - overlap <= start THEN e ELSE e - overlap
    BY <1>2 DEF SplitChunk, e
  <2>6. start' \in Nat /\ start' < N /\ start' <= e /\ e <= start' + overlap
    BY <1>t, <2>1, <2>2, <2>5
  <2>7. done' = FALSE /\ N' = N
    BY <1>2 DEF SplitChunk, N
  <2>8. QED
    BY <1>2, <1>t, <2>2, <2>4, <2>6, <2>7 DEF SplitChunk, IInv, TypeOKC, Sizes, NoTextIsLost
<1>3. CASE UNCHANGED cvars
  BY <1>3 DEF cvars, IInv, TypeOKC, Sizes, NoTextIsLost, ChunksFitTarget, EveryChunkAddsText, N,
              MinOffset
<1>4. QED
  BY <1>1, <1>2, <1>3 DEF NextC

\* So it holds throughout.
LEMMA Invariance == SpecC => []IInv
BY InitIInv, NextIInv, PTL DEF SpecC

\* Sizes stay those ChunkingConfig accepts, and offsets stay numbers, although the
\* next start is computed by subtracting the overlap.
THEOREM ChunkingIsTyped == SpecC => []TypeOKC
<1>1. IInv => TypeOKC
  BY DEF IInv
<1>2. QED
  BY <1>1, Invariance, PTL

\* The chunks of a text, whatever its length and breaks, leave no part of it out
\* (chunk_text with _find_split_end).
THEOREM ChunksCoverTheText == SpecC => []NoTextIsLost
<1>1. IInv => NoTextIsLost
  BY DEF IInv
<1>2. QED
  BY <1>1, Invariance, PTL

\* No chunk is empty or longer than target_size, for every overlap that
\* ChunkingConfig accepts.
THEOREM ChunksFit == SpecC => []ChunksFitTarget
<1>1. IInv => ChunksFitTarget
  BY DEF IInv
<1>2. QED
  BY <1>1, Invariance, PTL

\* With an overlap below the first quarter of a window the loop always moves on to
\* text no chunk holds yet.
THEOREM ChunksAddText == SpecC => []EveryChunkAddsText
<1>1. IInv => EveryChunkAddsText
  BY DEF IInv
<1>2. QED
  BY <1>1, Invariance, PTL

-----------------------------------------------------------------------------
(* Evidence. *)

(* The places that a strict total order gives the elements of a finite set. *)

Earlier(R, S, i) == {j \in S : <<j, i>> \in R}
PlaceIn(R, S, i) == Cardinality(Earlier(R, S, i)) + 1

StrictOrder(R, S) ==
  /\ \A i \in S : <<i, i>> \notin R
  /\ \A i, j, k \in S : <<i, j>> \in R /\ <<j, k>> \in R => <<i, k>> \in R
  /\ \A i, j \in S : i # j => <<i, j>> \in R \/ <<j, i>> \in R

\* The places of a finite set are 1 to its size, each taken by one element.
LEMMA Places ==
  ASSUME NEW S, IsFiniteSet(S), NEW R, StrictOrder(R, S)
  PROVE  /\ \A i \in S : PlaceIn(R, S, i) \in 1..Cardinality(S)
         /\ \A i, j \in S : <<i, j>> \in R => PlaceIn(R, S, i) < PlaceIn(R, S, j)
         /\ \A i, j \in S : PlaceIn(R, S, i) = PlaceIn(R, S, j) => i = j
         /\ \A k \in 1..Cardinality(S) : \E i \in S : PlaceIn(R, S, i) = k
<1> DEFINE n == Cardinality(S)
<1>1. n \in Nat
  BY FS_CardinalityType
<1>2. ASSUME NEW i \in S PROVE IsFiniteSet(Earlier(R, S, i)) /\ Cardinality(Earlier(R, S, i)) \in 0..n - 1
  <2>1. Earlier(R, S, i) \in SUBSET S /\ i \notin Earlier(R, S, i)
    BY DEF Earlier, StrictOrder
  <2>2. IsFiniteSet(Earlier(R, S, i)) /\ Cardinality(Earlier(R, S, i)) <= n /\ Cardinality(Earlier(R, S, i)) # n
    BY <2>1, FS_Subset
  <2>3. Cardinality(Earlier(R, S, i)) \in Nat
    BY <2>2, FS_CardinalityType
  <2> QED BY <1>1, <2>2, <2>3
<1>3. ASSUME NEW i \in S, NEW j \in S, <<i, j>> \in R
      PROVE  Cardinality(Earlier(R, S, i)) < Cardinality(Earlier(R, S, j))
  <2>1. Earlier(R, S, i) \in SUBSET Earlier(R, S, j) /\ i \in Earlier(R, S, j) /\ i \notin Earlier(R, S, i)
    BY <1>3 DEF Earlier, StrictOrder
  <2>2. /\ Cardinality(Earlier(R, S, i)) <= Cardinality(Earlier(R, S, j))
        /\ Cardinality(Earlier(R, S, i)) # Cardinality(Earlier(R, S, j))
    BY <1>2, <2>1, FS_Subset
  <2>3. Cardinality(Earlier(R, S, i)) \in Nat /\ Cardinality(Earlier(R, S, j)) \in Nat
    BY <1>1, <1>2
  <2> QED BY <2>2, <2>3
<1>4. ASSUME NEW i \in S PROVE PlaceIn(R, S, i) \in 1..n
  BY <1>1, <1>2 DEF PlaceIn
<1>5. ASSUME NEW i \in S, NEW j \in S, <<i, j>> \in R PROVE PlaceIn(R, S, i) < PlaceIn(R, S, j)
  <2>1. Cardinality(Earlier(R, S, i)) \in Nat /\ Cardinality(Earlier(R, S, j)) \in Nat
    BY <1>1, <1>2
  <2> QED BY <1>3, <1>5, <2>1 DEF PlaceIn
<1>6. ASSUME NEW i \in S, NEW j \in S, PlaceIn(R, S, i) = PlaceIn(R, S, j) PROVE i = j
  <2>1. PlaceIn(R, S, i) \in Int /\ PlaceIn(R, S, j) \in Int
    BY <1>1, <1>4
  <2>2. ~(PlaceIn(R, S, i) < PlaceIn(R, S, j)) /\ ~(PlaceIn(R, S, j) < PlaceIn(R, S, i))
    BY <1>6, <2>1
  <2>3. <<i, j>> \notin R /\ <<j, i>> \notin R
    BY <1>5, <2>2
  <2> QED BY <2>3 DEF StrictOrder
<1> DEFINE f == [i \in S |-> PlaceIn(R, S, i)]
<1>7. f \in Injection(S, 1..n)
  BY <1>4, <1>6 DEF Injection, IsInjective
<1>8. IsFiniteSet(1..n) /\ Cardinality(1..n) = n
  <2>1. 1 \in Int /\ n \in Int
    BY <1>1
  <2>2. IsFiniteSet(1..n) /\ Cardinality(1..n) = IF 1 > n THEN 0 ELSE n - 1 + 1
    BY <2>1, FS_Interval
  <2> QED BY <1>1, <2>2
<1>9. f \in Surjection(S, 1..n)
  <2> HIDE DEF f
  <2> QED BY <1>7, <1>8, FS_Injection
<1>10. \A k \in 1..n : \E i \in S : f[i] = k
  <2> HIDE DEF f
  <2> QED BY <1>9 DEF Surjection
<1> QED BY <1>4, <1>5, <1>6, <1>10

\* No place is left empty.
LEMMA EveryPlaceIsTaken ==
  ASSUME NEW S, IsFiniteSet(S), NEW R, StrictOrder(R, S)
  PROVE  \A k \in 1..Cardinality(S) : \E i \in S : PlaceIn(R, S, i) = k
BY Places

\* A list that puts at place k what has place k is in the order.
LEMMA Listing ==
  ASSUME NEW S, IsFiniteSet(S), NEW R, StrictOrder(R, S), NEW q,
         \A k \in 1..Cardinality(S) : q[k] \in S /\ PlaceIn(R, S, q[k]) = k
  PROVE  /\ \A i \in S : \E k \in 1..Cardinality(S) : q[k] = i
         /\ \A k, l \in 1..Cardinality(S) : k < l <=> <<q[k], q[l]>> \in R
<1> DEFINE n == Cardinality(S)
<1>1. n \in Nat
  BY FS_CardinalityType
<1>2. ASSUME NEW i \in S PROVE \E k \in 1..n : q[k] = i
  <2>1. PlaceIn(R, S, i) \in 1..n
    BY Places
  <2>2. q[PlaceIn(R, S, i)] = i
    BY <2>1, Places
  <2> QED BY <2>1, <2>2
<1>3. ASSUME NEW k \in 1..n, NEW l \in 1..n, <<q[k], q[l]>> \in R PROVE k < l
  BY <1>3, Places
<1>4. ASSUME NEW k \in 1..n, NEW l \in 1..n, k < l PROVE <<q[k], q[l]>> \in R
  <2>1. q[k] # q[l] /\ ~(l < k)
    BY <1>1, <1>4
  <2>2. <<q[l], q[k]>> \notin R
    BY <1>3, <2>1
  <2> QED BY <2>1, <2>2 DEF StrictOrder
<1> QED BY <1>2, <1>3, <1>4

\* p lists the positions S, in their order.
Lists(p, s, S) ==
  /\ p \in [1..Cardinality(S) -> S]
  /\ InOrder(s, S) = [k \in 1..Cardinality(S) |-> s[p[k]]]
  /\ \A i \in S : \E k \in 1..Cardinality(S) : p[k] = i
  /\ \A k, l \in 1..Cardinality(S) : k < l <=> p[k] < p[l]

\* The elements at the positions S, in their order.
LEMMA InOrderIs ==
  ASSUME NEW s, NEW S \in SUBSET Nat, IsFiniteSet(S)
  PROVE  \E p : Lists(p, s, S)
<1> DEFINE n == Cardinality(S)
           p == [k \in 1..n |-> CHOOSE i \in S : Cardinality({j \in S : j <= i}) = k]
<1>0. \A i \in S : i \in Nat
  OBVIOUS
<1>1. PICK R : \A i, j \in S : <<i, j>> \in R <=> i < j
  <2>1. \A i, j \in S : <<i, j>> \in {e \in S \X S : e[1] < e[2]} <=> i < j
    OBVIOUS
  <2> QED BY <2>1
<1>2. StrictOrder(R, S) /\ \A k \in 1..n : \E i \in S : PlaceIn(R, S, i) = k
  <2>1. StrictOrder(R, S)
    BY <1>0, <1>1 DEF StrictOrder
  <2> QED BY <2>1, EveryPlaceIsTaken
<1>3. ASSUME NEW i \in S PROVE Cardinality({j \in S : j <= i}) = PlaceIn(R, S, i)
  <2>1. {j \in S : j <= i} = Earlier(R, S, i) \cup {i} /\ i \notin Earlier(R, S, i)
    <3>1. \A j \in S : j <= i <=> j < i \/ j = i
      BY <1>0
    <3>2. ~(i < i)
      BY <1>0
    <3> QED BY <1>1, <3>1, <3>2 DEF Earlier
  <2>2. IsFiniteSet(Earlier(R, S, i))
    BY FS_Subset DEF Earlier
  <2> QED BY <2>1, <2>2, FS_AddElement DEF PlaceIn
<1>4. ASSUME NEW k \in 1..n PROVE p[k] \in S /\ PlaceIn(R, S, p[k]) = k
  <2>1. \E i \in S : Cardinality({j \in S : j <= i}) = k
    <3>1. PICK i \in S : PlaceIn(R, S, i) = k
      BY <1>2
    <3> QED BY <1>3, <3>1
  <2>2. p[k] \in S /\ Cardinality({j \in S : j <= p[k]}) = k
    BY <2>1
  <2> QED BY <1>3, <2>2
<1>5. p \in [1..n -> S]
  BY <1>4
<1>6. InOrder(s, S) = [k \in 1..n |-> s[p[k]]]
  BY DEF InOrder
<1> HIDE DEF p
<1>7. /\ \A i \in S : \E k \in 1..n : p[k] = i
      /\ \A k, l \in 1..n : k < l <=> <<p[k], p[l]>> \in R
  BY <1>2, <1>4, Listing
<1> QED BY <1>1, <1>4, <1>5, <1>6, <1>7 DEF Lists

\* A function on 1..n is a sequence of that length.
LEMMA FunctionIsSequence ==
  ASSUME NEW T, NEW n \in Nat, NEW f \in [1..n -> T]
  PROVE  f \in Seq(T) /\ Len(f) = n /\ DOMAIN f = 1..n
<1>1. f \in UNION {[1..m -> T] : m \in Nat}
  OBVIOUS
<1>2. f \in Seq(T)
  BY <1>1, SeqDef
<1>3. DOMAIN f = 1..n /\ DOMAIN f = 1..Len(f) /\ Len(f) \in Nat
  BY <1>2, LenProperties
<1>4. Len(f) = n
  BY <1>3
<1> QED BY <1>2, <1>3, <1>4

-----------------------------------------------------------------------------
(* What the retrievers returned. *)

\* A divisor divides into a whole positive number.
LEMMA Quotient ==
  ASSUME NEW a \in Nat \ {0}, NEW b \in Nat \ {0}, a % b = 0
  PROVE  a \div b \in Nat \ {0} /\ a = b * (a \div b)
<1>1. a \div b \in Int /\ a = b * (a \div b) + (a % b)
  OBVIOUS
<1>2. a = b * (a \div b)
  BY <1>1
<1>3. a \div b \in Nat \ {0}
  BY <1>1, <1>2
<1> QED BY <1>2, <1>3

\* A later rank has a smaller reciprocal.
LEMMA LaterIsLess ==
  ASSUME NEW i \in 1..ListMax, NEW j \in 1..ListMax, i < j
  PROVE  /\ Denominator \div (RrfK + i) \in Nat \ {0} /\ Denominator \div (RrfK + j) \in Nat \ {0}
         /\ Denominator \div (RrfK + j) < Denominator \div (RrfK + i)
<1> DEFINE d == Denominator
           a == RrfK + i
           b == RrfK + j
<1>1. /\ d \in Nat \ {0} /\ a \in Nat \ {0} /\ b \in Nat \ {0} /\ a < b
      /\ d % a = 0 /\ d % b = 0
  <2>1. d % a = 0 /\ d % b = 0
    BY EvidenceAssumption
  <2>2. d \in Nat \ {0} /\ RrfK \in Nat /\ ListMax \in Nat
    BY EvidenceAssumption
  <2>3. a \in Nat \ {0} /\ b \in Nat \ {0} /\ a < b
    BY <2>2
  <2> QED BY <2>1, <2>2, <2>3
<1>2. /\ d \div a \in Nat \ {0} /\ d = a * (d \div a)
      /\ d \div b \in Nat \ {0} /\ d = b * (d \div b)
  <2> HIDE DEF a, b, d
  <2> QED BY <1>1, Quotient
<1>3. ASSUME NEW x \in Nat \ {0}, NEW y \in Nat \ {0}, a * x = b * y PROVE y < x
  <2> HIDE DEF a, b, d
  <2>1. a * x <= a * y => a * y >= b * y
    BY <1>1, <1>3
  <2>2. a * y < b * y
    BY <1>1
  <2>3. x <= y => a * x <= a * y
    BY <1>1
  <2>4. a * x \in Nat /\ a * y \in Nat /\ b * y \in Nat
    BY <1>1
  <2> QED BY <1>3, <2>1, <2>2, <2>3, <2>4
<1> QED BY <1>2, <1>3

ListsAreRanked == lists \in [Sources -> UNION {RankedLists(s) : s \in Sources}]

\* What a retriever returns: chunks, each once, in any order of their scores.
LEMMA ListFacts ==
  ASSUME ListsAreRanked, NEW s \in Sources
  PROVE  /\ lists[s] \in Seq([chunk : Chunks, score : Scores]) /\ Len(lists[s]) \in 0..ListMax
         /\ DOMAIN lists[s] = 1..Len(lists[s])
         /\ \A i \in 1..Len(lists[s]) : i \in 1..ListMax /\ lists[s][i].chunk \in Chunks /\ lists[s][i].score \in Nat
         /\ \A i \in 1..Len(lists[s]) : lists[s][i].score \in Scores
         /\ \A i, j \in 1..Len(lists[s]) : i < j => lists[s][i].chunk # lists[s][j].chunk
<1> DEFINE l == lists[s]
           Entry == [chunk : Chunks, score : Scores]
<1>1. /\ l \in UNION {[1..n -> Entry] : n \in 0..ListMax}
      /\ \A i, j \in DOMAIN l : i < j => l[i].chunk # l[j].chunk
  BY DEF ListsAreRanked, RankedLists
<1>2. PICK n \in 0..ListMax : l \in [1..n -> Entry]
  BY <1>1
<1>3. ListMax \in Nat /\ n \in Nat /\ Scores \subseteq Nat
  BY EvidenceAssumption
<1> HIDE DEF l
<1>4. l \in Seq(Entry) /\ Len(l) = n /\ DOMAIN l = 1..n
  BY <1>2, <1>3, FunctionIsSequence
<1>5. \A i \in 1..n : l[i] \in Entry /\ i \in 1..ListMax
  BY <1>2, <1>3
<1> QED BY <1>1, <1>3, <1>4, <1>5 DEF l

\* Where a chunk stands in a list, and what it scores there.
LEMMA RankFacts ==
  ASSUME ListsAreRanked, NEW s \in Sources, NEW c
  PROVE  /\ ScoreIn(c, s) \in Nat
         /\ RankIn(c, s) = {} => ScoreIn(c, s) = 0 /\ Share(c, s) = 0
         /\ RankIn(c, s) # {} =>
              /\ Rank(c, s) \in 1..Len(lists[s]) /\ Rank(c, s) \in 1..ListMax
              /\ lists[s][Rank(c, s)].chunk = c
              /\ ScoreIn(c, s) = lists[s][Rank(c, s)].score /\ ScoreIn(c, s) \in Scores
              /\ Share(c, s) = Weight[s] * (Denominator \div (RrfK + Rank(c, s)))
<1>1. CASE RankIn(c, s) = {}
  BY <1>1 DEF ScoreIn, Share
<1>2. CASE RankIn(c, s) # {}
  <2>1. Rank(c, s) \in RankIn(c, s)
    BY <1>2 DEF Rank
  <2>2. Rank(c, s) \in 1..Len(lists[s]) /\ lists[s][Rank(c, s)].chunk = c
    BY <2>1, ListFacts DEF RankIn
  <2> QED BY <1>2, <2>2, ListFacts DEF ScoreIn, Share
<1> QED BY <1>1, <1>2

\* Every source has a positive weight.
LEMMA WeightIs == \A s \in Sources : Weight[s] \in Nat /\ Weight[s] >= 1
BY EvidenceAssumption

\* The share of a list is a number, and positive for what it holds.
LEMMA ShareType ==
  ASSUME ListsAreRanked, NEW s \in Sources, NEW c
  PROVE  Share(c, s) \in Nat /\ (RankIn(c, s) # {} => Share(c, s) >= 1)
<1>1. CASE RankIn(c, s) = {}
  BY <1>1, RankFacts
<1>2. CASE RankIn(c, s) # {}
  <2> DEFINE q == Denominator \div (RrfK + Rank(c, s))
             w == Weight[s]
  <2>1. q \in Nat \ {0}
    <3>1. /\ Rank(c, s) \in 1..ListMax /\ Denominator \in Nat \ {0} /\ RrfK \in Nat /\ ListMax \in Nat
          /\ Denominator % (RrfK + Rank(c, s)) = 0
      BY <1>2, RankFacts, EvidenceAssumption
    <3>2. RrfK + Rank(c, s) \in Nat \ {0}
      BY <3>1
    <3> QED BY <3>1, <3>2, Quotient
  <2>2. Share(c, s) = w * q /\ w \in Nat /\ w >= 1
    BY <1>2, RankFacts, WeightIs
  <2> HIDE DEF q, w
  <2>3. w * q \in Nat /\ w * q >= 1
    BY <2>1, <2>2
  <2> QED BY <2>2, <2>3
<1> QED BY <1>1, <1>2

\* An earlier place is a larger share.  (A chunk with a score is in the list.)
LEMMA EarlierLargerShare ==
  ASSUME ListsAreRanked, NEW s \in Sources, NEW c, NEW x, RankIn(x, s) # {}, ScoreIn(c, s) > ScoreIn(x, s),
         Rank(c, s) < Rank(x, s)
  PROVE  Share(c, s) > Share(x, s)
<1>1. RankIn(c, s) # {} /\ ScoreIn(c, s) \in Nat /\ ScoreIn(x, s) \in Nat
  BY RankFacts
<1> DEFINE i == Rank(c, s)
           j == Rank(x, s)
           w == Weight[s]
<1>2. /\ i \in 1..ListMax /\ j \in 1..ListMax
      /\ Share(c, s) = w * (Denominator \div (RrfK + i))
      /\ Share(x, s) = w * (Denominator \div (RrfK + j))
  BY <1>1, RankFacts
<1>3. i < j
  OBVIOUS
<1> HIDE DEF i, j, w
<1> DEFINE a == Denominator \div (RrfK + i)
           b == Denominator \div (RrfK + j)
<1>4. a \in Nat /\ b \in Nat /\ b < a
  BY <1>2, <1>3, LaterIsLess
<1>5. w \in Nat /\ w >= 1
  BY WeightIs DEF w
<1> HIDE DEF a, b
<1>6. w * a > w * b
  BY <1>4, <1>5
<1> QED BY <1>2, <1>6 DEF a, b

\* What is ranked before another everywhere is fused before it.
LEMMA BeatsMore ==
  ASSUME ListsAreRanked, NEW c, NEW x \in Found, Beats(c, x)
  PROVE  Fusion(c) \in Nat /\ Fusion(x) \in Nat /\ Fusion(c) > Fusion(x)
<1>1. ASSUME NEW s \in Sources
      PROVE  /\ Share(c, s) \in Nat /\ Share(x, s) \in Nat /\ Share(c, s) >= Share(x, s)
             /\ RankIn(x, s) # {} => Share(c, s) > Share(x, s)
  <2>1. Share(c, s) \in Nat /\ Share(x, s) \in Nat
    BY ShareType
  <2>2. CASE RankIn(x, s) = {}
    BY <2>1, <2>2, RankFacts
  <2>3. CASE RankIn(x, s) # {}
    BY <2>1, <2>3, EarlierLargerShare DEF Beats
  <2> QED BY <2>1, <2>2, <2>3
<1>2. PICK t \in Sources : RankIn(x, t) # {}
  BY DEF Found
<1>3. t \in {"vector", "keyword", "metadata"} /\ Share(c, t) > Share(x, t)
  BY <1>1, <1>2 DEF Sources
<1>4. /\ Share(c, "vector") \in Nat /\ Share(x, "vector") \in Nat /\ Share(c, "vector") >= Share(x, "vector")
      /\ Share(c, "keyword") \in Nat /\ Share(x, "keyword") \in Nat /\ Share(c, "keyword") >= Share(x, "keyword")
      /\ Share(c, "metadata") \in Nat /\ Share(x, "metadata") \in Nat /\ Share(c, "metadata") >= Share(x, "metadata")
  BY <1>1 DEF Sources
<1> QED BY <1>3, <1>4 DEF Fusion

-----------------------------------------------------------------------------
(* What the merge makes of the lists. *)

\* What no sequence repeats.
Distinct(s) == \A i, j \in 1..Len(s) : s[i] = s[j] => i = j

\* Whatever a sequence holds has a first position.
LEMMA FirstPositions ==
  ASSUME NEW T, NEW all \in Seq(T)
  PROVE  LET first == {i \in DOMAIN all : \A j \in 1..i - 1 : all[j] # all[i]}
         IN  /\ first \in SUBSET Nat /\ first \subseteq 1..Len(all) /\ IsFiniteSet(first)
             /\ \A i \in 1..Len(all) : \E j \in first : all[j] = all[i]
<1> DEFINE first == {i \in DOMAIN all : \A j \in 1..i - 1 : all[j] # all[i]}
           n == Len(all)
<1>1. n \in Nat /\ DOMAIN all = 1..n
  BY LenProperties
<1>2. first \in SUBSET Nat /\ first \subseteq 1..n
  BY <1>1
<1>3. IsFiniteSet(first)
  <2>1. IsFiniteSet(1..n)
    BY <1>1, FS_Interval
  <2> HIDE DEF first
  <2> QED BY <1>2, <2>1, FS_Subset
<1>4. ASSUME NEW i \in 1..n PROVE \E j \in first : all[j] = all[i]
  <2> DEFINE Same == {j \in 1..n : all[j] = all[i]}
  <2>1. Same \in SUBSET Nat /\ Same # {}
    BY <1>1
  <2>2. PICK m \in Same : \A k \in Same : m <= k
    <3> HIDE DEF Same
    <3> QED BY <2>1, LeastNat
  <2>3. m \in 1..n /\ all[m] = all[i]
    OBVIOUS
  <2>4. ASSUME NEW j \in 1..m - 1, all[j] = all[m] PROVE FALSE
    <3>1. j \in 1..n /\ j < m
      BY <1>1, <2>3
    <3>2. j \in Same
      BY <2>3, <2>4, <3>1
    <3>3. m <= j
      BY <2>2, <3>2
    <3> QED BY <1>1, <2>3, <3>1, <3>3
  <2>5. m \in first
    BY <1>1, <2>3, <2>4
  <2> QED BY <2>3, <2>5
<1> QED BY <1>2, <1>3, <1>4

\* The merge meets every chunk of the lists once.
LEMMA FirstMetIs ==
  ASSUME ListsAreRanked
  PROVE  /\ FirstMet \in Seq(Found) /\ Distinct(FirstMet)
         /\ \A c \in Found : \E k \in 1..Len(FirstMet) : FirstMet[k] = c
<1> DEFINE Part(s) == [i \in DOMAIN lists[s] |-> lists[s][i].chunk]
           all == Part("vector") \o Part("keyword") \o Part("metadata")
           first == {i \in DOMAIN all : \A j \in 1..i - 1 : all[j] # all[i]}
<1>1. ASSUME NEW s \in Sources
      PROVE  /\ Part(s) \in Seq(Found) /\ Len(Part(s)) = Len(lists[s]) /\ Len(lists[s]) \in Nat
             /\ \A i \in 1..Len(lists[s]) : Part(s)[i] = lists[s][i].chunk
  <2>1. DOMAIN lists[s] = 1..Len(lists[s]) /\ Len(lists[s]) \in Nat
    BY ListFacts, EvidenceAssumption
  <2>2. ASSUME NEW i \in 1..Len(lists[s]) PROVE lists[s][i].chunk \in Found
    <3>1. lists[s][i].chunk \in Chunks
      BY ListFacts
    <3>2. i \in RankIn(lists[s][i].chunk, s)
      BY <2>1 DEF RankIn
    <3> QED BY <3>1, <3>2 DEF Found
  <2>3. Part(s) \in [1..Len(lists[s]) -> Found]
    BY <2>1, <2>2
  <2>4. Part(s) \in Seq(Found) /\ Len(Part(s)) = Len(lists[s])
    <3> HIDE DEF Part
    <3> QED BY <2>1, <2>3, FunctionIsSequence
  <2> QED BY <2>1, <2>4
<1> DEFINE v == Part("vector")
           w == Part("keyword")
           m == Part("metadata")
<1>2. /\ v \in Seq(Found) /\ w \in Seq(Found) /\ m \in Seq(Found)
      /\ Len(v) \in Nat /\ Len(w) \in Nat /\ Len(m) \in Nat
  <2> HIDE DEF Part
  <2> QED BY <1>1, LenProperties DEF Sources
<1> HIDE DEF v, w, m
<1>3. /\ v \o w \in Seq(Found) /\ Len(v \o w) = Len(v) + Len(w)
      /\ \A i \in 1..Len(v) + Len(w) : (v \o w)[i] = IF i <= Len(v) THEN v[i] ELSE w[i - Len(v)]
  BY <1>2, ConcatProperties
<1> DEFINE vw == v \o w
<1> HIDE DEF vw
<1>4. /\ vw \o m \in Seq(Found) /\ Len(vw \o m) = Len(vw) + Len(m)
      /\ \A i \in 1..Len(vw) + Len(m) : (vw \o m)[i] = IF i <= Len(vw) THEN vw[i] ELSE m[i - Len(vw)]
  BY <1>2, <1>3, ConcatProperties DEF vw
<1>5. all = vw \o m
  BY DEF vw, v, w, m
<1> HIDE DEF all, Part
<1>6. all \in Seq(Found) /\ Len(all) \in Nat /\ Len(all) = Len(v) + Len(w) + Len(m) /\ Len(vw) = Len(v) + Len(w)
  BY <1>2, <1>3, <1>4, <1>5 DEF vw
<1>7. ASSUME NEW s \in Sources, NEW i \in 1..Len(lists[s])
      PROVE  \E j \in 1..Len(all) : all[j] = lists[s][i].chunk
  <2>1. s = "vector" \/ s = "keyword" \/ s = "metadata"
    BY DEF Sources
  <2>2. i \in 1..Len(Part(s)) /\ Part(s)[i] = lists[s][i].chunk
    BY <1>1
  <2>3. CASE s = "vector"
    <3>1. i \in 1..Len(v) /\ v[i] = lists[s][i].chunk
      BY <2>2, <2>3 DEF v
    <3>2. i \in 1..Len(v) + Len(w) /\ i <= Len(v) /\ i \in 1..Len(all) /\ i <= Len(vw) /\ i \in 1..Len(vw) + Len(m)
      BY <1>2, <1>6, <3>1
    <3>3. all[i] = v[i]
      BY <1>3, <1>4, <1>5, <3>2 DEF vw
    <3> QED BY <3>1, <3>2, <3>3
  <2>4. CASE s = "keyword"
    <3>1. i \in 1..Len(w) /\ w[i] = lists[s][i].chunk
      BY <2>2, <2>4 DEF w
    <3> DEFINE j == Len(v) + i
    <3>2. /\ j \in 1..Len(v) + Len(w) /\ ~(j <= Len(v)) /\ j \in 1..Len(all) /\ j <= Len(vw)
          /\ j \in 1..Len(vw) + Len(m) /\ j - Len(v) = i
      BY SMTT(30), <1>2, <1>6, <3>1
    <3> HIDE DEF j
    <3>3. all[j] = w[i]
      BY <1>3, <1>4, <1>5, <3>2 DEF vw
    <3> QED BY <3>1, <3>2, <3>3
  <2>5. CASE s = "metadata"
    <3>1. i \in 1..Len(m) /\ m[i] = lists[s][i].chunk
      BY <2>2, <2>5 DEF m
    <3> DEFINE j == Len(vw) + i
    <3>2. j \in 1..Len(all) /\ ~(j <= Len(vw)) /\ j \in 1..Len(vw) + Len(m) /\ j - Len(vw) = i
      BY <1>2, <1>6, <3>1
    <3> HIDE DEF j
    <3>3. all[j] = m[i]
      BY <1>4, <1>5, <3>2
    <3> QED BY <3>1, <3>2, <3>3
  <2> QED BY <2>1, <2>3, <2>4, <2>5
<1>8. /\ first \in SUBSET Nat /\ first \subseteq 1..Len(all) /\ IsFiniteSet(first)
      /\ \A i \in 1..Len(all) : \E j \in first : all[j] = all[i]
  BY ZenonT(40), <1>6, FirstPositions
<1>9. FirstMet = InOrder(all, first)
  BY DEF FirstMet, all, Part
<1> HIDE DEF first
<1>p. PICK p : Lists(p, all, first)
  BY <1>8, InOrderIs
<1>10. /\ p \in [1..Cardinality(first) -> first]
       /\ InOrder(all, first) = [k \in 1..Cardinality(first) |-> all[p[k]]]
       /\ \A i \in first : \E k \in 1..Cardinality(first) : p[k] = i
  BY <1>p DEF Lists
<1>11. Cardinality(first) \in Nat
  BY <1>8, FS_CardinalityType
<1> DEFINE many == Cardinality(first)
<1>12. FirstMet \in [1..many -> Found] /\ \A k \in 1..many : FirstMet[k] = all[p[k]]
  <2>1. \A i \in 1..Len(all) : all[i] \in Found
    BY <1>6, ElementOfSeq
  <2>2. \A k \in 1..many : all[p[k]] \in Found
    BY <1>8, <1>10, <2>1
  <2> QED BY <1>9, <1>10, <2>2
<1>13. FirstMet \in Seq(Found) /\ Len(FirstMet) = many
  BY <1>11, <1>12, FunctionIsSequence
<1>14. ASSUME NEW c \in Found PROVE \E k \in 1..many : FirstMet[k] = c
  <2>1. PICK s \in Sources : RankIn(c, s) # {}
    BY DEF Found
  <2>2. Rank(c, s) \in 1..Len(lists[s]) /\ lists[s][Rank(c, s)].chunk = c
    BY <2>1, RankFacts
  <2>3. PICK j \in 1..Len(all) : all[j] = c
    BY <1>7, <2>2
  <2>4. PICK i \in first : all[i] = c
    BY <1>8, <2>3
  <2>5. PICK k \in 1..many : p[k] = i
    BY <1>10
  <2> QED BY <1>12, <2>4, <2>5
<1>15. ASSUME NEW k \in 1..many, NEW l \in 1..many, FirstMet[k] = FirstMet[l] PROVE k = l
  <2>0. p[k] \in first /\ p[l] \in first /\ all[p[k]] = all[p[l]]
    BY <1>10, <1>12, <1>15
  <2>1. /\ p[k] \in first /\ p[l] \in first /\ p[k] \in Nat /\ p[l] \in Nat
        /\ k \in Nat /\ l \in Nat /\ all[p[k]] = all[p[l]]
    <3>1. \A i \in first : i \in Nat
      BY <1>8
    <3>2. k \in Nat /\ l \in Nat
      BY <1>11
    <3> QED BY <2>0, <3>1, <3>2
  <2>2. p[k] = p[l]
    <3>1. ASSUME NEW i \in first, NEW j \in first, i < j PROVE all[i] # all[j]
      <4>1. i \in 1..j - 1
        BY <1>8, <3>1
      <4> QED BY <4>1 DEF first
    <3>2. ~(p[k] < p[l]) /\ ~(p[l] < p[k])
      BY <2>1, <3>1
    <3> QED BY <2>1, <3>2
  <2>3. ~(k < l) /\ ~(l < k)
    BY <1>p, <2>1, <2>2 DEF Lists
  <2> QED BY <2>1, <2>3
<1> QED BY <1>13, <1>14, <1>15 DEF Distinct

-----------------------------------------------------------------------------
(* A stable sort. *)

\* B puts some elements before others, and leaves the rest as they stand.
WeakOrder(B, T) ==
  /\ \A c, d \in T : <<c, d>> \in B => <<d, c>> \notin B
  /\ \A c, d, e \in T : <<c, d>> \in B => <<c, e>> \in B \/ <<e, d>> \in B

\* R is the order of the positions of s in its stable sort by B.
StableOrder(R, B, s) ==
  \A i, j \in 1..Len(s) :
    <<i, j>> \in R <=> <<s[i], s[j]>> \in B \/ (<<s[j], s[i]>> \notin B /\ i < j)

\* A stable sort orders the positions strictly.
LEMMA StableOrderIsStrict ==
  ASSUME NEW T, NEW s \in Seq(T), NEW B, WeakOrder(B, T), NEW R, StableOrder(R, B, s)
  PROVE  StrictOrder(R, 1..Len(s))
<1> DEFINE n == Len(s)
<1>0. n \in Nat /\ \A i \in 1..n : s[i] \in T
  BY LenProperties, ElementOfSeq
<1> HIDE DEF n
<1>r. \A i, j \in 1..n : <<i, j>> \in R <=> <<s[i], s[j]>> \in B \/ (<<s[j], s[i]>> \notin B /\ i < j)
  BY DEF StableOrder, n
<1>b. /\ \A i, j \in 1..n : <<s[i], s[j]>> \in B => <<s[j], s[i]>> \notin B
      /\ \A i, j, k \in 1..n : <<s[i], s[j]>> \in B => <<s[i], s[k]>> \in B \/ <<s[k], s[j]>> \in B
  BY <1>0 DEF WeakOrder
<1>l. \A i \in 1..n : ~(i < i)
  BY <1>0
<1>1. ASSUME NEW i \in 1..n PROVE <<i, i>> \notin R
  <2>1. <<s[i], s[i]>> \notin B
    BY <1>b
  <2> QED BY <1>l, <1>r, <2>1
<1>2. ASSUME NEW i \in 1..n, NEW j \in 1..n, NEW k \in 1..n, <<i, j>> \in R, <<j, k>> \in R PROVE <<i, k>> \in R
  <2>1. \/ <<s[i], s[j]>> \in B
        \/ <<s[j], s[i]>> \notin B /\ i < j
    BY <1>2, <1>r
  <2>2. \/ <<s[j], s[k]>> \in B
        \/ <<s[k], s[j]>> \notin B /\ j < k
    BY <1>2, <1>r
  <2>3. i < j /\ j < k => i < k
    BY <1>0
  <2>4. CASE <<s[i], s[j]>> \in B
    BY <1>b, <1>r, <2>2, <2>4
  <2>5. CASE <<s[j], s[k]>> \in B
    BY <1>b, <1>r, <2>1, <2>5
  <2>6. CASE <<s[j], s[i]>> \notin B /\ <<s[k], s[j]>> \notin B /\ i < j /\ j < k
    BY <1>b, <1>r, <2>3, <2>6
  <2> QED BY <2>1, <2>2, <2>4, <2>5, <2>6
<1>3. ASSUME NEW i \in 1..n, NEW j \in 1..n, i # j PROVE <<i, j>> \in R \/ <<j, i>> \in R
  <2>1. i < j \/ j < i
    BY <1>0, <1>3
  <2> QED BY <1>r, <2>1
<1> QED BY <1>1, <1>2, <1>3 DEF StrictOrder, n

\* Every place of the sorted sequence is taken.
LEMMA StablePlaces ==
  ASSUME NEW T, NEW s \in Seq(T), NEW B, WeakOrder(B, T), NEW R, StableOrder(R, B, s)
  PROVE  \A k \in 1..Len(s) : \E i \in 1..Len(s) : Cardinality(Earlier(R, 1..Len(s), i)) = k - 1
<1> DEFINE n == Len(s)
           S == 1..n
<1>1. n \in Nat
  BY LenProperties
<1>2. IsFiniteSet(S) /\ Cardinality(S) = n
  <2>1. 1 \in Int /\ n \in Int
    BY <1>1
  <2>2. IsFiniteSet(S) /\ Cardinality(S) = IF 1 > n THEN 0 ELSE n - 1 + 1
    BY <2>1, FS_Interval
  <2> QED BY <1>1, <2>2
<1>3. StrictOrder(R, S)
  BY StableOrderIsStrict
<1> HIDE DEF S, n
<1>4. \A k \in 1..n : \E i \in S : PlaceIn(R, S, i) = k
  <2>1. \A k \in 1..Cardinality(S) : \E i \in S : PlaceIn(R, S, i) = k
    BY <1>2, <1>3, EveryPlaceIsTaken
  <2> QED BY <1>2, <2>1
<1>5. ASSUME NEW i \in S PROVE Cardinality(Earlier(R, S, i)) \in Nat
  <2>1. Earlier(R, S, i) \in SUBSET S
    BY DEF Earlier
  <2> QED BY <1>2, <2>1, FS_Subset, FS_CardinalityType
<1>6. ASSUME NEW k \in 1..n PROVE \E i \in S : Cardinality(Earlier(R, S, i)) = k - 1
  <2>1. PICK i \in S : PlaceIn(R, S, i) = k
    BY <1>4
  <2>2. Cardinality(Earlier(R, S, i)) + 1 = k /\ Cardinality(Earlier(R, S, i)) \in Nat
    BY <1>5, <2>1 DEF PlaceIn
  <2> QED BY <1>1, <2>2
<1> QED BY <1>6 DEF S, n

SortedBy(w, s, B, T) ==
  /\ w \in Seq(T) /\ Len(w) = Len(s)
  /\ \A i \in 1..Len(s) : \E k \in 1..Len(s) : w[k] = s[i]
  /\ \A k \in 1..Len(s) : \E i \in 1..Len(s) : w[k] = s[i]
  /\ \A k, l \in 1..Len(s) : <<w[k], w[l]>> \in B => k < l
  /\ Distinct(s) => Distinct(w)

\* The sequence that has at each place the element whose place it is.
LEMMA Sorted ==
  ASSUME NEW T, NEW s \in Seq(T), NEW B, WeakOrder(B, T), NEW R, StableOrder(R, B, s),
         NEW q, \A k \in 1..Len(s) : q[k] \in 1..Len(s) /\ Cardinality(Earlier(R, 1..Len(s), q[k])) = k - 1,
         NEW w, w = [k \in 1..Len(s) |-> s[q[k]]]
  PROVE  SortedBy(w, s, B, T)
<1> DEFINE n == Len(s)
           S == 1..n
<1>1. n \in Nat /\ \A i \in 1..n : s[i] \in T
  BY LenProperties, ElementOfSeq
<1>2. IsFiniteSet(S) /\ Cardinality(S) = n
  <2>1. 1 \in Int /\ n \in Int
    BY <1>1
  <2>2. IsFiniteSet(S) /\ Cardinality(S) = IF 1 > n THEN 0 ELSE n - 1 + 1
    BY <2>1, FS_Interval
  <2> QED BY <1>1, <2>2
<1>3. StrictOrder(R, S)
  BY StableOrderIsStrict
<1>r. \A i, j \in 1..n : <<s[i], s[j]>> \in B => <<i, j>> \in R
  BY DEF StableOrder
<1>4. \A k \in 1..n : q[k] \in S /\ PlaceIn(R, S, q[k]) = k
  <2> SUFFICES ASSUME NEW k \in 1..n PROVE q[k] \in S /\ PlaceIn(R, S, q[k]) = k
    OBVIOUS
  <2>1. q[k] \in S /\ Cardinality(Earlier(R, S, q[k])) = k - 1
    OBVIOUS
  <2>2. k - 1 + 1 = k
    BY <1>1
  <2> QED BY <2>1, <2>2 DEF PlaceIn
<1>5. /\ \A i \in S : \E k \in 1..n : q[k] = i
      /\ \A k, l \in 1..n : k < l <=> <<q[k], q[l]>> \in R
  <2>1. \A k \in 1..Cardinality(S) : q[k] \in S /\ PlaceIn(R, S, q[k]) = k
    BY <1>2, <1>4
  <2> HIDE DEF S
  <2>2. /\ \A i \in S : \E k \in 1..Cardinality(S) : q[k] = i
        /\ \A k, l \in 1..Cardinality(S) : k < l <=> <<q[k], q[l]>> \in R
    BY <1>2, <1>3, <2>1, Listing
  <2> QED BY <1>2, <2>2
<1> HIDE DEF n
<1>6. w \in [1..n -> T]
  BY <1>1, <1>4 DEF n
<1>7. \A k \in 1..n : w[k] = s[q[k]]
  BY DEF n
<1>8. w \in Seq(T) /\ Len(w) = n
  BY <1>1, <1>6, FunctionIsSequence
<1>9. /\ \A i \in 1..n : \E k \in 1..n : w[k] = s[i]
      /\ \A k \in 1..n : \E i \in 1..n : w[k] = s[i]
  <2>1. ASSUME NEW i \in 1..n PROVE \E k \in 1..n : w[k] = s[i]
    <3>1. PICK k \in 1..n : q[k] = i
      BY <1>5
    <3> QED BY <1>7, <3>1
  <2>2. ASSUME NEW k \in 1..n PROVE \E i \in 1..n : w[k] = s[i]
    <3>1. q[k] \in 1..n /\ w[k] = s[q[k]]
      BY <1>4, <1>7
    <3> QED BY <3>1
  <2> QED BY <2>1, <2>2
<1>10. \A k, l \in 1..n : <<w[k], w[l]>> \in B => k < l
  BY <1>4, <1>5, <1>7, <1>r
<1>11. ASSUME Distinct(s) PROVE Distinct(w)
  <2> SUFFICES ASSUME NEW k \in 1..n, NEW l \in 1..n, w[k] = w[l] PROVE k = l
    BY <1>8 DEF Distinct
  <2>1. q[k] = q[l]
    BY <1>4, <1>7, <1>11 DEF Distinct, n
  <2>2. <<q[k], q[l]>> \notin R /\ <<q[l], q[k]>> \notin R
    BY <1>3, <1>4, <2>1 DEF StrictOrder
  <2>3. ~(k < l) /\ ~(l < k)
    BY <1>5, <2>2
  <2>4. k \in Nat /\ l \in Nat
    BY <1>1
  <2> QED BY <2>3, <2>4
<1> QED BY <1>8, <1>9, <1>10, <1>11 DEF n, SortedBy

-----------------------------------------------------------------------------

\* A cut keeps a beginning.
LEMMA UptoIs ==
  ASSUME NEW T, NEW s \in Seq(T), NEW n \in Nat
  PROVE  /\ Upto(s, n) \in Seq(T) /\ Len(Upto(s, n)) = (IF n < Len(s) THEN n ELSE Len(s))
         /\ Len(Upto(s, n)) \in 0..Len(s)
         /\ \A i \in 1..Len(Upto(s, n)) : Upto(s, n)[i] = s[i]
         /\ Distinct(s) => Distinct(Upto(s, n))
<1> DEFINE m == IF n < Len(s) THEN n ELSE Len(s)
           u == SubSeq(s, 1, m)
<1>1. Len(s) \in Nat /\ m \in 0..Len(s) /\ 1 \in Int /\ m \in Int
  BY LenProperties
<1>2. \A i \in 1..m : s[i] \in T
  BY <1>1, ElementOfSeq
<1>3. Upto(s, n) = u
  BY DEF Upto
<1> HIDE DEF m
<1>4. /\ u \in Seq(T) /\ Len(u) = IF 1 <= m THEN m - 1 + 1 ELSE 0
      /\ \A i \in 1..m - 1 + 1 : u[i] = s[1 + i - 1]
  BY <1>1, <1>2, SubSeqProperties
<1> HIDE DEF u
<1>5. Len(u) = m /\ m - 1 + 1 = m /\ \A i \in 1..m : 1 + i - 1 = i
  BY <1>1, <1>4
<1>6. u \in Seq(T) /\ Len(u) = m /\ \A i \in 1..m : u[i] = s[i]
  BY <1>4, <1>5
<1>7. Distinct(s) => Distinct(u)
  <2>1. \A i \in 1..m : i \in 1..Len(s)
    BY <1>1
  <2> QED BY <1>6, <2>1 DEF Distinct
<1> QED BY <1>1, <1>3, <1>6, <1>7 DEF m

\* Every chunk has a file, and every file an age.
LEMMA FileFacts ==
  ASSUME NEW c \in Chunks
  PROVE  FileOf[c] \in Files /\ Modified[FileOf[c]] \in Nat
BY EvidenceAssumption

\* The merge: what was found, the larger share first, then cut.
LEMMA MergedIs ==
  ASSUME ListsAreRanked
  PROVE  \E w \in Seq(Found) :
           /\ Merged = Upto(w, 2 * CandidateK)
           /\ \A c \in Found : \E k \in 1..Len(w) : w[k] = c
           /\ \A k, l \in 1..Len(w) : Fusion(w[k]) > Fusion(w[l]) => k < l
           /\ Distinct(w)
<1> DEFINE s == FirstMet
           n == Len(s)
           score == [c \in Found |-> Fusion(c)]
           Better(c, d) == score[c] > score[d] \/ (score[c] = score[d] /\ Newer(c, d))
           Before(i, j) == Better(s[i], s[j]) \/ (~Better(s[j], s[i]) /\ i < j)
           C(k) == CHOOSE i \in DOMAIN s : Cardinality({j \in DOMAIN s : Before(j, i)}) = k - 1
           q == [k \in DOMAIN s |-> C(k)]
           w == [k \in 1..n |-> s[q[k]]]
<1>1. s \in Seq(Found) /\ DOMAIN s = 1..n /\ n \in Nat /\ (\A i \in 1..n : s[i] \in Found)
      /\ \A c \in Found : \E k \in 1..n : s[k] = c
  BY FirstMetIs, LenProperties, ElementOfSeq
<1>d. Distinct(s)
  BY FirstMetIs
<1>2. Merged = Upto([k \in DOMAIN s |-> s[C(k)]], 2 * CandidateK)
  BY DEF Merged, Ranked
<1>3. Merged = Upto(w, 2 * CandidateK)
  <2> HIDE DEF C, s, n
  <2>1. w = [k \in DOMAIN s |-> s[C(k)]]
    BY <1>1
  <2> QED BY <1>2, <2>1
<1>4. ASSUME NEW c \in Found
      PROVE  c \in Chunks /\ Fusion(c) \in Nat /\ score[c] = Fusion(c) /\ Modified[FileOf[c]] \in Nat
  <2>1. c \in Chunks
    BY DEF Found
  <2>2. Share(c, "vector") \in Nat /\ Share(c, "keyword") \in Nat /\ Share(c, "metadata") \in Nat
    BY ShareType DEF Sources
  <2> QED BY <2>1, <2>2, FileFacts DEF Fusion
<1> HIDE DEF score
<1>5. PICK B : \A c, d \in Found : <<c, d>> \in B <=> Better(c, d)
  <2>1. \A c, d \in Found : <<c, d>> \in {e \in Found \X Found : Better(e[1], e[2])} <=> Better(c, d)
    OBVIOUS
  <2> QED BY <2>1
<1>6. WeakOrder(B, Found)
  <2>1. \A c, d \in Found : Better(c, d) => ~Better(d, c)
    BY <1>4 DEF Newer
  <2>2. \A c, d, e \in Found : Better(c, d) => Better(c, e) \/ Better(e, d)
    BY <1>4 DEF Newer
  <2> HIDE DEF Better
  <2> QED BY <1>5, <2>1, <2>2 DEF WeakOrder
<1> HIDE DEF Better, s, n
<1>7. PICK R : \A i, j \in 1..n : <<i, j>> \in R <=> Before(i, j)
  <2>1. \A i, j \in 1..n : <<i, j>> \in {e \in (1..n) \X (1..n) : Before(e[1], e[2])} <=> Before(i, j)
    OBVIOUS
  <2> QED BY <2>1
<1>8. StableOrder(R, B, s)
  BY <1>1, <1>5, <1>7 DEF StableOrder, n
<1>9. ASSUME NEW i \in 1..n PROVE {j \in DOMAIN s : Before(j, i)} = Earlier(R, 1..n, i)
  BY <1>1, <1>7 DEF Earlier
<1>10. ASSUME NEW k \in 1..n PROVE q[k] \in 1..n /\ Cardinality(Earlier(R, 1..n, q[k])) = k - 1
  <2>1. PICK i \in 1..n : Cardinality(Earlier(R, 1..n, i)) = k - 1
    BY <1>1, <1>6, <1>8, StablePlaces DEF n
  <2>2. \E m \in DOMAIN s : Cardinality({j \in DOMAIN s : Before(j, m)}) = k - 1
    BY <1>1, <1>9, <2>1
  <2>3. q[k] \in DOMAIN s /\ Cardinality({j \in DOMAIN s : Before(j, q[k])}) = k - 1
    BY <1>1, <2>2
  <2> QED BY <1>1, <1>9, <2>3
<1> HIDE DEF q, Before, C
<1>11. /\ w \in Seq(Found) /\ Len(w) = n
       /\ \A i \in 1..n : \E k \in 1..n : w[k] = s[i]
       /\ \A k, l \in 1..n : <<w[k], w[l]>> \in B => k < l
       /\ Distinct(w)
  <2>1. \A k \in 1..Len(s) : q[k] \in 1..Len(s) /\ Cardinality(Earlier(R, 1..Len(s), q[k])) = k - 1
    BY <1>10 DEF n
  <2>2. w = [k \in 1..Len(s) |-> s[q[k]]]
    BY DEF n
  <2> HIDE DEF w
  <2>3. SortedBy(w, s, B, Found)
    <3>1. s \in Seq(Found)
      BY <1>1
    <3> QED BY ONLY <3>1, <1>6, <1>8, <2>1, <2>2, Sorted
  <2> QED BY <1>d, <2>3 DEF n, SortedBy
<1> HIDE DEF w
<1>12. \A c \in Found : \E k \in 1..n : w[k] = c
  BY ZenonT(40), <1>1, <1>11
<1>13. ASSUME NEW k \in 1..n, NEW l \in 1..n, Fusion(w[k]) > Fusion(w[l]) PROVE k < l
  <2>1. w[k] \in Found /\ w[l] \in Found
    BY <1>11, ElementOfSeq
  <2>2. Better(w[k], w[l])
    BY <1>4, <1>13, <2>1 DEF Better
  <2> QED BY <1>5, <1>11, <2>1, <2>2
<1> QED BY <1>3, <1>11, <1>12, <1>13

-----------------------------------------------------------------------------
(* What reranking makes of the candidates. *)

\* Finitely many numbers have a bound.
LEMMA NumbersAreBounded ==
  ASSUME NEW n \in Nat, NEW f \in [1..n -> Nat]
  PROVE  \E hi \in Nat : \A i \in 1..n : f[i] <= hi
<1> DEFINE Bounded(k) == \E hi \in Nat : \A i \in 1..k : f[i] <= hi
           Failing == {k \in 0..n : ~Bounded(k)}
<1> SUFFICES ASSUME Failing # {} PROVE FALSE
  <2>1. n \in 0..n
    OBVIOUS
  <2> HIDE DEF Bounded
  <2>2. Bounded(n)
    BY <2>1
  <2> QED BY <2>2 DEF Bounded
<1>1. Failing \in SUBSET Nat
  OBVIOUS
<1>2. PICK m \in Failing : \A k \in Failing : m <= k
  <2> HIDE DEF Failing
  <2> QED BY <1>1, LeastNat
<1>3. m \in 0..n /\ ~Bounded(m)
  BY <1>2
<1>4. m # 0
  BY <1>3
<1>5. m - 1 \in 0..n /\ ~(m <= m - 1) /\ m \in 1..n
  BY <1>3, <1>4
<1>6. Bounded(m - 1)
  <2> HIDE DEF Bounded
  <2> QED BY <1>2, <1>5
<1>7. PICK hi \in Nat : \A i \in 1..m - 1 : f[i] <= hi
  BY <1>6
<1>8. f[m] \in Nat /\ \A i \in 1..m - 1 : f[i] \in Nat
  <2> HIDE DEF Bounded, Failing
  <2>1. \A i \in 1..n : f[i] \in Nat
    OBVIOUS
  <2>2. \A i \in 1..m - 1 : i \in 1..n
    BY <1>5
  <2> QED BY <1>5, <2>1, <2>2
<1>9. hi + f[m] \in Nat /\ \A i \in 1..m : f[i] <= hi + f[m]
  <2>1. \A i \in 1..m : i \in 1..m - 1 \/ i = m
    BY <1>5
  <2> HIDE DEF Bounded, Failing
  <2>2. \A x \in Nat : x <= hi => x <= hi + f[m]
    BY <1>8
  <2>3. f[m] <= hi + f[m] /\ hi + f[m] \in Nat
    BY <1>8
  <2> QED BY <1>7, <1>8, <2>1, <2>2, <2>3
<1> QED BY <1>3, <1>9

\* The best score of a search among the candidates, or 1.
LEMMA TopIs ==
  ASSUME ListsAreRanked, NEW source \in Sources, NEW s \in Seq(Found)
  PROVE  /\ Top(source, s) \in Nat /\ Top(source, s) >= 1
         /\ \A i \in 1..Len(s) : ScoreIn(s[i], source) <= Top(source, s)
         /\ Top(source, s) = 1 \/ \E i \in 1..Len(s) : Top(source, s) = ScoreIn(s[i], source)
<1> DEFINE l == lists[source]
           S == {ScoreIn(s[i], source) : i \in DOMAIN s} \cup {1}
<1>0. DOMAIN s = 1..Len(s)
  BY LenProperties
<1>1. Len(l) \in Nat /\ \A i \in 1..Len(l) : l[i].score \in Nat
  BY ListFacts
<1>2. PICK hi \in Nat : hi >= 1 /\ \A i \in 1..Len(l) : l[i].score <= hi
  <2> DEFINE f == [i \in 1..Len(l) |-> l[i].score]
  <2>1. f \in [1..Len(l) -> Nat]
    BY <1>1
  <2>2. PICK hi \in Nat : \A i \in 1..Len(l) : f[i] <= hi
    <3> HIDE DEF f, l
    <3> QED BY <1>1, <2>1, NumbersAreBounded
  <2>3. hi + 1 \in Nat /\ hi + 1 >= 1 /\ \A i \in 1..Len(l) : l[i].score <= hi + 1
    <3> HIDE DEF l
    <3> QED BY <1>1, <2>2
  <2> QED BY <2>3
<1>3. ASSUME NEW c PROVE ScoreIn(c, source) \in 0..hi
  <2>1. CASE RankIn(c, source) = {}
    BY <1>2, <2>1, RankFacts
  <2>2. CASE RankIn(c, source) # {}
    <3>1. /\ Rank(c, source) \in 1..Len(l) /\ ScoreIn(c, source) = l[Rank(c, source)].score
          /\ ScoreIn(c, source) \in Nat
      BY <2>2, RankFacts
    <3> HIDE DEF l
    <3> QED BY <1>2, <3>1
  <2> QED BY <2>1, <2>2
<1> HIDE DEF l
<1>4. S \in SUBSET (0..hi) /\ S # {}
  BY <1>2, <1>3
<1>5. Max(S) \in S /\ \A k \in S : k <= Max(S)
  <2> HIDE DEF S
  <2> QED BY <1>2, <1>4, GreatestNat
<1>6. Top(source, s) = Max(S)
  BY DEF Top
<1>7. Max(S) \in Nat
  BY <1>2, <1>4, <1>5
<1>8. 1 \in S /\ \A i \in 1..Len(s) : ScoreIn(s[i], source) \in S
  BY <1>0
<1>9. \A x \in S : x = 1 \/ \E i \in 1..Len(s) : x = ScoreIn(s[i], source)
  BY <1>0
<1> HIDE DEF S
<1> QED BY <1>5, <1>6, <1>7, <1>8, <1>9

\* The weighted score of a chunk, as a sum of three terms.
Term(w, a, p, q) == w * a * p * q

\* A term is a number.
LEMMA TermType ==
  ASSUME NEW w \in Nat, NEW a \in Nat, NEW p \in Nat, NEW q \in Nat
  PROVE  Term(w, a, p, q) \in Nat
<1>1. w * a \in Nat
  OBVIOUS
<1>2. w * a * p \in Nat
  BY <1>1
<1> QED BY <1>2 DEF Term

\* It grows with what it weighs.
LEMMA TermGrows ==
  ASSUME NEW w \in Nat, NEW a \in Nat, NEW b \in Nat, NEW p \in Nat, NEW q \in Nat, w >= 1, p >= 1, q >= 1
  PROVE  /\ a <= b => Term(w, a, p, q) <= Term(w, b, p, q)
         /\ a < b => Term(w, a, p, q) < Term(w, b, p, q)
<1>1. \A x, y, z \in Nat : z >= 1 => (x <= y => x * z <= y * z) /\ (x < y => x * z < y * z)
  OBVIOUS
<1>2. \A x, y \in Nat : x * y \in Nat /\ x * y = y * x
  OBVIOUS
<1>3. (a <= b => w * a <= w * b) /\ (a < b => w * a < w * b)
  BY <1>1, <1>2
<1>4. w * a \in Nat /\ w * b \in Nat /\ w * a * p \in Nat /\ w * b * p \in Nat
  BY <1>2
<1>5. (a <= b => w * a * p <= w * b * p) /\ (a < b => w * a * p < w * b * p)
  BY <1>1, <1>3, <1>4
<1>6. (a <= b => w * a * p * q <= w * b * p * q) /\ (a < b => w * a * p * q < w * b * p * q)
  BY <1>1, <1>4, <1>5
<1> QED BY <1>6 DEF Term

\* The weighted score is the sum of its three terms.
LEMMA WeightedIs ==
  ASSUME ListsAreRanked, NEW c, NEW s \in Seq(Found)
  PROVE  LET v == Top("vector", s)  k == Top("keyword", s)  m == Top("metadata", s)
             tv == Term(Weight["vector"], ScoreIn(c, "vector"), k, m)
             tk == Term(Weight["keyword"], ScoreIn(c, "keyword"), v, m)
             tm == Term(Weight["metadata"], ScoreIn(c, "metadata"), v, k)
         IN  /\ Weighted(c, s) = tv + tk + tm
             /\ tv \in Nat /\ tk \in Nat /\ tm \in Nat /\ Weighted(c, s) \in Nat
<1> DEFINE v == Top("vector", s)
           k == Top("keyword", s)
           m == Top("metadata", s)
           tv == Term(Weight["vector"], ScoreIn(c, "vector"), k, m)
           tk == Term(Weight["keyword"], ScoreIn(c, "keyword"), v, m)
           tm == Term(Weight["metadata"], ScoreIn(c, "metadata"), v, k)
<1>1. Weighted(c, s) = tv + tk + tm
  BY DEF Weighted, Term
<1>2. v \in Nat /\ k \in Nat /\ m \in Nat
  BY TopIs DEF Sources
<1>3. /\ Weight["vector"] \in Nat /\ Weight["keyword"] \in Nat /\ Weight["metadata"] \in Nat
      /\ ScoreIn(c, "vector") \in Nat /\ ScoreIn(c, "keyword") \in Nat /\ ScoreIn(c, "metadata") \in Nat
  BY WeightIs, RankFacts DEF Sources
<1>4. tv \in Nat /\ tk \in Nat /\ tm \in Nat
  <2> HIDE DEF v, k, m
  <2> QED BY <1>2, <1>3, TermType
<1> HIDE DEF tv, tk, tm
<1>5. Weighted(c, s) \in Nat
  BY <1>1, <1>4
<1> QED BY <1>1, <1>4, <1>5 DEF tv, tk, tm

\* A chunk better everywhere weighs more.
LEMMA BeatsWeighted ==
  ASSUME ListsAreRanked, NEW c, NEW x \in Found, Beats(c, x), NEW s \in Seq(Found)
  PROVE  Weighted(c, s) > Weighted(x, s)
<1> DEFINE v == Top("vector", s)
           k == Top("keyword", s)
           m == Top("metadata", s)
           A(t) == ScoreIn(c, t)
           B(t) == ScoreIn(x, t)
<1>1. ASSUME NEW t \in Sources PROVE A(t) \in Nat /\ B(t) \in Nat /\ B(t) <= A(t) /\ (RankIn(x, t) # {} => B(t) < A(t))
  <2>1. A(t) \in Nat /\ B(t) \in Nat
    BY RankFacts
  <2>2. CASE RankIn(x, t) = {}
    BY <2>1, <2>2, RankFacts
  <2>3. CASE RankIn(x, t) # {}
    BY <2>1, <2>3 DEF Beats
  <2> QED BY <2>1, <2>2, <2>3
<1>2. v \in Nat /\ k \in Nat /\ m \in Nat /\ v >= 1 /\ k >= 1 /\ m >= 1
  BY TopIs DEF Sources
<1>3. /\ Weight["vector"] \in Nat /\ Weight["keyword"] \in Nat /\ Weight["metadata"] \in Nat
      /\ Weight["vector"] >= 1 /\ Weight["keyword"] >= 1 /\ Weight["metadata"] >= 1
  BY WeightIs DEF Sources
<1>4. /\ A("vector") \in Nat /\ A("keyword") \in Nat /\ A("metadata") \in Nat
      /\ B("vector") \in Nat /\ B("keyword") \in Nat /\ B("metadata") \in Nat
      /\ B("vector") <= A("vector") /\ B("keyword") <= A("keyword") /\ B("metadata") <= A("metadata")
  BY <1>1 DEF Sources
<1>5. B("vector") < A("vector") \/ B("keyword") < A("keyword") \/ B("metadata") < A("metadata")
  <2>1. PICK t \in Sources : RankIn(x, t) # {}
    BY DEF Found
  <2>2. t \in {"vector", "keyword", "metadata"} /\ B(t) < A(t)
    BY <1>1, <2>1 DEF Sources
  <2> QED BY <2>2
<1> DEFINE av == Term(Weight["vector"], A("vector"), k, m)
           ak == Term(Weight["keyword"], A("keyword"), v, m)
           am == Term(Weight["metadata"], A("metadata"), v, k)
           bv == Term(Weight["vector"], B("vector"), k, m)
           bk == Term(Weight["keyword"], B("keyword"), v, m)
           bm == Term(Weight["metadata"], B("metadata"), v, k)
<1>6. /\ Weighted(c, s) = av + ak + am /\ Weighted(x, s) = bv + bk + bm
      /\ av \in Nat /\ ak \in Nat /\ am \in Nat /\ bv \in Nat /\ bk \in Nat /\ bm \in Nat
  BY WeightedIs
<1>7. bv <= av /\ (B("vector") < A("vector") => bv < av)
  <2> HIDE DEF A, B, v, k, m
  <2> QED BY <1>2, <1>3, <1>4, TermGrows
<1>8. bk <= ak /\ (B("keyword") < A("keyword") => bk < ak)
  <2> HIDE DEF A, B, v, k, m
  <2> QED BY <1>2, <1>3, <1>4, TermGrows
<1>9. bm <= am /\ (B("metadata") < A("metadata") => bm < am)
  <2> HIDE DEF A, B, v, k, m
  <2> QED BY <1>2, <1>3, <1>4, TermGrows
<1> HIDE DEF av, ak, am, bv, bk, bm, A, B
<1> QED BY <1>5, <1>6, <1>7, <1>8, <1>9

Outranks(c, d, s) == ~IsNamed(d) /\ Weighted(c, s) > Weighted(d, s)

\* Reranking sorts the candidates, a file the question names first, and cuts them.
LEMMA RerankedIs ==
  ASSUME ListsAreRanked, NEW s \in Seq(Found)
  PROVE  \E w \in Seq(Found) :
           /\ Reranked(s) = Upto(w, TopK) /\ Len(w) = Len(s)
           /\ \A i \in 1..Len(s) : \E k \in 1..Len(s) : w[k] = s[i]
           /\ \A k \in 1..Len(s) : \E i \in 1..Len(s) : w[k] = s[i]
           /\ \A k, l \in 1..Len(s) : Outranks(w[k], w[l], s) => k < l
           /\ Distinct(s) => Distinct(w)
<1> DEFINE n == Len(s)
           score == [c \in Found |-> Weighted(c, s)]
           Better(c, d) == \/ IsNamed(c) /\ ~IsNamed(d)
                           \/ /\ IsNamed(c) = IsNamed(d)
                              /\ score[c] > score[d] \/ (score[c] = score[d] /\ Newer(c, d))
           Before(i, j) == Better(s[i], s[j]) \/ (~Better(s[j], s[i]) /\ i < j)
           C(k) == CHOOSE i \in DOMAIN s : Cardinality({j \in DOMAIN s : Before(j, i)}) = k - 1
           q == [k \in DOMAIN s |-> C(k)]
           w == [k \in 1..n |-> s[q[k]]]
<1>1. DOMAIN s = 1..n /\ n \in Nat /\ \A i \in 1..n : s[i] \in Found
  BY LenProperties, ElementOfSeq
<1>2. Reranked(s) = Upto([k \in DOMAIN s |-> s[C(k)]], TopK)
  BY DEF Reranked, Ranked
<1>3. Reranked(s) = Upto(w, TopK)
  <2> HIDE DEF C, n
  <2>1. w = [k \in DOMAIN s |-> s[C(k)]]
    BY <1>1
  <2> QED BY <1>2, <2>1
<1>4. ASSUME NEW c \in Found
      PROVE  c \in Chunks /\ Weighted(c, s) \in Nat /\ score[c] = Weighted(c, s) /\ Modified[FileOf[c]] \in Nat
  <2>1. c \in Chunks
    BY DEF Found
  <2>2. Weighted(c, s) \in Nat
    BY WeightedIs
  <2> QED BY <2>1, <2>2, FileFacts
<1> HIDE DEF score
<1>5. PICK B : \A c, d \in Found : <<c, d>> \in B <=> Better(c, d)
  <2>1. \A c, d \in Found : <<c, d>> \in {e \in Found \X Found : Better(e[1], e[2])} <=> Better(c, d)
    <3> HIDE DEF Better
    <3> QED OBVIOUS
  <2> QED BY <2>1
<1>6. WeakOrder(B, Found)
  <2>1. \A c, d \in Found : Better(c, d) => ~Better(d, c)
    BY <1>4 DEF Newer
  <2>2. \A c, d, e \in Found : Better(c, d) => Better(c, e) \/ Better(e, d)
    BY <1>4 DEF Newer, IsNamed
  <2> HIDE DEF Better
  <2> QED BY <1>5, <2>1, <2>2 DEF WeakOrder
<1> HIDE DEF Better, n
<1>7. PICK R : \A i, j \in 1..n : <<i, j>> \in R <=> Before(i, j)
  <2>1. \A i, j \in 1..n : <<i, j>> \in {e \in (1..n) \X (1..n) : Before(e[1], e[2])} <=> Before(i, j)
    OBVIOUS
  <2> QED BY <2>1
<1>8. StableOrder(R, B, s)
  BY <1>1, <1>5, <1>7 DEF StableOrder, n
<1>9. ASSUME NEW i \in 1..n PROVE {j \in DOMAIN s : Before(j, i)} = Earlier(R, 1..n, i)
  BY <1>1, <1>7 DEF Earlier
<1>10. ASSUME NEW k \in 1..n PROVE q[k] \in 1..n /\ Cardinality(Earlier(R, 1..n, q[k])) = k - 1
  <2>1. PICK i \in 1..n : Cardinality(Earlier(R, 1..n, i)) = k - 1
    BY <1>1, <1>6, <1>8, StablePlaces DEF n
  <2>2. \E m \in DOMAIN s : Cardinality({j \in DOMAIN s : Before(j, m)}) = k - 1
    BY <1>1, <1>9, <2>1
  <2>3. q[k] \in DOMAIN s /\ Cardinality({j \in DOMAIN s : Before(j, q[k])}) = k - 1
    BY <1>1, <2>2
  <2> QED BY <1>1, <1>9, <2>3
<1> HIDE DEF q, Before, C
<1>11. SortedBy(w, s, B, Found)
  <2>1. \A k \in 1..Len(s) : q[k] \in 1..Len(s) /\ Cardinality(Earlier(R, 1..Len(s), q[k])) = k - 1
    BY <1>10 DEF n
  <2>2. w = [k \in 1..Len(s) |-> s[q[k]]]
    BY DEF n
  <2> HIDE DEF w
  <2> QED BY <1>1, <1>6, <1>8, <2>1, <2>2, Sorted
<1> HIDE DEF w
<1>12. ASSUME NEW k \in 1..n, NEW l \in 1..n, Outranks(w[k], w[l], s) PROVE k < l
  <2>1. w[k] \in Found /\ w[l] \in Found
    BY <1>11, ElementOfSeq DEF SortedBy, n
  <2>2. Better(w[k], w[l])
    BY <1>4, <1>12, <2>1 DEF Better, Outranks, IsNamed
  <2> QED BY <1>5, <1>11, <2>1, <2>2 DEF SortedBy, n
<1> QED BY <1>3, <1>11, <1>12 DEF SortedBy, n

-----------------------------------------------------------------------------
(* The invariant: what is being graded comes of the lists, by the merge and the reranking. *)

EvidenceInv ==
  /\ path \in {"grounded", "collection"}
  /\ path = "collection" => step \notin {"merge", "rerank", "grade"}
  /\ path = "grounded" => step # "gather"
  /\ step \in {"merge", "rerank", "grade"} => ListsAreRanked
  /\ step = "rerank" => cands = Merged
  /\ step = "grade" => cands = Reranked(Merged)
  /\ path = "grounded" /\ step = "abstained" =>
       /\ ListsAreRanked /\ cands = Reranked(Merged)
       /\ cands = <<>> \/ TopIsWeak(cands, Merged) \/ SignalsAreWeak(cands)

\* Before the question there is nothing to say.
LEMMA InitialE == InitE => EvidenceInv
<1> SUFFICES ASSUME InitE PROVE EvidenceInv
  OBVIOUS
<1>1. ASSUME NEW v \in RankedLists("vector"), NEW k \in RankedLists("keyword"), NEW m \in RankedLists("metadata"),
             lists = [vector |-> v, keyword |-> k, metadata |-> m]
      PROVE  ListsAreRanked
  BY <1>1 DEF ListsAreRanked, Sources
<1>2. step = "merge" => ListsAreRanked
  BY <1>1 DEF InitE
<1> QED BY <1>2 DEF InitE, EvidenceInv

\* While the lists stay, so does what is computed from them.
LEMMA SameLists ==
  ASSUME UNCHANGED <<lists, named>>
  PROVE  /\ Merged' = Merged /\ (ListsAreRanked => ListsAreRanked') /\ Reranked(Merged)' = Reranked(Merged)
         /\ UNCHANGED cands => /\ TopIsWeak(cands, Merged)' = TopIsWeak(cands, Merged)
                               /\ SignalsAreWeak(cands)' = SignalsAreWeak(cands)
<1>1. \A c, s : RankIn(c, s)' = RankIn(c, s)
  BY DEF RankIn
<1>2. \A c, s : Rank(c, s)' = Rank(c, s)
  BY <1>1 DEF Rank
<1>3. \A c, s : ScoreIn(c, s)' = ScoreIn(c, s) /\ Share(c, s)' = Share(c, s)
  BY <1>1, <1>2 DEF ScoreIn, Share
<1>4. Found' = Found /\ \A c : Fusion(c)' = Fusion(c)
  BY <1>1, <1>3 DEF Found, Fusion
<1>5. FirstMet' = FirstMet
  BY DEF FirstMet
<1>6. Merged' = Merged
  <2> DEFINE score == [c \in Found |-> Fusion(c)]
         Sort(s, t) == Ranked(s, LAMBDA c, d : t[c] > t[d] \/ (t[c] = t[d] /\ Newer(c, d)))
  <2>1. score' = score
    BY <1>4
  <2>2. Merged = Upto(Sort(FirstMet, score), 2 * CandidateK)
    BY DEF Merged
  <2>3. Merged' = Upto(Sort(FirstMet', score'), 2 * CandidateK)
    BY DEF Merged, Ranked, Newer
  <2> HIDE DEF Sort, score
  <2> QED BY <1>5, <2>1, <2>2, <2>3
<1>7. \A t : Top(t, Merged)' = Top(t, Merged)
  BY <1>3, <1>6 DEF Top
<1>8. \A c : Weighted(c, Merged)' = Weighted(c, Merged)
  BY <1>3, <1>7 DEF Weighted
<1>9. Reranked(Merged)' = Reranked(Merged)
  <2> DEFINE score == [c \in Found |-> Weighted(c, Merged)]
             Sort(s, t, names) ==
               Ranked(s, LAMBDA c, d : \/ FileOf[c] \in names /\ ~(FileOf[d] \in names)
                                       \/ /\ (FileOf[c] \in names) = (FileOf[d] \in names)
                                          /\ t[c] > t[d] \/ (t[c] = t[d] /\ Newer(c, d)))
  <2>1. score' = score
    BY <1>4, <1>8
  <2>2. Reranked(Merged) = Upto(Sort(Merged, score, named), TopK)
    BY DEF Reranked, IsNamed
  <2>3. Reranked(Merged)' = Upto(Sort(Merged', score', named'), TopK)
    BY DEF Reranked, IsNamed, Ranked, Newer
  <2> HIDE DEF Sort, score
  <2> QED BY <1>6, <2>1, <2>2, <2>3
<1>10. UNCHANGED cands => TopIsWeak(cands, Merged)' = TopIsWeak(cands, Merged)
  <2>1. Whole(Merged)' = Whole(Merged)
    BY <1>7 DEF Whole
  <2>2. UNCHANGED cands => Weighted(cands[1], Merged)' = Weighted(cands[1], Merged)
    BY <1>3, <1>7 DEF Weighted
  <2> QED BY <2>1, <2>2 DEF TopIsWeak
<1>11. UNCHANGED cands => SignalsAreWeak(cands)' = SignalsAreWeak(cands)
  BY <1>3 DEF SignalsAreWeak
<1>12. ListsAreRanked => ListsAreRanked'
  BY DEF ListsAreRanked, RankedLists
<1> QED BY <1>6, <1>9, <1>10, <1>11, <1>12

\* Every step keeps the invariant.
LEMMA EvidenceStep ==
  ASSUME EvidenceInv, [NextE]_evars
  PROVE  EvidenceInv'
<1>1. CASE Merge
  <2>1. /\ step = "merge" /\ cands' = Merged /\ step' = "rerank" /\ path' = path
        /\ UNCHANGED <<lists, named>>
    BY <1>1 DEF Merge
  <2>2. path = "grounded" /\ ListsAreRanked
    BY <2>1 DEF EvidenceInv
  <2>3. cands' = Merged' /\ ListsAreRanked'
    BY <2>1, <2>2, SameLists
  <2> QED BY <2>1, <2>2, <2>3 DEF EvidenceInv
<1>2. CASE Rerank
  <2>1. /\ step = "rerank" /\ cands' = Reranked(cands) /\ step' = "grade" /\ path' = path
        /\ UNCHANGED <<lists, named>>
    BY <1>2 DEF Rerank
  <2>2. path = "grounded" /\ ListsAreRanked /\ cands = Merged
    BY <2>1 DEF EvidenceInv
  <2>3. cands' = Reranked(Merged)' /\ ListsAreRanked'
    <3>1. Reranked(Merged)' = Reranked(Merged)
      BY <2>1, SameLists
    <3> QED BY <2>1, <2>2, <3>1, SameLists
  <2> QED BY <2>1, <2>2, <2>3 DEF EvidenceInv
<1>3. CASE Grade
  <2>1. step = "grade" /\ path' = path /\ UNCHANGED <<lists, named>>
    BY <1>3 DEF Grade
  <2>2. path = "grounded" /\ ListsAreRanked /\ cands = Reranked(Merged)
    BY <2>1 DEF EvidenceInv
  <2>3. CASE cands = <<>> \/ TopIsWeak(cands, Merged) \/ SignalsAreWeak(cands)
    <3>1. step' = "abstained" /\ cands' = cands
      BY <1>3, <2>3 DEF Grade
    <3>2. cands' = Reranked(Merged)' /\ ListsAreRanked'
      BY <2>1, <2>2, <3>1, SameLists
    <3>3. (cands = <<>> \/ TopIsWeak(cands, Merged) \/ SignalsAreWeak(cands))'
      BY <2>1, <2>3, <3>1, SameLists
    <3> QED BY <2>1, <2>2, <3>1, <3>2, <3>3 DEF EvidenceInv
  <2>4. CASE ~(cands = <<>> \/ TopIsWeak(cands, Merged) \/ SignalsAreWeak(cands))
    <3>1. step' = "select"
      BY <1>3, <2>4 DEF Grade
    <3> QED BY <2>1, <2>2, <3>1 DEF EvidenceInv
  <2> QED BY <2>3, <2>4
<1>4. CASE Select
  <2>1. step = "select" /\ path' = path /\ step' \in {"declined", "draft"}
    BY <1>4 DEF Select
  <2> QED BY <2>1 DEF EvidenceInv
<1>5. CASE Gather
  <2>1. step = "gather" /\ path' = path /\ step' \in {"failed", "abstained", "draft"}
    BY <1>5 DEF Gather
  <2> QED BY <2>1 DEF EvidenceInv
<1>6. CASE Draft
  <2>1. path' = path /\ step' \in {"cite", "failed", "draft"}
    BY <1>6 DEF Draft
  <2> QED BY <2>1 DEF EvidenceInv
<1>7. CASE DraftFails \/ Decline
  <2>1. path' = path /\ step' \in {"failed", "declined"}
    BY <1>7 DEF DraftFails, Decline
  <2> QED BY <2>1 DEF EvidenceInv
<1>8. CASE Cite
  <2>1. path' = path /\ step' = "answered"
    BY <1>8 DEF Cite
  <2> QED BY <2>1 DEF EvidenceInv
<1>9. CASE UNCHANGED evars
  <2>1. UNCHANGED <<step, path, lists, named, cands>>
    BY <1>9 DEF evars
  <2>2. /\ Merged' = Merged /\ Reranked(Merged)' = Reranked(Merged) /\ (ListsAreRanked => ListsAreRanked')
        /\ TopIsWeak(cands, Merged)' = TopIsWeak(cands, Merged) /\ SignalsAreWeak(cands)' = SignalsAreWeak(cands)
    BY <2>1, SameLists
  <2> QED BY <2>1, <2>2 DEF EvidenceInv
<1> QED BY <1>1, <1>2, <1>3, <1>4, <1>5, <1>6, <1>7, <1>8, <1>9 DEF NextE

\* The candidates are graded as the retrievers, the merge and the reranking left them.
THEOREM EvidenceInvariant == SpecE => []EvidenceInv
<1>1. InitE => EvidenceInv
  BY InitialE
<1>2. EvidenceInv /\ [NextE]_evars => EvidenceInv'
  BY EvidenceStep
<1> QED BY <1>1, <1>2, PTL DEF SpecE

-----------------------------------------------------------------------------

\* The merge: what it kept, and what it put before it.
LEMMA MergedFacts ==
  ASSUME ListsAreRanked
  PROVE  /\ Merged \in Seq(Found) /\ Len(Merged) \in Nat
         /\ \A i \in 1..Len(Merged) : Merged[i] \in Found
         /\ \A i \in 1..Len(Merged) : \A c \in Found :
              Fusion(c) > Fusion(Merged[i]) => \E j \in 1..Len(Merged) : Merged[j] = c /\ j < i
         /\ Found # {} /\ CandidateK >= 1 => Len(Merged) >= 1
         /\ Distinct(Merged)
<1>1. PICK w \in Seq(Found) :
        /\ Merged = Upto(w, 2 * CandidateK)
        /\ \A c \in Found : \E k \in 1..Len(w) : w[k] = c
        /\ \A k, l \in 1..Len(w) : Fusion(w[k]) > Fusion(w[l]) => k < l
        /\ Distinct(w)
  BY MergedIs
<1>2. 2 * CandidateK \in Nat /\ (CandidateK >= 1 => 2 * CandidateK >= 1)
  <2>1. CandidateK \in Nat
    BY EvidenceAssumption
  <2> QED BY <2>1
<1> DEFINE K == 2 * CandidateK
<1> HIDE DEF K
<1>3. /\ Merged \in Seq(Found) /\ Len(Merged) = (IF K < Len(w) THEN K ELSE Len(w)) /\ Len(Merged) \in 0..Len(w)
      /\ \A i \in 1..Len(Merged) : Merged[i] = w[i]
      /\ Distinct(Merged)
  <2>1. Merged = Upto(w, K) /\ K \in Nat /\ Distinct(w)
    BY <1>1, <1>2 DEF K
  <2>2. /\ Upto(w, K) \in Seq(Found) /\ Len(Upto(w, K)) = (IF K < Len(w) THEN K ELSE Len(w))
        /\ Len(Upto(w, K)) \in 0..Len(w) /\ Distinct(Upto(w, K))
        /\ \A i \in 1..Len(Upto(w, K)) : Upto(w, K)[i] = w[i]
    BY <2>1, UptoIs
  <2> QED BY <2>1, <2>2
<1>4. Len(w) \in Nat /\ Len(Merged) \in Nat /\ \A i \in 1..Len(Merged) : i \in 1..Len(w)
  BY <1>3, LenProperties
<1>5. \A i \in 1..Len(Merged) : Merged[i] \in Found
  BY <1>3, ElementOfSeq
<1>6. ASSUME NEW i \in 1..Len(Merged), NEW c \in Found, Fusion(c) > Fusion(Merged[i])
      PROVE  \E j \in 1..Len(Merged) : Merged[j] = c /\ j < i
  <2>1. PICK k \in 1..Len(w) : w[k] = c
    BY <1>1
  <2>2. k < i
    BY <1>1, <1>3, <1>4, <1>6, <2>1
  <2>3. k \in 1..Len(Merged)
    BY <1>4, <2>2
  <2> QED BY <1>3, <2>1, <2>2, <2>3
<1>7. ASSUME Found # {}, CandidateK >= 1 PROVE Len(Merged) >= 1
  <2>1. Len(w) >= 1
    BY <1>1, <1>4, <1>7
  <2>2. K \in Nat /\ K >= 1
    BY <1>2, <1>7 DEF K
  <2> QED BY <1>3, <1>4, <2>1, <2>2
<1> QED BY <1>3, <1>4, <1>5, <1>6, <1>7

\* The same of the reranking.
LEMMA RerankedFacts ==
  ASSUME ListsAreRanked
  PROVE  /\ Reranked(Merged) \in Seq(Found) /\ Len(Reranked(Merged)) \in Nat
         /\ \A i \in 1..Len(Reranked(Merged)) : \E p \in 1..Len(Merged) : Reranked(Merged)[i] = Merged[p]
         /\ \A i \in 1..Len(Reranked(Merged)) : \A p \in 1..Len(Merged) :
              Outranks(Merged[p], Reranked(Merged)[i], Merged)
                => \E j \in 1..Len(Reranked(Merged)) : Reranked(Merged)[j] = Merged[p] /\ j < i
         /\ Len(Merged) >= 1 /\ TopK >= 1 => Len(Reranked(Merged)) >= 1
         /\ Distinct(Reranked(Merged))
<1> DEFINE s == Merged
           r == Reranked(Merged)
<1>1. s \in Seq(Found) /\ Len(s) \in Nat /\ Distinct(s)
  BY MergedFacts
<1>2. PICK w \in Seq(Found) :
        /\ r = Upto(w, TopK) /\ Len(w) = Len(s)
        /\ \A i \in 1..Len(s) : \E k \in 1..Len(s) : w[k] = s[i]
        /\ \A k \in 1..Len(s) : \E i \in 1..Len(s) : w[k] = s[i]
        /\ \A k, l \in 1..Len(s) : Outranks(w[k], w[l], s) => k < l
        /\ Distinct(w)
  BY <1>1, RerankedIs
<1>3. TopK \in Nat
  BY EvidenceAssumption
<1> HIDE DEF s, r
<1>4. /\ r \in Seq(Found) /\ Len(r) = (IF TopK < Len(w) THEN TopK ELSE Len(w)) /\ Len(r) \in 0..Len(w)
      /\ \A i \in 1..Len(r) : r[i] = w[i]
      /\ Distinct(r)
  BY ZenonT(40), <1>2, <1>3, UptoIs
<1>5. Len(r) \in Nat /\ \A i \in 1..Len(r) : i \in 1..Len(s)
  BY <1>1, <1>2, <1>4
<1>6. ASSUME NEW i \in 1..Len(r) PROVE \E p \in 1..Len(s) : r[i] = s[p]
  BY <1>2, <1>4, <1>5
<1>7. ASSUME NEW i \in 1..Len(r), NEW p \in 1..Len(s), Outranks(s[p], r[i], s)
      PROVE  \E j \in 1..Len(r) : r[j] = s[p] /\ j < i
  <2>1. PICK k \in 1..Len(s) : w[k] = s[p]
    BY <1>2
  <2>2. Outranks(w[k], w[i], s) /\ i \in 1..Len(s)
    BY <1>4, <1>5, <1>7, <2>1
  <2>3. k < i
    BY <1>2, <2>2
  <2>4. k \in 1..Len(r)
    BY <1>1, <1>5, <2>3
  <2> QED BY <1>4, <2>1, <2>3, <2>4
<1>8. Len(s) >= 1 /\ TopK >= 1 => Len(r) >= 1
  BY <1>1, <1>2, <1>3, <1>4
<1> QED BY <1>4, <1>5, <1>6, <1>7, <1>8 DEF s, r

\* The merge and the reranking, put together.
LEMMA BetterComesFirst == EvidenceInv => BetterEverywhereComesFirst
<1> SUFFICES ASSUME EvidenceInv, step = "grade", NEW i \in DOMAIN cands, NEW c \in Found,
                    Beats(c, cands[i]), ~IsNamed(cands[i])
             PROVE  \E j \in 1..i - 1 : cands[j] = c
  BY DEF BetterEverywhereComesFirst
<1>1. ListsAreRanked /\ cands = Reranked(Merged)
  BY DEF EvidenceInv
<1> DEFINE x == cands[i]
<1>2. cands \in Seq(Found) /\ Len(cands) \in Nat /\ i \in 1..Len(cands)
  <2>1. cands \in Seq(Found) /\ Len(cands) \in Nat
    BY <1>1, RerankedFacts
  <2> QED BY <2>1, LenProperties
<1>3. PICK p \in 1..Len(Merged) : x = Merged[p]
  BY <1>1, <1>2, RerankedFacts
<1>4. Merged \in Seq(Found) /\ x \in Found
  BY <1>1, <1>3, MergedFacts
<1>5. Beats(c, x)
  OBVIOUS
<1> HIDE DEF x
<1>6. Fusion(c) > Fusion(x) /\ Weighted(c, Merged) > Weighted(x, Merged)
  BY <1>1, <1>4, <1>5, BeatsMore, BeatsWeighted
<1>7. PICK k \in 1..Len(Merged) : Merged[k] = c
  BY <1>1, <1>3, <1>6, MergedFacts
<1>8. Outranks(Merged[k], cands[i], Merged)
  BY <1>6, <1>7 DEF Outranks, x
<1>9. PICK j \in 1..Len(cands) : cands[j] = Merged[k] /\ j < i
  BY <1>1, <1>2, <1>8, RerankedFacts
<1>10. j \in 1..i - 1
  BY <1>2, <1>9
<1> QED BY <1>7, <1>9, <1>10

\* Fusion and reranking (merge.py, rerank.py) never put a chunk below one that every
\* search ranked behind it and scored lower, whatever the order of a list's scores, for
\* any weights and number of candidates.
THEOREM BetterChunksComeFirst == SpecE => []BetterEverywhereComesFirst
<1>1. EvidenceInv => BetterEverywhereComesFirst
  BY BetterComesFirst
<1> QED BY <1>1, EvidenceInvariant, PTL

-----------------------------------------------------------------------------

\* The default settings (config.py) and the retrievers: a hit of the vector search scores
\* no less than retrieval_score_threshold, the two searches weigh more than the metadata,
\* and the weight of either is no less than evidence_min_fusion_score.
SearchOutweighsMetadata ==
  /\ CandidateK >= 1 /\ TopK >= 1
  /\ \A score \in Scores : score >= 1 /\ score >= VectorMin
  /\ \A s \in {"vector", "keyword"} : Weight[s] > Weight["metadata"] /\ MinPercent <= 10 * Weight[s]

\* What the head of a list gets from it.
LEMMA HeadIsFound ==
  ASSUME ListsAreRanked, NEW s \in Sources, lists[s] # <<>>
  PROVE  /\ lists[s][1].chunk \in Found /\ 1 \in 1..ListMax
         /\ Share(lists[s][1].chunk, s) = Weight[s] * (Denominator \div (RrfK + 1))
<1> DEFINE l == lists[s]
           y == l[1].chunk
<1>1. l \in Seq([chunk : Chunks, score : Scores]) /\ DOMAIN l = 1..Len(l)
  BY ListFacts
<1>2. Len(l) \in Nat /\ Len(l) >= 1 /\ 1 \in 1..Len(l)
  <2>1. Len(l) \in Nat \ {0}
    BY <1>1, EmptySeq
  <2> QED BY <2>1
<1>3. y \in Chunks /\ 1 \in RankIn(y, s) /\ 1 \in 1..ListMax
  BY <1>1, <1>2, ListFacts DEF RankIn
<1>4. y \in Found
  BY <1>3 DEF Found
<1>5. Rank(y, s) \in 1..Len(l) /\ l[Rank(y, s)].chunk = y /\ Share(y, s) = Weight[s] * (Denominator \div (RrfK + Rank(y, s)))
  <2>1. RankIn(y, s) # {}
    BY <1>3
  <2> QED BY <2>1, RankFacts
<1>6. Rank(y, s) = 1
  <2>1. ~(1 < Rank(y, s))
    BY <1>2, <1>5, ListFacts
  <2> QED BY <1>2, <1>5, <2>1
<1> QED BY <1>3, <1>4, <1>5, <1>6

\* No share of a list is larger than that of its head.
LEMMA HeadHasMost ==
  ASSUME ListsAreRanked, NEW s \in Sources, NEW c, RankIn(c, s) # {}
  PROVE  Share(c, s) <= Weight[s] * (Denominator \div (RrfK + 1))
<1> DEFINE r == Rank(c, s)
           a == Denominator \div (RrfK + 1)
           b == Denominator \div (RrfK + r)
           w == Weight[s]
<1>1. r \in 1..ListMax /\ Share(c, s) = w * b /\ w \in Nat /\ ListMax \in Nat
  BY RankFacts, WeightIs, EvidenceAssumption
<1>2. CASE r = 1
  <2>1. w * a \in Int
    <3>1. a \in Int
      <4>1. RrfK \in Nat /\ Denominator \in Nat
        BY EvidenceAssumption
      <4>2. RrfK + 1 \in Nat \ {0}
        BY <4>1
      <4> QED BY <4>1, <4>2
    <3> HIDE DEF a, w
    <3> QED BY <1>1, <3>1
  <2>2. Share(c, s) = w * a
    BY <1>1, <1>2
  <2> QED BY <2>1, <2>2
<1>3. CASE r # 1
  <2>1. 1 \in 1..ListMax /\ 1 < r
    BY <1>1, <1>3
  <2>2. a \in Nat /\ b \in Nat /\ b < a
    BY <1>1, <2>1, LaterIsLess
  <2> HIDE DEF a, b, w
  <2>3. w * b <= w * a
    BY <1>1, <2>2
  <2> QED BY <1>1, <2>3 DEF a, w
<1> QED BY <1>2, <1>3

\* The best of the merge was found by one of the two searches, if anything was.
LEMMA FirstMergedWasSearched ==
  ASSUME ListsAreRanked, SearchOutweighsMetadata, NEW h \in {"vector", "keyword"}, lists[h] # <<>>
  PROVE  /\ Len(Merged) >= 1
         /\ \E s \in {"vector", "keyword"} : RankIn(Merged[1], s) # {}
<1> DEFINE y == lists[h][1].chunk
           z == Merged[1]
           a == Denominator \div (RrfK + 1)
<1>0. h \in Sources /\ "metadata" \in Sources /\ "vector" \in Sources /\ "keyword" \in Sources
  BY DEF Sources
<1>1. y \in Found /\ Share(y, h) = Weight[h] * a /\ 1 \in 1..ListMax
  BY <1>0, HeadIsFound
<1>2. Len(Merged) \in Nat /\ Len(Merged) >= 1 /\ z \in Found /\ 1 \in 1..Len(Merged)
  <2>1. Len(Merged) \in Nat /\ Len(Merged) >= 1
    BY <1>1, MergedFacts DEF SearchOutweighsMetadata
  <2>2. 1 \in 1..Len(Merged)
    BY <2>1
  <2> QED BY <2>1, <2>2, MergedFacts
<1>3. SUFFICES ASSUME RankIn(z, "vector") = {}, RankIn(z, "keyword") = {} PROVE FALSE
  BY <1>2
<1>4. RankIn(z, "metadata") # {}
  BY <1>2, <1>3 DEF Found, Sources
<1>5. a \in Nat /\ a >= 1
  <2>1. /\ Denominator \in Nat \ {0} /\ RrfK \in Nat /\ Denominator % (RrfK + 1) = 0
    BY <1>1, EvidenceAssumption
  <2>2. RrfK + 1 \in Nat \ {0}
    BY <2>1
  <2>3. a \in Nat \ {0}
    BY <2>1, <2>2, Quotient
  <2> QED BY <2>3
<1> DEFINE wm == Weight["metadata"]
           wh == Weight[h]
<1>6. wm \in Nat /\ wh \in Nat /\ wm < wh
  BY <1>0, WeightIs DEF SearchOutweighsMetadata
<1>7. Share(z, "metadata") <= wm * a /\ Share(z, "metadata") \in Nat
  BY <1>0, <1>4, HeadHasMost, ShareType
<1>8. Share(z, "vector") = 0 /\ Share(z, "keyword") = 0
  BY <1>0, <1>3, RankFacts
<1> HIDE DEF a, wm, wh, y, z
<1>9. wm * a < wh * a /\ wm * a \in Nat /\ wh * a \in Nat
  <2>1. wm * a < wh * a
    BY <1>5, <1>6
  <2> QED BY <1>5, <1>6, <2>1
<1>10. Fusion(z) = Share(z, "metadata")
  BY <1>7, <1>8 DEF Fusion
<1>11. Fusion(y) >= Share(y, h) /\ Share(y, h) \in Nat /\ Fusion(y) \in Nat
  <2>1. Share(y, "vector") \in Nat /\ Share(y, "keyword") \in Nat /\ Share(y, "metadata") \in Nat
    BY <1>0, ShareType
  <2>2. h = "vector" \/ h = "keyword"
    OBVIOUS
  <2> QED BY <2>1, <2>2 DEF Fusion
<1>12. Fusion(y) > Fusion(z)
  <2>1. Share(y, h) = wh * a
    BY <1>1 DEF y, wh
  <2> QED BY <1>7, <1>9, <1>10, <1>11, <2>1
<1>13. PICK j \in 1..Len(Merged) : j < 1
  BY <1>1, <1>2, <1>12, MergedFacts DEF y, z
<1> QED BY <1>2, <1>13

\* The best that any search gave the candidates, weighed, is reached by one of them.
LEMMA SomeReachTheTop ==
  ASSUME ListsAreRanked, SearchOutweighsMetadata, NEW s \in Sources, NEW m \in Seq(Found), Len(m) >= 1,
         RankIn(m[1], s) # {}
  PROVE  \E i \in 1..Len(m) : ScoreIn(m[i], s) = Top(s, m)
<1>1. Len(m) \in Nat /\ 1 \in 1..Len(m)
  BY LenProperties
<1>2. ScoreIn(m[1], s) \in Nat /\ ScoreIn(m[1], s) >= 1
  BY RankFacts DEF SearchOutweighsMetadata
<1>3. Top(s, m) \in Nat /\ ScoreIn(m[1], s) <= Top(s, m)
  BY <1>1, TopIs
<1>4. CASE Top(s, m) = 1
  BY <1>1, <1>2, <1>3, <1>4
<1>5. CASE Top(s, m) # 1
  BY <1>5, TopIs
<1> QED BY <1>4, <1>5

\* The full weight of one search, in the units of Whole.
Full(s) == Top("vector", s) * Top("keyword", s) * Top("metadata", s)

\* It is positive, and a tenth of Whole.
LEMMA FullIs ==
  ASSUME ListsAreRanked, NEW s \in Seq(Found)
  PROVE  /\ Full(s) \in Nat /\ Full(s) >= 1 /\ Whole(s) = 10 * Full(s)
         /\ Term(Weight["vector"], Top("vector", s), Top("keyword", s), Top("metadata", s)) = Weight["vector"] * Full(s)
         /\ Term(Weight["keyword"], Top("keyword", s), Top("vector", s), Top("metadata", s)) = Weight["keyword"] * Full(s)
         /\ Term(Weight["metadata"], Top("metadata", s), Top("vector", s), Top("keyword", s)) = Weight["metadata"] * Full(s)
<1> DEFINE v == Top("vector", s)
           k == Top("keyword", s)
           m == Top("metadata", s)
<1>1. /\ v \in Nat /\ k \in Nat /\ m \in Nat /\ v >= 1 /\ k >= 1 /\ m >= 1
      /\ Weight["vector"] \in Nat /\ Weight["keyword"] \in Nat /\ Weight["metadata"] \in Nat
  BY TopIs, WeightIs DEF Sources
<1>2. Full(s) = v * k * m /\ Whole(s) = 10 * v * k * m
  BY DEF Full, Whole
<1> HIDE DEF v, k, m
<1>3. \A x, y, z \in Nat : x * y \in Nat /\ x * y = y * x /\ (x * y) * z = x * (y * z) /\ (x >= 1 /\ y >= 1 => x * y >= 1)
  OBVIOUS
<1>4. v * k \in Nat /\ v * k >= 1 /\ k * v = v * k
  BY <1>1, <1>3
<1>5. v * k * m \in Nat /\ v * k * m >= 1
  BY <1>1, <1>3, <1>4
<1>6. 10 * v * k * m = 10 * (v * k * m)
  <2>1. 10 * v \in Nat /\ 10 * v * k = 10 * (v * k)
    BY <1>1, <1>3
  <2>2. 10 * (v * k) * m = 10 * ((v * k) * m)
    BY <1>1, <1>3, <1>4
  <2> QED BY <2>1, <2>2
<1>7. ASSUME NEW w \in Nat
      PROVE  /\ Term(w, v, k, m) = w * (v * k * m)
             /\ Term(w, k, v, m) = w * (v * k * m)
             /\ Term(w, m, v, k) = w * (v * k * m)
  <2>1. w * v * k * m = w * (v * k * m)
    <3>1. w * v * k = w * (v * k)
      BY <1>1, <1>3
    <3>2. w * (v * k) * m = w * ((v * k) * m)
      BY <1>1, <1>3, <1>4
    <3> QED BY <3>1, <3>2
  <2>2. w * k * v * m = w * (v * k * m)
    <3>1. w * k * v = w * (k * v)
      BY <1>1, <1>3
    <3>2. w * (v * k) * m = w * ((v * k) * m)
      BY <1>1, <1>3, <1>4
    <3> QED BY <1>4, <3>1, <3>2
  <2>3. w * m * v * k = w * (v * k * m)
    <3>1. w * m \in Nat /\ (w * m) * v * k = (w * m) * (v * k)
      BY <1>1, <1>3
    <3>2. (w * m) * (v * k) = w * (m * (v * k))
      BY <1>1, <1>3, <1>4
    <3>3. m * (v * k) = v * k * m
      BY <1>1, <1>3, <1>4
    <3> QED BY <3>1, <3>2, <3>3
  <2> QED BY <2>1, <2>2, <2>3 DEF Term
<1> QED BY <1>1, <1>2, <1>5, <1>6, <1>7 DEF v, k, m

\* A chunk that reaches the best score of a search gets the full weight of that search.
LEMMA TopScoreWeighs ==
  ASSUME ListsAreRanked, NEW c, NEW m \in Seq(Found), NEW s \in {"vector", "keyword"}, ScoreIn(c, s) = Top(s, m)
  PROVE  Weighted(c, m) \in Nat /\ Weighted(c, m) >= Weight[s] * Full(m)
<1> DEFINE tv == Term(Weight["vector"], ScoreIn(c, "vector"), Top("keyword", m), Top("metadata", m))
           tk == Term(Weight["keyword"], ScoreIn(c, "keyword"), Top("vector", m), Top("metadata", m))
           tm == Term(Weight["metadata"], ScoreIn(c, "metadata"), Top("vector", m), Top("keyword", m))
<1>1. Weighted(c, m) = tv + tk + tm /\ tv \in Nat /\ tk \in Nat /\ tm \in Nat /\ Weighted(c, m) \in Nat
  BY WeightedIs
<1>2. s = "vector" => tv = Weight[s] * Full(m)
  BY FullIs
<1>3. s = "keyword" => tk = Weight[s] * Full(m)
  BY FullIs
<1> HIDE DEF tv, tk, tm
<1>4. CASE s = "vector"
  BY <1>1, <1>2, <1>4
<1>5. CASE s = "keyword"
  BY <1>1, <1>3, <1>5
<1> QED BY <1>4, <1>5

\* A chunk that neither search found gets no more than the weight of the metadata.
LEMMA MetadataWeighsLess ==
  ASSUME ListsAreRanked, NEW m \in Seq(Found), NEW i \in 1..Len(m),
         ScoreIn(m[i], "vector") = 0, ScoreIn(m[i], "keyword") = 0
  PROVE  Weighted(m[i], m) <= Weight["metadata"] * Full(m)
<1> DEFINE c == m[i]
           v == Top("vector", m)
           k == Top("keyword", m)
           t == Top("metadata", m)
           tv == Term(Weight["vector"], ScoreIn(c, "vector"), k, t)
           tk == Term(Weight["keyword"], ScoreIn(c, "keyword"), v, t)
           tm == Term(Weight["metadata"], ScoreIn(c, "metadata"), v, k)
<1>1. Weighted(c, m) = tv + tk + tm /\ tv \in Nat /\ tk \in Nat /\ tm \in Nat
  BY WeightedIs
<1>2. /\ v \in Nat /\ k \in Nat /\ t \in Nat /\ v >= 1 /\ k >= 1 /\ ScoreIn(c, "metadata") <= t
      /\ Weight["vector"] \in Nat /\ Weight["keyword"] \in Nat
      /\ Weight["metadata"] \in Nat /\ Weight["metadata"] >= 1 /\ ScoreIn(c, "metadata") \in Nat
  BY TopIs, WeightIs, RankFacts DEF Sources
<1>3. tv = 0 /\ tk = 0
  <2>1. ScoreIn(c, "vector") = 0 /\ ScoreIn(c, "keyword") = 0
    OBVIOUS
  <2> HIDE DEF c, v, k, t
  <2>2. \A w, p, q \in Nat : w * 0 * p * q = 0
    <3>1. \A w \in Nat : w * 0 = 0 /\ 0 * w = 0
      OBVIOUS
    <3> QED BY <3>1
  <2> QED BY <1>2, <2>1, <2>2 DEF Term
<1>4. tm <= Term(Weight["metadata"], t, v, k)
  <2> HIDE DEF c, v, k, t
  <2> QED BY <1>2, TermGrows
<1>5. Term(Weight["metadata"], t, v, k) = Weight["metadata"] * Full(m)
  BY FullIs
<1> HIDE DEF tv, tk, tm
<1>6. Weighted(c, m) = tm
  BY <1>1, <1>3
<1> QED BY <1>4, <1>5, <1>6

\* What was rejected as weak was overtaken by a file the question names.
LEMMA RejectedWasOvertaken == ASSUME SearchOutweighsMetadata PROVE EvidenceInv => RejectedEvidenceWasOvertaken
<1> SUFFICES ASSUME EvidenceInv, path = "grounded", step = "abstained",
                    lists["vector"] # <<>> \/ lists["keyword"] # <<>>, ~IsNamed(cands[1])
             PROVE  FALSE
  BY DEF RejectedEvidenceWasOvertaken
<1> DEFINE m == Merged
           x == cands[1]
           F == Full(m)
<1>1. /\ ListsAreRanked /\ cands = Reranked(m)
      /\ cands = <<>> \/ TopIsWeak(cands, m) \/ SignalsAreWeak(cands)
  BY DEF EvidenceInv
<1>2. m \in Seq(Found) /\ Len(m) \in Nat
  BY <1>1, MergedFacts
<1>3. PICK h \in {"vector", "keyword"} : lists[h] # <<>>
  OBVIOUS
<1>4. Len(m) >= 1 /\ \E s \in {"vector", "keyword"} : RankIn(m[1], s) # {}
  BY <1>1, <1>3, FirstMergedWasSearched
<1>5. PICK s \in {"vector", "keyword"} : RankIn(m[1], s) # {}
  BY <1>4
<1>6. PICK p \in 1..Len(m) : ScoreIn(m[p], s) = Top(s, m)
  BY <1>1, <1>2, <1>4, <1>5, SomeReachTheTop DEF Sources
<1>7. /\ F \in Nat /\ F >= 1 /\ Whole(m) = 10 * F
      /\ Weight[s] \in Nat /\ Weight["metadata"] \in Nat /\ Weight["metadata"] < Weight[s]
      /\ MinPercent \in Nat /\ MinPercent <= 10 * Weight[s]
  BY <1>1, <1>2, FullIs, WeightIs, EvidenceAssumption DEF SearchOutweighsMetadata, Sources
<1>8. cands \in Seq(Found) /\ Len(cands) \in Nat /\ Len(cands) >= 1 /\ 1 \in 1..Len(cands) /\ DOMAIN cands = 1..Len(cands)
  <2>1. cands \in Seq(Found) /\ Len(cands) \in Nat /\ Len(cands) >= 1
    BY <1>1, <1>4, RerankedFacts DEF SearchOutweighsMetadata
  <2>2. 1 \in 1..Len(cands)
    BY <2>1
  <2> QED BY <2>1, <2>2, LenProperties
<1>9. cands # <<>>
  BY <1>8
<1>10. PICK r \in 1..Len(m) : x = m[r]
  BY <1>1, <1>8, RerankedFacts
<1>11. ~(Weighted(m[p], m) > Weighted(x, m))
  <2>1. ASSUME Outranks(m[p], x, m) PROVE FALSE
    <3>1. PICK j \in 1..Len(cands) : j < 1
      BY <1>1, <1>8, <2>1, RerankedFacts
    <3> QED BY <1>8, <3>1
  <2> QED BY <2>1 DEF Outranks
<1> HIDE DEF F, x, m
<1>12. Weighted(x, m) \in Nat /\ Weighted(x, m) >= Weight[s] * F /\ Weight[s] * F \in Nat
  <2>1. Weighted(m[p], m) \in Nat /\ Weighted(m[p], m) >= Weight[s] * F
    BY <1>1, <1>2, <1>6, TopScoreWeighs DEF F
  <2>2. Weighted(x, m) \in Nat
    BY <1>1, <1>2, WeightedIs
  <2>3. Weight[s] * F \in Nat
    BY <1>7
  <2> QED BY <1>11, <2>1, <2>2, <2>3
<1>13. ~TopIsWeak(cands, m)
  <2> DEFINE w == Weight[s]
             X == Weighted(x, m)
  <2>1. TopIsWeak(cands, m) <=> 100 * X < MinPercent * Whole(m)
    BY DEF TopIsWeak, x
  <2>2. w \in Nat /\ X \in Nat /\ X >= w * F /\ F \in Nat /\ MinPercent \in Nat /\ MinPercent <= 10 * w /\ Whole(m) = 10 * F
    BY <1>7, <1>12
  <2> HIDE DEF w, X
  <2>3. MinPercent * (10 * F) <= (10 * w) * (10 * F)
    <3>1. \A a, b, c \in Nat : a <= b => a * c <= b * c
      OBVIOUS
    <3>2. 10 * F \in Nat /\ 10 * w \in Nat
      BY <2>2
    <3> QED BY <2>2, <3>1, <3>2
  <2>4. (10 * w) * (10 * F) = 100 * (w * F)
    BY <2>2
  <2>5. 100 * (w * F) <= 100 * X /\ w * F \in Nat /\ MinPercent * (10 * F) \in Nat
    BY <2>2
  <2>6. ~(100 * X < MinPercent * (10 * F))
    BY <2>2, <2>3, <2>4, <2>5
  <2> QED BY <2>1, <2>2, <2>6
<1>14. ~SignalsAreWeak(cands)
  <2> SUFFICES ASSUME SignalsAreWeak(cands) PROVE FALSE
    OBVIOUS
  <2>1. ScoreIn(x, "vector") < VectorMin /\ ScoreIn(x, "keyword") = 0
    BY <1>8 DEF SignalsAreWeak, x
  <2>2. ScoreIn(x, "vector") = 0
    <3>1. CASE RankIn(x, "vector") = {}
      BY <1>1, <3>1, RankFacts DEF Sources
    <3>2. CASE RankIn(x, "vector") # {}
      <4>1. ScoreIn(x, "vector") \in Scores /\ ScoreIn(x, "vector") \in Nat
        BY <1>1, <3>2, RankFacts DEF Sources
      <4>2. VectorMin \in Nat
        BY EvidenceAssumption
      <4> QED BY <2>1, <4>1, <4>2 DEF SearchOutweighsMetadata
    <3> QED BY <3>1, <3>2
  <2>3. Weighted(x, m) <= Weight["metadata"] * F
    BY <1>1, <1>2, <1>10, <2>1, <2>2, MetadataWeighsLess DEF F
  <2>4. Weight["metadata"] * F < Weight[s] * F
    <3> DEFINE a == Weight["metadata"]
               b == Weight[s]
    <3>1. a \in Nat /\ b \in Nat /\ a < b /\ F \in Nat /\ F >= 1
      BY <1>7
    <3> HIDE DEF a, b
    <3>2. a * F < b * F
      BY <3>1
    <3> QED BY <3>2 DEF a, b
  <2>5. Weight["metadata"] * F \in Nat
    BY <1>7
  <2> QED BY <1>12, <2>3, <2>4, <2>5
<1> QED BY <1>1, <1>9, <1>13, <1>14

\* Under settings like the default ones, what vector or keyword search found is rejected
\* (grade_evidence) only if a file the question names took the first place (rerank.py).
THEOREM OnlyANamedFileOvertakes ==
  ASSUME SearchOutweighsMetadata
  PROVE  SpecE => []RejectedEvidenceWasOvertaken
<1>1. EvidenceInv => RejectedEvidenceWasOvertaken
  BY RejectedWasOvertaken
<1> QED BY <1>1, EvidenceInvariant, PTL

-----------------------------------------------------------------------------
(* Rearranging a sequence. *)

\* p puts at each of n places a position of its own, and leaves none out.
Rearranges(p, n) ==
  /\ p \in [1..n -> 1..n]
  /\ \A i \in 1..n : \E k \in 1..n : p[k] = i
  /\ \A k, l \in 1..n : p[k] = p[l] => k = l

\* The positions S before the others, each kind as it stands.
GoesFirst(S, i, j) == (i \in S /\ j \notin S) \/ ((i \in S <=> j \in S) /\ i < j)

\* p rearranges s to w, the positions S first.
Regroups(p, s, S, w) ==
  /\ Rearranges(p, Len(s)) /\ w = [k \in 1..Len(s) |-> s[p[k]]]
  /\ \A k, l \in 1..Len(s) : k < l <=> GoesFirst(S, p[k], p[l])

\* A list taken apart and put together again.
LEMMA Regrouped ==
  ASSUME NEW T, NEW s \in Seq(T), NEW S \in SUBSET (1..Len(s))
  PROVE  \E p : Regroups(p, s, S, InOrder(s, S) \o InOrder(s, (1..Len(s)) \ S))
<1> DEFINE n == Len(s)
           C == (1..n) \ S
           a == Cardinality(S)
           b == Cardinality(C)
<1>1. n \in Nat /\ \A i \in 1..n : s[i] \in T
  BY LenProperties, ElementOfSeq
<1>2. IsFiniteSet(1..n) /\ Cardinality(1..n) = n
  <2>1. 1 \in Int /\ n \in Int
    BY <1>1
  <2>2. IsFiniteSet(1..n) /\ Cardinality(1..n) = IF 1 > n THEN 0 ELSE n - 1 + 1
    BY <2>1, FS_Interval
  <2> QED BY <1>1, <2>2
<1>3. /\ IsFiniteSet(S) /\ IsFiniteSet(C) /\ S \in SUBSET Nat /\ C \in SUBSET Nat
      /\ a \in Nat /\ b \in Nat /\ a + b = n
  <2>1. IsFiniteSet(S) /\ IsFiniteSet(C)
    BY <1>2, FS_Subset
  <2>2. a \in Nat /\ b \in Nat
    BY <2>1, FS_CardinalityType
  <2>5. Cardinality((1..n) \ S) = Cardinality(1..n) - Cardinality((1..n) \cap S)
    BY <1>2, FS_Difference
  <2>6. (1..n) \cap S = S
    OBVIOUS
  <2>3. b = n - a
    BY <1>2, <2>5, <2>6
  <2>4. S \in SUBSET Nat /\ C \in SUBSET Nat
    <3>1. \A i \in 1..n : i \in Nat
      BY <1>1
    <3> QED BY <3>1
  <2> QED BY <1>1, <2>1, <2>2, <2>3, <2>4
<1>4. \A i \in 1..n : i \in C <=> i \notin S
  OBVIOUS
<1>5. C \in SUBSET (1..n)
  OBVIOUS
<1> HIDE DEF n, C, a, b
<1>p1. PICK p1 : Lists(p1, s, S)
  BY <1>3, InOrderIs
<1>6. /\ p1 \in [1..a -> S]
      /\ InOrder(s, S) = [k \in 1..a |-> s[p1[k]]]
      /\ \A i \in S : \E k \in 1..a : p1[k] = i
      /\ \A k, l \in 1..a : k < l <=> p1[k] < p1[l]
  BY <1>p1 DEF Lists, a
<1>p2. PICK p2 : Lists(p2, s, C)
  BY <1>3, InOrderIs
<1>7. /\ p2 \in [1..b -> C]
      /\ InOrder(s, C) = [k \in 1..b |-> s[p2[k]]]
      /\ \A i \in C : \E k \in 1..b : p2[k] = i
      /\ \A k, l \in 1..b : k < l <=> p2[k] < p2[l]
  BY <1>p2 DEF Lists, b
<1> DEFINE u == [k \in 1..a |-> s[p1[k]]]
           v == [k \in 1..b |-> s[p2[k]]]
           p == [k \in 1..n |-> IF k <= a THEN p1[k] ELSE p2[k - a]]
<1>8. ASSUME NEW k \in 1..a PROVE p1[k] \in S /\ p1[k] \in 1..n
  BY <1>6 DEF n
<1>9. ASSUME NEW k \in 1..b PROVE p2[k] \in C /\ p2[k] \in 1..n /\ p2[k] \notin S
  BY <1>4, <1>5, <1>7
<1>10. u \in Seq(T) /\ Len(u) = a /\ v \in Seq(T) /\ Len(v) = b
  <2>1. u \in [1..a -> T] /\ v \in [1..b -> T]
    BY <1>1, <1>8, <1>9
  <2> HIDE DEF u, v
  <2> QED BY <1>3, <2>1, FunctionIsSequence
<1>11. u \o v = [k \in 1..n |-> s[p[k]]]
  <2>1. u \o v \in Seq(T) /\ Len(u \o v) = a + b
        /\ \A k \in 1..a + b : (u \o v)[k] = IF k <= a THEN u[k] ELSE v[k - a]
    <3> HIDE DEF u, v
    <3> QED BY <1>10, ConcatProperties
  <2>2. u \o v \in [1..n -> T]
    <3> HIDE DEF u, v
    <3>1. u \o v \in [1..Len(u \o v) -> T]
      BY <2>1, LenProperties
    <3> QED BY <1>3, <2>1, <3>1
  <2>3. ASSUME NEW k \in 1..n PROVE (u \o v)[k] = s[p[k]]
    <3>1. k <= a => k \in 1..a
      BY <1>3
    <3>2. ~(k <= a) => k - a \in 1..b
      BY <1>3
    <3>3. k \in 1..a + b
      BY <1>3
    <3> HIDE DEF n
    <3>4. k <= a => (u \o v)[k] = s[p1[k]]
      BY <2>1, <3>1, <3>3
    <3>5. ~(k <= a) => (u \o v)[k] = s[p2[k - a]]
      BY <2>1, <3>2, <3>3
    <3> QED BY <3>4, <3>5
  <2> HIDE DEF u, v, p
  <2> QED BY <2>2, <2>3
<1>12. ASSUME NEW k \in 1..n
       PROVE  /\ k <= a => k \in 1..a /\ p[k] = p1[k] /\ p[k] \in S
              /\ ~(k <= a) => k - a \in 1..b /\ p[k] = p2[k - a] /\ p[k] \notin S
              /\ p[k] \in 1..n
  <2>1. k <= a => k \in 1..a
    BY <1>3
  <2>2. ~(k <= a) => k - a \in 1..b
    BY <1>3
  <2> QED BY <1>8, <1>9, <2>1, <2>2
<1>13. ASSUME NEW i \in 1..n PROVE \E k \in 1..n : p[k] = i
  <2>1. CASE i \in S
    <3>1. PICK k \in 1..a : p1[k] = i
      BY <1>6, <2>1
    <3>2. k \in 1..n /\ k <= a
      BY <1>3
    <3> QED BY <1>12, <3>1, <3>2
  <2>2. CASE i \notin S
    <3>1. i \in C
      BY <1>4, <2>2
    <3>2. PICK k \in 1..b : p2[k] = i
      BY <1>7, <3>1
    <3>3. k + a \in 1..n /\ ~(k + a <= a) /\ (k + a) - a = k
      BY <1>3
    <3> QED BY <1>12, <3>2, <3>3
  <2> QED BY <2>1, <2>2
<1> HIDE DEF p, u, v
<1>14. ASSUME NEW k \in 1..n, NEW l \in 1..n PROVE k < l <=> GoesFirst(S, p[k], p[l])
  <2>0. k \in Int /\ l \in Int /\ a \in Int
    BY <1>1, <1>3
  <2>1. CASE k <= a /\ l <= a
    <3>1. k < l <=> p1[k] < p1[l]
      BY <1>6, <1>12, <2>1
    <3> QED BY <1>12, <2>1, <3>1 DEF GoesFirst
  <2>2. CASE k <= a /\ ~(l <= a)
    <3>1. k < l
      BY <2>0, <2>2
    <3> QED BY <1>12, <2>2, <3>1 DEF GoesFirst
  <2>3. CASE ~(k <= a) /\ l <= a
    <3>1. ~(k < l)
      BY <2>0, <2>3
    <3> QED BY <1>12, <2>3, <3>1 DEF GoesFirst
  <2>4. CASE ~(k <= a) /\ ~(l <= a)
    <3>1. k - a < l - a <=> p2[k - a] < p2[l - a]
      BY <1>7, <1>12, <2>4
    <3>2. k - a < l - a <=> k < l
      BY <2>0
    <3> QED BY <1>12, <2>4, <3>1, <3>2 DEF GoesFirst
  <2> QED BY <2>1, <2>2, <2>3, <2>4
<1>15. ASSUME NEW k \in 1..n, NEW l \in 1..n, p[k] = p[l] PROVE k = l
  <2>1. p[k] \in Int /\ k \in Int /\ l \in Int
    BY <1>1, <1>12
  <2>2. ~(k < l) /\ ~(l < k)
    BY <1>14, <1>15, <2>1 DEF GoesFirst
  <2> QED BY <2>1, <2>2
<1>16. p \in [1..n -> 1..n]
  BY <1>12 DEF p
<1>17. InOrder(s, S) \o InOrder(s, C) = [k \in 1..n |-> s[p[k]]]
  BY <1>6, <1>7, <1>11 DEF u, v
<1>18. Regroups(p, s, S, InOrder(s, S) \o InOrder(s, C))
  BY <1>13, <1>14, <1>15, <1>16, <1>17 DEF Regroups, Rearranges, n
<1> QED BY <1>18 DEF C, n

\* Only the identity rearranges without changing the order.
LEMMA IncreasingIsIdentity ==
  ASSUME NEW n \in Nat, NEW q, Rearranges(q, n), \A k, l \in 1..n : k < l => q[k] < q[l]
  PROVE  \A k \in 1..n : q[k] = k
<1> DEFINE T == {k \in 1..n : q[k] # k}
<1>1. SUFFICES ASSUME T # {} PROVE FALSE
  OBVIOUS
<1>2. T \in SUBSET Nat
  OBVIOUS
<1>3. PICK m \in T : \A k \in T : m <= k
  <2> HIDE DEF T
  <2> QED BY <1>1, <1>2, LeastNat
<1>4. m \in 1..n /\ q[m] # m /\ \A k \in 1..n : q[k] # k => m <= k
  BY <1>3
<1> HIDE DEF T
<1>5. \A k \in 1..n : q[k] \in 1..n
  BY DEF Rearranges
<1>6. PICK l \in 1..n : q[l] = m
  BY <1>4 DEF Rearranges
<1>7. l # m /\ l \in Nat /\ m \in Nat /\ q[m] \in Nat
  BY <1>4, <1>5, <1>6
<1>8. ~(l < m)
  <2> SUFFICES ASSUME l < m PROVE FALSE
    OBVIOUS
  <2>1. q[l] = l
    BY <1>4, <1>7
  <2> QED BY <1>6, <1>7, <2>1
<1>9. m < l
  BY <1>7, <1>8
<1>10. q[m] < m
  BY <1>4, <1>6, <1>9
<1>11. q[m] \in 1..n /\ q[q[m]] = q[m]
  BY <1>4, <1>5, <1>7, <1>10
<1>12. q[m] = m
  BY <1>4, <1>11 DEF Rearranges
<1> QED BY <1>4, <1>12

\* One rearrangement after another.
LEMMA RearrangesTwice ==
  ASSUME NEW n \in Nat, NEW p, Rearranges(p, n), NEW r, Rearranges(r, n)
  PROVE  Rearranges([k \in 1..n |-> p[r[k]]], n)
<1> DEFINE q == [k \in 1..n |-> p[r[k]]]
<1>1. /\ \A k \in 1..n : r[k] \in 1..n /\ p[k] \in 1..n
      /\ \A k \in 1..n : q[k] = p[r[k]]
  BY DEF Rearranges
<1>2. q \in [1..n -> 1..n]
  BY <1>1
<1> HIDE DEF q
<1>3. \A i \in 1..n : \E k \in 1..n : q[k] = i
  <2> SUFFICES ASSUME NEW i \in 1..n PROVE \E k \in 1..n : q[k] = i
    OBVIOUS
  <2>1. PICK j \in 1..n : p[j] = i
    BY DEF Rearranges
  <2>2. PICK k \in 1..n : r[k] = j
    BY DEF Rearranges
  <2> QED BY <1>1, <2>1, <2>2
<1>4. ASSUME NEW k \in 1..n, NEW l \in 1..n, q[k] = q[l] PROVE k = l
  <2>1. r[k] \in 1..n /\ r[l] \in 1..n /\ p[r[k]] = p[r[l]]
    BY <1>1, <1>4
  <2>2. \A i, j \in 1..n : p[i] = p[j] => i = j
    BY DEF Rearranges
  <2>3. r[k] = r[l]
    BY <2>1, <2>2
  <2> QED BY <2>3 DEF Rearranges
<1>5. Rearranges(q, n)
  BY <1>2, <1>3, <1>4 DEF Rearranges
<1> QED BY <1>5 DEF q

-----------------------------------------------------------------------------
(* What a prompt takes from its passages. *)

Passages == [chunk : Chunks, len : Nat, score : Nat]

FileAt(s, i) == FileOf[s[i].chunk]

\* The positions of the first passage of each file, and those of the named files.
Firsts(s) == {i \in 1..Len(s) : \A j \in 1..i - 1 : FileAt(s, j) # FileAt(s, i)}
NamedAt(s) == {i \in 1..Len(s) : IsNamed(s[i].chunk)}

\* The order of a prompt whose passages all score the same.
Before(s, i, j) ==
  \/ i \in Firsts(s) /\ j \notin Firsts(s)
  \/ (i \in Firsts(s) <=> j \in Firsts(s)) /\ GoesFirst(NamedAt(s), i, j)

EvenScores(s) == \A i \in 1..Len(s) : s[i].score = 1

\* The named files first.
LEMMA PrioritizedIs ==
  ASSUME NEW s \in Seq(Passages)
  PROVE  \E p : /\ Rearranges(p, Len(s)) /\ Prioritized(s) = [k \in 1..Len(s) |-> s[p[k]]]
                /\ \A k, l \in 1..Len(s) : k < l <=> GoesFirst(NamedAt(s), p[k], p[l])
<1>1. DOMAIN s = 1..Len(s)
  BY LenProperties
<1>2. NamedAt(s) \in SUBSET (1..Len(s))
  BY DEF NamedAt
<1>3. Prioritized(s) = InOrder(s, NamedAt(s)) \o InOrder(s, (1..Len(s)) \ NamedAt(s))
  BY <1>1 DEF Prioritized, NamedAt
<1>4. PICK p : Regroups(p, s, NamedAt(s), Prioritized(s))
  BY <1>2, <1>3, Regrouped
<1> QED BY <1>4 DEF Regroups

\* The files first that compete; if all passages score the same, each file's first passage.
LEMMA DiverseIs ==
  ASSUME NEW s \in Seq(Passages)
  PROVE  \E p : /\ Rearranges(p, Len(s)) /\ Diverse(s) = [k \in 1..Len(s) |-> s[p[k]]]
                /\ EvenScores(s) =>
                     \A k, l \in 1..Len(s) : k < l <=> GoesFirst(Firsts(s), p[k], p[l])
<1> DEFINE Repeat(i) == \E j \in 1..i - 1 : FileOf[s[j].chunk] = FileOf[s[i].chunk]
           Competes(i) == \A d \in 1..i - 1 :
                            Repeat(d) /\ (\A e \in 1..d - 1 : ~Repeat(e)) => 10 * s[i].score >= 9 * s[d].score
           firsts == {i \in DOMAIN s : ~Repeat(i) /\ Competes(i)}
<1>1. DOMAIN s = 1..Len(s) /\ Len(s) \in Nat
  BY LenProperties
<1>2. firsts \in SUBSET (1..Len(s))
  BY <1>1
<1>3. Diverse(s) = InOrder(s, firsts) \o InOrder(s, (1..Len(s)) \ firsts)
  BY <1>1 DEF Diverse
<1>4. ASSUME EvenScores(s) PROVE firsts = Firsts(s)
  <2>1. ASSUME NEW i \in 1..Len(s) PROVE Competes(i)
    <3> SUFFICES ASSUME NEW d \in 1..i - 1 PROVE 10 * s[i].score >= 9 * s[d].score
      OBVIOUS
    <3>1. d \in 1..Len(s)
      BY <1>1
    <3>2. s[i].score = 1 /\ s[d].score = 1
      BY <1>4, <3>1 DEF EvenScores
    <3> QED BY <3>2
  <2>2. \A i \in 1..Len(s) : ~Repeat(i) <=> \A j \in 1..i - 1 : FileAt(s, j) # FileAt(s, i)
    BY DEF FileAt
  <2> HIDE DEF Competes, Repeat
  <2> QED BY <1>1, <2>1, <2>2 DEF Firsts
<1> HIDE DEF firsts
<1>5. PICK p : Regroups(p, s, firsts, Diverse(s))
  BY <1>2, <1>3, Regrouped
<1> QED BY <1>4, <1>5 DEF Regroups

\* What a prompt is selected from, and its order when all passages score the same.
LEMMA ArrangedIs ==
  ASSUME NEW s \in Seq(Passages)
  PROVE  \E q : /\ Rearranges(q, Len(s)) /\ Diverse(Prioritized(s)) = [k \in 1..Len(s) |-> s[q[k]]]
                /\ EvenScores(s) => \A k, l \in 1..Len(s) : k < l <=> Before(s, q[k], q[l])
<1> DEFINE n == Len(s)
           u == Prioritized(s)
<1>1. n \in Nat /\ \A i \in 1..n : s[i] \in Passages
  BY LenProperties, ElementOfSeq
<1>2. PICK p : /\ Rearranges(p, n) /\ u = [k \in 1..n |-> s[p[k]]]
               /\ \A k, l \in 1..n : k < l <=> GoesFirst(NamedAt(s), p[k], p[l])
  BY PrioritizedIs
<1> HIDE DEF n, u
<1>3. /\ \A k \in 1..n : p[k] \in 1..n /\ u[k] = s[p[k]]
      /\ \A i \in 1..n : \E k \in 1..n : p[k] = i
  BY <1>2 DEF Rearranges
<1>4. u \in Seq(Passages) /\ Len(u) = n
  <2>1. u \in [1..n -> Passages]
    BY <1>1, <1>2, <1>3
  <2> QED BY <1>1, <2>1, FunctionIsSequence
<1>5. PICK r : /\ Rearranges(r, n) /\ Diverse(u) = [k \in 1..n |-> u[r[k]]]
               /\ EvenScores(u) => \A k, l \in 1..n : k < l <=> GoesFirst(Firsts(u), r[k], r[l])
  BY <1>4, DiverseIs
<1>6. \A k \in 1..n : r[k] \in 1..n
  BY <1>5 DEF Rearranges
<1> DEFINE q == [k \in 1..n |-> p[r[k]]]
<1>7. Rearranges(q, n)
  BY <1>1, <1>2, <1>5, RearrangesTwice
<1>8. \A k \in 1..n : q[k] = p[r[k]] /\ q[k] \in 1..n
  BY <1>3, <1>6
<1> HIDE DEF q
<1>9. Diverse(u) = [k \in 1..n |-> s[q[k]]]
  <2>1. \A k \in 1..n : u[r[k]] = s[q[k]]
    BY <1>3, <1>6, <1>8
  <2> QED BY <1>5, <2>1
<1>10. ASSUME EvenScores(s) PROVE EvenScores(u)
  <2>1. \A i \in 1..n : s[i].score = 1
    BY <1>10 DEF EvenScores, n
  <2>2. ASSUME NEW k \in 1..n PROVE u[k].score = 1
    <3>1. p[k] \in 1..n /\ u[k] = s[p[k]]
      BY <1>3
    <3> QED BY <2>1, <3>1
  <2> QED BY <1>4, <2>2 DEF EvenScores
\* A passage is the first of its file among the named ones first, if it was before.
<1>11. ASSUME NEW i \in 1..n PROVE i \in Firsts(u) <=> p[i] \in Firsts(s)
  <2>1. \A j \in 1..n : FileAt(u, j) = FileAt(s, p[j])
    BY <1>3 DEF FileAt
  <2>2. ASSUME NEW j \in 1..n, NEW k \in 1..n, FileAt(s, j) = FileAt(s, k)
        PROVE  j \in NamedAt(s) <=> k \in NamedAt(s)
    BY <2>2 DEF NamedAt, IsNamed, FileAt, n
  <2>3. ASSUME NEW j \in 1..n, FileAt(s, p[j]) = FileAt(s, p[i]) PROVE j < i <=> p[j] < p[i]
    <3>1. p[j] \in NamedAt(s) <=> p[i] \in NamedAt(s)
      BY <1>3, <2>2, <2>3
    <3> QED BY <1>2, <3>1 DEF GoesFirst
  <2>4. i \in Firsts(u) <=> \A j \in 1..n : j < i => FileAt(s, p[j]) # FileAt(s, p[i])
    <3>1. \A j \in 1..n : j < i <=> j \in 1..i - 1
      BY <1>1
    <3>2. \A j \in 1..i - 1 : j \in 1..n
      BY <1>1
    <3> QED BY <1>4, <2>1, <3>1, <3>2 DEF Firsts
  <2>5. p[i] \in Firsts(s) <=> \A j \in 1..n : j < p[i] => FileAt(s, j) # FileAt(s, p[i])
    <3>0. p[i] \in 1..n
      BY <1>3
    <3>1. \A j \in 1..n : j < p[i] <=> j \in 1..p[i] - 1
      BY <1>1, <3>0
    <3>2. \A j \in 1..p[i] - 1 : j \in 1..n
      BY <1>1, <3>0
    <3> QED BY <3>0, <3>1, <3>2 DEF Firsts, n
  <2> QED BY <1>3, <2>3, <2>4, <2>5
<1>12. ASSUME EvenScores(s), NEW k \in 1..n, NEW l \in 1..n PROVE k < l <=> Before(s, q[k], q[l])
  <2>1. k < l <=> GoesFirst(Firsts(u), r[k], r[l])
    BY <1>5, <1>10, <1>12
  <2>2. /\ r[k] \in Firsts(u) <=> q[k] \in Firsts(s)
        /\ r[l] \in Firsts(u) <=> q[l] \in Firsts(s)
    BY <1>6, <1>8, <1>11
  <2>3. r[k] < r[l] <=> GoesFirst(NamedAt(s), q[k], q[l])
    BY <1>2, <1>6, <1>8
  <2> QED BY <2>1, <2>2, <2>3 DEF GoesFirst, Before
<1> QED BY <1>7, <1>9, <1>12 DEF n, u

\* Of passages that all score the same, what was selected is not arranged again.
LEMMA ArrangedOnce ==
  ASSUME NEW s \in Seq(Passages), EvenScores(s), NEW x \in Seq(Passages), Len(x) <= Len(s),
         \A k \in 1..Len(x) : x[k] = Diverse(Prioritized(s))[k]
  PROVE  Diverse(Prioritized(x)) = x
<1> DEFINE n == Len(s)
           m == Len(x)
<1>1. n \in Nat /\ m \in Nat /\ m <= n /\ x \in [1..m -> Passages]
  BY LenProperties
<1>2. PICK q : /\ Rearranges(q, n) /\ Diverse(Prioritized(s)) = [k \in 1..n |-> s[q[k]]]
               /\ \A k, l \in 1..n : k < l <=> Before(s, q[k], q[l])
  BY ArrangedIs
<1>3. /\ \A k \in 1..n : q[k] \in 1..n
      /\ \A i \in 1..n : \E k \in 1..n : q[k] = i
  BY <1>2 DEF Rearranges
<1>4. ASSUME NEW k \in 1..m PROVE k \in 1..n /\ x[k] = s[q[k]]
  <2>1. x[k] = Diverse(Prioritized(s))[k]
    OBVIOUS
  <2> HIDE DEF n, m
  <2>2. k \in 1..n
    BY <1>1
  <2> QED BY <1>2, <2>1, <2>2
<1>5. EvenScores(x)
  <2> SUFFICES ASSUME NEW k \in 1..m PROVE x[k].score = 1
    BY DEF EvenScores
  <2>1. q[k] \in 1..Len(s) /\ x[k] = s[q[k]]
    BY <1>3, <1>4
  <2> QED BY <2>1 DEF EvenScores
<1>6. PICK r : /\ Rearranges(r, m) /\ Diverse(Prioritized(x)) = [k \in 1..m |-> x[r[k]]]
               /\ \A k, l \in 1..m : k < l <=> Before(x, r[k], r[l])
  BY <1>5, ArrangedIs
<1> HIDE DEF n, m
<1>7. \A k \in 1..m : r[k] \in 1..m
  BY <1>6 DEF Rearranges
<1>8. \A k \in 1..m : FileAt(x, k) = FileAt(s, q[k])
  BY <1>4 DEF FileAt
<1>9. ASSUME NEW k \in 1..m PROVE k \in NamedAt(x) <=> q[k] \in NamedAt(s)
  BY <1>3, <1>4 DEF NamedAt, n, m
<1>10. ASSUME NEW k \in 1..m PROVE k \in Firsts(x) <=> q[k] \in Firsts(s)
  <2>0. k \in 1..n /\ q[k] \in 1..n /\ k \in Int /\ q[k] \in Int
    BY <1>1, <1>3, <1>4
  <2>1. ASSUME k \notin Firsts(x) PROVE q[k] \notin Firsts(s)
    <3>1. PICK j \in 1..k - 1 : FileAt(x, j) = FileAt(x, k)
      BY <2>1 DEF Firsts, m
    <3>2. j \in 1..m /\ j \in 1..n /\ j < k
      BY <1>1, <2>0
    <3>3. q[j] \in 1..n /\ FileAt(s, q[j]) = FileAt(s, q[k]) /\ Before(s, q[j], q[k])
      BY <1>2, <1>3, <1>8, <2>0, <3>1, <3>2
    <3>4. q[j] # q[k]
      BY <1>2, <2>0, <3>2 DEF Rearranges
    <3>5. q[j] < q[k] \/ q[k] < q[j]
      BY <1>1, <2>0, <3>3, <3>4
    <3>6. q[j] < q[k] => q[k] \notin Firsts(s)
      <4>1. q[j] < q[k] => q[j] \in 1..q[k] - 1
        BY <1>1, <2>0, <3>3
      <4> QED BY <3>3, <4>1 DEF Firsts
    <3>7. q[k] < q[j] => q[j] \notin Firsts(s)
      <4>1. q[k] < q[j] => q[k] \in 1..q[j] - 1
        BY <1>1, <2>0, <3>3
      <4> QED BY <3>3, <4>1 DEF Firsts
    <3> QED BY <3>3, <3>5, <3>6, <3>7 DEF Before
  <2>2. ASSUME q[k] \notin Firsts(s) PROVE k \notin Firsts(x)
    <3> DEFINE Same == {i \in 1..n : FileAt(s, i) = FileAt(s, q[k])}
    <3>1. Same \in SUBSET Nat /\ Same # {}
      BY <1>1, <2>0
    <3>2. PICK i \in Same : \A j \in Same : i <= j
      <4> HIDE DEF Same
      <4> QED BY <3>1, LeastNat
    <3>3. i \in 1..n /\ FileAt(s, i) = FileAt(s, q[k])
      OBVIOUS
    <3>4. i \in Firsts(s)
      <4> SUFFICES ASSUME NEW j \in 1..i - 1, FileAt(s, j) = FileAt(s, i) PROVE FALSE
        BY <3>3 DEF Firsts, n
      <4>1. j \in 1..n /\ j < i
        BY <1>1, <3>3
      <4>2. j \in Same
        BY <3>3, <4>1
      <4>3. i <= j
        BY <3>2, <4>2
      <4> QED BY <1>1, <3>3, <4>1, <4>3
    <3> HIDE DEF Same
    <3>5. PICK j \in 1..n : q[j] = i
      BY <1>3, <3>3
    <3>6. j < k
      BY <1>2, <2>0, <2>2, <3>4, <3>5 DEF Before
    <3>7. j \in 1..m /\ j \in 1..k - 1
      BY <1>1, <3>6
    <3>8. FileAt(x, j) = FileAt(x, k)
      BY <1>8, <3>3, <3>5, <3>7
    <3> QED BY <3>7, <3>8 DEF Firsts
  <2> QED BY <2>1, <2>2
<1>11. ASSUME NEW a \in 1..m, NEW b \in 1..m, Before(x, a, b) PROVE ~(b < a)
  <2> SUFFICES ASSUME b < a PROVE FALSE
    OBVIOUS
  <2>1. Before(s, q[b], q[a])
    BY <1>2, <1>4
  <2>2. /\ a \in Firsts(x) <=> q[a] \in Firsts(s)
        /\ b \in Firsts(x) <=> q[b] \in Firsts(s)
        /\ a \in NamedAt(x) <=> q[a] \in NamedAt(s)
        /\ b \in NamedAt(x) <=> q[b] \in NamedAt(s)
    BY <1>9, <1>10
  <2>3. ~(a < b)
    BY <1>1
  <2> QED BY <1>11, <2>1, <2>2, <2>3 DEF Before, GoesFirst
<1>12. ASSUME NEW k \in 1..m, NEW l \in 1..m, k < l PROVE r[k] < r[l]
  <2>1. r[k] \in 1..m /\ r[l] \in 1..m /\ ~(r[l] < r[k])
    BY <1>6, <1>7, <1>11, <1>12
  <2>2. k # l
    BY <1>1, <1>12
  <2>3. r[k] # r[l]
    BY <1>6, <2>2 DEF Rearranges
  <2> QED BY <1>1, <2>1, <2>3
<1>13. \A k \in 1..m : r[k] = k
  BY <1>1, <1>6, <1>12, IncreasingIsIdentity
<1>14. Diverse(Prioritized(x)) = [k \in 1..m |-> x[k]]
  BY <1>6, <1>13
<1> QED BY <1>1, <1>14

-----------------------------------------------------------------------------
(* What fits. *)

\* The length of a block.
LEMMA BlockIs == ASSUME NEW i, NEW p \in Passages PROVE Block(i, p) \in Nat
<1>1. Header \in Nat /\ p.len \in Nat /\ (Digits(i) = 1 \/ Digits(i) = 2)
  BY EvidenceAssumption DEF Passages, Digits
<1> QED BY <1>1 DEF Block

\* The length of a prompt grows block by block.
LEMMA UsedIs ==
  ASSUME NEW s \in Seq(Passages)
  PROVE  /\ Used(s, 0) = 0
         /\ \A i \in 0..Len(s) : Used(s, i) \in Nat
         /\ \A i \in 1..Len(s) : Used(s, i) = Used(s, i - 1) + (IF i = 1 THEN 0 ELSE 2) + Block(i, s[i])
<1> DEFINE n == Len(s)
           U == CHOOSE u : u = [i \in 0..n |-> IF i = 0 THEN 0
                                              ELSE u[i - 1] + (IF i = 1 THEN 0 ELSE 2) + Block(i, s[i])]
           G == [e \in Nat \X (1..n) |-> e[1] + (IF e[2] = 1 THEN 0 ELSE 2) + Block(e[2], s[e[2]])]
<1>1. n \in Nat /\ \A i \in 1..n : Block(i, s[i]) \in Nat
  BY LenProperties, ElementOfSeq, BlockIs
<1>2. \A k : Used(s, k) = U[k]
  BY DEF Used
<1> HIDE DEF n
<1>3. \A i \in 1..n : \A v \in Nat : G[<<v, i>>] = v + (IF i = 1 THEN 0 ELSE 2) + Block(i, s[i])
  OBVIOUS
<1> HIDE DEF G
<1>4. ASSUME NEW i \in 1..n, NEW v \in Nat PROVE G[<<v, i>>] \in Nat
  <2>1. Block(i, s[i]) \in Nat /\ G[<<v, i>>] = v + (IF i = 1 THEN 0 ELSE 2) + Block(i, s[i])
    BY <1>1, <1>3
  <2> HIDE DEF G
  <2> QED BY <2>1
<1>5. PICK f : Proceeds(f, n, Nat, 0, G)
  <2>1. 0 \in Nat /\ Continues(G, n, Nat)
    BY <1>4 DEF Continues
  <2> QED BY <1>1, <2>1, StepByStep
<1>p. f \in [0..n -> Nat] /\ f[0] = 0 /\ \A i \in 1..n : f[i] = G[<<f[i - 1], i>>]
  BY <1>5 DEF Proceeds
<1>6. \A i \in 1..n : f[i] = f[i - 1] + (IF i = 1 THEN 0 ELSE 2) + Block(i, s[i])
  <2>1. \A i \in 1..n : i - 1 \in 0..n
    BY <1>1
  <2> QED BY <1>3, <1>p, <2>1
<1>7. f = [i \in 0..n |-> IF i = 0 THEN 0 ELSE f[i - 1] + (IF i = 1 THEN 0 ELSE 2) + Block(i, s[i])]
  <2>1. \A i \in 0..n : i # 0 => i \in 1..n
    BY <1>1
  <2> QED BY <1>p, <1>6, <2>1
<1>8. U = [i \in 0..n |-> IF i = 0 THEN 0 ELSE U[i - 1] + (IF i = 1 THEN 0 ELSE 2) + Block(i, s[i])]
  BY <1>7
<1> HIDE DEF U
<1>9. 0 \in 0..n /\ \A i \in 1..n : i \in 0..n /\ i # 0
  BY <1>1
<1>10. U[0] = 0 /\ \A i \in 1..n : U[i] = U[i - 1] + (IF i = 1 THEN 0 ELSE 2) + Block(i, s[i])
  BY <1>8, <1>9
<1>11. \A i \in 0..n : U[i] \in Nat
  <2> DEFINE T == {i \in 0..n : U[i] \notin Nat}
  <2> SUFFICES ASSUME T # {} PROVE FALSE
    OBVIOUS
  <2>1. T \in SUBSET Nat
    OBVIOUS
  <2>2. PICK m \in T : \A k \in T : m <= k
    <3> HIDE DEF T
    <3> QED BY <2>1, LeastNat
  <2>3. m \in 0..n /\ U[m] \notin Nat /\ \A k \in 0..n : U[k] \notin Nat => m <= k
    BY <2>2
  <2> HIDE DEF T
  <2>4. m # 0
    BY <1>10, <2>3
  <2>5. m \in 1..n /\ m - 1 \in 0..n /\ ~(m <= m - 1)
    BY <1>1, <2>3, <2>4
  <2>6. U[m - 1] \in Nat
    BY <2>3, <2>5
  <2>7. U[m] = U[m - 1] + (IF m = 1 THEN 0 ELSE 2) + Block(m, s[m]) /\ Block(m, s[m]) \in Nat
    BY <1>1, <1>10, <2>5
  <2> QED BY <2>3, <2>6, <2>7
<1> QED BY ZenonT(40), <1>2, <1>10, <1>11 DEF n

\* It depends on what is in the prompt only.
LEMMA UsedOfPrefix ==
  ASSUME NEW s \in Seq(Passages), NEW x \in Seq(Passages), Len(x) <= Len(s),
         \A k \in 1..Len(x) : x[k] = s[k]
  PROVE  \A k \in 0..Len(x) : Used(x, k) = Used(s, k)
<1> DEFINE T == {k \in 0..Len(x) : Used(x, k) # Used(s, k)}
<1>1. SUFFICES ASSUME T # {} PROVE FALSE
  OBVIOUS
<1>2. T \in SUBSET Nat
  OBVIOUS
<1>3. PICK m \in T : \A k \in T : m <= k
  <2> HIDE DEF T
  <2> QED BY <1>1, <1>2, LeastNat
<1>4. m \in 0..Len(x) /\ Used(x, m) # Used(s, m) /\ \A k \in 0..Len(x) : Used(x, k) # Used(s, k) => m <= k
  BY <1>3
<1> HIDE DEF T
<1>5. m # 0
  BY <1>4, UsedIs
<1>6. Len(x) \in Nat /\ Len(s) \in Nat
  BY LenProperties
<1>7. m \in 1..Len(x) /\ m \in 1..Len(s) /\ m - 1 \in 0..Len(x) /\ ~(m <= m - 1)
  BY <1>4, <1>5, <1>6
<1>8. Used(x, m - 1) = Used(s, m - 1)
  BY <1>4, <1>7
<1>9. Used(x, m) = Used(x, m - 1) + (IF m = 1 THEN 0 ELSE 2) + Block(m, x[m])
  BY <1>7, UsedIs
<1>10. Used(s, m) = Used(s, m - 1) + (IF m = 1 THEN 0 ELSE 2) + Block(m, s[m])
  BY <1>7, UsedIs
<1>11. x[m] = s[m]
  BY <1>7
<1> QED BY <1>4, <1>8, <1>9, <1>10, <1>11

\* A passage is cut once: what was cut to the room is not cut again.
LEMMA TruncatedIs ==
  ASSUME NEW p \in Passages, NEW room \in Int
  PROVE  /\ Truncated(p, room) \in Passages
         /\ Truncated(p, room).chunk = p.chunk /\ Truncated(p, room).score = p.score
         /\ Truncated(Truncated(p, room), room) = Truncated(p, room)
         /\ LET b == room - Margin - Header - 1
            IN  Truncated(p, room).len <= IF b >= 4 THEN b ELSE 4
<1> DEFINE b == room - Margin - Header - 1
           budget == Max({b, 1})
           cut == Max({budget - 3, 1}) + 3
           len == IF p.len > budget THEN cut ELSE p.len
<1>1. b \in Int
  BY EvidenceAssumption
<1>2. Truncated(p, room) = [p EXCEPT !.len = len]
  BY DEF Truncated
<1>3. \A q : Truncated(q, room) = [q EXCEPT !.len = IF q.len > budget THEN cut ELSE q.len]
  BY DEF Truncated
<1> HIDE DEF b
<1>4. budget = IF b >= 1 THEN b ELSE 1
  BY <1>1, GreaterOfTwo
<1>5. budget \in Nat /\ budget >= 1
  <2> HIDE DEF budget
  <2> QED BY <1>1, <1>4
<1> HIDE DEF budget
<1>6. Max({budget - 3, 1}) = IF budget - 3 >= 1 THEN budget - 3 ELSE 1
  <2>1. budget - 3 \in Int
    BY <1>5
  <2> QED BY <2>1, GreaterOfTwo
<1>7. cut \in Nat /\ cut <= IF b >= 4 THEN b ELSE 4
  BY <1>1, <1>4, <1>5, <1>6
<1> HIDE DEF cut
<1>8. p.len \in Nat /\ p.chunk \in Chunks /\ p.score \in Nat
  BY DEF Passages
<1>9. len \in Nat /\ (len <= IF b >= 4 THEN b ELSE 4) /\ (IF len > budget THEN cut ELSE len) = len
  BY <1>1, <1>4, <1>5, <1>7, <1>8
<1> HIDE DEF len
<1>10. p = [chunk |-> p.chunk, len |-> p.len, score |-> p.score]
  BY DEF Passages
<1> DEFINE t == [chunk |-> p.chunk, len |-> len, score |-> p.score]
<1>11. Truncated(p, room) = t
  BY <1>2, <1>10
<1>12. [t EXCEPT !.len = IF t.len > budget THEN cut ELSE t.len] = t
  BY <1>9
<1>13. Truncated(t, room) = t
  BY <1>3, <1>12
<1> QED BY <1>8, <1>9, <1>11, <1>13 DEF Passages, b

\* The first k blocks fit; m is the greatest such number.
AllFit(s, room, k) == \A j \in 1..k : Used(s, j) <= room

Fits(s, room, m) ==
  m \in 0..Len(s) /\ AllFit(s, room, m) /\ \A k \in 0..Len(s) : AllFit(s, room, k) => k <= m

\* The passage that is cut, or those that fit.
LEMMA FittingIs ==
  ASSUME NEW s \in Seq(Passages), NEW room \in Int
  PROVE  \/ s # <<>> /\ Block(1, s[1]) > room /\ Fitting(s, room) = <<Truncated(s[1], room)>>
         \/ \E m : /\ Fits(s, room, m) /\ Fitting(s, room) = Upto(s, m)
                   /\ ~(s # <<>> /\ Block(1, s[1]) > room)
<1> DEFINE S == {n \in 0..Len(s) : \A m \in 1..n : Used(s, m) <= room}
<1>1. S \in SUBSET (0..Len(s)) /\ 0 \in S /\ Len(s) \in Nat
  BY LenProperties
<1>2. Max(S) \in S /\ \A k \in S : k <= Max(S)
  <2> HIDE DEF S
  <2> QED BY <1>1, GreatestNat
<1>3. Fits(s, room, Max(S))
  BY <1>2 DEF Fits, AllFit
<1> HIDE DEF Fits
<1> QED BY <1>3 DEF Fitting

\* What fits as a whole is taken as a whole.
LEMMA WholeFits ==
  ASSUME NEW s \in Seq(Passages), NEW room \in Int, \A k \in 1..Len(s) : Used(s, k) <= room
  PROVE  Fitting(s, room) = s
<1>1. Len(s) \in Nat /\ s \in [1..Len(s) -> Passages] /\ (s # <<>> => Len(s) # 0)
  BY LenProperties, EmptySeq
<1>2. ASSUME s # <<>> PROVE ~(Block(1, s[1]) > room)
  <2>1. 1 \in 1..Len(s)
    BY <1>1, <1>2
  <2>2. Used(s, 1) = Used(s, 0) + 0 + Block(1, s[1]) /\ Used(s, 0) = 0
    <3>1. 1 - 1 = 0
      OBVIOUS
    <3> QED BY <2>1, <3>1, UsedIs
  <2>3. Block(1, s[1]) \in Nat /\ Used(s, 1) <= room
    BY <2>1, ElementOfSeq, BlockIs
  <2> QED BY <2>2, <2>3
<1>3. PICK m : Fits(s, room, m) /\ Fitting(s, room) = Upto(s, m)
  BY <1>2, FittingIs
<1>4. m = Len(s)
  <2>1. Len(s) \in 0..Len(s)
    BY <1>1
  <2>2. AllFit(s, room, Len(s))
    BY DEF AllFit
  <2>3. m \in 0..Len(s) /\ Len(s) <= m
    BY <1>3, <2>1, <2>2 DEF Fits
  <2>4. Len(s) \in Nat
    BY LenProperties
  <2> DEFINE n == Len(s)
  <2> HIDE DEF n
  <2>5. m \in 0..n /\ n <= m /\ n \in Nat
    BY <2>3, <2>4 DEF n
  <2>6. m = n
    BY <2>5
  <2> QED BY <2>6 DEF n
<1>5. Upto(s, m) = SubSeq(s, 1, Len(s))
  BY <1>1, <1>4 DEF Upto
<1> QED BY <1>3, <1>5, <1>1

\* What fits comes first, with its chunks and scores.
LEMMA FittingKeeps ==
  ASSUME NEW s \in Seq(Passages), NEW room \in Int
  PROVE  /\ Fitting(s, room) \in Seq(Passages) /\ Len(Fitting(s, room)) \in 0..Len(s)
         /\ \A k \in 1..Len(Fitting(s, room)) :
              Fitting(s, room)[k].chunk = s[k].chunk /\ Fitting(s, room)[k].score = s[k].score
<1> DEFINE x == Fitting(s, room)
<1>1. Len(s) \in Nat /\ (s # <<>> => Len(s) # 0)
  BY LenProperties, EmptySeq
<1>2. CASE s # <<>> /\ x = <<Truncated(s[1], room)>>
  <2>1. 1 \in 1..Len(s) /\ s[1] \in Passages
    BY <1>1, <1>2, ElementOfSeq
  <2>2. Truncated(s[1], room) \in Passages /\ Truncated(s[1], room).chunk = s[1].chunk
        /\ Truncated(s[1], room).score = s[1].score
    BY <2>1, TruncatedIs
  <2> DEFINE t == Truncated(s[1], room)
  <2> HIDE DEF t, x
  <2>3. x = <<t>>
    BY <1>2 DEF t
  <2>4. t \in Passages /\ t.chunk = s[1].chunk /\ t.score = s[1].score
    BY <2>2 DEF t
  <2>5. x \in Seq(Passages) /\ Len(x) = 1 /\ x[1] = t
    BY <2>3, <2>4
  <2>6. \A k \in 1..Len(x) : k = 1
    BY <2>5
  <2>7. Len(x) \in 0..Len(s)
    BY <1>1, <2>1, <2>5
  <2> QED BY <2>4, <2>5, <2>6, <2>7 DEF x
<1>3. ASSUME NEW m, Fits(s, room, m), x = Upto(s, m)
      PROVE  /\ x \in Seq(Passages) /\ Len(x) \in 0..Len(s) /\ \A k \in 1..Len(x) : x[k] = s[k]
  <2>1. m \in Nat
    BY <1>1, <1>3 DEF Fits
  <2> HIDE DEF x
  <2> QED BY <1>3, <2>1, UptoIs
<1> HIDE DEF x
<1>4. \/ s # <<>> /\ x = <<Truncated(s[1], room)>>
      \/ \E m : Fits(s, room, m) /\ x = Upto(s, m)
  BY FittingIs DEF x
<1>5. x \in Seq(Passages) /\ Len(x) \in 0..Len(s)
      /\ \A k \in 1..Len(x) : x[k].chunk = s[k].chunk /\ x[k].score = s[k].score
  BY <1>2, <1>3, <1>4 DEF x
<1> QED BY <1>5 DEF x

\* What was selected for a room fits it.
LEMMA FitsAgain ==
  ASSUME NEW s \in Seq(Passages), NEW room \in Int
  PROVE  Fitting(Fitting(s, room), room) = Fitting(s, room)
<1> DEFINE x == Fitting(s, room)
<1>1. Len(s) \in Nat /\ (s # <<>> => Len(s) # 0)
  BY LenProperties, EmptySeq
<1>2. x \in Seq(Passages)
  BY FittingKeeps
<1>3. ASSUME s # <<>>, x = <<Truncated(s[1], room)>> PROVE Fitting(x, room) = x
  <2> DEFINE t == Truncated(s[1], room)
  <2>1. 1 \in 1..Len(s) /\ s[1] \in Passages
    BY <1>1, <1>3, ElementOfSeq
  <2>2. t \in Passages /\ Truncated(t, room) = t
    BY <2>1, TruncatedIs
  <2> HIDE DEF t, x
  <2>3. x = <<t>> /\ x # <<>> /\ x[1] = t /\ Len(x) = 1
    BY <1>3 DEF t
  <2>4. CASE Block(1, t) > room
    BY <2>2, <2>3, <2>4 DEF Fitting
  <2>5. CASE ~(Block(1, t) > room)
    <3>1. 1 \in 1..Len(x) /\ \A k \in 1..Len(x) : k = 1
      BY <2>3
    <3>2. Used(x, 1) = Used(x, 0) + 0 + Block(1, x[1]) /\ Used(x, 0) = 0
      <4>1. 1 - 1 = 0
        OBVIOUS
      <4> QED BY <1>2, <3>1, <4>1, UsedIs
    <3>3. Block(1, t) \in Nat
      BY <2>2, BlockIs
    <3>4. Used(x, 1) <= room
      BY <2>3, <2>5, <3>2, <3>3
    <3> QED BY <1>2, <3>1, <3>4, WholeFits
  <2> QED BY <2>4, <2>5
<1>4. ASSUME NEW m, Fits(s, room, m), x = Upto(s, m) PROVE Fitting(x, room) = x
  <2>1. m \in Nat /\ m <= Len(s)
    BY <1>1, <1>4 DEF Fits
  <2> HIDE DEF x
  <2>2. Len(x) = m /\ Len(x) <= Len(s) /\ \A k \in 1..Len(x) : x[k] = s[k]
    <3>1. Len(x) = (IF m < Len(s) THEN m ELSE Len(s)) /\ \A k \in 1..Len(x) : x[k] = s[k]
      BY <1>4, <2>1, UptoIs
    <3> QED BY <1>1, <2>1, <3>1
  <2>3. \A k \in 0..Len(x) : Used(x, k) = Used(s, k)
    BY <1>2, <2>2, UsedOfPrefix
  <2>4. \A k \in 1..Len(x) : Used(x, k) <= room
    <3>1. \A k \in 1..Len(x) : k \in 0..Len(x) /\ k \in 1..m
      BY <2>1, <2>2
    <3> QED BY <1>4, <2>3, <3>1 DEF Fits, AllFit
  <2> QED BY <1>2, <2>4, WholeFits
<1> HIDE DEF x
<1>5. \/ s # <<>> /\ x = <<Truncated(s[1], room)>>
      \/ \E m : Fits(s, room, m) /\ x = Upto(s, m)
  BY FittingIs DEF x
<1>6. Fitting(x, room) = x
  BY <1>3, <1>4, <1>5
<1> QED BY <1>6 DEF x

\* A selection made again from what was selected takes all of it (select_prompt_chunks in
\* _summarize_collection and in generate_grounded_answer).
LEMMA SelectedAgain ==
  ASSUME NEW s \in Seq(Passages), EvenScores(s), NEW room \in Int
  PROVE  Selected(Selected(s, room), room) = Selected(s, room)
<1> DEFINE u == Diverse(Prioritized(s))
           x == Fitting(u, room)
<1>1. u \in Seq(Passages) /\ Len(u) = Len(s) /\ Len(s) \in Nat
  <2>1. PICK q : Rearranges(q, Len(s)) /\ u = [k \in 1..Len(s) |-> s[q[k]]]
    BY ArrangedIs
  <2>2. \A k \in 1..Len(s) : q[k] \in 1..Len(s) /\ s[q[k]] \in Passages
    BY <2>1, ElementOfSeq DEF Rearranges
  <2>3. u \in [1..Len(s) -> Passages] /\ Len(s) \in Nat
    BY <2>1, <2>2, LenProperties
  <2> HIDE DEF u
  <2> QED BY <2>3, FunctionIsSequence
<1>2. x \in Seq(Passages) /\ Len(x) \in 0..Len(u)
  <2> HIDE DEF u
  <2> QED BY <1>1, FittingKeeps
<1> HIDE DEF u
<1>3. ASSUME u # <<>>, x = <<Truncated(u[1], room)>> PROVE Diverse(Prioritized(x)) = x
  <2>1. Len(x) = 1 /\ x = [k \in 1..1 |-> x[1]]
    <3>1. \A t : Len(<<t>>) = 1 /\ <<t>>[1] = t /\ <<t>> = [k \in 1..1 |-> t]
      OBVIOUS
    <3> QED BY <1>3, <3>1
  <2>2. PICK q : Rearranges(q, Len(x)) /\ Diverse(Prioritized(x)) = [k \in 1..Len(x) |-> x[q[k]]]
    BY <1>2, ArrangedIs
  <2>3. \A k \in 1..1 : q[k] = 1
    BY <2>1, <2>2 DEF Rearranges
  <2> QED BY <2>1, <2>2, <2>3
<1>4. ASSUME NEW m, Fits(u, room, m), x = Upto(u, m) PROVE Diverse(Prioritized(x)) = x
  <2>1. m \in Nat
    BY <1>1, <1>4 DEF Fits
  <2> HIDE DEF x
  <2>2. Len(x) <= Len(s) /\ \A k \in 1..Len(x) : x[k] = u[k]
    <3>1. Len(x) \in 0..Len(u) /\ \A k \in 1..Len(x) : x[k] = u[k]
      BY <1>1, <1>4, <2>1, UptoIs
    <3> QED BY <1>1, <3>1
  <2> QED BY <1>2, <2>2, ArrangedOnce DEF u
<1>5. \/ u # <<>> /\ x = <<Truncated(u[1], room)>>
      \/ \E m : Fits(u, room, m) /\ x = Upto(u, m)
  BY <1>1, FittingIs
<1>6. Fitting(x, room) = x
  BY <1>1, FitsAgain
<1> HIDE DEF x
<1>7. Diverse(Prioritized(x)) = x
  BY <1>3, <1>4, <1>5
<1> QED BY <1>6, <1>7 DEF Selected, x, u

-----------------------------------------------------------------------------
(* From the prompt to the citations. *)

EachChunkOnce(s) == \A i, j \in 1..Len(s) : s[i].chunk = s[j].chunk => i = j

\* w shows chunks of s, none more often, scored as in s.
Drawn(w, s) ==
  /\ w \in Seq(Passages)
  /\ EvenScores(s) => EvenScores(w)
  /\ EachChunkOnce(s) => EachChunkOnce(w)
  /\ \A k \in 1..Len(w) : \E i \in 1..Len(s) : w[k].chunk = s[i].chunk

\* What fits of a rearranged list is drawn from it.
LEMMA DrawnFromArranged ==
  ASSUME NEW s \in Seq(Passages), NEW q, Rearranges(q, Len(s)), NEW room \in Int
  PROVE  Drawn(Fitting([k \in 1..Len(s) |-> s[q[k]]], room), s)
<1> DEFINE n == Len(s)
           u == [k \in 1..n |-> s[q[k]]]
           x == Fitting(u, room)
<1>1. n \in Nat /\ (\A k \in 1..n : q[k] \in 1..n) /\ \A k, l \in 1..n : q[k] = q[l] => k = l
  BY LenProperties DEF Rearranges
<1>2. \A k \in 1..n : s[q[k]] \in Passages
  BY <1>1, ElementOfSeq
<1>3. u \in [1..n -> Passages] /\ \A k \in 1..n : u[k] = s[q[k]]
  BY <1>2
<1> HIDE DEF n, u
<1>4. u \in Seq(Passages) /\ Len(u) = n
  BY <1>1, <1>3, FunctionIsSequence
<1>5. /\ x \in Seq(Passages) /\ Len(x) \in 0..n
      /\ \A k \in 1..Len(x) : x[k].chunk = u[k].chunk /\ x[k].score = u[k].score
  BY <1>4, FittingKeeps
<1> HIDE DEF x
<1>6. ASSUME NEW k \in 1..Len(x)
      PROVE  k \in 1..n /\ q[k] \in 1..n /\ x[k].chunk = s[q[k]].chunk /\ x[k].score = s[q[k]].score
  <2>1. k \in 1..n
    BY <1>1, <1>5
  <2> QED BY <1>1, <1>3, <1>5, <2>1
<1>7. EvenScores(s) => EvenScores(x)
  BY <1>6 DEF EvenScores, n
<1>8. ASSUME EachChunkOnce(s) PROVE EachChunkOnce(x)
  <2> SUFFICES ASSUME NEW k \in 1..Len(x), NEW l \in 1..Len(x), x[k].chunk = x[l].chunk PROVE k = l
    BY DEF EachChunkOnce
  <2>1. s[q[k]].chunk = s[q[l]].chunk /\ q[k] \in 1..n /\ q[l] \in 1..n
    BY <1>6
  <2>2. q[k] = q[l]
    BY <1>8, <2>1 DEF EachChunkOnce, n
  <2> QED BY <1>1, <1>6, <2>2
<1>9. \A k \in 1..Len(x) : \E i \in 1..Len(s) : x[k].chunk = s[i].chunk
  BY <1>6 DEF n
<1>10. Drawn(x, s)
  BY <1>5, <1>7, <1>8, <1>9 DEF Drawn
<1> QED BY <1>10 DEF x, u, n

\* What a prompt shows is drawn from its candidates.
LEMMA SelectedIsDrawn ==
  ASSUME NEW s \in Seq(Passages), NEW room \in Int
  PROVE  Drawn(Selected(s, room), s) /\ Drawn(SelectedNoNames(s, room), s)
<1>1. Drawn(Selected(s, room), s)
  <2>1. PICK q : Rearranges(q, Len(s)) /\ Diverse(Prioritized(s)) = [k \in 1..Len(s) |-> s[q[k]]]
    BY ArrangedIs
  <2> QED BY <2>1, DrawnFromArranged DEF Selected
<1>2. Drawn(SelectedNoNames(s, room), s)
  <2>1. PICK q : Rearranges(q, Len(s)) /\ Diverse(s) = [k \in 1..Len(s) |-> s[q[k]]]
    BY DiverseIs
  <2> QED BY <2>1, DrawnFromArranged DEF SelectedNoNames
<1> QED BY <1>1, <1>2

\* The rooms of a prompt and of a file's part of a summary.
LEMMA RoomsAreNumbers ==
  /\ Room \in Int /\ MaxContext - QuestionLen - Slack \in Int
  /\ SummaryBudget \in Int /\ SummaryBudget - Fixed - SummaryLen \in Int
<1>1. MaxContext - QuestionLen - Slack \in Int /\ SummaryFiles \in Nat \ {0} /\ Fixed \in Nat /\ SummaryLen \in Nat
      /\ MaxContext \in Nat /\ QuestionLen \in Nat
  BY EvidenceAssumption
<1>2. SummaryBudget \in Int
  BY <1>1 DEF SummaryBudget
<1> QED BY <1>1, <1>2 DEF Room

-----------------------------------------------------------------------------
(* A summary's excerpts. *)

\* What a summary takes of a file, and the number of files it takes.
Part(f) == SelectedNoNames(Excerpts(f), SummaryBudget - Fixed - SummaryLen)
FilesTaken == Least(NFiles, SummaryFiles)

\* The first chunks of a file: each once, all scored the same.
LEMMA ExcerptsAre ==
  ASSUME size \in [Chunks -> Nat], SummaryBudget \in Nat, NEW f
  PROVE  /\ Excerpts(f) \in Seq(Passages) /\ Len(Excerpts(f)) \in 0..SummaryChunks
         /\ EvenScores(Excerpts(f)) /\ EachChunkOnce(Excerpts(f))
         /\ \A k \in 1..Len(Excerpts(f)) : FileOf[Excerpts(f)[k].chunk] = f
<1> DEFINE S == {c \in Chunks : FileOf[c] = f}
           id == [c \in Chunks |-> c]
           own == InOrder(id, S)
           n == Least(Len(own), SummaryChunks)
           x == [k \in 1..n |-> [chunk |-> own[k], len |-> Least(size[own[k]], SummaryBudget), score |-> 1]]
<1>1. S \in SUBSET Nat /\ IsFiniteSet(S) /\ Cardinality(S) \in Nat
  <2>1. NChunks \in Nat
    BY EvidenceAssumption
  <2>2. IsFiniteSet(Chunks)
    BY <2>1, FS_Interval DEF Chunks
  <2>3. S \in SUBSET Chunks /\ \A c \in Chunks : c \in Nat
    BY <2>1 DEF Chunks
  <2> HIDE DEF S
  <2>4. IsFiniteSet(S)
    BY <2>2, <2>3, FS_Subset
  <2> QED BY <2>3, <2>4, FS_CardinalityType
<1>2. \A c \in S : c \in Chunks /\ FileOf[c] = f /\ id[c] = c
  OBVIOUS
<1> DEFINE m == Cardinality(S)
<1> HIDE DEF S, id
<1>3. PICK p : Lists(p, id, S)
  BY <1>1, InOrderIs
<1>4. /\ p \in [1..m -> S] /\ own = [k \in 1..m |-> id[p[k]]]
      /\ \A k, l \in 1..m : k < l <=> p[k] < p[l]
  BY <1>3 DEF Lists
<1>5. m \in Nat /\ \A k \in 1..m : p[k] \in S /\ p[k] \in Nat
  BY <1>1, <1>4
<1> HIDE DEF m
<1>6. \A k \in 1..m : own[k] = p[k] /\ own[k] \in Chunks /\ FileOf[own[k]] = f
  BY <1>2, <1>4, <1>5
<1>7. Len(own) = m
  <2>1. own \in [1..m -> Chunks]
    BY <1>4, <1>6
  <2> HIDE DEF own
  <2> QED BY <1>5, <2>1, FunctionIsSequence
<1>8. ASSUME NEW k \in 1..m, NEW l \in 1..m, own[k] = own[l] PROVE k = l
  <2>1. p[k] = p[l] /\ p[k] \in Nat
    BY <1>5, <1>6, <1>8
  <2>2. ~(p[k] < p[l]) /\ ~(p[l] < p[k])
    BY <2>1
  <2>3. ~(k < l) /\ ~(l < k)
    BY <1>4, <2>2
  <2> QED BY <1>5, <2>3
<1> HIDE DEF own
<1>9. n \in 0..SummaryChunks /\ n \in Nat /\ \A k \in 1..n : k \in 1..m
  <2>1. SummaryChunks \in Nat
    BY EvidenceAssumption
  <2> QED BY <1>5, <1>7, <2>1 DEF Least
<1> HIDE DEF n
<1>10. ASSUME NEW k \in 1..n
       PROVE  x[k] \in Passages /\ x[k].chunk = own[k] /\ x[k].score = 1
  <2>1. own[k] \in Chunks
    BY <1>6, <1>9
  <2>2. size[own[k]] \in Nat
    BY <2>1
  <2>3. Least(size[own[k]], SummaryBudget) \in Nat
    BY <2>2 DEF Least
  <2> QED BY <2>1, <2>3 DEF Passages
<1>11. x \in [1..n -> Passages]
  BY <1>10
<1> HIDE DEF x
<1>12. x \in Seq(Passages) /\ Len(x) = n
  BY <1>9, <1>11, FunctionIsSequence
<1>13. EvenScores(x)
  BY <1>10, <1>12 DEF EvenScores
<1>14. EachChunkOnce(x)
  <2> SUFFICES ASSUME NEW k \in 1..n, NEW l \in 1..n, x[k].chunk = x[l].chunk PROVE k = l
    BY <1>12 DEF EachChunkOnce
  <2> QED BY <1>8, <1>9, <1>10
<1>15. \A k \in 1..Len(x) : FileOf[x[k].chunk] = f
  BY <1>6, <1>9, <1>10, <1>12
<1>16. Excerpts(f) = x
  BY DEF Excerpts, x, own, n, id, S
<1> QED BY <1>9, <1>12, <1>13, <1>14, <1>15, <1>16

\* The parts of a summary: passages of one file, each chunk once.
LEMMA PartsAre ==
  ASSUME size \in [Chunks -> Nat], SummaryBudget \in Nat, NEW f
  PROVE  /\ Part(f) \in Seq(Passages) /\ EvenScores(Part(f)) /\ EachChunkOnce(Part(f))
         /\ \A k \in 1..Len(Part(f)) : FileOf[Part(f)[k].chunk] = f
<1> DEFINE s == Excerpts(f)
<1>1. /\ s \in Seq(Passages) /\ EvenScores(s) /\ EachChunkOnce(s)
      /\ \A k \in 1..Len(s) : FileOf[s[k].chunk] = f
  BY ExcerptsAre
<1> HIDE DEF s
<1>2. Drawn(SelectedNoNames(s, SummaryBudget - Fixed - SummaryLen), s)
  BY <1>1, RoomsAreNumbers, SelectedIsDrawn
<1>3. Drawn(Part(f), s)
  BY <1>2 DEF Part, s
<1> QED BY <1>1, <1>3 DEF Drawn

\* u goes from file to file.
Gathers(u) ==
  /\ u \in [0..FilesTaken -> Seq(Passages)] /\ u[0] = <<>>
  /\ \A f \in 1..FilesTaken : u[f] = u[f - 1] \o Part(f)
  /\ Gathered = u[FilesTaken]

\* A summary's excerpts are put together file by file.
LEMMA GatheredIs ==
  ASSUME size \in [Chunks -> Nat], SummaryBudget \in Nat
  PROVE  \E u : Gathers(u)
<1> DEFINE n == FilesTaken
           V == Seq(Passages)
           U == CHOOSE u : u = [f \in 0..n |-> IF f = 0 THEN <<>> ELSE u[f - 1] \o Part(f)]
           G == [e \in V \X (1..n) |-> e[1] \o Part(e[2])]
<1>1. n \in Nat
  <2>1. NFiles \in Nat /\ SummaryFiles \in Nat
    BY EvidenceAssumption
  <2> QED BY <2>1 DEF FilesTaken, Least
<1>2. Gathered = U[n]
  BY DEF Gathered, FilesTaken, Part
<1> HIDE DEF n
<1>3. \A i \in 1..n : \A v \in V : G[<<v, i>>] = v \o Part(i)
  OBVIOUS
<1> HIDE DEF G
<1>4. ASSUME NEW i \in 1..n, NEW v \in V PROVE G[<<v, i>>] \in V
  <2>1. Part(i) \in V
    BY PartsAre
  <2>2. v \o Part(i) \in V
    BY <2>1, ConcatProperties
  <2> QED BY Zenon, <1>3, <2>2
<1>5. <<>> \in V
  BY EmptySeq
<1> HIDE DEF V
<1>6. PICK f : Proceeds(f, n, V, <<>>, G)
  <2>1. Continues(G, n, V)
    BY <1>4 DEF Continues
  <2> QED BY <1>1, <1>5, <2>1, StepByStep
<1>7. f \in [0..n -> V] /\ f[0] = <<>> /\ \A i \in 1..n : f[i] = G[<<f[i - 1], i>>]
  BY <1>6 DEF Proceeds
<1>8. \A i \in 1..n : f[i] = f[i - 1] \o Part(i)
  <2>1. \A i \in 1..n : i - 1 \in 0..n
    BY <1>1
  <2> QED BY <1>3, <1>7, <2>1
<1>9. f = [i \in 0..n |-> IF i = 0 THEN <<>> ELSE f[i - 1] \o Part(i)]
  <2>1. \A i \in 0..n : i # 0 => i \in 1..n
    BY <1>1
  <2> QED BY <1>7, <1>8, <2>1, ZenonT(30)
<1>10. U = [i \in 0..n |-> IF i = 0 THEN <<>> ELSE U[i - 1] \o Part(i)]
  BY <1>9, ZenonT(30)
<1> HIDE DEF U
<1>11. 0 \in 0..n /\ \A i \in 1..n : i \in 0..n /\ i # 0
  BY <1>1
<1>12. U[0] = <<>> /\ \A i \in 1..n : U[i] = U[i - 1] \o Part(i)
  BY <1>10, <1>11
<1>13. \A i \in 0..n : U[i] \in V
  <2> DEFINE S == {i \in 0..n : U[i] \in V}
  <2>1. 0 \in S
    BY <1>5, <1>11, <1>12
  <2>2. ASSUME NEW i \in 1..n, i - 1 \in S PROVE i \in S
    <3>1. U[i - 1] \in V /\ Part(i) \in V
      BY <2>2, PartsAre DEF V
    <3>2. U[i - 1] \o Part(i) \in V
      BY <3>1, ConcatProperties DEF V
    <3> QED BY <1>11, <1>12, <3>2
  <2> HIDE DEF S
  <2>3. \A i \in 0..n : i \in S
    BY <1>1, <2>1, <2>2, UpToANumber
  <2> QED BY <2>3 DEF S
<1>14. U \in [0..n -> V]
  BY <1>10, <1>13
<1>15. Gathers(U)
  BY <1>2, <1>12, <1>14 DEF Gathers, n, V
<1> QED BY <1>15

\* Two lists of passages put together.
LEMMA PutTogether ==
  ASSUME NEW s \in Seq(Passages), NEW t \in Seq(Passages)
  PROVE  /\ s \o t \in Seq(Passages) /\ Len(s \o t) = Len(s) + Len(t)
         /\ \A k \in 1..Len(s \o t) : \/ k \in 1..Len(s) /\ (s \o t)[k] = s[k]
                                      \/ k - Len(s) \in 1..Len(t) /\ (s \o t)[k] = t[k - Len(s)]
<1> DEFINE m == Len(s)
           n == Len(t)
           w == s \o t
<1>1. m \in Nat /\ n \in Nat
  BY LenProperties
<1>2. w \in Seq(Passages) /\ Len(w) = m + n /\ \A k \in 1..m + n : w[k] = IF k <= m THEN s[k] ELSE t[k - m]
  BY ConcatProperties
<1> HIDE DEF m, n, w
<1>3. ASSUME NEW k \in 1..m + n PROVE (k \in 1..m /\ w[k] = s[k]) \/ (k - m \in 1..n /\ w[k] = t[k - m])
  <2>1. CASE k <= m
    <3>1. k \in 1..m
      BY <1>1, <2>1
    <3> QED BY <1>2, <2>1, <3>1
  <2>2. CASE ~(k <= m)
    <3>1. k - m \in 1..n
      BY <1>1, <2>2
    <3> QED BY <1>2, <2>2, <3>1
  <2> QED BY <2>1, <2>2
<1>4. \A k \in 1..Len(w) : (k \in 1..m /\ w[k] = s[k]) \/ (k - m \in 1..n /\ w[k] = t[k - m])
  BY <1>2, <1>3
<1> QED BY <1>2, <1>4 DEF m, n, w

\* Up to a file, a summary holds passages of the files so far, each chunk once.
OfFirstFiles(s, f) ==
  s \in Seq(Passages) /\ EvenScores(s) /\ EachChunkOnce(s) /\ \A k \in 1..Len(s) : FileAt(s, k) \in 1..f

\* A summary's candidates: each chunk once, all scored the same.
LEMMA GatheredFacts ==
  ASSUME size \in [Chunks -> Nat], SummaryBudget \in Nat
  PROVE  Gathered \in Seq(Passages) /\ EvenScores(Gathered) /\ EachChunkOnce(Gathered)
<1>1. PICK u : Gathers(u)
  BY GatheredIs
<1>2. /\ u \in [0..FilesTaken -> Seq(Passages)] /\ u[0] = <<>>
      /\ \A f \in 1..FilesTaken : u[f] = u[f - 1] \o Part(f)
      /\ Gathered = u[FilesTaken]
  BY <1>1 DEF Gathers
<1>3. FilesTaken \in Nat
  <2>1. NFiles \in Nat /\ SummaryFiles \in Nat
    BY EvidenceAssumption
  <2> QED BY <2>1 DEF FilesTaken, Least
<1> DEFINE S == {f \in 0..FilesTaken : OfFirstFiles(u[f], f)}
<1>4. 0 \in S
  <2>1. <<>> \in Seq(Passages) /\ \A k \in 1..Len(<<>>) : FALSE
    OBVIOUS
  <2>2. OfFirstFiles(<<>>, 0)
    BY <2>1 DEF OfFirstFiles, EvenScores, EachChunkOnce
  <2> QED BY <1>2, <1>3, <2>2
<1>5. ASSUME NEW f \in 1..FilesTaken, f - 1 \in S PROVE f \in S
  <2> DEFINE s == u[f - 1]
             t == Part(f)
             w == s \o t
  <2>0. OfFirstFiles(s, f - 1)
    BY <1>5
  <2>1. OfFirstFiles(s, f - 1) /\ u[f] = w /\ f \in 0..FilesTaken /\ f \in Nat
    <3>1. f \in 0..FilesTaken /\ f \in Nat
      BY <1>3
    <3>2. u[f] = u[f - 1] \o Part(f)
      BY <1>2
    <3> QED BY <2>0, <3>1, <3>2
  <2>2. t \in Seq(Passages) /\ EvenScores(t) /\ EachChunkOnce(t) /\ \A k \in 1..Len(t) : FileAt(t, k) = f
    BY PartsAre DEF FileAt
  <2> HIDE DEF s, t
  <2>3. s \in Seq(Passages) /\ EvenScores(s) /\ EachChunkOnce(s) /\ \A k \in 1..Len(s) : FileAt(s, k) \in 1..f - 1
    BY <2>1 DEF OfFirstFiles
  <2>4. w \in Seq(Passages)
    BY <2>2, <2>3, PutTogether
  <2>5. \A k \in 1..Len(w) : \/ k \in 1..Len(s) /\ w[k] = s[k]
                             \/ k - Len(s) \in 1..Len(t) /\ w[k] = t[k - Len(s)]
    BY <2>2, <2>3, PutTogether
  <2>6. Len(s) \in Nat /\ Len(t) \in Nat /\ Len(w) \in Nat
    BY <2>2, <2>3, <2>4, LenProperties
  <2> HIDE DEF w
  <2>7. ASSUME NEW k \in 1..Len(w)
        PROVE  \/ k \in 1..Len(s) /\ w[k] = s[k] /\ FileAt(w, k) \in 1..f - 1
               \/ k - Len(s) \in 1..Len(t) /\ w[k] = t[k - Len(s)] /\ FileAt(w, k) = f
    BY SMTT(30), <2>2, <2>3, <2>5 DEF FileAt
  <2>8. EvenScores(w)
    BY <2>2, <2>3, <2>5 DEF EvenScores
  <2>9. ~(f \in 1..f - 1)
    BY <2>1
  <2>10. EachChunkOnce(w)
    <3> SUFFICES ASSUME NEW k \in 1..Len(w), NEW l \in 1..Len(w), w[k].chunk = w[l].chunk PROVE k = l
      BY DEF EachChunkOnce
    <3>1. FileAt(w, k) = FileAt(w, l)
      BY DEF FileAt
    <3>2. CASE k \in 1..Len(s) /\ w[k] = s[k] /\ l \in 1..Len(s) /\ w[l] = s[l]
      BY <2>3, <3>2 DEF EachChunkOnce
    <3>3. CASE k - Len(s) \in 1..Len(t) /\ w[k] = t[k - Len(s)] /\ l - Len(s) \in 1..Len(t) /\ w[l] = t[l - Len(s)]
      <4>1. k - Len(s) = l - Len(s)
        BY <2>2, <3>3 DEF EachChunkOnce
      <4>2. k \in Int /\ l \in Int
        BY <2>6
      <4> QED BY <2>6, <4>1, <4>2
    <3> QED BY <2>7, <2>9, <3>1, <3>2, <3>3
  <2>11. \A k \in 1..Len(w) : FileAt(w, k) \in 1..f
    <3>1. f \in 1..f /\ \A e \in 1..f - 1 : e \in 1..f
      BY <2>1
    <3> QED BY <2>7, <3>1
  <2>12. OfFirstFiles(w, f)
    BY <2>4, <2>8, <2>10, <2>11 DEF OfFirstFiles
  <2> QED BY <2>1, <2>12
<1> HIDE DEF S
<1>6. \A f \in 0..FilesTaken : f \in S
  BY <1>3, <1>4, <1>5, UpToANumber
<1>7. FilesTaken \in S
  BY <1>3, <1>6
<1> QED BY <1>2, <1>7 DEF S, OfFirstFiles

-----------------------------------------------------------------------------
(* Markers. *)

\* The new markers lead to the passages the known ones named; every citation is used,
\* none listed twice.
Leads(new, cs, known, ps) ==
  /\ Len(new) = Len(known)
  /\ \A i \in DOMAIN known : new[i] \in DOMAIN cs /\ cs[new[i]] = ps[known[i]]
  /\ \A k \in DOMAIN cs : \E i \in DOMAIN known : new[i] = k
  /\ \A k, l \in DOMAIN cs : cs[k] = cs[l] => k = l

\* normalize_answer_citations renumbers without changing what a marker means.
LEMMA CitationsKeepMarkers ==
  ASSUME NEW ms \in Seq(Nat), NEW ps \in Seq(Passages), EachChunkOnce(ps)
  PROVE  Leads(Renumbered(ms, Len(ps)), Citations(ms, ps), Known(ms, Len(ps)), ps)
<1> DEFINE n == Len(ps)
           S == {i \in DOMAIN ms : ms[i] \in 1..n /\ \A j \in 1..i - 1 : ms[j] # ms[i]}
           K == {i \in DOMAIN ms : ms[i] \in 1..n}
           a == Cardinality(S)
           b == Cardinality(K)
           used == FirstUses(ms, n)
           known == Known(ms, n)
           new == Renumbered(ms, n)
           cs == Citations(ms, ps)
<1>1. DOMAIN ms = 1..Len(ms) /\ Len(ms) \in Nat /\ n \in Nat
  BY LenProperties
<1>2. IsFiniteSet(DOMAIN ms)
  BY <1>1, FS_Interval
<1>3. S \in SUBSET Nat /\ IsFiniteSet(S) /\ K \in SUBSET Nat /\ IsFiniteSet(K)
  <2>1. S \in SUBSET DOMAIN ms /\ K \in SUBSET DOMAIN ms /\ \A i \in DOMAIN ms : i \in Nat
    BY <1>1
  <2> HIDE DEF S, K
  <2> QED BY <1>2, <2>1, FS_Subset
<1>4. a \in Nat /\ b \in Nat
  <2> HIDE DEF S, K
  <2> QED BY <1>3, FS_CardinalityType
<1>5. used = InOrder(ms, S) /\ known = InOrder(ms, K)
  BY DEF FirstUses, Known
<1>6. \A i : i \in S <=> i \in DOMAIN ms /\ ms[i] \in 1..n /\ \A j \in 1..i - 1 : ms[j] # ms[i]
  OBVIOUS
<1>7. \A i : i \in K <=> i \in DOMAIN ms /\ ms[i] \in 1..n
  OBVIOUS
<1>8. new = [i \in DOMAIN known |-> CHOOSE k \in DOMAIN used : used[k] = known[i]]
  BY DEF Renumbered
<1>9. cs = [k \in DOMAIN used |-> ps[used[k]]]
  BY DEF Citations
<1> HIDE DEF S, K, used, known, new, cs, n
<1>10. PICK p : Lists(p, ms, S)
  BY <1>3, InOrderIs
<1>11. PICK r : Lists(r, ms, K)
  BY <1>3, InOrderIs
<1>12. /\ p \in [1..a -> S] /\ used = [k \in 1..a |-> ms[p[k]]]
       /\ \A i \in S : \E k \in 1..a : p[k] = i
       /\ \A k, l \in 1..a : k < l <=> p[k] < p[l]
  BY <1>5, <1>10 DEF Lists
<1>13. /\ r \in [1..b -> K] /\ known = [k \in 1..b |-> ms[r[k]]]
       /\ \A i \in K : \E k \in 1..b : r[k] = i
  BY <1>5, <1>11 DEF Lists
<1> HIDE DEF a, b
<1>14. DOMAIN used = 1..a /\ DOMAIN known = 1..b
  BY <1>12, <1>13
<1>15. \A k \in 1..a : p[k] \in S /\ p[k] \in Nat /\ used[k] = ms[p[k]] /\ used[k] \in 1..n
  BY <1>3, <1>6, <1>12
<1>16. \A k \in 1..b : r[k] \in K /\ known[k] = ms[r[k]] /\ known[k] \in 1..n
  BY <1>7, <1>13
\* A marker is listed at its first use only.
<1>17. ASSUME NEW k \in 1..a, NEW l \in 1..a, used[k] = used[l] PROVE k = l
  <2>1. p[k] \in S /\ p[l] \in S /\ p[k] \in Nat /\ p[l] \in Nat /\ ms[p[k]] = ms[p[l]]
    BY <1>15, <1>17
  <2>2. ~(p[k] < p[l])
    <3> SUFFICES ASSUME p[k] < p[l] PROVE FALSE
      OBVIOUS
    <3>1. p[k] \in 1..Len(ms)
      BY <1>1, <1>6, <2>1
    <3>2. p[k] \in 1..p[l] - 1
      BY <1>1, <2>1, <3>1
    <3> QED BY <1>6, <2>1, <3>2
  <2>3. ~(p[l] < p[k])
    <3> SUFFICES ASSUME p[l] < p[k] PROVE FALSE
      OBVIOUS
    <3>1. p[l] \in 1..Len(ms)
      BY <1>1, <1>6, <2>1
    <3>2. p[l] \in 1..p[k] - 1
      BY <1>1, <2>1, <3>1
    <3> QED BY <1>6, <2>1, <3>2
  <2>4. ~(k < l) /\ ~(l < k)
    BY <1>12, <2>2, <2>3
  <2> QED BY <1>4, <2>4
\* Every known marker has a first use.
<1>18. ASSUME NEW i \in K PROVE \E k \in 1..a : used[k] = ms[i]
  <2> DEFINE Same == {j \in DOMAIN ms : ms[j] = ms[i]}
  <2>1. Same \in SUBSET Nat /\ i \in Same
    BY <1>1, <1>7
  <2>2. PICK j \in Same : \A l \in Same : j <= l
    <3> HIDE DEF Same
    <3> QED BY <2>1, LeastNat
  <2>3. j \in 1..Len(ms) /\ ms[j] = ms[i] /\ ms[j] \in 1..n
    BY <1>1, <1>7, <2>2
  <2>4. ASSUME NEW l \in 1..j - 1 PROVE ms[l] # ms[j]
    <3>1. l \in 1..Len(ms) /\ ~(j <= l)
      BY <1>1, <2>3
    <3> QED BY <1>1, <2>2, <2>3, <3>1
  <2>5. j \in S
    BY <1>1, <1>6, <2>3, <2>4
  <2> QED BY <1>12, <1>15, <2>3, <2>5
<1>19. ASSUME NEW i \in 1..b
       PROVE  new[i] \in 1..a /\ used[new[i]] = known[i]
  <2>1. \E k \in 1..a : used[k] = known[i]
    BY <1>16, <1>18
  <2>2. new[i] = CHOOSE k \in 1..a : used[k] = known[i]
    BY <1>8, <1>14
  <2> QED BY <2>1, <2>2
<1>20. DOMAIN cs = 1..a /\ \A k \in 1..a : cs[k] = ps[used[k]]
  BY <1>9, <1>14
<1>21. Len(new) = Len(known)
  <2>1. DOMAIN new = 1..b
    BY <1>8, <1>14
  <2>2. new \in [1..b -> 1..a] /\ known \in [1..b -> 1..n]
    BY <1>8, <1>13, <1>14, <1>16, <1>19
  <2> QED BY <1>4, <2>2, FunctionIsSequence
<1>22. \A i \in DOMAIN known : new[i] \in DOMAIN cs /\ cs[new[i]] = ps[known[i]]
  BY <1>14, <1>19, <1>20
<1>23. ASSUME NEW k \in DOMAIN cs PROVE \E i \in DOMAIN known : new[i] = k
  <2>1. k \in 1..a /\ p[k] \in K
    BY <1>6, <1>7, <1>15, <1>20, <1>23
  <2>2. PICK i \in 1..b : r[i] = p[k]
    BY <1>13, <2>1
  <2>3. used[new[i]] = used[k] /\ new[i] \in 1..a
    BY <1>15, <1>16, <1>19, <2>1, <2>2
  <2> QED BY <1>14, <1>17, <2>1, <2>2, <2>3
<1>24. ASSUME NEW k \in DOMAIN cs, NEW l \in DOMAIN cs, cs[k] = cs[l] PROVE k = l
  <2>1. k \in 1..a /\ l \in 1..a /\ ps[used[k]] = ps[used[l]]
    BY <1>20, <1>24
  <2>2. used[k] = used[l]
    BY <1>15, <2>1 DEF EachChunkOnce, n
  <2> QED BY <1>17, <2>1, <2>2
<1>25. Leads(new, cs, known, ps)
  BY <1>21, <1>22, <1>23, <1>24 DEF Leads
<1> QED BY <1>25 DEF new, cs, known, n

\* What was gathered, what was selected from, and what the model was shown agree.
MarkersInv ==
  /\ size \in [Chunks -> Nat]
  /\ step \in {"select", "draft", "cite"} => cands \in Seq(Passages) /\ EachChunkOnce(cands)
  /\ step \in {"draft", "cite"} => shown = cands
  /\ step = "cite" => markers \in Seq(Nat)

\* Before the question there is nothing to say.
LEMMA InitialM == InitE => MarkersInv
<1> SUFFICES ASSUME InitE PROVE MarkersInv
  OBVIOUS
<1>1. step \in {"merge", "gather"}
  BY DEF InitE
<1>2. size \in [Chunks -> Nat]
  BY EvidenceAssumption DEF InitE
<1> QED BY <1>1, <1>2 DEF MarkersInv

\* Once the passages are chosen, each chunk counts with the length it was found with.
LEMMA ForgottenSize == InputsForgotten => size' \in [Chunks -> Nat]
BY EvidenceAssumption DEF InputsForgotten, Chunks, Files

\* Every step keeps it.
LEMMA MarkersStep ==
  ASSUME EvidenceInv, MarkersInv, [NextE]_evars
  PROVE  MarkersInv'
<1>0. size \in [Chunks -> Nat]
  BY DEF MarkersInv
<1>1. CASE Merge \/ Rerank
  <2>1. step' \in {"rerank", "grade"} /\ size' = size
    BY <1>1 DEF Merge, Rerank
  <2> QED BY <1>0, <2>1 DEF MarkersInv
<1>2. CASE Grade
  <2>1. step = "grade" /\ size' = size /\ step' \in {"abstained", "select"}
    BY <1>2 DEF Grade
  <2>2. ListsAreRanked /\ cands = Reranked(Merged)
    BY <2>1 DEF EvidenceInv
  <2>3. cands \in Seq(Found) /\ Distinct(cands)
    BY <2>2, RerankedFacts
  <2>4. DOMAIN cands = 1..Len(cands) /\ Len(cands) \in Nat /\ \A i \in 1..Len(cands) : cands[i] \in Found
    BY <2>3, LenProperties, ElementOfSeq
  <2>5. Merged \in Seq(Found)
    BY <2>2, MergedFacts
  <2> DEFINE w == [i \in 1..Len(cands) |->
                     [chunk |-> cands[i], len |-> size[cands[i]], score |-> Weighted(cands[i], Merged)]]
  <2>6. ASSUME NEW i \in 1..Len(cands) PROVE w[i] \in Passages /\ w[i].chunk = cands[i]
    <3>1. cands[i] \in Chunks
      BY <2>4 DEF Found
    <3>2. Weighted(cands[i], Merged) \in Nat
      BY <2>2, <2>5, <3>1, WeightedIs
    <3>3. size[cands[i]] \in Nat
      BY <1>0, <3>1
    <3> QED BY <3>1, <3>2, <3>3 DEF Passages
  <2>7. w \in [1..Len(cands) -> Passages]
    BY <2>6
  <2>8. step' = "select" => cands' = w
    BY <1>2, <2>4 DEF Grade
  <2> HIDE DEF w
  <2>9. w \in Seq(Passages) /\ Len(w) = Len(cands)
    BY <2>4, <2>7, FunctionIsSequence
  <2>10. EachChunkOnce(w)
    BY <2>3, <2>6, <2>9 DEF EachChunkOnce, Distinct
  <2> QED BY <1>0, <2>1, <2>8, <2>9, <2>10 DEF MarkersInv, EachChunkOnce
<1>3. CASE Select
  <2>1. step = "select" /\ cands' = Selected(cands, Room) /\ shown' = Selected(cands, Room)
        /\ step' \in {"declined", "draft"} /\ InputsForgotten
    BY <1>3 DEF Select
  <2>2. cands \in Seq(Passages) /\ EachChunkOnce(cands)
    BY <2>1 DEF MarkersInv
  <2>3. Drawn(Selected(cands, Room), cands)
    BY <2>2, RoomsAreNumbers, SelectedIsDrawn
  <2>4. cands' \in Seq(Passages) /\ EachChunkOnce(cands')
    BY <2>1, <2>2, <2>3 DEF Drawn
  <2> QED BY <2>1, <2>4, ForgottenSize DEF MarkersInv, EachChunkOnce
<1>4. CASE Gather
  <2>1. InputsForgotten /\ step' \in {"failed", "abstained", "draft"}
    BY <1>4 DEF Gather
  <2>2. ASSUME step' = "draft" PROVE cands' \in Seq(Passages) /\ EachChunkOnce(cands') /\ shown' = cands'
    <3>1. ~(SummaryBudget < MinBudget) /\ cands' = Selected(Gathered, Room)
          /\ shown' = Selected(Selected(Gathered, Room), Room)
      BY <1>4, <2>2 DEF Gather
    <3>2. SummaryBudget \in Nat
      <4>1. SummaryBudget \in Int /\ MinBudget \in Nat
        BY RoomsAreNumbers, EvidenceAssumption
      <4> QED BY <3>1, <4>1
    <3>3. Gathered \in Seq(Passages) /\ EvenScores(Gathered) /\ EachChunkOnce(Gathered)
      BY <1>0, <3>2, GatheredFacts
    <3>4. shown' = cands'
      BY <3>1, <3>3, RoomsAreNumbers, SelectedAgain
    <3>5. Drawn(Selected(Gathered, Room), Gathered)
      BY <3>3, RoomsAreNumbers, SelectedIsDrawn
    <3> QED BY <3>1, <3>3, <3>4, <3>5 DEF Drawn
  <2> QED BY <2>1, <2>2, ForgottenSize DEF MarkersInv, EachChunkOnce
<1>5. CASE Draft
  <2>1. /\ step = "draft" /\ UNCHANGED <<size, cands, shown>> /\ step' \in {"cite", "failed", "draft"}
        /\ step' = "cite" => \E n \in 0..DraftMarkers : markers' \in [1..n -> 0..Len(shown) + 1]
    BY <1>5 DEF Draft
  <2>2. ASSUME step' = "cite" PROVE markers' \in Seq(Nat)
    <3>1. PICK n \in 0..DraftMarkers : markers' \in [1..n -> 0..Len(shown) + 1]
      BY <2>1, <2>2
    <3>2. n \in Nat /\ Len(shown) \in Nat
      <4>1. DraftMarkers \in Nat /\ shown \in Seq(Passages)
        BY <2>1, EvidenceAssumption DEF MarkersInv
      <4> QED BY <4>1, LenProperties
    <3>3. \A e \in 0..Len(shown) + 1 : e \in Nat
      BY <3>2
    <3>4. markers' \in [1..n -> Nat]
      BY <3>1, <3>3
    <3> QED BY <3>2, <3>4, FunctionIsSequence
  <2> QED BY <2>1, <2>2 DEF MarkersInv, EachChunkOnce
<1>6. CASE DraftFails \/ Decline \/ Cite
  <2>1. step' \in {"failed", "declined", "answered"} /\ size' = size
    BY <1>6 DEF DraftFails, Decline, Cite
  <2> QED BY <1>0, <2>1 DEF MarkersInv
<1>7. CASE UNCHANGED evars
  BY <1>7 DEF evars, MarkersInv, EachChunkOnce
<1> QED BY <1>1, <1>2, <1>3, <1>4, <1>5, <1>6, <1>7 DEF NextE

\* The invariant holds.
LEMMA MarkersInvariant == SpecE => []MarkersInv
<1>1. InitE => MarkersInv
  BY InitialM
<1>2. EvidenceInv /\ MarkersInv /\ [NextE]_evars => MarkersInv'
  BY MarkersStep
<1> QED BY <1>1, <1>2, EvidenceInvariant, PTL DEF SpecE

\* The step that writes the citations.
CitesKeepMarkers ==
  step = "cite" =>
    LET known == Known(markers, Len(shown))
    IN  /\ Len(markers') = Len(known)
        /\ \A i \in DOMAIN known : markers'[i] \in DOMAIN cites' /\ cites'[markers'[i]] = shown[known[i]]
        /\ \A k \in DOMAIN cites' : \E i \in DOMAIN known : markers'[i] = k
        /\ \A k, l \in DOMAIN cites' : cites'[k] = cites'[l] => k = l

\* Every marker of an answer leads to the passage the model saw under the number it wrote,
\* and every citation is used and listed once (normalize_answer_citations after two
\* selections), for any passages, budgets and markers.
THEOREM MarkersLeadToTheirPassage == SpecE => MarkersKeepTheirPassage
<1>1. ASSUME MarkersInv, NextE PROVE CitesKeepMarkers
  <2> SUFFICES ASSUME step = "cite" PROVE Leads(markers', cites', Known(markers, Len(shown)), shown)
    BY DEF CitesKeepMarkers, Leads
  <2>1. shown = cands /\ cands \in Seq(Passages) /\ EachChunkOnce(cands) /\ markers \in Seq(Nat)
    BY <1>1 DEF MarkersInv
  <2>2. Cite
    BY <1>1 DEF NextE, Merge, Rerank, Grade, Select, Gather, Draft, DraftFails, Decline
  <2>3. markers' = Renumbered(markers, Len(cands)) /\ cites' = Citations(markers, cands)
    BY <2>2 DEF Cite
  <2> QED BY <2>1, <2>3, CitationsKeepMarkers
<1>2. MarkersInv /\ [NextE]_evars => [CitesKeepMarkers]_evars
  BY <1>1
<1>3. MarkersKeepTheirPassage <=> [][CitesKeepMarkers]_evars
  BY DEF MarkersKeepTheirPassage, CitesKeepMarkers
<1> QED BY <1>2, <1>3, MarkersInvariant, PTL DEF SpecE

-----------------------------------------------------------------------------
(* How long a prompt is. *)

\* A room holds a header, a number and the shortest text that is left of a cut passage.
HoldsAPassage(room) == room >= Header + Digits(1) + 4

\* What is selected for a room fits it.
LEMMA FittingFits ==
  ASSUME NEW s \in Seq(Passages), NEW room \in Int, HoldsAPassage(room), Margin >= 1
  PROVE  Used(Fitting(s, room), Len(Fitting(s, room))) <= room
<1> DEFINE x == Fitting(s, room)
<1>1. Len(s) \in Nat /\ (s # <<>> => Len(s) # 0)
  BY LenProperties, EmptySeq
<1>2. x \in Seq(Passages) /\ Len(x) \in 0..Len(s) /\ Len(x) \in Nat
  <2>1. x \in Seq(Passages) /\ Len(x) \in 0..Len(s)
    BY FittingKeeps
  <2> QED BY <2>1, LenProperties
<1>3. Header \in Nat /\ Margin \in Nat /\ (Digits(1) = 1 \/ Digits(1) = 2)
  BY EvidenceAssumption DEF Digits
<1>4. room >= 0
  BY <1>3 DEF HoldsAPassage
<1>5. ASSUME s # <<>>, x = <<Truncated(s[1], room)>> PROVE Used(x, Len(x)) <= room
  <2> DEFINE t == Truncated(s[1], room)
             b == room - Margin - Header - 1
  <2>1. 1 \in 1..Len(s) /\ s[1] \in Passages
    BY <1>1, <1>5, ElementOfSeq
  <2>2. t \in Passages /\ t.len <= IF b >= 4 THEN b ELSE 4
    BY <2>1, TruncatedIs
  <2>3. b \in Int
    BY <1>3
  <2> HIDE DEF t, x
  <2>4. x[1] = t /\ Len(x) = 1
    BY <1>5 DEF t
  <2>5. Used(x, 1) = Used(x, 0) + 0 + Block(1, x[1]) /\ Used(x, 0) = 0
    <3>1. 1 \in 1..Len(x) /\ 1 - 1 = 0
      BY <2>4
    <3> QED BY <1>2, <3>1, UsedIs
  <2>6. Block(1, t) \in Nat /\ Block(1, t) = Header + Digits(1) + t.len /\ t.len \in Nat
    BY <2>2, BlockIs DEF Block, Passages
  <2>7. Header + Digits(1) + t.len <= room
    BY <1>3, <2>2, <2>3, <2>6 DEF HoldsAPassage
  <2> QED BY <2>4, <2>5, <2>6, <2>7
<1>6. ASSUME NEW m, Fits(s, room, m), x = Upto(s, m) PROVE Used(x, Len(x)) <= room
  <2>1. m \in Nat /\ m <= Len(s)
    BY <1>1, <1>6 DEF Fits
  <2> HIDE DEF x
  <2>2. Len(x) = m /\ Len(x) <= Len(s) /\ \A k \in 1..Len(x) : x[k] = s[k]
    <3>1. Len(x) = (IF m < Len(s) THEN m ELSE Len(s)) /\ \A k \in 1..Len(x) : x[k] = s[k]
      BY <1>6, <2>1, UptoIs
    <3> QED BY <1>1, <2>1, <3>1
  <2>3. Used(x, m) = Used(s, m)
    <3>1. \A k \in 0..Len(x) : Used(x, k) = Used(s, k)
      BY <1>2, <2>2, UsedOfPrefix
    <3>2. m \in 0..Len(x)
      BY <2>1, <2>2
    <3> QED BY <3>1, <3>2
  <2>4. CASE m = 0
    BY <1>4, <2>2, <2>3, <2>4, UsedIs
  <2>5. CASE m # 0
    <3>1. m \in 1..m
      BY <2>1, <2>5
    <3> QED BY <1>6, <2>2, <2>3, <3>1 DEF Fits, AllFit
  <2> QED BY <2>4, <2>5
<1> HIDE DEF x
<1>7. \/ s # <<>> /\ x = <<Truncated(s[1], room)>>
      \/ \E m : Fits(s, room, m) /\ x = Upto(s, m)
  BY FittingIs DEF x
<1>8. Used(x, Len(x)) <= room
  BY <1>5, <1>6, <1>7
<1> QED BY <1>8 DEF x

\* A prompt grows with every passage.
LEMMA UsedGrows ==
  ASSUME NEW s \in Seq(Passages)
  PROVE  \A k \in 0..Len(s) : Used(s, k) <= Used(s, Len(s))
<1> DEFINE n == Len(s)
           S == {i \in 0..n : \A k \in 0..i : Used(s, k) <= Used(s, i)}
<1>1. n \in Nat
  BY LenProperties
<1>2. /\ \A i \in 0..n : Used(s, i) \in Nat
      /\ \A i \in 1..n : Used(s, i) = Used(s, i - 1) + (IF i = 1 THEN 0 ELSE 2) + Block(i, s[i])
  BY UsedIs
<1>3. \A i \in 1..n : Block(i, s[i]) \in Nat
  BY ElementOfSeq, BlockIs
<1> HIDE DEF n
<1>4. 0 \in S
  <2>1. 0 \in 0..n /\ \A k \in 0..0 : k = 0
    BY <1>1
  <2> QED BY <1>2, <2>1
<1>5. ASSUME NEW i \in 1..n, i - 1 \in S PROVE i \in S
  <2>1. i \in 0..n /\ i - 1 \in 0..n
    BY <1>1
  <2>2. Used(s, i - 1) <= Used(s, i)
    BY <1>2, <1>3, <2>1
  <2>3. ASSUME NEW k \in 0..i PROVE Used(s, k) <= Used(s, i)
    <3>1. k \in 0..n /\ (k = i \/ k \in 0..i - 1)
      BY <1>1, <2>1
    <3>2. k \in 0..i - 1 => Used(s, k) <= Used(s, i - 1)
      BY <1>5
    <3> QED BY <1>2, <2>1, <2>2, <3>1, <3>2
  <2> QED BY <2>1, <2>3
<1> HIDE DEF S
<1>6. \A i \in 0..n : i \in S
  BY <1>1, <1>4, <1>5, UpToANumber
<1>7. n \in S
  BY <1>1, <1>6
<1> QED BY <1>7 DEF S, n

\* What a prompt is made of.
LEMMA PassageAt ==
  ASSUME NEW s \in Seq(Passages)
  PROVE  Len(s) \in Nat /\ \A i \in 1..Len(s) : s[i] \in Passages /\ s[i].len \in Nat
<1>1. Len(s) \in Nat /\ \A i \in 1..Len(s) : s[i] \in Passages
  BY LenProperties, ElementOfSeq
<1>2. \A p \in Passages : p.len \in Nat
  BY DEF Passages
<1> QED BY <1>1, <1>2

\* The characters of the first n texts, one by one.
Characters(s, n) == UNION {{k} \X (1..s[k].len) : k \in 1..n}

\* There are as many as the texts are long.
LEMMA CharactersAre ==
  ASSUME NEW s \in Seq(Passages)
  PROVE  /\ Cardinality(Characters(s, 0)) = 0
         /\ \A i \in 0..Len(s) : IsFiniteSet(Characters(s, i)) /\ Cardinality(Characters(s, i)) \in Nat
         /\ \A i \in 1..Len(s) : Cardinality(Characters(s, i)) = Cardinality(Characters(s, i - 1)) + s[i].len
<1> DEFINE n == Len(s)
           S == {i \in 0..n : IsFiniteSet(Characters(s, i))}
           New(i) == {i} \X (1..s[i].len)
<1>1. n \in Nat /\ \A i \in 1..n : s[i].len \in Nat
  BY PassageAt
<1> HIDE DEF n
<1>2. Characters(s, 0) = {}
  BY DEF Characters
<1>3. ASSUME NEW i \in 1..n PROVE Characters(s, i) = Characters(s, i - 1) \cup New(i)
  <2>1. \A k : k \in 1..i <=> k \in 1..i - 1 \/ k = i
    BY <1>1
  <2> QED BY <2>1 DEF Characters
<1>4. ASSUME NEW i \in 1..n PROVE IsFiniteSet(New(i)) /\ Cardinality(New(i)) = s[i].len
  <2> DEFINE L == s[i].len
             I == 1..L
  <2>1. IsFiniteSet({i}) /\ Cardinality({i}) = 1
    BY FS_Singleton
  <2>2. L \in Nat
    BY <1>1
  <2> HIDE DEF L
  <2>3. IsFiniteSet(I) /\ Cardinality(I) = IF 1 > L THEN 0 ELSE L - 1 + 1
    <3>1. 1 \in Int /\ L \in Int
      BY <2>2
    <3> QED BY <3>1, FS_Interval
  <2>4. Cardinality(I) = L
    BY <2>2, <2>3
  <2> HIDE DEF I
  <2>5. IsFiniteSet({i} \X I) /\ Cardinality({i} \X I) = 1 * L
    BY <2>1, <2>3, <2>4, FS_Product
  <2>6. 1 * L = L
    BY <2>2
  <2> QED BY <2>5, <2>6 DEF I, L
<1>5. ASSUME NEW i \in 1..n PROVE Characters(s, i - 1) \cap New(i) = {}
  <2>1. ~(i \in 1..i - 1)
    BY <1>1
  <2> QED BY <2>1 DEF Characters
<1> HIDE DEF New
<1>6. 0 \in S
  <2>1. IsFiniteSet(Characters(s, 0))
    BY <1>2, FS_EmptySet
  <2>2. 0 \in 0..n
    BY <1>1
  <2> QED BY <2>1, <2>2
<1>7. ASSUME NEW i \in 1..n, i - 1 \in S PROVE i \in S
  <2>1. IsFiniteSet(Characters(s, i - 1)) /\ i \in 0..n
    BY <1>1, <1>7
  <2>2. IsFiniteSet(Characters(s, i - 1) \cup New(i))
    BY <1>4, <2>1, FS_Union
  <2> QED BY <1>3, <2>1, <2>2
<1> HIDE DEF S
<1>8. \A i \in 0..n : i \in S
  BY <1>1, <1>6, <1>7, UpToANumber
<1>9. \A i \in 0..n : IsFiniteSet(Characters(s, i)) /\ Cardinality(Characters(s, i)) \in Nat
  <2>1. \A i \in 0..n : IsFiniteSet(Characters(s, i))
    BY <1>8 DEF S
  <2> QED BY <2>1, FS_CardinalityType
<1>10. ASSUME NEW i \in 1..n
       PROVE  Cardinality(Characters(s, i)) = Cardinality(Characters(s, i - 1)) + s[i].len
  <2>1. i - 1 \in 0..n
    BY <1>1
  <2>2. Cardinality(Characters(s, i - 1) \cup New(i))
          = Cardinality(Characters(s, i - 1)) + Cardinality(New(i)) - Cardinality(Characters(s, i - 1) \cap New(i))
    BY <1>4, <1>9, <2>1, FS_Union
  <2>3. Cardinality(Characters(s, i - 1) \cap New(i)) = 0
    BY <1>5, FS_EmptySet
  <2>4. Cardinality(Characters(s, i - 1)) \in Nat /\ s[i].len \in Nat
    BY <1>1, <1>9, <2>1
  <2> DEFINE a == Cardinality(Characters(s, i - 1))
             b == s[i].len
  <2>5. Cardinality(Characters(s, i)) = a + b - 0
    BY <1>3, <1>4, <2>2, <2>3
  <2>6. a \in Nat /\ b \in Nat
    BY <2>4
  <2> HIDE DEF a, b
  <2>7. a + b - 0 = a + b
    BY <2>6
  <2>8. Cardinality(Characters(s, i)) = a + b
    BY <2>5, <2>7
  <2> QED BY <2>8 DEF a, b
<1>11. Cardinality(Characters(s, 0)) = 0
  BY <1>2, FS_EmptySet
<1> QED BY <1>9, <1>10, <1>11 DEF n

\* Apart from the texts, two prompts of as many passages are as long.
LEMMA SameOverhead ==
  ASSUME NEW s \in Seq(Passages), NEW t \in Seq(Passages), Len(s) = Len(t)
  PROVE  \A i \in 0..Len(s) : Used(s, i) - Cardinality(Characters(s, i)) = Used(t, i) - Cardinality(Characters(t, i))
<1> DEFINE n == Len(s)
           C(x, i) == Cardinality(Characters(x, i))
           S == {i \in 0..n : Used(s, i) - C(s, i) = Used(t, i) - C(t, i)}
<1>1. n \in Nat /\ \A i \in 1..n : s[i].len \in Nat /\ t[i].len \in Nat
  BY PassageAt
<1>2. /\ C(s, 0) = 0 /\ C(t, 0) = 0 /\ Used(s, 0) = 0 /\ Used(t, 0) = 0
      /\ \A i \in 0..n : C(s, i) \in Nat /\ C(t, i) \in Nat /\ Used(s, i) \in Nat /\ Used(t, i) \in Nat
      /\ \A i \in 1..n : C(s, i) = C(s, i - 1) + s[i].len /\ C(t, i) = C(t, i - 1) + t[i].len
  BY UsedIs, CharactersAre
<1>3. \A i \in 1..n : /\ Used(s, i) = Used(s, i - 1) + (IF i = 1 THEN 0 ELSE 2) + (Header + Digits(i) + s[i].len)
                      /\ Used(t, i) = Used(t, i - 1) + (IF i = 1 THEN 0 ELSE 2) + (Header + Digits(i) + t[i].len)
  BY UsedIs DEF Block
<1>4. Header \in Nat /\ \A i : Digits(i) \in Nat
  BY EvidenceAssumption DEF Digits
<1> HIDE DEF n, C
<1>5. 0 \in S
  BY <1>1, <1>2
<1>6. ASSUME NEW i \in 1..n, i - 1 \in S PROVE i \in S
  <2>1. i \in 0..n /\ i - 1 \in 0..n
    BY <1>1
  <2>2. Used(s, i - 1) - C(s, i - 1) = Used(t, i - 1) - C(t, i - 1)
    BY <1>6
  <2> DEFINE a == Used(s, i - 1)
             b == Used(t, i - 1)
             c == C(s, i - 1)
             d == C(t, i - 1)
             e == IF i = 1 THEN 0 ELSE 2
             h == Header + Digits(i)
             p == s[i].len
             q == t[i].len
  <2>3. /\ a \in Nat /\ b \in Nat /\ c \in Nat /\ d \in Nat /\ e \in Nat /\ h \in Nat /\ p \in Nat /\ q \in Nat
        /\ a - c = b - d
    <3>1. a \in Nat /\ b \in Nat /\ c \in Nat /\ d \in Nat
      BY <1>2, <2>1
    <3>2. e \in Nat /\ h \in Nat
      BY <1>4
    <3>3. p \in Nat /\ q \in Nat
      BY <1>1
    <3> QED BY <2>2, <3>1, <3>2, <3>3
  <2>4. Used(s, i) = a + e + (h + p) /\ Used(t, i) = b + e + (h + q) /\ C(s, i) = c + p /\ C(t, i) = d + q
    BY <1>2, <1>3
  <2> HIDE DEF a, b, c, d, e, h, p, q
  <2>5. (a + e + (h + p)) - (c + p) = (b + e + (h + q)) - (d + q)
    BY <2>3
  <2>6. Used(s, i) - C(s, i) = Used(t, i) - C(t, i)
    BY <2>4, <2>5
  <2> QED BY <2>1, <2>6
<1> HIDE DEF S
<1>7. \A i \in 0..n : i \in S
  BY <1>1, <1>5, <1>6, UpToANumber
<1> QED BY <1>7 DEF S, n, C

\* The order of the passages does not matter to the length of a prompt.
LEMMA AnyOrderIsAsLong ==
  ASSUME NEW s \in Seq(Passages), NEW q, Rearranges(q, Len(s))
  PROVE  LET t == [k \in 1..Len(s) |-> s[q[k]]]
         IN  t \in Seq(Passages) /\ Len(t) = Len(s) /\ Used(t, Len(s)) = Used(s, Len(s))
<1> DEFINE n == Len(s)
           t == [k \in 1..n |-> s[q[k]]]
<1>1. n \in Nat /\ (\A k \in 1..n : q[k] \in 1..n) /\ (\A i \in 1..n : \E k \in 1..n : q[k] = i)
      /\ \A k, l \in 1..n : q[k] = q[l] => k = l
  BY LenProperties DEF Rearranges
<1>2. \A k \in 1..n : s[q[k]] \in Passages
  BY <1>1, ElementOfSeq
<1>3. t \in [1..n -> Passages] /\ \A k \in 1..n : t[k] = s[q[k]]
  BY <1>2
<1> HIDE DEF n, t
<1>4. t \in Seq(Passages) /\ Len(t) = n
  BY <1>1, <1>3, FunctionIsSequence
<1> DEFINE A == Characters(t, n)
           B == Characters(s, n)
           f == [e \in A |-> <<q[e[1]], e[2]>>]
<1>5. \A e : e \in A <=> \E k \in 1..n : \E c \in 1..s[q[k]].len : e = <<k, c>>
  BY <1>3 DEF Characters
<1>6. \A e : e \in B <=> \E k \in 1..n : \E c \in 1..s[k].len : e = <<k, c>>
  BY DEF Characters
<1> HIDE DEF A, B
<1>7. ASSUME NEW e \in A PROVE f[e] \in B
  <2>1. PICK k \in 1..n : \E c \in 1..s[q[k]].len : e = <<k, c>>
    BY <1>5
  <2>2. PICK c \in 1..s[q[k]].len : e = <<k, c>>
    BY <2>1
  <2>3. f[e] = <<q[k], c>> /\ q[k] \in 1..n
    BY <1>1, <2>2
  <2> QED BY <1>6, <2>3
<1>8. ASSUME NEW d \in A, NEW e \in A, f[d] = f[e] PROVE d = e
  <2>1. PICK k \in 1..n : \E c \in 1..s[q[k]].len : d = <<k, c>>
    BY <1>5
  <2>2. PICK l \in 1..n : \E c \in 1..s[q[l]].len : e = <<l, c>>
    BY <1>5
  <2>3. d = <<k, d[2]>> /\ e = <<l, e[2]>>
    BY <2>1, <2>2
  <2>4. q[k] = q[l] /\ d[2] = e[2]
    BY <1>8, <2>3
  <2> QED BY <1>1, <2>3, <2>4
<1>9. ASSUME NEW e \in B PROVE \E d \in A : f[d] = e
  <2>1. PICK i \in 1..n : \E c \in 1..s[i].len : e = <<i, c>>
    BY <1>6
  <2>2. PICK c \in 1..s[i].len : e = <<i, c>>
    BY <2>1
  <2>3. PICK k \in 1..n : q[k] = i
    BY <1>1
  <2>4. <<k, c>> \in A
    BY <1>5, <2>2, <2>3
  <2> QED BY <2>2, <2>3, <2>4
<1>10. f \in Bijection(A, B)
  <2>1. f \in [A -> B]
    BY <1>7
  <2> HIDE DEF f
  <2> QED BY <1>8, <1>9, <2>1 DEF Bijection, Injection, Surjection, IsInjective, Range
<1> HIDE DEF f
<1>11. Cardinality(B) = Cardinality(A)
  <2>1. IsFiniteSet(A)
    <3>1. n \in 0..Len(t)
      BY <1>1, <1>4
    <3> QED BY <1>4, <3>1, CharactersAre DEF A
  <2>2. ExistsBijection(A, B)
    BY <1>10 DEF ExistsBijection
  <2> QED BY <2>1, <2>2, FS_Bijection
<1>12. Used(s, n) - Cardinality(B) = Used(t, n) - Cardinality(A)
  <2>1. n \in 0..n
    BY <1>1
  <2> QED BY <1>4, <2>1, SameOverhead DEF A, B, n
<1>13. Used(s, n) \in Nat /\ Used(t, n) \in Nat /\ Cardinality(A) \in Nat
  <2>1. n \in 0..n
    BY <1>1
  <2>2. Used(s, n) \in Nat
    BY <2>1, UsedIs DEF n
  <2> QED BY <1>4, <2>1, <2>2, UsedIs, CharactersAre DEF A
<1>14. Used(t, n) = Used(s, n)
  BY <1>11, <1>12, <1>13
<1> QED BY <1>4, <1>14 DEF n, t

-----------------------------------------------------------------------------
(* The parts of a summary make one prompt. *)

\* A prompt put together of two: one more separator, and a digit more for each passage.
LEMMA LongerByLittle ==
  ASSUME NEW s \in Seq(Passages), NEW t \in Seq(Passages)
  PROVE  Used(s \o t, Len(s \o t))
           <= Used(s, Len(s)) + (IF Len(s) = 0 THEN 0 ELSE 2) + Used(t, Len(t)) + Len(t)
<1> DEFINE m == Len(s)
           n == Len(t)
           w == s \o t
           sep == IF m = 0 THEN 0 ELSE 2
           S == {j \in 0..n : j = 0 \/ Used(w, m + j) <= Used(s, m) + sep + Used(t, j) + j}
<1>1. m \in Nat /\ n \in Nat
  BY LenProperties
<1>2. w \in Seq(Passages) /\ Len(w) = m + n /\ \A k \in 1..m + n : w[k] = IF k <= m THEN s[k] ELSE t[k - m]
  BY ConcatProperties
<1>3. \A i \in 0..n : Used(t, i) \in Nat
  BY UsedIs
<1>4. Used(t, 0) = 0 /\ \A i \in 1..n : Used(t, i) = Used(t, i - 1) + (IF i = 1 THEN 0 ELSE 2) + Block(i, t[i])
  BY UsedIs
<1> HIDE DEF m, n, w
<1>5. \A i \in 0..m + n : Used(w, i) \in Nat
  BY <1>2, UsedIs
<1>6. \A i \in 1..m + n : Used(w, i) = Used(w, i - 1) + (IF i = 1 THEN 0 ELSE 2) + Block(i, w[i])
  BY <1>2, UsedIs
<1>7. Used(w, m) = Used(s, m) /\ Used(s, m) \in Nat
  <2>1. m <= m + n /\ m \in 0..m
    BY <1>1
  <2>2. \A k \in 1..m : s[k] = w[k]
    BY <1>1, <1>2
  <2>3. \A k \in 0..m : Used(s, k) = Used(w, k)
    BY <1>2, <2>1, <2>2, UsedOfPrefix DEF m
  <2>4. Used(s, m) \in Nat
    BY <2>1, UsedIs DEF m
  <2> QED BY <2>1, <2>3, <2>4
<1>8. ASSUME NEW j \in 1..n
      PROVE  /\ m + j \in 1..m + n /\ w[m + j] = t[j] /\ Block(j, t[j]) \in Nat
             /\ Block(m + j, w[m + j]) \in Nat /\ Block(m + j, w[m + j]) <= Block(j, t[j]) + 1
  <2>1. m + j \in 1..m + n /\ ~(m + j <= m) /\ (m + j) - m = j /\ j \in Nat
    BY <1>1
  <2>2. w[m + j] = t[j]
    BY <1>2, <2>1
  <2>3. t[j] \in Passages /\ t[j].len \in Nat
    BY PassageAt DEF n
  <2>4. Block(j, t[j]) \in Nat /\ Block(m + j, t[j]) \in Nat
    BY <2>3, BlockIs
  <2>5. (Digits(j) = 1 \/ Digits(j) = 2) /\ (Digits(m + j) = 1 \/ Digits(m + j) = 2) /\ Header \in Nat
    BY EvidenceAssumption DEF Digits
  <2>6. Header + Digits(m + j) + t[j].len <= Header + Digits(j) + t[j].len + 1
    BY <2>3, <2>5
  <2> QED BY <2>1, <2>2, <2>4, <2>6 DEF Block
<1> HIDE DEF S
<1>9. 0 \in S
  BY <1>1 DEF S
<1>10. ASSUME NEW j \in 1..n, j - 1 \in S PROVE j \in S
  <2>1. j \in 0..n /\ j - 1 \in 0..n /\ j \in Nat /\ m + j \in 1..m + n /\ m + (j - 1) \in 0..m + n
        /\ (m + j) - 1 = m + (j - 1)
    BY <1>1
  <2> DEFINE a == Used(s, m)
             b == Used(t, j - 1)
             c == Block(j, t[j])
             d == Used(w, m + (j - 1))
             e == Block(m + j, w[m + j])
             x == IF m + j = 1 THEN 0 ELSE 2
             y == IF j = 1 THEN 0 ELSE 2
  <2>2. a \in Nat /\ b \in Nat /\ c \in Nat /\ d \in Nat /\ e \in Nat /\ e <= c + 1
    BY <1>3, <1>5, <1>7, <1>8, <2>1
  <2>3. Used(w, m + j) = d + x + e /\ Used(t, j) = b + y + c
    BY <1>4, <1>6, <2>1
  <2>4. j = 1 => d = a /\ b = 0
    <3>1. j = 1 => j - 1 = 0 /\ m + (j - 1) = m
      BY <1>1
    <3> QED BY <1>4, <1>7, <3>1
  <2>5. j # 1 => d <= a + sep + b + (j - 1)
    <3>1. j # 1 => j - 1 # 0
      BY <2>1
    <3> QED BY <1>10, <3>1 DEF S
  <2>6. x \in {0, 2} /\ y \in {0, 2} /\ sep \in {0, 2} /\ (j = 1 => x = sep /\ y = 0) /\ (j # 1 => x = 2 /\ y = 2)
    BY <1>1, <2>1
  <2> HIDE DEF a, b, c, d, e, x, y, sep
  <2>7. d + x + e <= a + sep + (b + y + c) + j
    <3>1. CASE j = 1
      BY <2>2, <2>4, <2>6, <3>1
    <3>2. CASE j # 1
      BY <2>1, <2>2, <2>5, <2>6, <3>2
    <3> QED BY <3>1, <3>2
  <2>8. Used(w, m + j) <= a + sep + Used(t, j) + j
    BY <2>3, <2>7
  <2> QED BY <2>1, <2>8 DEF S, a
<1>11. \A j \in 0..n : j \in S
  BY <1>1, <1>9, <1>10, UpToANumber
<1>12. n \in S
  BY <1>1, <1>11
<1>13. Used(w, m + n) <= Used(s, m) + sep + Used(t, n) + n
  <2>1. CASE n = 0
    <3>1. Used(w, m + n) = Used(s, m) /\ Used(t, n) = 0 /\ sep \in {0, 2}
      <4>1. m + n = m
        BY <1>1, <2>1
      <4> QED BY <1>4, <1>7, <2>1, <4>1
    <3> HIDE DEF sep
    <3> QED BY <1>7, <2>1, <3>1
  <2>2. CASE n # 0
    BY <1>12, <2>2 DEF S
  <2> QED BY <2>1, <2>2
<1> QED BY <1>2, <1>13 DEF m, n, w

\* What a summary's budget leaves of one prompt (Slack) pays for the separators between the
\* parts and for second digits.
LEMMA BudgetsAddUp ==
  ASSUME NEW L \in Nat, L <= SummaryFiles, SummaryBudget - Fixed - SummaryLen >= 0
  PROVE  L * (SummaryBudget - Fixed - SummaryLen) + L * SummaryChunks + (IF L = 0 THEN 0 ELSE 2 * (L - 1))
           <= IF L = 0 THEN 0 ELSE Room
<1> DEFINE B == SummaryBudget - Fixed - SummaryLen
           SF == SummaryFiles
           SC == SummaryChunks
           X == MaxContext - QuestionLen - Slack
           F == Fixed + SummaryLen
<1>1. /\ SF \in Nat \ {0} /\ SC \in Nat /\ Fixed \in Nat /\ SummaryLen \in Nat /\ MaxContext \in Nat
      /\ QuestionLen \in Nat /\ Slack \in Nat /\ Slack + SF * F >= Fixed + 2 * (SF - 1) + SF * SC
  BY EvidenceAssumption
<1>2. X \in Int /\ F \in Nat /\ SummaryBudget = X \div SF /\ SummaryBudget \in Int
  BY <1>1, RoomsAreNumbers DEF SummaryBudget
<1>3. SF * SummaryBudget <= X
  <2> HIDE DEF X
  <2> QED BY <1>1, <1>2
<1>4. B \in Nat /\ B = SummaryBudget - F
  BY <1>1, <1>2
<1> HIDE DEF B, SF, SC, F
<1>5. SF * B = SF * SummaryBudget - SF * F
  BY <1>1, <1>2, <1>4
<1>6. L * B <= SF * B /\ L * SC <= SF * SC /\ L * B \in Nat /\ L * SC \in Nat
  <2>1. SF - L \in Nat
    BY <1>1 DEF SF
  <2>2. (SF - L) * B \in Nat /\ (SF - L) * SC \in Nat /\ L * B \in Nat /\ L * SC \in Nat
    BY <1>1, <1>4, <2>1
  <2>3. SF * B = L * B + (SF - L) * B /\ SF * SC = L * SC + (SF - L) * SC
    BY <1>1, <1>4
  <2> QED BY <2>2, <2>3
<1>7. Room = MaxContext - Fixed - QuestionLen
  BY DEF Room
<1>8. CASE L = 0
  <2>1. L * B = 0 /\ L * SC = 0
    BY <1>1, <1>4, <1>8
  <2> QED BY <1>8, <2>1 DEF B, SC
<1>9. CASE L # 0
  <2>1. 2 * (L - 1) <= 2 * (SF - 1)
    BY <1>1 DEF SF
  <2> DEFINE p == SF * SummaryBudget
             q == SF * F
             r == SF * SC
             a == L * B
             b == L * SC
  <2>2. /\ p \in Int /\ q \in Int /\ r \in Int /\ a \in Nat /\ b \in Nat
        /\ p <= X /\ a <= p - q /\ b <= r /\ Slack + q >= Fixed + 2 * (SF - 1) + r
    BY <1>1, <1>2, <1>3, <1>5, <1>6
  <2> HIDE DEF p, q, r, a, b
  <2>3. a + b + 2 * (L - 1) <= MaxContext - Fixed - QuestionLen
    BY <1>1, <2>1, <2>2
  <2> QED BY <1>7, <1>9, <2>3 DEF a, b, B, SC
<1> QED BY <1>8, <1>9

\* A prompt, and what a file has of a summary, hold a passage each.
HeadersFit == HoldsAPassage(Room) /\ HoldsAPassage(SummaryBudget - Fixed - SummaryLen) /\ Margin >= 1

\* A room for a passage is no less than nothing.
LEMMA RoomLeft == ASSUME NEW room \in Int, HoldsAPassage(room) PROVE room >= 0
<1>1. Header \in Nat /\ (Digits(1) = 1 \/ Digits(1) = 2)
  BY EvidenceAssumption DEF Digits
<1> QED BY <1>1 DEF HoldsAPassage

\* What a prompt is arranged to is as long as before.
LEMMA SelectedFits ==
  ASSUME NEW s \in Seq(Passages), NEW room \in Int, HoldsAPassage(room), Margin >= 1
  PROVE  /\ Used(Selected(s, room), Len(Selected(s, room))) <= room
         /\ Used(SelectedNoNames(s, room), Len(SelectedNoNames(s, room))) <= room
         /\ Len(SelectedNoNames(s, room)) <= Len(s)
<1>1. PICK p : Rearranges(p, Len(s)) /\ Diverse(s) = [k \in 1..Len(s) |-> s[p[k]]]
  BY DiverseIs
<1>2. PICK q : Rearranges(q, Len(s)) /\ Diverse(Prioritized(s)) = [k \in 1..Len(s) |-> s[q[k]]]
  BY ArrangedIs
<1>3. Diverse(s) \in Seq(Passages) /\ Len(Diverse(s)) = Len(s)
  BY <1>1, AnyOrderIsAsLong
<1>4. Diverse(Prioritized(s)) \in Seq(Passages)
  BY <1>2, AnyOrderIsAsLong
<1>5. Len(Fitting(Diverse(s), room)) <= Len(s)
  <2>1. Len(Fitting(Diverse(s), room)) \in 0..Len(s)
    BY <1>3, FittingKeeps
  <2>2. Len(s) \in Nat
    BY LenProperties
  <2> QED BY <2>1, <2>2
<1> QED BY <1>3, <1>4, <1>5, FittingFits DEF Selected, SelectedNoNames

\* A file's part of a summary fits its budget.
LEMMA PartFits ==
  ASSUME size \in [Chunks -> Nat], SummaryBudget \in Nat, HeadersFit, NEW f
  PROVE  /\ Used(Part(f), Len(Part(f))) <= SummaryBudget - Fixed - SummaryLen
         /\ Len(Part(f)) <= SummaryChunks /\ Len(Part(f)) \in Nat
<1> DEFINE s == Excerpts(f)
           B == SummaryBudget - Fixed - SummaryLen
<1>1. s \in Seq(Passages) /\ Len(s) \in 0..SummaryChunks
  BY ExcerptsAre
<1>2. B \in Int /\ HoldsAPassage(B) /\ Margin >= 1
  BY RoomsAreNumbers DEF HeadersFit
<1> HIDE DEF s, B
<1>3. Used(SelectedNoNames(s, B), Len(SelectedNoNames(s, B))) <= B /\ Len(SelectedNoNames(s, B)) <= Len(s)
  BY <1>1, <1>2, SelectedFits
<1>4. Part(f) = SelectedNoNames(s, B)
  BY DEF Part, s, B
<1>5. Part(f) \in Seq(Passages)
  BY PartsAre
<1>6. Len(Part(f)) \in Nat /\ Len(s) \in Nat /\ SummaryChunks \in Nat
  BY <1>1, <1>5, LenProperties, EvidenceAssumption
<1>7. Len(Part(f)) <= SummaryChunks
  BY <1>1, <1>3, <1>4, <1>6
<1> QED BY <1>3, <1>4, <1>6, <1>7 DEF B

\* So far a summary takes its budgets, the second digits and the separators.
SoFar(f) == f * (SummaryBudget - Fixed - SummaryLen) + f * SummaryChunks + (IF f = 0 THEN 0 ELSE 2 * (f - 1))

\* One file more.
LEMMA OneFileMore ==
  ASSUME NEW f \in Nat \ {0}, SummaryBudget - Fixed - SummaryLen >= 0
  PROVE  /\ SoFar(f - 1) \in Nat
         /\ SoFar(f) = SoFar(f - 1) + (SummaryBudget - Fixed - SummaryLen) + SummaryChunks + (IF f = 1 THEN 0 ELSE 2)
<1> DEFINE B == SummaryBudget - Fixed - SummaryLen
           SC == SummaryChunks
           g == f - 1
           x == IF g = 0 THEN 0 ELSE 2 * (g - 1)
           y == IF f = 0 THEN 0 ELSE 2 * (f - 1)
           z == IF f = 1 THEN 0 ELSE 2
<1>1. B \in Nat /\ SC \in Nat
  BY RoomsAreNumbers, EvidenceAssumption
<1>2. g \in Nat /\ f = g + 1
  OBVIOUS
<1>3. SoFar(f) = f * B + f * SC + y /\ SoFar(g) = g * B + g * SC + x
  BY DEF SoFar
<1>4. y = x + z /\ x \in Nat /\ z \in Nat
  BY <1>2
<1> HIDE DEF B, SC, g, x, y, z
<1>5. f * B = g * B + B /\ f * SC = g * SC + SC
  BY <1>1, <1>2
<1>6. g * B \in Nat /\ g * SC \in Nat
  BY <1>1, <1>2
<1> DEFINE p == g * B
           q == g * SC
<1>7. SoFar(f) = (p + B) + (q + SC) + (x + z) /\ SoFar(g) = p + q + x /\ p \in Nat /\ q \in Nat
  BY <1>3, <1>4, <1>5, <1>6
<1> HIDE DEF p, q
<1>8. SoFar(f) = SoFar(g) + B + SC + z /\ SoFar(g) \in Nat
  BY <1>1, <1>4, <1>7
<1> QED BY <1>8 DEF B, SC, g, z

\* A summary's excerpts fit one prompt.
LEMMA GatheredFits ==
  ASSUME size \in [Chunks -> Nat], SummaryBudget \in Nat, HeadersFit
  PROVE  Used(Gathered, Len(Gathered)) <= Room
<1> DEFINE B == SummaryBudget - Fixed - SummaryLen
<1>1. B \in Nat /\ SummaryBudget - Fixed - SummaryLen >= 0
  BY RoomsAreNumbers, RoomLeft DEF HeadersFit
<1>2. PICK u : Gathers(u)
  BY GatheredIs
<1>3. /\ u \in [0..FilesTaken -> Seq(Passages)] /\ u[0] = <<>>
      /\ \A f \in 1..FilesTaken : u[f] = u[f - 1] \o Part(f)
      /\ Gathered = u[FilesTaken]
  BY <1>2 DEF Gathers
<1>4. FilesTaken \in Nat /\ FilesTaken <= SummaryFiles
  <2>1. NFiles \in Nat /\ SummaryFiles \in Nat
    BY EvidenceAssumption
  <2> QED BY <2>1 DEF FilesTaken, Least
<1> HIDE DEF B
<1> DEFINE S == {f \in 0..FilesTaken : Used(u[f], Len(u[f])) <= SoFar(f) /\ (f = 0 => Len(u[f]) = 0)}
<1>5. 0 \in S
  <2>1. <<>> \in Seq(Passages) /\ Len(<<>>) = 0
    OBVIOUS
  <2>2. Used(<<>>, 0) = 0
    BY <2>1, UsedIs
  <2>3. SoFar(0) = 0
    <3>1. 0 * B = 0 /\ 0 * SummaryChunks = 0
      BY <1>1, EvidenceAssumption
    <3> QED BY <3>1 DEF SoFar, B
  <2>4. 0 \in 0..FilesTaken
    BY <1>4
  <2> QED BY <1>3, <2>1, <2>2, <2>3, <2>4
<1>6. ASSUME NEW f \in 1..FilesTaken, f - 1 \in S PROVE f \in S
  <2> DEFINE s == u[f - 1]
             t == Part(f)
             sep == IF Len(s) = 0 THEN 0 ELSE 2
             a == Used(s, Len(s))
             b == Used(t, Len(t))
             w == Used(s \o t, Len(s \o t))
  <2>1. f \in 0..FilesTaken /\ f - 1 \in 0..FilesTaken /\ f \in Nat \ {0} /\ f # 0
    BY <1>4
  <2>2. u[f] = s \o t /\ s \in Seq(Passages)
    BY <1>3, <2>1
  <2>3. t \in Seq(Passages) /\ b <= B /\ Len(t) <= SummaryChunks /\ Len(t) \in Nat
    BY PartsAre, PartFits DEF B
  <2>4. w <= a + sep + b + Len(t)
    <3> HIDE DEF s, t
    <3> QED BY <2>2, <2>3, LongerByLittle
  <2>5. a <= SoFar(f - 1) /\ (f = 1 => Len(s) = 0)
    <3>1. f = 1 => f - 1 = 0
      OBVIOUS
    <3> QED BY <1>6, <3>1
  <2>6. SoFar(f) = SoFar(f - 1) + B + SummaryChunks + (IF f = 1 THEN 0 ELSE 2) /\ SoFar(f - 1) \in Nat
    BY <1>1, <2>1, OneFileMore DEF B
  <2>7. a \in Nat /\ b \in Nat /\ w \in Nat /\ SummaryChunks \in Nat
    <3>1. Len(s) \in 0..Len(s) /\ Len(t) \in 0..Len(t)
      BY <2>2, <2>3, LenProperties
    <3>2. s \o t \in Seq(Passages)
      BY <2>2, <2>3, ConcatProperties
    <3>3. Len(s \o t) \in 0..Len(s \o t)
      BY <3>2, LenProperties
    <3> QED BY <2>2, <2>3, <3>1, <3>2, <3>3, UsedIs, EvidenceAssumption
  <2>8. sep \in {0, 2} /\ (f = 1 => sep = 0)
    BY <2>5
  <2> DEFINE x == IF f = 1 THEN 0 ELSE 2
             n == Len(t)
  <2>9. sep <= x /\ x \in {0, 2}
    BY <2>8
  <2>10. n \in Nat /\ n <= SummaryChunks
    BY <2>3
  <2> DEFINE v == SoFar(f - 1)
  <2>11. v \in Nat /\ a <= v /\ SoFar(f) = v + B + SummaryChunks + x /\ w <= a + sep + b + n /\ b <= B
    BY <2>3, <2>4, <2>5, <2>6
  <2> HIDE DEF a, b, w, sep, x, n, v, s, t
  <2>12. w <= SoFar(f)
    BY <1>1, <2>7, <2>8, <2>9, <2>10, <2>11
  <2> QED BY <2>1, <2>2, <2>12 DEF w
<1> HIDE DEF S
<1>7. \A f \in 0..FilesTaken : f \in S
  BY <1>4, <1>5, <1>6, UpToANumber
<1>8. FilesTaken \in S
  BY <1>4, <1>7
<1>9. Used(Gathered, Len(Gathered)) <= SoFar(FilesTaken) /\ (FilesTaken = 0 => Len(Gathered) = 0)
  BY <1>3, <1>8 DEF S
<1>10. SoFar(FilesTaken) <= IF FilesTaken = 0 THEN 0 ELSE Room
  BY <1>1, <1>4, BudgetsAddUp DEF SoFar
<1>11. Room \in Int /\ Room >= 0
  BY RoomsAreNumbers, RoomLeft DEF HeadersFit
<1>12. Used(Gathered, Len(Gathered)) \in Nat
  <2>1. Gathered \in Seq(Passages)
    BY GatheredFacts
  <2>2. Len(Gathered) \in 0..Len(Gathered)
    BY <2>1, LenProperties
  <2> QED BY <2>1, <2>2, UsedIs
<1>13. SoFar(FilesTaken) \in Int
  <2>1. FilesTaken * B \in Int /\ FilesTaken * SummaryChunks \in Int
    BY <1>1, <1>4, EvidenceAssumption
  <2> QED BY <1>4, <2>1 DEF SoFar, B
<1> QED BY <1>9, <1>10, <1>11, <1>12, <1>13

\* No excerpt is dropped when they are put together.
LEMMA GatheredIsKept ==
  ASSUME size \in [Chunks -> Nat], SummaryBudget \in Nat, HeadersFit
  PROVE  ToSet(Gathered) \subseteq ToSet(Selected(Selected(Gathered, Room), Room))
<1> DEFINE g == Gathered
           a == Diverse(Prioritized(g))
           n == Len(g)
<1>1. g \in Seq(Passages) /\ EvenScores(g) /\ Used(g, n) <= Room
  BY GatheredFacts, GatheredFits
<1> HIDE DEF g
<1>2. PICK q : Rearranges(q, n) /\ a = [k \in 1..n |-> g[q[k]]]
  BY <1>1, ArrangedIs
<1>3. a \in Seq(Passages) /\ Len(a) = n /\ Used(a, n) = Used(g, n)
  BY <1>1, <1>2, AnyOrderIsAsLong
<1> HIDE DEF a
<1>4. \A k \in 1..Len(a) : Used(a, k) <= Room
  <2>1. n \in Nat /\ Room \in Int
    BY <1>1, LenProperties, RoomsAreNumbers
  <2>2. ASSUME NEW k \in 1..n PROVE Used(a, k) <= Room
    <3>1. k \in 0..n /\ n \in 0..n
      BY <2>1
    <3>2. Used(a, k) <= Used(a, n) /\ Used(a, k) \in Nat /\ Used(a, n) \in Nat
      BY <1>3, <3>1, UsedGrows, UsedIs
    <3> QED BY <1>1, <1>3, <2>1, <3>2
  <2> QED BY <1>3, <2>2
<1>5. Fitting(a, Room) = a
  BY <1>3, <1>4, RoomsAreNumbers, WholeFits
<1>6. Selected(g, Room) = a
  BY <1>5 DEF Selected, a
<1>7. Selected(Selected(g, Room), Room) = a
  BY <1>1, <1>6, RoomsAreNumbers, SelectedAgain
<1>8. ToSet(g) \subseteq ToSet(a)
  <2>1. DOMAIN g = 1..n /\ DOMAIN a = 1..n
    BY <1>1, <1>2, LenProperties
  <2>2. ASSUME NEW i \in 1..n PROVE \E k \in 1..n : a[k] = g[i]
    <3>1. PICK k \in 1..n : q[k] = i
      BY <1>2 DEF Rearranges
    <3> QED BY <1>2, <3>1
  <2> QED BY <2>1, <2>2 DEF ToSet
<1> QED BY <1>7, <1>8 DEF g

\* Every step keeps the prompt within its budget, and a summary's excerpts in the prompt.
LEMMA BudgetStep ==
  ASSUME MarkersInv, PromptFits, HeadersFit, [NextE]_evars
  PROVE  PromptFits' /\ (NextE => SummaryKeepsEveryExcerpt)
<1>0. Room \in Int /\ HoldsAPassage(Room) /\ Margin >= 1 /\ size \in [Chunks -> Nat]
  BY RoomsAreNumbers DEF HeadersFit, MarkersInv
<1>1. ASSUME UNCHANGED shown PROVE PromptFits'
  BY <1>1 DEF PromptFits
<1>2. CASE Select
  <2>1. step = "select" /\ shown' = Selected(cands, Room)
    BY <1>2 DEF Select
  <2>2. cands \in Seq(Passages)
    BY <2>1 DEF MarkersInv
  <2>3. PromptFits'
    BY <1>0, <2>1, <2>2, SelectedFits DEF PromptFits
  <2> QED BY <2>1, <2>3 DEF SummaryKeepsEveryExcerpt
<1>3. CASE Gather
  <2>1. CASE SummaryBudget < MinBudget
    <3>1. step' = "failed" /\ shown' = shown
      BY <1>3, <2>1 DEF Gather
    <3> QED BY <1>1, <3>1 DEF SummaryKeepsEveryExcerpt
  <2>2. CASE ~(SummaryBudget < MinBudget)
    <3>1. shown' = Selected(Selected(Gathered, Room), Room)
      BY <1>3, <2>2 DEF Gather
    <3>2. SummaryBudget \in Nat
      <4>1. SummaryBudget \in Int /\ MinBudget \in Nat
        BY RoomsAreNumbers, EvidenceAssumption
      <4> QED BY <2>2, <4>1
    <3>3. Gathered \in Seq(Passages)
      BY <1>0, <3>2, GatheredFacts
    <3>4. Selected(Gathered, Room) \in Seq(Passages)
      BY <1>0, <3>3, SelectedIsDrawn DEF Drawn
    <3>5. PromptFits'
      BY <1>0, <3>1, <3>4, SelectedFits DEF PromptFits
    <3>6. SummaryKeepsEveryExcerpt
      BY <1>0, <3>1, <3>2, GatheredIsKept DEF SummaryKeepsEveryExcerpt
    <3> QED BY <3>5, <3>6
  <2> QED BY <2>1, <2>2
<1>4. CASE Merge \/ Rerank \/ Grade \/ Draft \/ DraftFails \/ Decline \/ Cite
  <2>1. UNCHANGED shown /\ step # "gather"
    BY <1>4 DEF Merge, Rerank, Grade, Draft, DraftFails, Decline, Cite
  <2> QED BY <1>1, <2>1 DEF SummaryKeepsEveryExcerpt
<1>5. CASE UNCHANGED evars
  <2>1. UNCHANGED <<shown, step>>
    BY <1>5 DEF evars
  <2> QED BY <1>1, <2>1 DEF SummaryKeepsEveryExcerpt
<1> QED BY <1>2, <1>3, <1>4, <1>5 DEF NextE

\* What the prompt holds fits max_context_chars, and a collection summary drops none of the
\* excerpts it chose (select_context_chunks, _summarize_collection), for any number of files,
\* chunks and lengths, if a prompt and a file's share of a summary hold a header each.
THEOREM PromptsStayWithinBudget == HeadersFit => (SpecE => PromptsFit)
<1> SUFFICES ASSUME HeadersFit PROVE SpecE => PromptsFit
  OBVIOUS
<1>1. InitE => PromptFits
  <2> SUFFICES ASSUME InitE PROVE PromptFits
    OBVIOUS
  <2>1. shown = <<>>
    BY DEF InitE, NothingYet
  <2>2. <<>> \in Seq(Passages) /\ Len(<<>>) = 0
    OBVIOUS
  <2>3. Used(<<>>, 0) = 0
    BY <2>2, UsedIs
  <2>4. Room \in Int /\ Room >= 0
    BY RoomsAreNumbers, RoomLeft DEF HeadersFit
  <2> QED BY <2>1, <2>2, <2>3, <2>4 DEF PromptFits
<1>2. MarkersInv /\ PromptFits /\ [NextE]_evars => PromptFits'
  BY BudgetStep
<1>3. MarkersInv /\ PromptFits /\ [NextE]_evars => [PromptFits' /\ SummaryKeepsEveryExcerpt]_evars
  BY BudgetStep
<1> QED BY <1>1, <1>2, <1>3, MarkersInvariant, PTL DEF SpecE, PromptsFit

=============================================================================
