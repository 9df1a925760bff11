------------------------------ MODULE Chunking ------------------------------
(***************************************************************************)
(* chunk_text of backend/app/ingestion/chunking.py: a window of at most    *)
(* target_size characters is moved over the normalised text; it ends at    *)
(* the last paragraph, line, sentence or word break it holds in its last   *)
(* three quarters, and the next one starts overlap characters before that. *)
(* Offsets are those of the code: the character at offset i is text[i+1].  *)
(***************************************************************************)
EXTENDS Integers, Sequences

CONSTANTS
  MaxText,   \* bound on the length of a text
  MaxTarget, \* bound on target_size
  Divisor      \* a window may end after its first 1/Divisor (4 in the code)

ASSUME ChunkingAssumption == MaxText \in Nat /\ MaxTarget \in Nat \ {0} /\ Divisor \in Nat \ {0}

Char == {"letter", "stop", "space", "newline"}

VARIABLES
  text,    \* the normalised text
  target,  \* target_size
  overlap, \* overlap
  start,   \* where the next chunk begins
  chunks,  \* char_start and char_end of the chunks so far
  done     \* the loop has ended

cvars == <<text, target, overlap, start, chunks, done>>

N == Len(text)

-----------------------------------------------------------------------------
(* Breaks inside the window from a to a + target. *)

White(i) == text[i + 1] \in {"space", "newline"}
Is(i, c) == text[i + 1] = c

MinOffset == IF target \div Divisor > 1 THEN target \div Divisor ELSE 1

\* Mutant of Lines: a line may end anywhere in the window.
LinesAnywhere(a) == {e \in a + 1 .. a + target - 1 : Is(e, "newline")}

\* Break positions: of a blank line or a line or a space, its first character; of a
\* sentence, the end of the white space after it.
Paragraphs(a) == {e \in a + MinOffset .. a + target - 2 : Is(e, "newline") /\ Is(e + 1, "newline")}
Lines(a)      == {e \in a + MinOffset .. a + target - 1 : Is(e, "newline")}
Spaces(a)     == {e \in a + MinOffset .. a + target - 1 : Is(e, "space")}
Sentences(a)  ==
  {e \in a + MinOffset .. a + target :
     /\ e = a + target \/ ~White(e)
     /\ \E b \in a + 1 .. e - 1 : Is(b - 1, "stop") /\ \A i \in b .. e - 1 : White(i)}

LastOf(S) == CHOOSE e \in S : \A d \in S : d <= e

\* _find_split_end, for a window that ends before the text does.
SplitEnd(a) ==
  CASE Paragraphs(a) # {}                                            -> LastOf(Paragraphs(a))
    [] Paragraphs(a) = {} /\ Lines(a) # {}                           -> LastOf(Lines(a))
    [] Paragraphs(a) = {} /\ Lines(a) = {} /\ Sentences(a) # {}      -> LastOf(Sentences(a))
    [] Paragraphs(a) = {} /\ Lines(a) = {} /\ Sentences(a) = {} /\ Spaces(a) # {}
                                                                     -> LastOf(Spaces(a))
    [] OTHER                                                         -> a + target

-----------------------------------------------------------------------------

\* normalize_extracted_text leaves no white space before a newline or at the end.
Normalised(s) ==
  /\ s # <<>> => s[Len(s)] \notin {"space", "newline"}
  /\ \A i \in 1..Len(s) - 1 : s[i] = "space" => s[i + 1] # "newline"

\* ChunkingConfig rejects any other sizes.
Sizes == target \in 1..MaxTarget /\ overlap \in 0..target - 1

InitC ==
  /\ text \in UNION {[1..n -> Char] : n \in 0..MaxText}
  /\ Normalised(text)
  /\ target \in 1..MaxTarget /\ overlap \in 0..target - 1
  /\ start = 0 /\ chunks = <<>>
  /\ done = (text = <<>>)

\* Mutant of LastChunk: a rest of exactly the target size is no last chunk.
LastChunkStrict ==
  /\ ~done /\ start < N /\ N - start < target
  /\ chunks' = Append(chunks, [from |-> start, to |-> N])
  /\ done' = TRUE
  /\ UNCHANGED <<text, target, overlap, start>>

\* What is left fits: the last chunk, or the only one.
LastChunk ==
  /\ ~done /\ start < N /\ N - start <= target
  /\ chunks' = Append(chunks, [from |-> start, to |-> N])
  /\ done' = TRUE
  /\ UNCHANGED <<text, target, overlap, start>>

\* Mutant of SplitChunk: the break itself is skipped.
SplitChunkSkipping ==
  /\ ~done /\ start < N /\ N - start > target
  /\ chunks' = Append(chunks, [from |-> start, to |-> SplitEnd(start)])
  /\ start' = SplitEnd(start) + 1 - overlap
  /\ UNCHANGED <<text, target, overlap, done>>

SplitChunk ==
  /\ ~done /\ start < N /\ N - start > target
  /\ chunks' = Append(chunks, [from |-> start, to |-> SplitEnd(start)])
  /\ start' = LET back == SplitEnd(start) - overlap
              IN  IF back <= start THEN SplitEnd(start) ELSE back
  /\ UNCHANGED <<text, target, overlap, done>>

NextC == LastChunk \/ SplitChunk

SpecC == InitC /\ [][NextC]_cvars

FairSpecC == SpecC /\ WF_cvars(NextC)

-----------------------------------------------------------------------------
(* Properties. *)

TypeOKC ==
  /\ text \in Seq(Char) /\ Sizes
  /\ start \in Nat /\ done \in BOOLEAN
  /\ chunks \in Seq([from : Nat, to : Nat])

\* The chunks cover the text: they start at its start, leave no gap between two, and
\* once the loop has ended reach its end.
NoTextIsLost ==
  /\ chunks # <<>> => chunks[1].from = 0
  /\ \A i \in 1..Len(chunks) - 1 : chunks[i + 1].from <= chunks[i].to
  /\ done /\ text # <<>> => chunks # <<>> /\ chunks[Len(chunks)].to = N

\* No chunk is empty or longer than target_size, the size the embedding model is
\* given at once.
ChunksFitTarget == \A i \in DOMAIN chunks : chunks[i].to - chunks[i].from \in 1..target

\* With an overlap below the first quarter of the window, as the default sizes have it
\* (500 of 3500), every chunk ends after the one before; with a greater overlap a chunk
\* may lie wholly inside the one before.
EveryChunkAddsText ==
  overlap < MinOffset => \A i \in 1..Len(chunks) - 1 : chunks[i + 1].to > chunks[i].to

\* The loop ends for every text, size and overlap.
ChunkingEnds == <>done

=============================================================================
