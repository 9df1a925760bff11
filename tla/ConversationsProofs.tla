------------------------- MODULE ConversationsProofs -------------------------
(***************************************************************************)
(* What the chat promises across its tabs, for any number of tabs,         *)
(* conversations, questions and pages loaded.                              *)
(***************************************************************************)
EXTENDS Conversations, FiniteSetTheorems, SequenceTheorems, TLAPS

AnswerOf == [turn : Nat, saw : SUBSET Nat]
Turns    == [id : Nat, status : {"pending", "done", "error"}, answer : AnswerOf]
Page     == [up : BOOLEAN, at : Convs \cup {None}, loaded : BOOLEAN, shown : Seq(Turns), live : SUBSET Nat,
             ask : BOOLEAN]
Question == [n : Nat, tab : Tabs, conv : Convs, turn : Nat, saw : SUBSET Nat]

TypeOKV ==
  /\ records \subseteq used /\ used \subseteq Convs
  /\ store \in [Convs -> Seq(Turns)]
  /\ tab \in [Tabs -> Page] /\ \A t \in Tabs : tab[t].loaded => tab[t].up
  /\ requests \subseteq Question
  /\ sent \in Nat

Before(turns, i) == {turns[j].id : j \in 1..i - 1}

\* Turns are stored once each, and an answer is of its turn and from those before it.
TurnsInv(turns) ==
  \A i \in DOMAIN turns :
    /\ \A j \in 1..i - 1 : turns[j].id # turns[i].id
    /\ turns[i].status = "done" => turns[i].answer.turn = turns[i].id /\ turns[i].answer.saw \subseteq Before(turns, i)

\* An id is given once, to a turn of one conversation.
IdsInv ==
  /\ \A c \in Convs : IdsOf(store[c]) \subseteq 1..sent
  /\ \A c, d \in Convs : c # d => IdsOf(store[c]) \cap IdsOf(store[d]) = {}
  /\ \A t \in Tabs : tab[t].live \subseteq 1..sent

\* A question is under way from a tab that runs, for a turn of its conversation if the
\* turn is still there, and was asked with turns that come before it.
RequestsInv ==
  \A r \in requests :
    /\ r.conv \in used /\ tab[r.tab].up /\ r.turn \in 1..sent
    /\ \A c \in Convs : r.turn \in IdsOf(store[c]) => c = r.conv
    /\ \A i \in DOMAIN store[r.conv] : store[r.conv][i].id = r.turn => r.saw \subseteq Before(store[r.conv], i)

\* A turn a tab remembers as its own is still asked for by it, or is gone.
LiveInv ==
  \A t \in Tabs, id \in Nat :
    id \in tab[t].live =>
      \/ \E r \in requests : r.tab = t /\ r.turn = id
      \/ \A c \in Convs : id \notin IdsOf(store[c])

\* Where no turn was interrupted, a question under way is the only one of its
\* conversation, its turn is the one that is pending, and its tab remembers it.
WaitingInv ==
  \A r \in requests : r.conv \notin stolen =>
    /\ \A q \in requests : q.conv = r.conv => q = r
    /\ r.conv \in records => r.turn \in IdsOf(store[r.conv])
    /\ r.turn \in IdsOf(store[r.conv]) => r.turn \in tab[r.tab].live
    /\ \A i \in DOMAIN store[r.conv] : IsPending(store[r.conv][i]) <=> store[r.conv][i].id = r.turn

\* Turns are stored for conversations on the list.
ListInv == \A c \in Convs : (store[c] # <<>> => c \in records) /\ TurnsInv(store[c])

ConvInv == TypeOKV /\ ListInv /\ IdsInv /\ RequestsInv /\ LiveInv /\ WaitingInv

-----------------------------------------------------------------------------
(* Turns, pages and the steps that leave the turns alone. *)

\* Turns replaced one for one.
SameIds(u, v) == v \in Seq(Turns) /\ DOMAIN v = DOMAIN u /\ \A i \in DOMAIN u : v[i].id = u[i].id

LEMMA OneForOne ==
  ASSUME NEW u \in Seq(Turns), NEW v, DOMAIN v = DOMAIN u, v = [i \in DOMAIN u |-> v[i]],
         \A i \in DOMAIN u : v[i] \in Turns /\ v[i].id = u[i].id
  PROVE  SameIds(u, v)
<1>1. DOMAIN u = 1..Len(u) /\ Len(u) \in Nat
  BY LenProperties
<1>2. v \in [1..Len(u) -> Turns]
  BY <1>1
<1> QED BY <1>1, <1>2, SeqDef DEF SameIds

LEMMA SameOrder ==
  ASSUME NEW u \in Seq(Turns), NEW v, SameIds(u, v)
  PROVE  IdsOf(v) = IdsOf(u) /\ (\A i \in DOMAIN u : Before(v, i) = Before(u, i)) /\ (v # <<>> => u # <<>>)
<1>1. /\ DOMAIN u = 1..Len(u) /\ Len(u) \in Nat /\ DOMAIN v = DOMAIN u /\ \A i \in DOMAIN u : v[i].id = u[i].id
      /\ v \in Seq(Turns) /\ Len(v) = Len(u)
  BY LenProperties DEF SameIds
<1>2. IdsOf(v) = IdsOf(u)
  BY <1>1 DEF IdsOf
<1>3. \A i \in DOMAIN u : Before(v, i) = Before(u, i)
  <2> SUFFICES ASSUME NEW i \in 1..Len(u) PROVE Before(v, i) = Before(u, i)
    BY <1>1
  <2>1. \A j \in 1..i - 1 : j \in DOMAIN u
    BY <1>1
  <2>2. \A j \in 1..i - 1 : v[j].id = u[j].id
    BY <1>1, <2>1
  <2> QED BY <2>2 DEF Before
<1>4. v # <<>> => u # <<>>
  BY <1>1, EmptySeq
<1> QED BY <1>2, <1>3, <1>4

LEMMA TurnsTyped ==
  ASSUME NEW u \in Seq(Turns)
  PROVE  DOMAIN u = 1..Len(u) /\ Len(u) \in Nat /\ \A i \in DOMAIN u : u[i] \in Turns /\ u[i].id \in Nat
<1>1. DOMAIN u = 1..Len(u) /\ Len(u) \in Nat
  BY LenProperties
<1>2. \A i \in DOMAIN u : u[i] \in Turns
  BY <1>1, ElementOfSeq
<1> QED BY <1>1, <1>2 DEF Turns

LEMMA MovedPage ==
  ASSUME NEW p \in Page, NEW c \in Convs \cup {None}, NEW ask \in BOOLEAN
  PROVE  /\ At(p, c, ask) \in Page /\ At(p, c, ask).up = p.up /\ At(p, c, ask).live = p.live
         /\ At(p, c, ask).at = c /\ At(p, c, ask).loaded = FALSE
<1>1. <<>> \in Seq(Turns)
  BY EmptySeq
<1> QED BY <1>1 DEF At, Page

LEMMA ClosedPage == Closed \in Page /\ Closed.live = {} /\ ~Closed.loaded
<1>1. <<>> \in Seq(Turns)
  BY EmptySeq
<1> QED BY <1>1 DEF Closed, Page

LEMMA ShownPage ==
  ASSUME NEW p \in Page, NEW c, NEW turns \in Seq(Turns)
  PROVE  /\ Saved(p, c, turns) \in Page /\ Saved(p, c, turns).up = p.up /\ Saved(p, c, turns).live = p.live
         /\ Saved(p, c, turns).loaded = p.loaded /\ Saved(p, c, turns).at = p.at
BY DEF Saved, Page

LEMMA InitialV == InitV => ConvInv
<1> SUFFICES ASSUME InitV PROVE ConvInv
  OBVIOUS
<1>1. <<>> \in Seq(Turns) /\ DOMAIN <<>> = {}
  BY EmptySeq
<1>2. TypeOKV
  BY <1>1, ClosedPage DEF InitV, TypeOKV
<1>3. IdsOf(<<>>) = {}
  BY <1>1 DEF IdsOf
<1>4. ListInv
  BY <1>1 DEF InitV, ListInv, TurnsInv
<1>5. IdsInv /\ LiveInv
  BY <1>3, ClosedPage DEF InitV, IdsInv, LiveInv
<1>6. RequestsInv /\ WaitingInv
  BY DEF InitV, RequestsInv, WaitingInv
<1> QED BY <1>2, <1>4, <1>5, <1>6 DEF ConvInv

\* Steps that leave the turns and what was interrupted as they are.
LEMMA QuietKeeps ==
  ASSUME ConvInv, TypeOKV', store' = store, sent' = sent, stolen' = stolen, used \subseteq used',
         records' \cap used \subseteq records, \A c \in Convs : store[c] # <<>> => c \in records',
         requests' \subseteq requests,
         \A r \in requests' : tab'[r.tab].up /\ tab'[r.tab].live = tab[r.tab].live,
         \A t \in Tabs : \/ tab'[t].live = {}
                         \/ tab'[t].live = tab[t].live /\ \A r \in requests : r.tab = t => r \in requests'
  PROVE  ConvInv'
<1>1. ListInv'
  BY DEF ConvInv, ListInv
<1>2. IdsInv'
  BY DEF ConvInv, IdsInv
<1>3. RequestsInv'
  BY DEF ConvInv, RequestsInv
<1>4. LiveInv'
  <2> SUFFICES ASSUME NEW t \in Tabs, NEW id \in Nat, id \in tab'[t].live, NEW c \in Convs, id \in IdsOf(store[c])
               PROVE  \E r \in requests' : r.tab = t /\ r.turn = id
    BY DEF LiveInv
  <2>1. id \in tab[t].live /\ \A r \in requests : r.tab = t => r \in requests'
    OBVIOUS
  <2> QED BY <2>1 DEF ConvInv, LiveInv
<1>5. WaitingInv'
  <2>1. \A r \in requests' : r \in requests /\ r.conv \in used
    BY DEF ConvInv, RequestsInv
  <2> QED BY <2>1 DEF ConvInv, WaitingInv
<1> QED BY <1>1, <1>2, <1>3, <1>4, <1>5 DEF ConvInv

LEMMA StartKeeps == ASSUME ConvInv, NEW t \in Tabs, Start(t) PROVE ConvInv'
<1>1. PICK c \in used \cup {None} : tab' = [tab EXCEPT ![t] = [At(Closed, c, FALSE) EXCEPT !.up = TRUE]]
  BY DEF Start
<1> DEFINE p == [At(Closed, c, FALSE) EXCEPT !.up = TRUE]
<1>2. At(Closed, c, FALSE) \in Page /\ At(Closed, c, FALSE).live = {}
  <2>1. c \in Convs \cup {None} /\ FALSE \in BOOLEAN
    BY DEF ConvInv, TypeOKV
  <2> QED BY <2>1, ClosedPage, MovedPage
<1>3. p \in Page /\ p.live = {} /\ p.up
  BY <1>2 DEF Page
<1> HIDE DEF p
<1>4. /\ tab \in [Tabs -> Page] /\ tab' = [tab EXCEPT ![t] = p] /\ ~tab[t].up
      /\ UNCHANGED <<titled, used, store, requests, sent, stolen>> /\ records' = records \ Drafts
  BY <1>1 DEF p, ConvInv, TypeOKV, Start
<1>5. \A r \in requests : r.tab \in Tabs /\ r.tab # t
  BY <1>4 DEF ConvInv, RequestsInv, TypeOKV, Question
<1>6. TypeOKV'
  BY <1>3, <1>4 DEF ConvInv, TypeOKV
<1>7. \A c2 \in Convs : store[c2] # <<>> => c2 \in records'
  BY <1>4 DEF ConvInv, ListInv, Drafts
<1>8. \A r \in requests' : tab'[r.tab].up /\ tab'[r.tab].live = tab[r.tab].live
  BY <1>4, <1>5 DEF ConvInv, RequestsInv
<1>9. \A u \in Tabs : tab'[u].live = {} \/ tab'[u].live = tab[u].live
  BY <1>3, <1>4
<1> QED BY <1>4, <1>6, <1>7, <1>8, <1>9, QuietKeeps

LEMMA CloseKeeps == ASSUME ConvInv, NEW t \in Tabs, Close(t) PROVE ConvInv'
<1>1. /\ tab \in [Tabs -> Page] /\ tab' = [tab EXCEPT ![t] = Closed] /\ requests' = {r \in requests : r.tab # t}
      /\ UNCHANGED <<records, titled, used, store, sent, stolen>>
  BY DEF ConvInv, TypeOKV, Close, shared
<1>2. TypeOKV'
  BY <1>1, ClosedPage DEF ConvInv, TypeOKV
<1>3. \A r \in requests' : r \in requests /\ r.tab \in Tabs /\ r.tab # t
  BY <1>1 DEF ConvInv, TypeOKV, Question
<1>4. \A r \in requests' : tab'[r.tab].up /\ tab'[r.tab].live = tab[r.tab].live
  BY <1>1, <1>3 DEF ConvInv, RequestsInv
<1>5. \A u \in Tabs : \/ tab'[u].live = {}
                      \/ tab'[u].live = tab[u].live /\ \A r \in requests : r.tab = u => r \in requests'
  BY <1>1, ClosedPage
<1>6. \A c \in Convs : store[c] # <<>> => c \in records
  BY DEF ConvInv, ListInv
<1> QED BY <1>1, <1>2, <1>3, <1>4, <1>5, <1>6, QuietKeeps

\* A running tab turns to something else.
LEMMA TurnedKeeps ==
  ASSUME ConvInv, NEW t \in Tabs, NEW p \in Page, tab' = [tab EXCEPT ![t] = p], p.up = tab[t].up, p.live = tab[t].live,
         p.loaded => p.up,
         UNCHANGED <<store, requests, sent, stolen>>, records' \subseteq used', used' \subseteq Convs, used \subseteq used',
         records \subseteq records', records' \cap used \subseteq records
  PROVE  ConvInv'
<1>1. tab \in [Tabs -> Page] /\ \A u \in Tabs : tab'[u].up = tab[u].up /\ tab'[u].live = tab[u].live
  BY DEF ConvInv, TypeOKV
<1>2. TypeOKV'
  BY <1>1 DEF ConvInv, TypeOKV
<1>3. \A r \in requests : r.tab \in Tabs /\ tab[r.tab].up
  BY DEF ConvInv, RequestsInv, TypeOKV, Question
<1>4. \A c \in Convs : store[c] # <<>> => c \in records'
  BY DEF ConvInv, ListInv
<1> QED BY <1>1, <1>2, <1>3, <1>4, QuietKeeps

LEMMA OpenKeeps == ASSUME ConvInv, NEW t \in Tabs, Open(t) PROVE ConvInv'
<1>1. tab[t] \in Page /\ records \subseteq used /\ used \subseteq Convs
  BY DEF ConvInv, TypeOKV
<1>2. PICK c \in records \cup {None} : tab' = [tab EXCEPT ![t] = At(tab[t], c, FALSE)]
  BY DEF Open
<1>3. c \in Convs \cup {None} /\ FALSE \in BOOLEAN
  BY <1>1
<1> DEFINE p == At(tab[t], c, FALSE)
<1>4. p \in Page /\ p.up = tab[t].up /\ p.live = tab[t].live /\ ~p.loaded
  BY <1>1, <1>3, MovedPage
<1>5. tab' = [tab EXCEPT ![t] = p] /\ UNCHANGED <<records, used, store, requests, sent, stolen>>
  BY <1>2 DEF Open, shared
<1> HIDE DEF p
<1> QED BY <1>1, <1>4, <1>5, TurnedKeeps

LEMMA StartNewKeeps == ASSUME ConvInv, NEW t \in Tabs, StartNew(t) PROVE ConvInv'
<1>1. tab[t] \in Page /\ records \subseteq used /\ used \subseteq Convs
  BY DEF ConvInv, TypeOKV
<1>2. PICK c \in IF Drafts # {} THEN Drafts ELSE Convs \ used, kind \in {"new", "canvas", "link"} :
        /\ records' = records \cup {c} /\ used' = used \cup {c}
        /\ tab' = [tab EXCEPT ![t] = At(tab[t], c, kind # "new")]
  BY DEF StartNew
<1>3. c \in records \/ c \in Convs \ used
  BY DEF Drafts
<1> DEFINE ask == kind # "new"
<1>4. ask \in BOOLEAN
  OBVIOUS
<1>5. tab' = [tab EXCEPT ![t] = At(tab[t], c, ask)]
  BY <1>2
<1> HIDE DEF ask
<1> DEFINE p == At(tab[t], c, ask)
<1>6. p \in Page /\ p.up = tab[t].up /\ p.live = tab[t].live /\ ~p.loaded
  <2>1. c \in Convs \cup {None}
    BY <1>1, <1>3
  <2>2. TRUE \in BOOLEAN /\ FALSE \in BOOLEAN
    OBVIOUS
  <2>3. LET q == At(tab[t], c, TRUE) IN q \in Page /\ q.up = tab[t].up /\ q.live = tab[t].live /\ ~q.loaded
    BY <1>1, <2>1, <2>2, MovedPage
  <2>4. LET q == At(tab[t], c, FALSE) IN q \in Page /\ q.up = tab[t].up /\ q.live = tab[t].live /\ ~q.loaded
    BY <1>1, <2>1, <2>2, MovedPage
  <2> QED BY <1>4, <2>3, <2>4
<1> HIDE DEF p
<1>7. tab' = [tab EXCEPT ![t] = p] /\ UNCHANGED <<store, requests, sent, stolen>>
  BY <1>5 DEF p, StartNew
<1>8. /\ records' \subseteq used' /\ used' \subseteq Convs /\ used \subseteq used'
      /\ records \subseteq records' /\ records' \cap used \subseteq records
  BY <1>1, <1>2, <1>3
<1> QED BY <1>6, <1>7, <1>8, TurnedKeeps

LEMMA RenameKeeps == ASSUME ConvInv, NEW t \in Tabs, NEW c \in Convs, Rename(t, c) PROVE ConvInv'
<1>1. tab[t] \in Page /\ records \subseteq used /\ used \subseteq Convs /\ tab' = [tab EXCEPT ![t] = tab[t]]
      /\ (tab[t].loaded => tab[t].up)
  BY DEF ConvInv, TypeOKV, Rename
<1> QED BY <1>1, TurnedKeeps DEF Rename

-----------------------------------------------------------------------------
(* Steps that replace the turns of a conversation one for one. *)

LEMMA ReplacedTurns ==
  ASSUME ConvInv, NEW c \in Convs, NEW turns, SameIds(store[c], turns), store' = [store EXCEPT ![c] = turns]
  PROVE  /\ store' \in [Convs -> Seq(Turns)]
         /\ \A d \in Convs :
              /\ IdsOf(store'[d]) = IdsOf(store[d]) /\ DOMAIN store'[d] = DOMAIN store[d]
              /\ store'[d] # <<>> => store[d] # <<>>
              /\ \A i \in DOMAIN store[d] :
                   store'[d][i].id = store[d][i].id /\ Before(store'[d], i) = Before(store[d], i)
<1>1. store \in [Convs -> Seq(Turns)] /\ store[c] \in Seq(Turns)
  BY DEF ConvInv, TypeOKV
<1>2. IdsOf(turns) = IdsOf(store[c]) /\ (\A i \in DOMAIN store[c] : Before(turns, i) = Before(store[c], i))
      /\ (turns # <<>> => store[c] # <<>>)
  BY <1>1, SameOrder
<1>3. turns \in Seq(Turns) /\ DOMAIN turns = DOMAIN store[c] /\ \A i \in DOMAIN store[c] : turns[i].id = store[c][i].id
  BY DEF SameIds
<1>4. store' \in [Convs -> Seq(Turns)] /\ store'[c] = turns /\ \A d \in Convs \ {c} : store'[d] = store[d]
  BY <1>1, <1>3
<1> QED BY <1>2, <1>3, <1>4

\* Ids and requests do not notice it, except for those that are over.
LEMMA ReplacedKeeps ==
  ASSUME ConvInv, NEW c \in Convs, NEW turns, SameIds(store[c], turns), store' = [store EXCEPT ![c] = turns],
         TurnsInv(turns), TypeOKV', sent' = sent, records' = records, used' = used, requests' \subseteq requests,
         \A t \in Tabs : tab'[t].up = tab[t].up /\ tab'[t].live \subseteq tab[t].live,
         \A t \in Tabs, r \in requests :
           r.tab = t => r \in requests' \/ r.turn \notin tab'[t].live \/ \A d \in Convs : r.turn \notin IdsOf(store[d])
  PROVE  ListInv' /\ IdsInv' /\ RequestsInv' /\ LiveInv'
<1>1. \A d \in Convs :
        /\ IdsOf(store'[d]) = IdsOf(store[d]) /\ DOMAIN store'[d] = DOMAIN store[d]
        /\ store'[d] # <<>> => store[d] # <<>>
        /\ \A i \in DOMAIN store[d] :
             store'[d][i].id = store[d][i].id /\ Before(store'[d], i) = Before(store[d], i)
  BY ReplacedTurns
<1>2. store'[c] = turns /\ \A d \in Convs \ {c} : store'[d] = store[d]
  BY DEF ConvInv, TypeOKV
<1>3. ListInv'
  BY <1>1, <1>2 DEF ConvInv, ListInv
<1>4. IdsInv'
  BY <1>1 DEF ConvInv, IdsInv
<1>5. RequestsInv'
  <2> SUFFICES ASSUME NEW r \in requests'
               PROVE  /\ r.conv \in used /\ tab'[r.tab].up /\ r.turn \in 1..sent
                      /\ \A d \in Convs : r.turn \in IdsOf(store'[d]) => d = r.conv
                      /\ \A i \in DOMAIN store'[r.conv] :
                           store'[r.conv][i].id = r.turn => r.saw \subseteq Before(store'[r.conv], i)
    BY DEF RequestsInv
  <2>1. /\ r.conv \in Convs /\ r.tab \in Tabs /\ r.conv \in used /\ tab[r.tab].up /\ r.turn \in 1..sent
        /\ \A d \in Convs : r.turn \in IdsOf(store[d]) => d = r.conv
        /\ \A i \in DOMAIN store[r.conv] : store[r.conv][i].id = r.turn => r.saw \subseteq Before(store[r.conv], i)
    BY DEF ConvInv, RequestsInv, TypeOKV, Question
  <2> QED BY <1>1, <2>1
<1>6. LiveInv'
  <2> SUFFICES ASSUME NEW t \in Tabs, NEW id \in Nat, id \in tab'[t].live, NEW d \in Convs, id \in IdsOf(store'[d])
               PROVE  \E r \in requests' : r.tab = t /\ r.turn = id
    BY DEF LiveInv
  <2>1. id \in tab[t].live /\ id \in IdsOf(store[d])
    BY <1>1
  <2>2. PICK r \in requests : r.tab = t /\ r.turn = id
    BY <2>1 DEF ConvInv, LiveInv
  <2> QED BY <2>1, <2>2
<1> QED BY <1>3, <1>4, <1>5, <1>6

LEMMA RecoveredTurns ==
  ASSUME NEW u \in Seq(Turns), NEW p
  PROVE  /\ SameIds(u, Recovered(p, u)) /\ (TurnsInv(u) => TurnsInv(Recovered(p, u)))
         /\ \A i \in DOMAIN u : /\ IsPending(Recovered(p, u)[i]) <=> IsPending(u[i]) /\ u[i].id \in p.live
                                /\ Recovered(p, u)[i] # u[i] => IsPending(u[i]) /\ u[i].id \notin p.live
<1> DEFINE v == Recovered(p, u)
<1>1. DOMAIN v = DOMAIN u /\ v = [i \in DOMAIN u |-> v[i]] /\ \A i \in DOMAIN u : u[i] \in Turns
  BY TurnsTyped DEF Recovered
<1>2. \A i \in DOMAIN u : v[i] = IF Abandoned(p, u[i]) THEN [u[i] EXCEPT !.status = "error"] ELSE u[i]
  BY DEF Recovered
<1> HIDE DEF v
<1>3. \A i \in DOMAIN u : /\ v[i] \in Turns /\ v[i].id = u[i].id
                          /\ v[i].status = "done" => v[i] = u[i]
                          /\ IsPending(v[i]) <=> IsPending(u[i]) /\ u[i].id \in p.live
                          /\ v[i] # u[i] => IsPending(u[i]) /\ u[i].id \notin p.live
  BY <1>1, <1>2 DEF Turns, Abandoned, IsPending
<1>4. SameIds(u, v)
  BY <1>1, <1>3, OneForOne
<1>5. \A i \in DOMAIN u : Before(v, i) = Before(u, i) /\ \A j \in 1..i - 1 : j \in DOMAIN u
  BY <1>4, SameOrder, TurnsTyped
<1>6. TurnsInv(u) => TurnsInv(v)
  BY <1>1, <1>3, <1>5 DEF TurnsInv
<1> QED BY <1>3, <1>4, <1>6 DEF v

LEMMA LoadKeeps == ASSUME ConvInv, NEW t \in Tabs, Load(t) PROVE ConvInv'
<1> DEFINE c == tab[t].at
<1>1. tab \in [Tabs -> Page] /\ tab[t] \in Page /\ records \subseteq used /\ used \subseteq Convs
  BY DEF ConvInv, TypeOKV
<1>2. CASE c \notin records
  <2> DEFINE p == At(tab[t], None, FALSE)
  <2>1. None \in Convs \cup {None} /\ FALSE \in BOOLEAN
    OBVIOUS
  <2>2. p \in Page /\ p.up = tab[t].up /\ p.live = tab[t].live /\ ~p.loaded
    BY <1>1, <2>1, MovedPage
  <2>3. tab' = [tab EXCEPT ![t] = p] /\ UNCHANGED <<records, used, store, requests, sent, stolen>>
    BY <1>2 DEF Load
  <2> HIDE DEF p
  <2> QED BY <1>1, <2>2, <2>3, TurnedKeeps
<1>3. CASE c \in records
  <2> DEFINE turns == Recovered(tab[t], store[c])
             p == [tab[t] EXCEPT !.loaded = TRUE, !.shown = turns]
  <2>1. c \in Convs /\ store[c] \in Seq(Turns) /\ tab[t].up /\ TurnsInv(store[c])
    BY <1>1, <1>3 DEF Load, ConvInv, TypeOKV, ListInv
  <2>2. /\ SameIds(store[c], turns) /\ TurnsInv(turns)
        /\ \A i \in DOMAIN store[c] : /\ IsPending(turns[i]) <=> IsPending(store[c][i]) /\ store[c][i].id \in tab[t].live
                                      /\ turns[i] # store[c][i] => IsPending(store[c][i]) /\ store[c][i].id \notin tab[t].live
    BY <2>1, RecoveredTurns
  <2>3. /\ store' = [store EXCEPT ![c] = turns] /\ tab' = [tab EXCEPT ![t] = p]
        /\ UNCHANGED <<records, used, requests, sent>>
        /\ stolen' = IF \E i \in DOMAIN turns : turns[i] # store[c][i]
                          /\ \E r \in requests : r.turn = turns[i].id /\ r.tab # t
                     THEN stolen \cup {c} ELSE stolen
    BY <1>1, <1>3 DEF Load
  <2> HIDE DEF turns
  <2>4. turns \in Seq(Turns) /\ DOMAIN turns = DOMAIN store[c] /\ \A i \in DOMAIN store[c] : turns[i].id = store[c][i].id
    BY <2>2 DEF SameIds
  <2>5. p \in Page /\ p.up = tab[t].up /\ p.live = tab[t].live
    BY <1>1, <2>4 DEF Page
  <2> HIDE DEF p, c
  <2>6. \A u \in Tabs : tab'[u].up = tab[u].up /\ tab'[u].live = tab[u].live /\ (u # t => tab'[u] = tab[u])
    BY <1>1, <2>3, <2>5
  <2>7. TypeOKV'
    <3>1. tab' \in [Tabs -> Page] /\ \A u \in Tabs : tab'[u].loaded => tab'[u].up
      BY <1>1, <2>1, <2>3, <2>5, <2>6 DEF ConvInv, TypeOKV
    <3> QED BY <2>1, <2>2, <2>3, <3>1, ReplacedTurns DEF ConvInv, TypeOKV
  <2>8. ListInv' /\ IdsInv' /\ RequestsInv' /\ LiveInv'
    BY <2>1, <2>2, <2>3, <2>6, <2>7, ReplacedKeeps
  <2>9. WaitingInv'
    <3> SUFFICES ASSUME NEW r \in requests, r.conv \notin stolen'
                 PROVE  /\ \A q \in requests : q.conv = r.conv => q = r
                        /\ r.conv \in records => r.turn \in IdsOf(store'[r.conv])
                        /\ r.turn \in IdsOf(store'[r.conv]) => r.turn \in tab'[r.tab].live
                        /\ \A i \in DOMAIN store'[r.conv] :
                             IsPending(store'[r.conv][i]) <=> store'[r.conv][i].id = r.turn
      BY <2>3 DEF WaitingInv
    <3>1. r.conv \in Convs /\ r.tab \in Tabs /\ r.conv \notin stolen
      BY <2>3 DEF ConvInv, TypeOKV, Question
    <3>2. /\ \A q \in requests : q.conv = r.conv => q = r
          /\ r.conv \in records => r.turn \in IdsOf(store[r.conv])
          /\ r.turn \in IdsOf(store[r.conv]) => r.turn \in tab[r.tab].live
          /\ \A i \in DOMAIN store[r.conv] : IsPending(store[r.conv][i]) <=> store[r.conv][i].id = r.turn
      BY <3>1 DEF ConvInv, WaitingInv
    <3>3. IdsOf(store'[r.conv]) = IdsOf(store[r.conv])
      BY <2>1, <2>2, <2>3, <3>1, ReplacedTurns
    <3>4. \A i \in DOMAIN store'[r.conv] : IsPending(store'[r.conv][i]) <=> store'[r.conv][i].id = r.turn
      <4>1. CASE r.conv # c
        <5>1. store'[r.conv] = store[r.conv]
          BY <2>3, <3>1, <4>1 DEF ConvInv, TypeOKV
        <5> QED BY <3>2, <5>1
      <4>2. CASE r.conv = c
        <5>1. store'[r.conv] = turns
          BY <2>1, <2>3, <4>2 DEF ConvInv, TypeOKV
        <5> SUFFICES ASSUME NEW i \in DOMAIN store[c] PROVE IsPending(turns[i]) <=> turns[i].id = r.turn
          BY <2>4, <5>1
        <5>2. turns[i].id = store[c][i].id /\ (IsPending(store[c][i]) <=> store[c][i].id = r.turn)
          BY <2>4, <3>2, <4>2
        <5>3. CASE turns[i] = store[c][i]
          BY <5>2, <5>3
        <5>4. CASE turns[i] # store[c][i]
          <6>1. IsPending(store[c][i]) /\ store[c][i].id \notin tab[t].live /\ store[c][i].id = r.turn
            BY <2>2, <5>2, <5>4
          <6>2. r.turn \in IdsOf(store[c])
            BY <6>1 DEF IdsOf
          <6>3. r.tab # t
            BY <3>2, <4>2, <6>1, <6>2
          <6>4. c \in stolen'
            BY <2>3, <2>4, <5>2, <5>4, <6>1, <6>3
          <6> QED BY <4>2, <6>4
        <5> QED BY <5>3, <5>4
      <4> QED BY <4>1, <4>2
    <3> QED BY <2>6, <3>1, <3>2, <3>3, <3>4
  <2> QED BY <2>7, <2>8, <2>9 DEF ConvInv
<1> QED BY <1>2, <1>3

LEMMA SettledTurns ==
  ASSUME NEW u \in Seq(Turns), NEW q \in requests, NEW turn \in Turns, turn.id = q.turn, TurnsInv(u),
         turn.status = "done" =>
           turn.answer.turn = q.turn /\ \A i \in DOMAIN u : u[i].id = q.turn => turn.answer.saw \subseteq Before(u, i)
  PROVE  SameIds(u, Settled(u, q, turn)) /\ TurnsInv(Settled(u, q, turn))
<1> DEFINE v == Settled(u, q, turn)
<1>1. DOMAIN v = DOMAIN u /\ v = [i \in DOMAIN u |-> v[i]] /\ \A i \in DOMAIN u : u[i] \in Turns
  BY TurnsTyped DEF Settled
<1>2. \A i \in DOMAIN u : v[i] = IF u[i].id = q.turn THEN turn ELSE u[i]
  BY DEF Settled
<1> HIDE DEF v
<1>3. \A i \in DOMAIN u : v[i] \in Turns /\ v[i].id = u[i].id
  BY <1>1, <1>2
<1>4. SameIds(u, v)
  BY <1>1, <1>3, OneForOne
<1>5. \A i \in DOMAIN u : Before(v, i) = Before(u, i) /\ \A j \in 1..i - 1 : j \in DOMAIN u
  BY <1>4, SameOrder, TurnsTyped
<1>6. TurnsInv(v)
  BY <1>1, <1>2, <1>3, <1>5, ZenonT(40) DEF TurnsInv
<1> QED BY <1>4, <1>6 DEF v

LEMMA RespondKeeps == ASSUME ConvInv, NEW r \in requests, Respond(r) PROVE ConvInv'
<1> DEFINE c == r.conv
           t == r.tab
<1>1. /\ tab \in [Tabs -> Page] /\ tab[t] \in Page /\ c \in Convs /\ t \in Tabs /\ r.turn \in Nat /\ r.saw \in SUBSET Nat
      /\ store[c] \in Seq(Turns) /\ TurnsInv(store[c])
  BY DEF ConvInv, TypeOKV, Question, ListInv
<1>2. /\ \A d \in Convs : r.turn \in IdsOf(store[d]) => d = c
      /\ \A i \in DOMAIN store[c] : store[c][i].id = r.turn => r.saw \subseteq Before(store[c], i)
  BY DEF ConvInv, RequestsInv
<1>3. PICK turn \in {Turn(r.turn, "done", [turn |-> r.turn, saw |-> r.saw]), Turn(r.turn, "error", NoAnswer)} :
        LET turns == Settled(store[c], r, turn)
        IN  /\ store' = [store EXCEPT ![c] = turns]
            /\ tab' = [tab EXCEPT ![t] = IF turns = store[c] /\ r.turn \notin IdsOf(turns) THEN tab[t]
                                         ELSE Forget(Saved(tab[t], c, turns), r, turns)]
  BY DEF Respond
<1>4. /\ turn \in Turns /\ turn.id = r.turn
      /\ turn.status = "done" => turn.answer.turn = r.turn /\ turn.answer.saw = r.saw
  BY <1>1 DEF Turn, Turns, AnswerOf, NoAnswer
<1> DEFINE turns == Settled(store[c], r, turn)
           p == IF turns = store[c] /\ r.turn \notin IdsOf(turns) THEN tab[t]
                ELSE Forget(Saved(tab[t], c, turns), r, turns)
<1>5. SameIds(store[c], turns) /\ TurnsInv(turns)
  BY <1>1, <1>2, <1>4, SettledTurns
<1>6. store' = [store EXCEPT ![c] = turns] /\ tab' = [tab EXCEPT ![t] = p]
  BY <1>3
<1>7. requests' = requests \ {r} /\ UNCHANGED <<records, used, sent, stolen>>
  BY DEF Respond
<1> HIDE DEF turns
<1>8. turns \in Seq(Turns) /\ IdsOf(turns) = IdsOf(store[c])
  BY <1>1, <1>5, SameOrder DEF SameIds
<1>9. /\ p \in Page /\ p.up = tab[t].up /\ p.loaded = tab[t].loaded
      /\ p.live = IF r.turn \in IdsOf(store[c]) THEN tab[t].live \ {r.turn} ELSE tab[t].live
  <2> DEFINE q == Saved(tab[t], c, turns)
  <2>1. q \in Page /\ q.up = tab[t].up /\ q.live = tab[t].live /\ q.loaded = tab[t].loaded
    BY <1>1, <1>8, ShownPage
  <2> HIDE DEF q
  <2>2. /\ Forget(q, r, turns) \in Page /\ Forget(q, r, turns).up = q.up /\ Forget(q, r, turns).loaded = q.loaded
        /\ Forget(q, r, turns).live = IF r.turn \in IdsOf(turns) THEN q.live \ {r.turn} ELSE q.live
    BY <2>1 DEF Forget, Page
  <2>3. p = IF turns = store[c] /\ r.turn \notin IdsOf(turns) THEN tab[t] ELSE Forget(q, r, turns)
    BY DEF q
  <2> HIDE DEF p
  <2> QED BY <1>1, <1>8, <2>1, <2>2, <2>3
<1> HIDE DEF p, c, t
<1>10. \A u \in Tabs : /\ tab'[u].up = tab[u].up /\ tab'[u].live \subseteq tab[u].live
                       /\ tab'[u].loaded => tab'[u].up
                       /\ \A id \in tab[u].live : id # r.turn => id \in tab'[u].live
  BY <1>1, <1>6, <1>9 DEF ConvInv, TypeOKV
<1>11. TypeOKV'
  <2>1. tab' \in [Tabs -> Page]
    BY <1>1, <1>6, <1>9
  <2>2. store' \in [Convs -> Seq(Turns)]
    BY <1>1, <1>5, <1>6, ReplacedTurns
  <2> QED BY <1>7, <1>10, <2>1, <2>2 DEF ConvInv, TypeOKV
<1>12. ListInv' /\ IdsInv' /\ RequestsInv' /\ LiveInv'
  <2>1. \A u \in Tabs, q \in requests :
          q.tab = u => q \in requests' \/ q.turn \notin tab'[u].live \/ \A d \in Convs : q.turn \notin IdsOf(store[d])
    <3> SUFFICES ASSUME r.turn \in tab'[r.tab].live PROVE \A d \in Convs : r.turn \notin IdsOf(store[d])
      BY <1>7
    <3>1. tab'[t] = p /\ r.tab = t
      BY <1>1, <1>6 DEF t
    <3>2. r.turn \notin IdsOf(store[c])
      BY <1>9, <3>1
    <3> QED BY <1>2, <3>2 DEF c
  <2> QED BY <1>1, <1>5, <1>6, <1>7, <1>10, <1>11, <2>1, ReplacedKeeps
<1>13. WaitingInv'
  <2> SUFFICES ASSUME NEW q \in requests, q # r, q.conv \notin stolen
               PROVE  /\ \A x \in requests : x # r /\ x.conv = q.conv => x = q
                      /\ q.conv \in records => q.turn \in IdsOf(store'[q.conv])
                      /\ q.turn \in IdsOf(store'[q.conv]) => q.turn \in tab'[q.tab].live
                      /\ \A i \in DOMAIN store'[q.conv] : IsPending(store'[q.conv][i]) <=> store'[q.conv][i].id = q.turn
    BY <1>7 DEF WaitingInv
  <2>1. /\ q.conv \in Convs /\ q.tab \in Tabs
        /\ \A x \in requests : x.conv = q.conv => x = q
        /\ q.conv \in records => q.turn \in IdsOf(store[q.conv])
        /\ q.turn \in IdsOf(store[q.conv]) => q.turn \in tab[q.tab].live
        /\ \A i \in DOMAIN store[q.conv] : IsPending(store[q.conv][i]) <=> store[q.conv][i].id = q.turn
    BY DEF ConvInv, WaitingInv, TypeOKV, Question
  <2>2. q.conv # c
    BY <2>1 DEF c
  <2>3. store'[q.conv] = store[q.conv]
    BY <1>6, <2>1, <2>2 DEF ConvInv, TypeOKV
  <2>4. q.turn \in IdsOf(store[q.conv]) => q.turn # r.turn
    BY <1>2, <2>1, <2>2
  <2> QED BY <1>10, <2>1, <2>3, <2>4
<1> QED BY <1>11, <1>12, <1>13 DEF ConvInv

LEMMA DeleteKeeps == ASSUME ConvInv, NEW t \in Tabs, NEW c \in Convs, Delete(t, c) PROVE ConvInv'
<1> DEFINE q == [tab[t] EXCEPT !.live = @ \ IdsOf(store[c])]
<1>1. tab \in [Tabs -> Page] /\ tab[t] \in Page /\ store \in [Convs -> Seq(Turns)] /\ records \subseteq Convs
  BY DEF ConvInv, TypeOKV
<1>2. q \in Page /\ q.up = tab[t].up /\ q.loaded = tab[t].loaded /\ q.live = tab[t].live \ IdsOf(store[c])
  BY <1>1 DEF Page
<1>3. /\ tab[t].up /\ c \in records /\ records' = records \ {c} /\ store' = [store EXCEPT ![c] = <<>>]
      /\ UNCHANGED <<used, requests, sent, stolen>>
  BY DEF Delete
<1>4. PICK p \in Page : tab' = [tab EXCEPT ![t] = p] /\ p.up = tab[t].up /\ p.live = q.live
  <2>1. CASE q.at = c
    <3>1. PICK next \in Convs \cup {None} : tab' = [tab EXCEPT ![t] = At(q, next, FALSE)]
      <4>1. PICK next \in IF records' = {} THEN {None} ELSE records' : tab' = [tab EXCEPT ![t] = At(q, next, FALSE)]
        BY <2>1 DEF Delete
      <4> QED BY <1>1, <1>3, <4>1
    <3>2. FALSE \in BOOLEAN
      OBVIOUS
    <3> HIDE DEF q
    <3>3. At(q, next, FALSE) \in Page /\ At(q, next, FALSE).up = q.up /\ At(q, next, FALSE).live = q.live
      BY <1>2, <3>2, MovedPage
    <3> QED BY <1>2, <3>1, <3>3
  <2>2. CASE q.at # c
    <3>1. tab' = [tab EXCEPT ![t] = q]
      BY <2>2 DEF Delete
    <3> QED BY <1>2, <3>1
  <2> QED BY <2>1, <2>2
<1> HIDE DEF q
<1>5. <<>> \in Seq(Turns) /\ IdsOf(<<>>) = {} /\ DOMAIN <<>> = {}
  BY EmptySeq DEF IdsOf
<1>6. store'[c] = <<>> /\ \A d \in Convs \ {c} : store'[d] = store[d]
  BY <1>1, <1>3
<1>7. \A u \in Tabs : /\ tab'[u].up = tab[u].up /\ tab'[u].live \subseteq tab[u].live
                      /\ \A id \in tab[u].live : id \notin IdsOf(store[c]) => id \in tab'[u].live
  BY <1>1, <1>2, <1>4
<1>8. TypeOKV'
  <2>1. tab' \in [Tabs -> Page] /\ store' \in [Convs -> Seq(Turns)]
    BY <1>1, <1>3, <1>4, <1>5
  <2>2. \A u \in Tabs : tab'[u].loaded => tab'[u].up
    BY <1>1, <1>3, <1>4 DEF ConvInv, TypeOKV
  <2> QED BY <1>3, <2>1, <2>2 DEF ConvInv, TypeOKV
<1>9. ListInv'
  BY <1>3, <1>5, <1>6 DEF ConvInv, ListInv, TurnsInv
<1>10. \A d \in Convs : IdsOf(store'[d]) = IF d = c THEN {} ELSE IdsOf(store[d])
  BY <1>5, <1>6
<1>11. IdsInv'
  <2>1. \A d \in Convs : IdsOf(store'[d]) \subseteq IdsOf(store[d])
    BY <1>10
  <2>2. \A u \in Tabs : tab'[u].live \subseteq tab[u].live
    BY <1>7
  <2> QED BY <1>3, <2>1, <2>2 DEF ConvInv, IdsInv
<1>12. \A r \in requests : r.conv \in Convs /\ r.tab \in Tabs
  BY DEF ConvInv, TypeOKV, Question
<1>13. RequestsInv'
  BY <1>3, <1>5, <1>6, <1>7, <1>10, <1>12 DEF ConvInv, RequestsInv
<1>14. LiveInv'
  BY <1>3, <1>7, <1>10 DEF ConvInv, LiveInv
<1>15. WaitingInv'
  <2> SUFFICES ASSUME NEW r \in requests, r.conv \notin stolen
               PROVE  /\ \A x \in requests : x.conv = r.conv => x = r
                      /\ r.conv \in records' => r.turn \in IdsOf(store'[r.conv])
                      /\ r.turn \in IdsOf(store'[r.conv]) => r.turn \in tab'[r.tab].live
                      /\ \A i \in DOMAIN store'[r.conv] : IsPending(store'[r.conv][i]) <=> store'[r.conv][i].id = r.turn
    BY <1>3 DEF WaitingInv
  <2>1. /\ \A x \in requests : x.conv = r.conv => x = r
        /\ r.conv \in records => r.turn \in IdsOf(store[r.conv])
        /\ r.turn \in IdsOf(store[r.conv]) => r.turn \in tab[r.tab].live
        /\ \A i \in DOMAIN store[r.conv] : IsPending(store[r.conv][i]) <=> store[r.conv][i].id = r.turn
    BY DEF ConvInv, WaitingInv
  <2>2. CASE r.conv = c
    BY <1>3, <1>5, <1>6, <1>10, <2>1, <2>2
  <2>3. CASE r.conv # c
    <3>1. store'[r.conv] = store[r.conv] /\ (r.turn \in IdsOf(store[r.conv]) => r.turn \notin IdsOf(store[c]))
      BY <1>6, <1>12, <2>3 DEF ConvInv, IdsInv
    <3> QED BY <1>3, <1>7, <1>12, <2>1, <3>1
  <2> QED BY <2>2, <2>3
<1> QED BY <1>8, <1>9, <1>11, <1>13, <1>14, <1>15 DEF ConvInv

-----------------------------------------------------------------------------
(* Questions sent. *)

LEMMA PriorComesBefore ==
  ASSUME NEW u \in Seq(Turns), NEW id
  PROVE  /\ Prior(u, id) \subseteq IdsOf(u) /\ Prior(u, id) \in SUBSET Nat
         /\ \A i \in DOMAIN u : u[i].id = id => Prior(u, id) \subseteq Before(u, i)
<1>1. DOMAIN u = 1..Len(u) /\ Len(u) \in Nat /\ \A i \in DOMAIN u : u[i].id \in Nat
  BY TurnsTyped
<1>2. Prior(u, id) \subseteq IdsOf(u) /\ Prior(u, id) \in SUBSET Nat
  BY <1>1 DEF Prior, IdsOf
<1>3. ASSUME NEW i \in DOMAIN u, u[i].id = id, NEW x \in Prior(u, id) PROVE x \in Before(u, i)
  <2>1. PICK j \in DOMAIN u : x = u[j].id /\ \A k \in 1..j : u[k].id # id
    BY DEF Prior
  <2>2. j \in 1..i - 1
    <3>1. i \notin 1..j
      BY <1>3, <2>1
    <3> QED BY <1>1, <3>1
  <2> QED BY <2>1, <2>2 DEF Before
<1> QED BY <1>2, <1>3

LEMMA PostKeeps ==
  ASSUME ConvInv, NEW t \in Tabs, NEW c, c = tab[t].at, Allowed(tab[t]), NEW id, NEW turns \in Seq(Turns),
         Post(t, c, id, turns), records' = records, used' = used, stolen' = stolen,
         TurnsInv(turns), IdsOf(turns) = IdsOf(store[c]) \cup {id}, id \in IdsOf(store[c]) \/ id = sent + 1,
         \A i \in DOMAIN turns : IsPending(turns[i]) <=> turns[i].id = id,
         \A i \in DOMAIN turns : turns[i].id = id => Prior(store[c], id) \subseteq Before(turns, i),
         \A r \in requests : r.conv = c =>
           \A i \in DOMAIN turns : turns[i].id = r.turn => r.saw \subseteq Before(turns, i)
  PROVE  ConvInv'
<1> DEFINE p == [Saved(tab[t], c, turns) EXCEPT !.live = @ \cup {id}, !.ask = FALSE]
           new == [n |-> sent + 1, tab |-> t, conv |-> c, turn |-> id, saw |-> Prior(store[c], id)]
<1>1. /\ tab \in [Tabs -> Page] /\ tab[t] \in Page /\ store \in [Convs -> Seq(Turns)] /\ sent \in Nat
      /\ records \subseteq used /\ used \subseteq Convs /\ requests \subseteq Question
  BY DEF ConvInv, TypeOKV
<1>2. c \in records /\ c \in Convs /\ store[c] \in Seq(Turns) /\ tab[t].loaded /\ tab[t].up /\ ~HasPending(store[c])
  BY <1>1 DEF Allowed, ConvInv, TypeOKV
<1>3. id \in 1..sent + 1
  <2>1. IdsOf(store[c]) \subseteq 1..sent
    BY <1>2 DEF ConvInv, IdsInv
  <2> QED BY <1>1, <2>1
<1>4. p \in Page /\ p.up /\ p.live = tab[t].live \cup {id}
  <2> DEFINE q == Saved(tab[t], c, turns)
  <2>1. q \in Page /\ q.up = tab[t].up /\ q.live = tab[t].live
    BY <1>1, ShownPage
  <2> HIDE DEF q
  <2>2. id \in Nat
    BY <1>1, <1>3
  <2>3. p = [q EXCEPT !.live = q.live \cup {id}, !.ask = FALSE]
    BY DEF q
  <2> HIDE DEF p
  <2> QED BY <1>2, <2>1, <2>2, <2>3 DEF Page
<1>5. /\ new \in Question /\ new.tab = t /\ new.conv = c /\ new.turn = id /\ new.saw = Prior(store[c], id)
  <2>1. Prior(store[c], id) \in SUBSET Nat
    BY <1>2, PriorComesBefore
  <2> QED BY <1>1, <1>2, <1>3, <2>1 DEF Question
<1>6. /\ sent' = sent + 1 /\ store' = [store EXCEPT ![c] = turns] /\ requests' = requests \cup {new}
      /\ tab' = [tab EXCEPT ![t] = p]
  BY DEF Post
<1> HIDE DEF p, new
<1>7. store'[c] = turns /\ \A d \in Convs \ {c} : store'[d] = store[d]
  BY <1>1, <1>2, <1>6
<1>8. \A d \in Convs : IdsOf(store'[d]) = IF d = c THEN IdsOf(store[c]) \cup {id} ELSE IdsOf(store[d])
  BY <1>7
<1>9. /\ tab'[t].live = tab[t].live \cup {id} /\ tab'[t].up
      /\ \A u \in Tabs : tab[u].live \subseteq tab'[u].live /\ (tab[u].up => tab'[u].up) /\ (u # t => tab'[u] = tab[u])
  BY <1>1, <1>4, <1>6
<1>10. \A d \in Convs : IdsOf(store[d]) \subseteq 1..sent /\ (d # c => id \notin IdsOf(store[d]))
  <2>1. \A d \in Convs : IdsOf(store[d]) \subseteq 1..sent /\ (d # c => IdsOf(store[c]) \cap IdsOf(store[d]) = {})
    BY <1>2 DEF ConvInv, IdsInv
  <2>2. sent + 1 \notin 1..sent
    BY <1>1
  <2> QED BY <2>1, <2>2
<1>11. \A r \in requests : r.conv \in used /\ r.conv \in Convs /\ r.tab \in Tabs /\ r.turn \in 1..sent
  BY <1>1 DEF ConvInv, RequestsInv, Question
<1>12. \A r \in requests : r.conv = c => c \in stolen
  <2> SUFFICES ASSUME NEW r \in requests, r.conv = c, c \notin stolen PROVE FALSE
    OBVIOUS
  <2>1. r.turn \in IdsOf(store[c]) /\ \A i \in DOMAIN store[c] : IsPending(store[c][i]) <=> store[c][i].id = r.turn
    BY <1>2 DEF ConvInv, WaitingInv
  <2> QED BY <1>2, <2>1 DEF IdsOf, HasPending
<1>13. TypeOKV'
  <2>1. tab' \in [Tabs -> Page] /\ store' \in [Convs -> Seq(Turns)] /\ requests' \subseteq Question /\ sent' \in Nat
    BY <1>1, <1>2, <1>4, <1>5, <1>6
  <2>2. \A u \in Tabs : tab'[u].loaded => tab'[u].up
    BY <1>9 DEF ConvInv, TypeOKV
  <2> QED BY <1>1, <2>1, <2>2 DEF TypeOKV
<1>14. ListInv'
  BY <1>2, <1>7 DEF ConvInv, ListInv
<1>15. IdsInv'
  <2>1. 1..sent \subseteq 1..sent + 1
    BY <1>1
  <2>2. \A d \in Convs : IdsOf(store'[d]) \subseteq 1..sent + 1
    BY <1>3, <1>8, <1>10, <2>1
  <2>3. \A d, e \in Convs : d # e => IdsOf(store'[d]) \cap IdsOf(store'[e]) = {}
    <3>1. \A d, e \in Convs : d # e => IdsOf(store[d]) \cap IdsOf(store[e]) = {}
      BY DEF ConvInv, IdsInv
    <3>2. ASSUME NEW d \in Convs, NEW e \in Convs, d # e PROVE IdsOf(store'[d]) \cap IdsOf(store'[e]) = {}
      <4>1. CASE d # c /\ e # c
        BY <1>8, <3>1, <3>2, <4>1
      <4>2. CASE d = c
        <5>1. IdsOf(store'[d]) = IdsOf(store[c]) \cup {id} /\ IdsOf(store'[e]) = IdsOf(store[e])
          BY <1>8, <3>2, <4>2
        <5>2. IdsOf(store[c]) \cap IdsOf(store[e]) = {} /\ id \notin IdsOf(store[e])
          BY <1>2, <1>10, <3>1, <3>2, <4>2
        <5> QED BY <5>1, <5>2
      <4>3. CASE e = c
        <5>1. IdsOf(store'[e]) = IdsOf(store[c]) \cup {id} /\ IdsOf(store'[d]) = IdsOf(store[d])
          BY <1>8, <3>2, <4>3
        <5>2. IdsOf(store[c]) \cap IdsOf(store[d]) = {} /\ id \notin IdsOf(store[d])
          BY <1>2, <1>10, <3>1, <3>2, <4>3
        <5> QED BY <5>1, <5>2
      <4> QED BY <4>1, <4>2, <4>3
    <3> QED BY <3>2
  <2>4. \A u \in Tabs : tab'[u].live \subseteq 1..sent + 1
    <3>1. \A u \in Tabs : tab[u].live \subseteq 1..sent
      BY DEF ConvInv, IdsInv
    <3> QED BY <1>3, <1>9, <2>1, <3>1
  <2> QED BY <1>6, <2>2, <2>3, <2>4 DEF IdsInv
<1>16. RequestsInv'
  <2> SUFFICES ASSUME NEW r \in requests'
               PROVE  /\ r.conv \in used /\ tab'[r.tab].up /\ r.turn \in 1..sent + 1
                      /\ \A d \in Convs : r.turn \in IdsOf(store'[d]) => d = r.conv
                      /\ \A i \in DOMAIN store'[r.conv] :
                           store'[r.conv][i].id = r.turn => r.saw \subseteq Before(store'[r.conv], i)
    BY <1>6 DEF RequestsInv
  <2>1. CASE r = new
    BY <1>1, <1>2, <1>3, <1>5, <1>7, <1>8, <1>9, <1>10, <2>1
  <2>2. CASE r \in requests
    <3>1. /\ \A d \in Convs : r.turn \in IdsOf(store[d]) => d = r.conv
          /\ \A i \in DOMAIN store[r.conv] : store[r.conv][i].id = r.turn => r.saw \subseteq Before(store[r.conv], i)
          /\ tab[r.tab].up
      BY <2>2 DEF ConvInv, RequestsInv
    <3>2. r.turn \in 1..sent + 1 /\ r.turn # sent + 1
      BY <1>1, <1>11, <2>2
    <3>3. \A d \in Convs : r.turn \in IdsOf(store'[d]) => r.turn \in IdsOf(store[d])
      BY <1>8, <3>2
    <3>4. \A i \in DOMAIN store'[r.conv] : store'[r.conv][i].id = r.turn => r.saw \subseteq Before(store'[r.conv], i)
      BY <1>7, <1>11, <2>2, <3>1
    <3> QED BY <1>9, <1>11, <2>2, <3>1, <3>2, <3>3, <3>4
  <2> QED BY <1>6, <2>1, <2>2
<1>17. LiveInv'
  <2> SUFFICES ASSUME NEW u \in Tabs, NEW x \in Nat, x \in tab'[u].live, NEW d \in Convs, x \in IdsOf(store'[d])
               PROVE  \E r \in requests' : r.tab = u /\ r.turn = x
    BY DEF LiveInv
  <2>1. CASE u = t /\ x = id
    BY <1>5, <1>6, <2>1
  <2>2. CASE ~(u = t /\ x = id)
    <3>1. x \in tab[u].live
      BY <1>9, <2>2
    <3>2. x \in 1..sent
      BY <3>1 DEF ConvInv, IdsInv
    <3>3. x # sent + 1
      BY <1>1, <3>2
    <3>4. x \in IdsOf(store[d])
      BY <1>8, <3>3
    <3> QED BY <1>6, <3>1, <3>4 DEF ConvInv, LiveInv
  <2> QED BY <2>1, <2>2
<1>18. WaitingInv'
  <2> SUFFICES ASSUME NEW r \in requests', r.conv \notin stolen
               PROVE  /\ \A x \in requests' : x.conv = r.conv => x = r
                      /\ r.conv \in records => r.turn \in IdsOf(store'[r.conv])
                      /\ r.turn \in IdsOf(store'[r.conv]) => r.turn \in tab'[r.tab].live
                      /\ \A i \in DOMAIN store'[r.conv] : IsPending(store'[r.conv][i]) <=> store'[r.conv][i].id = r.turn
    BY DEF WaitingInv
  <2>1. CASE r = new
    <3>1. \A x \in requests : x.conv # c
      BY <1>5, <1>12, <2>1
    <3> QED BY <1>2, <1>5, <1>6, <1>7, <1>8, <1>9, <2>1, <3>1
  <2>2. CASE r \in requests
    <3>1. r.conv # c /\ r.conv \in Convs /\ r.tab \in Tabs
      BY <1>11, <1>12, <2>2
    <3>2. /\ \A x \in requests : x.conv = r.conv => x = r
          /\ r.conv \in records => r.turn \in IdsOf(store[r.conv])
          /\ r.turn \in IdsOf(store[r.conv]) => r.turn \in tab[r.tab].live
          /\ \A i \in DOMAIN store[r.conv] : IsPending(store[r.conv][i]) <=> store[r.conv][i].id = r.turn
      BY <2>2 DEF ConvInv, WaitingInv
    <3> QED BY <1>5, <1>6, <1>7, <1>9, <3>1, <3>2
  <2> QED BY <1>6, <2>1, <2>2
<1> QED BY <1>13, <1>14, <1>15, <1>16, <1>17, <1>18 DEF ConvInv

LEMMA PostNewKeeps ==
  ASSUME ConvInv, NEW t \in Tabs, Allowed(tab[t]), PostNew(t)
  PROVE  ConvInv'
<1> DEFINE c == tab[t].at
           u == store[c]
           turn == Turn(sent + 1, "pending", NoAnswer)
           turns == Append(u, turn)
<1>1. /\ c \in Convs /\ u \in Seq(Turns) /\ TurnsInv(u) /\ sent \in Nat /\ IdsOf(u) \subseteq 1..sent
      /\ \A i \in DOMAIN u : ~IsPending(u[i])
  BY DEF Allowed, ConvInv, TypeOKV, ListInv, IdsInv, HasPending
<1>2. turn \in Turns /\ turn.id = sent + 1 /\ turn.status = "pending"
  BY <1>1 DEF Turn, Turns, NoAnswer, AnswerOf
<1>3. Post(t, c, sent + 1, turns) /\ UNCHANGED <<records, used, stolen>>
  BY DEF PostNew
<1> HIDE DEF turn
<1>4. turns \in Seq(Turns) /\ Len(turns) = Len(u) + 1 /\ (\A i \in 1..Len(u) : turns[i] = u[i]) /\ turns[Len(u) + 1] = turn
  BY <1>1, <1>2, AppendProperties
<1>5. DOMAIN u = 1..Len(u) /\ Len(u) \in Nat /\ DOMAIN turns = 1..Len(u) + 1
  BY <1>1, <1>4, LenProperties
<1> HIDE DEF turns
<1>6. \A i \in 1..Len(u) : turns[i] = u[i] /\ u[i].id \in 1..sent /\ u[i].id # sent + 1
  <2>1. \A i \in 1..Len(u) : u[i].id \in IdsOf(u)
    BY <1>5 DEF IdsOf
  <2>2. \A x \in 1..sent : x # sent + 1
    BY <1>1
  <2> QED BY <1>1, <1>4, <2>1, <2>2
<1>7. \A i \in DOMAIN turns : i \in 1..Len(u) \/ i = Len(u) + 1
  BY <1>5
<1>8. \A i \in 1..Len(u) + 1 : Before(turns, i) = Before(u, i)
  <2> SUFFICES ASSUME NEW i \in 1..Len(u) + 1 PROVE Before(turns, i) = Before(u, i)
    OBVIOUS
  <2>1. \A j \in 1..i - 1 : j \in 1..Len(u)
    BY <1>5
  <2> QED BY <1>4, <2>1 DEF Before
<1>9. IdsOf(turns) = IdsOf(u) \cup {sent + 1}
  <2>1. IdsOf(turns) = {turns[i].id : i \in 1..Len(u)} \cup {turns[Len(u) + 1].id}
    BY <1>5, <1>7 DEF IdsOf
  <2>2. {turns[i].id : i \in 1..Len(u)} = IdsOf(u)
    BY <1>5, <1>6, SMTT(30) DEF IdsOf
  <2> QED BY <1>2, <1>4, <2>1, <2>2
<1>10. \A i \in DOMAIN turns : IsPending(turns[i]) <=> turns[i].id = sent + 1
  BY <1>1, <1>2, <1>4, <1>5, <1>6, <1>7 DEF IsPending
<1>11. TurnsInv(turns)
  <2> SUFFICES ASSUME NEW i \in DOMAIN turns
               PROVE  /\ \A j \in 1..i - 1 : turns[j].id # turns[i].id
                      /\ turns[i].status = "done" =>
                           turns[i].answer.turn = turns[i].id /\ turns[i].answer.saw \subseteq Before(turns, i)
    BY DEF TurnsInv
  <2>1. \A j \in 1..i - 1 : j \in 1..Len(u)
    BY <1>5
  <2>2. CASE i = Len(u) + 1
    BY <1>2, <1>4, <1>6, <2>1, <2>2
  <2>3. CASE i \in 1..Len(u)
    BY <1>1, <1>5, <1>6, <1>8, <2>1, <2>3, ZenonT(40) DEF TurnsInv
  <2> QED BY <1>7, <2>2, <2>3
<1>12. \A i \in DOMAIN turns : turns[i].id = sent + 1 => Prior(u, sent + 1) \subseteq Before(turns, i)
  <2> SUFFICES ASSUME NEW x \in Prior(u, sent + 1) PROVE x \in Before(turns, Len(u) + 1)
    BY <1>6, <1>7
  <2>1. PICK j \in DOMAIN u : x = u[j].id
    BY <1>1, PriorComesBefore DEF IdsOf
  <2>2. j \in 1..(Len(u) + 1) - 1
    BY <1>5, <2>1
  <2>3. x \in Before(u, Len(u) + 1)
    BY <2>1, <2>2 DEF Before
  <2> QED BY <1>5, <1>8, <2>3, SMTT(30)
<1>13. \A r \in requests : r.conv = c =>
         \A i \in DOMAIN turns : turns[i].id = r.turn => r.saw \subseteq Before(turns, i)
  <2> SUFFICES ASSUME NEW r \in requests, r.conv = c, NEW i \in DOMAIN turns, turns[i].id = r.turn
               PROVE  r.saw \subseteq Before(turns, i)
    OBVIOUS
  <2>1. r.turn \in 1..sent /\ \A k \in DOMAIN u : u[k].id = r.turn => r.saw \subseteq Before(u, k)
    BY DEF ConvInv, RequestsInv
  <2>2. r.turn # sent + 1
    BY <1>1, <2>1
  <2>3. i \in 1..Len(u) /\ u[i].id = r.turn
    BY <1>2, <1>4, <1>7, <2>2
  <2> QED BY <1>5, <1>8, <2>1, <2>3
<1> HIDE DEF u, c
<1>14. c = tab[t].at /\ u = store[c]
  BY DEF c, u
<1> QED BY <1>3, <1>4, <1>9, <1>10, <1>11, <1>12, <1>13, <1>14, PostKeeps, ZenonT(40)

LEMMA SubmitKeeps == ASSUME ConvInv, NEW t \in Tabs, Submit(t) PROVE ConvInv'
BY PostNewKeeps DEF Submit

LEMMA AutoSendKeeps == ASSUME ConvInv, NEW t \in Tabs, AutoSend(t) PROVE ConvInv'
<1>1. CASE tab[t].shown = <<>> /\ Allowed(tab[t])
  BY <1>1, PostNewKeeps DEF AutoSend
<1>2. CASE ~(tab[t].shown = <<>> /\ Allowed(tab[t]))
  <2> DEFINE p == [tab[t] EXCEPT !.ask = FALSE]
  <2>1. tab[t] \in Page /\ records \subseteq used /\ used \subseteq Convs /\ (tab[t].loaded => tab[t].up)
    BY DEF ConvInv, TypeOKV
  <2>2. p \in Page /\ p.up = tab[t].up /\ p.live = tab[t].live /\ p.loaded = tab[t].loaded
    BY <2>1 DEF Page
  <2>3. tab' = [tab EXCEPT ![t] = p] /\ UNCHANGED <<records, used, store, requests, sent, stolen>>
    BY <1>2 DEF AutoSend, shared
  <2> HIDE DEF p
  <2> QED BY <2>1, <2>2, <2>3, TurnedKeeps
<1> QED BY <1>1, <1>2

LEMMA AgainKeeps == ASSUME ConvInv, NEW t \in Tabs, Again(t) PROVE ConvInv'
<1> DEFINE c == tab[t].at
           u == store[c]
<1>1. PICK id \in IdsOf(u) :
        Post(t, c, id, [i \in DOMAIN u |-> IF u[i].id = id THEN Turn(id, "pending", NoAnswer) ELSE u[i]])
  BY SMTT(30) DEF Again
<1> DEFINE turn == Turn(id, "pending", NoAnswer)
           turns == [i \in DOMAIN u |-> IF u[i].id = id THEN turn ELSE u[i]]
<1>2. /\ Allowed(tab[t]) /\ UNCHANGED <<records, used, stolen>> /\ Post(t, c, id, turns)
  BY <1>1 DEF Again
<1>3. /\ c \in Convs /\ u \in Seq(Turns) /\ TurnsInv(u) /\ \A i \in DOMAIN u : ~IsPending(u[i])
  BY <1>2 DEF Allowed, ConvInv, TypeOKV, ListInv, HasPending
<1>4. DOMAIN u = 1..Len(u) /\ Len(u) \in Nat /\ \A i \in DOMAIN u : u[i] \in Turns /\ u[i].id \in Nat
  BY <1>3, TurnsTyped
<1>5. id \in Nat
  BY <1>4 DEF IdsOf
<1>6. turn \in Turns /\ turn.id = id /\ turn.status = "pending"
  BY <1>5 DEF Turn, Turns, NoAnswer, AnswerOf
<1> HIDE DEF turn
<1>7. /\ DOMAIN turns = DOMAIN u /\ turns = [i \in DOMAIN u |-> turns[i]]
      /\ \A i \in DOMAIN u : turns[i] = IF u[i].id = id THEN turn ELSE u[i]
  OBVIOUS
<1> HIDE DEF turns
<1>8. \A i \in DOMAIN u : turns[i] \in Turns /\ turns[i].id = u[i].id /\ (turns[i].status = "done" => turns[i] = u[i])
  BY <1>4, <1>6, <1>7
<1>9. SameIds(u, turns)
  BY <1>3, <1>7, <1>8, OneForOne, ZenonT(40)
<1>10. turns \in Seq(Turns) /\ IdsOf(turns) = IdsOf(u) /\ \A i \in DOMAIN u : Before(turns, i) = Before(u, i)
  BY <1>3, <1>9, SameOrder DEF SameIds
<1>11. TurnsInv(turns)
  <2>1. \A i \in DOMAIN u : \A j \in 1..i - 1 : j \in DOMAIN u
    BY <1>4
  <2> QED BY <1>3, <1>7, <1>8, <1>10, <2>1, ZenonT(40) DEF TurnsInv
<1>12. \A i \in DOMAIN turns : IsPending(turns[i]) <=> turns[i].id = id
  BY <1>3, <1>6, <1>7 DEF IsPending
<1>13. \A i \in DOMAIN turns : turns[i].id = id => Prior(u, id) \subseteq Before(turns, i)
  BY <1>3, <1>7, <1>8, <1>10, PriorComesBefore, ZenonT(40)
<1>14. \A r \in requests : r.conv = c =>
         \A i \in DOMAIN turns : turns[i].id = r.turn => r.saw \subseteq Before(turns, i)
  <2>1. \A r \in requests : r.conv = c => \A i \in DOMAIN u : u[i].id = r.turn => r.saw \subseteq Before(u, i)
    BY DEF ConvInv, RequestsInv
  <2> QED BY <1>7, <1>8, <1>10, <2>1
<1> HIDE DEF u, c
<1>15. c = tab[t].at /\ u = store[c]
  BY DEF c, u
<1>16. IdsOf(turns) = IdsOf(u) \cup {id}
  BY <1>1, <1>10
<1> QED BY <1>1, <1>2, <1>10, <1>11, <1>12, <1>13, <1>14, <1>15, <1>16, PostKeeps

LEMMA ConvInvStep == ConvInv /\ [NextV]_vvars => ConvInv'
<1> SUFFICES ASSUME ConvInv, [NextV]_vvars PROVE ConvInv'
  OBVIOUS
<1>1. ASSUME NEW t \in Tabs, Start(t) PROVE ConvInv'
  BY <1>1, StartKeeps
<1>2. ASSUME NEW t \in Tabs, Close(t) PROVE ConvInv'
  BY <1>2, CloseKeeps
<1>3. ASSUME NEW t \in Tabs, Open(t) PROVE ConvInv'
  BY <1>3, OpenKeeps
<1>4. ASSUME NEW t \in Tabs, StartNew(t) PROVE ConvInv'
  BY <1>4, StartNewKeeps
<1>5. ASSUME NEW t \in Tabs, Load(t) PROVE ConvInv'
  BY <1>5, LoadKeeps
<1>6. ASSUME NEW t \in Tabs, Submit(t) PROVE ConvInv'
  BY <1>6, SubmitKeeps
<1>7. ASSUME NEW t \in Tabs, Again(t) PROVE ConvInv'
  BY <1>7, AgainKeeps
<1>8. ASSUME NEW t \in Tabs, AutoSend(t) PROVE ConvInv'
  BY <1>8, AutoSendKeeps
<1>9. ASSUME NEW t \in Tabs, NEW c \in Convs, Delete(t, c) PROVE ConvInv'
  BY <1>9, DeleteKeeps
<1>10. ASSUME NEW t \in Tabs, NEW c \in Convs, Rename(t, c) PROVE ConvInv'
  BY <1>10, RenameKeeps
<1>11. ASSUME NEW r \in requests, Respond(r) PROVE ConvInv'
  BY <1>11, RespondKeeps
<1>12. CASE UNCHANGED vvars
  BY <1>12 DEF vvars, ConvInv, TypeOKV, ListInv, IdsInv, RequestsInv, LiveInv, WaitingInv
<1> QED BY <1>1, <1>2, <1>3, <1>4, <1>5, <1>6, <1>7, <1>8, <1>9, <1>10, <1>11, <1>12 DEF NextV

\* The inductive invariant: the types, and what ties the turns stored, the questions under
\* way and what each tab remembers of its own together, whatever messages.ts, storage.ts
\* and chat-interface.tsx do in the tabs.
THEOREM ConvInvariant == SpecV => []ConvInv
<1>1. InitV => ConvInv
  BY InitialV
<1>2. ConvInv /\ [NextV]_vvars => ConvInv'
  BY ConvInvStep
<1> QED BY <1>1, <1>2, PTL DEF SpecV

\* Turns are stored for conversations on the list only, each once, and an answer belongs
\* to the turn that shows it and rests on turns before it, however late it arrived
\* (updateConversationMessageById, buildChatRequestForConversation).
THEOREM AnswersBelong == SpecV => []StoredTurnsBelong
<1>1. ConvInv => StoredTurnsBelong
  BY DEF ConvInv, ListInv, TurnsInv, StoredTurnsBelong, Before
<1> QED BY <1>1, ConvInvariant, PTL

\* One question of a conversation is under way at a time and its turn is the one that is
\* pending, in any number of tabs, unless a loading tab interrupted it (the guards of
\* submitQuestion over what is stored).
THEOREM QuestionsComeOneByOne == SpecV => []OneQuestionAtATime
<1>1. ConvInv => OneQuestionAtATime
  <2> SUFFICES ASSUME ConvInv, NEW c \in Convs \ stolen
               PROVE  LET asked == {r \in requests : r.conv = c}
                      IN  /\ Cardinality(asked) <= 1
                          /\ \A r \in asked, i \in DOMAIN store[c] : IsPending(store[c][i]) <=> store[c][i].id = r.turn
    BY DEF OneQuestionAtATime
  <2> DEFINE asked == {r \in requests : r.conv = c}
  <2>1. \A r \in asked : /\ \A q \in asked : q = r
                         /\ \A i \in DOMAIN store[c] : IsPending(store[c][i]) <=> store[c][i].id = r.turn
    BY DEF ConvInv, WaitingInv
  <2>2. Cardinality(asked) <= 1
    <3>1. CASE asked = {}
      BY <3>1, FS_EmptySet
    <3>2. CASE asked # {}
      <4>1. PICK r \in asked : TRUE
        BY <3>2
      <4>2. asked = {r}
        BY <2>1, <4>1
      <4>3. Cardinality({r}) = 1
        BY FS_Singleton
      <4> QED BY <4>2, <4>3
    <3> QED BY <3>1, <3>2
  <2> QED BY <2>1, <2>2
<1> QED BY <1>1, ConvInvariant, PTL

-----------------------------------------------------------------------------
(* Loading. *)

LEMMA PostLoadsNothing ==
  ASSUME TypeOKV, NEW t \in Tabs, NEW c, NEW id, NEW turns \in Seq(Turns),
         tab' = [tab EXCEPT ![t] = [Saved(tab[t], c, turns) EXCEPT !.live = @ \cup {id}, !.ask = FALSE]]
  PROVE  \A u \in Tabs : tab'[u].loaded => tab[u].loaded
<1> DEFINE q == Saved(tab[t], c, turns)
           p == [q EXCEPT !.live = @ \cup {id}, !.ask = FALSE]
<1>1. tab \in [Tabs -> Page] /\ tab[t] \in Page
  BY DEF TypeOKV
<1>2. q \in Page /\ q.loaded = tab[t].loaded
  BY <1>1, ShownPage
<1>3. tab' = [tab EXCEPT ![t] = p]
  OBVIOUS
<1> HIDE DEF q
<1>4. p.loaded = tab[t].loaded
  BY <1>2 DEF Page
<1> HIDE DEF p
<1> QED BY <1>1, <1>3, <1>4

LEMMA OnlyLoadLoads ==
  ASSUME ConvInv, [NextV]_vvars
  PROVE  (\E t \in Tabs : Load(t)) \/ \A u \in Tabs : tab'[u].loaded => tab[u].loaded
<1> DEFINE Quiet == \A u \in Tabs : tab'[u].loaded => tab[u].loaded
<1>1. tab \in [Tabs -> Page] /\ TypeOKV /\ records \subseteq Convs /\ used \subseteq Convs
  BY DEF ConvInv, TypeOKV
<1>2. \A t \in Tabs : \A c : ~At(tab[t], c, FALSE).loaded /\ ~At(tab[t], c, TRUE).loaded
  BY <1>1 DEF At, Page
<1>3. ASSUME NEW t \in Tabs, Start(t) PROVE Quiet
  <2>1. PICK c \in used \cup {None} : tab' = [tab EXCEPT ![t] = [At(Closed, c, FALSE) EXCEPT !.up = TRUE]]
    BY <1>3 DEF Start
  <2> DEFINE p == [At(Closed, c, FALSE) EXCEPT !.up = TRUE]
  <2>2. ~p.loaded
    BY DEF At, Closed
  <2>3. tab' = [tab EXCEPT ![t] = p]
    BY <2>1
  <2> HIDE DEF p
  <2> QED BY <1>1, <2>2, <2>3
<1>4. ASSUME NEW t \in Tabs, Close(t) PROVE Quiet
  BY <1>1, <1>4, ClosedPage DEF Close
<1>5. ASSUME NEW t \in Tabs, Open(t) PROVE Quiet
  <2>1. PICK c \in records \cup {None} : tab' = [tab EXCEPT ![t] = At(tab[t], c, FALSE)]
    BY <1>5 DEF Open
  <2> QED BY <1>1, <1>2, <2>1
<1>6. ASSUME NEW t \in Tabs, StartNew(t) PROVE Quiet
  <2>1. PICK c \in Convs \cup records, kind \in {"new", "canvas", "link"} :
          tab' = [tab EXCEPT ![t] = At(tab[t], c, kind # "new")]
    BY <1>6 DEF StartNew, Drafts
  <2> DEFINE ask == kind # "new"
  <2>2. tab' = [tab EXCEPT ![t] = At(tab[t], c, ask)] /\ ask \in BOOLEAN
    BY <2>1
  <2> HIDE DEF ask
  <2>3. ~At(tab[t], c, ask).loaded
    BY <1>2, <2>2
  <2> QED BY <1>1, <2>2, <2>3
<1>7. ASSUME NEW t \in Tabs, PostNew(t), Allowed(tab[t]) PROVE Quiet
  <2> DEFINE c == tab[t].at
             turns == Append(store[c], Turn(sent + 1, "pending", NoAnswer))
  <2>1. turns \in Seq(Turns)
    <3>1. c \in Convs /\ sent \in Nat /\ store[c] \in Seq(Turns)
      BY <1>1, <1>7 DEF Allowed, TypeOKV
    <3>2. Turn(sent + 1, "pending", NoAnswer) \in Turns
      BY <3>1 DEF Turn, Turns, NoAnswer, AnswerOf
    <3> QED BY <3>1, <3>2, AppendProperties
  <2>2. tab' = [tab EXCEPT ![t] = [Saved(tab[t], c, turns) EXCEPT !.live = @ \cup {sent + 1}, !.ask = FALSE]]
    BY <1>7 DEF PostNew, Post
  <2> HIDE DEF turns, c
  <2> QED BY <1>1, <2>1, <2>2, PostLoadsNothing
<1>8. ASSUME NEW t \in Tabs, Submit(t) PROVE Quiet
  BY <1>7, <1>8 DEF Submit
<1>9. ASSUME NEW t \in Tabs, AutoSend(t) PROVE Quiet
  <2>1. CASE tab[t].shown = <<>> /\ Allowed(tab[t])
    BY <1>7, <1>9, <2>1 DEF AutoSend
  <2>2. CASE ~(tab[t].shown = <<>> /\ Allowed(tab[t]))
    <3>1. tab' = [tab EXCEPT ![t] = [tab[t] EXCEPT !.ask = FALSE]]
      BY <1>9, <2>2 DEF AutoSend
    <3>2. [tab[t] EXCEPT !.ask = FALSE].loaded = tab[t].loaded
      BY <1>1 DEF Page
    <3> QED BY <1>1, <3>1, <3>2
  <2> QED BY <2>1, <2>2
<1>10. ASSUME NEW t \in Tabs, Again(t) PROVE Quiet
  <2> DEFINE c == tab[t].at
             u == store[c]
  <2>1. PICK id \in IdsOf(u) :
          Post(t, c, id, [i \in DOMAIN u |-> IF u[i].id = id THEN Turn(id, "pending", NoAnswer) ELSE u[i]])
    BY <1>10 DEF Again
  <2> DEFINE turn == Turn(id, "pending", NoAnswer)
             turns == [i \in DOMAIN u |-> IF u[i].id = id THEN turn ELSE u[i]]
  <2>2. c \in Convs /\ u \in Seq(Turns) /\ \A i \in DOMAIN u : u[i] \in Turns /\ u[i].id \in Nat
    <3>1. c \in Convs /\ u \in Seq(Turns)
      BY <1>1, <1>10 DEF Again, Allowed, TypeOKV
    <3> QED BY <3>1, TurnsTyped
  <2>3. turn \in Turns /\ turn.id = id
    BY <2>2, SMTT(30) DEF Turn, Turns, NoAnswer, AnswerOf, IdsOf
  <2>4. tab' = [tab EXCEPT ![t] = [Saved(tab[t], c, turns) EXCEPT !.live = @ \cup {id}, !.ask = FALSE]]
    BY <2>1, SMTT(30) DEF Post
  <2> HIDE DEF turn
  <2>5. /\ DOMAIN turns = DOMAIN u /\ turns = [i \in DOMAIN u |-> turns[i]]
        /\ \A i \in DOMAIN u : turns[i] \in Turns /\ turns[i].id = u[i].id
    BY <2>2, <2>3
  <2> HIDE DEF turns, u
  <2>6. turns \in Seq(Turns)
    BY <2>2, <2>5, OneForOne DEF SameIds
  <2> QED BY <1>1, <2>4, <2>6, PostLoadsNothing
<1>11. ASSUME NEW t \in Tabs, NEW c \in Convs, Delete(t, c) PROVE Quiet
  <2> DEFINE q == [tab[t] EXCEPT !.live = @ \ IdsOf(store[c])]
  <2>1. q \in Page /\ q.loaded = tab[t].loaded
    BY <1>1 DEF Page
  <2>2. tab' = [tab EXCEPT ![t] = q] \/ \E next : tab' = [tab EXCEPT ![t] = At(q, next, FALSE)]
    BY <1>11 DEF Delete
  <2>3. \A next : ~At(q, next, FALSE).loaded
    BY <2>1 DEF At, Page
  <2> HIDE DEF q
  <2> QED BY <1>1, <2>1, <2>2, <2>3
<1>12. ASSUME NEW t \in Tabs, NEW c \in Convs, Rename(t, c) PROVE Quiet
  BY <1>12 DEF Rename
<1>13. ASSUME NEW r \in requests, Respond(r) PROVE Quiet
  <2>1. PICK turn \in {Turn(r.turn, "done", [turn |-> r.turn, saw |-> r.saw]), Turn(r.turn, "error", NoAnswer)} :
          LET turns == Settled(store[r.conv], r, turn)
          IN  tab' = [tab EXCEPT ![r.tab] = IF turns = store[r.conv] /\ r.turn \notin IdsOf(turns) THEN tab[r.tab]
                                            ELSE Forget(Saved(tab[r.tab], r.conv, turns), r, turns)]
    BY <1>13 DEF Respond
  <2> DEFINE turns == Settled(store[r.conv], r, turn)
             p == IF turns = store[r.conv] /\ r.turn \notin IdsOf(turns) THEN tab[r.tab]
                  ELSE Forget(Saved(tab[r.tab], r.conv, turns), r, turns)
  <2>2. r.tab \in Tabs /\ tab[r.tab] \in Page
    BY <1>1 DEF TypeOKV, Question
  <2>3. tab' = [tab EXCEPT ![r.tab] = p]
    BY <2>1
  <2> HIDE DEF turns
  <2>4. p.loaded = tab[r.tab].loaded
    BY <2>2 DEF Forget, Saved, Page
  <2> HIDE DEF p
  <2> QED BY <1>1, <2>2, <2>3, <2>4
<1>14. CASE UNCHANGED vvars
  BY <1>14 DEF vvars
<1> QED BY <1>3, <1>4, <1>5, <1>6, <1>8, <1>9, <1>10, <1>11, <1>12, <1>13, <1>14 DEF NextV

\* When nobody waits for an answer of a conversation, loading it leaves no turn pending:
\* what a tab remembers as its own (livePendingTurns) never keeps a turn blocked that
\* recoverInterruptedConversationMessages should have given up.
THEOREM NothingStaysBlocked == SpecV => LoadingUnblocks
<1> DEFINE Unblocks == \A t \in Tabs :
             ~tab[t].loaded /\ tab'[t].loaded /\ (\A r \in requests : r.conv # tab'[t].at)
               => ~HasPending(store'[tab'[t].at])
<1>1. ConvInv /\ [NextV]_vvars => Unblocks
  <2> SUFFICES ASSUME ConvInv, [NextV]_vvars, NEW t \in Tabs, ~tab[t].loaded, tab'[t].loaded,
                      \A r \in requests : r.conv # tab'[t].at
               PROVE  ~HasPending(store'[tab'[t].at])
    OBVIOUS
  <2>1. PICK s \in Tabs : Load(s)
    BY OnlyLoadLoads
  <2> DEFINE c == tab[s].at
             turns == Recovered(tab[s], store[c])
             p == [tab[s] EXCEPT !.loaded = TRUE, !.shown = turns]
  <2>2. tab \in [Tabs -> Page] /\ tab[s] \in Page /\ records \subseteq Convs /\ store \in [Convs -> Seq(Turns)]
    BY DEF ConvInv, TypeOKV
  <2>3. c \in records
    <3> SUFFICES ASSUME c \notin records PROVE FALSE
      OBVIOUS
    <3>1. tab' = [tab EXCEPT ![s] = At(tab[s], None, FALSE)]
      BY <2>1 DEF Load
    <3>2. ~At(tab[s], None, FALSE).loaded
      BY <2>2 DEF At, Page
    <3> QED BY <2>2, <3>1, <3>2
  <2>4. store' = [store EXCEPT ![c] = turns] /\ tab' = [tab EXCEPT ![s] = p]
    BY <2>1, <2>2, <2>3 DEF Load
  <2>5. p.at = c /\ c \in Convs /\ store[c] \in Seq(Turns)
    BY <2>2, <2>3 DEF Page
  <2> HIDE DEF p
  <2>6. s = t /\ tab'[t].at = c /\ store'[c] = turns
    BY <2>2, <2>4, <2>5
  <2>7. /\ DOMAIN turns = DOMAIN store[c]
        /\ \A i \in DOMAIN store[c] : IsPending(turns[i]) => store[c][i].id \in tab[t].live
    BY <2>5, <2>6, RecoveredTurns DEF SameIds
  <2> HIDE DEF turns, c
  <2> SUFFICES ASSUME NEW i \in DOMAIN store[c], IsPending(turns[i]) PROVE FALSE
    BY <2>6, <2>7 DEF HasPending
  <2> DEFINE id == store[c][i].id
  <2>8. id \in tab[t].live /\ id \in IdsOf(store[c]) /\ id \in Nat
    BY <2>5, <2>7, TurnsTyped DEF IdsOf
  <2> HIDE DEF id
  <2>9. PICK r \in requests : r.turn = id
    BY <2>5, <2>8 DEF ConvInv, LiveInv
  <2>10. r.conv = c
    BY <2>5, <2>8, <2>9 DEF ConvInv, RequestsInv
  <2> QED BY <2>6, <2>10
<1>2. ConvInv /\ [NextV]_vvars => [Unblocks]_vvars
  BY <1>1
<1> QED BY <1>2, ConvInvariant, PTL DEF SpecV, LoadingUnblocks

=============================================================================
