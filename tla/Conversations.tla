----------------------------- MODULE Conversations -----------------------------
(***************************************************************************)
(* The chat of the frontend (lib/conversations/messages.ts, storage.ts and *)
(* components/chat/chat-interface.tsx): browser tabs that share the        *)
(* conversations in localStorage and nothing else.  A tab is told of its   *)
(* own writes only.                                                        *)
(*                                                                         *)
(* What a handler does before its first await is one step.                 *)
(***************************************************************************)
EXTENDS Naturals, Sequences, FiniteSets, SequencesExt

CONSTANTS
  Tabs,
  Convs,        \* ids of conversations; each is given once
  MaxRequests,  \* bound on the questions sent
  MaxStarts     \* bound on the pages loaded afresh

VARIABLES
  records,   \* the conversations on the list
  titled,    \* those with a title of their own
  used,      \* the ids given so far
  store,     \* the turns saved of each conversation; none saved is <<>>
  tab,       \* what each tab runs and shows
  requests,  \* the questions under way
  sent,      \* questions sent so far
  starts,    \* pages loaded so far
  stolen     \* conversations where a tab interrupted a turn that another was waiting for

shared == <<records, titled, used, store>>
vvars == <<records, titled, used, store, tab, requests, sent, starts, stolen>>

-----------------------------------------------------------------------------
(* A turn of a conversation: its id, "pending", "done" or "error", and of  *)
(* its answer the turn it was asked for and the turns the model was shown. *)
(* A tab: whether it runs, the conversation it is at, whether that has     *)
(* been loaded, what it shows of it, livePendingTurns, and whether its     *)
(* address carries a question still to be sent.                            *)

None == "none"

NoAnswer == [turn |-> 0, saw |-> {}]

Turn(id, status, answer) == [id |-> id, status |-> status, answer |-> answer]

IsPending(turn) == turn.status = "pending"

HasPending(turns) == \E i \in DOMAIN turns : IsPending(turns[i])

IdsOf(turns) == {turns[i].id : i \in DOMAIN turns}

Closed == [up |-> FALSE, at |-> None, loaded |-> FALSE, shown |-> <<>>, live |-> {}, ask |-> FALSE]

InitV ==
  /\ records = {} /\ titled = {} /\ used = {}
  /\ store = [c \in Convs |-> <<>>]
  /\ tab = [t \in Tabs |-> Closed]
  /\ requests = {} /\ sent = 0 /\ starts = 0 /\ stolen = {}

\* saveConversationMessages: the tab that saves shows what it saved.
Saved(p, c, turns) == IF p.loaded /\ p.at = c THEN [p EXCEPT !.shown = turns] ELSE p

At(p, c, ask) == [p EXCEPT !.at = c, !.loaded = FALSE, !.shown = <<>>, !.ask = ask]

-----------------------------------------------------------------------------
(* The list of conversations. *)

Drafts == {c \in records \ titled : store[c] = <<>>}

\* A page is loaded, at any address; once, empty drafts are pruned.
Start(t) ==
  /\ ~tab[t].up /\ starts < MaxStarts /\ starts' = starts + 1
  /\ \E c \in used \cup {None} : tab' = [tab EXCEPT ![t] = [At(Closed, c, FALSE) EXCEPT !.up = TRUE]]
  /\ records' = records \ Drafts
  /\ UNCHANGED <<titled, used, store, requests, sent, stolen>>

\* Its memory and its requests go with a tab.
Close(t) ==
  /\ tab[t].up
  /\ tab' = [tab EXCEPT ![t] = Closed]
  /\ requests' = {r \in requests : r.tab # t}
  /\ UNCHANGED <<shared, sent, starts, stolen>>

Open(t) ==
  /\ tab[t].up
  /\ \E c \in (records \cup {None}) \ {tab[t].at} : tab' = [tab EXCEPT ![t] = At(@, c, FALSE)]
  /\ UNCHANGED <<shared, requests, sent, starts, stolen>>

\* A new chat, a question on the empty page, which gives the title, or one that comes
\* with the address.  An empty draft is taken again.
StartNew(t) ==
  /\ tab[t].up
  /\ \E c \in IF Drafts # {} THEN Drafts ELSE Convs \ used :
     \E kind \in {"new", "canvas", "link"} :
       /\ kind # "new" => tab[t].at = None
       /\ records' = records \cup {c} /\ used' = used \cup {c}
       /\ titled' = IF kind = "canvas" THEN titled \cup {c} ELSE titled
       /\ tab' = [tab EXCEPT ![t] = At(@, c, kind # "new")]
  /\ UNCHANGED <<store, requests, sent, starts, stolen>>

\* The turns, then the record; the tab leaves the conversation if it was there.
Delete(t, c) ==
  /\ tab[t].up /\ c \in records
  /\ store' = [store EXCEPT ![c] = <<>>]
  /\ records' = records \ {c} /\ titled' = titled \ {c}
  /\ LET p == [tab[t] EXCEPT !.live = @ \ IdsOf(store[c])]
     IN  IF p.at = c
         THEN \E next \in IF records' = {} THEN {None} ELSE records' : tab' = [tab EXCEPT ![t] = At(p, next, FALSE)]
         ELSE tab' = [tab EXCEPT ![t] = p]
  /\ UNCHANGED <<used, requests, sent, starts, stolen>>

Rename(t, c) ==
  /\ tab[t].up /\ c \in records \ titled
  /\ titled' = titled \cup {c}
  /\ UNCHANGED <<records, used, store, tab, requests, sent, starts, stolen>>

-----------------------------------------------------------------------------
(* Loading a conversation. *)

\* Pending, and not asked by this tab since its page was loaded.
Abandoned(p, turn) == IsPending(turn) /\ turn.id \notin p.live

\* recoverInterruptedConversationMessages
Recovered(p, turns) ==
  [i \in DOMAIN turns |-> IF Abandoned(p, turns[i]) THEN [turns[i] EXCEPT !.status = "error"] ELSE turns[i]]

\* A conversation that is not on the list is left for the empty page.
Load(t) ==
  LET c == tab[t].at
  IN  /\ tab[t].up /\ ~tab[t].loaded /\ c # None
      /\ IF c \notin records
         THEN /\ tab' = [tab EXCEPT ![t] = At(@, None, FALSE)]
              /\ UNCHANGED <<store, stolen>>
         ELSE LET turns == Recovered(tab[t], store[c])
              IN  /\ store' = [store EXCEPT ![c] = turns]
                  /\ tab' = [tab EXCEPT ![t] = [@ EXCEPT !.loaded = TRUE, !.shown = turns]]
                  /\ stolen' = IF \E i \in DOMAIN turns : turns[i] # store[c][i]
                                    /\ \E r \in requests : r.turn = turns[i].id /\ r.tab # t
                               THEN stolen \cup {c} ELSE stolen
      /\ UNCHANGED <<records, titled, used, requests, sent, starts>>

-----------------------------------------------------------------------------
(* Asking. *)

\* Mutant of Allowed: only what the tab shows is looked at.
AllowedByShown(p) == p.loaded /\ p.at \in records /\ ~HasPending(p.shown)

\* The guards of submitQuestion.
Allowed(p) == p.loaded /\ p.at \in records /\ ~HasPending(p.shown) /\ ~HasPending(store[p.at])

\* buildChatRequestForConversation: the settled turns before this one, or before the
\* end for a new one.
Prior(turns, id) ==
  {turns[i].id : i \in {j \in DOMAIN turns :
     ~IsPending(turns[j]) /\ \A k \in 1..j : turns[k].id # id}}

Post(t, c, id, turns) ==
  /\ sent' = sent + 1
  /\ store' = [store EXCEPT ![c] = turns]
  /\ requests' = requests \cup {[n |-> sent + 1, tab |-> t, conv |-> c, turn |-> id, saw |-> Prior(store[c], id)]}
  /\ tab' = [tab EXCEPT ![t] = [Saved(tab[t], c, turns) EXCEPT !.live = @ \cup {id}, !.ask = FALSE]]

\* A new turn; its id is that of its first request.
PostNew(t) ==
  LET c == tab[t].at
  IN  /\ Post(t, c, sent + 1, Append(store[c], Turn(sent + 1, "pending", NoAnswer)))
      /\ titled' = titled \cup {c}
      /\ UNCHANGED <<records, used, starts, stolen>>

Submit(t) == sent < MaxRequests /\ Allowed(tab[t]) /\ PostNew(t)

\* Retry of a turn shown as failed, or another answer to one shown as answered.
Again(t) ==
  LET c == tab[t].at
  IN  /\ sent < MaxRequests /\ Allowed(tab[t])
      /\ \E id \in IdsOf(tab[t].shown) \cap IdsOf(store[c]) :
           Post(t, c, id, [i \in DOMAIN store[c] |->
                             IF store[c][i].id = id THEN Turn(id, "pending", NoAnswer) ELSE store[c][i]])
      /\ UNCHANGED <<records, titled, used, starts, stolen>>

\* The question of the address: sent if the tab shows no turn, then taken from the
\* address whether or not it was sent; otherwise left in the composer.
AutoSend(t) ==
  /\ tab[t].loaded /\ tab[t].ask /\ sent < MaxRequests
  /\ IF tab[t].shown = <<>> /\ Allowed(tab[t])
     THEN PostNew(t)
     ELSE /\ tab' = [tab EXCEPT ![t].ask = FALSE]
          /\ UNCHANGED <<shared, requests, sent, starts, stolen>>

\* Mutant of Settled: an answer whose turn is gone is appended.
SettledOrAppended(turns, r, turn) ==
  IF r.turn \in IdsOf(turns)
  THEN [i \in DOMAIN turns |-> IF turns[i].id = r.turn THEN turn ELSE turns[i]]
  ELSE Append(turns, turn)

\* updateConversationMessageById: a turn that is gone stays gone.
Settled(turns, r, turn) == [i \in DOMAIN turns |-> IF turns[i].id = r.turn THEN turn ELSE turns[i]]

\* Mutant of Forget: the turn stays one this tab is waiting for.
ForgetLater(p, r, turns) == p

Forget(p, r, turns) == IF r.turn \in IdsOf(turns) THEN [p EXCEPT !.live = @ \ {r.turn}] ELSE p

\* The answer, or an error, arrives in the tab that asked, wherever that is by then.
Respond(r) ==
  /\ requests' = requests \ {r}
  /\ \E turn \in {Turn(r.turn, "done", [turn |-> r.turn, saw |-> r.saw]), Turn(r.turn, "error", NoAnswer)} :
       LET turns == Settled(store[r.conv], r, turn)
       IN  /\ store' = [store EXCEPT ![r.conv] = turns]
           /\ tab' = [tab EXCEPT ![r.tab] =
                        IF turns = store[r.conv] /\ r.turn \notin IdsOf(turns) THEN @
                        ELSE Forget(Saved(@, r.conv, turns), r, turns)]
  /\ UNCHANGED <<records, titled, used, sent, starts, stolen>>

NextV ==
  \/ \E t \in Tabs :
       \/ Start(t) \/ Close(t) \/ Open(t) \/ StartNew(t) \/ Load(t)
       \/ Submit(t) \/ Again(t) \/ AutoSend(t)
       \/ \E c \in Convs : Delete(t, c) \/ Rename(t, c)
  \/ \E r \in requests : Respond(r)

SpecV == InitV /\ [][NextV]_vvars

-----------------------------------------------------------------------------
(* Properties. *)

\* Whenever an answer arrives, and whatever other tabs have deleted, pruned or asked
\* meanwhile: turns are stored for conversations on the list only, each once, and an
\* answer belongs to the turn that shows it and rests on turns before it.
StoredTurnsBelong ==
  \A c \in Convs :
    /\ store[c] # <<>> => c \in records
    /\ \A i \in DOMAIN store[c] :
         LET turn == store[c][i]
         IN  /\ \A j \in 1..i - 1 : store[c][j].id # turn.id
             /\ turn.status = "done" =>
                  turn.answer.turn = turn.id /\ turn.answer.saw \subseteq {store[c][j].id : j \in 1..i - 1}

\* One question of a conversation is under way at a time, in whatever tabs it is open
\* and wherever the asking tab has gone, and its turn waits for it; unless a tab that
\* loads the conversation has interrupted a turn another tab was waiting for.
OneQuestionAtATime ==
  \A c \in Convs \ stolen :
    LET asked == {r \in requests : r.conv = c}
    IN  /\ Cardinality(asked) <= 1
        /\ \A r \in asked, i \in DOMAIN store[c] : IsPending(store[c][i]) <=> store[c][i].id = r.turn

\* No conversation stays blocked: when nobody is waiting for an answer any more, loading
\* it leaves no turn pending, whatever requests came and went before in this tab.
LoadingUnblocks ==
  [][\A t \in Tabs :
       ~tab[t].loaded /\ tab'[t].loaded /\ (\A r \in requests : r.conv # tab'[t].at)
         => ~HasPending(store'[tab'[t].at])]_vvars

=============================================================================
