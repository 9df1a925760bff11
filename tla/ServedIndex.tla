----------------------------- MODULE ServedIndex -----------------------------
(***************************************************************************)
(* What the preparation pipeline promises to retrieval, whatever jobs,     *)
(* commits and crashes it takes: keyword search (over the chunk rows) and  *)
(* vector search (over the Qdrant points) of a file find nothing at all,   *)
(* or both find every part of one and the same text.  A new text is never  *)
(* swapped in place: the old one is withdrawn first.                       *)
(***************************************************************************)
CONSTANTS Files, Texts, Parts

VARIABLE served  \* what the two searches can find of each file

Nothing  == [keyword |-> {}, vector |-> {}]
Whole(t) == [keyword |-> {t} \X Parts, vector |-> {t} \X Parts]

Init == served = [f \in Files |-> Nothing]

Publish(f)  == served[f] = Nothing /\ \E t \in Texts : served'[f] = Whole(t)
Withdraw(f) == served'[f] = Nothing
Keep(f)     == served'[f] = served[f]

\* One commit may publish some files and withdraw others.
Next ==
  /\ served' = [f \in Files |-> served'[f]]
  /\ \A f \in Files : Publish(f) \/ Withdraw(f) \/ Keep(f)

Spec == Init /\ [][Next]_served

=============================================================================
