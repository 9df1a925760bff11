--------------------------- MODULE MCConversations ---------------------------
(* Two tabs; neither tabs nor conversations are told apart. *)
EXTENDS Conversations, TLC

SymmetryV == Permutations(Tabs) \cup Permutations(Convs)

=============================================================================
