---------------------------- MODULE MCToolAgent ----------------------------
(* Files of one chunk that a full read takes whole.  An edit turns one     *)
(* into a file whose second chunk a read must cut, the other into one of   *)
(* more chunks than it fetches.                                            *)
EXTENDS ToolAgent

CONSTANTS f1, f2

MCFiles == {f1, f2}
MCEnds  == [f \in MCFiles |-> << <<2>>, IF f = f1 THEN <<1, 4>> ELSE <<1, 2, 3>> >>]

=============================================================================
