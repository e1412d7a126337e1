--------------------------- MODULE MCResultSheets ---------------------------
(* Instances of ResultSheets for TLC.                                       *)
EXTENDS ResultSheets, TLC

(* Teachers, heads of department and examinations officers.                *)
StaffRequests == {r \in AllRequests : r.op \in {"enter", "submit"} => r.user = "teacher"}

(* What staff and superusers may send: a superuser, whom the lock does not *)
(* stop, submits, as teachers do, and enters marks, but does not clear them. *)
DeskRequests ==
  {r \in AllRequests :
     /\ r.op = "submit" => r.user = "superuser"
     /\ r.op = "enter" /\ r.user = "superuser" => \A s \in Students : r.scores[s] # None}

Keys == Permutations(Students) \cup Permutations(Workers)
=============================================================================
