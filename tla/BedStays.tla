------------------------------ MODULE BedStays ------------------------------
(***************************************************************************)
(* What the hostel promises, without its rows: a set of stays, each of a   *)
(* student in a bed for a session.  A bed hosts one stay, a student has    *)
(* one stay per session, and a stay begins, moves and ends as a whole.     *)
(***************************************************************************)
CONSTANTS Beds, Students, Sessions

VARIABLE stays

Stay == [bed : Beds, student : Students, session : Sessions]

Free(b) == \A p \in stays : p.bed # b
Homeless(s, y) == \A p \in stays : ~(p.student = s /\ p.session = y)

Init == stays = {}

Begin == \E p \in Stay :
  /\ Free(p.bed) /\ Homeless(p.student, p.session)
  /\ stays' = stays \cup {p}

Move == \E p \in stays, b \in Beds :
  /\ Free(b)
  /\ stays' = (stays \ {p}) \cup {[p EXCEPT !.bed = b]}

End == \E p \in stays : stays' = stays \ {p}

Next == Begin \/ Move \/ End

Spec == Init /\ [][Next]_stays
=============================================================================
