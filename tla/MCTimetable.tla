---------------------------- MODULE MCTimetable -----------------------------
(* Instances of Timetable for TLC.                                          *)
EXTENDS Timetable, TLC

CONSTANTS a, b, k1, k2

OfferingOf == [r \in Requirements |-> IF r = 3 THEN b ELSE a]

(* Two mornings with sessions back to back, one that overlaps them, and a   *)
(* day that the semester does not use.                                      *)
Week == {[day |-> 0, start |-> 480, end |-> 600],
         [day |-> 0, start |-> 600, end |-> 720],
         [day |-> 1, start |-> 540, end |-> 660],
         [day |-> 1, start |-> 480, end |-> 600]}

Closed(day, recurrence) ==
  [start |-> day, end |-> day, all_day |-> "yes", affects |-> "yes", recurrence |-> recurrence]

(* One event blocks the second day; others are out of the semester or yearly. *)
EventsOfTerm == {Closed(8, "none"), Closed(70, "none"), Closed(7, "yearly")}

Problems ==
  {t \in [lecturer : [Offerings -> {0, 1}],
          cohort : [Offerings -> Cohorts],
          suits : [Offerings -> {{1}, {1, 2}}],
          away : [Lecturers -> {{}, {x \in Slots : x.start = 480 /\ x.day = 0}}],
          events : {{}, Events},
          locked : {{1}}] :
     /\ t.cohort[a] = k1 /\ t.suits[b] = {1}
     /\ t.events = {} \/ t.away[1] = {}}
=============================================================================
