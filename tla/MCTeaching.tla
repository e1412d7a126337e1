----------------------------- MODULE MCTeaching -----------------------------
(***************************************************************************)
(* Six components of teaching that share no row here, checked side by      *)
(* side: the initial state chooses the desk at work.  ResultSheets has its *)
(* own variables; those of the others are v1, v2, ... and memory in the    *)
(* order in which their modules declare them.                              *)
(***************************************************************************)
EXTENDS MCResultSheets, Integers, Sequences, FiniteSets

CONSTANTS
  Texts, Marks, MaxAccesses,                                            \* coursework
  Attempts, Questions, MaxAttempts,                                     \* quizzes
  Sessions, Courses, CourseSession, RetakeOf, Units, GradePoint,        \* progression
  Levels, MinAdvance, ProbationThreshold, WithdrawThreshold, MaxFailed,
  MaxPushes, Completing,
  Offerings, Listed, OfferingSession, Priced, Due,                      \* registration
  MonthLengths, FirstWeekday, Term, Schedules, Classes, Events          \* calendar

ASSUME BoundsAssumption ==
  /\ MaxAccesses \in Nat /\ MaxAttempts \in Nat /\ MaxPushes \in Nat /\ Due \in Nat
  /\ Levels \in Nat \ {0}

ASSUME FiniteAssumption ==
  IsFiniteSet(Workers) /\ IsFiniteSet(Questions) /\ IsFiniteSet(Sessions) /\ IsFiniteSet(Courses)

ASSUME ListedAssumption == Listed \subseteq Offerings

(* An enrolment belongs to one session and carries so many units.          *)
ASSUME CourseAssumption ==
  \A c \in Courses : CourseSession[c] \in Sessions /\ Units[c] \in Nat

(* Dates are dates; no semester is longer than the 91 weeks over which     *)
(* classes are laid out.                                                   *)
ASSUME CalendarAssumption ==
  /\ MonthLengths \in Seq(28..31) /\ FirstWeekday \in 0..6
  /\ Term \in Seq([start : Int, end : Int]) /\ Term # <<>>
  /\ \A y \in DOMAIN Term : Term[y].end - Term[y].start < 7 * 91
  /\ "none" \notin DOMAIN Schedules
  /\ \A e \in DOMAIN Classes :
       Classes[e].timetable \in DOMAIN Schedules /\ Classes[e].day \in 0..6

VARIABLES desk, v1, v2, v3, v4, v5, v6, v7, v8, v9, memory

others == <<v1, v2, v3, v4, v5, v6, v7, v8, v9, memory>>
all == <<desk, others, vars>>

Unused == "unused"

(***************************************************************************)
(* The desks.                                                              *)
(***************************************************************************)
Course ==
  INSTANCE Coursework
    WITH enrolled <- v1, material <- v2, logs <- v3, assignment <- v4,
         late <- v5, submissions <- v6, marked <- v7, sheet <- v8, records <- v9,
         mem <- memory

Quiz ==
  INSTANCE Quizzes
    WITH published <- v1, phase <- v2, enrolled <- v3, kinds <- v4,
         attempts <- v5, answers <- v6, expired <- v7, asked <- v8, mem <- memory

Progress ==
  INSTANCE Progression
    WITH SessionOf <- CourseSession, results <- v1, profile <- v2, statuses <- v3,
         graduations <- v4, granted <- v5, pushes <- v6, mem <- memory

Register ==
  INSTANCE Registration
    WITH SessionOf <- OfferingSession, fee <- v1, requests <- v2, enrolments <- v3,
         results <- v4, retakeFees <- v5, mem <- memory

Page ==
  INSTANCE Calendar
    WITH Entries <- Classes, role <- v1, published <- v2, flagged <- v3, mine <- v4,
         events <- v5, current <- v6, page <- v7

(***************************************************************************)
(* One desk works; the rows of the others are not there, or stay as they   *)
(* are.                                                                    *)
(***************************************************************************)
TeachingInit ==
  /\ Init
  /\ \/ desk = "coursework" /\ Course!Init
     \/ /\ v9 = Unused
        /\ \/ desk = "quizzes" /\ Quiz!Init
           \/ /\ v8 = Unused
              /\ \/ desk = "calendar" /\ memory = Unused /\ Page!Init
                 \/ /\ v7 = Unused
                    /\ \/ desk = "progression" /\ Progress!Init
                       \/ /\ v6 = Unused
                          /\ \/ desk = "registration" /\ Register!Init
                             \/ /\ desk = "results" /\ memory = Unused
                                /\ v5 = Unused /\ v4 = Unused /\ v3 = Unused /\ v2 = Unused /\ v1 = Unused

TeachingNext ==
  \/ desk = "results" /\ Next /\ UNCHANGED <<desk, others>>
  \/ desk = "coursework" /\ Course!Next /\ UNCHANGED <<desk, vars>>
  \/ desk = "quizzes" /\ Quiz!Next /\ UNCHANGED <<desk, vars, v9>>
  \/ desk = "progression" /\ Progress!Next /\ UNCHANGED <<desk, vars, v7, v8, v9>>
  \/ desk = "registration" /\ Register!Next /\ UNCHANGED <<desk, vars, v6, v7, v8, v9>>
  \/ desk = "calendar" /\ Page!Next /\ UNCHANGED <<desk, vars, v8, v9, memory>>

TeachingSpec == TeachingInit /\ [][TeachingNext]_all

(***************************************************************************)
(* Values for TLC.                                                         *)
(***************************************************************************)
(* Two sessions with a course each, the second a retake of the first.      *)
TwoCourses == [c1 |-> 1, c2 |-> 2]
Retakes == [c1 |-> "none", c2 |-> "c1"]
OneUnit == [c1 |-> 1, c2 |-> 1]
Scheme == [A |-> 400, F |-> 0]

(* An old offering of the course and the one that is open now.             *)
OldAndNew == [o \in Offerings |-> IF o \in Listed THEN 2 ELSE 1]

(* January and February of a year that begins on a Thursday, each with a   *)
(* semester; a timetable of the first, one class, and an exam that         *)
(* begins on the last day of the semester and runs over both months.       *)
WinterMonths == <<31, 28>>
WinterTerms == <<[start |-> 0, end |-> 27], [start |-> 28, end |-> 58]>>
OneTimetable == [s1 |-> 1]
OneClass == [e1 |-> [timetable |-> "s1", day |-> 0]]
OneExam == {[title |-> "exam", public |-> "no", scope |-> "offering", entry |-> "e1",
             start |-> 27, end |-> 33]}

(* Material, assignment and attendance share no row but the enrolment: one *)
(* of them at a time.                                                      *)
OnePart ==
  desk = "coursework" =>
    LET used == <<v3 > 0, \E s \in Students : v6[s] # Course!NoSubmission, v8 = "yes">>
    IN  Cardinality({i \in DOMAIN used : used[i]}) <= 1

(***************************************************************************)
(* The properties of the modules, each at its desk; ResultSheets's own     *)
(* hold at every desk, where its rows stay as they are.                    *)
(***************************************************************************)
(* Every row keeps its type.                                               *)
TypesOK ==
  /\ TypeOK
  /\ desk = "coursework" => Course!TypeOK
  /\ desk = "quizzes" => Quiz!TypeOK
  /\ desk = "progression" => Progress!TypeOK
  /\ desk = "registration" => Register!TypeOK
  /\ desk = "calendar" => Page!TypeOK

(* Coursework: a score stands beside the text its teacher read, unless the *)
(* text had changed before the mark was posted.                            *)
ScoreIsOfThisText == desk = "coursework" => Course!ScoreIsOfThisText

(* Coursework: no more downloads counted than logged.                      *)
CountNeverAhead == desk = "coursework" => Course!CountNeverAhead

(* Quizzes: no attempt too many, none complete with answers missing.       *)
AttemptsKept == desk = "quizzes" => Quiz!AttemptsKept

(* Progression: a session's decision is granted once.                      *)
NeverDoubled == desk = "progression" => Progress!NeverDoubled

(* Registration: one retake fee for a course and session.                  *)
ChargedOnce == desk = "registration" => Register!ChargedOnce

(* Calendar: the page shows each class of the user's on all its days.      *)
PageIsTrue == desk = "calendar" => Page!PageIsTrue
=============================================================================
