----------------------------- MODULE Timetable ------------------------------
(***************************************************************************)
(* The timetable engine (scheduling/engine): the generator that places the *)
(* weekly sessions of a semester one by one, the sweep that counts hard    *)
(* conflicts, and the repair and optimizer passes that move sessions of a  *)
(* stored plan one at a time.                                              *)
(*                                                                         *)
(* Times are minutes of the day.  Penalties are in minutes: the code's     *)
(* hours times sixty.                                                      *)
(***************************************************************************)
EXTENDS Integers, FiniteSets

CONSTANTS
  Requirements,    \* sessions to place, numbered in (course code, key) order
  Offerings,
  Offering,        \* the offering each required session is of
  Slots,           \* records [day, start, end]
  Rooms,           \* numbered in the order of their ids, from 1
  Labs, LabRooms,  \* the sessions and the rooms that are laboratories
  Lecturers, Cohorts,
  Workdays,        \* days of the week
  Events,          \* the academic calendar's events that may be entered
  SemesterDays,    \* the dates of the semester, numbered so that 0 is a Monday
  MaxPerDay, MinBreak, Morning, Evening, TargetDays,  \* SchedulingConfig
  Budget, Iterations,                                 \* SchedulingConfig
  Tasks,           \* bound: the problems that are tried
  MaxEdits         \* bound: the sessions that are moved by hand

ASSUME NumbersAssumption ==
  /\ Requirements \subseteq Nat /\ IsFiniteSet(Requirements)
  /\ Rooms \subseteq Nat \ {0} /\ IsFiniteSet(Rooms)
  /\ Offering \in [Requirements -> Offerings]
ASSUME SlotsAssumption ==
  /\ IsFiniteSet(Slots)
  /\ Slots \subseteq [day : Nat, start : Nat, end : Nat]
  /\ \A x \in Slots : x.start < x.end
ASSUME CalendarAssumption ==
  /\ Events \subseteq [start : Nat, end : Nat, all_day : {"yes", "no"},
                       affects : {"yes", "no"}, recurrence : {"none", "weekly", "yearly"}]
  /\ SemesterDays \subseteq Nat
ASSUME ConfigAssumption ==
  {MaxPerDay, MinBreak, Morning, Evening, TargetDays, Budget, Iterations, MaxEdits} \subseteq Nat

VARIABLES
  task,     \* what each offering needs; fixed by EngineInit
  plan,     \* where each required session is
  pass,     \* what the engine is doing
  todo,     \* sessions the pass has still to visit
  stored,   \* the plan as the pass found it
  left,     \* budget or moves that the pass has left
  edits     \* how many sessions were moved by hand

engine == <<task, plan, pass, todo, stored, left, edits>>

(* What the engine reads of an offering: the lecturer that is allocated    *)
(* (0 for nobody), the cohort, the rooms of a type and capacity that suit  *)
(* it; of a lecturer: the slots that overlap a declared unavailability;    *)
(* the events of the calendar, and the sessions that are locked.           *)
Task == [lecturer : [Offerings -> Lecturers \cup {0}],
         cohort : [Offerings -> Cohorts],
         suits : [Offerings -> SUBSET Rooms],
         away : [Lecturers -> SUBSET Slots],
         events : SUBSET Events,
         locked : SUBSET Requirements]

NoRoom == 0
Placement == [slot : Slots, room : Rooms \cup {NoRoom}]
Unplaced == [slot |-> [day |-> 0, start |-> 0, end |-> 0], room |-> NoRoom]

lecturer(r) == task.lecturer[Offering[r]]
cohort(r) == task.cohort[Offering[r]]
suits(r) == task.suits[Offering[r]]

Placed == {r \in Requirements : plan[r] # Unplaced}

times_overlap(x, y) == x.start < y.end /\ y.start < x.end

(* Two sessions at one time.                                               *)
Together(x, y) == x.day = y.day /\ times_overlap(x, y)

(* An event that blocks classes blocks the weekday it starts on, for the   *)
(* whole semester, if it touches the semester.                             *)
blackout_weekdays ==
  {e.start % 7 : e \in {e \in task.events :
     /\ e.affects = "yes" /\ e.all_day = "yes" /\ e.recurrence \in {"none", "weekly"}
     /\ \E d \in SemesterDays : e.start <= d
     /\ \E d \in SemesterDays : d <= e.end}}

(***************************************************************************)
(* Legal placements.                                                       *)
(***************************************************************************)
(* The windows that the engine goes by.  The loop that files them unpacks   *)
(* each row of .values(), a dictionary, into its keys: every window is     *)
(* filed under the word lecturer_id, none under a lecturer.                *)
unavail_map == [l \in Lecturers |-> {}]

unavailable(r, x) == lecturer(r) # 0 /\ x \in unavail_map[lecturer(r)]

(* Mutant: a session is where the pass found it.                           *)
AsFound(q) == stored[q]

(* Where the in-memory state has a session.                                *)
Where(q) == plan[q]

(* PlanState, with the session itself unassigned.                          *)
Others(r) == Placed \ {r}

SameCohort(r) == {q \in Others(r) : cohort(q) = cohort(r)}

(* The generator's break rule lets a session begin as another ends.        *)
break_violated(x, y) ==
  \/ x.start > y.end /\ x.start - y.end < MinBreak
  \/ y.start > x.end /\ y.start - x.end < MinBreak

LegalSlot(r, x) ==
  LET sameDay == {q \in SameCohort(r) : Where(q).slot.day = x.day}
  IN  /\ x.day \in Workdays \ blackout_weekdays
      /\ ~unavailable(r, x)
      /\ Cardinality(sameDay) < MaxPerDay
      /\ \A q \in sameDay :
           ~times_overlap(x, Where(q).slot) /\ ~break_violated(x, Where(q).slot)
      /\ lecturer(r) # 0 =>
           \A q \in Others(r) : lecturer(q) = lecturer(r) => ~Together(x, Where(q).slot)

(* Mutant: rooms that are in use are offered too.                          *)
AnyRoom(r, x) == suits(r)

FreeRooms(r, x) ==
  {room \in suits(r) :
     \A q \in Others(r) : Where(q).room = room => ~Together(x, Where(q).slot)}

(* A slot with no usable room is offered without a room.                   *)
LegalCandidates(r) ==
  {c \in Placement :
     /\ LegalSlot(r, c.slot)
     /\ IF FreeRooms(r, c.slot) = {} THEN c.room = NoRoom
        ELSE c.room \in FreeRooms(r, c.slot)}

(***************************************************************************)
(* Soft penalties.                                                         *)
(***************************************************************************)
TimeOfDay(x) ==
  (IF x.start < Morning THEN Morning - x.start ELSE 0)
    + (IF x.end > Evening THEN x.end - Evening ELSE 0)

(* A laboratory session is offered laboratories only, so the penalty for a *)
(* room of another type applies to where it is, not to where it may go.    *)
CandidatePenalty(c, usedDays) ==
  TimeOfDay(c.slot) + (IF c.slot.day \in usedDays THEN 60 ELSE 0)

CurrentPenalty(r, usedDays) ==
  CandidatePenalty(plan[r], usedDays)
    + (IF r \in Labs /\ plan[r].room \notin LabRooms THEN 120 ELSE 0)

Sum(f(_), S) ==
  LET total[T \in SUBSET S] ==
        IF T = {} THEN 0 ELSE LET e == CHOOSE e \in T : TRUE IN f(e) + total[T \ {e}]
  IN  total[S]

(* _plan_penalty of the plan p.                                            *)
PlanPenalty(p) ==
  LET there == {r \in Requirements : p[r] # Unplaced}
      early(r) == TimeOfDay(p[r].slot)
      missing(k) ==
        LET days == {p[r].slot.day : r \in {q \in there : cohort(q) = k}}
        IN  IF days # {} /\ Cardinality(days) < TargetDays
            THEN (TargetDays - Cardinality(days)) * 120 ELSE 0
  IN  Sum(early, there) + Sum(missing, Cohorts)

Earlier(c, d) ==
  \/ c.slot.day < d.slot.day
  \/ c.slot.day = d.slot.day /\ c.slot.start < d.slot.start
  \/ c.slot.day = d.slot.day /\ c.slot.start = d.slot.start /\ c.room <= d.room

(* The candidates of least penalty, and of those the first.                *)
Best(candidates, usedDays) ==
  LET p == [c \in candidates |-> CandidatePenalty(c, usedDays)]
  IN  {c \in candidates :
         \A d \in candidates : p[c] < p[d] \/ (p[c] = p[d] /\ Earlier(c, d))}

(***************************************************************************)
(* The generator.                                                          *)
(***************************************************************************)
EngineInit ==
  /\ task \in Tasks
  /\ plan = [r \in Requirements |-> Unplaced]
  /\ stored = plan
  /\ pass = "generate" /\ todo = Requirements /\ left = Budget
  /\ edits = 0

(* Most constrained first.                                                 *)
Tightest ==
  LET n == [r \in todo |-> Cardinality(LegalCandidates(r))]
  IN  {r \in todo : \A q \in todo : n[r] < n[q] \/ (n[r] = n[q] /\ r <= q)}

UsedDays(r) == {plan[q].slot.day : q \in {p \in Placed : Offering[p] = Offering[r]}}

(* One round of solve_plan.                                                *)
PlaceNext ==
  /\ pass = "generate" /\ todo # {} /\ left > 0
  /\ \E r \in Tightest : \E cands \in {LegalCandidates(r)} :
       IF cands = {}
       THEN todo' = todo \ {r} /\ UNCHANGED <<plan, left>>
       ELSE /\ \E c \in Best(cands, UsedDays(r)) : plan' = [plan EXCEPT ![r] = c]
            /\ left' = left - Cardinality(cands)
            /\ todo' = todo \ {r}
  /\ UNCHANGED <<task, pass, stored, edits>>

(* The rest is recorded as unplaced, and the plan is stored.               *)
EndPass ==
  /\ pass # "idle"
  /\ todo = {} \/ left <= 0
  /\ pass' = "idle" /\ todo' = {}
  /\ UNCHANGED <<task, plan, stored, left, edits>>

(* generate_schedule again.                                                *)
Regenerate ==
  /\ pass = "idle"
  /\ plan' = [r \in Requirements |-> Unplaced]
  /\ pass' = "generate" /\ todo' = Requirements /\ left' = Budget
  /\ stored' = plan'
  /\ edits' = 0
  /\ UNCHANGED task

(* Mutant: a cleared session keeps its room.                               *)
HalfCleared == [slot : Slots \cup {Unplaced.slot}, room : Rooms \cup {NoRoom}]

(* add_entry, update_entry and delete_entry put a session anywhere.        *)
Anywhere == Placement \cup {Unplaced}

Edit(r) ==
  /\ pass = "idle" /\ edits < MaxEdits
  /\ r \notin task.locked
  /\ \E c \in Anywhere : c # plan[r] /\ plan' = [plan EXCEPT ![r] = c]
  /\ edits' = edits + 1
  /\ UNCHANGED <<task, pass, todo, stored, left>>

(***************************************************************************)
(* The conflict sweep.                                                     *)
(***************************************************************************)
(* The other placed sessions of a plan that are on at the same time.       *)
Meanwhile(p, r) ==
  {q \in Requirements \ {r} :
     p[r] # Unplaced /\ p[q] # Unplaced /\ Together(p[r].slot, p[q].slot)}

LecturerBusy(p, r) ==
  {q \in Meanwhile(p, r) : lecturer(r) # 0 /\ lecturer(q) = lecturer(r)}

RoomBusy(p, r) ==
  {q \in Meanwhile(p, r) : p[r].room # NoRoom /\ p[q].room = p[r].room}

CohortClash(p, r) == {q \in Meanwhile(p, r) : cohort(q) = cohort(r)}

(* Pairs of sessions that need one lecturer, room or cohort twice.         *)
Clashes(p) ==
  {x \in Requirements \X Requirements :
     x[2] \in LecturerBusy(p, x[1]) \cup RoomBusy(p, x[1]) \cup CohortClash(p, x[1])}

NonWorkday(r) == plan[r].slot.day \notin Workdays

WrongRoom(r) == plan[r].room # NoRoom /\ plan[r].room \notin suits(r)

OverDayLimit(r) ==
  Cardinality({q \in SameCohort(r) : plan[q].slot.day = plan[r].slot.day}) >= MaxPerDay

(* The sweep's break rule: a gap of nothing is too short as well.          *)
BreakTooShort(r) ==
  \E q \in SameCohort(r) :
    LET x == plan[r].slot
        y == plan[q].slot
        gap == IF y.start >= x.end THEN y.start - x.end ELSE x.start - y.end
    IN  x.day = y.day /\ 0 <= gap /\ gap < MinBreak

(* validate_entry as repair calls it, with the windows of unavail_map;     *)
(* blackouts are never passed to it.                                       *)
Misplaced(r) ==
  NonWorkday(r) \/ unavailable(r, plan[r].slot) \/ WrongRoom(r) \/ OverDayLimit(r)

(* The sessions in which repair finds a hard conflict.                     *)
Conflicted ==
  {r \in Placed :
     Misplaced(r) \/ BreakTooShort(r) \/ \E q \in Placed : <<r, q>> \in Clashes(plan)}

(***************************************************************************)
(* Repair and optimizer.                                                   *)
(***************************************************************************)
BeginPass(name, sessions, moves) ==
  /\ pass = "idle" /\ sessions # {}
  /\ pass' = name /\ todo' = sessions /\ left' = moves
  /\ stored' = plan
  /\ UNCHANGED <<task, plan, edits>>

BeginRepair == BeginPass("repair", Conflicted \ task.locked, Cardinality(Requirements))
BeginOptimize == BeginPass("optimize", Placed, Iterations)

(* The entries are visited in the order of the stored plan.                *)
FirstStored ==
  {r \in todo : \A q \in todo \ {r} :
    \/ stored[r].slot.day < stored[q].slot.day
    \/ /\ stored[r].slot.day = stored[q].slot.day
       /\ \/ stored[r].slot.start < stored[q].slot.start
          \/ stored[r].slot.start = stored[q].slot.start /\ r < q}

FirstOf(candidates) == {c \in candidates : \A d \in candidates : Earlier(c, d)}

(* A conflicting session moves to its first legal placement, if any.       *)
RepairNext ==
  /\ pass = "repair" /\ todo # {}
  /\ \E r \in FirstStored : \E cands \in {LegalCandidates(r)} :
       /\ IF cands = {} THEN UNCHANGED plan
          ELSE \E c \in FirstOf(cands) : plan' = [plan EXCEPT ![r] = c]
       /\ todo' = todo \ {r}
  /\ UNCHANGED <<task, pass, stored, left, edits>>

(* The best other placement of a session, if that is better for it and for *)
(* the plan.                                                               *)
Improvements(r) ==
  LET own == {plan[r].slot.day}
      others == {c \in LegalCandidates(r) :
                   ~(c.slot.day = plan[r].slot.day /\ c.slot.start = plan[r].slot.start
                     /\ c.room = plan[r].room)}
  IN  {c \in Best(others, own) :
         /\ CandidatePenalty(c, own) < CurrentPenalty(r, own)
         /\ PlanPenalty([plan EXCEPT ![r] = c]) < PlanPenalty(plan)}

(* Locked sessions are moved too.                                          *)
OptimizeNext ==
  /\ pass = "optimize" /\ todo # {} /\ left > 0
  /\ \E r \in FirstStored : \E better \in {Improvements(r)} :
       /\ IF better = {} THEN UNCHANGED <<plan, left>>
          ELSE /\ \E c \in better : plan' = [plan EXCEPT ![r] = c]
               /\ left' = left - 1
       /\ todo' = todo \ {r}
  /\ UNCHANGED <<task, pass, stored, edits>>

PassStep == PlaceNext \/ RepairNext \/ OptimizeNext \/ EndPass

EngineNext ==
  \/ PassStep
  \/ Regenerate \/ BeginRepair \/ BeginOptimize
  \/ \E r \in Requirements : Edit(r)

EngineSpec == EngineInit /\ [][EngineNext]_engine

(***************************************************************************)
(* Properties.                                                             *)
(***************************************************************************)
EngineTypeOK ==
  /\ task \in Tasks
  /\ plan \in [Requirements -> Placement \cup {Unplaced}]
  /\ stored \in [Requirements -> Placement \cup {Unplaced}]
  /\ pass \in {"idle", "generate", "repair", "optimize"}
  /\ todo \in SUBSET Requirements
  /\ left \in Int
  /\ edits \in 0..MaxEdits

(* What the engine places by itself, generation and any passes after it,   *)
(* books no lecturer, room or cohort twice, and keeps to room types,       *)
(* capacities, the daily limit and the calendar.                           *)
GeneratedIsSound ==
  edits = 0 =>
    /\ Clashes(plan) = {}
    /\ \A r \in Placed : ~Misplaced(r) /\ plan[r].slot.day \notin blackout_weekdays

(* Whatever was placed by hand, no step of a pass makes two sessions clash *)
(* that did not: each is moved to where the others leave room at that time. *)
PassAddsNoClash ==
  [][(pass \in {"repair", "optimize"}) => Clashes(plan') \subseteq Clashes(plan)]_engine

(* "Hard constraints enforced ... lecturer unavailability": the engine asks *)
(* nobody who has declared to be away.  It does not hold: see unavail_map. *)
NobodyAway ==
  edits = 0 =>
    \A r \in Placed : lecturer(r) # 0 => plan[r].slot \notin task.away[lecturer(r)]
=============================================================================
