---------------------------- MODULE MCSchedules -----------------------------
(***************************************************************************)
(* Instances of Schedules and of Timetable for TLC, checked side by side:  *)
(* the initial state chooses the workflow or the engine, and the other     *)
(* stays at a state of its own.                                            *)
(***************************************************************************)
EXTENDS Schedules, MCTimetable

CONSTANTS main, rival

(* Both schedules are of one semester and type; the rival is only ever      *)
(* empty, and keeps no version of a plan.                                   *)
OneTerm == [s \in Schedules |-> "class"]
(* A session of each department, and named by it.                          *)
Owners == [x \in Sessions |-> x]
Held == [s \in Schedules |-> IF s = main THEN {{}, Sessions} ELSE {{}}]
Left == [s \in Schedules |-> IF s = main THEN 1 ELSE 0]
Kept == [s \in Schedules |-> IF s = main THEN 2 ELSE 0]

(* Bound: no head signs the rival, which may be published all the same.     *)
RivalUnsigned == approvals[rival] = NoApprovals

Heads == Permutations(Departments)

VARIABLE desk

all == <<desk, vars, engine>>

SchedulingInit ==
  /\ desk \in {"workflow", "engine"}
  /\ Init /\ EngineInit
  /\ desk = "workflow" => task = CHOOSE t \in Tasks : TRUE

SchedulingNext ==
  \/ desk = "workflow" /\ Next /\ UNCHANGED <<desk, engine>>
  \/ desk = "engine" /\ EngineNext /\ UNCHANGED <<desk, vars>>

SchedulingSpec == SchedulingInit /\ [][SchedulingNext]_all
=============================================================================
