----------------------------- MODULE Progression -----------------------------
(***************************************************************************)
(* One student's standing from year to year: the progression engine, the   *)
(* promotion command and graduation (academics/services and the            *)
(* management commands run_progression, advance_students,                  *)
(* process_graduation).                                                    *)
(*                                                                         *)
(* A run fetches all profiles first and then works through them, so the    *)
(* profile a decision is written back to may be old; decision and profile  *)
(* are saved in two transactions.  Runs overlap and may die in between.    *)
(* Grade points and thresholds are in hundredths.                          *)
(***************************************************************************)
EXTENDS Integers, FiniteSets, Functions

CONSTANTS
  Sessions,
  Courses,      \* the student's enrolments
  SessionOf,    \* the session each belongs to
  RetakeOf,     \* the enrolment it is a retake of, or None
  Units,        \* credit units
  GradePoint,   \* the grading scheme in force: points of each grade
  Levels,       \* number of levels of the programme
  MinAdvance, ProbationThreshold, WithdrawThreshold, MaxFailed,  \* ProgressionPolicy
  Workers,
  MaxPushes,    \* bound on runs of advance_students
  Completing    \* bound: the sessions graduation is processed for

VARIABLES
  results,      \* each enrolment's StudentResult and whether its sheet is approved
  profile,      \* the StudentProfile row
  statuses,     \* the StudentStatus rows
  graduations,  \* status of the GraduationRecord of each completing session
  granted,      \* history: what the first decision of each session granted
  pushes,       \* history: promotions by advance_students
  mem

vars == <<results, profile, statuses, graduations, granted, pushes, mem>>

None == "none"
Idle == [op |-> "idle"]
Grades == DOMAIN GradePoint
Failing == {"F", "I", "W"}
Decision == {"ADVANCE", "PROBATION", "REPEAT", "WITHDRAWN", "DEFERRED", "COMPLETED"}
NoResult == [grade |-> None, approved |-> "no"]
NoGrant == [level |-> 0, credits |-> 0]

Init ==
  /\ results = [c \in Courses |-> NoResult]
  /\ profile = [level |-> 1, credits |-> 0]
  /\ statuses = [s \in Sessions |-> None]
  /\ graduations = [s \in Completing |-> None]
  /\ granted = [s \in Sessions |-> NoGrant]
  /\ pushes = 0
  /\ mem = [w \in Workers |-> Idle]

Become(w, m) == mem' = [mem EXCEPT ![w] = m]

(* A run dies.                                                             *)
Drop(w) ==
  /\ mem[w] # Idle
  /\ Become(w, Idle)
  /\ UNCHANGED <<results, profile, statuses, graduations, granted, pushes>>

(***************************************************************************)
(* Results, as the result sheets deliver them: a score is entered or       *)
(* corrected on an open sheet; a sheet is approved, or sent back.          *)
(***************************************************************************)
EnterResult(c) ==
  /\ results[c].approved = "no"
  /\ \E grade \in Grades \ {results[c].grade} : results' = [results EXCEPT ![c].grade = grade]
  /\ UNCHANGED <<profile, statuses, graduations, granted, pushes, mem>>

ToggleApproval(c) ==
  /\ results[c] # NoResult
  /\ results' = [results EXCEPT ![c].approved = IF @ = "yes" THEN "no" ELSE "yes"]
  /\ UNCHANGED <<profile, statuses, graduations, granted, pushes, mem>>

(***************************************************************************)
(* The engine.                                                             *)
(***************************************************************************)
Approved == {c \in Courses : results[c].approved = "yes"}
SessionResults(s) == {c \in Approved : SessionOf[c] = s}
CreditsAttempted(C) == SumFunctionOnSet(Units, C)
Passed(C) == {c \in C : results[c].grade \notin Failing}
Points(C) == SumFunction([c \in C |-> GradePoint[results[c].grade] * Units[c]])

(* The grade point average over C is below a threshold.                    *)
GpaBelow(C, threshold) == Points(C) < threshold * CreditsAttempted(C)

IsFinalLevel(level) == level = Levels

(* evaluate_progression at a level: each rule speaks where those before it *)
(* are silent.                                                             *)
Evaluate(s, level) ==
  LET C == SessionResults(s)
      failed == C \ Passed(C)
  IN  IF C = {} THEN "DEFERRED"
      ELSE IF GpaBelow(C, WithdrawThreshold) THEN "WITHDRAWN"
      ELSE IF Cardinality(failed) > MaxFailed THEN "REPEAT"
      ELSE IF GpaBelow(C, ProbationThreshold) \/ GpaBelow(C, MinAdvance) THEN "PROBATION"
      ELSE IF IsFinalLevel(level) THEN "COMPLETED" ELSE "ADVANCE"

(* run_progression fetches the profiles ...                                *)
OpenRun(w, s) ==
  /\ mem[w] = Idle
  /\ Become(w, [op |-> "run", session |-> s, row |-> profile])
  /\ UNCHANGED <<results, profile, statuses, graduations, granted, pushes>>

(* Mutant: a re-run is taken for the first decision of the session.        *)
AlwaysCreated(s) == TRUE

Created(s) == statuses[s] = None

(* ... evaluates each when its turn has come and applies the outcome:      *)
(* update_or_create of the StudentStatus, with nothing more to do when     *)
(* there was one ...                                                       *)
RecordDecision(w) ==
  /\ mem[w].op = "run"
  /\ LET s == mem[w].session
         row == mem[w].row
     IN \E decision \in {Evaluate(s, row.level)} :
          LET grant == [level |-> IF decision = "ADVANCE" THEN 1 ELSE 0,
                        credits |-> CreditsAttempted(Passed(SessionResults(s)))]
          IN  /\ statuses' = [statuses EXCEPT ![s] = decision]
              /\ granted' = IF statuses[s] = None THEN [granted EXCEPT ![s] = grant] ELSE granted
              /\ Become(w, IF Created(s) THEN [op |-> "created", row |-> row, grant |-> grant]
                           ELSE Idle)
  /\ UNCHANGED <<results, profile, graduations, pushes>>

(* ... or the level and the credits, reckoned from the fetched profile.    *)
SaveProfile(w) ==
  /\ mem[w].op = "created"
  /\ profile' = [level |-> mem[w].row.level + mem[w].grant.level,
                 credits |-> mem[w].row.credits + mem[w].grant.credits]
  /\ Become(w, Idle)
  /\ UNCHANGED <<results, statuses, graduations, granted, pushes>>

(***************************************************************************)
(* advance_students promotes everybody, whatever was decided.              *)
(***************************************************************************)
OpenAdvance(w) ==
  /\ mem[w] = Idle /\ pushes < MaxPushes /\ ~IsFinalLevel(profile.level)
  /\ Become(w, [op |-> "advance", next |-> profile.level + 1])
  /\ pushes' = pushes + 1
  /\ UNCHANGED <<results, profile, statuses, graduations, granted>>

SaveLevel(w) ==
  /\ mem[w].op = "advance"
  /\ profile' = [profile EXCEPT !.level = mem[w].next]
  /\ Become(w, Idle)
  /\ UNCHANGED <<results, statuses, graduations, granted, pushes>>

(***************************************************************************)
(* Graduation.                                                             *)
(***************************************************************************)
Failed(c) == results[c].grade \in Failing

(* check_graduation_eligibility: failed originals that no retake has       *)
(* cleared; no approval is asked of either result.                         *)
Outstanding ==
  {c \in Courses : RetakeOf[c] = None /\ Failed(c) /\
     \A r \in Courses : RetakeOf[r] = c => results[r].grade = None \/ Failed(r)}

(* evaluate_graduation, of a profile found at the final level.             *)
Eligible ==
  /\ Approved # {} /\ ~GpaBelow(Approved, 100)
  /\ Outstanding = {}

OpenGraduation(w, s) ==
  /\ mem[w] = Idle /\ IsFinalLevel(profile.level)
  /\ Become(w, [op |-> "graduate", session |-> s])
  /\ UNCHANGED <<results, profile, statuses, graduations, granted, pushes>>

(* create_graduation_record: update_or_create, whatever the record said.   *)
CreateGraduationRecord(w) ==
  /\ mem[w].op = "graduate"
  /\ graduations' = [graduations EXCEPT ![mem[w].session] =
       IF Eligible THEN "confirmed" ELSE "rejected"]
  /\ Become(w, Idle)
  /\ UNCHANGED <<results, profile, statuses, granted, pushes>>

(***************************************************************************)
(* The specification.                                                      *)
(***************************************************************************)
ProgressionStep(w) ==
  \/ RecordDecision(w) \/ SaveProfile(w)
  \/ \E s \in Sessions : OpenRun(w, s)

GraduationStep(w) ==
  \/ CreateGraduationRecord(w)
  \/ \E s \in Completing : OpenGraduation(w, s)

Next ==
  \/ \E w \in Workers :
       \/ ProgressionStep(w) \/ GraduationStep(w)
       \/ OpenAdvance(w) \/ SaveLevel(w) \/ Drop(w)
  \/ \E c \in Courses : EnterResult(c) \/ ToggleApproval(c)

Spec == Init /\ [][Next]_vars

(***************************************************************************)
(* Properties.                                                             *)
(***************************************************************************)
MaxCredits == CreditsAttempted(Courses)

(* Every row keeps its type.                                               *)
TypeOK ==
  /\ results \in [Courses -> [grade : Grades, approved : {"yes", "no"}] \cup {NoResult}]
  /\ profile \in [level : 1..Levels, credits : 0..MaxCredits]
  /\ statuses \in [Sessions -> Decision \cup {None}]
  /\ graduations \in [Completing -> {None, "confirmed", "rejected"}]
  /\ granted \in [Sessions -> [level : 0..1, credits : 0..MaxCredits]]
  /\ pushes \in 0..MaxPushes

(* "Never double-advance or double-accumulate credits on a re-run": repeat *)
(* or overlap the runs as you like, correct and re-approve the results in  *)
(* between, the student has no more than what the first decision of each   *)
(* session granted, and the promotions of advance_students.                *)
GrantedCredits == SumFunction([s \in Sessions |-> granted[s].credits])
GrantedLevels == SumFunction([s \in Sessions |-> granted[s].level])

NeverDoubled == profile.credits <= GrantedCredits /\ profile.level <= 1 + pushes + GrantedLevels

(***************************************************************************)
(* Inductive strengthening.                                                *)
(***************************************************************************)
Row == [level : 1..Levels, credits : 0..MaxCredits]
Grant == [level : 0..1, credits : 0..MaxCredits]
Request ==
  {Idle}
  \cup [op : {"run"}, session : Sessions, row : Row]
  \cup [op : {"created"}, row : Row, grant : Grant]
  \cup [op : {"advance"}, next : 1..Levels]
  \cup [op : {"graduate"}, session : Completing]

(* What a profile may have, now that so much was granted.                  *)
Earned(level, credits) ==
  /\ level <= Levels /\ level <= 1 + pushes + GrantedLevels
  /\ credits <= GrantedCredits

CreditInv ==
  /\ TypeOK /\ mem \in [Workers -> Request]
  /\ \A s \in Sessions :
       /\ statuses[s] = None => granted[s] = NoGrant
       /\ granted[s].credits <= CreditsAttempted({c \in Courses : SessionOf[c] = s})
  /\ Earned(profile.level, profile.credits)
  /\ \A w \in Workers :
       /\ mem[w].op = "run" => Earned(mem[w].row.level, mem[w].row.credits)
       /\ mem[w].op = "created" =>
            Earned(mem[w].row.level + mem[w].grant.level, mem[w].row.credits + mem[w].grant.credits)
       /\ mem[w].op = "advance" => Earned(mem[w].next, 0)
=============================================================================
