----------------------------- MODULE Schedules ------------------------------
(***************************************************************************)
(* Timetables (AcademicSchedule) from generation to publication:           *)
(* scheduling/services.py, scheduling/views.py, scheduling/models.py.      *)
(*                                                                         *)
(* A worker serves one request: it fetches the schedule, and the service   *)
(* judges that copy and writes it back, whole or by columns.  A request    *)
(* that is refused, raises or dies is abandoned.  The engine is modelled   *)
(* by what it may leave behind: some sessions placed, some not, with or    *)
(* without conflicts (module Timetable says which placements conflict).    *)
(*                                                                         *)
(* schedule_edit changes nothing, whatever it reports: its form is bound   *)
(* to the row that update_schedule is then given, so the service finds     *)
(* every field as it should be and saves none.  It is Fetch and Abandon,   *)
(* and the term of a schedule never changes.                               *)
(***************************************************************************)
EXTENDS Integers, Sequences, FiniteSets

CONSTANTS
  Schedules, Workers, Departments,
  Sessions,     \* the weekly sessions that the semester's offerings require
  Owner,        \* the department that hosts each session
  Term,         \* the semester and schedule type each schedule was created with
  Contents,     \* bound: the sets of sessions that each schedule may hold
  MaxVersions,  \* bound: the snapshots that each schedule may keep
  MaxUnplaced   \* bound: the sessions that generation may leave unplaced

ASSUME OwnerAssumption == Owner \in [Sessions -> Departments]
ASSUME BoundAssumption ==
  /\ MaxVersions \in [Schedules -> Nat]
  /\ MaxUnplaced \in [Schedules -> Nat]
  /\ Contents \in [Schedules -> SUBSET SUBSET Sessions]

VARIABLES
  sched,      \* the AcademicSchedule rows
  entries,    \* the plan that the ScheduleEntry rows of each schedule make
  approvals,  \* the ScheduleHodApproval rows, with the plan each head signed
  versions,   \* the ScheduleVersion rows, in the order of version_number
  mem,        \* the copy of a schedule that each worker has fetched
  at,         \* how far each worker is
  unkept,     \* history: schedules whose publication died before its snapshot
  crossed     \* history: schedules of a term in which requests have crossed

vars == <<sched, entries, approvals, versions, mem, at, unkept, crossed>>

None == "none"

ScheduleStatus == {"draft", "generated", "under_review", "hod_approved", "approved",
                   "published", "revision", "archived"}

Row == [status : ScheduleStatus, current : {"yes", "no"}, unplaced : Nat]
NoRow == [status |-> None, current |-> "no", unplaced |-> 0]
(* Mutant: a schedule is created with a status of its own.                 *)
FreshRow == [status |-> "new", current |-> "no", unplaced |-> 0]

NewRow == [status |-> "draft", current |-> "no", unplaced |-> 0]

(* What the entries of a schedule amount to: the sessions that are placed, *)
(* and whether detect_conflicts finds a hard conflict among them.          *)
Plan == [sessions : SUBSET Sessions, verdict : {"clean", "clash"}]
Empty == [sessions |-> {}, verdict |-> "clean"]

PlansOf(s) == {p \in Plan : p.sessions \in Contents[s] /\ (p.sessions = {} => p = Empty)}

NoPlan == [sessions |-> {}, verdict |-> None]
Snapshot == [plan : Plan, published : {"yes", "no"}]
Copy == [schedule : Schedules, row : Row]
NoCopy == [schedule |-> None, row |-> NoRow]
Stages == {"idle", "fetched", "checked", "stamped", "optimizing"}

Exists(s) == sched[s] # NoRow

(* Mutant: a published schedule is not locked.                             *)
LockedInReview(row) == row.status \in {"under_review", "hod_approved", "approved"}

is_locked(row) == row.status \in {"under_review", "hod_approved", "approved", "published"}

(* The departments whose heads must sign: those of the placed sessions, or *)
(* while nothing is placed those of every session.                         *)
Involved(s) ==
  {Owner[x] : x \in IF entries[s] = Empty THEN Sessions ELSE entries[s].sessions}

Approved(s) == {d \in Departments : approvals[s][d] # NoPlan}
NoApprovals == [d \in Departments |-> NoPlan]

Init ==
  /\ sched = [s \in Schedules |-> NoRow]
  /\ entries = [s \in Schedules |-> Empty]
  /\ approvals = [s \in Schedules |-> NoApprovals]
  /\ versions = [s \in Schedules |-> << >>]
  /\ mem = [w \in Workers |-> NoCopy]
  /\ at = [w \in Workers |-> "idle"]
  /\ unkept = {}
  /\ crossed = {}

(***************************************************************************)
(* Requests and rows.                                                      *)
(***************************************************************************)
(* schedule_create.                                                        *)
Create(s) ==
  /\ ~Exists(s)
  /\ sched' = [sched EXCEPT ![s] = NewRow]
  /\ UNCHANGED <<entries, approvals, versions, mem, at, unkept>>

(* The get_object_or_404 that every view of a schedule begins with.        *)
Fetch(w, s) ==
  /\ at[w] = "idle" /\ Exists(s)
  /\ mem' = [mem EXCEPT ![w] = [schedule |-> s, row |-> sched[s]]]
  /\ at' = [at EXCEPT ![w] = "fetched"]
  /\ UNCHANGED <<sched, entries, approvals, versions, unkept>>

Done(w) ==
  /\ mem' = [mem EXCEPT ![w] = NoCopy]
  /\ at' = [at EXCEPT ![w] = "idle"]

(* _schedule_post flashes the error: what was committed stays.             *)
Abandon(w) ==
  /\ at[w] # "idle"
  /\ Done(w)
  /\ unkept' = IF at[w] = "stamped" THEN unkept \cup {mem[w].schedule} ELSE unkept
  /\ UNCHANGED <<sched, entries, approvals, versions>>

(* Mutant: the other schedules keep their flag.                            *)
ClearNone(s, status) == sched

(* AcademicSchedule.save, first half: before a published schedule is       *)
(* stored, whatever columns are, the others of its term lose is_current.   *)
Cleared(s, status) ==
  IF status # "published" THEN sched
  ELSE [t \in Schedules |-> IF t # s /\ Term[t] = Term[s]
                            THEN [sched[t] EXCEPT !.current = "no"] ELSE sched[t]]

(* save() writes every column; a row deleted meanwhile is inserted again.  *)
Save(s, row) ==
  sched' = [Cleared(s, row.status) EXCEPT
              ![s] = IF row.status = "published" THEN [row EXCEPT !.current = "yes"] ELSE row]

(* save(update_fields) of a copy with this status raises if the row is gone. *)
SaveFields(s, status, row) ==
  Exists(s) /\ sched' = [Cleared(s, status) EXCEPT ![s] = row]

(* detect_conflicts stores counters that no guard reads, but it stores them *)
(* with save(): this much of it shows.                                     *)
StoreCounters(s, status) == SaveFields(s, status, sched[s])

(* ScheduleVersion.create_snapshot.                                        *)
Keep(s, published) ==
  /\ Len(versions[s]) < MaxVersions[s]
  /\ versions' = [versions EXCEPT
       ![s] = Append(@, [plan |-> entries[s], published |-> published])]

(* Mutant: entries are replaced without a snapshot.                        *)
ReplaceAnyway(s) == UNCHANGED versions

(* _snapshot_before_change.                                                *)
KeepBeforeChange(s) ==
  IF entries[s] = Empty THEN UNCHANGED versions ELSE Keep(s, "no")

(***************************************************************************)
(* The engine.                                                             *)
(***************************************************************************)
(* generate_schedule: the copy is judged, the solver runs, and the plan is *)
(* stored in one transaction that ends with a save of the whole copy.      *)
Generate(w) ==
  LET s == mem[w].schedule
  IN  /\ at[w] = "fetched" /\ ~is_locked(mem[w].row)
      /\ Exists(s)
      /\ KeepBeforeChange(s)
      /\ \E p \in PlansOf(s), u \in 0..MaxUnplaced[s] :
           /\ entries' = [entries EXCEPT ![s] = p]
           /\ Save(s, [mem[w].row EXCEPT !.status = "generated", !.unplaced = u])
      /\ Done(w)
      /\ UNCHANGED <<approvals, unkept>>

(* What moving sessions, all or only the first of them, can make of a plan. *)
Moved(s) == {p \in PlansOf(s) : p.sessions = entries[s].sessions}

(* optimize_schedule, up to its first snapshot.                            *)
StartOptimize(w) ==
  /\ at[w] = "fetched" /\ ~is_locked(mem[w].row)
  /\ Exists(mem[w].schedule)
  /\ Keep(mem[w].schedule, "no")
  /\ at' = [at EXCEPT ![w] = "optimizing"]
  /\ UNCHANGED <<sched, entries, approvals, mem, unkept>>

(* The accepted moves are saved; the second snapshot may not come to be.   *)
Optimize(w) ==
  LET s == mem[w].schedule
  IN  /\ at[w] = "optimizing"
      /\ \E p \in Moved(s) :
           /\ entries' = [entries EXCEPT ![s] = p]
           /\ \/ UNCHANGED versions
              \/ /\ Len(versions[s]) < MaxVersions[s]
                 /\ versions' = [versions EXCEPT
                      ![s] = Append(@, [plan |-> p, published |-> "no"])]
      /\ StoreCounters(s, mem[w].row.status)
      /\ Done(w)
      /\ UNCHANGED <<approvals, unkept>>

(* repair_schedule: refused to a published schedule only; it moves nothing *)
(* while there is no conflict.                                             *)
Repair(w) ==
  LET s == mem[w].schedule
  IN  /\ at[w] = "fetched" /\ mem[w].row.status # "published"
      /\ \E p \in Moved(s) :
           /\ entries[s].verdict = "clean" => p = entries[s]
           /\ entries' = [entries EXCEPT ![s] = p]
      /\ StoreCounters(s, mem[w].row.status)
      /\ Done(w)
      /\ UNCHANGED <<approvals, versions, unkept>>

(* An edit by hand makes one of these plans, and the sweep follows.        *)
EditTo(w, plans(_)) ==
  LET s == mem[w].schedule
  IN  /\ at[w] = "fetched" /\ ~is_locked(mem[w].row)
      /\ \E p \in plans(s) : entries' = [entries EXCEPT ![s] = p]
      /\ StoreCounters(s, mem[w].row.status)
      /\ Done(w)
      /\ UNCHANGED <<approvals, versions, unkept>>

(* More sessions, or fewer, after a run of such requests.                  *)
More(s) == {p \in PlansOf(s) : entries[s].sessions \subseteq p.sessions} \ Moved(s)
Fewer(s) == {p \in PlansOf(s) : p.sessions \subseteq entries[s].sessions} \ Moved(s)

AddEntry(w) == EditTo(w, More)
DeleteEntry(w) == EditTo(w, Fewer)
UpdateEntry(w) == EditTo(w, Moved)

(* to_entries: the rows are deleted and recreated one by one, without the  *)
(* cohort signatures, which hides clashes; at the first session with a     *)
(* lecturer it raises, and the rest stay deleted.                          *)
Restored(s, p) == {q \in PlansOf(s) : q.sessions \subseteq p.sessions}

(* restore_version.                                                        *)
Restore(w) ==
  LET s == mem[w].schedule
  IN  /\ at[w] = "fetched" /\ ~is_locked(mem[w].row)
      /\ KeepBeforeChange(s)
      /\ \E v \in DOMAIN versions[s] : \E p \in Restored(s, versions[s][v].plan) :
           entries' = [entries EXCEPT ![s] = p]
      /\ StoreCounters(s, mem[w].row.status)
      /\ Done(w)
      /\ UNCHANGED <<approvals, unkept>>

(***************************************************************************)
(* The workflow.                                                           *)
(***************************************************************************)
(* Mutant: earlier decisions of the heads are kept.                        *)
KeepDecisions(s) == approvals

ResetDecisions(s) == [approvals EXCEPT ![s] = NoApprovals]

(* submit_for_review.                                                      *)
Submit(w) ==
  LET s == mem[w].schedule
  IN  /\ at[w] = "fetched"
      /\ mem[w].row.status \in {"draft", "generated", "hod_approved", "revision"}
      /\ approvals' = ResetDecisions(s)
      /\ Save(s, [mem[w].row EXCEPT !.status = "under_review"])
      /\ Done(w)
      /\ UNCHANGED <<entries, versions, unkept>>

(* hod_approve by the head of d; _refresh_after_hod.                       *)
HodApprove(w, d) ==
  LET s == mem[w].schedule
  IN  /\ at[w] = "fetched" /\ mem[w].row.status = "under_review"
      /\ Exists(s) /\ d \in Involved(s)
      /\ approvals' = [approvals EXCEPT ![s][d] = entries[s]]
      /\ IF Involved(s) \subseteq Approved(s) \cup {d}
         THEN SaveFields(s, "hod_approved", [sched[s] EXCEPT !.status = "hod_approved"])
         ELSE UNCHANGED sched
      /\ Done(w)
      /\ UNCHANGED <<entries, versions, unkept>>

(* hod_approve with approve = False.                                       *)
HodReject(w, d) ==
  LET s == mem[w].schedule
  IN  /\ at[w] = "fetched" /\ mem[w].row.status = "under_review"
      /\ d \in Involved(s)
      /\ approvals' = [approvals EXCEPT ![s][d] = NoPlan]
      /\ SaveFields(s, "revision", [sched[s] EXCEPT !.status = "revision"])
      /\ Done(w)
      /\ UNCHANGED <<entries, versions, unkept>>

(* A service that judges the copy's status and saves the copy.             *)
Move(w, from, row) ==
  /\ at[w] = "fetched" /\ mem[w].row.status \in from
  /\ Save(mem[w].schedule, row)
  /\ Done(w)
  /\ UNCHANGED <<entries, approvals, versions, unkept>>

Approve(w) == Move(w, {"hod_approved"}, [mem[w].row EXCEPT !.status = "approved"])

Unpublish(w) ==
  Move(w, {"published"}, [mem[w].row EXCEPT !.status = "approved", !.current = "no"])

Archive(w) ==
  Move(w, ScheduleStatus, [mem[w].row EXCEPT !.status = "archived", !.current = "no"])

Unarchive(w) ==
  Move(w, {"archived"}, [mem[w].row EXCEPT !.status = "draft", !.current = "no"])

ClearUnplaced(w) ==
  LET s == mem[w].schedule
  IN  /\ at[w] = "fetched" /\ mem[w].row.unplaced > 0
      /\ SaveFields(s, mem[w].row.status, [sched[s] EXCEPT !.unplaced = 0])
      /\ Done(w)
      /\ UNCHANGED <<entries, approvals, versions, unkept>>

(* delete_schedule, with its cascade.                                      *)
Delete(w) ==
  LET s == mem[w].schedule
  IN  /\ at[w] = "fetched"
      /\ mem[w].row.status = "published" => Exists(s)
      /\ sched' = [sched EXCEPT ![s] = NoRow]
      /\ entries' = [entries EXCEPT ![s] = Empty]
      /\ approvals' = [approvals EXCEPT ![s] = NoApprovals]
      /\ versions' = [versions EXCEPT ![s] = << >>]
      /\ unkept' = unkept \ {s}
      /\ Done(w)

Publishable(s) == entries[s].verdict = "clean" /\ sched[s].unplaced = 0

(* publish_schedule, the gate: the counters are stored with the copy as it *)
(* was fetched, then the row is read again.                                *)
CheckPublish(w) ==
  LET s == mem[w].schedule
  IN  /\ at[w] = "fetched"
      /\ StoreCounters(s, mem[w].row.status)
      /\ IF Publishable(s) /\ sched[s].status # "published"
         THEN /\ mem' = [mem EXCEPT ![w].row = sched'[s]]
              /\ at' = [at EXCEPT ![w] = "checked"]
         ELSE Done(w)
      /\ UNCHANGED <<entries, approvals, versions, unkept>>

(* The row is published.                                                   *)
Publish(w) ==
  /\ at[w] = "checked"
  /\ Save(mem[w].schedule, [mem[w].row EXCEPT !.status = "published"])
  /\ at' = [at EXCEPT ![w] = "stamped"]
  /\ UNCHANGED <<entries, approvals, versions, mem, unkept>>

(* The published version is kept.                                          *)
KeepPublished(w) ==
  LET s == mem[w].schedule
  IN  /\ at[w] = "stamped" /\ Exists(s)
      /\ Keep(s, "yes")
      /\ unkept' = unkept \ {s}
      /\ Done(w)
      /\ UNCHANGED <<sched, entries, approvals>>

(***************************************************************************)
(* The specification.                                                      *)
(***************************************************************************)
EngineStep(w) == Generate(w) \/ StartOptimize(w) \/ Optimize(w) \/ Repair(w)

EntryStep(w) == AddEntry(w) \/ UpdateEntry(w) \/ DeleteEntry(w)

ReviewStep(w) == Submit(w) \/ Approve(w)

HodStep(w) == \E d \in Departments : HodApprove(w, d) \/ HodReject(w, d)

PublishStep(w) ==
  \/ CheckPublish(w) \/ Publish(w) \/ KeepPublished(w)
  \/ Unpublish(w) \/ Archive(w) \/ Unarchive(w) \/ ClearUnplaced(w) \/ Delete(w)

WorkerStep(w) ==
  \/ EngineStep(w) \/ EntryStep(w) \/ Restore(w)
  \/ ReviewStep(w) \/ HodStep(w) \/ PublishStep(w)

(* Requests cross in a term when one changes a schedule while another is   *)
(* being served there: nothing stops them, and nobody locks a row.         *)
NoteCrossing(w) ==
  LET term == {t \in Schedules : Term[t] = Term[mem[w].schedule]}
      others == {v \in Workers \ {w} : at[v] # "idle" /\ mem[v].schedule \in term}
  IN  crossed' = IF others = {} \/ (sched' = sched /\ entries' = entries) THEN crossed
                 ELSE crossed \cup term

Next ==
  \/ /\ \E s \in Schedules : Create(s) \/ (\E w \in Workers : Fetch(w, s))
     /\ UNCHANGED crossed
  \/ \E w \in Workers : (WorkerStep(w) \/ Abandon(w)) /\ NoteCrossing(w)

Spec == Init /\ [][Next]_vars

(***************************************************************************)
(* Properties.                                                             *)
(***************************************************************************)
TypeOK ==
  /\ sched \in [Schedules -> Row \cup {NoRow}]
  /\ entries \in [Schedules -> Plan]
  /\ approvals \in [Schedules -> [Departments -> Plan \cup {NoPlan}]]
  /\ versions \in [Schedules -> Seq(Snapshot)]
  /\ mem \in [Workers -> Copy \cup {NoCopy}]
  /\ at \in [Workers -> Stages]
  /\ unkept \in SUBSET Schedules /\ crossed \in SUBSET Schedules
  /\ \A w \in Workers : at[w] = "idle" <=> mem[w] = NoCopy

Published(s) == sched[s].status = "published"

(* timetable_for_user: the schedules that students and lecturers are shown. *)
OnTimetable(s) == sched[s].current = "yes" /\ Published(s)

(* The schedules of terms in which no request was served across another.   *)
Calm == Schedules \ crossed

(* is_current: "At most one current schedule per (semester, type)", and it *)
(* is one that is published: it is the timetable students are shown.       *)
OneCurrent ==
  \A s \in Calm : sched[s].current = "yes" =>
    /\ OnTimetable(s)
    /\ \A t \in Schedules : Term[t] = Term[s] /\ sched[t].current = "yes" => t = s

LastPublished(s) ==
  LET stamped == {v \in DOMAIN versions[s] : versions[s][v].published = "yes"}
  IN  IF stamped = {} THEN NoPlan
      ELSE versions[s][CHOOSE v \in stamped : \A u \in stamped : u <= v].plan

(* What is published passed the gate and stays as it passed it, whatever   *)
(* edits, repairs, restores and regenerations are tried on it: no hard     *)
(* conflict, no session unplaced; and ScheduleVersion's history has it,    *)
(* unless the server died between the two commits of the publication.      *)
PublishedStands ==
  \A s \in Calm : Published(s) =>
    /\ entries[s].verdict = "clean" /\ sched[s].unplaced = 0
    /\ \/ LastPublished(s) = entries[s]
       \/ s \in unkept
       \/ \E w \in Workers : at[w] = "stamped" /\ mem[w].schedule = s

(* A schedule is hod_approved only if the head of every department that    *)
(* has sessions in it approved it, and what stands is what each of them    *)
(* approved: a plan signed in an earlier round does not count, and only a  *)
(* plan that was signed with its conflicts may have been repaired since.   *)
HeadsSigned ==
  \A s \in Calm : sched[s].status = "hod_approved" =>
    \A d \in Involved(s) :
      /\ approvals[s][d].sessions = entries[s].sessions
      /\ approvals[s][d].verdict = "clean" => entries[s].verdict = "clean"
      /\ approvals[s][d] # NoPlan

Replaces(w) == Generate(w) \/ Restore(w)

(* "the services layer creates a new ScheduleVersion": neither generation  *)
(* nor a restore replaces a plan that is not in the history by then, even  *)
(* if it was placed, reviewed or published while the engine was running.   *)
NothingOverwritten ==
  [][\A w \in Workers : at[w] = "fetched" =>
       LET s == mem[w].schedule
       IN  \/ entries[s] = Empty
           \/ \E v \in DOMAIN versions'[s] : versions'[s][v].plan = entries[s]
           \/ ~Replaces(w)]_vars

(***************************************************************************)
(* Inductive strengthening: in a calm term, what a worker holds is the row *)
(* as it stands, and it was judged as it stands.                           *)
(***************************************************************************)
(* What a head signed in the round under way is what is placed, up to a    *)
(* repair.                                                                 *)
StillSigned(s, d) ==
  \/ approvals[s][d] \in {NoPlan, entries[s]}
  \/ approvals[s][d].verdict = "clash" /\ approvals[s][d].sessions = entries[s].sessions

SignedThis(s) ==
  sched[s].status \in {"under_review", "hod_approved"} =>
    \A d \in Departments : StillSigned(s, d)

HoldsTheRow(w) ==
  LET s == mem[w].schedule
  IN  /\ at[w] \in {"fetched", "checked", "optimizing"} => Exists(s) /\ mem[w].row = sched[s]
      /\ at[w] = "checked" => Publishable(s) /\ ~Published(s)
      /\ at[w] = "optimizing" => ~is_locked(mem[w].row)

CalmInv ==
  /\ OneCurrent /\ PublishedStands /\ HeadsSigned
  /\ \A s \in crossed, t \in Schedules : Term[t] = Term[s] => t \in crossed
  /\ \A s \in Calm : SignedThis(s) /\ (entries[s].sessions = {} => entries[s] = Empty)
  /\ \A w \in Workers : mem[w].schedule \in Calm => HoldsTheRow(w)
=============================================================================
