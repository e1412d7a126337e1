-------------------------- MODULE SchedulesProofs ---------------------------
(***************************************************************************)
(* Theorems about Schedules for any schedules, departments, sessions,      *)
(* terms and plans.                                                        *)
(***************************************************************************)
EXTENDS Schedules, TLAPS

(***************************************************************************)
(* Types.                                                                  *)
(***************************************************************************)
LEMMA NoRowType == NoRow \notin Row /\ NoRow.status = None /\ None \notin ScheduleStatus
BY DEF NoRow, Row, None, ScheduleStatus

(* The rows of a term, some without their flag.                            *)
LEMMA ClearedType ==
  ASSUME TypeOK, NEW s \in Schedules, NEW status
  PROVE  /\ Cleared(s, status) \in [Schedules -> Row \cup {NoRow}]
         /\ Cleared(s, status)[s] = sched[s]
         /\ \A t \in Schedules :
              /\ Cleared(s, status)[t].status = sched[t].status
              /\ Cleared(s, status)[t].unplaced = sched[t].unplaced
              /\ Cleared(s, status)[t] = NoRow <=> sched[t] = NoRow
              /\ Cleared(s, status)[t].current = "yes" => sched[t].current = "yes"
              /\ status = "published" /\ t # s /\ Term[t] = Term[s] =>
                   Cleared(s, status)[t].current = "no"
              /\ Term[t] # Term[s] => Cleared(s, status)[t] = sched[t]
<1> DEFINE off(t) == [sched[t] EXCEPT !.current = "no"]
<1>1. ASSUME NEW t \in Schedules
      PROVE  /\ off(t) \in Row \cup {NoRow}
             /\ off(t).status = sched[t].status /\ off(t).unplaced = sched[t].unplaced
             /\ off(t).current = "no" /\ (off(t) = NoRow <=> sched[t] = NoRow)
  <2>1. CASE sched[t] \in Row
    <3>1. off(t) \in Row /\ off(t).status = sched[t].status
      BY <2>1 DEF Row
    <3>2. QED BY <2>1, <3>1, NoRowType DEF Row
  <2>2. CASE sched[t] = NoRow
    BY <2>2 DEF NoRow
  <2>3. QED BY <2>1, <2>2 DEF TypeOK
<1>2. \A t \in Schedules :
        \/ Cleared(s, status)[t] = sched[t] /\ ~(status = "published" /\ t # s /\ Term[t] = Term[s])
        \/ Cleared(s, status)[t] = off(t) /\ t # s /\ Term[t] = Term[s]
  BY DEF Cleared, TypeOK
<1>3. Cleared(s, status) = [t \in Schedules |-> Cleared(s, status)[t]]
  BY DEF Cleared, TypeOK
<1> HIDE DEF off
<1>4. \A t \in Schedules : Cleared(s, status)[t] \in Row \cup {NoRow}
  BY <1>1, <1>2 DEF TypeOK
<1>5. Cleared(s, status) \in [Schedules -> Row \cup {NoRow}]
  BY <1>3, <1>4
<1>6. QED BY <1>1, <1>2, <1>5

(* What the other rows go through while that of s is stored.               *)
Others(s) ==
  \A t \in Schedules \ {s} :
    /\ sched'[t].status = sched[t].status /\ sched'[t].unplaced = sched[t].unplaced
    /\ sched'[t] = NoRow <=> sched[t] = NoRow
    /\ sched'[t].current = "yes" => sched[t].current = "yes"
    /\ Term[t] # Term[s] => sched'[t] = sched[t]

LEMMA SaveEffect ==
  ASSUME TypeOK, NEW s \in Schedules, NEW row \in Row, Save(s, row)
  PROVE  /\ sched' \in [Schedules -> Row \cup {NoRow}]
         /\ sched'[s] \in Row /\ Others(s)
         /\ sched'[s].status = row.status /\ sched'[s].unplaced = row.unplaced
         /\ row.status # "published" => sched'[s] = row
         /\ row.status = "published" =>
              \A t \in Schedules \ {s} : Term[t] = Term[s] => sched'[t].current = "no"
<1> DEFINE kept == IF row.status = "published" THEN [row EXCEPT !.current = "yes"] ELSE row
<1>1. kept \in Row /\ kept.status = row.status /\ kept.unplaced = row.unplaced
  BY DEF Row
<1>2. sched' = [Cleared(s, row.status) EXCEPT ![s] = kept]
  BY DEF Save
<1>3. row.status # "published" => kept = row
  OBVIOUS
<1> HIDE DEF kept
<1>4. QED BY <1>1, <1>2, <1>3, ClearedType DEF Others

LEMMA SaveFieldsEffect ==
  ASSUME TypeOK, NEW s \in Schedules, NEW status, NEW row \in Row, SaveFields(s, status, row)
  PROVE  /\ sched' \in [Schedules -> Row \cup {NoRow}]
         /\ sched'[s] = row /\ Others(s) /\ sched[s] \in Row
         /\ status = "published" =>
              \A t \in Schedules \ {s} : Term[t] = Term[s] => sched'[t].current = "no"
<1>1. sched' = [Cleared(s, status) EXCEPT ![s] = row] /\ sched[s] # NoRow
  BY DEF SaveFields, Exists
<1>2. QED BY <1>1, ClearedType DEF Others, TypeOK

LEMMA StoreEffect ==
  ASSUME TypeOK, NEW s \in Schedules, NEW status, StoreCounters(s, status)
  PROVE  /\ sched' \in [Schedules -> Row \cup {NoRow}]
         /\ sched'[s] = sched[s] /\ Others(s) /\ sched[s] \in Row
         /\ status = "published" =>
              \A t \in Schedules \ {s} : Term[t] = Term[s] => sched'[t].current = "no"
<1>1. sched[s] \in Row /\ SaveFields(s, status, sched[s])
  BY DEF StoreCounters, SaveFields, Exists, TypeOK
<1>2. QED BY <1>1, SaveFieldsEffect

(* A snapshot of what is placed.                                           *)
LEMMA KeepEffect ==
  ASSUME TypeOK, NEW s \in Schedules, NEW published \in {"yes", "no"}, Keep(s, published)
  PROVE  versions' \in [Schedules -> Seq(Snapshot)]
<1>1. [plan |-> entries[s], published |-> published] \in Snapshot
  BY DEF TypeOK, Snapshot
<1>2. QED BY <1>1 DEF Keep, TypeOK

LEMMA KeepBeforeEffect ==
  ASSUME TypeOK, NEW s \in Schedules, KeepBeforeChange(s)
  PROVE  versions' \in [Schedules -> Seq(Snapshot)]
BY KeepEffect DEF KeepBeforeChange, TypeOK

LEMMA PlanType ==
  ASSUME TypeOK, NEW s \in Schedules, NEW p \in PlansOf(s)
  PROVE  [entries EXCEPT ![s] = p] \in [Schedules -> Plan]
BY DEF TypeOK, PlansOf

(* A worker that is not idle holds a copy of some row.                     *)
LEMMA CopyType ==
  ASSUME TypeOK, NEW w \in Workers, at[w] # "idle"
  PROVE  mem[w].schedule \in Schedules /\ mem[w].row \in Row
BY DEF TypeOK, Copy

LEMMA DoneEffect ==
  ASSUME TypeOK, NEW w \in Workers, Done(w)
  PROVE  /\ mem' \in [Workers -> Copy \cup {NoCopy}] /\ at' \in [Workers -> Stages]
         /\ \A v \in Workers : at'[v] = "idle" <=> mem'[v] = NoCopy
         /\ at'[w] = "idle"
         /\ \A v \in Workers \ {w} : at'[v] = at[v] /\ mem'[v] = mem[v]
BY DEF Done, TypeOK, Stages

(* The rows that an action leaves behind.                                  *)
Rows == [Schedules -> Row \cup {NoRow}]
Decisions == [Schedules -> [Departments -> Plan \cup {NoPlan}]]

(* The engine's and the editors' actions.                                  *)
LEMMA EngineTypes ==
  ASSUME TypeOK, NEW w \in Workers, crossed' \in SUBSET Schedules,
         EngineStep(w) \/ EntryStep(w) \/ Restore(w)
  PROVE  TypeOK'
<1> DEFINE s == mem[w].schedule
<1> USE CopyType, DoneEffect
<1>1. CASE Generate(w)
  <2>1. PICK p \in PlansOf(s), u \in 0..MaxUnplaced[s] :
          /\ entries' = [entries EXCEPT ![s] = p]
          /\ Save(s, [mem[w].row EXCEPT !.status = "generated", !.unplaced = u])
    BY <1>1 DEF Generate
  <2>2. s \in Schedules /\ mem[w].row \in Row
    BY <1>1 DEF Generate
  <2>3. [mem[w].row EXCEPT !.status = "generated", !.unplaced = u] \in Row
    <3>1. u \in Nat
      BY <2>2, BoundAssumption
    <3>2. QED BY <2>2, <3>1 DEF Row, ScheduleStatus
  <2>4. sched' \in Rows
    BY <2>1, <2>2, <2>3, SaveEffect DEF Rows
  <2>5. entries' \in [Schedules -> Plan]
    BY <2>1, <2>2, PlanType
  <2>6. versions' \in [Schedules -> Seq(Snapshot)]
    BY <1>1, <2>2, KeepBeforeEffect DEF Generate
  <2>7. QED BY <1>1, <2>4, <2>5, <2>6 DEF Generate, TypeOK, Rows
<1>2. CASE StartOptimize(w)
  <2>1. versions' \in [Schedules -> Seq(Snapshot)]
    BY <1>2, KeepEffect DEF StartOptimize
  <2>2. QED BY <1>2, <2>1 DEF StartOptimize, TypeOK, Stages
<1>3. CASE Optimize(w)
  <2>1. PICK p \in Moved(s) :
          /\ entries' = [entries EXCEPT ![s] = p]
          /\ \/ UNCHANGED versions
             \/ versions' = [versions EXCEPT
                      ![s] = Append(@, [plan |-> p, published |-> "no"])]
    BY <1>3 DEF Optimize
  <2>2. s \in Schedules /\ p \in PlansOf(s)
    BY <1>3, <2>1 DEF Optimize, Moved
  <2>3. entries' \in [Schedules -> Plan]
    BY <2>1, <2>2, PlanType
  <2>4. [plan |-> p, published |-> "no"] \in Snapshot
    BY <2>2 DEF PlansOf, Snapshot
  <2>5. versions' \in [Schedules -> Seq(Snapshot)]
    <3>1. Append(versions[s], [plan |-> p, published |-> "no"]) \in Seq(Snapshot)
      BY <2>2, <2>4 DEF TypeOK
    <3>2. QED BY <2>1, <2>2, <3>1 DEF TypeOK
  <2>6. sched' \in Rows
    BY <1>3, <2>2, StoreEffect DEF Optimize, Rows
  <2>7. QED BY <1>3, <2>3, <2>5, <2>6 DEF Optimize, TypeOK, Rows
<1>4. CASE Repair(w)
  <2>1. PICK p \in Moved(s) : entries' = [entries EXCEPT ![s] = p]
    BY <1>4 DEF Repair
  <2>2. s \in Schedules /\ p \in PlansOf(s)
    BY <1>4, <2>1 DEF Repair, Moved
  <2>3. entries' \in [Schedules -> Plan]
    BY <2>1, <2>2, PlanType
  <2>4. sched' \in Rows
    BY <1>4, <2>2, StoreEffect DEF Repair, Rows
  <2>5. QED BY <1>4, <2>3, <2>4 DEF Repair, TypeOK, Rows
<1>5. CASE EntryStep(w)
  <2>1. /\ at[w] = "fetched"
        /\ \E p \in PlansOf(s) : entries' = [entries EXCEPT ![s] = p]
        /\ StoreCounters(s, mem[w].row.status) /\ Done(w)
        /\ UNCHANGED <<approvals, versions, unkept>>
    BY <1>5 DEF EntryStep, AddEntry, UpdateEntry, DeleteEntry, EditTo, More, Fewer, Moved
  <2>2. s \in Schedules
    BY <2>1
  <2>3. entries' \in [Schedules -> Plan]
    BY <2>1, <2>2, PlanType
  <2>4. sched' \in Rows
    BY <2>1, <2>2, StoreEffect DEF Rows
  <2>5. QED BY <2>1, <2>3, <2>4 DEF TypeOK, Rows
<1>6. CASE Restore(w)
  <2>1. PICK p \in PlansOf(s) : entries' = [entries EXCEPT ![s] = p]
    BY <1>6 DEF Restore, Restored
  <2>2. s \in Schedules
    BY <1>6 DEF Restore
  <2>3. entries' \in [Schedules -> Plan]
    BY <2>1, <2>2, PlanType
  <2>4. sched' \in Rows
    BY <1>6, <2>2, StoreEffect DEF Restore, Rows
  <2>5. versions' \in [Schedules -> Seq(Snapshot)]
    BY <1>6, <2>2, KeepBeforeEffect DEF Restore
  <2>6. QED BY <1>6, <2>3, <2>4, <2>5 DEF Restore, TypeOK, Rows
<1>7. QED BY <1>1, <1>2, <1>3, <1>4, <1>5, <1>6 DEF EngineStep

LEMMA ExistingRow ==
  ASSUME TypeOK, NEW s \in Schedules, sched[s] # NoRow
  PROVE  sched[s] \in Row
BY DEF TypeOK

(* The workflow's actions.                                                 *)
LEMMA WorkflowTypes ==
  ASSUME TypeOK, NEW w \in Workers, crossed' \in SUBSET Schedules,
         ReviewStep(w) \/ HodStep(w) \/ PublishStep(w)
  PROVE  TypeOK'
<1> DEFINE s == mem[w].schedule
<1> USE CopyType, DoneEffect
<1>1. ASSUME NEW from, NEW row \in Row, Move(w, from, row)
      PROVE  TypeOK'
  <2>1. s \in Schedules
    BY <1>1 DEF Move
  <2>2. sched' \in Rows
    BY <1>1, <2>1, SaveEffect DEF Move, Rows
  <2>3. QED BY <1>1, <2>2 DEF Move, TypeOK, Rows
<1>2. CASE Submit(w)
  <2>1. s \in Schedules /\ [mem[w].row EXCEPT !.status = "under_review"] \in Row
    BY <1>2 DEF Submit, Row, ScheduleStatus
  <2>2. sched' \in Rows
    BY <1>2, <2>1, SaveEffect DEF Submit, Rows
  <2>3. approvals' \in Decisions
    BY <1>2, <2>1 DEF Submit, ResetDecisions, NoApprovals, Decisions, TypeOK
  <2>4. QED BY <1>2, <2>2, <2>3 DEF Submit, TypeOK, Rows, Decisions
<1>3. CASE Approve(w) \/ Unpublish(w) \/ Archive(w) \/ Unarchive(w)
  <2>1. at[w] = "fetched"
    BY <1>3 DEF Approve, Unpublish, Archive, Unarchive, Move
  <2>2. \A status \in ScheduleStatus :
          /\ [mem[w].row EXCEPT !.status = status] \in Row
          /\ [mem[w].row EXCEPT !.status = status, !.current = "no"] \in Row
    BY <2>1 DEF Row
  <2>3. QED BY <1>1, <1>3, <2>2 DEF Approve, Unpublish, Archive, Unarchive, ScheduleStatus
<1>4. ASSUME NEW d \in Departments, HodApprove(w, d) \/ HodReject(w, d)
      PROVE  TypeOK'
  <2>1. s \in Schedules
    BY <1>4 DEF HodApprove, HodReject
  <2>2. \A status \in ScheduleStatus :
          sched[s] # NoRow => [sched[s] EXCEPT !.status = status] \in Row
    BY <2>1, ExistingRow DEF Row
  <2>3. sched' \in Rows
    BY <1>4, <2>1, <2>2, SaveFieldsEffect DEF HodApprove, HodReject, SaveFields, Exists, TypeOK, Rows, ScheduleStatus
  <2>4. \A x \in {entries[s], NoPlan} :
          [approvals EXCEPT ![s][d] = x] \in Decisions
    BY <2>1 DEF TypeOK, Decisions
  <2>5. approvals' \in Decisions
    BY <1>4, <2>4 DEF HodApprove, HodReject
  <2>6. QED BY <1>4, <2>3, <2>5 DEF HodApprove, HodReject, TypeOK, Rows, Decisions
<1>5. CASE ClearUnplaced(w)
  <2>1. s \in Schedules
    BY <1>5 DEF ClearUnplaced
  <2>2. sched[s] # NoRow => [sched[s] EXCEPT !.unplaced = 0] \in Row
    BY <2>1, ExistingRow DEF Row
  <2>3. sched' \in Rows
    BY <1>5, <2>1, <2>2, SaveFieldsEffect DEF ClearUnplaced, SaveFields, Exists, Rows
  <2>4. QED BY <1>5, <2>3 DEF ClearUnplaced, TypeOK, Rows
<1>6. CASE Delete(w)
  <2>1. s \in Schedules
    BY <1>6 DEF Delete
  <2>2. Empty \in Plan /\ NoApprovals \in [Departments -> Plan \cup {NoPlan}]
    BY DEF Empty, Plan, NoApprovals
  <2>3. << >> \in Seq(Snapshot)
    OBVIOUS
  <2>4. /\ sched' \in Rows /\ entries' \in [Schedules -> Plan]
        /\ approvals' \in Decisions /\ versions' \in [Schedules -> Seq(Snapshot)]
    BY <1>6, <2>1, <2>2, <2>3 DEF Delete, TypeOK, Rows, Decisions
  <2>5. QED BY <1>6, <2>4 DEF Delete, TypeOK, Rows, Decisions
<1>7. CASE CheckPublish(w)
  <2>1. s \in Schedules
    BY <1>7 DEF CheckPublish
  <2>2. sched' \in Rows /\ sched'[s] \in Row
    BY <1>7, <2>1, StoreEffect DEF CheckPublish, Rows
  <2>3. CASE Done(w)
    BY <1>7, <2>2, <2>3 DEF CheckPublish, TypeOK, Rows
  <2>4. CASE /\ mem' = [mem EXCEPT ![w].row = sched'[s]]
             /\ at' = [at EXCEPT ![w] = "checked"]
    <3>1. mem[w] \in Copy
      BY <1>7 DEF CheckPublish, TypeOK
    <3>2. [mem[w] EXCEPT !.row = sched'[s]] \in Copy
      BY <2>2, <3>1 DEF Copy
    <3>3. NoCopy \notin Copy
      BY NoRowType DEF NoCopy, Copy
    <3>4. QED BY <1>7, <2>2, <2>4, <3>2, <3>3 DEF CheckPublish, TypeOK, Rows, Stages
  <2>5. QED BY <1>7, <2>3, <2>4 DEF CheckPublish
<1>8. CASE Publish(w)
  <2>1. s \in Schedules /\ [mem[w].row EXCEPT !.status = "published"] \in Row
    BY <1>8 DEF Publish, Row, ScheduleStatus
  <2>2. sched' \in Rows
    BY <1>8, <2>1, SaveEffect DEF Publish, Rows
  <2>3. QED BY <1>8, <2>2 DEF Publish, TypeOK, Rows, Stages
<1>9. CASE KeepPublished(w)
  <2>1. s \in Schedules
    BY <1>9 DEF KeepPublished
  <2>2. versions' \in [Schedules -> Seq(Snapshot)]
    BY <1>9, <2>1, KeepEffect DEF KeepPublished
  <2>3. QED BY <1>9, <2>2 DEF KeepPublished, TypeOK
<1>10. QED BY <1>2, <1>3, <1>4, <1>5, <1>6, <1>7, <1>8, <1>9 DEF ReviewStep, HodStep, PublishStep

LEMMA TypeStep == TypeOK /\ [Next]_vars => TypeOK'
<1> SUFFICES ASSUME TypeOK, [Next]_vars PROVE TypeOK' OBVIOUS
<1>1. ASSUME NEW s \in Schedules, Create(s), UNCHANGED crossed PROVE TypeOK'
  <2>1. NewRow \in Row
    BY DEF NewRow, Row, ScheduleStatus
  <2>2. QED BY <1>1, <2>1 DEF Create, TypeOK
<1>2. ASSUME NEW w \in Workers, NEW s \in Schedules, Fetch(w, s), UNCHANGED crossed
      PROVE  TypeOK'
  <2>1. [schedule |-> s, row |-> sched[s]] \in Copy
    BY <1>2 DEF Fetch, Exists, TypeOK, Copy
  <2>2. NoCopy \notin Copy
    BY NoRowType DEF NoCopy, Copy
  <2>3. QED BY <1>2, <2>1, <2>2 DEF Fetch, TypeOK, Stages
<1>3. ASSUME NEW w \in Workers, Abandon(w), NoteCrossing(w) PROVE TypeOK'
  BY <1>3, DoneEffect, CopyType DEF Abandon, NoteCrossing, TypeOK
<1>4. CASE UNCHANGED vars
  BY <1>4 DEF vars, TypeOK
<1>5. ASSUME NEW w \in Workers, WorkerStep(w), NoteCrossing(w) PROVE TypeOK'
  <2>1. crossed' \in SUBSET Schedules
    BY <1>5 DEF NoteCrossing, TypeOK
  <2>2. QED BY <1>5, <2>1, EngineTypes, WorkflowTypes DEF WorkerStep
<1>6. QED BY <1>1, <1>2, <1>3, <1>4, <1>5 DEF Next

(* TypeOK of Schedules, for any number of workers.                         *)
THEOREM TypeCorrect == Spec => []TypeOK
<1>1. Init => TypeOK
  <2>1. Empty \in Plan /\ << >> \in Seq(Snapshot)
    BY DEF Empty, Plan
  <2>2. QED BY <2>1 DEF Init, TypeOK, NoApprovals, Stages
<1>2. QED BY <1>1, TypeStep, PTL DEF Spec

(***************************************************************************)
(* Requests that do not cross.  Whatever the other workers do in other     *)
(* terms, and wherever they only look, a request on a calm schedule acts   *)
(* on the row that it fetched.                                             *)
(***************************************************************************)
(* What CalmInv says of one schedule, and of one that is current.          *)
Stands(s) ==
  Published(s) =>
    /\ entries[s].verdict = "clean" /\ sched[s].unplaced = 0
    /\ \/ LastPublished(s) = entries[s]
       \/ s \in unkept
       \/ \E w \in Workers : at[w] = "stamped" /\ mem[w].schedule = s

Signed(s) ==
  sched[s].status = "hod_approved" =>
    \A d \in Involved(s) :
      /\ approvals[s][d].sessions = entries[s].sessions
      /\ approvals[s][d].verdict = "clean" => entries[s].verdict = "clean"
      /\ approvals[s][d] # NoPlan

Proper(s) == entries[s].sessions = {} => entries[s] = Empty

Sound(s) == Stands(s) /\ Signed(s) /\ SignedThis(s) /\ Proper(s)

Alone(s) ==
  sched[s].current = "yes" =>
    /\ sched[s].status = "published"
    /\ \A t \in Schedules : Term[t] = Term[s] /\ sched[t].current = "yes" => t = s

WholeTerms == \A s \in crossed, t \in Schedules : Term[t] = Term[s] => t \in crossed

LEMMA CalmParts ==
  /\ CalmInv <=> /\ WholeTerms /\ \A s \in Calm : Sound(s) /\ Alone(s)
                 /\ \A w \in Workers : mem[w].schedule \in Calm => HoldsTheRow(w)
  /\ CalmInv' <=> /\ WholeTerms' /\ \A s \in Calm' : Sound(s)' /\ Alone(s)'
                  /\ \A w \in Workers : mem'[w].schedule \in Calm' => HoldsTheRow(w)'
<1>1. OneCurrent <=> \A s \in Calm : Alone(s)
  BY DEF OneCurrent, OnTimetable, Published, Alone
<1>2. OneCurrent' <=> \A s \in Calm' : Alone(s)'
  BY DEF OneCurrent, OnTimetable, Published, Alone
<1>3. QED BY <1>1, <1>2
      DEF CalmInv, WholeTerms, Sound, Stands, Signed, Proper, PublishedStands, HeadsSigned

(* When a row is stored as published, its rivals have lost their flag;     *)
(* when it is not, it carries none.                                        *)
Flagged(s) ==
  \/ sched'[s].status # "published" /\ sched'[s].current = "no"
  \/ /\ sched'[s].status = "published"
     /\ \A t \in Schedules \ {s} : Term[t] = Term[s] => sched'[t].current = "no"

LEMMA FlagsStand ==
  ASSUME NEW s \in Schedules, Others(s), Flagged(s),
         \A t \in Schedules : Term[t] = Term[s] => Alone(t),
         NEW t \in Schedules, Term[t] = Term[s]
  PROVE  Alone(t)'
<1> SUFFICES ASSUME sched'[t].current = "yes"
             PROVE  /\ sched'[t].status = "published"
                    /\ \A u \in Schedules : Term[u] = Term[t] /\ sched'[u].current = "yes" => u = t
  BY DEF Alone
<1>1. CASE t = s
  BY <1>1 DEF Flagged
<1>2. CASE t # s
  <2>1. sched[t].current = "yes" /\ sched'[t].status = sched[t].status
    BY <1>2 DEF Others
  <2>2. sched'[t].status = "published"
    BY <2>1 DEF Alone
  <2>3. ASSUME NEW u \in Schedules, Term[u] = Term[t], sched'[u].current = "yes"
        PROVE  u = t
    <3>1. u # s
      BY <1>2, <2>3 DEF Flagged
    <3>2. sched[u].current = "yes"
      BY <2>3, <3>1 DEF Others
    <3>3. QED BY <2>1, <2>3, <3>2 DEF Alone
  <2>4. QED BY <2>2, <2>3
<1>3. QED BY <1>1, <1>2

(* A worker on s leaves what belongs to the other schedules.               *)
Elsewhere(w, s) ==
  /\ \A t \in Schedules \ {s} :
       /\ entries'[t] = entries[t] /\ versions'[t] = versions[t]
       /\ approvals'[t] = approvals[t] /\ (t \in unkept' <=> t \in unkept)
  /\ \A v \in Workers \ {w} : at'[v] = at[v] /\ mem'[v] = mem[v]
  /\ mem'[w].schedule = mem[w].schedule \/ at'[w] = "idle"

LEMMA OthersSound ==
  ASSUME NEW w \in Workers, NEW s \in Schedules, s = mem[w].schedule,
         Others(s), Elsewhere(w, s), NEW t \in Schedules \ {s}, Sound(t)
  PROVE  Sound(t)'
<1>1. /\ sched'[t].status = sched[t].status /\ sched'[t].unplaced = sched[t].unplaced
      /\ entries'[t] = entries[t] /\ versions'[t] = versions[t] /\ approvals'[t] = approvals[t]
      /\ t \in unkept' <=> t \in unkept
  BY DEF Others, Elsewhere
<1>2. LastPublished(t)' = LastPublished(t) /\ Involved(t)' = Involved(t)
  BY <1>1 DEF LastPublished, Involved, NoPlan, Empty
<1>3. (\E v \in Workers : at[v] = "stamped" /\ mem[v].schedule = t)
        => (\E v \in Workers : at'[v] = "stamped" /\ mem'[v].schedule = t)
  BY DEF Elsewhere
<1>4. Stands(t)'
  BY <1>1, <1>2, <1>3 DEF Sound, Stands, Published
<1>5. QED BY <1>1, <1>2, <1>4 DEF Sound, Signed, SignedThis, StillSigned, Proper, Empty, NoPlan

(* What is to be shown of a step on a calm schedule.                       *)
Kept(w, s) == Sound(s)' /\ (Flagged(s) \/ UNCHANGED sched) /\ HoldsTheRow(w)'

(* The rest follows: other schedules keep their rows, save for flags, and  *)
(* a worker whose row has changed under it has been crossed.               *)
LEMMA Concluded ==
  ASSUME TypeOK, CalmInv, NEW w \in Workers, at[w] # "idle", NEW s \in Schedules,
         s = mem[w].schedule, Others(s), Elsewhere(w, s), NoteCrossing(w),
         s \in Calm => Kept(w, s)
  PROVE  CalmInv'
<1> DEFINE term == {t \in Schedules : Term[t] = Term[s]}
           others == {v \in Workers \ {w} : at[v] # "idle" /\ mem[v].schedule \in term}
<1>1. /\ crossed' \in {crossed, crossed \cup term}
      /\ others = {} \/ (sched' = sched /\ entries' = entries) \/ crossed' = crossed \cup term
  BY DEF NoteCrossing
<1>2. WholeTerms' /\ Calm' \subseteq Calm
  BY <1>1, CalmParts DEF WholeTerms, Calm
<1>3. ASSUME NEW t \in Calm' PROVE Sound(t)' /\ Alone(t)'
  <2>1. t \in Schedules /\ Sound(t) /\ Alone(t)
    BY <1>2, <1>3, CalmParts DEF Calm
  <2>2. CASE Term[t] = Term[s]
    <3>1. \A u \in Schedules : Term[u] = Term[s] => u \in Calm
      BY <1>2, <1>3, <2>1, <2>2, CalmParts DEF WholeTerms, Calm
    <3>2. Kept(w, s) /\ \A u \in Schedules : Term[u] = Term[s] => Alone(u)
      BY <3>1, CalmParts
    <3>3. CASE Flagged(s)
      BY <2>1, <2>2, <3>2, <3>3, FlagsStand, OthersSound DEF Kept
    <3>4. CASE UNCHANGED sched
      BY <2>1, <3>2, <3>4, OthersSound DEF Alone, Kept
    <3>5. QED BY <3>2, <3>3, <3>4 DEF Kept
  <2>3. CASE Term[t] # Term[s]
    <3>1. \A u \in Schedules : Term[u] = Term[t] => sched'[u] = sched[u]
      BY <2>3 DEF Others
    <3>2. QED BY <2>1, <2>3, <3>1, OthersSound DEF Alone
  <2>4. QED BY <2>2, <2>3
<1>4. ASSUME NEW v \in Workers, mem'[v].schedule \in Calm' PROVE HoldsTheRow(v)'
  <2>1. CASE v = w
    <3>1. CASE at'[w] = "idle"
      BY <2>1, <3>1 DEF HoldsTheRow
    <3>2. CASE mem'[w].schedule = s
      BY <1>2, <1>4, <2>1, <3>2 DEF Kept
    <3>3. QED BY <3>1, <3>2 DEF Elsewhere
  <2>2. CASE v # w
    <3> DEFINE u == mem[v].schedule
    <3>1. at'[v] = at[v] /\ mem'[v] = mem[v]
      BY <2>2 DEF Elsewhere
    <3>2. u \in Calm /\ u \in Schedules /\ HoldsTheRow(v) /\ u \notin crossed'
      BY <1>2, <1>4, <3>1, CalmParts DEF Calm
    <3>3. CASE at[v] = "idle"
      BY <3>1, <3>3 DEF HoldsTheRow
    <3>4. CASE at[v] # "idle" /\ u \in term
      <4>1. sched' = sched /\ entries' = entries
        BY <1>1, <2>2, <3>2, <3>4
      <4>2. QED BY <3>1, <3>2, <4>1
            DEF HoldsTheRow, Exists, Publishable, Published, is_locked, NoRow
    <3>5. CASE u \notin term
      <4>1. sched'[u] = sched[u] /\ entries'[u] = entries[u]
        BY <3>2, <3>5 DEF Others, Elsewhere
      <4>2. QED BY <3>1, <3>2, <4>1
            DEF HoldsTheRow, Exists, Publishable, Published, is_locked, NoRow
    <3>6. QED BY <3>3, <3>4, <3>5
  <2>3. QED BY <2>1, <2>2
<1>5. QED BY <1>2, <1>3, <1>4, CalmParts

(***************************************************************************)
(* The frame of every action.                                              *)
(***************************************************************************)
LEMMA Copies ==
  ASSUME NEW row \in Row, NEW status \in ScheduleStatus
  PROVE  /\ [row EXCEPT !.status = status] \in Row
         /\ [row EXCEPT !.status = status, !.current = "no"] \in Row
         /\ \A u \in Nat : [row EXCEPT !.status = status, !.unplaced = u] \in Row
BY DEF Row

LEMMA EngineFrame ==
  ASSUME TypeOK, NEW w \in Workers, EngineStep(w) \/ EntryStep(w) \/ Restore(w),
         NEW s, s = mem[w].schedule
  PROVE  s \in Schedules /\ at[w] # "idle" /\ Others(s) /\ Elsewhere(w, s)
<1>1. at[w] # "idle" /\ s \in Schedules /\ mem[w].row \in Row
  BY CopyType DEF EngineStep, EntryStep, AddEntry, UpdateEntry, DeleteEntry, EditTo, Restore,
                  Generate, StartOptimize, Optimize, Repair
<1> SUFFICES Others(s) /\ Elsewhere(w, s) BY <1>1
<1>2. ASSUME NEW p, entries' = [entries EXCEPT ![s] = p], StoreCounters(s, mem[w].row.status),
             Done(w), \A t \in Schedules \ {s} : versions'[t] = versions[t],
             UNCHANGED <<approvals, unkept>>
      PROVE  Others(s) /\ Elsewhere(w, s)
  BY <1>1, <1>2, StoreEffect, DoneEffect DEF Elsewhere, TypeOK
<1>3. CASE Generate(w)
  <2>1. PICK p \in PlansOf(s), u \in 0..MaxUnplaced[s] :
          /\ entries' = [entries EXCEPT ![s] = p]
          /\ Save(s, [mem[w].row EXCEPT !.status = "generated", !.unplaced = u])
    BY <1>3 DEF Generate
  <2>2. [mem[w].row EXCEPT !.status = "generated", !.unplaced = u] \in Row
    <3>1. u \in Nat
      BY <1>1, BoundAssumption
    <3>2. QED BY <1>1, <3>1, Copies DEF ScheduleStatus
  <2>3. Others(s)
    BY <1>1, <2>1, <2>2, SaveEffect
  <2>4. \A t \in Schedules \ {s} : versions'[t] = versions[t]
    BY <1>1, <1>3 DEF Generate, KeepBeforeChange, Keep, TypeOK
  <2>5. QED BY <1>1, <1>3, <2>1, <2>3, <2>4, DoneEffect DEF Generate, Elsewhere, TypeOK
<1>4. CASE StartOptimize(w)
  BY <1>1, <1>4 DEF StartOptimize, Keep, Others, Elsewhere, TypeOK
<1>5. CASE Optimize(w)
  <2>1. \A t \in Schedules \ {s} : versions'[t] = versions[t]
    BY <1>1, <1>5 DEF Optimize, TypeOK
  <2>2. QED BY <1>2, <1>5, <2>1 DEF Optimize
<1>6. CASE Repair(w)
  BY <1>2, <1>6 DEF Repair
<1>7. CASE EntryStep(w)
  BY <1>2, <1>7 DEF EntryStep, AddEntry, UpdateEntry, DeleteEntry, EditTo
<1>8. CASE Restore(w)
  <2>1. \A t \in Schedules \ {s} : versions'[t] = versions[t]
    BY <1>1, <1>8 DEF Restore, KeepBeforeChange, Keep, TypeOK
  <2>2. QED BY <1>2, <1>8, <2>1 DEF Restore
<1>9. QED BY <1>1, <1>3, <1>4, <1>5, <1>6, <1>7, <1>8 DEF EngineStep

LEMMA WorkflowFrame ==
  ASSUME TypeOK, NEW w \in Workers, ReviewStep(w) \/ HodStep(w) \/ PublishStep(w),
         NEW s, s = mem[w].schedule
  PROVE  s \in Schedules /\ at[w] # "idle" /\ Others(s) /\ Elsewhere(w, s)
<1>1. at[w] # "idle" /\ s \in Schedules /\ mem[w] \in Copy /\ mem[w].row \in Row
  BY CopyType DEF ReviewStep, HodStep, PublishStep, Submit, Approve, Unpublish, Archive, Unarchive,
                  Move, HodApprove, HodReject, CheckPublish, Publish, KeepPublished, ClearUnplaced,
                  Delete, TypeOK
<1> SUFFICES Others(s) /\ Elsewhere(w, s) BY <1>1
<1>2. CASE Submit(w)
  <2>1. [mem[w].row EXCEPT !.status = "under_review"] \in Row
    BY <1>1, Copies DEF ScheduleStatus
  <2>2. Others(s)
    BY <1>1, <1>2, <2>1, SaveEffect DEF Submit
  <2>3. QED BY <1>1, <1>2, <2>2, DoneEffect DEF Submit, ResetDecisions, Elsewhere, TypeOK
<1>3. ASSUME NEW from, NEW row \in Row, Move(w, from, row) PROVE Others(s) /\ Elsewhere(w, s)
  <2>1. Others(s)
    BY <1>1, <1>3, SaveEffect DEF Move
  <2>2. QED BY <1>3, <2>1, DoneEffect DEF Move, Elsewhere
<1>4. CASE Approve(w) \/ Unpublish(w) \/ Archive(w) \/ Unarchive(w)
  BY <1>1, <1>3, <1>4, Copies DEF Approve, Unpublish, Archive, Unarchive, ScheduleStatus
<1>5. ASSUME NEW d \in Departments, HodApprove(w, d) PROVE Others(s) /\ Elsewhere(w, s)
  <2>1. sched[s] \in Row
    BY <1>1, <1>5, ExistingRow DEF HodApprove, Exists
  <2>2. [sched[s] EXCEPT !.status = "hod_approved"] \in Row
    BY <2>1, Copies DEF ScheduleStatus
  <2>3. Others(s)
    BY <1>1, <1>5, <2>2, SaveFieldsEffect DEF HodApprove, Others
  <2>4. \A t \in Schedules \ {s} : approvals'[t] = approvals[t]
    BY <1>1, <1>5 DEF HodApprove, TypeOK
  <2>5. QED BY <1>5, <2>3, <2>4, DoneEffect DEF HodApprove, Elsewhere
<1>6. ASSUME NEW d \in Departments, HodReject(w, d) PROVE Others(s) /\ Elsewhere(w, s)
  <2>1. sched[s] \in Row
    BY <1>1, <1>6, ExistingRow DEF HodReject, SaveFields, Exists
  <2>2. [sched[s] EXCEPT !.status = "revision"] \in Row
    BY <2>1, Copies DEF ScheduleStatus
  <2>3. Others(s)
    BY <1>1, <1>6, <2>2, SaveFieldsEffect DEF HodReject
  <2>4. \A t \in Schedules \ {s} : approvals'[t] = approvals[t]
    BY <1>1, <1>6 DEF HodReject, TypeOK
  <2>5. QED BY <1>6, <2>3, <2>4, DoneEffect DEF HodReject, Elsewhere
<1>7. CASE ClearUnplaced(w)
  <2>1. sched[s] \in Row
    BY <1>1, <1>7, ExistingRow DEF ClearUnplaced, SaveFields, Exists
  <2>2. [sched[s] EXCEPT !.unplaced = 0] \in Row
    BY <2>1 DEF Row
  <2>3. Others(s)
    BY <1>1, <1>7, <2>2, SaveFieldsEffect DEF ClearUnplaced
  <2>4. QED BY <1>7, <2>3, DoneEffect DEF ClearUnplaced, Elsewhere
<1>8. CASE Delete(w)
  BY <1>1, <1>8, DoneEffect DEF Delete, Others, Elsewhere, TypeOK
<1>9. CASE CheckPublish(w)
  <2>1. Others(s)
    BY <1>1, <1>9, StoreEffect DEF CheckPublish
  <2>2. CASE Done(w)
    BY <1>9, <2>1, <2>2, DoneEffect DEF CheckPublish, Elsewhere
  <2>3. CASE /\ mem' = [mem EXCEPT ![w].row = sched'[s]] /\ at' = [at EXCEPT ![w] = "checked"]
    <3>1. mem'[w].schedule = mem[w].schedule
      BY <1>1, <2>3 DEF TypeOK, Copy
    <3>2. \A v \in Workers \ {w} : at'[v] = at[v] /\ mem'[v] = mem[v]
      BY <2>3 DEF TypeOK
    <3>3. QED BY <1>9, <2>1, <3>1, <3>2 DEF CheckPublish, Elsewhere
  <2>4. QED BY <1>9, <2>2, <2>3 DEF CheckPublish
<1>10. CASE Publish(w)
  <2>1. [mem[w].row EXCEPT !.status = "published"] \in Row
    BY <1>1, Copies DEF ScheduleStatus
  <2>2. Others(s)
    BY <1>1, <1>10, <2>1, SaveEffect DEF Publish
  <2>3. QED BY <1>10, <2>2 DEF Publish, Elsewhere, TypeOK
<1>11. CASE KeepPublished(w)
  <2>1. \A t \in Schedules \ {s} : versions'[t] = versions[t] /\ (t \in unkept' <=> t \in unkept)
    BY <1>1, <1>11 DEF KeepPublished, Keep, TypeOK
  <2>2. QED BY <1>11, <2>1, DoneEffect DEF KeepPublished, Others, Elsewhere
<1>12. QED BY <1>1, <1>2, <1>4, <1>5, <1>6, <1>7, <1>8, <1>9, <1>10, <1>11
       DEF ReviewStep, HodStep, PublishStep

(***************************************************************************)
(* The steps on a calm schedule.                                           *)
(***************************************************************************)
(* What a worker that holds a copy of a calm schedule knows.               *)
LEMMA Held ==
  ASSUME TypeOK, CalmInv, NEW w \in Workers, at[w] \in {"fetched", "checked", "optimizing"},
         NEW s \in Calm, s = mem[w].schedule
  PROVE  /\ s \in Schedules /\ sched[s] \in Row /\ mem[w].row = sched[s] /\ Sound(s)
         /\ sched[s].status # "published" => sched[s].current = "no"
         /\ at[w] = "optimizing" => ~is_locked(sched[s])
         /\ at[w] = "checked" => Publishable(s) /\ ~Published(s)
<1>1. s \in Schedules /\ HoldsTheRow(w) /\ Sound(s) /\ Alone(s)
  BY CopyType, CalmParts
<1>2. sched[s] \in Row /\ mem[w].row = sched[s]
  BY <1>1, ExistingRow DEF HoldsTheRow, Exists
<1>3. sched[s].status # "published" => sched[s].current = "no"
  BY <1>1, <1>2 DEF Alone, Row
<1>4. QED BY <1>1, <1>2, <1>3 DEF HoldsTheRow

(* A schedule that is neither under review nor published owes nothing.     *)
LEMMA OutOfReview ==
  ASSUME NEW s \in Schedules, Proper(s)',
         sched'[s].status \notin {"under_review", "hod_approved", "published"}
  PROVE  Sound(s)'
BY DEF Sound, Stands, Signed, SignedThis, Published

LEMMA ProperPlan ==
  ASSUME NEW s \in Schedules, NEW p \in PlansOf(s), entries'[s] = p
  PROVE  Proper(s)'
BY DEF Proper, PlansOf, Empty

LEMMA AtRest == ASSUME NEW w \in Workers, at'[w] = "idle" PROVE HoldsTheRow(w)'
BY DEF HoldsTheRow

(* A new plan for a schedule that is not locked, stored without a review.  *)
LEMMA Replanned ==
  ASSUME TypeOK, NEW w \in Workers, NEW s \in Schedules, Done(w),
         NEW p \in PlansOf(s), entries'[s] = p,
         sched'[s].status \notin {"under_review", "hod_approved", "published"},
         sched'[s].current = "no"
  PROVE  Kept(w, s)
BY OutOfReview, ProperPlan, AtRest, DoneEffect DEF Kept, Flagged

(* Signed, of a round in which every head concerned has signed.            *)
LEMMA RoundSigned ==
  ASSUME NEW s \in Schedules, SignedThis(s)', sched'[s].status = "hod_approved",
         Involved(s)' \subseteq Departments,
         \A d \in Involved(s)' : approvals'[s][d] # NoPlan
  PROVE  Signed(s)'
BY DEF Signed, SignedThis, StillSigned, NoPlan

LEMMA EngineCalm ==
  ASSUME TypeOK, CalmInv, NEW w \in Workers, EngineStep(w) \/ EntryStep(w) \/ Restore(w),
         NEW s \in Calm, s = mem[w].schedule
  PROVE  Kept(w, s)
<1>0. s \in Schedules
  BY DEF Calm
<1>1. CASE Generate(w)
  <2>1. at[w] = "fetched" /\ sched[s] \in Row /\ mem[w].row = sched[s]
        /\ sched[s].status # "published" /\ sched[s].current = "no"
    BY <1>1, Held DEF Generate, is_locked
  <2>2. PICK p \in PlansOf(s), u \in 0..MaxUnplaced[s] :
          /\ entries' = [entries EXCEPT ![s] = p]
          /\ Save(s, [sched[s] EXCEPT !.status = "generated", !.unplaced = u])
    BY <1>1, <2>1 DEF Generate
  <2>3. [sched[s] EXCEPT !.status = "generated", !.unplaced = u] \in Row
    <3>1. u \in Nat
      BY <1>0, BoundAssumption
    <3>2. QED BY <2>1, <3>1, Copies DEF ScheduleStatus
  <2>4. PICK row \in Row : row.status = "generated" /\ row.current = "no" /\ Save(s, row)
    BY <2>1, <2>2, <2>3 DEF Row
  <2>5. sched'[s].status = "generated" /\ sched'[s].current = "no"
    BY <1>0, <2>4, SaveEffect
  <2>6. QED BY <1>0, <1>1, <2>2, <2>5, Replanned DEF Generate, TypeOK
<1>2. CASE StartOptimize(w)
  <2>1. sched[s] \in Row /\ mem[w].row = sched[s] /\ ~is_locked(sched[s]) /\ Sound(s)
    BY <1>2, Held DEF StartOptimize
  <2>2. /\ at'[w] = "optimizing" /\ mem' = mem /\ sched' = sched /\ entries' = entries
    BY <1>2 DEF StartOptimize, TypeOK
  <2>3. Proper(s)'
    BY <2>1, <2>2 DEF Sound, Proper, Empty
  <2>4. Sound(s)'
    BY <1>0, <2>1, <2>2, <2>3, OutOfReview DEF is_locked
  <2>5. HoldsTheRow(w)'
    BY <2>1, <2>2, NoRowType DEF HoldsTheRow, Exists, NoRow, is_locked
  <2>6. QED BY <2>2, <2>4, <2>5 DEF Kept
<1>3. ASSUME at[w] \in {"fetched", "optimizing"}, ~is_locked(mem[w].row),
             NEW p \in PlansOf(s), entries' = [entries EXCEPT ![s] = p],
             StoreCounters(s, mem[w].row.status), Done(w)
      PROVE  Kept(w, s)
  <2>1. mem[w].row = sched[s] /\ ~is_locked(sched[s]) /\ sched[s].current = "no"
    BY <1>3, Held DEF is_locked
  <2>2. sched'[s] = sched[s]
    BY <1>0, <1>3, <2>1, StoreEffect
  <2>3. entries'[s] = p
    BY <1>0, <1>3 DEF TypeOK
  <2>4. QED BY <1>0, <1>3, <2>1, <2>2, <2>3, Replanned DEF is_locked
<1>4. CASE Optimize(w)
  <2>1. ~is_locked(mem[w].row)
    BY <1>4, Held DEF Optimize
  <2>2. QED BY <1>3, <1>4, <2>1 DEF Optimize, Moved
<1>5. CASE Repair(w)
  <2>1. /\ at[w] = "fetched" /\ sched[s] \in Row /\ mem[w].row = sched[s]
        /\ sched[s].status # "published" /\ sched[s].current = "no" /\ Sound(s)
    BY <1>5, Held DEF Repair
  <2>2. PICK p \in PlansOf(s) :
          /\ p.sessions = entries[s].sessions /\ entries' = [entries EXCEPT ![s] = p]
          /\ entries[s].verdict = "clean" => p = entries[s]
    BY <1>5 DEF Repair, Moved
  <2>3. sched'[s] = sched[s]
    BY <1>0, <1>5, <2>1, StoreEffect DEF Repair
  <2>4. entries'[s] = p /\ approvals' = approvals
    BY <1>0, <1>5, <2>2 DEF TypeOK, Repair
  <2>5. Proper(s) /\ Proper(s)'
    BY <1>0, <2>1, <2>4, ProperPlan DEF Sound
  <2>6. Involved(s)' = Involved(s)
    BY <2>2, <2>4, <2>5 DEF Involved, Proper, Empty
  <2>7. SignedThis(s)'
    <3>1. entries[s].verdict \in {"clean", "clash"}
      BY <1>0 DEF TypeOK, Plan
    <3>2. \A d \in Departments : StillSigned(s, d) => StillSigned(s, d)'
      BY <2>2, <2>4, <3>1 DEF StillSigned, NoPlan
    <3>3. QED BY <2>1, <2>3, <3>2 DEF Sound, SignedThis
  <2>8. Signed(s)'
    <3>1. Involved(s) \subseteq Departments
      BY OwnerAssumption, <1>0 DEF Involved, TypeOK, Plan
    <3>2. CASE sched'[s].status = "hod_approved"
      <4>1. \A d \in Involved(s) : approvals[s][d] # NoPlan
        BY <2>1, <2>3, <3>2 DEF Sound, Signed
      <4>2. QED BY <1>0, <2>4, <2>6, <2>7, <3>1, <3>2, <4>1, RoundSigned
    <3>3. CASE sched'[s].status # "hod_approved"
      BY <3>3 DEF Signed
    <3>4. QED BY <3>2, <3>3
  <2>9. Sound(s)'
    BY <2>1, <2>3, <2>5, <2>7, <2>8 DEF Sound, Stands, Published
  <2>10. QED BY <1>5, <2>1, <2>3, <2>9, AtRest, DoneEffect DEF Repair, Kept, Flagged
<1>6. CASE EntryStep(w)
  BY <1>3, <1>6 DEF EntryStep, AddEntry, UpdateEntry, DeleteEntry, EditTo, More, Fewer, Moved
<1>7. CASE Restore(w)
  BY <1>3, <1>7 DEF Restore, Restored
<1>8. QED BY <1>1, <1>2, <1>4, <1>5, <1>6, <1>7 DEF EngineStep

(* A service that stores the copy it judged under another status.          *)
LEMMA MoveCalm ==
  ASSUME TypeOK, CalmInv, NEW w \in Workers, NEW from,
         NEW row \in Row, row.status \notin {"under_review", "hod_approved", "published"},
         row.current = "no", Move(w, from, row), NEW s \in Calm, s = mem[w].schedule
  PROVE  Kept(w, s)
<1>1. s \in Schedules /\ Proper(s)
  BY Held DEF Move, Sound
<1>2. sched'[s] = row
  BY <1>1, SaveEffect DEF Move
<1>3. Proper(s)'
  BY <1>1 DEF Move, Proper, Empty
<1>4. QED BY <1>1, <1>2, <1>3, OutOfReview, AtRest, DoneEffect DEF Move, Kept, Flagged

LEMMA ReviewCalm ==
  ASSUME TypeOK, CalmInv, NEW w \in Workers, ReviewStep(w) \/ HodStep(w),
         NEW s \in Calm, s = mem[w].schedule
  PROVE  Kept(w, s)
<1>0. s \in Schedules
  BY DEF Calm
<1>1. CASE Submit(w)
  <2>1. /\ at[w] = "fetched" /\ sched[s] \in Row /\ mem[w].row = sched[s]
        /\ sched[s].status # "published" /\ sched[s].current = "no" /\ Proper(s)
    BY <1>1, Held DEF Submit, Sound
  <2>2. PICK row \in Row : row.status = "under_review" /\ row.current = "no" /\ Save(s, row)
    BY <1>1, <2>1 DEF Submit, Row, ScheduleStatus
  <2>3. sched'[s] = row
    BY <1>0, <2>2, SaveEffect
  <2>4. approvals' = [approvals EXCEPT ![s] = NoApprovals] /\ entries' = entries
    BY <1>1 DEF Submit, ResetDecisions
  <2>5. approvals'[s] = NoApprovals
    BY <1>0, <2>4 DEF TypeOK
  <2>6. SignedThis(s)'
    BY <2>4, <2>5 DEF SignedThis, StillSigned, NoApprovals, NoPlan
  <2>7. Sound(s)'
    BY <2>1, <2>2, <2>3, <2>4, <2>6 DEF Sound, Stands, Published, Signed, Proper, Empty
  <2>8. QED BY <1>1, <2>2, <2>3, <2>7, AtRest, DoneEffect DEF Submit, Kept, Flagged
<1>2. CASE Approve(w)
  <2>1. /\ at[w] = "fetched" /\ sched[s] \in Row /\ mem[w].row = sched[s]
        /\ sched[s].status = "hod_approved" /\ sched[s].current = "no"
    BY <1>2, Held DEF Approve, Move
  <2>2. PICK row \in Row : /\ row.status = "approved" /\ row.current = "no"
                           /\ row = [mem[w].row EXCEPT !.status = "approved"]
    BY <2>1 DEF Row, ScheduleStatus
  <2>3. Move(w, {"hod_approved"}, row)
    BY <1>2, <2>2 DEF Approve
  <2>4. QED BY <2>2, <2>3, MoveCalm
<1>3. ASSUME NEW d \in Departments, HodApprove(w, d)
      PROVE  Kept(w, s)
  <2>1. /\ at[w] = "fetched" /\ sched[s] \in Row /\ mem[w].row = sched[s]
        /\ sched[s].status = "under_review" /\ sched[s].current = "no" /\ Sound(s)
    BY <1>3, Held DEF HodApprove
  <2>2. /\ approvals' = [approvals EXCEPT ![s][d] = entries[s]] /\ entries' = entries
        /\ versions' = versions /\ unkept' = unkept /\ Done(w)
    BY <1>3 DEF HodApprove
  <2>3. approvals'[s] = [approvals[s] EXCEPT ![d] = entries[s]]
    BY <1>0, <2>2 DEF TypeOK
  <2>4. approvals[s] \in [Departments -> Plan \cup {NoPlan}] /\ entries[s] \in Plan
    BY <1>0 DEF TypeOK
  <2>5. SignedThis(s)' /\ Proper(s)'
    <3>1. \A e \in Departments : StillSigned(s, e)
      BY <2>1 DEF Sound, SignedThis
    <3>2. ASSUME NEW e \in Departments PROVE StillSigned(s, e)'
      <4>1. CASE e = d
        BY <2>2, <2>3, <2>4, <4>1 DEF StillSigned
      <4>2. CASE e # d
        <5>1. approvals'[s][e] = approvals[s][e] /\ entries'[s] = entries[s]
          BY <2>2, <2>3, <4>2
        <5>2. QED BY <3>1, <5>1 DEF StillSigned, NoPlan
      <4>3. QED BY <4>1, <4>2
    <3>3. QED BY <2>1, <2>2, <3>2 DEF SignedThis, Sound, Proper, Empty
  <2>6. CASE UNCHANGED sched
    BY <2>1, <2>2, <2>5, <2>6, AtRest, DoneEffect DEF Kept, Sound, Stands, Signed, Published
  <2>7. CASE /\ Involved(s) \subseteq Approved(s) \cup {d}
             /\ SaveFields(s, "hod_approved", [sched[s] EXCEPT !.status = "hod_approved"])
    <3>1. PICK row \in Row : /\ row.status = "hod_approved" /\ row.current = "no"
                             /\ SaveFields(s, "hod_approved", row)
      BY <2>1, <2>7 DEF Row, ScheduleStatus
    <3>2. sched'[s] = row
      BY <1>0, <3>1, SaveFieldsEffect
    <3>3. Involved(s)' = Involved(s) /\ Involved(s) \subseteq Departments
      BY <2>2, <2>4, OwnerAssumption DEF Involved, Empty, Plan
    <3>4. \A e \in Involved(s) : approvals'[s][e] # NoPlan
      <4>1. entries[s] # NoPlan
        BY <2>4 DEF Plan, NoPlan, None
      <4>2. QED BY <2>3, <2>4, <2>7, <3>3, <4>1 DEF Approved
    <3>5. Signed(s)'
      BY <1>0, <2>5, <3>1, <3>2, <3>3, <3>4, RoundSigned
    <3>6. Sound(s)'
      BY <2>5, <3>1, <3>2, <3>5 DEF Sound, Stands, Published
    <3>7. QED BY <2>2, <3>1, <3>2, <3>6, AtRest, DoneEffect DEF Kept, Flagged
  <2>8. QED BY <1>3, <2>6, <2>7 DEF HodApprove
<1>4. ASSUME NEW d \in Departments, HodReject(w, d)
      PROVE  Kept(w, s)
  <2>1. /\ at[w] = "fetched" /\ sched[s] \in Row
        /\ sched[s].status = "under_review" /\ sched[s].current = "no" /\ Proper(s)
    BY <1>4, Held DEF HodReject, Sound
  <2>2. PICK row \in Row : /\ row.status = "revision" /\ row.current = "no"
                           /\ SaveFields(s, "revision", row)
    BY <1>4, <2>1 DEF HodReject, Row, ScheduleStatus
  <2>3. sched'[s] = row
    BY <1>0, <2>2, SaveFieldsEffect
  <2>4. Proper(s)'
    BY <1>4, <2>1 DEF HodReject, Proper, Empty
  <2>5. QED BY <1>0, <1>4, <2>2, <2>3, <2>4, OutOfReview, AtRest, DoneEffect
        DEF HodReject, Kept, Flagged
<1>5. QED BY <1>1, <1>2, <1>3, <1>4 DEF ReviewStep, HodStep

(* The last published snapshot, when one has just been appended.           *)
LEMMA KeptLast ==
  ASSUME TypeOK, NEW s \in Schedules, Keep(s, "yes")
  PROVE  LastPublished(s)' = entries[s]
<1> DEFINE n == Len(versions[s]) + 1
           stamped == {v \in DOMAIN versions'[s] : versions'[s][v].published = "yes"}
<1>1. versions[s] \in Seq(Snapshot)
  BY DEF TypeOK
<1>2. versions'[s] = Append(versions[s], [plan |-> entries[s], published |-> "yes"])
  BY DEF Keep, TypeOK
<1>3. /\ n \in DOMAIN versions'[s]
      /\ versions'[s][n] = [plan |-> entries[s], published |-> "yes"]
      /\ \A u \in DOMAIN versions'[s] : u \in Int /\ u <= n
  BY <1>1, <1>2
<1>4. n \in stamped /\ \A u \in stamped : u \in Int /\ u <= n
  BY <1>3
<1>5. (CHOOSE v \in stamped : \A u \in stamped : u <= v) = n
  <2>1. n \in Int
    BY <1>4
  <2> HIDE DEF stamped, n
  <2>2. \A v \in stamped : (\A u \in stamped : u <= v) => v = n
    BY <1>4, <2>1
  <2>3. QED BY <1>4, <2>2
<1>6. LastPublished(s)' = IF stamped = {} THEN NoPlan
                          ELSE versions'[s][CHOOSE v \in stamped : \A u \in stamped : u <= v].plan
  BY DEF LastPublished, NoPlan
<1>7. stamped # {}
  BY <1>4
<1>8. versions'[s][n].plan = entries[s]
  BY <1>3
<1> HIDE DEF stamped, n
<1>9. QED BY <1>5, <1>6, <1>7, <1>8

(* What a step that touches neither the plan nor the decisions leaves.     *)
LEMMA SameSound ==
  ASSUME NEW s, Sound(s), sched'[s].status = sched[s].status,
         sched'[s].unplaced \in {sched[s].unplaced, 0},
         entries' = entries, approvals' = approvals, Stands(s)'
  PROVE  Sound(s)'
<1>1. Involved(s)' = Involved(s)
  BY DEF Involved, Empty
<1>2. QED BY <1>1 DEF Sound, Signed, SignedThis, StillSigned, Proper, Empty, NoPlan

(* A worker that has not just published leaves those who have where they   *)
(* were.                                                                   *)
LEMMA SameStands ==
  ASSUME NEW w \in Workers, NEW s \in Schedules, Elsewhere(w, s), at[w] # "stamped",
         Stands(s), sched'[s].status = sched[s].status,
         sched'[s].unplaced \in {sched[s].unplaced, 0},
         UNCHANGED <<entries, versions, unkept>>
  PROVE  Stands(s)'
<1>1. LastPublished(s)' = LastPublished(s)
  BY DEF LastPublished, NoPlan
<1>2. (\E v \in Workers : at[v] = "stamped" /\ mem[v].schedule = s)
        => (\E v \in Workers : at'[v] = "stamped" /\ mem'[v].schedule = s)
  BY DEF Elsewhere
<1>3. QED BY <1>1, <1>2 DEF Stands, Published

LEMMA PublishCalm ==
  ASSUME TypeOK, CalmInv, NEW w \in Workers, PublishStep(w),
         NEW s \in Calm, s = mem[w].schedule
  PROVE  Kept(w, s)
<1>0. s \in Schedules /\ Elsewhere(w, s)
  BY WorkflowFrame
<1>1. CASE Unpublish(w) \/ Archive(w) \/ Unarchive(w)
  <2>1. at[w] = "fetched" /\ mem[w].row \in Row
    BY <1>1, CopyType DEF Unpublish, Archive, Unarchive, Move
  <2>2. \A status \in {"approved", "archived", "draft"} :
          /\ [mem[w].row EXCEPT !.status = status, !.current = "no"] \in Row
          /\ [mem[w].row EXCEPT !.status = status, !.current = "no"].status = status
          /\ [mem[w].row EXCEPT !.status = status, !.current = "no"].current = "no"
    BY <2>1 DEF Row, ScheduleStatus
  <2>3. PICK row, from : /\ row \in Row
                         /\ row.status \notin {"under_review", "hod_approved", "published"}
                         /\ row.current = "no" /\ Move(w, from, row)
    BY <1>1, <2>2 DEF Unpublish, Archive, Unarchive
  <2>4. QED BY <2>3, MoveCalm
<1>2. CASE ClearUnplaced(w)
  <2>1. /\ at[w] = "fetched" /\ sched[s] \in Row /\ Sound(s) /\ mem[w].row = sched[s]
        /\ sched[s].status # "published" => sched[s].current = "no"
    BY <1>2, Held DEF ClearUnplaced
  <2>2. PICK row \in Row :
          /\ row.status = sched[s].status /\ row.current = sched[s].current /\ row.unplaced = 0
          /\ SaveFields(s, sched[s].status, row)
    <3>1. [sched[s] EXCEPT !.unplaced = 0] \in Row
      BY <2>1 DEF Row
    <3>2. QED BY <1>2, <2>1, <3>1 DEF ClearUnplaced, Row
  <2>3. /\ sched'[s] = row
        /\ row.status = "published" =>
             \A t \in Schedules \ {s} : Term[t] = Term[s] => sched'[t].current = "no"
    BY <1>0, <2>1, <2>2, SaveFieldsEffect
  <2>4. /\ UNCHANGED <<entries, approvals, versions, unkept>> /\ Done(w)
    BY <1>2 DEF ClearUnplaced
  <2>5. Stands(s)'
    BY <1>0, <2>1, <2>2, <2>3, <2>4, SameStands DEF Sound
  <2>6. Sound(s)'
    BY <2>1, <2>2, <2>3, <2>4, <2>5, SameSound
  <2>7. QED BY <2>1, <2>2, <2>3, <2>4, <2>6, AtRest, DoneEffect DEF Kept, Flagged
<1>3. CASE Delete(w)
  <2>1. /\ sched' = [sched EXCEPT ![s] = NoRow] /\ entries' = [entries EXCEPT ![s] = Empty]
        /\ Done(w)
    BY <1>3 DEF Delete
  <2>2. sched'[s] = NoRow /\ Proper(s)'
    BY <1>0, <2>1 DEF TypeOK, Proper, Empty
  <2>3. Sound(s)'
    BY <1>0, <2>2, OutOfReview DEF NoRow, None
  <2>4. QED BY <2>1, <2>2, <2>3, AtRest, DoneEffect DEF Kept, Flagged, NoRow, None
<1>4. CASE CheckPublish(w)
  <2>1. /\ at[w] = "fetched" /\ sched[s] \in Row /\ Sound(s) /\ mem[w].row = sched[s]
        /\ sched[s].status # "published" => sched[s].current = "no"
    BY <1>4, Held DEF CheckPublish
  <2>2. /\ sched'[s] = sched[s]
        /\ sched[s].status = "published" =>
             \A t \in Schedules \ {s} : Term[t] = Term[s] => sched'[t].current = "no"
    BY <1>0, <1>4, <2>1, StoreEffect DEF CheckPublish
  <2>3. UNCHANGED <<entries, approvals, versions, unkept>>
    BY <1>4 DEF CheckPublish
  <2>4. Flagged(s)
    BY <2>1, <2>2 DEF Flagged
  <2>5. Stands(s)'
    BY <1>0, <2>1, <2>2, <2>3, SameStands DEF Sound
  <2>6. Sound(s)'
    BY <2>1, <2>2, <2>3, <2>5, SameSound
  <2>7. CASE Done(w)
    BY <2>4, <2>6, <2>7, AtRest, DoneEffect DEF Kept
  <2>8. CASE /\ mem' = [mem EXCEPT ![w].row = sched'[s]] /\ at' = [at EXCEPT ![w] = "checked"]
             /\ Publishable(s) /\ ~Published(s)
    <3>1. mem[w] \in Copy
      BY <2>1 DEF TypeOK
    <3>2. at'[w] = "checked" /\ mem'[w].schedule = s /\ mem'[w].row = sched[s]
      BY <2>1, <2>2, <2>8, <3>1 DEF TypeOK, Copy
    <3>3. HoldsTheRow(w)'
      BY <2>1, <2>2, <2>3, <2>8, <3>2, NoRowType
         DEF HoldsTheRow, Publishable, Published, Exists, NoRow
    <3>4. QED BY <2>4, <2>6, <3>3 DEF Kept
  <2>9. QED BY <1>4, <2>7, <2>8 DEF CheckPublish, Published
<1>5. CASE Publish(w)
  <2>1. /\ at[w] = "checked" /\ sched[s] \in Row /\ Sound(s)
        /\ mem[w].row = sched[s] /\ Publishable(s) /\ ~Published(s)
    BY <1>5, Held DEF Publish
  <2>2. PICK row \in Row : /\ row.status = "published" /\ row.unplaced = sched[s].unplaced
                           /\ Save(s, row)
    BY <1>5, <2>1 DEF Publish, Row, ScheduleStatus
  <2>3. /\ sched'[s].status = "published" /\ sched'[s].unplaced = 0
        /\ \A t \in Schedules \ {s} : Term[t] = Term[s] => sched'[t].current = "no"
    BY <1>0, <2>1, <2>2, SaveEffect DEF Publishable
  <2>4. /\ UNCHANGED <<entries, approvals, versions, mem, unkept>> /\ at'[w] = "stamped"
    BY <1>5 DEF Publish, TypeOK
  <2>5. Sound(s)'
    BY <2>1, <2>3, <2>4
       DEF Sound, Stands, Published, Signed, SignedThis, Proper, Publishable, Empty
  <2>6. QED BY <2>3, <2>4, <2>5 DEF Kept, Flagged, HoldsTheRow
<1>6. CASE KeepPublished(w)
  <2>1. Sound(s)
    BY CalmParts
  <2>2. /\ sched' = sched /\ entries' = entries /\ approvals' = approvals
        /\ Done(w) /\ Keep(s, "yes")
    BY <1>6 DEF KeepPublished
  <2>3. LastPublished(s)' = entries[s]
    BY <1>0, <2>2, KeptLast
  <2>4. Stands(s)'
    BY <2>1, <2>2, <2>3 DEF Sound, Stands, Published
  <2>5. Sound(s)'
    BY <2>1, <2>2, <2>4, SameSound
  <2>6. QED BY <2>2, <2>5, AtRest, DoneEffect DEF Kept
<1>7. QED BY <1>1, <1>2, <1>3, <1>4, <1>5, <1>6 DEF PublishStep

LEMMA CalmStep == ASSUME TypeOK, CalmInv, [Next]_vars PROVE CalmInv'
<1>1. ASSUME NEW s \in Schedules, Create(s), UNCHANGED crossed PROVE CalmInv'
  <2>1. /\ sched' = [sched EXCEPT ![s] = NewRow] /\ sched[s] = NoRow
        /\ UNCHANGED <<entries, approvals, versions, mem, at, unkept, crossed>>
    BY <1>1 DEF Create, Exists
  <2>2. sched'[s] = NewRow /\ \A t \in Schedules \ {s} : sched'[t] = sched[t]
    BY <2>1 DEF TypeOK
  <2>3. Others(s) /\ Flagged(s)
    BY <2>2 DEF Others, Flagged, NewRow
  <2>4. WholeTerms' /\ Calm' = Calm
    BY <2>1, CalmParts DEF WholeTerms, Calm
  <2>5. ASSUME NEW t \in Calm PROVE Sound(t)' /\ Alone(t)'
    <3>1. t \in Schedules /\ Sound(t) /\ Alone(t)
      BY CalmParts DEF Calm
    <3>2. Alone(t)'
      BY <2>2, <3>1 DEF Alone, NewRow
    <3>3. CASE t = s
      <4>1. Proper(s)'
        BY <2>1, <3>1, <3>3 DEF Sound, Proper, Empty
      <4>2. QED BY <2>2, <3>2, <3>3, <4>1, OutOfReview DEF NewRow
    <3>4. CASE t # s
      <4>1. LastPublished(t)' = LastPublished(t)
        BY <2>1 DEF LastPublished, NoPlan
      <4>2. Stands(t)'
        BY <2>1, <2>2, <3>1, <3>4, <4>1 DEF Sound, Stands, Published
      <4>3. QED BY <2>1, <2>2, <3>1, <3>2, <3>4, <4>2, SameSound
    <3>5. QED BY <3>3, <3>4
  <2>6. ASSUME NEW w \in Workers, mem'[w].schedule \in Calm PROVE HoldsTheRow(w)'
    <3>1. mem' = mem /\ at' = at /\ HoldsTheRow(w)
      BY <2>1, <2>6, CalmParts
    <3>2. CASE mem[w].schedule = s
      BY <2>1, <3>1, <3>2 DEF HoldsTheRow, Exists
    <3>3. CASE mem[w].schedule # s
      BY <2>1, <2>2, <2>6, <3>1, <3>3
         DEF Calm, HoldsTheRow, Exists, Publishable, Published, is_locked, NoRow
    <3>4. QED BY <3>2, <3>3
  <2>7. QED BY <2>4, <2>5, <2>6, CalmParts
<1>2. ASSUME NEW w \in Workers, NEW s \in Schedules, Fetch(w, s), UNCHANGED crossed PROVE CalmInv'
  <2>1. /\ UNCHANGED <<sched, entries, approvals, versions, unkept, crossed>>
        /\ at[w] = "idle" /\ at'[w] = "fetched" /\ sched[s] # NoRow
        /\ mem'[w] = [schedule |-> s, row |-> sched[s]]
        /\ \A v \in Workers \ {w} : at'[v] = at[v] /\ mem'[v] = mem[v]
    BY <1>2 DEF Fetch, Exists, TypeOK
  <2>2. WholeTerms' /\ Calm' = Calm
    BY <2>1, CalmParts DEF WholeTerms, Calm
  <2>3. ASSUME NEW t \in Calm PROVE Sound(t)' /\ Alone(t)'
    <3>1. Sound(t) /\ Alone(t)
      BY CalmParts
    <3>2. LastPublished(t)' = LastPublished(t)
      BY <2>1 DEF LastPublished, NoPlan
    <3>3. (\E v \in Workers : at[v] = "stamped" /\ mem[v].schedule = t)
            => (\E v \in Workers : at'[v] = "stamped" /\ mem'[v].schedule = t)
      BY <2>1
    <3>4. Stands(t)'
      BY <2>1, <3>1, <3>2, <3>3 DEF Sound, Stands, Published
    <3>5. QED BY <2>1, <3>1, <3>4, SameSound DEF Alone
  <2>4. ASSUME NEW v \in Workers, mem'[v].schedule \in Calm PROVE HoldsTheRow(v)'
    <3>1. CASE v = w
      BY <2>1, <3>1 DEF HoldsTheRow, Exists, NoRow
    <3>2. CASE v # w
      <4>1. HoldsTheRow(v)
        BY <2>1, <2>4, <3>2, CalmParts
      <4>2. QED BY <2>1, <3>2, <4>1
            DEF HoldsTheRow, Exists, Publishable, Published, is_locked, NoRow
    <3>3. QED BY <3>1, <3>2
  <2>5. QED BY <2>2, <2>3, <2>4, CalmParts
<1>3. ASSUME NEW w \in Workers, Abandon(w), NoteCrossing(w) PROVE CalmInv'
  <2>1. PICK s \in Schedules : s = mem[w].schedule
    BY <1>3, CopyType DEF Abandon
  <2>2. /\ UNCHANGED <<sched, entries, approvals, versions>> /\ Done(w) /\ at[w] # "idle"
        /\ unkept' = IF at[w] = "stamped" THEN unkept \cup {s} ELSE unkept
    BY <1>3, <2>1 DEF Abandon
  <2>3. Others(s) /\ Elsewhere(w, s)
    BY <2>1, <2>2, DoneEffect DEF Others, Elsewhere
  <2>4. ASSUME s \in Calm PROVE Kept(w, s)
    <3>1. Sound(s)
      BY <2>4, CalmParts
    <3>2. LastPublished(s)' = LastPublished(s)
      BY <2>2 DEF LastPublished, NoPlan
    <3>3. \/ ~\E v \in Workers : at[v] = "stamped" /\ mem[v].schedule = s
          \/ \E v \in Workers : at'[v] = "stamped" /\ mem'[v].schedule = s
          \/ s \in unkept'
      BY <2>1, <2>2, DoneEffect
    <3>4. Stands(s)'
      BY <2>1, <2>2, <3>1, <3>2, <3>3 DEF Sound, Stands, Published
    <3>5. QED BY <2>2, <3>1, <3>4, SameSound, AtRest, DoneEffect DEF Kept
  <2>5. QED BY <1>3, <2>1, <2>2, <2>3, <2>4, Concluded
<1>4. ASSUME NEW w \in Workers, WorkerStep(w), NoteCrossing(w) PROVE CalmInv'
  <2>1. PICK s : s = mem[w].schedule
    OBVIOUS
  <2>2. s \in Schedules /\ at[w] # "idle" /\ Others(s) /\ Elsewhere(w, s)
    BY <1>4, <2>1, EngineFrame, WorkflowFrame DEF WorkerStep
  <2>3. s \in Calm => Kept(w, s)
    BY <1>4, <2>1, EngineCalm, ReviewCalm, PublishCalm DEF WorkerStep
  <2>4. QED BY <1>4, <2>1, <2>2, <2>3, Concluded
<1>5. CASE UNCHANGED vars
  <2>1. UNCHANGED <<sched, entries, approvals, versions, mem, at, unkept, crossed>>
    BY <1>5 DEF vars
  <2>2. \A s : LastPublished(s)' = LastPublished(s) /\ Involved(s)' = Involved(s)
    BY <2>1 DEF LastPublished, Involved, NoPlan, Empty
  <2>3. \A s : Stands(s)' = Stands(s) /\ Alone(s)' = Alone(s)
    BY <2>1, <2>2 DEF Stands, Published, Alone
  <2>4. \A s : Sound(s) => Sound(s)'
    BY <2>1, <2>3, SameSound DEF Sound
  <2>5. \A w \in Workers : HoldsTheRow(w)' = HoldsTheRow(w)
    BY <2>1 DEF HoldsTheRow, Exists, Publishable, Published, is_locked, NoRow
  <2>6. WholeTerms' = WholeTerms /\ Calm' = Calm
    BY <2>1 DEF WholeTerms, Calm
  <2>7. QED BY <2>1, <2>3, <2>4, <2>5, <2>6, CalmParts
<1>6. QED BY <1>1, <1>2, <1>3, <1>4, <1>5 DEF Next

LEMMA CalmInvariant == Spec => []CalmInv
<1>1. Init => CalmInv
  <2> SUFFICES ASSUME Init PROVE CalmInv
    OBVIOUS
  <2>1. \A s \in Schedules : sched[s] = NoRow /\ entries[s] = Empty
    BY DEF Init
  <2>2. \A s \in Schedules : Sound(s) /\ Alone(s)
    BY <2>1 DEF Sound, Stands, Signed, SignedThis, Proper, Published, Alone, NoRow, None
  <2>3. WholeTerms /\ \A w \in Workers : HoldsTheRow(w)
    BY DEF Init, WholeTerms, HoldsTheRow
  <2>4. QED BY <2>2, <2>3, CalmParts DEF Calm
<1>2. TypeOK /\ CalmInv /\ [Next]_vars => CalmInv'
  BY CalmStep
<1>3. QED BY <1>1, <1>2, TypeCorrect, PTL DEF Spec

(* OneCurrent: a term in which no requests cross has one current timetable *)
(* at most, and it is a published one.                                     *)
THEOREM OneCurrentTimetable == Spec => []OneCurrent
<1>1. CalmInv => OneCurrent
  BY DEF CalmInv
<1>2. QED BY <1>1, CalmInvariant, PTL

(* PublishedStands: unless requests cross in its term, nothing that edits, *)
(* repairs, restores, optimises or regenerates touches a published         *)
(* timetable, which is free of conflicts and complete, and its last        *)
(* published snapshot is what is placed, unless the server died between    *)
(* the publication's two commits.                                          *)
THEOREM WhatIsPublishedStands == Spec => []PublishedStands
<1>1. CalmInv => PublishedStands
  BY DEF CalmInv
<1>2. QED BY <1>1, CalmInvariant, PTL

(* HeadsSigned: unless requests cross in its term, every head concerned    *)
(* approved, in this round, the plan that a hod_approved schedule holds,   *)
(* or a plan with conflicts that was repaired since.                       *)
THEOREM HeadsSignedWhatIsPlaced == Spec => []HeadsSigned
<1>1. CalmInv => HeadsSigned
  BY DEF CalmInv
<1>2. QED BY <1>1, CalmInvariant, PTL

(* A plan that is kept before a change is in the history after it.         *)
LEMMA KeptPlan ==
  ASSUME TypeOK, NEW s \in Schedules, KeepBeforeChange(s), entries[s] # Empty
  PROVE  \E v \in DOMAIN versions'[s] : versions'[s][v].plan = entries[s]
<1>1. versions[s] \in Seq(Snapshot)
  BY DEF TypeOK
<1>2. versions'[s] = Append(versions[s], [plan |-> entries[s], published |-> "no"])
  BY DEF KeepBeforeChange, Keep, TypeOK
<1>3. /\ Len(versions[s]) + 1 \in DOMAIN versions'[s]
      /\ versions'[s][Len(versions[s]) + 1] = [plan |-> entries[s], published |-> "no"]
  BY <1>1, <1>2
<1>4. QED BY <1>3

(* NothingOverwritten, for any number of workers: the plan that generation *)
(* or a restore replaces is the one it has just put into the history, even *)
(* when it is not the plan that the worker fetched and judged.             *)
THEOREM ReplacedPlansAreKept == Spec => NothingOverwritten
<1>1. TypeOK /\ [Next]_vars =>
        [\A w \in Workers : at[w] = "fetched" =>
           LET s == mem[w].schedule
           IN  \/ entries[s] = Empty
               \/ \E v \in DOMAIN versions'[s] : versions'[s][v].plan = entries[s]
               \/ ~Replaces(w)]_vars
  <2> SUFFICES ASSUME TypeOK, NEW w \in Workers, Replaces(w),
                      NEW s, s = mem[w].schedule, entries[s] # Empty
               PROVE  \E v \in DOMAIN versions'[s] : versions'[s][v].plan = entries[s]
    OBVIOUS
  <2>1. s \in Schedules
    BY CopyType DEF Replaces, Generate, Restore
  <2>2. KeepBeforeChange(s)
    BY DEF Replaces, Generate, Restore
  <2>3. QED BY <2>1, <2>2, KeptPlan
<1>2. QED BY <1>1, TypeCorrect, PTL DEF Spec, NothingOverwritten
=============================================================================
