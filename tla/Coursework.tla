----------------------------- MODULE Coursework -----------------------------
(***************************************************************************)
(* One offering's lecture material, assignment and attendance              *)
(* (teachers/views, students/views).                                       *)
(*                                                                         *)
(* No view locks a row: it fetches, judges what it fetched and, unless it  *)
(* names the fields, saves the whole row.  What a request holds between    *)
(* its statements is in `mem'; requests overlap and may die in between.    *)
(***************************************************************************)
EXTENDS Integers, FiniteSets

CONSTANTS
  Students,
  Texts,        \* what a student can hand in
  Marks,        \* what a teacher can award
  Workers,
  MaxAccesses   \* bound on logged downloads

VARIABLES
  enrolled,     \* students with an active enrolment
  material,     \* the LectureMaterial row
  logs,         \* its MaterialDownloadLog rows
  assignment,   \* status of the Assignment
  late,         \* the due date has passed
  submissions,  \* each student's AssignmentSubmission row
  marked,       \* history: the text the teacher read before each student's last mark
  sheet,        \* the AttendanceSheet of the day exists
  records,      \* its AttendanceRecord rows
  mem           \* what a request has read

vars == <<enrolled, material, logs, assignment, late, submissions, marked, sheet, records, mem>>

None == "none"
Unread == "unread"
Idle == [op |-> "idle"]
AssignmentStatus == {"draft", "published", "closed", "graded"}
Attendance == {"present", "absent"}  \* "excused" and "late" are no different here

Material == [published : {"yes", "no"}, active : {"yes", "no"}, count : 0..MaxAccesses]
Submission == [text : Texts, late : {"yes", "no"}, score : Marks \cup {None}]
NoSubmission == [text |-> None, late |-> "no", score |-> None]

Init ==
  /\ enrolled = Students
  /\ material \in [published : {"yes", "no"}, active : {"yes"}, count : {0}]
  /\ logs = 0
  /\ assignment \in AssignmentStatus
  /\ late = "no"
  /\ submissions = [s \in Students |-> NoSubmission]
  /\ marked = [s \in Students |-> None]
  /\ sheet = "no"
  /\ records = [s \in Students |-> None]
  /\ mem = [w \in Workers |-> Idle]

Become(w, m) == mem' = [mem EXCEPT ![w] = m]

(* A request dies.                                                         *)
Drop(w) ==
  /\ mem[w] # Idle
  /\ Become(w, Idle)
  /\ UNCHANGED <<enrolled, material, logs, assignment, late, submissions, marked, sheet, records>>

(* enrolment_activate and enrolment_deactivate of the academic office.     *)
ToggleEnrolment(s) ==
  /\ enrolled' = IF s \in enrolled THEN enrolled \ {s} ELSE enrolled \cup {s}
  /\ UNCHANGED <<material, logs, assignment, late, submissions, marked, sheet, records, mem>>

(***************************************************************************)
(* Lecture material.                                                       *)
(***************************************************************************)
(* material_edit and material_delete fetch the row ...                     *)
OpenMaterial(w) ==
  /\ mem[w] = Idle
  /\ Become(w, [op |-> "material", row |-> material])
  /\ UNCHANGED <<enrolled, material, logs, assignment, late, submissions, marked, sheet, records>>

SaveMaterial(w, row) ==
  /\ mem[w].op = "material"
  /\ material' = row
  /\ Become(w, Idle)
  /\ UNCHANGED <<enrolled, logs, assignment, late, submissions, marked, sheet, records>>

(* ... and save all of it, the count of downloads included.                *)
MaterialEdit(w) ==
  \E published \in {"yes", "no"} : SaveMaterial(w, [mem[w].row EXCEPT !.published = published])

MaterialDelete(w) == SaveMaterial(w, [mem[w].row EXCEPT !.active = "no"])

Accessible == material.published = "yes" /\ material.active = "yes"

(* Mutant: a download is counted, and not logged, for those not enrolled.  *)
AccessUnlogged(w, s) ==
  /\ mem[w] = Idle /\ Accessible /\ logs < MaxAccesses
  /\ logs' = IF s \in enrolled THEN logs + 1 ELSE logs
  /\ Become(w, [op |-> "access"])
  /\ UNCHANGED <<enrolled, material, assignment, late, submissions, marked, sheet, records>>

(* material_access logs the download of an enrolled student ...            *)
MaterialAccess(w, s) ==
  /\ mem[w] = Idle /\ Accessible /\ s \in enrolled /\ logs < MaxAccesses
  /\ logs' = logs + 1
  /\ Become(w, [op |-> "access"])
  /\ UNCHANGED <<enrolled, material, assignment, late, submissions, marked, sheet, records>>

(* ... and then adds one to the count, in the database.                    *)
CountDownload(w) ==
  /\ mem[w].op = "access"
  /\ material' = [material EXCEPT !.count = @ + 1]
  /\ Become(w, Idle)
  /\ UNCHANGED <<enrolled, logs, assignment, late, submissions, marked, sheet, records>>

(***************************************************************************)
(* The assignment.                                                         *)
(***************************************************************************)
(* assignment_publish_toggle; only the status is saved.                    *)
PublishToggle ==
  /\ assignment \in {"draft", "published"}
  /\ assignment' = IF assignment = "draft" THEN "published" ELSE "draft"
  /\ UNCHANGED <<enrolled, material, logs, late, submissions, marked, sheet, records, mem>>

DueDatePasses ==
  /\ late = "no" /\ late' = "yes"
  /\ UNCHANGED <<enrolled, material, logs, assignment, submissions, marked, sheet, records, mem>>

(* Mutant: a graded submission may be handed in again.                     *)
AlwaysOpen(s) == TRUE

Ungraded(s) == submissions[s].score = None

(* assignment_submit, up to the submission it finds or does not find.      *)
OpenSubmission(w, s) ==
  /\ mem[w] = Idle
  /\ assignment = "published" /\ s \in enrolled
  /\ Ungraded(s)
  /\ Become(w, [op |-> "submit", student |-> s, row |-> submissions[s]])
  /\ UNCHANGED <<enrolled, material, logs, assignment, late, submissions, marked, sheet, records>>

(* The form's save: an insert, which the unique constraint refuses when    *)
(* there is a row by now, or a write of the whole row it found.            *)
Submit(w) ==
  /\ mem[w].op = "submit"
  /\ LET s == mem[w].student
     IN  /\ mem[w].row = NoSubmission => submissions[s] = NoSubmission
         /\ \E text \in Texts :
              submissions' = [submissions EXCEPT ![s] =
                [mem[w].row EXCEPT !.text = text, !.late = late]]
  /\ Become(w, Idle)
  /\ UNCHANGED <<enrolled, material, logs, assignment, late, marked, sheet, records>>

(* grade_submission, fetched: the teacher has the text on a page ...       *)
ReadSubmission(w, s) ==
  /\ mem[w] = Idle /\ submissions[s] # NoSubmission
  /\ Become(w, [op |-> "page", student |-> s, text |-> submissions[s].text])
  /\ UNCHANGED <<enrolled, material, logs, assignment, late, submissions, marked, sheet, records>>

(* ... and, posted: it fetches the row again, which the student may have   *)
(* written since, and does not ask whether the text is the one that was    *)
(* read.                                                                   *)
OpenGrading(w) ==
  /\ mem[w].op = "page"
  /\ LET row == submissions[mem[w].student]
     IN /\ row # NoSubmission
        /\ Become(w, [op |-> "grade", student |-> mem[w].student, row |-> row,
                      read |-> IF row.text = mem[w].text THEN row.text ELSE Unread])
  /\ UNCHANGED <<enrolled, material, logs, assignment, late, submissions, marked, sheet, records>>

(* It writes the whole row it fetched; the score field may be left empty.  *)
GradeSubmission(w) ==
  /\ mem[w].op = "grade"
  /\ LET s == mem[w].student
     IN \E score \in Marks \cup {None} :
          /\ submissions' = [submissions EXCEPT ![s] = [mem[w].row EXCEPT !.score = score]]
          /\ marked' = [marked EXCEPT ![s] = mem[w].read]
  /\ Become(w, Idle)
  /\ UNCHANGED <<enrolled, material, logs, assignment, late, sheet, records>>

(***************************************************************************)
(* Attendance.                                                             *)
(***************************************************************************)
(* attendance_take lists the students enrolled and gets or creates the     *)
(* sheet of the day ...                                                    *)
AttendanceTake(w) ==
  /\ mem[w] = Idle
  /\ sheet' = "yes"
  /\ Become(w, IF enrolled = {} THEN Idle ELSE [op |-> "attend", left |-> enrolled])
  /\ UNCHANGED <<enrolled, material, logs, assignment, late, submissions, marked, records>>

(* ... and saves one record after the other.                               *)
MarkStudent(w, s) ==
  /\ mem[w].op = "attend" /\ s \in mem[w].left
  /\ \E status \in Attendance : records' = [records EXCEPT ![s] = status]
  /\ Become(w, IF mem[w].left = {s} THEN Idle ELSE [mem[w] EXCEPT !.left = @ \ {s}])
  /\ UNCHANGED <<enrolled, material, logs, assignment, late, submissions, marked, sheet>>

(***************************************************************************)
(* The specification.                                                      *)
(***************************************************************************)
TeacherStep(w) ==
  \/ OpenMaterial(w) \/ MaterialEdit(w) \/ MaterialDelete(w)
  \/ OpenGrading(w) \/ GradeSubmission(w) \/ AttendanceTake(w)
  \/ \E s \in Students : ReadSubmission(w, s) \/ MarkStudent(w, s)

StudentStep(w) ==
  \/ CountDownload(w) \/ Submit(w)
  \/ \E s \in Students : MaterialAccess(w, s) \/ OpenSubmission(w, s)

Next ==
  \/ \E w \in Workers : TeacherStep(w) \/ StudentStep(w) \/ Drop(w)
  \/ PublishToggle \/ DueDatePasses
  \/ \E s \in Students : ToggleEnrolment(s)

Spec == Init /\ [][Next]_vars

(***************************************************************************)
(* Properties.                                                             *)
(***************************************************************************)
(* Every row keeps its type, and no record exists without its sheet.       *)
TypeOK ==
  /\ enrolled \subseteq Students
  /\ material \in Material
  /\ logs \in 0..MaxAccesses
  /\ assignment \in AssignmentStatus /\ late \in {"yes", "no"}
  /\ submissions \in [Students -> Submission \cup {NoSubmission}]
  /\ marked \in [Students -> Texts \cup {None, Unread}]
  /\ records \in [Students -> Attendance \cup {None}]
  /\ sheet = "no" => \A s \in Students : records[s] = None

(* "This assignment has already been graded": a score stands beside the    *)
(* very text its teacher read, however the student's forms, fetched before *)
(* the grading, and the teachers', fetched before a resubmission, cross    *)
(* after that; unless the text had changed by the time the mark was        *)
(* posted, which the code does not look for.                               *)
ScoreIsOfThisText ==
  \A s \in Students :
    submissions[s].score # None => marked[s] \in {submissions[s].text, Unread}

(* LectureMaterial.download_count against the log it summarises: forms     *)
(* that put an old count back, and requests that die between the two       *)
(* writes, leave it behind the downloads logged and never ahead of them.   *)
CountNeverAhead == material.count <= logs

(***************************************************************************)
(* Inductive strengthening.                                                *)
(***************************************************************************)
Request ==
  {Idle} \cup [op : {"access"}] \cup [op : {"material"}, row : Material]
  \cup [op : {"submit"}, student : Students, row : Submission \cup {NoSubmission}]
  \cup [op : {"page"}, student : Students, text : Texts]
  \cup [op : {"grade"}, student : Students, row : Submission, read : Texts \cup {Unread}]
  \cup [op : {"attend"}, left : SUBSET Students]

(* Downloads that are logged and not yet counted.                          *)
Accessing == {w \in Workers : mem[w].op = "access"}
Counted(row) == row.count + Cardinality(Accessing) <= logs

GradedInv ==
  /\ TypeOK /\ mem \in [Workers -> Request]
  /\ Counted(material)
  /\ \A w \in Workers :
       /\ mem[w].op = "material" => Counted(mem[w].row)
       /\ mem[w].op = "submit" => mem[w].row.score = None
       /\ mem[w].op = "attend" => sheet = "yes"
       /\ mem[w].op = "grade" => mem[w].read \in {mem[w].row.text, Unread}
  /\ ScoreIsOfThisText
=============================================================================
