---------------------------- MODULE Registration ----------------------------
(***************************************************************************)
(* A student registers for the offerings of one course: the fee gate, the  *)
(* request and its judges, the enrolment a signal makes of an approved     *)
(* request, and the retake fee another signal charges for a failed course  *)
(* (students, accounts, academics, finance).                               *)
(***************************************************************************)
EXTENDS Naturals, Sequences

CONSTANTS
  Offerings,  \* of the course
  Listed,     \* those open for registration in the student's programme
  SessionOf,  \* the session of each offering; later sessions are greater
  Priced,     \* sessions with a retake fee set
  Due,        \* the fee that may be assigned to the student
  Workers

VARIABLES
  fee,          \* the student's fees: assigned, paid, and whether marked overdue
  requests,     \* the CourseRegistrationRequest rows
  enrolments,   \* the Enrolment rows
  results,      \* the StudentResult of each enrolment
  retakeFees,   \* the StudentRetakeFee rows of each session
  mem           \* what a request has read

vars == <<fee, requests, enrolments, results, retakeFees, mem>>

None == "none"
Idle == [op |-> "idle"]
OfferingSessions == {SessionOf[o] : o \in Offerings}
YesNo == {"yes", "no"}

Fee == [due : {0, Due}, paid : 0..Due, overdue : YesNo]
Request == [status : {"pending", "approved", "rejected"}, retake : YesNo]
NoRequest == [status |-> None, retake |-> "no"]
Enrolment == [active : YesNo, retake : YesNo, original : Offerings \cup {None}]
NoEnrolment == [active |-> None, retake |-> "no", original |-> None]
FirstTake == [active |-> "yes", retake |-> "no", original |-> None]
Result == [grade : {None, "A", "F"}, sheet : {"open", "approved"}]

Init ==
  /\ fee = [due |-> 0, paid |-> 0, overdue |-> "no"]
  /\ requests = [o \in Offerings |-> NoRequest]
  /\ enrolments = [o \in Offerings |-> NoEnrolment]
  /\ results = [o \in Offerings |-> [grade |-> None, sheet |-> "open"]]
  /\ retakeFees = [y \in OfferingSessions |-> <<>>]
  /\ mem = [w \in Workers |-> Idle]

Become(w, m) == mem' = [mem EXCEPT ![w] = m]
Enrolled(o) == enrolments[o].active = "yes"

(***************************************************************************)
(* Fees.                                                                   *)
(***************************************************************************)
AssignFee ==
  /\ fee.due = 0
  /\ fee' = [fee EXCEPT !.due = Due]
  /\ UNCHANGED <<requests, enrolments, results, retakeFees, mem>>

(* No code of the program marks a fee overdue; the office does, in the     *)
(* form of the fee's row.                                                  *)
ToggleOverdue ==
  /\ fee.due # 0
  /\ fee' = [fee EXCEPT !.overdue = IF @ = "yes" THEN "no" ELSE "yes"]
  /\ UNCHANGED <<requests, enrolments, results, retakeFees, mem>>

(* record_payment adds to the amount it fetched, and saves the whole row   *)
(* as paid or partly paid.                                                 *)
OpenPayment(w) ==
  /\ mem[w] = Idle /\ fee.paid < fee.due
  /\ Become(w, [op |-> "payment", paid |-> fee.paid])
  /\ UNCHANGED <<fee, requests, enrolments, results, retakeFees>>

RecordPayment(w) ==
  /\ mem[w].op = "payment"
  /\ fee' = [fee EXCEPT !.paid = mem[w].paid + 1, !.overdue = "no"]
  /\ Become(w, Idle)
  /\ UNCHANGED <<requests, enrolments, results, retakeFees>>

(* Nothing due, or six tenths of what is due and nothing overdue.          *)
HasMinimumFee == fee.due = 0 \/ (10 * fee.paid >= 6 * fee.due /\ fee.overdue = "no")

HasUnpaidRetakeFees ==
  \E y \in OfferingSessions : \E i \in DOMAIN retakeFees[y] : retakeFees[y][i] = "unpaid"

RetakeFeePay(y) ==
  /\ \E i \in DOMAIN retakeFees[y] :
       /\ retakeFees[y][i] = "unpaid"
       /\ retakeFees' = [retakeFees EXCEPT ![y][i] = "paid"]
  /\ UNCHANGED <<fee, requests, enrolments, results, mem>>

(***************************************************************************)
(* Requests.                                                               *)
(***************************************************************************)
(* The form offers what is neither enrolled, pending nor approved, and     *)
(* refuses a failed course whose retake fee is unpaid.                     *)
Failed == \E o \in Offerings : results[o].grade = "F" /\ Enrolled(o)

FormValid(o) ==
  /\ ~Enrolled(o)
  /\ requests[o].status \notin {"pending", "approved"}
  /\ Failed => ~HasUnpaidRetakeFees

OpenRegistration(w) ==
  /\ mem[w] = Idle
  /\ HasMinimumFee
  /\ \E o \in Listed : FormValid(o) /\ Become(w, [op |-> "register", offering |-> o])
  /\ UNCHANGED <<fee, requests, enrolments, results, retakeFees>>

(* A retake by the approved results; a second row, even after a rejection, *)
(* is refused.                                                             *)
HasFailed == \E o \in Offerings : results[o] = [grade |-> "F", sheet |-> "approved"]

CourseRegistration(w) ==
  /\ mem[w].op = "register"
  /\ LET o == mem[w].offering
     IN  /\ requests[o] = NoRequest
         /\ requests' = [requests EXCEPT ![o] =
              [status |-> "pending", retake |-> IF HasFailed THEN "yes" ELSE "no"]]
  /\ Become(w, Idle)
  /\ UNCHANGED <<fee, enrolments, results, retakeFees>>

(* approve_registration and reject_registration fetch a pending request ... *)
Judgeable(o) == requests[o].status = "pending"

OpenJudge(w, o) ==
  /\ mem[w] = Idle /\ Judgeable(o)
  /\ \E d \in {"approved", "rejected"} :
       Become(w, [op |-> "judge", offering |-> o, row |-> [requests[o] EXCEPT !.status = d]])
  /\ UNCHANGED <<fee, requests, enrolments, results, retakeFees>>

(* ... and save the whole row.  The signal follows an approval.            *)
SaveJudgement(w) ==
  /\ mem[w].op = "judge"
  /\ LET o == mem[w].offering
     IN  /\ requests' = [requests EXCEPT ![o] = mem[w].row]
         /\ IF mem[w].row.status = "approved"
              THEN Become(w, [op |-> "enrol", offering |-> o, retake |-> mem[w].row.retake])
              ELSE Become(w, Idle)
  /\ UNCHANGED <<fee, enrolments, results, retakeFees>>

(* auto_enrol_on_approval: the original of a retake is the latest active   *)
(* first take; a deactivated row is not seen, and makes the insert fail.   *)
Original(retake) ==
  LET takes == {o \in Offerings : Enrolled(o) /\ enrolments[o].retake = "no"}
  IN  IF retake = "no" \/ takes = {} THEN {None} ELSE takes

AutoEnrolOnApproval(w) ==
  /\ mem[w].op = "enrol"
  /\ LET o == mem[w].offering
     IN \/ Enrolled(o) /\ UNCHANGED enrolments
        \/ /\ enrolments[o] = NoEnrolment
           /\ \E original \in Original(mem[w].retake) :
                enrolments' = [enrolments EXCEPT ![o] =
                  [active |-> "yes", retake |-> mem[w].retake, original |-> original]]
  /\ Become(w, Idle)
  /\ UNCHANGED <<fee, requests, results, retakeFees>>

(* A request dies, or fails.                                               *)
Drop(w) ==
  /\ mem[w] # Idle
  /\ Become(w, Idle)
  /\ UNCHANGED <<fee, requests, enrolments, results, retakeFees>>

(***************************************************************************)
(* The office's enrolments.                                                *)
(***************************************************************************)
EnrolmentCreate(o) ==
  /\ enrolments[o] = NoEnrolment
  /\ enrolments' = [enrolments EXCEPT ![o] = FirstTake]
  /\ UNCHANGED <<fee, requests, results, retakeFees, mem>>

EnrolmentActivate(o) ==
  /\ enrolments[o] # NoEnrolment
  /\ enrolments' = [enrolments EXCEPT ![o].active = IF @ = "yes" THEN "no" ELSE "yes"]
  /\ UNCHANGED <<fee, requests, results, retakeFees, mem>>

(***************************************************************************)
(* Results, and the fee for a failed course.                               *)
(***************************************************************************)
(* result_entry saves a result of an open sheet; the signal runs after.    *)
EnterResult(w, o, grade) ==
  /\ mem[w] = Idle /\ Enrolled(o) /\ results[o].sheet = "open"
  /\ results' = [results EXCEPT ![o].grade = grade]
  /\ Become(w, IF grade = "F" THEN [op |-> "failed", session |-> SessionOf[o]] ELSE Idle)
  /\ UNCHANGED <<fee, requests, enrolments, retakeFees>>

ToggleApproval(o) ==
  /\ results[o].grade # None
  /\ results' = [results EXCEPT ![o].sheet = IF @ = "open" THEN "approved" ELSE "open"]
  /\ UNCHANGED <<fee, requests, enrolments, retakeFees, mem>>

(* There is an amount for the session, or else for that of the current     *)
(* semester, which the office may set to any.                              *)
Charged(y) == IF y \in Priced THEN {TRUE} ELSE {FALSE, Priced # {}}

(* create_retake_fee_on_fail looks for a row ...                           *)
FindRetakeFee(w) ==
  /\ mem[w].op = "failed"
  /\ LET y == mem[w].session
     IN \E charged \in Charged(y) :
          Become(w, IF retakeFees[y] = <<>> /\ charged THEN [op |-> "charge", session |-> y] ELSE Idle)
  /\ UNCHANGED <<fee, requests, enrolments, results, retakeFees>>

(* Mutant: no unique constraint.                                           *)
NoUniqueRow(y) == Len(retakeFees[y]) < 2

(* ... and creates it, if the constraint lets it.                          *)
UniqueRow(y) == retakeFees[y] = <<>>

CreateRetakeFee(w) ==
  /\ mem[w].op = "charge"
  /\ LET y == mem[w].session
     IN UniqueRow(y) /\ retakeFees' = [retakeFees EXCEPT ![y] = Append(@, "unpaid")]
  /\ Become(w, Idle)
  /\ UNCHANGED <<fee, requests, enrolments, results>>

(***************************************************************************)
(* The specification.                                                      *)
(***************************************************************************)
RequestStep(w) ==
  \/ OpenRegistration(w) \/ CourseRegistration(w) \/ SaveJudgement(w) \/ AutoEnrolOnApproval(w)
  \/ \E o \in Offerings : OpenJudge(w, o)

ResultStep(w) ==
  \/ \E o \in Offerings, grade \in {"A", "F"} : EnterResult(w, o, grade)
  \/ FindRetakeFee(w) \/ CreateRetakeFee(w)

Next ==
  \/ \E w \in Workers :
       \/ RequestStep(w) \/ ResultStep(w) \/ Drop(w)
       \/ OpenPayment(w) \/ RecordPayment(w)
  \/ \E o \in Offerings : EnrolmentCreate(o) \/ EnrolmentActivate(o) \/ ToggleApproval(o)
  \/ \E y \in OfferingSessions : RetakeFeePay(y)
  \/ AssignFee \/ ToggleOverdue

Spec == Init /\ [][Next]_vars

(***************************************************************************)
(* Properties.                                                             *)
(***************************************************************************)
(* Every row keeps its type.                                               *)
TypeOK ==
  /\ fee \in Fee
  /\ requests \in [Offerings -> Request \cup {NoRequest}]
  /\ enrolments \in [Offerings -> Enrolment \cup {NoEnrolment}]
  /\ results \in [Offerings -> Result]
  /\ DOMAIN retakeFees = OfferingSessions

(* A student is charged at most once for failing the course in a session,  *)
(* whoever saves the failing grade, however often and at the same time.    *)
ChargedOnce == \A y \in OfferingSessions : Len(retakeFees[y]) <= 1

(***************************************************************************)
(* Inductive strengthening.                                                *)
(***************************************************************************)
Call ==
  {Idle} \cup [op : {"payment"}, paid : 0..(Due - 1)]
  \cup [op : {"register"}, offering : Offerings]
  \cup [op : {"judge"}, offering : Offerings, row : Request]
  \cup [op : {"enrol"}, offering : Offerings, retake : YesNo]
  \cup [op : {"failed", "charge"}, session : OfferingSessions]

FeeInv ==
  /\ TypeOK /\ mem \in [Workers -> Call]
  /\ retakeFees \in [OfferingSessions -> Seq({"paid", "unpaid"})]
  /\ ChargedOnce
=============================================================================
