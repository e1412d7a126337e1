----------------------------- MODULE Admissions -----------------------------
(***************************************************************************)
(* The life of one admission application (portal/workflow.py,              *)
(* portal/services.py and the views that call them): workflow status,      *)
(* academic decision, offers, application-fee payments and the conversion  *)
(* into a student.                                                         *)
(*                                                                         *)
(* The program serves each HTTP request in its own worker and takes no row *)
(* lock.  A request therefore has three moments: it Fetches rows into      *)
(* memory; it Validates, on those in-memory rows and on whatever it queries *)
(* at that moment; and a Commit writes, naming the columns it changes.     *)
(* Steps of other workers come between any two of them.  A request that is *)
(* refused, or whose process dies, is Abandoned: an open transaction rolls *)
(* back.  The audit log is written and never read by a guard: left out.    *)
(***************************************************************************)
EXTENDS AdmissionGraph, Naturals

CONSTANTS
  Workers,      \* the server's workers, each serving one request at a time
  Offers,       \* primary keys for AdmissionOffer rows
  Payments,     \* primary keys for ApplicationPayment rows
  Sufficient,   \* the sets of payments whose amounts add up to the cycle's fee
  FeeRequired,  \* cycle.payment_required_to_progress and cycle.requires_payment
  MaxDay,       \* bound on the calendar
  Requests      \* the requests that staff and the applicant may send

OfferStatus   == {"issued", "accepted", "declined", "expired", "revoked"}
PaymentStatus == {"pending", "successful", "failed", "cancelled"}
NoRow == "no row"

StaffMoves == [op : {"transition"}, to : Workflow, applicant : {FALSE}, bypass : BOOLEAN]
ApplicantMoves == [op : {"transition"}, to : {"submitted", "resubmitted", "withdrawn"},
                   applicant : {TRUE}, bypass : {FALSE}]
DecisionRequests == [op : {"decide"}, decision : Decisions]
PlainRequests == [op : {"bulk_reject", "approve", "issue", "convert", "edit",
                        "initiate", "record"}]
OfferRequests == [op : {"accept", "decline", "revoke", "expire"}, offer : Offers]
PaymentRequests == [op : {"verify", "fail", "cancel"}, payment : Payments]

AllRequests == StaffMoves \cup ApplicantMoves \cup DecisionRequests \cup PlainRequests
                 \cup OfferRequests \cup PaymentRequests

(* record() goes on to confirm the payment it created. *)
Confirmations == [op : {"confirm"}, payment : Payments]
NoRequest == [op |-> "none"]

ASSUME RequestsAssumption == Requests \subseteq AllRequests
ASSUME MaxDayAssumption == MaxDay \in Nat
ASSUME FeeAssumption ==
  /\ FeeRequired \in BOOLEAN
  /\ Sufficient \subseteq SUBSET Payments
  /\ \A S \in Sufficient, T \in SUBSET Payments : S \subseteq T => T \in Sufficient

VARIABLES
  app,       \* the AdmissionApplication row
  offers,    \* the AdmissionOffer rows
  payments,  \* the status of each ApplicationPayment row
  paidAt,    \* payments whose paid_at is set
  acceptedAt, \* offers whose acceptance_date is set
  student,   \* whether the applicant has a StudentProfile
  waived,    \* history: staff have waived the fee for a review stage
  today,     \* timezone.localdate()
  pc,        \* where each worker's request stands
  req,       \* the request each worker serves
  mem        \* the rows each worker holds in memory

rows == <<app, offers, payments, paidAt, acceptedAt, student, waived>>
vars == <<rows, today, pc, req, mem>>

Rows == [status : Status, decision : Decisions, converted_at : {"null", "set"}, user : BOOLEAN]
OfferRows == [status : OfferStatus \cup {NoRow}, issueDate : 0..MaxDay, expiry : 0..MaxDay]
Memory == [app : Rows, row : OfferStatus \cup PaymentStatus \cup {NoRow}]

(***************************************************************************)
(* What the services read.                                                 *)
(***************************************************************************)
NewRow(s, u) == [status |-> s, decision |-> "pending", converted_at |-> "null", user |-> u]
Blank == [app |-> NewRow("draft", FALSE), row |-> NoRow]

Successful == {p \in Payments : payments[p] = "successful"}

(* Mutant: a payment counts as soon as it is opened. *)
OpenedPaid == {p \in Payments : payments[p] \in {"pending", "successful"}} \in Sufficient
FeePaid == Successful \in Sufficient

Accepted == {o \in Offers : offers[o].status = "accepted"}
Active == {o \in Offers : offers[o].status \in {"issued", "accepted"}}
Overdue(o) == offers[o].expiry < today

(* active_offer() takes the first by descending issue date; offers of one  *)
(* day tie, and the database may return any of them.                       *)
Newest == {o \in Active : \A p \in Active : offers[p].issueDate <= offers[o].issueDate}
NoneAwaits == Newest = {} \/ \E o \in Newest : offers[o].status = "accepted" \/ Overdue(o)

(* Mutant: the decision will do. *)
PreflightDecided(a) ==
  /\ a.converted_at = "null" /\ a.status # "converted"
  /\ a.decision \in OFFERABLE

(* StudentConversionService.preflight on the in-memory application a.      *)
Preflight(a) ==
  /\ a.converted_at = "null" /\ a.status # "converted"
  /\ a.decision \in OFFERABLE
  /\ Accepted # {}

(* ApplicationWorkflow.can_transition with its business gates.             *)
CanTransition(a, to, applicant, bypass) ==
  /\ to # Normalize(a.status)
  /\ to \in AllowedTargets(a.status, applicant)
  /\ to \in {"under_review", "shortlisted"} => bypass \/ ~FeeRequired \/ FeePaid
  /\ to \in {"shortlisted", "decision_pending"} => a.status # "needs_correction"
  /\ to = "converted" => Preflight(a)

(* Where DecisionService.record moves the workflow of a for decision d.    *)
DecisionTarget(a, d) ==
  IF d = "rejected" THEN IF Normalize(a.status) \in TERMINAL THEN a.status ELSE "rejected"
  ELSE IF d \notin OFFERABLE THEN a.status
  ELSE IF Normalize(a.status) = "decision_pending" THEN "completed"
  ELSE "decision_pending"

(* record() goes through: a closed application takes only a rejection, and  *)
(* a move the graph refuses rolls the decision back.                       *)
MayRecord(a, d) ==
  /\ a.status \in TERMINAL => d = "rejected"
  /\ LET to == DecisionTarget(a, d)
     IN  to = a.status \/ to \in AllowedTargets(a.status, FALSE)

(* OfferService.issue goes through; the applicant column may not be null.  *)
MayIssue(decision, a) == decision \in OFFERABLE /\ a.user /\ NoneAwaits

(* An offer found with status s may be revoked.                            *)
Revocable(s) == s # "accepted"

(* Mutant: the payment's status is written to the application.             *)
AdvanceByPayment(a, paid) ==
  IF Normalize(a.status) \in {"submitted", "payment_pending"} /\ paid THEN "successful"
  ELSE a.status

(* Where a settled or partial payment moves the workflow of a.             *)
Advance(a, paid) ==
  LET current == Normalize(a.status)
  IN  IF current \in {"submitted", "payment_pending"} /\ paid THEN "payment_confirmed"
      ELSE IF current = "submitted" THEN "payment_pending"
      ELSE a.status

(* save(update_fields=["status", ...]): the column is written only when the *)
(* in-memory row changed.                                                  *)
Moved(a, to) == IF to = a.status THEN app ELSE [app EXCEPT !.status = to]

(***************************************************************************)
(* Requests.                                                               *)
(***************************************************************************)
Init ==
  /\ app \in {NewRow("draft", TRUE), NewRow("submitted", TRUE), NewRow("pending", FALSE)}
  /\ offers = [o \in Offers |->
       [status |-> NoRow, issueDate |-> 0, expiry |-> 0]]
  /\ payments = [p \in Payments |-> NoRow]
  /\ paidAt = {} /\ acceptedAt = {}
  /\ student = FALSE /\ waived = FALSE
  /\ today = 0
  /\ pc = [w \in Workers |-> "idle"]
  /\ req = [w \in Workers |-> NoRequest]
  /\ mem = [w \in Workers |-> Blank]

Serves(w, phase, ops) == pc[w] = phase /\ req[w].op \in ops

Finish(w) ==
  /\ pc' = [pc EXCEPT ![w] = "idle"]
  /\ req' = [req EXCEPT ![w] = NoRequest]
  /\ mem' = [mem EXCEPT ![w] = Blank]
  /\ UNCHANGED today

(* get_object_or_404: the application, and the offer or payment row that   *)
(* the request is about.                                                   *)
Fetch(w, r) ==
  LET row == IF r.op \in {"accept", "decline", "revoke", "expire"}
               THEN offers[r.offer].status
             ELSE IF r.op \in {"verify", "fail", "cancel"} THEN payments[r.payment]
             ELSE NoRow
  IN  /\ pc[w] = "idle"
      /\ r.op \in {"accept", "decline", "revoke", "expire", "verify", "fail", "cancel"}
           => row # NoRow
      /\ pc' = [pc EXCEPT ![w] = "fetched"]
      /\ req' = [req EXCEPT ![w] = r]
      /\ mem' = [mem EXCEPT ![w] = [app |-> app, row |-> row]]
      /\ UNCHANGED <<rows, today>>

(* The checks of the requests that query the database after the fetch.     *)
Passes(r, a) ==
  \/ r.op = "transition" /\ CanTransition(a, r.to, r.applicant, r.bypass)
  \/ /\ r.op = "approve"
     /\ a.status \notin TERMINAL /\ MayRecord(a, "accepted") /\ MayIssue("accepted", a)
  \/ r.op = "issue" /\ MayIssue(a.decision, a)
  \/ r.op = "convert" /\ CanTransition(a, "converted", FALSE, FALSE)
  \/ /\ r.op = "initiate"
     /\ ~FeePaid /\ {} \notin Sufficient /\ \A p \in Payments : payments[p] # "pending"

Validate(w) ==
  /\ pc[w] = "fetched" /\ Passes(req[w], mem[w].app)
  /\ pc' = [pc EXCEPT ![w] = "validated"]
  /\ UNCHANGED <<rows, today, req, mem>>

(* ApplicationWorkflow.transition, from staff or from the applicant.       *)
Transition(w) ==
  /\ Serves(w, "validated", {"transition"})
  /\ app' = [app EXCEPT !.status = req[w].to]
  /\ waived' = (waived \/ (req[w].bypass /\ req[w].to \in {"under_review", "shortlisted"}))
  /\ Finish(w)
  /\ UNCHANGED <<offers, payments, paidAt, acceptedAt, student>>

(* DecisionService.record from the decision view, or from the admin's bulk  *)
(* rejection, which skips only approved and withdrawn applications.         *)
Decide(w) ==
  LET a == mem[w].app
      d == IF req[w].op = "decide" THEN req[w].decision ELSE "rejected"
  IN  /\ Serves(w, "fetched", {"decide", "bulk_reject"})
      /\ IF req[w].op = "decide" THEN a.status \notin TERMINAL
                                 ELSE a.status \notin {"approved", "withdrawn"}
      /\ MayRecord(a, d)
      /\ app' = [Moved(a, DecisionTarget(a, d)) EXCEPT !.decision = d]
      /\ Finish(w)
      /\ UNCHANGED <<offers, payments, paidAt, acceptedAt, student, waived>>

(* OfferService.issue inserts an offer, on its own or in one transaction   *)
(* with an accepted decision (application_approve).                        *)
IssueOffer(w) ==
  /\ Serves(w, "validated", {"issue", "approve"})
  /\ \E o \in Offers, e \in today..MaxDay :
       /\ offers[o].status = NoRow
       /\ offers' = [offers EXCEPT ![o] =
            [status |-> "issued", issueDate |-> today, expiry |-> e]]
  /\ app' = IF req[w].op = "issue" THEN app
            ELSE [Moved(mem[w].app, DecisionTarget(mem[w].app, "accepted"))
                    EXCEPT !.decision = "accepted"]
  /\ Finish(w)
  /\ UNCHANGED <<payments, paidAt, acceptedAt, student, waived>>

(* accept, decline, revoke and the expiry sweep judge the fetched offer.   *)
Respond(w) ==
  LET o   == req[w].offer
      old == mem[w].row
      set(s) == offers' = [offers EXCEPT ![o].status = s]
  IN  /\ Serves(w, "fetched", {"accept", "decline", "revoke", "expire"})
      /\ \/ req[w].op = "accept" /\ old = "issued" /\ ~Overdue(o)
            /\ set("accepted") /\ acceptedAt' = acceptedAt \cup {o}
         \/ /\ \/ req[w].op \in {"accept", "expire"} /\ old = "issued" /\ Overdue(o)
                 /\ set("expired")
               \/ req[w].op = "decline" /\ old = "issued" /\ set("declined")
               \/ req[w].op = "revoke" /\ Revocable(old) /\ set("revoked")
            /\ UNCHANGED acceptedAt
      /\ Finish(w)
      /\ UNCHANGED <<app, payments, paidAt, student, waived>>

(* StudentConversionService.convert: one transaction.                      *)
Convert(w) ==
  /\ Serves(w, "validated", {"convert"})
  /\ student' = TRUE
  /\ app' = [app EXCEPT !.status = "converted", !.converted_at = "set", !.user = TRUE]
  /\ Finish(w)
  /\ UNCHANGED <<offers, payments, paidAt, acceptedAt, waived>>

(* applicant_application_edit saves the whole in-memory row.               *)
Edit(w) ==
  /\ Serves(w, "fetched", {"edit"})
  /\ mem[w].app.status \in APPLICANT_EDITABLE
  /\ app' = mem[w].app
  /\ Finish(w)
  /\ UNCHANGED <<offers, payments, paidAt, acceptedAt, student, waived>>

(* PaymentService.initiate, and the view that records a payment and then    *)
(* confirms it with the application it fetched first.                       *)
CreatePayment(w) ==
  \E p \in Payments :
    /\ payments[p] = NoRow
    /\ payments' = [payments EXCEPT ![p] = "pending"]
    /\ \/ Serves(w, "validated", {"initiate"}) /\ Finish(w)
       \/ /\ Serves(w, "fetched", {"record"})
          /\ pc' = [pc EXCEPT ![w] = "validated"]
          /\ req' = [req EXCEPT ![w] = [op |-> "confirm", payment |-> p]]
          /\ UNCHANGED <<mem, today>>
    /\ UNCHANGED <<app, offers, paidAt, acceptedAt, student, waived>>

(* The provider vouches for a payment; confirm() loads its application.    *)
ProviderConfirms(w) ==
  /\ Serves(w, "fetched", {"verify"}) /\ mem[w].row # "successful"
  /\ pc' = [pc EXCEPT ![w] = "validated"]
  /\ mem' = [mem EXCEPT ![w].app = app]
  /\ UNCHANGED <<rows, today, req>>

(* PaymentService.confirm and _advance_after_payment: one transaction.     *)
ConfirmPayment(w) ==
  LET p == req[w].payment
      a == mem[w].app
  IN  /\ Serves(w, "validated", {"confirm", "verify"})
      /\ payments' = [payments EXCEPT ![p] = "successful"]
      /\ paidAt' = paidAt \cup {p}
      /\ app' = Moved(a, Advance(a, Successful \cup {p} \in Sufficient))
      /\ Finish(w)
      /\ UNCHANGED <<offers, acceptedAt, student, waived>>

(* The provider does not vouch for a payment, or the service fails or       *)
(* cancels it.                                                              *)
DropPayment(w) ==
  /\ Serves(w, "fetched", {"verify", "fail", "cancel"})
  /\ req[w].op # "fail" => mem[w].row # "successful"
  /\ payments' = [payments EXCEPT ![req[w].payment] =
       IF req[w].op = "cancel" THEN "cancelled" ELSE "failed"]
  /\ Finish(w)
  /\ UNCHANGED <<app, offers, paidAt, acceptedAt, student, waived>>

(* Refused with an error message, or the worker died.                      *)
Abandon(w) == pc[w] # "idle" /\ Finish(w) /\ UNCHANGED rows

NewDay == today < MaxDay /\ today' = today + 1 /\ UNCHANGED <<rows, pc, req, mem>>

Step(w) ==
  \/ \E r \in Requests : Fetch(w, r)
  \/ Validate(w) \/ Transition(w) \/ Decide(w) \/ IssueOffer(w) \/ Respond(w)
  \/ Convert(w) \/ Edit(w) \/ CreatePayment(w) \/ ProviderConfirms(w)
  \/ ConfirmPayment(w) \/ DropPayment(w) \/ Abandon(w)

Next == NewDay \/ \E w \in Workers : Step(w)

Spec == Init /\ [][Next]_vars

(***************************************************************************)
(* Properties.                                                             *)
(***************************************************************************)
(* Every row and every in-memory copy keeps its type.                      *)
TypeOK ==
  /\ app \in Rows
  /\ offers \in [Offers -> OfferRows]
  /\ payments \in [Payments -> PaymentStatus \cup {NoRow}]
  /\ paidAt \in SUBSET Payments /\ acceptedAt \in SUBSET Offers
  /\ student \in BOOLEAN /\ waived \in BOOLEAN
  /\ today \in 0..MaxDay
  /\ pc \in [Workers -> {"idle", "fetched", "validated"}]
  /\ req \in [Workers -> AllRequests \cup Confirmations \cup {NoRequest}]
  /\ mem \in [Workers -> Memory]

Reviewed == {"under_review", "shortlisted", "interview_required", "interview_completed"}
Settled == waived \/ ~FeeRequired \/ paidAt \in Sufficient

(* The payment gate, under any interleaving: an application stands in a    *)
(* review stage only if its fee was once verified in full, or staff waived *)
(* it.  (Interview stages are ungated; the graph must not lead to them     *)
(* around the gate.)                                                       *)
ReviewedOnlyIfSettled == Normalize(app.status) \in Reviewed => Settled

is_converted == app.converted_at = "set" \/ app.status = "converted"

(* An offer is the only route to a student record, under any interleaving: *)
(* a student exists, and an application counts as converted, only if some  *)
(* offer was accepted by its applicant, and converted_at is set only where *)
(* there is a student.  (No more than that: the transition view stores the *)
(* status CONVERTED of an application that has no student.)                *)
StudentOnlyByOffer ==
  /\ student \/ is_converted => acceptedAt # {}
  /\ app.converted_at = "set" => student

Commits(w) == pc[w] # "idle" /\ pc'[w] = "idle"

(* "Statuses that close an application for good": no request, however late *)
(* or repeated, moves an application out of a terminal status.  The code   *)
(* does not keep this: a move that was validated before may be stored.     *)
ClosedForGood == [][app.status \in TERMINAL => app'.status = app.status]_vars

(* What it does keep: a closed application is reopened only by a request   *)
(* that had fetched it before it was closed.  No request that finds it     *)
(* closed reopens it, whatever the decisions, offers and payments.         *)
ReopenedOnlyByStale ==
  [][app.status \in TERMINAL /\ app'.status # app.status =>
       \E w \in Workers : Commits(w) /\ mem[w].app.status \notin TERMINAL]_vars

(***************************************************************************)
(* The inductive strengthenings of the two concurrent invariants: what the *)
(* requests in flight have read and are about to write.                    *)
(***************************************************************************)
(* No row, no copy of a row and no validated move is in a review stage     *)
(* before the fee is settled or about to be waived.                        *)
FeeInv ==
  /\ Successful \subseteq paidAt
  /\ ReviewedOnlyIfSettled
  /\ \A w \in Workers :
       /\ Normalize(mem[w].app.status) \in Reviewed => Settled
       /\ (Serves(w, "validated", {"transition"}) /\ req[w].to \in Reviewed)
            => Settled \/ (req[w].bypass /\ req[w].to \in {"under_review", "shortlisted"})

(* A validated conversion and a stored or copied conversion mark rest on an *)
(* acceptance, and an acceptance is never unrecorded.                       *)
OfferInv ==
  /\ Accepted \subseteq acceptedAt
  /\ StudentOnlyByOffer
  /\ \A w \in Workers :
       /\ mem[w].app.converted_at = "set" => student
       /\ Serves(w, "validated", {"convert"}) => acceptedAt # {}
       /\ Serves(w, "validated", {"transition"}) /\ req[w].to = "converted" => acceptedAt # {}

(* A validated move is one of an application that was open when fetched.   *)
OpenInv ==
  \A w \in Workers :
    Serves(w, "validated", {"transition", "approve", "convert"})
      => mem[w].app.status \notin TERMINAL
=============================================================================
