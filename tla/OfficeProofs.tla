---------------------------- MODULE OfficeProofs ----------------------------
(***************************************************************************)
(* Theorems about Admissions for any number of workers, offers, payments   *)
(* and days and any set of requests, and about the other desks of MCOffice *)
(* (intake, documents, accounts and notifications), for any number of      *)
(* cycles, types, applications, versions, users, recipients, channels and  *)
(* workers.  The desk that works is fixed in the initial state; each has   *)
(* an invariant of its own.                                                *)
(***************************************************************************)
EXTENDS MCOffice, Sequences, SumTheorems

(***************************************************************************)
(* Admissions.                                                             *)
(***************************************************************************)
(* The sixteen current statuses.                                           *)
LEMMA WorkflowValues ==
  Workflow = {"draft", "submitted", "payment_pending", "payment_confirmed",
              "under_review", "needs_correction", "resubmitted", "shortlisted",
              "interview_required", "interview_completed", "decision_pending",
              "completed", "waitlist", "rejected", "withdrawn", "converted"}
BY DEF Workflow, TRANSITIONS

(* Every stored status normalises to a current one.                        *)
LEMMA NormalizeType == \A s \in Status : Normalize(s) \in Workflow
BY WorkflowValues DEF Status, Legacy, LEGACY_ALIASES, Normalize

(* The interview stages are entered from review stages only, and every     *)
(* edge leads to a current status.                                         *)
LEMMA Edges ==
  ASSUME NEW s \in Workflow, NEW t \in TRANSITIONS[s]
  PROVE  /\ t \in Workflow
         /\ t \in {"interview_required", "interview_completed"} => s \in Reviewed
BY WorkflowValues DEF TRANSITIONS, Reviewed

(* The services compute statuses of the vocabulary.                        *)
LEMMA TargetTypes ==
  ASSUME NEW a \in Rows
  PROVE  /\ \A d \in Decisions : DecisionTarget(a, d) \in Status
         /\ \A b \in BOOLEAN : Advance(a, b) \in Status
         /\ app \in Rows => \A s \in Status : Moved(a, s) \in Rows
BY WorkflowValues DEF Rows, Status, DecisionTarget, Advance, Moved

(* What a request of each kind carries.                                    *)
LEMMA RequestFields ==
  ASSUME NEW r \in AllRequests \cup Confirmations \cup {NoRequest}
  PROVE  /\ r.op = "transition" => r.to \in Workflow /\ r.bypass \in BOOLEAN
         /\ r.op = "decide" => r.decision \in Decisions
         /\ r.op \in {"accept", "decline", "revoke", "expire"} => r.offer \in Offers
         /\ r.op \in {"verify", "fail", "cancel", "confirm"} => r.payment \in Payments
<1>1. CASE r \in StaffMoves
  BY <1>1 DEF StaffMoves
<1>2. CASE r \in ApplicantMoves
  BY <1>2, WorkflowValues DEF ApplicantMoves
<1>3. CASE r \in DecisionRequests
  BY <1>3 DEF DecisionRequests
<1>4. CASE r \in PlainRequests
  BY <1>4 DEF PlainRequests
<1>5. CASE r \in OfferRequests
  BY <1>5 DEF OfferRequests
<1>6. CASE r \in PaymentRequests \cup Confirmations
  BY <1>6 DEF PaymentRequests, Confirmations
<1>7. CASE r = NoRequest
  BY <1>7 DEF NoRequest
<1>8. QED BY <1>1, <1>2, <1>3, <1>4, <1>5, <1>6, <1>7 DEF AllRequests

(* A finished request leaves a well-typed worker behind.                   *)
LEMMA FinishType ==
  ASSUME TypeOK, NEW w \in Workers, Finish(w)
  PROVE  /\ today' \in 0..MaxDay
         /\ pc' \in [Workers -> {"idle", "fetched", "validated"}]
         /\ req' \in [Workers -> AllRequests \cup Confirmations \cup {NoRequest}]
         /\ mem' \in [Workers -> Memory]
<1>1. Blank \in Memory
  BY WorkflowValues DEF Blank, NewRow, Memory, Rows, Status, Decisions
<1> QED BY <1>1 DEF TypeOK, Finish

(* The initial state is well typed.                                        *)
LEMMA TypeInit == Init => TypeOK
<1> SUFFICES ASSUME Init PROVE TypeOK OBVIOUS
<1>1. app \in Rows
  <2>1. {"draft", "submitted", "pending"} \subseteq Status
    BY WorkflowValues DEF Status, Legacy, LEGACY_ALIASES
  <2>2. \A s \in Status, u \in BOOLEAN : NewRow(s, u) \in Rows
    BY DEF NewRow, Rows, Decisions
  <2>3. QED BY <2>1, <2>2 DEF Init
<1>2. offers \in [Offers -> OfferRows]
  BY MaxDayAssumption DEF Init, OfferRows
<1>3. Blank \in Memory
  BY WorkflowValues DEF Blank, NewRow, Memory, Rows, Status, Decisions
<1>4. 0 \in 0..MaxDay
  BY MaxDayAssumption
<1>5. /\ payments \in [Payments -> PaymentStatus \cup {NoRow}]
      /\ paidAt \in SUBSET Payments /\ acceptedAt \in SUBSET Offers
      /\ student \in BOOLEAN /\ waived \in BOOLEAN
      /\ today \in 0..MaxDay
  BY <1>4 DEF Init
<1>6. /\ pc \in [Workers -> {"idle", "fetched", "validated"}]
      /\ req \in [Workers -> AllRequests \cup Confirmations \cup {NoRequest}]
      /\ mem \in [Workers -> Memory]
  BY <1>3 DEF Init
<1>7. QED BY <1>1, <1>2, <1>5, <1>6 DEF TypeOK

(* Every step keeps the types.                                             *)
LEMMA TypeNext == TypeOK /\ [Next]_vars => TypeOK'
<1> SUFFICES ASSUME TypeOK, [Next]_vars PROVE TypeOK'
  OBVIOUS
<1>1. ASSUME NEW w \in Workers, NEW r \in Requests, Fetch(w, r) PROVE TypeOK'
  <2>1. r \in AllRequests /\ r \in AllRequests \cup Confirmations \cup {NoRequest}
    BY RequestsAssumption
  <2>2. mem' \in [Workers -> Memory]
    BY <1>1, <2>1, RequestFields DEF Fetch, TypeOK, Memory, OfferRows
  <2>3. QED BY <1>1, <2>1, <2>2 DEF Fetch, TypeOK, rows
<1>2. ASSUME NEW w \in Workers, Validate(w) PROVE TypeOK'
  BY <1>2 DEF Validate, TypeOK, rows
<1>3. ASSUME NEW w \in Workers, Transition(w) PROVE TypeOK'
  <2>1. req[w].to \in Status /\ req[w].bypass \in BOOLEAN
    BY <1>3, RequestFields DEF Transition, Serves, TypeOK, Status
  <2>2. app' \in Rows
    BY <1>3, <2>1 DEF Transition, TypeOK, Rows
  <2>3. QED BY <1>3, <2>1, <2>2, FinishType DEF Transition, TypeOK
<1>4. ASSUME NEW w \in Workers, Decide(w) PROVE TypeOK'
  <2> DEFINE a == mem[w].app
             d == IF req[w].op = "decide" THEN req[w].decision ELSE "rejected"
  <2>1. a \in Rows /\ d \in Decisions
    BY <1>4, RequestFields DEF Decide, Serves, TypeOK, Memory, Decisions
  <2>2. Moved(a, DecisionTarget(a, d)) \in Rows
    BY <2>1, TargetTypes DEF TypeOK
  <2>3. app' \in Rows
    BY <1>4, <2>1, <2>2 DEF Decide, Rows
  <2>4. QED BY <1>4, <2>3, FinishType DEF Decide, TypeOK
<1>5. ASSUME NEW w \in Workers, IssueOffer(w) PROVE TypeOK'
  <2>1. "accepted" \in Decisions /\ mem[w].app \in Rows
    BY <1>5 DEF TypeOK, Memory, Decisions
  <2>2. Moved(mem[w].app, DecisionTarget(mem[w].app, "accepted")) \in Rows
    BY <2>1, TargetTypes DEF TypeOK
  <2>3. app' \in Rows
    BY <1>5, <2>1, <2>2 DEF IssueOffer, TypeOK, Rows
  <2>4. \A e \in today..MaxDay : e \in 0..MaxDay
    BY MaxDayAssumption DEF TypeOK
  <2>5. offers' \in [Offers -> OfferRows]
    BY <1>5, <2>4 DEF IssueOffer, TypeOK, OfferRows, OfferStatus
  <2>6. QED BY <1>5, <2>3, <2>5, FinishType DEF IssueOffer, TypeOK
<1>6. ASSUME NEW w \in Workers, Respond(w) PROVE TypeOK'
  <2>1. offers' \in [Offers -> OfferRows] /\ acceptedAt' \in SUBSET Offers
    BY <1>6, RequestFields DEF Respond, Serves, TypeOK, OfferRows, OfferStatus
  <2>2. QED BY <1>6, <2>1, FinishType DEF Respond, TypeOK
<1>7. ASSUME NEW w \in Workers, Convert(w) PROVE TypeOK'
  <2>1. app' \in Rows
    BY <1>7, WorkflowValues DEF Convert, TypeOK, Rows, Status
  <2>2. QED BY <1>7, <2>1, FinishType DEF Convert, TypeOK
<1>8. ASSUME NEW w \in Workers, Edit(w) PROVE TypeOK'
  <2>1. app' \in Rows
    BY <1>8 DEF Edit, TypeOK, Memory
  <2>2. QED BY <1>8, <2>1, FinishType DEF Edit, TypeOK
<1>9. ASSUME NEW w \in Workers, CreatePayment(w) PROVE TypeOK'
  <2>1. PICK p \in Payments :
          /\ payments' = [payments EXCEPT ![p] = "pending"]
          /\ \/ Finish(w)
             \/ /\ pc' = [pc EXCEPT ![w] = "validated"]
                /\ req' = [req EXCEPT ![w] = [op |-> "confirm", payment |-> p]]
                /\ UNCHANGED <<mem, today>>
          /\ UNCHANGED <<app, offers, paidAt, acceptedAt, student, waived>>
    BY <1>9 DEF CreatePayment
  <2>2. payments' \in [Payments -> PaymentStatus \cup {NoRow}]
    BY <2>1 DEF TypeOK, PaymentStatus
  <2>3. [op |-> "confirm", payment |-> p] \in Confirmations
    BY DEF Confirmations
  <2>4. CASE Finish(w)
    BY <2>1, <2>2, <2>4, FinishType DEF TypeOK
  <2>5. CASE ~Finish(w)
    BY <2>1, <2>2, <2>3, <2>5 DEF TypeOK
  <2>6. QED BY <2>4, <2>5
<1>10. ASSUME NEW w \in Workers, ProviderConfirms(w) PROVE TypeOK'
  <2>1. mem' \in [Workers -> Memory]
    BY <1>10 DEF ProviderConfirms, TypeOK, Memory
  <2>2. QED BY <1>10, <2>1 DEF ProviderConfirms, TypeOK, rows
<1>11. ASSUME NEW w \in Workers, ConfirmPayment(w) PROVE TypeOK'
  <2>1. mem[w].app \in Rows /\ req[w].payment \in Payments
    BY <1>11, RequestFields DEF ConfirmPayment, Serves, TypeOK, Memory
  <2> DEFINE paid == Successful \cup {req[w].payment} \in Sufficient
  <2>a. paid \in BOOLEAN
    OBVIOUS
  <2>b. Advance(mem[w].app, paid) \in Status
    BY <2>1, <2>a, TargetTypes
  <2>2. app' \in Rows
    <3>1. Moved(mem[w].app, Advance(mem[w].app, paid)) \in Rows
      BY <2>1, <2>b, TargetTypes DEF TypeOK
    <3>2. QED BY <1>11, <3>1 DEF ConfirmPayment
  <2>3. payments' \in [Payments -> PaymentStatus \cup {NoRow}] /\ paidAt' \in SUBSET Payments
    BY <1>11, <2>1 DEF ConfirmPayment, TypeOK, PaymentStatus
  <2>4. QED BY <1>11, <2>2, <2>3, FinishType DEF ConfirmPayment, TypeOK
<1>12. ASSUME NEW w \in Workers, DropPayment(w) PROVE TypeOK'
  <2>1. payments' \in [Payments -> PaymentStatus \cup {NoRow}]
    BY <1>12 DEF DropPayment, TypeOK, PaymentStatus
  <2>2. QED BY <1>12, <2>1, FinishType DEF DropPayment, TypeOK
<1>13. ASSUME NEW w \in Workers, Abandon(w) PROVE TypeOK'
  BY <1>13, FinishType DEF Abandon, TypeOK, rows
<1>14. CASE NewDay
  <2>1. today' \in 0..MaxDay
    BY <1>14, MaxDayAssumption DEF NewDay, TypeOK
  <2>2. QED BY <1>14, <2>1 DEF NewDay, TypeOK, rows
<1>15. CASE UNCHANGED vars
  BY <1>15 DEF vars, rows, TypeOK
<1>16. QED
  BY <1>1, <1>2, <1>3, <1>4, <1>5, <1>6, <1>7, <1>8, <1>9, <1>10, <1>11, <1>12,
     <1>13, <1>14, <1>15 DEF Next, Step

(* Rows and in-memory copies keep their types: TypeOK of Admissions.       *)
THEOREM TypeCorrect == Spec => []TypeOK
BY TypeInit, TypeNext, PTL DEF Spec

-----------------------------------------------------------------------------
(* The payment gate.                                                       *)

(* Once settled, the fee stays settled while payments keep their paid_at.  *)
LEMMA SettledStays ==
  ASSUME Settled, paidAt \subseteq paidAt', paidAt' \in SUBSET Payments,
         waived => waived'
  PROVE  Settled'
BY FeeAssumption DEF Settled

(* A finished request holds nothing that is in a review stage.             *)
LEMMA FinishFee ==
  ASSUME TypeOK, FeeInv, Settled => Settled', NEW w \in Workers, Finish(w)
  PROVE  \A v \in Workers :
           /\ Normalize(mem'[v].app.status) \in Reviewed => Settled'
           /\ (Serves(v, "validated", {"transition"})' /\ req'[v].to \in Reviewed)
                => \/ Settled'
                   \/ req'[v].bypass /\ req'[v].to \in {"under_review", "shortlisted"}
<1>1. Normalize(Blank.app.status) \notin Reviewed
  BY DEF Blank, NewRow, Normalize, Legacy, LEGACY_ALIASES, Reviewed
<1>2. QED BY <1>1 DEF Finish, FeeInv, Serves, TypeOK

(* Decisions and payments never move an application into a review stage.   *)
LEMMA TargetsNotReviewed ==
  ASSUME TypeOK, FeeInv, NEW w \in Workers
  PROVE  LET a == mem[w].app
         IN  /\ \A d \in Decisions :
                   Normalize(Moved(a, DecisionTarget(a, d)).status) \in Reviewed => Settled
             /\ \A b \in BOOLEAN :
                   Normalize(Moved(a, Advance(a, b)).status) \in Reviewed => Settled
<1> DEFINE a == mem[w].app
<1>1. \A s : s # a.status /\ s \in {"rejected", "completed", "decision_pending",
                                   "payment_confirmed", "payment_pending"}
        => Normalize(Moved(a, s).status) \notin Reviewed
  BY DEF Moved, Normalize, Legacy, LEGACY_ALIASES, Reviewed, TypeOK, Rows
<1>2. \A s : s = a.status => (Normalize(Moved(a, s).status) \in Reviewed => Settled)
  BY DEF Moved, FeeInv, ReviewedOnlyIfSettled
<1>3. \A d \in Decisions : \/ DecisionTarget(a, d) = a.status
                          \/ DecisionTarget(a, d) \in {"rejected", "completed",
                                                      "decision_pending"}
  BY DEF DecisionTarget
<1>4. \A b \in BOOLEAN : \/ Advance(a, b) = a.status
                        \/ Advance(a, b) \in {"payment_confirmed", "payment_pending"}
  BY DEF Advance
<1>5. QED BY <1>1, <1>2, <1>3, <1>4

LEMMA FeeInit == Init => FeeInv
<1> SUFFICES ASSUME Init PROVE FeeInv OBVIOUS
<1>1. Normalize(app.status) \notin Reviewed
  BY DEF Init, NewRow, Normalize, Legacy, LEGACY_ALIASES, Reviewed
<1>2. Normalize(Blank.app.status) \notin Reviewed
  BY DEF Blank, NewRow, Normalize, Legacy, LEGACY_ALIASES, Reviewed
<1>3. Successful = {}
  BY DEF Init, Successful, NoRow
<1>4. QED BY <1>1, <1>2, <1>3 DEF Init, FeeInv, ReviewedOnlyIfSettled, Serves

(* A validated move into a review stage comes from another review stage or *)
(* has passed the gate.                                                    *)
LEMMA GateHolds ==
  ASSUME TypeOK, FeeInv, NEW w \in Workers, Validate(w), req[w].op = "transition",
         req[w].to \in Reviewed
  PROVE  Settled \/ (req[w].bypass /\ req[w].to \in {"under_review", "shortlisted"})
<1> DEFINE a == mem[w].app
<1>1. CanTransition(a, req[w].to, req[w].applicant, req[w].bypass)
  BY DEF Validate, Passes
<1>2. CASE req[w].to \in {"under_review", "shortlisted"}
  <2>1. FeePaid => Settled
    BY FeeAssumption DEF FeePaid, Settled, FeeInv, TypeOK
  <2>2. QED BY <1>1, <1>2, <2>1 DEF CanTransition, Settled
<1>3. CASE req[w].to \in {"interview_required", "interview_completed"}
  <2>1. Normalize(a.status) \in Workflow
    BY NormalizeType DEF TypeOK, Memory, Rows
  <2>2. req[w].to \in TRANSITIONS[Normalize(a.status)]
    BY <1>1 DEF CanTransition, AllowedTargets
  <2>3. QED BY <1>3, <2>1, <2>2, Edges DEF FeeInv
<1>4. QED BY <1>2, <1>3 DEF Reviewed

LEMMA FeeNext == TypeOK /\ TypeOK' /\ FeeInv /\ [Next]_vars => FeeInv'
<1> SUFFICES ASSUME TypeOK, TypeOK', FeeInv, [Next]_vars PROVE FeeInv'
  OBVIOUS
<1>a. paidAt' \in SUBSET Payments
  BY DEF TypeOK
<1>1. ASSUME NEW w \in Workers, NEW r \in Requests, Fetch(w, r) PROVE FeeInv'
  BY <1>1 DEF Fetch, FeeInv, ReviewedOnlyIfSettled, Settled, Serves, Successful, rows, TypeOK
<1>2. ASSUME NEW w \in Workers, Validate(w) PROVE FeeInv'
  <2>1. UNCHANGED <<rows, req, mem>> /\ pc' = [pc EXCEPT ![w] = "validated"]
    BY <1>2 DEF Validate
  <2>2. ASSUME NEW v \in Workers, Serves(v, "validated", {"transition"})',
               req'[v].to \in Reviewed
        PROVE  Settled \/ (req[v].bypass /\ req[v].to \in {"under_review", "shortlisted"})
    <3>1. CASE v = w
      BY <1>2, <2>1, <2>2, <3>1, GateHolds DEF Serves
    <3>2. CASE v # w
      BY <2>1, <2>2, <3>2 DEF FeeInv, Serves, TypeOK
    <3>3. QED BY <3>1, <3>2
  <2>3. QED BY <2>1, <2>2 DEF FeeInv, ReviewedOnlyIfSettled, Settled, Successful, rows
<1>3. ASSUME NEW w \in Workers, Transition(w) PROVE FeeInv'
  <2>1. /\ UNCHANGED <<payments, paidAt>> /\ Finish(w)
        /\ waived' = (waived \/ (req[w].bypass /\ req[w].to \in {"under_review", "shortlisted"}))
        /\ app' = [app EXCEPT !.status = req[w].to]
        /\ Serves(w, "validated", {"transition"})
    BY <1>3 DEF Transition
  <2>2. Settled => Settled'
    BY <1>a, <2>1, SettledStays
  <2>3. req[w].to \in Workflow
    BY <2>1, RequestFields DEF Serves, TypeOK
  <2>4. Normalize(req[w].to) = req[w].to
    BY <2>3, WorkflowValues DEF Normalize, Legacy, LEGACY_ALIASES
  <2>5. ReviewedOnlyIfSettled'
    BY <2>1, <2>2, <2>4 DEF FeeInv, ReviewedOnlyIfSettled, Settled, TypeOK, Rows
  <2>6. QED BY <2>1, <2>2, <2>5, FinishFee DEF FeeInv, Successful
<1>4. ASSUME NEW w \in Workers, Decide(w) PROVE FeeInv'
  <2> DEFINE a == mem[w].app
             d == IF req[w].op = "decide" THEN req[w].decision ELSE "rejected"
  <2>1. /\ UNCHANGED <<payments, paidAt, waived>> /\ Finish(w)
        /\ app' = [Moved(a, DecisionTarget(a, d)) EXCEPT !.decision = d]
    BY <1>4 DEF Decide
  <2>2. a \in Rows /\ d \in Decisions
    BY <1>4, RequestFields DEF Decide, Serves, TypeOK, Memory, Decisions
  <2>3. Moved(a, DecisionTarget(a, d)) \in Rows
    BY <2>2, TargetTypes DEF TypeOK
  <2>4. app'.status = Moved(a, DecisionTarget(a, d)).status
    BY <2>1, <2>3 DEF Rows
  <2>5. ReviewedOnlyIfSettled'
    BY <2>1, <2>2, <2>4, TargetsNotReviewed DEF ReviewedOnlyIfSettled, Settled
  <2>6. QED BY <2>1, <2>5, FinishFee DEF FeeInv, Successful, Settled
<1>5. ASSUME NEW w \in Workers, IssueOffer(w) PROVE FeeInv'
  <2> DEFINE a == mem[w].app
  <2>1. /\ UNCHANGED <<payments, paidAt, waived>> /\ Finish(w)
        /\ app' = IF req[w].op = "issue" THEN app
                  ELSE [Moved(a, DecisionTarget(a, "accepted")) EXCEPT !.decision = "accepted"]
    BY <1>5 DEF IssueOffer
  <2>2. a \in Rows /\ "accepted" \in Decisions
    BY DEF TypeOK, Memory, Decisions
  <2>3. Moved(a, DecisionTarget(a, "accepted")) \in Rows
    BY <2>2, TargetTypes DEF TypeOK
  <2>4. \/ app'.status = app.status
        \/ app'.status = Moved(a, DecisionTarget(a, "accepted")).status
    BY <2>1, <2>3 DEF Rows
  <2>5. ReviewedOnlyIfSettled'
    BY <2>1, <2>2, <2>4, TargetsNotReviewed DEF ReviewedOnlyIfSettled, Settled, FeeInv
  <2>6. QED BY <2>1, <2>5, FinishFee DEF FeeInv, Successful, Settled
<1>6. ASSUME NEW w \in Workers, Respond(w) PROVE FeeInv'
  BY <1>6, FinishFee DEF Respond, FeeInv, ReviewedOnlyIfSettled, Settled, Successful
<1>7. ASSUME NEW w \in Workers, Convert(w) PROVE FeeInv'
  <2>1. app'.status = "converted" /\ Finish(w) /\ UNCHANGED <<payments, paidAt, waived>>
    BY <1>7 DEF Convert, TypeOK, Rows
  <2>2. Normalize("converted") \notin Reviewed
    BY DEF Normalize, Legacy, LEGACY_ALIASES, Reviewed
  <2>3. QED BY <2>1, <2>2, FinishFee DEF FeeInv, ReviewedOnlyIfSettled, Settled, Successful
<1>8. ASSUME NEW w \in Workers, Edit(w) PROVE FeeInv'
  BY <1>8, FinishFee DEF Edit, FeeInv, ReviewedOnlyIfSettled, Settled, Successful
<1>9. ASSUME NEW w \in Workers, CreatePayment(w) PROVE FeeInv'
  <2>1. PICK p \in Payments :
          /\ payments' = [payments EXCEPT ![p] = "pending"]
          /\ \/ Finish(w)
             \/ /\ pc' = [pc EXCEPT ![w] = "validated"]
                /\ req' = [req EXCEPT ![w] = [op |-> "confirm", payment |-> p]]
                /\ UNCHANGED <<mem, today>>
          /\ UNCHANGED <<app, offers, paidAt, acceptedAt, student, waived>>
    BY <1>9 DEF CreatePayment
  <2>2. Successful' \subseteq paidAt' /\ ReviewedOnlyIfSettled'
    BY <2>1 DEF FeeInv, ReviewedOnlyIfSettled, Settled, Successful, TypeOK
  <2>3. CASE Finish(w)
    BY <2>1, <2>2, <2>3, FinishFee DEF FeeInv, Settled
  <2>4. CASE ~Finish(w)
    BY <2>1, <2>2, <2>4 DEF FeeInv, Settled, Serves, TypeOK
  <2>5. QED BY <2>3, <2>4
<1>10. ASSUME NEW w \in Workers, ProviderConfirms(w) PROVE FeeInv'
  BY <1>10 DEF ProviderConfirms, FeeInv, ReviewedOnlyIfSettled, Settled, Serves,
               Successful, rows, TypeOK, Memory
<1>11. ASSUME NEW w \in Workers, ConfirmPayment(w) PROVE FeeInv'
  <2> DEFINE a == mem[w].app
             paid == Successful \cup {req[w].payment} \in Sufficient
  <2>1. /\ payments' = [payments EXCEPT ![req[w].payment] = "successful"]
        /\ paidAt' = paidAt \cup {req[w].payment}
        /\ waived' = waived /\ Finish(w)
        /\ app' = Moved(a, Advance(a, paid))
    BY <1>11 DEF ConfirmPayment
  <2>2. Settled => Settled'
    BY <1>a, <2>1, SettledStays
  <2>3. paid \in BOOLEAN
    OBVIOUS
  <2>4. Normalize(app'.status) \in Reviewed => Settled
    BY <2>1, <2>3, TargetsNotReviewed
  <2>5. Successful' \subseteq paidAt'
    BY <2>1 DEF FeeInv, Successful, TypeOK
  <2>6. QED BY <2>1, <2>2, <2>4, <2>5, FinishFee DEF FeeInv, ReviewedOnlyIfSettled
<1>12. ASSUME NEW w \in Workers, DropPayment(w) PROVE FeeInv'
  <2>1. Successful' \subseteq Successful
    BY <1>12 DEF DropPayment, Successful, TypeOK
  <2>2. QED BY <1>12, <2>1, FinishFee DEF DropPayment, FeeInv, ReviewedOnlyIfSettled, Settled
<1>13. ASSUME NEW w \in Workers, Abandon(w) PROVE FeeInv'
  BY <1>13, FinishFee DEF Abandon, rows, FeeInv, ReviewedOnlyIfSettled, Settled, Successful
<1>14. CASE NewDay
  BY <1>14 DEF NewDay, rows, FeeInv, ReviewedOnlyIfSettled, Settled, Serves, Successful
<1>15. CASE UNCHANGED vars
  BY <1>15 DEF vars, rows, FeeInv, ReviewedOnlyIfSettled, Settled, Serves, Successful
<1>16. QED
  BY <1>1, <1>2, <1>3, <1>4, <1>5, <1>6, <1>7, <1>8, <1>9, <1>10, <1>11, <1>12,
     <1>13, <1>14, <1>15 DEF Next, Step

(* ReviewedOnlyIfSettled of Admissions: however requests interleave, no     *)
(* application stands in a review stage before its fee was settled in full  *)
(* or waived by staff (the gate of portal/workflow.py).                     *)
THEOREM PaymentGate == Spec => []ReviewedOnlyIfSettled
<1>1. Init => FeeInv
  BY FeeInit
<1>2. TypeOK /\ TypeOK' /\ FeeInv /\ [Next]_vars => FeeInv'
  BY FeeNext
<1>3. FeeInv => ReviewedOnlyIfSettled
  BY DEF FeeInv
<1>4. QED BY <1>1, <1>2, <1>3, TypeCorrect, PTL DEF Spec

-----------------------------------------------------------------------------
(* The route to a student record.                                          *)

(* A finished request holds neither a conversion mark nor a conversion.    *)
LEMMA FinishOffer ==
  ASSUME TypeOK, OfferInv, NEW w \in Workers, Finish(w),
         acceptedAt \subseteq acceptedAt', student => student'
  PROVE  \A v \in Workers :
           /\ mem'[v].app.converted_at = "set" => student'
           /\ Serves(v, "validated", {"convert"})' => acceptedAt' # {}
           /\ Serves(v, "validated", {"transition"})' /\ req'[v].to = "converted"
                => acceptedAt' # {}
<1>1. Blank.app.converted_at # "set"
  BY DEF Blank, NewRow
<1>2. QED BY <1>1 DEF Finish, OfferInv, Serves, TypeOK

(* What decisions and payments write leaves the conversion mark alone and   *)
(* does not make an application CONVERTED.                                 *)
LEMMA MovedKeepsMark ==
  ASSUME TypeOK, NEW a \in Rows
  PROVE  /\ \A d \in Decisions :
              LET row == Moved(a, DecisionTarget(a, d))
              IN  /\ row \in Rows /\ row.converted_at = app.converted_at
                  /\ row.status = "converted" => app.status = "converted"
         /\ \A b \in BOOLEAN :
              LET row == Moved(a, Advance(a, b))
              IN  /\ row \in Rows /\ row.converted_at = app.converted_at
                  /\ row.status = "converted" => app.status = "converted"
<1>1. \A d \in Decisions : DecisionTarget(a, d) \in {a.status, "rejected", "completed", "decision_pending"}
  BY DEF DecisionTarget
<1>2. \A b \in BOOLEAN : Advance(a, b) \in {a.status, "payment_confirmed", "payment_pending"}
  BY DEF Advance
<1>3. ASSUME NEW s \in Status, s = a.status \/ s # "converted"
      PROVE  /\ Moved(a, s) \in Rows /\ Moved(a, s).converted_at = app.converted_at
             /\ Moved(a, s).status = "converted" => app.status = "converted"
  BY <1>3 DEF Moved, TypeOK, Rows
<1>4. QED BY <1>1, <1>2, <1>3, TargetTypes

LEMMA OfferInit == Init => OfferInv
<1> SUFFICES ASSUME Init PROVE OfferInv OBVIOUS
<1>1. app.converted_at = "null" /\ app.status # "converted" /\ Blank.app.converted_at = "null"
  BY DEF Init, NewRow, Blank
<1>2. Accepted = {}
  <2>1. \A o \in Offers : offers[o].status = NoRow
    BY DEF Init
  <2>2. QED BY <2>1 DEF Accepted, NoRow
<1>3. StudentOnlyByOffer
  BY <1>1 DEF Init, StudentOnlyByOffer, is_converted
<1>4. QED BY <1>1, <1>2, <1>3 DEF Init, OfferInv, Serves

LEMMA OfferNext == TypeOK /\ OfferInv /\ [Next]_vars => OfferInv'
<1> SUFFICES ASSUME TypeOK, OfferInv, [Next]_vars PROVE OfferInv'
  OBVIOUS
<1>1. ASSUME NEW w \in Workers, NEW r \in Requests, Fetch(w, r) PROVE OfferInv'
  BY <1>1 DEF Fetch, OfferInv, StudentOnlyByOffer, is_converted, Accepted, Serves, rows, TypeOK
<1>2. ASSUME NEW w \in Workers, Validate(w) PROVE OfferInv'
  <2>1. UNCHANGED <<rows, req, mem>> /\ pc' = [pc EXCEPT ![w] = "validated"]
    BY <1>2 DEF Validate
  <2>2. req[w].op = "convert" \/ (req[w].op = "transition" /\ req[w].to = "converted")
          => acceptedAt # {}
    BY <1>2 DEF Validate, Passes, CanTransition, Preflight, OfferInv
  <2>3. QED BY <2>1, <2>2 DEF OfferInv, StudentOnlyByOffer, is_converted, Accepted, Serves, rows, TypeOK
<1>3. ASSUME NEW w \in Workers, Transition(w) PROVE OfferInv'
  <2>1. app'.converted_at = app.converted_at /\ app'.status = req[w].to
    BY <1>3 DEF Transition, TypeOK, Rows
  <2>2. QED BY <1>3, <2>1, FinishOffer DEF Transition, OfferInv, StudentOnlyByOffer, is_converted, Accepted
<1>4. ASSUME NEW w \in Workers, Decide(w) PROVE OfferInv'
  <2> DEFINE a == mem[w].app
             d == IF req[w].op = "decide" THEN req[w].decision ELSE "rejected"
  <2>1. a \in Rows /\ d \in Decisions
    BY <1>4, RequestFields DEF Decide, Serves, TypeOK, Memory, Decisions
  <2>2. /\ app'.converted_at = app.converted_at
        /\ app'.status = "converted" => app.status = "converted"
    BY <1>4, <2>1, MovedKeepsMark DEF Decide, Rows
  <2>3. QED BY <1>4, <2>2, FinishOffer DEF Decide, OfferInv, StudentOnlyByOffer, is_converted, Accepted
<1>5. ASSUME NEW w \in Workers, IssueOffer(w) PROVE OfferInv'
  <2> DEFINE a == mem[w].app
  <2>1. a \in Rows /\ "accepted" \in Decisions
    BY DEF TypeOK, Memory, Decisions
  <2>3. /\ app'.converted_at = app.converted_at
        /\ app'.status = "converted" => app.status = "converted"
    BY <1>5, <2>1, MovedKeepsMark DEF IssueOffer, Rows
  <2>4. PICK o \in Offers, e \in today..MaxDay :
          /\ offers[o].status = NoRow
          /\ offers' = [offers EXCEPT ![o] =
               [status |-> "issued", issueDate |-> today, expiry |-> e]]
    BY <1>5 DEF IssueOffer
  <2>5. Accepted' \subseteq acceptedAt'
    BY <1>5, <2>4 DEF IssueOffer, OfferInv, Accepted, TypeOK, OfferRows
  <2>6. QED BY <1>5, <2>3, <2>5, FinishOffer DEF IssueOffer, OfferInv, StudentOnlyByOffer, is_converted
<1>6. ASSUME NEW w \in Workers, Respond(w) PROVE OfferInv'
  <2>1. req[w].offer \in Offers /\ Finish(w) /\ UNCHANGED <<app, student>>
    BY <1>6, RequestFields DEF Respond, Serves, TypeOK
  <2>2. acceptedAt \subseteq acceptedAt'
    BY <1>6 DEF Respond
  <2>3. Accepted' \subseteq acceptedAt'
    BY <1>6, <2>1 DEF Respond, OfferInv, Accepted, TypeOK, OfferRows
  <2>4. QED BY <2>1, <2>2, <2>3, FinishOffer DEF OfferInv, StudentOnlyByOffer, is_converted
<1>7. ASSUME NEW w \in Workers, Convert(w) PROVE OfferInv'
  <2>1. acceptedAt # {} /\ student' /\ Finish(w) /\ UNCHANGED <<offers, acceptedAt>>
    BY <1>7 DEF Convert, OfferInv
  <2>2. QED BY <2>1, FinishOffer DEF OfferInv, StudentOnlyByOffer, is_converted, Accepted
<1>8. ASSUME NEW w \in Workers, Edit(w) PROVE OfferInv'
  <2>1. app'.converted_at = "set" => student
    BY <1>8 DEF Edit, OfferInv
  <2>3. app'.status # "converted"
    BY <1>8 DEF Edit, APPLICANT_EDITABLE
  <2>2. QED BY <1>8, <2>1, <2>3, FinishOffer DEF Edit, OfferInv, StudentOnlyByOffer, is_converted, Accepted
<1>9. ASSUME NEW w \in Workers, CreatePayment(w) PROVE OfferInv'
  <2>1. PICK p \in Payments :
          /\ \/ Finish(w)
             \/ /\ pc' = [pc EXCEPT ![w] = "validated"]
                /\ req' = [req EXCEPT ![w] = [op |-> "confirm", payment |-> p]]
                /\ UNCHANGED <<mem, today>>
          /\ UNCHANGED <<app, offers, paidAt, acceptedAt, student, waived>>
    BY <1>9 DEF CreatePayment
  <2>2. CASE Finish(w)
    BY <2>1, <2>2, FinishOffer DEF OfferInv, StudentOnlyByOffer, is_converted, Accepted
  <2>3. CASE ~Finish(w)
    BY <2>1, <2>3 DEF OfferInv, StudentOnlyByOffer, is_converted, Accepted, Serves, TypeOK
  <2>4. QED BY <2>2, <2>3
<1>10. ASSUME NEW w \in Workers, ProviderConfirms(w) PROVE OfferInv'
  BY <1>10 DEF ProviderConfirms, OfferInv, StudentOnlyByOffer, is_converted, Accepted, Serves,
               rows, TypeOK, Memory
<1>11. ASSUME NEW w \in Workers, ConfirmPayment(w) PROVE OfferInv'
  <2> DEFINE a == mem[w].app
             paid == Successful \cup {req[w].payment} \in Sufficient
  <2>1. paid \in BOOLEAN /\ a \in Rows
    BY DEF TypeOK, Memory
  <2>2. /\ app'.converted_at = app.converted_at
        /\ app'.status = "converted" => app.status = "converted"
    BY <1>11, <2>1, MovedKeepsMark DEF ConfirmPayment
  <2>3. QED BY <1>11, <2>2, FinishOffer DEF ConfirmPayment, OfferInv, StudentOnlyByOffer, is_converted, Accepted
<1>12. ASSUME NEW w \in Workers, DropPayment(w) PROVE OfferInv'
  BY <1>12, FinishOffer DEF DropPayment, OfferInv, StudentOnlyByOffer, is_converted, Accepted
<1>13. ASSUME NEW w \in Workers, Abandon(w) PROVE OfferInv'
  BY <1>13, FinishOffer DEF Abandon, rows, OfferInv, StudentOnlyByOffer, is_converted, Accepted
<1>14. CASE NewDay
  BY <1>14 DEF NewDay, rows, OfferInv, StudentOnlyByOffer, is_converted, Accepted, Serves
<1>15. CASE UNCHANGED vars
  BY <1>15 DEF vars, rows, OfferInv, StudentOnlyByOffer, is_converted, Accepted, Serves
<1>16. QED
  BY <1>1, <1>2, <1>3, <1>4, <1>5, <1>6, <1>7, <1>8, <1>9, <1>10, <1>11, <1>12,
     <1>13, <1>14, <1>15 DEF Next, Step

(* StudentOnlyByOffer of Admissions: however requests interleave, a student *)
(* record exists and an application counts as converted (is_converted, by   *)
(* its mark or by its status, the transition view's included) only where an *)
(* offer was accepted, and converted_at is set only with its student.       *)
THEOREM OfferIsOnlyRoute == Spec => []StudentOnlyByOffer
<1>1. Init => OfferInv
  BY OfferInit
<1>2. TypeOK /\ OfferInv /\ [Next]_vars => OfferInv'
  BY OfferNext
<1>3. OfferInv => StudentOnlyByOffer
  BY DEF OfferInv
<1>4. QED BY <1>1, <1>2, <1>3, TypeCorrect, PTL DEF Spec

-----------------------------------------------------------------------------
(* Who reopens a closed application.                                       *)

(* A terminal application has no move left and takes none from a decision  *)
(* or a payment.                                                           *)
LEMMA TerminalStays ==
  ASSUME NEW a \in Rows, a.status \in TERMINAL
  PROVE  /\ \A x \in BOOLEAN : AllowedTargets(a.status, x) = {}
         /\ \A d \in Decisions : MayRecord(a, d) => DecisionTarget(a, d) = a.status
         /\ \A b \in BOOLEAN : Advance(a, b) = a.status
<1>1. Normalize(a.status) = a.status
  BY DEF Normalize, Legacy, LEGACY_ALIASES, TERMINAL
<1>2. QED BY <1>1 DEF AllowedTargets, DecisionTarget, MayRecord, Advance, TERMINAL

(* A request that finishes is one of the worker's that commits.            *)
LEMMA FinishCommits ==
  ASSUME TypeOK, NEW w \in Workers, pc[w] # "idle", Finish(w)
  PROVE  Commits(w)
BY DEF Commits, Finish, TypeOK

LEMMA OpenNext == TypeOK /\ OpenInv /\ [Next]_vars => OpenInv'
<1> SUFFICES ASSUME TypeOK, OpenInv, [Next]_vars PROVE OpenInv'
  OBVIOUS
<1>0. ASSUME NEW w \in Workers, Finish(w) PROVE OpenInv'
  BY <1>0 DEF Finish, OpenInv, Serves, TypeOK
<1>1. ASSUME NEW w \in Workers, NEW r \in Requests, Fetch(w, r) PROVE OpenInv'
  BY <1>1 DEF Fetch, OpenInv, Serves, TypeOK
<1>2. ASSUME NEW w \in Workers, Validate(w) PROVE OpenInv'
  <2> DEFINE a == mem[w].app
  <2>1. a \in Rows
    BY DEF TypeOK, Memory
  <2>2. req[w].op \in {"transition", "approve", "convert"} => a.status \notin TERMINAL
    <3>1. CASE req[w].op = "transition"
      <4>1. req[w].to \in AllowedTargets(a.status, req[w].applicant)
        BY <1>2, <3>1 DEF Validate, Passes, CanTransition
      <4>2. QED BY <4>1 DEF AllowedTargets, Normalize, Legacy, LEGACY_ALIASES, TERMINAL
    <3>2. CASE req[w].op = "approve"
      BY <1>2, <3>2 DEF Validate, Passes
    <3>3. CASE req[w].op = "convert"
      <4>1. "converted" \in AllowedTargets(a.status, FALSE)
        BY <1>2, <3>3 DEF Validate, Passes, CanTransition
      <4>2. QED BY <2>1, <4>1, TerminalStays
    <3>4. QED BY <3>1, <3>2, <3>3
  <2>3. QED BY <1>2, <2>2 DEF Validate, OpenInv, Serves, TypeOK
<1>3. ASSUME NEW w \in Workers, CreatePayment(w) PROVE OpenInv'
  <2>1. PICK p \in Payments :
          \/ Finish(w)
          \/ /\ pc' = [pc EXCEPT ![w] = "validated"]
             /\ req' = [req EXCEPT ![w] = [op |-> "confirm", payment |-> p]]
             /\ UNCHANGED <<mem, today>>
    BY <1>3 DEF CreatePayment
  <2>2. CASE ~Finish(w)
    BY <2>1, <2>2 DEF OpenInv, Serves, TypeOK
  <2>3. QED BY <1>0, <2>1, <2>2
<1>4. ASSUME NEW w \in Workers, ProviderConfirms(w) PROVE OpenInv'
  BY <1>4 DEF ProviderConfirms, OpenInv, Serves, TypeOK
<1>5. ASSUME NEW w \in Workers,
             \/ Transition(w) \/ Decide(w) \/ IssueOffer(w) \/ Respond(w) \/ Convert(w)
             \/ Edit(w) \/ ConfirmPayment(w) \/ DropPayment(w) \/ Abandon(w)
      PROVE  OpenInv'
  BY <1>0, <1>5 DEF Transition, Decide, IssueOffer, Respond, Convert, Edit, ConfirmPayment,
                    DropPayment, Abandon
<1>6. CASE NewDay \/ UNCHANGED vars
  BY <1>6 DEF NewDay, vars, OpenInv, Serves
<1>7. QED
  BY <1>1, <1>2, <1>3, <1>4, <1>5, <1>6 DEF Next, Step

(* A step that changes a terminal status is the commit of a request that    *)
(* holds an open copy.                                                      *)
LEMMA StaleReopens ==
  ASSUME TypeOK, OpenInv, [Next]_vars, app.status \in TERMINAL, app'.status # app.status
  PROVE  \E w \in Workers : Commits(w) /\ mem[w].app.status \notin TERMINAL
<1>1. ASSUME NEW w \in Workers, Transition(w) \/ Convert(w)
      PROVE  Commits(w) /\ mem[w].app.status \notin TERMINAL
  BY <1>1, FinishCommits DEF Transition, Convert, OpenInv, Serves
<1>2. ASSUME NEW w \in Workers, Decide(w)
      PROVE  Commits(w) /\ mem[w].app.status \notin TERMINAL
  <2> DEFINE a == mem[w].app
             d == IF req[w].op = "decide" THEN req[w].decision ELSE "rejected"
  <2>1. Commits(w) /\ a \in Rows /\ d \in Decisions
    BY <1>2, RequestFields, FinishCommits DEF Decide, Serves, TypeOK, Memory, Decisions
  <2>2. a.status \in TERMINAL => Moved(a, DecisionTarget(a, d)) = app
    BY <1>2, <2>1, TerminalStays DEF Decide, Moved
  <2>3. QED BY <1>2, <2>1, <2>2 DEF Decide, TypeOK, Rows
<1>3. ASSUME NEW w \in Workers, IssueOffer(w)
      PROVE  Commits(w) /\ mem[w].app.status \notin TERMINAL
  BY <1>3, FinishCommits DEF IssueOffer, OpenInv, Serves
<1>4. ASSUME NEW w \in Workers, Edit(w)
      PROVE  Commits(w) /\ mem[w].app.status \notin TERMINAL
  BY <1>4, FinishCommits DEF Edit, Serves, APPLICANT_EDITABLE, TERMINAL
<1>5. ASSUME NEW w \in Workers, ConfirmPayment(w)
      PROVE  Commits(w) /\ mem[w].app.status \notin TERMINAL
  <2> DEFINE a == mem[w].app
             paid == Successful \cup {req[w].payment} \in Sufficient
  <2>1. Commits(w) /\ a \in Rows /\ paid \in BOOLEAN
    BY <1>5, FinishCommits DEF ConfirmPayment, Serves, TypeOK, Memory
  <2>2. a.status \in TERMINAL => Moved(a, Advance(a, paid)) = app
    BY <2>1, TerminalStays DEF Moved
  <2>3. QED BY <1>5, <2>1, <2>2 DEF ConfirmPayment
<1>6. ASSUME NEW w \in Workers, NEW r \in Requests, Fetch(w, r) PROVE FALSE
  BY <1>6 DEF Fetch, rows
<1>7. ASSUME NEW w \in Workers,
             \/ Validate(w) \/ Respond(w) \/ CreatePayment(w) \/ ProviderConfirms(w)
             \/ DropPayment(w) \/ Abandon(w)
      PROVE  FALSE
  BY <1>7 DEF Validate, Respond, CreatePayment, ProviderConfirms, DropPayment, Abandon, rows
<1>8. CASE NewDay \/ UNCHANGED vars
  BY <1>8 DEF NewDay, vars, rows
<1>9. QED
  BY <1>1, <1>2, <1>3, <1>4, <1>5, <1>6, <1>7, <1>8 DEF Next, Step

(* ReopenedOnlyByStale of Admissions, however requests interleave: whatever *)
(* takes an application out of a terminal status had fetched it while it    *)
(* was open; no request that found it closed does (can_transition,          *)
(* DecisionService.record, _advance_after_payment).                        *)
THEOREM OnlyStaleReopens == Spec => ReopenedOnlyByStale
<1>1. Init => OpenInv
  BY DEF Init, OpenInv, Serves
<1>2. TypeOK /\ OpenInv /\ [Next]_vars => OpenInv'
  BY OpenNext
<1>3. TypeOK /\ OpenInv /\ [Next]_vars
        => [app.status \in TERMINAL /\ app'.status # app.status =>
              \E w \in Workers : Commits(w) /\ mem[w].app.status \notin TERMINAL]_vars
  BY StaleReopens
<1>4. QED BY <1>1, <1>2, <1>3, TypeCorrect, PTL DEF Spec, ReopenedOnlyByStale

(***************************************************************************)
(* Notifications.                                                          *)
(***************************************************************************)
LEMMA CallType ==
  ASSUME NEW m \in Notify!Call
  PROVE  /\ m.op = "users" => m.users \in SUBSET Recipients
         /\ m.op = "channels" => m \in Notify!Rest
         /\ m.op \in {"create", "deliver", "accepted"} => m.key \in Notify!Keys /\ m.rest \in Notify!Rest
BY DEF Notify!Call, Notify!Rest, Notify!Idle

LEMMA NoRecordType ==
  /\ Notify!NoRecord \notin Notify!Record
  /\ Notify!Queued \in Notify!Record
  /\ \A r \in Notify!Record, status \in Notify!DeliveryStatus :
       /\ [r EXCEPT !.status = status] \in Notify!Record
       /\ [r EXCEPT !.status = status, !.id = "yes"] \in Notify!Record
       /\ [r EXCEPT !.read = "yes"] \in Notify!Record
       /\ [r EXCEPT !.read = "yes", !.status = "delivered"] \in Notify!Record
BY DEF Notify!NoRecord, Notify!None, Notify!Queued, Notify!Record, Notify!DeliveryStatus

LEMMA NotifyInit == Notify!Init => Notify!DeliveryInv
BY DEF Notify!Init, Notify!DeliveryInv, Notify!TypeOK, Notify!Call, Notify!Exists,
   Notify!Delivers, Notify!NotifiedOnce, Notify!Idle

LEMMA NotifyBecome ==
  ASSUME Notify!DeliveryInv, NEW w \in Workers, NEW m \in Notify!Call, Notify!Become(w, m)
  PROVE  /\ memory' \in [Workers -> Notify!Call] /\ memory'[w] = m
         /\ \A v \in Workers \ {w} : memory'[v] = memory[v]
BY DEF Notify!Become, Notify!DeliveryInv

(* A step that sends nothing and makes nobody deliver.                     *)
LEMMA NotifyQuiet ==
  ASSUME Notify!DeliveryInv, v1' \in [Notify!Keys -> Notify!Record \cup {Notify!NoRecord}],
         \A k \in Notify!Keys : v1[k] # Notify!NoRecord => v1'[k] # Notify!NoRecord,
         v2' = v2, memory' \in [Workers -> Notify!Call],
         \A w \in Workers : memory'[w] = memory[w] \/ memory'[w].op # "deliver"
  PROVE  Notify!DeliveryInv'
BY DEF Notify!DeliveryInv, Notify!TypeOK, Notify!Exists, Notify!Delivers, Notify!NotifiedOnce

LEMMA NotifyCalls ==
  ASSUME Notify!DeliveryInv, NEW w \in Workers,
         Notify!Send(w) \/ Notify!ResolveChannels(w) \/ Notify!NextUser(w)
           \/ Notify!FindRecord(w) \/ Notify!Crash(w)
  PROVE  Notify!DeliveryInv'
<1>1. UNCHANGED <<v1, v2>>
  BY DEF Notify!Send, Notify!ResolveChannels, Notify!NextUser, Notify!FindRecord, Notify!Crash
<1>2. memory[w] \in Notify!Call
  BY DEF Notify!DeliveryInv
<1>3. PICK m \in Notify!Call : Notify!Become(w, m) /\ m.op # "deliver"
  <2>1. CASE Notify!Send(w)
    <3>1. PICK recipients \in SUBSET Recipients :
            Notify!Become(w, [op |-> "users", users |-> recipients])
      BY <2>1 DEF Notify!Send
    <3>2. [op |-> "users", users |-> recipients] \in Notify!Call
      BY DEF Notify!Call
    <3>3. QED BY <3>1, <3>2
  <2>2. CASE Notify!ResolveChannels(w)
    <3>1. PICK u \in memory[w].users, channels \in SUBSET Channels :
            Notify!Become(w, [op |-> "channels", users |-> memory[w].users \ {u}, user |-> u,
                              channels |-> channels])
      BY <2>2 DEF Notify!ResolveChannels
    <3>2. memory[w].users \in SUBSET Recipients
      BY <1>2, <2>2, CallType DEF Notify!ResolveChannels
    <3>3. [op |-> "channels", users |-> memory[w].users \ {u}, user |-> u,
           channels |-> channels] \in Notify!Call
      BY <3>1, <3>2 DEF Notify!Call, Notify!Rest
    <3>4. QED BY <3>1, <3>3
  <2>3. CASE Notify!NextUser(w)
    <3>1. memory[w].users \in SUBSET Recipients
      BY <1>2, <2>3, CallType DEF Notify!NextUser, Notify!Rest
    <3>2. /\ [op |-> "users", users |-> memory[w].users] \in Notify!Call
          /\ Notify!Idle \in Notify!Call /\ Notify!Idle.op # "deliver"
      BY <3>1 DEF Notify!Call, Notify!Idle
    <3>3. QED BY <2>3, <3>2 DEF Notify!NextUser
  <2>4. CASE Notify!FindRecord(w)
    <3>1. memory[w] \in Notify!Rest
      BY <1>2, <2>4, CallType DEF Notify!FindRecord
    <3>2. PICK c \in memory[w].channels :
            Notify!Become(w, IF Notify!Exists(<<memory[w].user, c>>)
                             THEN [memory[w] EXCEPT !.channels = @ \ {c}]
                             ELSE [op |-> "create", key |-> <<memory[w].user, c>>,
                                   rest |-> [memory[w] EXCEPT !.channels = @ \ {c}]])
      BY <2>4 DEF Notify!FindRecord
    <3>3. PICK rest : rest = [memory[w] EXCEPT !.channels = @ \ {c}]
      OBVIOUS
    <3>4. rest \in Notify!Rest /\ <<memory[w].user, c>> \in Notify!Keys /\ rest.op # "deliver"
      BY <3>1, <3>3 DEF Notify!Rest, Notify!Keys
    <3>5. PICK key \in Notify!Keys : key = <<memory[w].user, c>>
      BY <3>4
    <3>6. /\ rest \in Notify!Call
          /\ [op |-> "create", key |-> key, rest |-> rest] \in Notify!Call
      BY <3>4 DEF Notify!Call
    <3>7. QED BY <3>2, <3>3, <3>4, <3>5, <3>6
  <2>5. CASE Notify!Crash(w)
    <3>1. Notify!Idle \in Notify!Call /\ Notify!Idle.op # "deliver"
      BY DEF Notify!Call, Notify!Idle
    <3>2. QED BY <2>5, <3>1 DEF Notify!Crash
  <2>6. QED BY <2>1, <2>2, <2>3, <2>4, <2>5
<1>4. QED BY <1>1, <1>3, NotifyBecome, NotifyQuiet DEF Notify!DeliveryInv, Notify!TypeOK

(* A record is inserted for a key that has none, or the call ends.         *)
LEMMA NotifyCreate ==
  ASSUME Notify!DeliveryInv, NEW w \in Workers, Notify!CreateRecord(w)
  PROVE  Notify!DeliveryInv'
<1>1. PICK c \in Notify!Call : c = memory[w]
  BY DEF Notify!DeliveryInv
<1>2. PICK k \in Notify!Keys : k = c.key
  BY <1>1, CallType DEF Notify!CreateRecord
<1>3. c.op = "create" /\ v2' = v2
  BY <1>1 DEF Notify!CreateRecord
<1>4. CASE ~Notify!Exists(k)
  <2>1. PICK m : m = [c EXCEPT !.op = "deliver"]
    OBVIOUS
  <2>2. m \in Notify!Call /\ m.op = "deliver" /\ m.key = k
    <3>1. c \in [op : {"create", "deliver", "accepted"}, key : Notify!Keys, rest : Notify!Rest]
      BY <1>3 DEF Notify!Call, Notify!Idle, Notify!Rest
    <3>2. QED BY <1>2, <2>1, <3>1 DEF Notify!Call
  <2>3. v1' = [v1 EXCEPT ![k] = Notify!Queued] /\ Notify!Become(w, m)
    BY <1>1, <1>2, <1>4, <2>1 DEF Notify!CreateRecord, Notify!KeyIsFree
  <2>4. /\ memory' \in [Workers -> Notify!Call] /\ memory'[w] = m
        /\ \A v \in Workers \ {w} : memory'[v] = memory[v]
    BY <2>2, <2>3, NotifyBecome
  <2>5. /\ v1' \in [Notify!Keys -> Notify!Record \cup {Notify!NoRecord}]
        /\ v1'[k] # Notify!NoRecord /\ \A j \in Notify!Keys \ {k} : v1'[j] = v1[j]
    BY <2>3, NoRecordType DEF Notify!DeliveryInv, Notify!TypeOK
  <2>6. v2[k] = 0 /\ \A v \in Workers : ~Notify!Delivers(v, k)
    BY <1>4 DEF Notify!DeliveryInv
  <2>7. ASSUME NEW j \in Notify!Keys
        PROVE  /\ v1'[j] = Notify!NoRecord => v2'[j] = 0
               /\ \A u \in Workers : memory'[u].op = "deliver" /\ memory'[u].key = j =>
                    /\ v1'[j] # Notify!NoRecord /\ v2'[j] = 0
                    /\ \A v \in Workers : memory'[v].op = "deliver" /\ memory'[v].key = j => v = u
    <3>1. CASE j = k
      BY <1>3, <2>2, <2>4, <2>5, <2>6, <3>1 DEF Notify!Delivers
    <3>2. CASE j # k
      BY <1>3, <2>2, <2>4, <2>5, <3>2 DEF Notify!Delivers, Notify!Exists, Notify!DeliveryInv
    <3>3. QED BY <3>1, <3>2
  <2>8. QED BY <1>3, <2>4, <2>5, <2>7
            DEF Notify!DeliveryInv, Notify!TypeOK, Notify!Exists, Notify!Delivers, Notify!NotifiedOnce
<1>5. CASE Notify!Exists(k)
  <2>1. Notify!Idle \in Notify!Call /\ Notify!Idle.op # "deliver"
    BY DEF Notify!Call, Notify!Idle
  <2>2. v1' = v1 /\ Notify!Become(w, Notify!Idle)
    BY <1>1, <1>2, <1>5 DEF Notify!CreateRecord, Notify!KeyIsFree
  <2>3. QED BY <1>3, <2>1, <2>2, NotifyBecome, NotifyQuiet DEF Notify!DeliveryInv, Notify!TypeOK
<1>6. QED BY <1>4, <1>5

(* The message goes out.                                                   *)
LEMMA NotifyDeliver ==
  ASSUME Notify!DeliveryInv, NEW w \in Workers, Notify!DeliverNow(w) \/ Notify!DeliverSms(w)
  PROVE  Notify!DeliveryInv'
<1>1. PICK c \in Notify!Call : c = memory[w]
  BY DEF Notify!DeliveryInv
<1>2. PICK k \in Notify!Keys : k = c.key
  BY <1>1, CallType DEF Notify!DeliverNow, Notify!DeliverSms
<1>3. c.op = "deliver" /\ v2' = [v2 EXCEPT ![k] = @ + 1]
  BY <1>1, <1>2 DEF Notify!DeliverNow, Notify!DeliverSms
<1>4. /\ v1[k] # Notify!NoRecord /\ v2[k] = 0
      /\ \A v \in Workers : memory[v].op = "deliver" /\ memory[v].key = k => v = w
  BY <1>1, <1>2, <1>3 DEF Notify!DeliveryInv, Notify!Delivers, Notify!Exists
<1>5. PICK m \in Notify!Call : Notify!Become(w, m) /\ m.op # "deliver"
  <2>1. c \in [op : {"create", "deliver", "accepted"}, key : Notify!Keys, rest : Notify!Rest]
    BY <1>3 DEF Notify!Call, Notify!Idle, Notify!Rest
  <2>2. CASE Notify!DeliverNow(w)
    <3>1. c.rest \in Notify!Call /\ c.rest.op # "deliver"
      BY <2>1 DEF Notify!Call, Notify!Rest
    <3>2. QED BY <1>1, <2>2, <3>1 DEF Notify!DeliverNow
  <2>3. CASE Notify!DeliverSms(w)
    <3>1. PICK m : m = [c EXCEPT !.op = "accepted"]
      OBVIOUS
    <3>2. m \in Notify!Call /\ m.op # "deliver"
      BY <2>1, <3>1 DEF Notify!Call
    <3>3. QED BY <1>1, <2>3, <3>1, <3>2 DEF Notify!DeliverSms
  <2>4. QED BY <2>2, <2>3
<1>6. /\ memory' \in [Workers -> Notify!Call] /\ memory'[w] = m
      /\ \A v \in Workers \ {w} : memory'[v] = memory[v]
  BY <1>5, NotifyBecome
<1>7. /\ v1' \in [Notify!Keys -> Notify!Record \cup {Notify!NoRecord}]
      /\ \A j \in Notify!Keys : v1[j] # Notify!NoRecord => v1'[j] # Notify!NoRecord
  <2>1. v1[k] \in Notify!Record
    BY <1>4 DEF Notify!DeliveryInv, Notify!TypeOK
  <2>2. \A status \in Notify!DeliveryStatus : [v1[k] EXCEPT !.status = status] \in Notify!Record
    BY <2>1, NoRecordType
  <2>3. v1' = v1 \/ \E status \in Notify!DeliveryStatus :
          v1' = [v1 EXCEPT ![k] = [v1[k] EXCEPT !.status = status]]
    BY <1>1, <1>2 DEF Notify!DeliverNow, Notify!DeliverSms, Notify!DeliveryStatus
  <2>4. CASE v1' = v1
    BY <2>4 DEF Notify!DeliveryInv, Notify!TypeOK
  <2>5. CASE v1' # v1
    <3>1. PICK row \in Notify!Record : v1' = [v1 EXCEPT ![k] = row]
      BY <2>2, <2>3, <2>5
    <3>2. QED BY <3>1, NoRecordType DEF Notify!DeliveryInv, Notify!TypeOK
  <2>6. QED BY <2>4, <2>5
<1>8. v2' \in [Notify!Keys -> Nat] /\ v2'[k] = 1 /\ \A j \in Notify!Keys \ {k} : v2'[j] = v2[j]
  BY <1>3, <1>4 DEF Notify!DeliveryInv, Notify!TypeOK
<1>9. ASSUME NEW j \in Notify!Keys
      PROVE  /\ v1'[j] = Notify!NoRecord => v2'[j] = 0
             /\ \A u \in Workers : memory'[u].op = "deliver" /\ memory'[u].key = j =>
                  /\ v1'[j] # Notify!NoRecord /\ v2'[j] = 0
                  /\ \A v \in Workers : memory'[v].op = "deliver" /\ memory'[v].key = j => v = u
             /\ v2'[j] <= 1
  <2>1. CASE j = k
    BY <1>4, <1>5, <1>6, <1>7, <1>8, <2>1
  <2>2. CASE j # k
    BY <1>5, <1>6, <1>7, <1>8, <2>2
    DEF Notify!Delivers, Notify!Exists, Notify!DeliveryInv, Notify!NotifiedOnce
  <2>3. QED BY <2>1, <2>2
<1>10. QED BY <1>6, <1>7, <1>8, <1>9
           DEF Notify!DeliveryInv, Notify!TypeOK, Notify!Exists, Notify!Delivers, Notify!NotifiedOnce

(* Whatever is written into a record that is there: failures, message ids, *)
(* callbacks, read marks.                                                  *)
LEMMA NotifyRecords ==
  ASSUME Notify!DeliveryInv,
         NEW k \in Notify!Keys, NEW row \in Notify!Record, v1' = [v1 EXCEPT ![k] = row],
         v2' = v2, memory' \in [Workers -> Notify!Call],
         \A w \in Workers : memory'[w] = memory[w] \/ memory'[w].op # "deliver"
  PROVE  Notify!DeliveryInv'
<1>1. /\ v1' \in [Notify!Keys -> Notify!Record \cup {Notify!NoRecord}]
      /\ \A j \in Notify!Keys : v1[j] # Notify!NoRecord => v1'[j] # Notify!NoRecord
  BY NoRecordType DEF Notify!DeliveryInv, Notify!TypeOK
<1>2. QED BY <1>1, NotifyQuiet

LEMMA NotifyOutcome ==
  ASSUME Notify!DeliveryInv, NEW w \in Workers, Notify!Fail(w) \/ Notify!SaveSms(w)
  PROVE  Notify!DeliveryInv'
<1>1. PICK c \in Notify!Call : c = memory[w]
  BY DEF Notify!DeliveryInv
<1>2. PICK k \in Notify!Keys : k = c.key
  BY <1>1, CallType DEF Notify!Fail, Notify!SaveSms
<1>3. c.rest \in Notify!Call /\ c.rest.op # "deliver"
  BY <1>1, CallType DEF Notify!Fail, Notify!SaveSms, Notify!Call, Notify!Rest
<1>4. memory' \in [Workers -> Notify!Call]
      /\ \A v \in Workers : memory'[v] = memory[v] \/ memory'[v].op # "deliver"
  BY <1>1, <1>3, NotifyBecome DEF Notify!Fail, Notify!SaveSms
<1>5. v2' = v2
  BY DEF Notify!Fail, Notify!SaveSms

<1>6. PICK row \in Notify!Record : v1' = [v1 EXCEPT ![k] = row]
  <2>1. v1[k] \in Notify!Record \cup {Notify!NoRecord}
    BY DEF Notify!DeliveryInv, Notify!TypeOK
  <2>2. /\ [v1[k] EXCEPT !.status = "failed"] \in Notify!Record
        /\ [v1[k] EXCEPT !.status = "sent", !.id = "yes"] \in Notify!Record
    <3>1. CASE v1[k] \in Notify!Record
      BY <3>1, NoRecordType DEF Notify!DeliveryStatus
    <3>2. CASE v1[k] = Notify!NoRecord
      <4>1. [Notify!NoRecord EXCEPT !.status = "failed"] \in Notify!Record
        BY DEF Notify!Record, Notify!NoRecord, Notify!DeliveryStatus
      <4>2. [Notify!NoRecord EXCEPT !.status = "sent", !.id = "yes"] \in Notify!Record
        BY DEF Notify!Record, Notify!NoRecord, Notify!DeliveryStatus
      <4>3. QED BY <3>2, <4>1, <4>2
    <3>3. QED BY <2>1, <3>1, <3>2
  <2>3. CASE Notify!Fail(w)
    <3>1. v1' = [v1 EXCEPT ![k] = [v1[k] EXCEPT !.status = "failed"]]
      BY <1>1, <1>2, <2>3 DEF Notify!Fail
    <3>2. QED BY <2>2, <3>1
  <2>4. CASE Notify!SaveSms(w)
    <3>1. v1' = [v1 EXCEPT ![k] = [v1[k] EXCEPT !.status = "sent", !.id = "yes"]]
      BY <1>1, <1>2, <2>4 DEF Notify!SaveSms, Notify!DeliveryInv, Notify!TypeOK
    <3>2. QED BY <2>2, <3>1
  <2>5. QED BY <2>3, <2>4
<1>7. QED BY <1>4, <1>5, <1>6, NotifyRecords

LEMMA NotifyReaders ==
  ASSUME Notify!DeliveryInv,
         \/ \E k \in Notify!Keys : Notify!SailupWebhook(k) \/ Notify!MarkRead(k)
         \/ \E u \in Recipients : Notify!MarkAllRead(u)
  PROVE  Notify!DeliveryInv'
<1>1. /\ v2' = v2 /\ memory' \in [Workers -> Notify!Call]
      /\ \A w \in Workers : memory'[w] = memory[w]
  BY DEF Notify!SailupWebhook, Notify!MarkRead, Notify!MarkAllRead, Notify!DeliveryInv
<1>2. PICK k \in Notify!Keys, row \in Notify!Record : v1' = [v1 EXCEPT ![k] = row]
  <2>1. \A k \in Notify!Keys : Notify!Exists(k) => v1[k] \in Notify!Record
    BY DEF Notify!DeliveryInv, Notify!TypeOK, Notify!Exists
  <2>2. ASSUME NEW k \in Notify!Keys, Notify!SailupWebhook(k)
        PROVE  \E row \in Notify!Record : v1' = [v1 EXCEPT ![k] = row]
    <3>1. PICK status \in Notify!DeliveryStatus : v1' = [v1 EXCEPT ![k].status = status]
      BY <2>2 DEF Notify!SailupWebhook
    <3>2. Notify!Exists(k)
      BY <2>2 DEF Notify!SailupWebhook, Notify!Exists, Notify!NoRecord
    <3>3. [v1[k] EXCEPT !.status = status] \in Notify!Record
      BY <2>1, <3>2, NoRecordType
    <3>4. QED BY <3>1, <3>3
  <2>3. ASSUME NEW k \in Notify!Keys, Notify!MarkRead(k)
        PROVE  \E row \in Notify!Record : v1' = [v1 EXCEPT ![k] = row]
    <3>1. [v1[k] EXCEPT !.read = "yes", !.status = "delivered"] \in Notify!Record
      BY <2>1, <2>3, NoRecordType DEF Notify!MarkRead, Notify!DeliveryStatus
    <3>2. v1' = [v1 EXCEPT ![k] = [v1[k] EXCEPT !.read = "yes", !.status = "delivered"]]
      BY <2>3 DEF Notify!MarkRead, Notify!DeliveryInv, Notify!TypeOK
    <3>3. QED BY <3>1, <3>2
  <2>4. ASSUME NEW u \in Recipients, Notify!MarkAllRead(u)
        PROVE  \E k \in Notify!Keys, row \in Notify!Record : v1' = [v1 EXCEPT ![k] = row]
    <3>1. PICK c \in Channels : Notify!Exists(<<u, c>>) /\ v1' = [v1 EXCEPT ![<<u, c>>].read = "yes"]
      BY <2>4 DEF Notify!MarkAllRead
    <3>2. PICK k \in Notify!Keys : k = <<u, c>>
      BY DEF Notify!Keys
    <3>3. v1[k] \in Notify!Record /\ "delivered" \in Notify!DeliveryStatus
      BY <2>1, <3>1, <3>2 DEF Notify!DeliveryStatus
    <3>4. [v1[k] EXCEPT !.read = "yes"] \in Notify!Record
      BY <3>3, NoRecordType
    <3>5. QED BY <3>1, <3>2, <3>4
  <2>5. QED BY <2>2, <2>3, <2>4
<1>3. QED BY <1>1, <1>2, NotifyRecords

LEMMA NotifyNext == Notify!DeliveryInv /\ Notify!Next => Notify!DeliveryInv'
<1> SUFFICES ASSUME Notify!DeliveryInv, Notify!Next PROVE Notify!DeliveryInv'
  OBVIOUS
<1>1. ASSUME NEW w \in Workers, Notify!ServiceStep(w) \/ Notify!Crash(w)
      PROVE  Notify!DeliveryInv'
  BY <1>1, NotifyCalls, NotifyCreate, NotifyDeliver, NotifyOutcome DEF Notify!ServiceStep
<1>2. QED BY <1>1, NotifyReaders DEF Notify!Next

(***************************************************************************)
(* Intake.                                                                 *)
(***************************************************************************)
LEMMA IntakeRequestType ==
  ASSUME NEW m \in Cycle!Request
  PROVE  /\ m.op \in {"rows", "create", "save", "write"} =>
              /\ m.cycle \in 1..CycleCount /\ m.types \in SUBSET (1..TypeCount)
              /\ m.row \in Cycle!CycleRow
         /\ m.op = "form" => /\ m.cycle \in 1..CycleCount
                             /\ m.primary \in (1..TypeCount) \cup {Cycle!NoType}
         /\ m.op = "valid" => /\ m.cycle \in 1..CycleCount /\ m.type \in 1..TypeCount
                              /\ m.off \in SUBSET (1..TypeCount)
BY DEF Cycle!Request, Cycle!Idle

LEMMA IdleRequest == Cycle!Idle \in Cycle!Request /\ Cycle!Idle.op = "idle"
BY DEF Cycle!Request, Cycle!Idle

LEMMA IntakeBecome ==
  ASSUME Cycle!OfferedInv, NEW w \in Workers, NEW m \in Cycle!Request, Cycle!Become(w, m)
  PROVE  /\ memory' \in [Workers -> Cycle!Request] /\ memory'[w] = m
         /\ \A v \in Workers \ {w} : memory'[v] = memory[v]
BY DEF Cycle!Become, Cycle!OfferedInv

LEMMA PrimaryType ==
  ASSUME NEW types \in SUBSET (1..TypeCount)
  PROVE  /\ Cycle!Primary(types) \in (1..TypeCount) \cup {Cycle!NoType}
         /\ Cycle!Primary(types) # Cycle!NoType => Cycle!Primary(types) \in types
         /\ Cycle!Primary(types) = Cycle!NoType => types = {}
<1>1. types # {} => Cycle!Min(types) \in types
  <2>1. SUFFICES ASSUME types # {} PROVE Cycle!Min(types) \in types
    OBVIOUS
  <2>2. types \in SUBSET Nat
    BY CountAssumption
  <2>3. \E n \in types : \A m \in types : n <= m
    BY <2>1, <2>2, LeastNumber
  <2>4. QED BY <2>3 DEF Cycle!Min
<1>2. \A t \in types : t # Cycle!NoType
  BY CountAssumption DEF Cycle!NoType
<1>3. QED BY <1>1, <1>2 DEF Cycle!Primary

(* What a request in memory relies on.                                     *)
Relies(m) ==
  /\ m.op \in {"rows", "create", "save", "write"} =>
       m.types \in v4[m.cycle] /\ m.row.primary = Cycle!Primary(m.types)
  /\ m.op = "form" => Cycle!ChosenPrimary(m.cycle, m.primary)
  /\ m.op = "valid" => Cycle!Offered(m.cycle, m.type, m.off)

LEMMA OfferedParts ==
  Cycle!OfferedInv <=>
    /\ Cycle!TypeOK /\ memory \in [Workers -> Cycle!Request]
    /\ \A c \in 1..CycleCount :
         /\ Cycle!Linked(c) /\ \A type \in v2[c] : Cycle!Chosen(c, type)
         /\ v1[c].active = "yes" => Cycle!ChosenPrimary(c, v1[c].primary)
    /\ \A w \in Workers : Relies(memory[w])
    /\ Cycle!TypeWasOffered
BY DEF Cycle!OfferedInv, Relies

LEMMA OfferedPartsNext ==
  Cycle!OfferedInv' <=>
    /\ Cycle!TypeOK' /\ memory' \in [Workers -> Cycle!Request]
    /\ \A c \in 1..CycleCount :
         /\ Cycle!Linked(c)' /\ \A type \in v2'[c] : Cycle!Chosen(c, type)'
         /\ v1'[c].active = "yes" => Cycle!ChosenPrimary(c, v1[c].primary)'
    /\ \A w \in Workers : Relies(memory[w])'
    /\ Cycle!TypeWasOffered'
BY DEF Cycle!OfferedInv, Relies, Cycle!ChosenPrimary

(* Nothing that was chosen is forgotten.                                   *)
LEMMA RelyOn ==
  ASSUME Cycle!OfferedInv, v4' \in [1..CycleCount -> SUBSET SUBSET (1..TypeCount)],
         \A c \in 1..CycleCount : v4[c] \subseteq v4'[c]
  PROVE  /\ \A c \in 1..CycleCount : \A t :
              /\ Cycle!Chosen(c, t) => Cycle!Chosen(c, t)'
              /\ Cycle!ChosenPrimary(c, t) => Cycle!ChosenPrimary(c, t)'
              /\ \A off : Cycle!Offered(c, t, off) => Cycle!Offered(c, t, off)'
         /\ \A m \in Cycle!Request : Relies(m) => Relies(m)'
<1>1. \A c \in 1..CycleCount : \A t :
        /\ Cycle!Chosen(c, t) => Cycle!Chosen(c, t)'
        /\ Cycle!ChosenPrimary(c, t) => Cycle!ChosenPrimary(c, t)'
        /\ \A off : Cycle!Offered(c, t, off) => Cycle!Offered(c, t, off)'
  BY DEF Cycle!Chosen, Cycle!ChosenPrimary, Cycle!Offered
<1>2. QED BY <1>1, IntakeRequestType DEF Relies

LEMMA IntakeInit == Cycle!Init => Cycle!OfferedInv
BY IdleRequest DEF Cycle!Init, Cycle!OfferedInv, Cycle!TypeOK, Cycle!NoCycle, Cycle!NoType,
   Cycle!TypeWasOffered, Cycle!NoApplication, Cycle!Linked

(* What a step of the office or of an applicant may change.                *)
LEMMA IntakeStep ==
  ASSUME Cycle!OfferedInv,
         v4' \in [1..CycleCount -> SUBSET SUBSET (1..TypeCount)],
         \A c \in 1..CycleCount : v4[c] \subseteq v4'[c],
         v1' \in [1..CycleCount -> Cycle!CycleRow],
         \A c \in 1..CycleCount : v1'[c].active = "yes" =>
           v1'[c] = v1[c] \/ Cycle!ChosenPrimary(c, v1'[c].primary),
         v2' \in [1..CycleCount -> SUBSET (1..TypeCount)],
         \A c \in 1..CycleCount : \A t : t \in v2'[c] => t \in v2[c] \/ Cycle!Chosen(c, t),
         \A c \in 1..CycleCount : v2'[c] = v2[c] \/ v2'[c] = {}
           \/ \E types \in v4[c] : types # {} /\ types \subseteq v2'[c],
         v5' \in SUBSET (1..TypeCount),
         v3' \in [Applications -> Cycle!Application \cup {Cycle!NoApplication}],
         \A a \in Applications :
           v3'[a] = v3[a] \/ (v3'[a].cycle \in 1..CycleCount
                              /\ Cycle!Offered(v3'[a].cycle, v3'[a].type, v3'[a].off)),
         NEW w \in Workers, NEW m \in Cycle!Request, Cycle!Become(w, m), Relies(m)'
  PROVE  Cycle!OfferedInv'
<1>1. /\ \A c \in 1..CycleCount : \A t :
           /\ Cycle!Chosen(c, t) => Cycle!Chosen(c, t)'
           /\ Cycle!ChosenPrimary(c, t) => Cycle!ChosenPrimary(c, t)'
           /\ \A off : Cycle!Offered(c, t, off) => Cycle!Offered(c, t, off)'
      /\ \A n \in Cycle!Request : Relies(n) => Relies(n)'
  BY RelyOn
<1>2. /\ memory' \in [Workers -> Cycle!Request] /\ memory'[w] = m
      /\ \A v \in Workers \ {w} : memory'[v] = memory[v]
  BY IntakeBecome
<1>3. ASSUME NEW v \in Workers PROVE Relies(memory[v])'
  <2>1. PICK n \in Cycle!Request : n = memory'[v] /\ Relies(n)'
    <3>1. CASE v = w
      BY <1>2, <3>1
    <3>2. CASE v # w
      <4>1. PICK n \in Cycle!Request : n = memory[v]
        BY DEF Cycle!OfferedInv
      <4>2. Relies(n)
        BY <4>1, OfferedParts
      <4>3. QED BY <1>1, <1>2, <3>2, <4>1, <4>2
    <3>3. QED BY <3>1, <3>2
  <2>2. QED BY <2>1 DEF Relies, Cycle!ChosenPrimary, Cycle!Offered
<1>4. ASSUME NEW c \in 1..CycleCount
      PROVE  /\ Cycle!Linked(c)' /\ \A type \in v2'[c] : Cycle!Chosen(c, type)'
             /\ v1'[c].active = "yes" => Cycle!ChosenPrimary(c, v1[c].primary)'
  <2>1. \A type \in v2'[c] : Cycle!Chosen(c, type)'
    BY <1>1 DEF Cycle!OfferedInv
  <2>2. ASSUME v1'[c].active = "yes" PROVE Cycle!ChosenPrimary(c, v1[c].primary)'
    <3>1. PICK p : p = v1'[c].primary
      OBVIOUS
    <3>2. Cycle!ChosenPrimary(c, p)
      BY <2>2, <3>1 DEF Cycle!OfferedInv
    <3>3. Cycle!ChosenPrimary(c, p)'
      BY <1>1, <3>2
    <3>4. QED BY <3>1, <3>3 DEF Cycle!ChosenPrimary
  <2>3. Cycle!Linked(c)'
    BY DEF Cycle!OfferedInv, Cycle!Linked
  <2>4. QED BY <2>1, <2>2, <2>3
<1>5. Cycle!TypeOK'
  BY DEF Cycle!TypeOK, Cycle!CycleRow
<1>6. Cycle!TypeWasOffered'
  <2> SUFFICES ASSUME NEW a \in Applications, v3'[a] # Cycle!NoApplication
               PROVE  \E types \in v4'[v3'[a].cycle] :
                        \/ types = {} \/ v3'[a].type \in types
                        \/ Cycle!Primary(types) \in v3'[a].off
    BY DEF Cycle!TypeWasOffered, Cycle!Primary, Cycle!NoType, Cycle!Min
  <2>1. PICK c \in 1..CycleCount, t \in 1..TypeCount, off \in SUBSET (1..TypeCount) :
          c = v3'[a].cycle /\ t = v3'[a].type /\ off = v3'[a].off
    BY DEF Cycle!Application
  <2>2. Cycle!Offered(c, t, off)
    BY <2>1 DEF Cycle!OfferedInv, Cycle!TypeWasOffered, Cycle!Offered
  <2>3. Cycle!Offered(c, t, off)'
    BY <1>1, <2>2
  <2>4. PICK types \in v4'[c] : types = {} \/ t \in types \/ Cycle!Primary(types) \in off
    BY <2>3 DEF Cycle!Offered, Cycle!Primary, Cycle!NoType, Cycle!Min
  <2>5. QED BY <2>1, <2>4
<1>7. QED BY <1>2, <1>3, <1>4, <1>5, <1>6, OfferedPartsNext

LEMMA IntakeTypes ==
  ASSUME Cycle!OfferedInv
  PROVE  /\ v4 \in [1..CycleCount -> SUBSET SUBSET (1..TypeCount)]
         /\ v1 \in [1..CycleCount -> Cycle!CycleRow]
         /\ v2 \in [1..CycleCount -> SUBSET (1..TypeCount)]
         /\ v3 \in [Applications -> Cycle!Application \cup {Cycle!NoApplication}]
         /\ v5 \in SUBSET (1..TypeCount)
BY DEF Cycle!OfferedInv, Cycle!TypeOK, Cycle!CycleRow

LEMMA IntakeQuiet ==
  ASSUME Cycle!OfferedInv, UNCHANGED <<v1, v2, v3, v4, v5>>,
         NEW w \in Workers, NEW m \in Cycle!Request, Cycle!Become(w, m), Relies(m)
  PROVE  Cycle!OfferedInv'
<1>1. Relies(m)'
  BY DEF Relies, Cycle!ChosenPrimary, Cycle!Offered
<1>2. QED BY <1>1, IntakeTypes, IntakeStep

(* The office's edits.                                                     *)
LEMMA SubmitCycleFormStep ==
  ASSUME Cycle!OfferedInv, NEW w \in Workers, NEW c \in 1..CycleCount,
         Cycle!SubmitCycleForm(w, c)
  PROVE  Cycle!OfferedInv'
<1>1. PICK types \in SUBSET (1..TypeCount), active \in {"yes", "no"} :
        /\ v4' = [v4 EXCEPT ![c] = @ \cup {types}]
        /\ Cycle!Become(w, [op |-> IF v1[c] = Cycle!NoCycle THEN "save" ELSE "rows",
                            cycle |-> c, types |-> types, row |-> Cycle!Row(types, active)])
        /\ UNCHANGED <<v1, v2, v3, v5>>
  BY DEF Cycle!SubmitCycleForm
<1>2. PICK op \in {"save", "rows"} : op = IF v1[c] = Cycle!NoCycle THEN "save" ELSE "rows"
  OBVIOUS
<1>3. PICK row : row = Cycle!Row(types, active)
  OBVIOUS
<1>4. row \in Cycle!CycleRow /\ row.primary = Cycle!Primary(types)
  BY <1>3, PrimaryType DEF Cycle!Row, Cycle!CycleRow
<1>5. PICK m : m = [op |-> op, cycle |-> c, types |-> types, row |-> row]
  OBVIOUS
<1>6. /\ m \in Cycle!Request /\ m.op \in {"save", "rows"} /\ m.cycle = c /\ m.types = types
      /\ m.row = row
  BY <1>4, <1>5 DEF Cycle!Request
<1>7. /\ v4' \in [1..CycleCount -> SUBSET SUBSET (1..TypeCount)]
      /\ \A d \in 1..CycleCount : v4[d] \subseteq v4'[d]
      /\ types \in v4'[c]
  BY <1>1, IntakeTypes
<1>8. Relies(m)'
  BY <1>4, <1>6, <1>7 DEF Relies, Cycle!Primary, Cycle!NoType, Cycle!Min
<1>9. Cycle!Become(w, m)
  BY <1>1, <1>2, <1>3, <1>5
<1>10. QED BY <1>1, <1>6, <1>7, <1>8, <1>9, IntakeTypes, IntakeStep

LEMMA LinkSteps ==
  ASSUME Cycle!OfferedInv, NEW w \in Workers, Cycle!DeleteLinks(w) \/ Cycle!CreateLinks(w)
  PROVE  Cycle!OfferedInv'
<1>1. PICK n \in Cycle!Request : n = memory[w] /\ n.op \in {"rows", "create"} /\ Relies(n)
  BY OfferedParts DEF Cycle!DeleteLinks, Cycle!CreateLinks
<1>2. n.cycle \in 1..CycleCount /\ n.types \in SUBSET (1..TypeCount)
  BY <1>1, IntakeRequestType
<1>3. PICK m \in Cycle!Request :
        /\ m.op \in {"create", "save"} /\ m.cycle = n.cycle /\ m.types = n.types /\ m.row = n.row
        /\ Cycle!Become(w, m)
  <2>1. n \in [op : {"rows", "create", "save", "write"}, cycle : 1..CycleCount,
               types : SUBSET (1..TypeCount), row : Cycle!CycleRow]
    BY <1>1 DEF Cycle!Request, Cycle!Idle
  <2>2. ASSUME NEW op \in {"create", "save"}
        PROVE  LET m == [n EXCEPT !.op = op]
               IN  m \in Cycle!Request /\ m.op = op /\ m.cycle = n.cycle /\ m.types = n.types /\ m.row = n.row
    BY <2>1 DEF Cycle!Request
  <2>3. QED BY <1>1, <2>2 DEF Cycle!DeleteLinks, Cycle!CreateLinks
<1>4. Relies(m)'
  BY <1>1, <1>3 DEF Relies, Cycle!DeleteLinks, Cycle!CreateLinks
<1>5. /\ UNCHANGED <<v1, v3, v4, v5>>
      /\ \/ v2' = [v2 EXCEPT ![n.cycle] = {}]
         \/ v2' = [v2 EXCEPT ![n.cycle] = @ \cup n.types]
  BY <1>1 DEF Cycle!DeleteLinks, Cycle!CreateLinks
<1>6. v2' \in [1..CycleCount -> SUBSET (1..TypeCount)]
  BY <1>2, <1>5, IntakeTypes
<1>7. ASSUME NEW c \in 1..CycleCount, NEW t, t \in v2'[c]
      PROVE  t \in v2[c] \/ Cycle!Chosen(c, t)
  <2>1. n.types \in v4[n.cycle]
    BY <1>1 DEF Relies
  <2>2. t \in v2[c] \/ (c = n.cycle /\ t \in n.types)
    BY <1>2, <1>5, <1>7, IntakeTypes
  <2>3. QED BY <2>1, <2>2 DEF Cycle!Chosen
<1>8. ASSUME NEW c \in 1..CycleCount
      PROVE  v2'[c] = v2[c] \/ v2'[c] = {}
               \/ \E types \in v4[c] : types # {} /\ types \subseteq v2'[c]
  <2>1. CASE c # n.cycle \/ n.types = {}
    BY <1>2, <1>5, <2>1, IntakeTypes
  <2>2. CASE c = n.cycle /\ n.types # {}
    <3>1. n.types \in v4[c]
      BY <1>1, <2>2 DEF Relies
    <3>2. v2'[c] = {} \/ n.types \subseteq v2'[c]
      BY <1>2, <1>5, <2>2, IntakeTypes
    <3>3. QED BY <2>2, <3>1, <3>2
  <2>3. QED BY <2>1, <2>2
<1>9. QED BY <1>3, <1>4, <1>5, <1>6, <1>7, <1>8, IntakeTypes, IntakeStep

(* AdmissionCycle.save.                                                    *)
LEMMA SaveCycleSteps ==
  ASSUME Cycle!OfferedInv, NEW w \in Workers, Cycle!ClearOthers(w) \/ Cycle!SaveCycle(w)
  PROVE  Cycle!OfferedInv'
<1>1. PICK n \in Cycle!Request : n = memory[w] /\ n.op \in {"save", "write"} /\ Relies(n)
  BY OfferedParts DEF Cycle!ClearOthers, Cycle!SaveCycle
<1>2. n.cycle \in 1..CycleCount /\ n.types \in SUBSET (1..TypeCount) /\ n.row \in Cycle!CycleRow
  BY <1>1, IntakeRequestType
<1>3. UNCHANGED <<v2, v3, v4, v5>>
  BY DEF Cycle!ClearOthers, Cycle!SaveCycle
<1>4. CASE Cycle!ClearOthers(w)
  <2>1. PICK m : m = [n EXCEPT !.op = "write"]
    OBVIOUS
  <2>2. m \in Cycle!Request /\ m.op = "write" /\ m.cycle = n.cycle /\ m.types = n.types /\ m.row = n.row
    <3>1. n \in [op : {"rows", "create", "save", "write"}, cycle : 1..CycleCount,
                 types : SUBSET (1..TypeCount), row : Cycle!CycleRow]
      BY <1>1 DEF Cycle!Request, Cycle!Idle
    <3>2. QED BY <2>1, <3>1 DEF Cycle!Request
  <2>3. Cycle!Become(w, m) /\ v1' = [c \in 1..CycleCount |-> IF c = n.cycle THEN v1[c]
                                       ELSE [v1[c] EXCEPT !.active = "no"]]
    BY <1>1, <1>4, <2>1 DEF Cycle!ClearOthers
  <2>4. Relies(m)
    BY <1>1, <2>2 DEF Relies
  <2>5. Relies(m)'
    BY <1>3, <2>4 DEF Relies, Cycle!ChosenPrimary, Cycle!Offered
  <2>6. \A c \in 1..CycleCount : /\ [v1[c] EXCEPT !.active = "no"] \in Cycle!CycleRow
                                 /\ [v1[c] EXCEPT !.active = "no"].active = "no"
    BY IntakeTypes DEF Cycle!CycleRow
  <2>7. /\ v1' \in [1..CycleCount -> Cycle!CycleRow]
        /\ \A c \in 1..CycleCount : v1'[c].active = "yes" => v1'[c] = v1[c]
    BY <2>3, <2>6, IntakeTypes
  <2>8. QED BY <1>3, <2>2, <2>3, <2>5, <2>7, IntakeTypes, IntakeStep
<1>5. CASE Cycle!SaveCycle(w)
  <2>1. v1' = [v1 EXCEPT ![n.cycle] = n.row] /\ Cycle!Become(w, Cycle!Idle)
    BY <1>1, <1>5 DEF Cycle!SaveCycle
  <2>2. Cycle!ChosenPrimary(n.cycle, n.row.primary)
    BY <1>1 DEF Relies, Cycle!ChosenPrimary
  <2>3. /\ v1' \in [1..CycleCount -> Cycle!CycleRow]
        /\ \A c \in 1..CycleCount : v1'[c].active = "yes" =>
             v1'[c] = v1[c] \/ Cycle!ChosenPrimary(c, v1'[c].primary)
    BY <1>2, <2>1, <2>2, IntakeTypes
  <2>4. Relies(Cycle!Idle)'
    BY IdleRequest DEF Relies
  <2>5. QED BY <1>3, <2>1, <2>3, <2>4, IdleRequest, IntakeTypes, IntakeStep
<1>6. QED BY <1>4, <1>5

(* The applicant's form.                                                   *)
LEMMA FormSteps ==
  ASSUME Cycle!OfferedInv, NEW w \in Workers, Cycle!FetchCycle(w) \/ Cycle!Drop(w)
  PROVE  Cycle!OfferedInv'
<1>1. CASE Cycle!FetchCycle(w)
  <2>1. Cycle!Active \in SUBSET (0..CycleCount) /\ Cycle!Active # {}
    BY <1>1, CountAssumption DEF Cycle!FetchCycle, Cycle!Active
  <2>2. Cycle!Max(Cycle!Active) \in Cycle!Active
    <3>1. \E n \in Cycle!Active : \A m \in Cycle!Active : n >= m
      BY <2>1, GreatestNumber, CountAssumption
    <3>2. QED BY <3>1 DEF Cycle!Max
  <2>3. PICK c \in Cycle!Active :
          Cycle!Become(w, [op |-> "form", cycle |-> c, primary |-> v1[c].primary])
    BY <1>1, <2>2 DEF Cycle!FetchCycle
  <2>4. /\ c \in 1..CycleCount /\ v1[c] \in Cycle!CycleRow
        /\ Cycle!ChosenPrimary(c, v1[c].primary)
    BY IntakeTypes DEF Cycle!Active, Cycle!OfferedInv
  <2>5. PICK m : m = [op |-> "form", cycle |-> c, primary |-> v1[c].primary]
    OBVIOUS
  <2>6. m \in Cycle!Request /\ m.op = "form" /\ m.cycle = c /\ m.primary = v1[c].primary
    BY <2>4, <2>5 DEF Cycle!Request, Cycle!CycleRow
  <2>7. Relies(m)
    BY <2>4, <2>6 DEF Relies
  <2>8. UNCHANGED <<v1, v2, v3, v4, v5>> /\ Cycle!Become(w, m)
    BY <1>1, <2>3, <2>5 DEF Cycle!FetchCycle
  <2>9. QED BY <2>6, <2>7, <2>8, IntakeQuiet
<1>2. CASE Cycle!Drop(w)
  <2>1. UNCHANGED <<v1, v2, v3, v4, v5>> /\ Cycle!Become(w, Cycle!Idle) /\ Relies(Cycle!Idle)
    BY <1>2, IdleRequest DEF Cycle!Drop, Relies
  <2>2. QED BY <2>1, IdleRequest, IntakeQuiet
<1>3. QED BY <1>1, <1>2

(* What the form lets in the office once chose, unless for_cycle falls     *)
(* back: rows stand for themselves, a primary type for its choice, and no  *)
(* primary type for the choice of every type.                              *)
LEMMA AvailableWasOffered ==
  ASSUME Cycle!OfferedInv, NEW c \in 1..CycleCount,
         NEW primary \in (1..TypeCount) \cup {Cycle!NoType}, Cycle!ChosenPrimary(c, primary),
         NEW type \in Cycle!Available(v2[c], primary)
  PROVE  type \in 1..TypeCount /\ Cycle!Offered(c, type, v5)
<1> DEFINE accepted == Cycle!Accepted(v2[c], primary)
<1>1. type \in 1..TypeCount
  BY DEF Cycle!Available, Cycle!ForCycle
<1>2. type \in accepted \/ accepted \cap (1..TypeCount) \subseteq v5
  BY DEF Cycle!Available, Cycle!ForCycle
<1>3. CASE v2[c] # {}
  <2>1. accepted = v2[c]
    BY <1>3 DEF Cycle!Accepted
  <2>2. CASE type \in v2[c]
    BY <2>2, IntakeTypes DEF Cycle!OfferedInv, Cycle!Chosen, Cycle!Offered
  <2>3. CASE v2[c] \subseteq v5
    <3>1. PICK types \in v4[c] : types # {} /\ types \subseteq v2[c]
      BY <1>3 DEF Cycle!OfferedInv, Cycle!Linked
    <3>2. Cycle!Primary(types) \in types
      BY <3>1, IntakeTypes, PrimaryType
    <3>3. QED BY <1>1, <2>3, <3>1, <3>2 DEF Cycle!Offered
  <2>4. QED BY <1>1, <1>2, <2>1, <2>2, <2>3, IntakeTypes
<1>4. CASE v2[c] = {}
  <2>1. PICK types \in v4[c] : primary = Cycle!Primary(types)
    BY DEF Cycle!ChosenPrimary
  <2>2. types \in SUBSET (1..TypeCount)
    BY IntakeTypes
  <2>3. CASE primary # Cycle!NoType
    <3>1. accepted = {primary} /\ primary \in 1..TypeCount
      BY <1>4, <2>3 DEF Cycle!Accepted
    <3>2. type = primary \/ primary \in v5
      BY <1>2, <3>1
    <3>3. primary \in types
      BY <2>1, <2>2, <2>3, PrimaryType
    <3>4. QED BY <1>1, <2>1, <3>2, <3>3 DEF Cycle!Offered
  <2>4. CASE primary = Cycle!NoType
    BY <1>1, <2>1, <2>2, <2>4, PrimaryType DEF Cycle!Offered
  <2>5. QED BY <2>3, <2>4
<1>5. QED BY <1>3, <1>4

LEMMA CheckFormStep ==
  ASSUME Cycle!OfferedInv, NEW w \in Workers, Cycle!CheckForm(w)
  PROVE  Cycle!OfferedInv'
<1>1. PICK n \in Cycle!Request : n = memory[w] /\ n.op = "form" /\ Relies(n)
  BY OfferedParts DEF Cycle!CheckForm
<1>2. /\ n.cycle \in 1..CycleCount /\ n.primary \in (1..TypeCount) \cup {Cycle!NoType}
      /\ Cycle!ChosenPrimary(n.cycle, n.primary)
  BY <1>1, IntakeRequestType DEF Relies
<1>3. PICK type \in Cycle!Available(v2[n.cycle], n.primary) :
        Cycle!Become(w, [op |-> "valid", cycle |-> n.cycle, type |-> type, off |-> v5])
  BY <1>1 DEF Cycle!CheckForm
<1>4. type \in 1..TypeCount /\ Cycle!Offered(n.cycle, type, v5)
  BY <1>2, AvailableWasOffered
<1>5. PICK m : m = [op |-> "valid", cycle |-> n.cycle, type |-> type, off |-> v5]
  OBVIOUS
<1>6. /\ m \in Cycle!Request /\ m.op = "valid" /\ m.cycle = n.cycle /\ m.type = type
      /\ m.off = v5
  BY <1>2, <1>4, <1>5, IntakeTypes DEF Cycle!Request
<1>7. Relies(m)
  BY <1>4, <1>6 DEF Relies
<1>8. UNCHANGED <<v1, v2, v3, v4, v5>> /\ Cycle!Become(w, m)
  BY <1>3, <1>5 DEF Cycle!CheckForm
<1>9. QED BY <1>6, <1>7, <1>8, IntakeQuiet

LEMMA CreateApplicationStep ==
  ASSUME Cycle!OfferedInv, NEW w \in Workers, NEW a \in Applications,
         Cycle!CreateApplication(w, a)
  PROVE  Cycle!OfferedInv'
<1>1. PICK n \in Cycle!Request : n = memory[w] /\ n.op = "valid" /\ Relies(n)
  BY OfferedParts DEF Cycle!CreateApplication
<1>2. /\ n.cycle \in 1..CycleCount /\ n.type \in 1..TypeCount /\ n.off \in SUBSET (1..TypeCount)
      /\ Cycle!Offered(n.cycle, n.type, n.off)
  BY <1>1, IntakeRequestType DEF Relies
<1>3. PICK row : row = [cycle |-> n.cycle, type |-> n.type, off |-> n.off]
  OBVIOUS
<1>4. /\ UNCHANGED <<v1, v2, v4, v5>> /\ Cycle!Become(w, Cycle!Idle)
      /\ v3' = [v3 EXCEPT ![a] = row]
  BY <1>1, <1>3 DEF Cycle!CreateApplication
<1>5. row \in Cycle!Application /\ row.cycle = n.cycle /\ row.type = n.type /\ row.off = n.off
  BY <1>2, <1>3 DEF Cycle!Application
<1>6. /\ v3' \in [Applications -> Cycle!Application \cup {Cycle!NoApplication}]
      /\ \A b \in Applications : v3'[b] = v3[b] \/ v3'[b] = row
  BY <1>4, <1>5, IntakeTypes
<1>7. \A b \in Applications :
        v3'[b] = v3[b] \/ (v3'[b].cycle \in 1..CycleCount
                           /\ Cycle!Offered(v3'[b].cycle, v3'[b].type, v3'[b].off))
  BY <1>2, <1>5, <1>6
<1>8. Relies(Cycle!Idle)'
  BY IdleRequest DEF Relies
<1>9. QED BY <1>4, <1>6, <1>7, <1>8, IdleRequest, IntakeTypes, IntakeStep

(* Switching a type on or off touches nothing that was chosen.             *)
LEMMA ToggleTypeStep ==
  ASSUME Cycle!OfferedInv, NEW type \in 1..TypeCount, Cycle!ToggleType(type)
  PROVE  Cycle!OfferedInv'
<1>1. UNCHANGED <<v1, v2, v3, v4, memory>> /\ v5' \in SUBSET (1..TypeCount)
  BY IntakeTypes DEF Cycle!ToggleType
<1>2. Cycle!TypeOK' /\ Cycle!TypeWasOffered'
  BY <1>1 DEF Cycle!OfferedInv, Cycle!TypeOK, Cycle!TypeWasOffered
<1>3. QED BY <1>1, <1>2
  DEF Cycle!OfferedInv, Cycle!Linked, Cycle!Chosen, Cycle!ChosenPrimary, Cycle!Offered

LEMMA IntakeNext == Cycle!OfferedInv /\ Cycle!Next => Cycle!OfferedInv'
BY SubmitCycleFormStep, LinkSteps, SaveCycleSteps, FormSteps, CheckFormStep,
   CreateApplicationStep, ToggleTypeStep DEF Cycle!Next, Cycle!OfficeStep, Cycle!ApplicantStep

(***************************************************************************)
(* Accounts.                                                               *)
(***************************************************************************)
(* EduProUser.save touches the staff flag only.                            *)
LEMMA SyncedType ==
  ASSUME NEW row \in Account!User
  PROVE  /\ Account!Synced(row) \in Account!User
         /\ Account!Synced(row).active = row.active
<1>1. PICK staff : Account!Synced(row) = [row EXCEPT !.staff = staff] /\ staff \in {"yes", "no"}
  <2>1. CASE row.role = "admin"
    BY <2>1 DEF Account!Synced, Account!User
  <2>2. CASE row.role = "student"
    BY <2>2 DEF Account!Synced, Account!User
  <2>3. CASE row.role = "teacher"
    BY <2>3 DEF Account!Synced, Account!User
  <2>4. QED BY <2>1, <2>2, <2>3 DEF Account!User, Account!Role
<1>2. QED BY <1>1 DEF Account!User

LEMMA UserType ==
  /\ Account!NoUser \notin Account!User /\ Account!NoUser.active = "no"
  /\ \A role \in Account!Role, active \in {"yes", "no"} :
       Account!NewUser(role, active) \in Account!User
  /\ \A row \in Account!User, flag \in {"yes", "no"} :
       /\ [row EXCEPT !.active = flag] \in Account!User
       /\ [row EXCEPT !.active = flag].active = flag
       /\ [row EXCEPT !.staff = flag] \in Account!User
       /\ [row EXCEPT !.staff = flag].active = row.active
<1>1. \A role \in Account!Role, active \in {"yes", "no"} :
        [role |-> role, active |-> active, staff |-> "no"] \in Account!User
  BY DEF Account!User
<1>2. \A role \in Account!Role, active \in {"yes", "no"} :
        Account!NewUser(role, active) \in Account!User
  BY <1>1, SyncedType DEF Account!NewUser
<1>3. \A row \in Account!User, flag \in {"yes", "no"} :
        /\ [row EXCEPT !.active = flag] \in Account!User
        /\ [row EXCEPT !.active = flag].active = flag
        /\ [row EXCEPT !.staff = flag] \in Account!User
        /\ [row EXCEPT !.staff = flag].active = row.active
  BY DEF Account!User
<1>4. Account!NoUser \notin Account!User /\ Account!NoUser.active = "no"
  BY DEF Account!NoUser, Account!None, Account!User, Account!Role
<1>5. QED BY <1>2, <1>3, <1>4

LEMMA AccountTypes ==
  Account!AccountInv <=>
    /\ v1 \in [Users -> Account!User \cup {Account!NoUser}]
    /\ v2 \in SUBSET Users /\ v4 \in SUBSET Users /\ v6 \in SUBSET Users
    /\ v3 \in [Users -> 0..MaxNumber]
    /\ v5 \in [Users -> {Account!None, "active", "revoked"}]
    /\ memory \in [Workers -> Account!Request]
    /\ \A u \in Users : v5[u] # Account!None => v1[u] # Account!NoUser
BY DEF Account!AccountInv, Account!TypeOK, Account!Exists

LEMMA AccountTypesNext ==
  Account!AccountInv' <=>
    /\ v1' \in [Users -> Account!User \cup {Account!NoUser}]
    /\ v2' \in SUBSET Users /\ v4' \in SUBSET Users /\ v6' \in SUBSET Users
    /\ v3' \in [Users -> 0..MaxNumber]
    /\ v5' \in [Users -> {Account!None, "active", "revoked"}]
    /\ memory' \in [Workers -> Account!Request]
    /\ \A u \in Users : v5'[u] # Account!None => v1'[u] # Account!NoUser
BY DEF Account!AccountInv, Account!TypeOK, Account!Exists

LEMMA AccountRequestType ==
  ASSUME NEW m \in Account!Request
  PROVE  /\ m.op = "bulk" => m.user \in Users /\ m.number \in 1..MaxNumber
         /\ m.op \in {"own", "detail", "approve", "reject", "toggle", "convert", "sync"} =>
              m.user \in Users /\ m.row \in Account!User
BY DEF Account!Request, Account!Idle

LEMMA AccountIdle == Account!Idle \in Account!Request
BY DEF Account!Request

LEMMA AccountBecome ==
  ASSUME Account!AccountInv, NEW w, NEW m \in Account!Request, Account!Become(w, m)
  PROVE  memory' \in [Workers -> Account!Request]
BY AccountTypes DEF Account!Become

LEMMA NumberType ==
  ASSUME Account!AccountInv, NEW U \in SUBSET Users
  PROVE  Account!LastNumber(U) \in Nat
<1>1. PICK T : T = {v3[u] : u \in U} \cup {0}
  OBVIOUS
<1>2. T \in SUBSET (0..MaxNumber) /\ T # {}
  BY <1>1, AccountTypes, CountAssumption
<1>3. \E n \in T : \A m \in T : n >= m
  BY <1>2, GreatestNumber, CountAssumption
<1>4. Account!Max(T) \in T
  BY <1>3 DEF Account!Max
<1>5. QED BY <1>1, <1>2, <1>4, CountAssumption DEF Account!LastNumber

LEMMA AccountInit == Account!Init => Account!AccountInv
<1> SUFFICES ASSUME Account!Init PROVE Account!AccountInv
  OBVIOUS
<1>1. 0 \in 0..MaxNumber
  BY CountAssumption
<1>2. QED BY <1>1, AccountIdle, AccountTypes DEF Account!Init

(* Numbers, profiles and sessions.                                         *)
LEMMA ProfileSteps ==
  ASSUME Account!AccountInv, NEW u \in Users,
         \/ Account!EnsureForStudent(u) \/ Account!ToggleProfile(u)
         \/ Account!Login(u) \/ Account!Logout(u)
  PROVE  Account!AccountInv' /\ v1' = v1
<1>1. Account!NextNumber \in Nat \ {0}
  BY NumberType DEF Account!NextNumber
<1>2. Account!NextNumber <= MaxNumber => Account!NextNumber \in 0..MaxNumber
  BY <1>1, CountAssumption
<1>3. CASE Account!EnsureForStudent(u)
  <2>1. v3' \in [Users -> 0..MaxNumber]
    BY <1>2, <1>3, AccountTypes DEF Account!EnsureForStudent
  <2>2. QED BY <1>3, <2>1, AccountTypes, AccountTypesNext DEF Account!EnsureForStudent
<1>4. CASE Account!ToggleProfile(u)
  BY <1>4, AccountTypes, AccountTypesNext DEF Account!ToggleProfile
<1>5. CASE Account!Login(u) \/ Account!Logout(u)
  BY <1>5, AccountTypes, AccountTypesNext DEF Account!Login, Account!Logout
<1>6. QED BY <1>3, <1>4, <1>5

(* New rows: an account that the step makes active is a decision.          *)
LEMMA NewAccountSteps ==
  ASSUME Account!AccountInv, NEW u \in Users, Account!Register(u) \/ Account!AdminCreateUser(u)
  PROVE  /\ Account!AccountInv'
         /\ \A x \in Users : Account!Activates(x) => Account!Decided(x)
<1>1. PICK row \in Account!User :
        /\ v1' = [v1 EXCEPT ![u] = row]
        /\ Account!Register(u) => row.active = "no"
  <2>1. CASE Account!Register(u)
    <3>1. Account!Pending \in Account!User /\ Account!Pending.active = "no"
      <4>1. PICK row : row = [role |-> "teacher", active |-> "no", staff |-> "no"]
        OBVIOUS
      <4>2. row \in Account!User /\ row.active = "no"
        BY <4>1 DEF Account!User, Account!Role
      <4>3. QED BY <4>1, <4>2, SyncedType DEF Account!Pending, Account!NewUser
    <3>2. QED BY <2>1, <3>1 DEF Account!Register
  <2>2. CASE Account!AdminCreateUser(u) /\ ~Account!Register(u)
    <3>1. PICK role \in Account!Role, active \in {"yes", "no"} :
            v1' = [v1 EXCEPT ![u] = Account!NewUser(role, active)]
      BY <2>2 DEF Account!AdminCreateUser, Account!Role
    <3>2. QED BY <2>2, <3>1, UserType
  <2>3. QED BY <2>1, <2>2
<1>2. Account!NextNumber \in Nat \ {0}
  BY NumberType DEF Account!NextNumber
<1>3. v3' \in [Users -> 0..MaxNumber]
  <2>1. Account!NextNumber <= MaxNumber => Account!NextNumber \in 0..MaxNumber
    BY <1>2, CountAssumption
  <2>2. QED BY <2>1, AccountTypes DEF Account!Register, Account!AdminCreateUser
<1>4. UNCHANGED <<v2, v4, v5, v6, memory>>
  BY DEF Account!Register, Account!AdminCreateUser
<1>5. Account!AccountInv'
  BY <1>1, <1>3, <1>4, UserType, AccountTypes, AccountTypesNext
<1>6. ASSUME NEW x \in Users, Account!Activates(x) PROVE Account!Decided(x)
  <2>1. v1[x].active = "no" /\ v1'[x].active = "yes"
    BY <1>6 DEF Account!Activates
  <2>2. x = u /\ ~Account!Register(u)
    BY <1>1, <2>1, AccountTypes
  <2>3. ~Account!Exists(u) /\ Account!AdminCreateUser(u)
    BY <2>2 DEF Account!AdminCreateUser, Account!Unused
  <2>4. QED BY <2>2, <2>3 DEF Account!Decided
<1>7. QED BY <1>5, <1>6

LEMMA UpdateActiveStep ==
  ASSUME Account!AccountInv, NEW u \in Users, Account!UpdateActive(u)
  PROVE  /\ Account!AccountInv'
         /\ \A x \in Users : Account!Activates(x) => Account!Decided(x)
<1>1. v1[u] \in Account!User
  BY AccountTypes DEF Account!UpdateActive, Account!Exists
<1>2. PICK flag \in {"yes", "no"} : v1' = [v1 EXCEPT ![u].active = flag]
  BY AccountTypes DEF Account!UpdateActive
<1>3. PICK row \in Account!User : row = [v1[u] EXCEPT !.active = flag]
  BY <1>1, UserType
<1>4. v1' = [v1 EXCEPT ![u] = row] /\ UNCHANGED <<v2, v3, v4, v5, v6, memory>>
  BY <1>2, <1>3 DEF Account!UpdateActive
<1>5. Account!AccountInv'
  BY <1>4, UserType, AccountTypes, AccountTypesNext
<1>6. \A x \in Users : Account!Activates(x) => x = u
  BY <1>4, AccountTypes DEF Account!Activates
<1>7. Account!Decided(u)
  BY DEF Account!Decided
<1>8. QED BY <1>5, <1>6, <1>7

LEMMA BulkSteps ==
  ASSUME Account!AccountInv, NEW w \in Workers,
         Account!BulkProfile(w) \/ \E u \in Users : Account!BulkRow(w, u)
  PROVE  /\ Account!AccountInv'
         /\ \A x \in Users : Account!Activates(x) => Account!Decided(x)
<1>1. CASE Account!BulkProfile(w)
  <2>1. memory[w].user \in Users /\ memory[w].number \in 0..MaxNumber
    BY <1>1, AccountTypes, AccountRequestType, CountAssumption DEF Account!BulkProfile
  <2>2. v3' \in [Users -> 0..MaxNumber] /\ UNCHANGED <<v1, v2, v4, v5, v6>>
    BY <1>1, <2>1, AccountTypes DEF Account!BulkProfile
  <2>3. memory' \in [Workers -> Account!Request]
    BY <1>1, AccountBecome, AccountIdle DEF Account!BulkProfile
  <2>4. QED BY <2>2, <2>3, AccountTypes, AccountTypesNext DEF Account!Activates
<1>2. ASSUME NEW u \in Users, Account!BulkRow(w, u)
      PROVE  /\ Account!AccountInv'
             /\ \A x \in Users : Account!Activates(x) => Account!Decided(x)
  <2>1. PICK n : n = Account!BulkNumber
    OBVIOUS
  <2>2. n \in 1..MaxNumber
    BY <1>2, <2>1, NumberType, CountAssumption DEF Account!BulkRow, Account!BulkNumber
  <2>3. PICK row \in Account!User : v1' = [v1 EXCEPT ![u] = row]
    BY <1>2, UserType DEF Account!BulkRow, Account!Role
  <2>4. UNCHANGED <<v2, v3, v4, v5, v6>>
    BY <1>2 DEF Account!BulkRow
  <2>5. memory' \in [Workers -> Account!Request]
    <3>1. [op |-> "bulk", user |-> u, number |-> n] \in Account!Request
      BY <2>2 DEF Account!Request
    <3>2. QED BY <1>2, <2>1, <3>1, AccountBecome DEF Account!BulkRow
  <2>6. Account!AccountInv'
    BY <2>3, <2>4, <2>5, UserType, AccountTypes, AccountTypesNext
  <2>7. \A x \in Users : Account!Activates(x) => x = u
    BY <2>3, AccountTypes DEF Account!Activates
  <2>8. Account!Decided(u)
    BY <1>2 DEF Account!Decided
  <2>9. QED BY <2>6, <2>7, <2>8
<1>3. QED BY <1>1, <1>2

(* A user is fetched, or a request ends.                                   *)
LEMMA FetchUserSteps ==
  ASSUME Account!AccountInv, NEW w \in Workers,
         Account!Drop(w) \/ \E u \in Users : Account!OpenForm(w, u) \/ Account!OpenDecision(w, u)
  PROVE  Account!AccountInv' /\ v1' = v1
<1>1. UNCHANGED <<v1, v2, v3, v4, v5, v6>>
  BY DEF Account!Drop, Account!OpenForm, Account!OpenDecision
<1>2. PICK m \in Account!Request : Account!Become(w, m)
  <2>1. CASE Account!Drop(w)
    BY <2>1, AccountIdle DEF Account!Drop
  <2>2. ASSUME NEW u \in Users, Account!OpenForm(w, u) \/ Account!OpenDecision(w, u)
        PROVE  \E m \in Account!Request : Account!Become(w, m)
    <3>1. PICK op \in {"own", "detail", "approve", "reject", "toggle", "convert"} :
            Account!Become(w, [op |-> op, user |-> u, row |-> v1[u]])
      BY <2>2 DEF Account!OpenForm, Account!OpenDecision
    <3>2. v1[u] \in Account!User
      BY <2>2, AccountTypes DEF Account!OpenForm, Account!OpenDecision, Account!Exists
    <3>3. [op |-> op, user |-> u, row |-> v1[u]] \in Account!Request
      BY <3>2 DEF Account!Request
    <3>4. QED BY <3>1, <3>3
  <2>3. QED BY <2>1, <2>2
<1>3. QED BY <1>1, <1>2, AccountBecome, AccountTypes, AccountTypesNext

(* Forms and decisions save what they fetched or decided.                  *)
LEMMA SaveUserSteps ==
  ASSUME Account!AccountInv, NEW w \in Workers,
         Account!SaveForm(w) \/ Account!ApproveUser(w) \/ Account!ToggleUserActive(w)
  PROVE  /\ Account!AccountInv'
         /\ \A x \in Users : Account!Activates(x) => Account!Decided(x)
<1>1. PICK m \in Account!Request : m = memory[w]
  BY AccountTypes
<1>2. /\ m.op \in {"own", "detail", "approve", "toggle"}
      /\ m.user \in Users /\ m.row \in Account!User
  BY <1>1, AccountRequestType
     DEF Account!SaveForm, Account!ApproveUser, Account!ToggleUserActive
<1>3. PICK row \in Account!User :
        /\ v1' = [v1 EXCEPT ![m.user] = row]
        /\ m.op \in {"own", "detail"} => row.active = m.row.active
  <2>1. CASE Account!SaveForm(w)
    BY <1>1, <1>2, <2>1, SyncedType DEF Account!SaveForm
  <2>2. CASE Account!ApproveUser(w) \/ Account!ToggleUserActive(w)
    <3>1. PICK flag \in {"yes", "no"} : Account!SaveActive(w, flag)
      BY <2>2 DEF Account!ApproveUser, Account!ToggleUserActive
    <3>2. v1[m.user] \in Account!User
      BY <1>1, <1>2, <3>1, AccountTypes DEF Account!SaveActive, Account!Exists
    <3>3. [v1[m.user] EXCEPT !.active = flag] \in Account!User
      BY <3>2, UserType
    <3>4. m.op \notin {"own", "detail"}
      BY <1>1, <2>2 DEF Account!ApproveUser, Account!ToggleUserActive
    <3>5. QED BY <1>1, <3>1, <3>3, <3>4 DEF Account!SaveActive
  <2>3. QED BY <2>1, <2>2
<1>4. /\ UNCHANGED <<v2, v3, v4, v5, v6>>
      /\ Account!Become(w, Account!Idle)
  BY DEF Account!SaveForm, Account!ApproveUser, Account!ToggleUserActive, Account!SaveActive
<1>5. Account!AccountInv'
  BY <1>3, <1>4, UserType, AccountIdle, AccountBecome, AccountTypes, AccountTypesNext
<1>6. ASSUME NEW x \in Users, Account!Activates(x) PROVE Account!Decided(x)
  <2>1. v1[x].active = "no" /\ v1'[x].active = "yes"
    BY <1>6 DEF Account!Activates
  <2>2. x = m.user /\ row.active = "yes"
    BY <1>3, <2>1, AccountTypes
  <2>3. memory[w] # Account!Idle
    BY <1>1, <1>2 DEF Account!Idle
  <2>4. \/ memory[w].op \in {"approve", "toggle"}
        \/ memory[w].op \in {"own", "detail"} /\ memory[w].row.active = "yes"
    BY <1>1, <1>2, <1>3, <2>2
  <2>5. QED BY <1>1, <2>2, <2>3, <2>4 DEF Account!Decided
<1>7. QED BY <1>5, <1>6

(* A conversion activates the user it fetched and no other.                *)
LEMMA ConvertUserStep ==
  ASSUME Account!AccountInv, NEW w \in Workers, Account!ConvertUser(w)
  PROVE  /\ Account!AccountInv'
         /\ \A x \in Users : Account!Activates(x) => Account!Decided(x)
<1>1. PICK u \in Users : u = memory[w].user
  BY AccountTypes, AccountRequestType DEF Account!ConvertUser
<1>2. v1[u] \in Account!User
  BY <1>1, AccountTypes DEF Account!ConvertUser, Account!Exists
<1>3. PICK active \in {"yes", "no"}, role \in Account!Role :
        v1' = [v1 EXCEPT ![u].active = active, ![u].role = role]
  <2>1. v1[u].active \in {"yes", "no"} /\ v1[u].role \in Account!Role /\ "student" \in Account!Role
    BY <1>2 DEF Account!User, Account!Role
  <2>2. QED BY <1>1, <2>1, AccountTypes DEF Account!ConvertUser
<1>4. PICK row : row = [v1[u] EXCEPT !.active = active, !.role = role]
  OBVIOUS
<1>5. row \in Account!User /\ v1' = [v1 EXCEPT ![u] = row]
  BY <1>2, <1>3, <1>4, AccountTypes DEF Account!User
<1>6. v3' \in [Users -> 0..MaxNumber]
  <2>1. Account!NextNumber \in Nat
    BY NumberType DEF Account!NextNumber
  <2>2. Account!NextNumber <= MaxNumber => Account!NextNumber \in 0..MaxNumber
    BY <2>1, CountAssumption
  <2>3. QED BY <1>1, <2>2, AccountTypes DEF Account!ConvertUser
<1>7. v4' \in SUBSET Users /\ UNCHANGED <<v2, v5, v6>> /\ Account!Become(w, Account!Idle)
  BY AccountTypes DEF Account!ConvertUser
<1>8. Account!AccountInv'
  BY <1>5, <1>6, <1>7, UserType, AccountIdle, AccountBecome, AccountTypes, AccountTypesNext
<1>9. ASSUME NEW x \in Users, Account!Activates(x) PROVE Account!Decided(x)
  <2>1. x = u
    BY <1>5, <1>9, AccountTypes DEF Account!Activates
  <2>2. memory[w].op = "convert" /\ memory[w] # Account!Idle
    BY DEF Account!ConvertUser, Account!Idle
  <2>3. QED BY <1>1, <2>1, <2>2 DEF Account!Decided
<1>10. QED BY <1>8, <1>9

LEMMA RejectUserStep ==
  ASSUME Account!AccountInv, NEW w \in Workers, Account!RejectUser(w)
  PROVE  /\ Account!AccountInv'
         /\ \A x \in Users : ~Account!Activates(x)
<1>1. PICK u \in Users : u = memory[w].user
  BY AccountTypes, AccountRequestType DEF Account!RejectUser
<1>2. /\ v1' = [v1 EXCEPT ![u] = Account!NoUser] /\ v3' = [v3 EXCEPT ![u] = 0]
      /\ v5' = [v5 EXCEPT ![u] = Account!None] /\ v4' = v4 \ {u} /\ v2' = v2 \cup {u}
      /\ Account!Become(w, Account!Idle) /\ v6' = v6
  BY <1>1 DEF Account!RejectUser
<1>3. 0 \in 0..MaxNumber
  BY CountAssumption
<1>4. Account!AccountInv'
  BY <1>2, <1>3, AccountIdle, AccountBecome, AccountTypes, AccountTypesNext
<1>5. QED BY <1>2, <1>4, UserType, AccountTypes DEF Account!Activates

(* Responsibilities touch no active flag.                                  *)
LEMMA HodSteps ==
  ASSUME Account!AccountInv, NEW w \in Workers,
         \/ \E u \in Users : Account!GrantHod(w, u) \/ Account!RevokeStaffRole(w, u)
         \/ Account!SyncHodStaffStatus(w)
  PROVE  /\ Account!AccountInv'
         /\ \A x \in Users : ~Account!Activates(x)
<1>1. ASSUME NEW u \in Users, Account!GrantHod(w, u) \/ Account!RevokeStaffRole(w, u)
      PROVE  Account!AccountInv' /\ v1' = v1
  <2>1. v1[u] \in Account!User
    BY <1>1, AccountTypes DEF Account!GrantHod, Account!RevokeStaffRole, Account!Exists
  <2>2. [op |-> "sync", user |-> u, row |-> v1[u]] \in Account!Request
    BY <2>1 DEF Account!Request
  <2>3. memory' \in [Workers -> Account!Request] /\ UNCHANGED <<v1, v2, v3, v4, v6>>
    BY <1>1, <2>2, AccountBecome DEF Account!GrantHod, Account!RevokeStaffRole
  <2>4. PICK flag \in {"active", "revoked"} : v5' = [v5 EXCEPT ![u] = flag]
    BY <1>1 DEF Account!GrantHod, Account!RevokeStaffRole
  <2>5. QED BY <2>1, <2>3, <2>4, UserType, AccountTypes, AccountTypesNext
<1>2. CASE Account!SyncHodStaffStatus(w)
  <2>1. PICK u \in Users : u = memory[w].user
    BY <1>2, AccountTypes, AccountRequestType DEF Account!SyncHodStaffStatus
  <2>2. PICK flag \in {"yes", "no"} :
          \/ v1' = v1
          \/ Account!Exists(u) /\ v1' = [v1 EXCEPT ![u].staff = flag]
    BY <1>2, <2>1 DEF Account!SyncHodStaffStatus
  <2>3. /\ UNCHANGED <<v2, v3, v4, v5, v6>>
        /\ memory' \in [Workers -> Account!Request]
    BY <1>2, AccountIdle, AccountBecome DEF Account!SyncHodStaffStatus
  <2>4. CASE v1' = v1
    BY <2>3, <2>4, AccountTypes, AccountTypesNext DEF Account!Activates
  <2>5. CASE v1' # v1
    <3>1. PICK row : row = [v1[u] EXCEPT !.staff = flag]
      OBVIOUS
    <3>2. v1[u] \in Account!User
      BY <2>2, <2>5, AccountTypes DEF Account!Exists
    <3>3. row \in Account!User /\ row.active = v1[u].active
      BY <2>2, <3>1, <3>2, UserType
    <3>4. v1' = [v1 EXCEPT ![u] = row]
      BY <2>2, <2>5, <3>1
    <3>5. QED BY <2>3, <3>3, <3>4, UserType, AccountTypes, AccountTypesNext DEF Account!Activates
  <2>6. QED BY <2>4, <2>5
<1>3. v1' = v1 => \A x \in Users : ~Account!Activates(x)
  BY DEF Account!Activates
<1>4. QED BY <1>1, <1>2, <1>3

LEMMA AccountNext ==
  Account!AccountInv /\ Account!Next =>
    /\ Account!AccountInv'
    /\ \A x \in Users : Account!Activates(x) => Account!Decided(x)
<1> SUFFICES ASSUME Account!AccountInv, Account!Next
             PROVE  /\ Account!AccountInv'
                    /\ \A x \in Users : Account!Activates(x) => Account!Decided(x)
  OBVIOUS
<1>1. v1' = v1 => \A x \in Users : ~Account!Activates(x)
  BY DEF Account!Activates
<1>2. ASSUME NEW w \in Workers, Account!AdminStep(w) \/ Account!SaveForm(w)
      PROVE  /\ Account!AccountInv'
             /\ \A x \in Users : Account!Activates(x) => Account!Decided(x)
  BY <1>1, <1>2, BulkSteps, FetchUserSteps, SaveUserSteps, ConvertUserStep,
      RejectUserStep, HodSteps
     DEF Account!AdminStep
<1>3. QED BY <1>1, <1>2, FetchUserSteps, ProfileSteps, NewAccountSteps, UpdateActiveStep
     DEF Account!Next


(***************************************************************************)
(* Documents.                                                              *)
(***************************************************************************)
(* The rows of one document: no version without the one before it, which   *)
(* was inserted earlier.                                                   *)
Numbered(list) ==
  /\ list \in Seq(Document!Document) /\ Len(list) <= MaxVersions
  /\ \A i \in DOMAIN list :
       /\ list[i].version <= i
       /\ list[i].version = 1 \/ \E j \in 1..(i - 1) : list[j].version = list[i].version - 1

(* What a request holds still fits the tables it read.                     *)
Fits(m, list, asked) ==
  /\ m.op = "upload" =>
       /\ m.version = 1
            \/ \E j \in DOMAIN list[m.slot] : list[m.slot][j].version = m.version - 1
       /\ m.version <= Len(list[m.slot]) + 1
  /\ m.op \in {"request", "file"} => asked[m.request] # Document!NoRequest

AskedStatus == {"none", "pending", "fulfilled"}
AskedTable == [Papers -> [status : AskedStatus, file : {"yes", "no"}]]

LEMMA VersionParts ==
  Document!VersionInv <=>
    /\ v1 \in Document!Workflow /\ v2 \in {"yes", "no"}
    /\ v3 \in [Slots -> Seq(Document!Document)] /\ \A s \in Slots : Numbered(v3[s])
    /\ v4 \in AskedTable
    /\ memory \in [Workers -> Document!Request]
    /\ \A w \in Workers : Fits(memory[w], v3, v4)
BY DEF Document!VersionInv, Document!TypeOK, Document!Follows, Document!None,
       Numbered, Fits, AskedTable, AskedStatus

LEMMA VersionPartsNext ==
  Document!VersionInv' <=>
    /\ v1' \in Document!Workflow /\ v2' \in {"yes", "no"}
    /\ v3' \in [Slots -> Seq(Document!Document)] /\ \A s \in Slots : Numbered(v3'[s])
    /\ v4' \in AskedTable
    /\ memory' \in [Workers -> Document!Request]
    /\ \A w \in Workers : Fits(memory'[w], v3', v4')
BY DEF Document!VersionInv, Document!TypeOK, Document!Follows, Document!None,
       Numbered, Fits, AskedTable, AskedStatus

LEMMA DocumentWorkflow ==
  {"draft", "submitted", "under_review", "needs_correction", "resubmitted", "rejected"}
    \subseteq Document!Workflow
BY DEF Document!Workflow, Document!TRANSITIONS

LEMMA DocumentRequestType ==
  ASSUME NEW m \in Document!Request
  PROVE  /\ m.op = "upload" =>
              m.slot \in Slots /\ m.version \in 1..MaxVersions /\ m.revoked \in 0..MaxVersions
         /\ m.op \in {"request", "file"} => m.request \in Papers
         /\ m.op = "request" =>
              [m EXCEPT !.op = "file"] = [op |-> "file", request |-> m.request]
BY DEF Document!Request, Document!Idle

LEMMA DocumentIdle ==
  /\ Document!Idle \in Document!Request
  /\ \A list, asked : Fits(Document!Idle, list, asked)
BY DEF Document!Request, Document!Idle, Fits

LEMMA DocumentInit == Document!Init => Document!VersionInv
<1> SUFFICES ASSUME Document!Init PROVE Document!VersionInv
  OBVIOUS
<1>1. <<>> \in Seq(Document!Document) /\ Numbered(<<>>)
  BY CountAssumption DEF Numbered
<1>2. Document!NoRequest \in [status : AskedStatus, file : {"yes", "no"}]
  BY DEF Document!NoRequest, Document!None, AskedStatus
<1>3. QED BY <1>1, <1>2, DocumentIdle, DocumentWorkflow, VersionParts
          DEF Document!Init, AskedTable

(* The version an upload is given follows the newest row's.                *)
LEMMA NewestIsThere ==
  ASSUME Document!VersionInv, NEW s \in Slots, v3[s] # <<>>
  PROVE  Document!Newest(s) \in 1..Len(v3[s])
<1>1. PICK list \in Seq(Document!Document) : list = v3[s] /\ list # <<>>
  BY VersionParts
<1>2. /\ Len(list) \in Nat /\ Len(list) >= 1 /\ DOMAIN list = 1..Len(list)
      /\ \A i \in 1..Len(list) : list[i].version \in 1..MaxVersions
  <2>1. Len(list) \in Nat /\ Len(list) # 0 /\ DOMAIN list = 1..Len(list)
    BY <1>1
  <2>2. \A i \in 1..Len(list) : list[i] \in Document!Document
    BY <1>1
  <2>3. \A d \in Document!Document : d.version \in 1..MaxVersions
    BY DEF Document!Document
  <2>4. QED BY <2>1, <2>2, <2>3
<1> DEFINE V == {list[i].version : i \in 1..Len(list)}
<1>3. V \in SUBSET (0..MaxVersions) /\ V # {}
  BY <1>2, CountAssumption
<1>4. PICK n \in V : \A m \in V : n >= m
  <2> HIDE DEF V
  <2>1. QED BY <1>3, GreatestNumber, CountAssumption
<1>5. PICK I : I = {i \in 1..Len(list) : list[i].version = n}
  OBVIOUS
<1>6. I \in SUBSET (0..Len(list)) /\ I # {} /\ Len(list) \in Nat
  BY <1>2, <1>4, <1>5
<1>7. PICK i \in I : \A j \in I : i >= j
  BY <1>6, GreatestNumber
<1>8. \A j \in DOMAIN list :
        \/ list[j].version < list[i].version
        \/ list[j].version = list[i].version /\ j <= i
  <2> SUFFICES ASSUME NEW j \in DOMAIN list
               PROVE  \/ list[j].version < list[i].version
                      \/ list[j].version = list[i].version /\ j <= i
    OBVIOUS
  <2>1. list[j].version <= n /\ list[i].version = n /\ n \in Nat
    BY <1>2, <1>4, <1>5, <1>7
  <2>2. list[j].version = n => j <= i
    BY <1>2, <1>5, <1>7
  <2>3. QED BY <1>2, <2>1, <2>2
<1>9. i \in DOMAIN list
  BY <1>2, <1>5, <1>7
<1>10. Document!Newest(s) \in DOMAIN list
  BY <1>1, <1>8, <1>9 DEF Document!Newest
<1>11. QED BY <1>1, <1>2, <1>10

LEMMA NextVersionFollows ==
  ASSUME Document!VersionInv, NEW s \in Slots, Len(v3[s]) < MaxVersions
  PROVE  LET n == Document!NextVersion(s) IN
           /\ n \in 1..MaxVersions /\ n <= Len(v3[s]) + 1
           /\ n = 1 \/ \E j \in 1..Len(v3[s]) : v3[s][j].version = n - 1
<1>1. v3[s] \in Seq(Document!Document) /\ Numbered(v3[s])
  BY VersionParts
<1>2. CASE v3[s] = <<>>
  BY <1>2, CountAssumption DEF Document!NextVersion
<1>3. CASE v3[s] # <<>>
  <2>1. PICK i \in 1..Len(v3[s]) : i = Document!Newest(s)
    BY <1>3, NewestIsThere
  <2>2. v3[s][i] \in Document!Document /\ v3[s][i].version <= i
    BY <1>1 DEF Numbered
  <2>3. v3[s][i].version \in 1..MaxVersions
    BY <2>2 DEF Document!Document
  <2>4. Document!NextVersion(s) = v3[s][i].version + 1
    BY <1>3, <2>1 DEF Document!NextVersion
  <2>5. v3[s][i].version <= Len(v3[s])
    BY <1>1, <2>1, <2>2, <2>3
  <2>6. QED BY <1>1, <2>1, <2>3, <2>4, <2>5, CountAssumption
<1>4. QED BY <1>2, <1>3


LEMMA DocumentBecome ==
  ASSUME Document!VersionInv, NEW w, NEW m \in Document!Request, Fits(m, v3, v4),
         v1' \in Document!Workflow, UNCHANGED <<v2, v3, v4>>,
         Document!Become(w, m) \/ memory' = memory
  PROVE  Document!VersionInv'
<1>1. memory' \in [Workers -> Document!Request]
  BY VersionParts DEF Document!Become
<1>2. \A x \in Workers : Fits(memory'[x], v3, v4)
  BY VersionParts DEF Document!Become
<1>3. QED BY <1>1, <1>2, VersionParts, VersionPartsNext

(* A document whose rows keep their versions keeps what was read of it.    *)
LEMMA DocumentRows ==
  ASSUME Document!VersionInv, NEW s \in Slots, NEW list, Numbered(list),
         Len(list) >= Len(v3[s]),
         \A i \in 1..Len(v3[s]) : list[i].version = v3[s][i].version,
         v3' = [v3 EXCEPT ![s] = list], UNCHANGED <<v1, v2, v4>>,
         \A w \in Workers : memory'[w] \in {memory[w], Document!Idle},
         memory' \in [Workers -> Document!Request]
  PROVE  Document!VersionInv'
<1>1. v3' \in [Slots -> Seq(Document!Document)] /\ \A x \in Slots : Numbered(v3'[x])
  BY VersionParts DEF Numbered
<1>2. list \in Seq(Document!Document) /\ v3[s] \in Seq(Document!Document)
  BY VersionParts DEF Numbered
<1>3. /\ \A x \in Slots : x # s => v3'[x] = v3[x]
      /\ v3'[s] = list
  BY VersionParts
<1>4. \A w \in Workers : Fits(memory[w], v3', v4)
  <2> SUFFICES ASSUME NEW w \in Workers PROVE Fits(memory[w], v3', v4)
    OBVIOUS
  <2>1. Fits(memory[w], v3, v4) /\ memory[w] \in Document!Request
    BY VersionParts
  <2>2. CASE memory[w].op = "upload" /\ memory[w].slot = s
    <3>1. memory[w].version \in Nat
      <4>1. memory[w].version \in 1..MaxVersions
        BY <2>1, <2>2, DocumentRequestType
      <4>2. QED BY <4>1, CountAssumption
    <3>2. Len(list) \in Nat /\ Len(v3[s]) \in Nat
          /\ DOMAIN list = 1..Len(list) /\ DOMAIN v3[s] = 1..Len(v3[s])
      BY <1>2
    <3>3. memory[w].version <= Len(v3[s]) + 1
      BY <2>1, <2>2 DEF Fits
    <3>4. memory[w].version <= Len(list) + 1
      BY <3>1, <3>2, <3>3
    <3>5. memory[w].version = 1
            \/ \E j \in DOMAIN list : list[j].version = memory[w].version - 1
      <4>1. memory[w].version = 1
              \/ \E j \in DOMAIN v3[s] : v3[s][j].version = memory[w].version - 1
        BY <2>1, <2>2 DEF Fits
      <4>2. \A j \in DOMAIN v3[s] : j \in DOMAIN list /\ list[j].version = v3[s][j].version
        BY <3>2
      <4>3. QED BY <4>1, <4>2
    <3>6. QED BY <1>3, <2>2, <3>4, <3>5 DEF Fits
  <2>3. CASE memory[w].op = "upload" /\ memory[w].slot # s
    <3>1. v3'[memory[w].slot] = v3[memory[w].slot]
      BY <1>3, <2>1, <2>3, DocumentRequestType
    <3>2. QED BY <2>1, <2>3, <3>1 DEF Fits
  <2>4. CASE memory[w].op # "upload"
    BY <2>1, <2>4 DEF Fits
  <2>5. QED BY <2>2, <2>3, <2>4
<1>5. \A w \in Workers : Fits(memory'[w], v3', v4')
  BY <1>4, DocumentIdle
<1>6. QED BY <1>1, <1>5, VersionParts, VersionPartsNext

LEMMA ApplicationSteps ==
  ASSUME Document!VersionInv,
         \/ \E w \in Workers :
              \/ Document!OpenSubmit(w) \/ Document!SubmitApplication(w) \/ Document!Drop(w)
         \/ \E stage \in {"submitted", "under_review", "needs_correction", "rejected"} :
              Document!StaffTransition(stage)
         \/ Document!CorrectionResponse
  PROVE  Document!VersionInv'
<1>1. ASSUME NEW w \in Workers,
             Document!OpenSubmit(w) \/ Document!SubmitApplication(w) \/ Document!Drop(w)
      PROVE  Document!VersionInv'
  <2>1. PICK m \in Document!Request : Document!Become(w, m) /\ Fits(m, v3, v4)
    <3>1. CASE Document!OpenSubmit(w)
      <4>1. PICK m : m = [op |-> "submit", status |-> v1]
        OBVIOUS
      <4>2. m \in Document!Request /\ Fits(m, v3, v4)
        BY <4>1, VersionParts DEF Document!Request, Fits
      <4>3. QED BY <3>1, <4>1, <4>2 DEF Document!OpenSubmit
    <3>2. CASE Document!SubmitApplication(w) \/ Document!Drop(w)
      BY <3>2, DocumentIdle DEF Document!SubmitApplication, Document!Drop
    <3>3. QED BY <1>1, <3>1, <3>2
  <2>2. v1' \in Document!Workflow /\ UNCHANGED <<v2, v3, v4>>
    BY <1>1, VersionParts, DocumentWorkflow
       DEF Document!OpenSubmit, Document!SubmitApplication, Document!Drop
  <2>3. QED BY <2>1, <2>2, DocumentBecome
<1>2. ASSUME \/ \E stage \in {"submitted", "under_review", "needs_correction", "rejected"} :
                  Document!StaffTransition(stage)
             \/ Document!CorrectionResponse
      PROVE  Document!VersionInv'
  <2>1. v1' \in Document!Workflow /\ UNCHANGED <<v2, v3, v4, memory>>
    BY <1>2, DocumentWorkflow DEF Document!StaffTransition, Document!CorrectionResponse
  <2>2. QED BY <2>1, DocumentBecome, DocumentIdle
<1>3. QED BY <1>1, <1>2

LEMMA OpenUploadStep ==
  ASSUME Document!VersionInv, NEW w \in Workers, NEW s \in Slots, Document!OpenUpload(w, s)
  PROVE  Document!VersionInv'
<1>1. PICK n, old :
        /\ n = Document!NextVersion(s)
        /\ old = IF v3[s] # <<>> /\ v3[s][Document!Newest(s)].status = "verified"
                 THEN Document!Newest(s) ELSE 0
        /\ Document!Become(w, [op |-> "upload", slot |-> s, version |-> n, revoked |-> old])
  BY DEF Document!OpenUpload
<1>2. /\ n \in 1..MaxVersions /\ n <= Len(v3[s]) + 1
      /\ n = 1 \/ \E j \in DOMAIN v3[s] : v3[s][j].version = n - 1
  <2>1. Len(v3[s]) < MaxVersions /\ DOMAIN v3[s] = 1..Len(v3[s])
    BY VersionParts DEF Document!OpenUpload
  <2>2. QED BY <1>1, <2>1, NextVersionFollows
<1>3. old \in 0..MaxVersions
  <2>1. Len(v3[s]) \in Nat /\ Len(v3[s]) <= MaxVersions
    BY VersionParts DEF Numbered
  <2>2. v3[s] # <<>> => Document!Newest(s) \in 0..MaxVersions
    BY <2>1, NewestIsThere, CountAssumption
  <2>3. QED BY <1>1, <2>2, CountAssumption
<1>4. PICK m : m = [op |-> "upload", slot |-> s, version |-> n, revoked |-> old]
  OBVIOUS
<1>5. m \in Document!Request
  BY <1>2, <1>3, <1>4 DEF Document!Request
<1>6. Fits(m, v3, v4)
  BY <1>2, <1>4 DEF Fits
<1>7. v1' \in Document!Workflow /\ UNCHANGED <<v2, v3, v4>>
  BY VersionParts DEF Document!OpenUpload
<1>8. QED BY <1>1, <1>4, <1>5, <1>6, <1>7, DocumentBecome


LEMMA UploadStep ==
  ASSUME Document!VersionInv, NEW w \in Workers, Document!Upload(w)
  PROVE  Document!VersionInv'
<1>1. PICK s \in Slots, n \in 1..MaxVersions :
        /\ s = memory[w].slot /\ n = memory[w].version
        /\ n = 1 \/ \E j \in DOMAIN v3[s] : v3[s][j].version = n - 1
        /\ n <= Len(v3[s]) + 1
  <2>1. memory[w].op = "upload" /\ memory[w] \in Document!Request /\ Fits(memory[w], v3, v4)
    BY VersionParts DEF Document!Upload
  <2>2. QED BY <2>1, DocumentRequestType DEF Fits
<1>2. PICK list \in Seq(Document!Document) : list = v3[s] /\ Numbered(list)
  BY VersionParts
<1>3. PICK old : old = [i \in DOMAIN list |->
                          IF i = memory[w].revoked
                          THEN [list[i] EXCEPT !.status = "requires_replacement"] ELSE list[i]]
  OBVIOUS
<1>4. PICK d : d = [version |-> n, status |-> "pending"]
  OBVIOUS
<1>5. v3' = [v3 EXCEPT ![s] = Append(old, d)]
  BY <1>1, <1>2, <1>3, <1>4 DEF Document!Upload
<1>6. Len(list) \in Nat /\ DOMAIN list = 1..Len(list) /\ Len(list) < MaxVersions
  BY <1>1, <1>2 DEF Document!Upload
<1>7. \A i \in 1..Len(list) :
        old[i] \in Document!Document /\ old[i].version = list[i].version
  <2>1. \A i \in 1..Len(list) : list[i] \in Document!Document
    BY <1>2
  <2>2. \A e \in Document!Document :
          /\ [e EXCEPT !.status = "requires_replacement"] \in Document!Document
          /\ [e EXCEPT !.status = "requires_replacement"].version = e.version
    BY DEF Document!Document, Document!VerificationStatus
  <2>3. QED BY <1>3, <1>6, <2>1, <2>2
<1>8. old \in Seq(Document!Document) /\ Len(old) = Len(list)
  <2>1. old \in [1..Len(list) -> Document!Document]
    BY <1>3, <1>6, <1>7
  <2>2. QED BY <1>6, <2>1
<1>9. d \in Document!Document
  BY <1>4 DEF Document!Document, Document!VerificationStatus
<1>10. PICK new \in Seq(Document!Document) :
         /\ new = Append(old, d) /\ Len(new) = Len(list) + 1
         /\ new[Len(list) + 1] = d /\ \A i \in 1..Len(list) : new[i] = old[i]
  <2>1. PICK new : new = Append(old, d)
    OBVIOUS
  <2>2. new \in Seq(Document!Document) /\ Len(new) = Len(list) + 1
    BY <1>6, <1>8, <1>9, <2>1
  <2>3. new[Len(list) + 1] = d
    BY <1>6, <1>8, <2>1
  <2>4. \A i \in 1..Len(list) : new[i] = old[i]
    BY <1>6, <1>8, <2>1
  <2>5. QED BY <2>1, <2>2, <2>3, <2>4
<1>11. Numbered(new)
  <2>1. Len(new) <= MaxVersions /\ DOMAIN new = 1..(Len(list) + 1)
    BY <1>6, <1>10, CountAssumption
  <2>2. d.version = n /\ n \in Nat
    BY <1>4, CountAssumption
  <2>3. \A i \in 1..Len(list) :
          /\ list[i].version <= i
          /\ list[i].version = 1 \/ \E j \in 1..(i - 1) : list[j].version = list[i].version - 1
    BY <1>2, <1>6 DEF Numbered
  <2>4. \A i \in 1..Len(list) : new[i].version = list[i].version
    BY <1>7, <1>10
  <2>5. ASSUME NEW i \in 1..Len(list)
        PROVE  /\ new[i].version <= i
               /\ new[i].version = 1 \/ \E j \in 1..(i - 1) : new[j].version = new[i].version - 1
    <3>1. \A j \in 1..(i - 1) : j \in 1..Len(list)
      BY <1>6
    <3>2. QED BY <2>3, <2>4, <2>5, <3>1
  <2>6. n <= Len(list) + 1 /\ (n = 1 \/ \E j \in 1..Len(list) : new[j].version = n - 1)
    BY <1>1, <1>2, <1>6, <2>4
  <2>7. ASSUME NEW i \in 1..(Len(list) + 1)
        PROVE  /\ new[i].version <= i
               /\ new[i].version = 1 \/ \E j \in 1..(i - 1) : new[j].version = new[i].version - 1
    <3>1. CASE i \in 1..Len(list)
      BY <2>5, <3>1
    <3>2. CASE i = Len(list) + 1
      <4>1. new[i].version = n /\ i - 1 = Len(list)
        BY <1>6, <1>10, <2>2, <3>2
      <4>2. QED BY <2>6, <3>2, <4>1
    <3>3. QED BY <1>6, <2>7, <3>1, <3>2
  <2>8. QED BY <1>10, <2>1, <2>7 DEF Numbered
<1>12. \A i \in 1..Len(v3[s]) : new[i].version = v3[s][i].version
  BY <1>2, <1>7, <1>10
<1>13. /\ memory' \in [Workers -> Document!Request]
       /\ \A x \in Workers : memory'[x] \in {memory[x], Document!Idle}
  BY VersionParts, DocumentIdle DEF Document!Upload, Document!Become
<1>14. UNCHANGED <<v1, v2, v4>> /\ v3' = [v3 EXCEPT ![s] = new]
  BY <1>5, <1>10 DEF Document!Upload
<1>15. Len(new) >= Len(v3[s])
  BY <1>2, <1>6, <1>10
<1>16. QED BY <1>11, <1>12, <1>13, <1>14, <1>15, DocumentRows

LEMMA JudgeStep ==
  ASSUME Document!VersionInv, NEW s \in Slots, Document!StaffJudges(s)
  PROVE  Document!VersionInv'
<1>1. PICK i \in DOMAIN v3[s], verdict \in Document!Verdicts : Document!Judge(s, i, verdict)
  BY DEF Document!StaffJudges, Document!DocumentVerify
<1>2. PICK list \in Seq(Document!Document) : list = v3[s] /\ Numbered(list)
  BY VersionParts
<1>3. PICK new : new = [list EXCEPT ![i].status = verdict]
  OBVIOUS
<1>4. v3' = [v3 EXCEPT ![s] = new]
  BY <1>1, <1>2, <1>3 DEF Document!Judge
<1>5. Len(list) \in Nat /\ DOMAIN list = 1..Len(list) /\ i \in 1..Len(list)
  BY <1>1, <1>2
<1>6. PICK row : row = [list[i] EXCEPT !.status = verdict]
  OBVIOUS
<1>7. row \in Document!Document /\ row.version = list[i].version
  <2>1. list[i] \in Document!Document
    BY <1>2, <1>5
  <2>2. QED BY <1>1, <1>6, <2>1
            DEF Document!Document, Document!Verdicts, Document!VerificationStatus
<1>8. new = [list EXCEPT ![i] = row]
  BY <1>3, <1>6
<1>9. /\ new \in Seq(Document!Document) /\ Len(new) = Len(list)
      /\ \A j \in 1..Len(list) : new[j].version = list[j].version
  BY <1>2, <1>5, <1>7, <1>8
<1>10. Numbered(new)
  <2>1. DOMAIN new = 1..Len(list) /\ Len(new) <= MaxVersions
    BY <1>2, <1>9 DEF Numbered
  <2>2. \A j \in 1..Len(list) : \A x \in 1..(j - 1) : x \in 1..Len(list)
    BY <1>5
  <2>3. QED BY <1>2, <1>5, <1>9, <2>1, <2>2 DEF Numbered
<1>11. UNCHANGED <<v1, v2, v4, memory>> /\ memory' \in [Workers -> Document!Request]
  BY <1>1, VersionParts DEF Document!Judge
<1>12. /\ Len(new) >= Len(v3[s])
       /\ \A j \in 1..Len(v3[s]) : new[j].version = v3[s][j].version
  BY <1>2, <1>5, <1>9
<1>13. \A x \in Workers : memory'[x] \in {memory[x], Document!Idle}
  BY <1>11
<1>14. QED BY <1>4, <1>10, <1>11, <1>12, <1>13, DocumentRows

(* A request that exists never ceases to.                                  *)
LEMMA DocumentAsked ==
  ASSUME Document!VersionInv, NEW r \in Papers, NEW row,
         row \in [status : AskedStatus, file : {"yes", "no"}], row # Document!NoRequest,
         v4' = [v4 EXCEPT ![r] = row], UNCHANGED <<v1, v2, v3>>,
         memory' \in [Workers -> Document!Request],
         \A w \in Workers :
           \/ memory'[w] \in {memory[w], Document!Idle}
           \/ /\ memory[w].op = "request"
              /\ memory'[w] = [op |-> "file", request |-> memory[w].request]
  PROVE  Document!VersionInv'
<1>1. v4' \in AskedTable
  BY VersionParts DEF AskedTable
<1>2. \A w \in Workers : Fits(memory[w], v3, v4) => Fits(memory[w], v3, v4')
  <2>1. \A x \in Papers : v4[x] # Document!NoRequest => v4'[x] # Document!NoRequest
    BY VersionParts DEF AskedTable
  <2>2. \A w \in Workers : memory[w].op \in {"request", "file"} => memory[w].request \in Papers
    BY VersionParts, DocumentRequestType
  <2>3. QED BY <2>1, <2>2 DEF Fits
<1>3. \A w \in Workers : Fits(memory'[w], v3, v4')
  <2> SUFFICES ASSUME NEW w \in Workers PROVE Fits(memory'[w], v3, v4')
    OBVIOUS
  <2>1. Fits(memory[w], v3, v4')
    BY <1>2, VersionParts
  <2>2. CASE memory'[w] \in {memory[w], Document!Idle}
    BY <2>1, <2>2, DocumentIdle
  <2>3. CASE /\ memory[w].op = "request"
             /\ memory'[w] = [op |-> "file", request |-> memory[w].request]
    BY <2>1, <2>3 DEF Fits
  <2>4. QED BY <2>2, <2>3
<1>4. QED BY <1>1, <1>3, VersionParts, VersionPartsNext


LEMMA RequestSteps ==
  ASSUME Document!VersionInv,
         \/ \E r \in Papers :
              Document!DocumentRequestCreate(r) \/ Document!DocumentRequestFulfill(r)
         \/ \E w \in Workers :
              \/ \E r \in Papers : Document!OpenRequest(w, r)
              \/ Document!MarkFulfilled(w) \/ Document!SaveUploadedFile(w)
  PROVE  Document!VersionInv'
<1>1. /\ \A row \in [status : AskedStatus, file : {"yes", "no"}] :
           /\ [row EXCEPT !.status = "fulfilled"] \in [status : AskedStatus, file : {"yes", "no"}]
           /\ [row EXCEPT !.status = "fulfilled"].status = "fulfilled"
           /\ [row EXCEPT !.file = "yes"] \in [status : AskedStatus, file : {"yes", "no"}]
           /\ [row EXCEPT !.file = "yes"].file = "yes"
      /\ [status |-> "pending", file |-> "no"] \in [status : AskedStatus, file : {"yes", "no"}]
  BY DEF AskedStatus
<1>2. \A row : row.status # "none" \/ row.file # "no" => row # Document!NoRequest
  BY DEF Document!NoRequest, Document!None
<1>3. v4 \in AskedTable /\ memory \in [Workers -> Document!Request]
  BY VersionParts
<1>4. ASSUME NEW r \in Papers,
             Document!DocumentRequestCreate(r) \/ Document!DocumentRequestFulfill(r)
      PROVE  Document!VersionInv'
  <2>1. PICK row \in {[status |-> "pending", file |-> "no"], [v4[r] EXCEPT !.status = "fulfilled"]} :
          v4' = [v4 EXCEPT ![r] = row]
    BY <1>4 DEF Document!DocumentRequestCreate, Document!DocumentRequestFulfill
  <2>2. row \in [status : AskedStatus, file : {"yes", "no"}] /\ row.status # "none"
    <3>1. v4[r] \in [status : AskedStatus, file : {"yes", "no"}]
      BY <1>3 DEF AskedTable
    <3>2. CASE row = [v4[r] EXCEPT !.status = "fulfilled"]
      BY <1>1, <3>1, <3>2
    <3>3. CASE row = [status |-> "pending", file |-> "no"]
      BY <1>1, <3>3
    <3>4. QED BY <2>1, <3>2, <3>3
  <2>3. UNCHANGED <<v1, v2, v3, memory>>
    BY <1>4 DEF Document!DocumentRequestCreate, Document!DocumentRequestFulfill
  <2>4. /\ memory' \in [Workers -> Document!Request]
        /\ \A w \in Workers : memory'[w] \in {memory[w], Document!Idle}
    BY <1>3, <2>3
  <2>5. row # Document!NoRequest
    BY <1>2, <2>2
  <2>6. QED BY <2>1, <2>2, <2>3, <2>4, <2>5, DocumentAsked
<1>5. ASSUME NEW w \in Workers, NEW r \in Papers, Document!OpenRequest(w, r)
      PROVE  Document!VersionInv'
  <2>1. PICK m : m = [op |-> "request", request |-> r]
    OBVIOUS
  <2>2. m \in Document!Request
    BY <2>1 DEF Document!Request
  <2>3. Fits(m, v3, v4)
    BY <1>5, <2>1 DEF Fits, Document!OpenRequest, Document!NoRequest, Document!None
  <2>4. Document!Become(w, m) /\ UNCHANGED <<v1, v2, v3, v4>>
    BY <1>5, <2>1 DEF Document!OpenRequest
  <2>5. QED BY <2>2, <2>3, <2>4, VersionParts, DocumentBecome
<1>6. ASSUME NEW w \in Workers, Document!MarkFulfilled(w) \/ Document!SaveUploadedFile(w)
      PROVE  Document!VersionInv'
  <2>1. PICK r \in Papers : r = memory[w].request /\ v4[r] # Document!NoRequest
    <3>1. memory[w].op \in {"request", "file"} /\ memory[w] \in Document!Request
          /\ Fits(memory[w], v3, v4)
      BY <1>6, VersionParts DEF Document!MarkFulfilled, Document!SaveUploadedFile
    <3>2. memory[w].request \in Papers
      BY <3>1, DocumentRequestType
    <3>3. QED BY <3>1, <3>2 DEF Fits
  <2>2. PICK row \in {[v4[r] EXCEPT !.status = "fulfilled"], [v4[r] EXCEPT !.file = "yes"]} :
          v4' = [v4 EXCEPT ![r] = row]
    BY <1>6, <2>1 DEF Document!MarkFulfilled, Document!SaveUploadedFile
  <2>3. /\ row \in [status : AskedStatus, file : {"yes", "no"}]
        /\ row.status = "fulfilled" \/ row.file = "yes"
    <3>1. v4[r] \in [status : AskedStatus, file : {"yes", "no"}]
      BY <1>3 DEF AskedTable
    <3>2. CASE row = [v4[r] EXCEPT !.status = "fulfilled"]
      BY <1>1, <3>1, <3>2
    <3>3. CASE row = [v4[r] EXCEPT !.file = "yes"]
      BY <1>1, <3>1, <3>3
    <3>4. QED BY <2>2, <3>2, <3>3
  <2>4. row # Document!NoRequest
    BY <1>2, <2>3
  <2>5. UNCHANGED <<v1, v2, v3>>
    BY <1>6 DEF Document!MarkFulfilled, Document!SaveUploadedFile
  <2>6. PICK m \in Document!Request :
          /\ Document!Become(w, m)
          /\ \/ m = Document!Idle
             \/ memory[w].op = "request" /\ m = [op |-> "file", request |-> memory[w].request]
    <3>1. CASE Document!SaveUploadedFile(w)
      BY <3>1, DocumentIdle DEF Document!SaveUploadedFile
    <3>2. CASE Document!MarkFulfilled(w)
      <4>1. PICK m : m = [op |-> "file", request |-> r]
        OBVIOUS
      <4>2. m \in Document!Request
        BY <4>1 DEF Document!Request
      <4>3. memory[w].op = "request" /\ Document!Become(w, m)
        BY <1>3, <2>1, <3>2, <4>1, DocumentRequestType DEF Document!MarkFulfilled
      <4>4. QED BY <2>1, <4>1, <4>2, <4>3
    <3>3. QED BY <1>6, <3>1, <3>2
  <2>7. memory' = [memory EXCEPT ![w] = m]
    BY <2>6 DEF Document!Become
  <2>8. memory' \in [Workers -> Document!Request]
    BY <1>3, <2>7
  <2>9. \A x \in Workers :
          \/ memory'[x] \in {memory[x], Document!Idle}
          \/ /\ memory[x].op = "request"
             /\ memory'[x] = [op |-> "file", request |-> memory[x].request]
    BY <1>3, <2>6, <2>7
  <2>10. QED BY <2>2, <2>3, <2>4, <2>5, <2>8, <2>9, DocumentAsked
<1>7. QED BY <1>4, <1>5, <1>6

LEMMA DocumentNext == Document!VersionInv /\ Document!Next => Document!VersionInv'
<1> SUFFICES ASSUME Document!VersionInv, Document!Next PROVE Document!VersionInv'
  OBVIOUS
<1>1. ASSUME NEW w \in Workers, Document!ApplicantStep(w) PROVE Document!VersionInv'
  BY <1>1, ApplicationSteps, OpenUploadStep, UploadStep, RequestSteps
     DEF Document!ApplicantStep
<1>2. QED BY <1>1, ApplicationSteps, JudgeStep, RequestSteps DEF Document!Next


(***************************************************************************)
(* The office.                                                             *)
(***************************************************************************)
(* The desk's own invariant; the desk is chosen once.                      *)
OfficeInv ==
  /\ TypeOK
  /\ desk = "intake" => Cycle!OfferedInv
  /\ desk = "documents" => Document!VersionInv
  /\ desk = "accounts" => Account!AccountInv
  /\ desk = "notifications" => Notify!DeliveryInv

LEMMA OfficeBegins == OfficeInit => OfficeInv
BY TypeInit, IntakeInit, DocumentInit, AccountInit, NotifyInit DEF OfficeInit, OfficeInv

LEMMA OfficeRests ==
  ASSUME OfficeInv, UNCHANGED all
  PROVE  OfficeInv'
<1>1. TypeOK'
  BY TypeNext DEF OfficeInv, all
<1>2. desk' = desk /\ UNCHANGED <<v1, v2, v3, v4, v5, v6, memory>>
  BY DEF all, others
<1>3. CASE desk = "intake"
  <2>1. Cycle!OfferedInv'
    BY <1>2, <1>3
       DEF OfficeInv, Cycle!OfferedInv, Cycle!TypeOK, Cycle!Chosen, Cycle!ChosenPrimary,
           Cycle!Offered, Cycle!Linked, Cycle!TypeWasOffered
  <2>2. QED BY <1>1, <1>2, <1>3, <2>1 DEF OfficeInv
<1>4. CASE desk = "documents"
  <2>1. Document!VersionInv'
    BY <1>2, <1>4, VersionParts, VersionPartsNext DEF OfficeInv
  <2>2. QED BY <1>1, <1>2, <1>4, <2>1 DEF OfficeInv
<1>5. CASE desk = "accounts"
  <2>1. Account!AccountInv'
    BY <1>2, <1>5, AccountTypes, AccountTypesNext DEF OfficeInv
  <2>2. QED BY <1>1, <1>2, <1>5, <2>1 DEF OfficeInv
<1>6. CASE desk = "notifications"
  <2>1. Notify!DeliveryInv
    BY <1>6 DEF OfficeInv
  <2>2. Notify!DeliveryInv'
    BY <1>2, <2>1, NotifyQuiet DEF Notify!DeliveryInv, Notify!TypeOK
  <2>3. QED BY <1>1, <1>2, <1>6, <2>2 DEF OfficeInv
<1>7. CASE desk \notin {"intake", "documents", "accounts", "notifications"}
  BY <1>1, <1>2, <1>7 DEF OfficeInv
<1>8. QED BY <1>3, <1>4, <1>5, <1>6, <1>7

LEMMA OfficeWorks == OfficeInv /\ [OfficeNext]_all => OfficeInv'
<1> SUFFICES ASSUME OfficeInv, OfficeNext PROVE OfficeInv'
  BY OfficeRests
<1>1. desk' = desk /\ TypeOK'
  BY TypeNext DEF OfficeNext, OfficeInv
<1>2. CASE desk = "intake"
  BY <1>1, <1>2, IntakeNext DEF OfficeNext, OfficeInv
<1>3. CASE desk = "documents"
  BY <1>1, <1>3, DocumentNext DEF OfficeNext, OfficeInv
<1>4. CASE desk = "accounts"
  BY <1>1, <1>4, AccountNext DEF OfficeNext, OfficeInv
<1>5. CASE desk = "notifications"
  BY <1>1, <1>5, NotifyNext DEF OfficeNext, OfficeInv
<1>6. CASE desk \notin {"intake", "documents", "accounts", "notifications"}
  BY <1>1, <1>6 DEF OfficeInv
<1>7. QED BY <1>2, <1>3, <1>4, <1>5, <1>6

LEMMA OfficeKeeps == OfficeSpec => []OfficeInv
BY OfficeBegins, OfficeWorks, PTL DEF OfficeSpec

(* TypesOK: every row at every desk keeps its type, and the versions of a  *)
(* document have no gap, two uploads at once included: a version is read   *)
(* off a row that nothing deletes (DocumentService.upload).                *)
THEOREM TypesKept == OfficeSpec => []TypesOK
<1>1. OfficeInv => TypesOK
  BY DEF OfficeInv, TypesOK, Cycle!OfferedInv, Document!VersionInv, Account!AccountInv,
         Notify!DeliveryInv
<1>2. QED BY <1>1, OfficeKeeps, PTL

(* TypeWasOffered: an application names a type that some choice of the     *)
(* office accepted for its cycle, whatever the form showed (the cycle form *)
(* and the public application form, portal/forms.py), but where the first  *)
(* type of a choice was switched off (ApplicationTypeCatalog.for_cycle).   *)
THEOREM OnlyOfferedTypes == OfficeSpec => []TypeWasOffered
<1>1. OfficeInv => TypeWasOffered
  BY DEF OfficeInv, TypeWasOffered, Cycle!OfferedInv
<1>2. QED BY <1>1, OfficeKeeps, PTL

(* NotifiedOnce: a notification leaves once over a channel, though the     *)
(* sender is called again after a crash (notifications/services).          *)
THEOREM TellsOnce == OfficeSpec => []NotifiedOnce
<1>1. OfficeInv => NotifiedOnce
  BY DEF OfficeInv, NotifiedOnce, Notify!DeliveryInv
<1>2. QED BY <1>1, OfficeKeeps, PTL

(* ActivatedByDecision: an inactive account becomes active in a decision   *)
(* of the office on that account (accounts/views.py, and the conversion of *)
(* an admitted applicant, portal/services.py), or in the save of a form    *)
(* opened while it was active, and in no other request.                    *)
THEOREM ActivationIsDecided == OfficeSpec => ActivatedByDecision
<1>1. OfficeInv /\ [OfficeNext]_all =>
        [desk = "accounts" => \A u \in Users : Account!Activates(u) => Account!Decided(u)]_all
  BY AccountNext DEF OfficeInv, OfficeNext
<1>2. QED BY <1>1, OfficeKeeps, PTL DEF OfficeSpec, ActivatedByDecision
=============================================================================
