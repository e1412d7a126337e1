--------------------------- MODULE AdmissionGraph ---------------------------
(***************************************************************************)
(* The vocabulary of the admissions workflow: statuses, decisions and the  *)
(* permitted edges between statuses (portal/models.py, portal/workflow.py).*)
(* Status names are the stored values of the code.                         *)
(***************************************************************************)

(* The edges, as in ApplicationWorkflow.TRANSITIONS. *)
TRANSITIONS ==
  [ draft               |-> {"submitted", "withdrawn"},
    submitted           |-> {"payment_pending", "payment_confirmed", "under_review",
                             "needs_correction", "rejected", "waitlist", "withdrawn"},
    payment_pending     |-> {"payment_confirmed", "needs_correction", "rejected",
                             "withdrawn"},
    payment_confirmed   |-> {"under_review", "needs_correction", "rejected", "withdrawn"},
    under_review        |-> {"needs_correction", "shortlisted", "interview_required",
                             "interview_completed", "decision_pending", "rejected",
                             "waitlist"},
    needs_correction    |-> {"resubmitted", "rejected", "withdrawn"},
    resubmitted         |-> {"payment_pending", "payment_confirmed", "under_review",
                             "needs_correction", "rejected", "withdrawn"},
    shortlisted         |-> {"interview_required", "interview_completed",
                             "decision_pending", "rejected", "waitlist"},
    interview_required  |-> {"interview_completed", "decision_pending", "rejected"},
    interview_completed |-> {"shortlisted", "decision_pending", "rejected"},
    decision_pending    |-> {"shortlisted", "waitlist", "completed", "rejected"},
    completed           |-> {"converted"},
    waitlist            |-> {"shortlisted", "decision_pending", "rejected"},
    rejected            |-> {},
    withdrawn           |-> {},
    converted           |-> {} ]

Workflow == DOMAIN TRANSITIONS

(* Stored values of older rows, and the current statuses they stand for. *)
LEGACY_ALIASES ==
  [ pending   |-> "submitted",
    review    |-> "under_review",
    reviewing |-> "under_review",
    approved  |-> "completed",
    accepted  |-> "decision_pending" ]

Legacy == DOMAIN LEGACY_ALIASES
Status == Workflow \cup Legacy

Normalize(s) == IF s \in Legacy THEN LEGACY_ALIASES[s] ELSE s

TERMINAL == {"rejected", "withdrawn", "converted"}

(* The moves an applicant may make without staff. *)
APPLICANT_TRANSITIONS ==
  [ draft            |-> {"submitted"},
    needs_correction |-> {"resubmitted", "withdrawn"},
    submitted        |-> {"withdrawn"},
    payment_pending  |-> {"withdrawn"},
    under_review     |-> {"withdrawn"},
    resubmitted      |-> {"withdrawn"} ]

APPLICANT_EDITABLE == {"draft", "needs_correction"}

Decisions == {"pending", "accepted", "conditionally_accepted", "rejected", "waitlisted"}
OFFERABLE == {"accepted", "conditionally_accepted"}

(* Mutant: staff moves skip the graph. *)
StaffAnywhere(s, asApplicant) ==
  IF asApplicant THEN TRANSITIONS[Normalize(s)] ELSE Workflow

(* The shape of the graph as can_transition sees it: the statuses an        *)
(* application stored as s may be moved to, by staff or by the applicant.   *)
AllowedTargets(s, asApplicant) ==
  LET current == Normalize(s)
  IN  IF current \in TERMINAL THEN {}
      ELSE {t \in TRANSITIONS[current] :
              asApplicant => /\ current \in DOMAIN APPLICANT_TRANSITIONS
                             /\ t \in APPLICANT_TRANSITIONS[current]}
=============================================================================
