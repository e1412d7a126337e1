---------------------------- MODULE MCAdmissions ----------------------------
(* Instances of Admissions for TLC.                                         *)
EXTENDS Admissions, FiniteSetsExt, TLC

(* Two payments of half the fee: both are needed to settle it.             *)
Amount == [p \in Payments |-> 1]
Fee == 2
MCSufficient == {S \in SUBSET Payments : MapThenSumSet(LAMBDA p : Amount[p], S) >= Fee}

MovesTo(S) == {r \in StaffMoves : r.to \in S /\ (r.bypass => r.to = "under_review")}
Resubmission == {r \in ApplicantMoves : r.to = "resubmitted"}
Of(ops) == {r \in AllRequests : r.op \in ops}

(* The road from payment to review ...                                     *)
FeeDesk ==
  MovesTo({"under_review", "interview_required", "needs_correction", "rejected"})
    \cup Resubmission \cup Of({"edit", "record", "verify", "fail"})

(* ... and the one from decision to conversion.                            *)
OfferDesk ==
  MovesTo({"decision_pending", "waitlist", "needs_correction", "rejected", "converted"})
    \cup Resubmission \cup {r \in DecisionRequests : r.decision \in {"accepted", "rejected"}}
    \cup Of({"convert", "edit", "issue", "accept", "expire", "revoke"})

(* The requests of two workers: the ones whose race matters.               *)
RacingRequests == FeeDesk \cup OfferDesk

Keys == Permutations(Offers) \cup Permutations(Payments) \cup Permutations(Workers)
=============================================================================
