------------------------------ MODULE MCOffice ------------------------------
(***************************************************************************)
(* Five components of the office that share no row here, checked side by    *)
(* side: the initial state chooses the desk at work, which for Admissions  *)
(* is one of two.  Admissions has its own variables; those of the others   *)
(* are v1, v2, ... and memory.                                             *)
(***************************************************************************)
EXTENDS MCAdmissions

CONSTANTS
  CycleCount, TypeCount, ProgramTypes, Applications,  \* intake
  Slots, Papers, MaxVersions,                         \* documents
  Users, MaxNumber,                                   \* accounts
  Recipients, Channels                                \* notifications

ASSUME CountAssumption ==
  CycleCount \in Nat /\ TypeCount \in Nat /\ MaxVersions \in Nat /\ MaxNumber \in Nat

VARIABLES desk, v1, v2, v3, v4, v5, v6, memory

others == <<v1, v2, v3, v4, v5, v6, memory>>
all == <<desk, others, vars>>

Unused == "unused"

(***************************************************************************)
(* The desks.                                                              *)
(***************************************************************************)
Cycle ==
  INSTANCE Intake
    WITH Cycles <- 1..CycleCount, ApplicationTypes <- 1..TypeCount,
         cycles <- v1, links <- v2, applications <- v3, chosen <- v4, inactive <- v5,
         mem <- memory

(* The application in and out of the applicant's hands.                    *)
Document ==
  INSTANCE Documents
    WITH Requests <- Papers, DirectCalls <- TRUE,
         Stages <- {"submitted", "under_review", "needs_correction", "rejected"},
         status <- v1, configured <- v2, documents <- v3, requests <- v4, mem <- memory

Account ==
  INSTANCE Accounts
    WITH users <- v1, deleted <- v2, numbers <- v3, retired <- v4,
         hod <- v5, sessions <- v6, mem <- memory

Notify ==
  INSTANCE Notifications
    WITH Users <- Recipients, records <- v1, sent <- v2, mem <- memory

(***************************************************************************)
(* One desk works; the rows of the others are not there, or stay as they   *)
(* are.                                                                    *)
(***************************************************************************)
OfficeInit ==
  /\ Init
  /\ \/ desk = "accounts" /\ Account!Init
     \/ /\ v6 = Unused
        /\ \/ desk = "intake" /\ Cycle!Init
           \/ /\ v5 = Unused
              /\ \/ desk = "documents" /\ Document!Init
                 \/ /\ v4 = Unused /\ v3 = Unused
                    /\ \/ desk = "notifications" /\ Notify!Init
                       \/ /\ desk \in {"fees", "offers"}
                          /\ v2 = Unused /\ v1 = Unused /\ memory = Unused
  /\ desk \in {"fees", "offers"} \/ app = NewRow("draft", TRUE)

(* The fees of a day and the offers of several are two desks.              *)
AtFees == today' = today /\ \A w \in Workers : req'[w] \in FeeDesk \cup Confirmations \cup {NoRequest}
AtOffers == \A w \in Workers : req'[w] \in OfferDesk \cup {NoRequest}

OfficeNext ==
  \/ desk = "fees" /\ Next /\ AtFees /\ UNCHANGED <<desk, others>>
  \/ desk = "offers" /\ Next /\ AtOffers /\ UNCHANGED <<desk, others>>
  \/ desk = "intake" /\ Cycle!Next /\ UNCHANGED <<desk, vars, v6>>
  \/ desk = "documents" /\ Document!Next /\ UNCHANGED <<desk, vars, v5, v6>>
  \/ desk = "accounts" /\ Account!Next /\ UNCHANGED <<desk, vars>>
  \/ desk = "notifications" /\ Notify!Next /\ UNCHANGED <<desk, vars, v3, v4, v5, v6>>

OfficeSpec == OfficeInit /\ [][OfficeNext]_all

OfficeKeys == Keys \cup Permutations(Users)

(***************************************************************************)
(* The properties of the modules, each at its desk; those of Admissions    *)
(* (ReviewedOnlyIfSettled, StudentOnlyByOffer, ReopenedOnlyByStale) are    *)
(* its own.                                                                *)
(***************************************************************************)
(* Every row keeps its type.                                               *)
TypesOK ==
  /\ TypeOK
  /\ desk = "intake" => Cycle!TypeOK
  /\ desk = "documents" => Document!TypeOK
  /\ desk = "accounts" => Account!TypeOK
  /\ desk = "notifications" => Notify!TypeOK

(* Intake: the form lets in only what some choice of the office accepted.  *)
TypeWasOffered == desk = "intake" => Cycle!TypeWasOffered

(* Notifications: nobody is told twice over one channel.                   *)
NotifiedOnce == desk = "notifications" => Notify!NotifiedOnce

(* Accounts: an inactive account is activated by a decision only.          *)
ActivatedByDecision ==
  [][desk = "accounts" =>
       \A u \in Users : Account!Activates(u) => Account!Decided(u)]_all
=============================================================================
