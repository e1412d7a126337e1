------------------------------ MODULE Documents ------------------------------
(***************************************************************************)
(* One application's documents: checklist, uploads, verification, requests *)
(* and corrections (portal/services, portal/models, portal/views).         *)
(*                                                                         *)
(* A handler judges the rows it fetched.  The verification view consults   *)
(* assert_can_manage_documents, which raises or returns nothing, and takes *)
(* nothing for a refusal; the services behind it can be called without it, *)
(* as the repository's own tests do (`DirectCalls').                       *)
(***************************************************************************)
EXTENDS AdmissionGraph, Integers, Sequences

CONSTANTS
  Slots,        \* the document types the checklist requires
  Requests,     \* primary keys for DocumentRequest rows
  Stages,       \* bound: the stages staff move the application to
  MaxVersions,  \* bound on the uploads of one type
  DirectCalls,  \* whether DocumentService is called without the view
  Workers

VARIABLES
  status,       \* the application's workflow status
  configured,   \* whether the requirements are configured or the defaults
  documents,    \* of each type, the ApplicationDocument rows as inserted
  requests,     \* the DocumentRequest rows
  mem

vars == <<status, configured, documents, requests, mem>>

None == "none"
Idle == [op |-> "idle"]
VerificationStatus == {"pending", "verified", "rejected", "requires_replacement"}
Document == [version : 1..MaxVersions, status : VerificationStatus]
NoRequest == [status |-> None, file |-> "no"]

Init ==
  /\ status = "draft"
  /\ configured \in {"yes", "no"}
  /\ documents = [s \in Slots |-> <<>>]
  /\ requests = [r \in Requests |-> NoRequest]
  /\ mem = [w \in Workers |-> Idle]

Become(w, m) == mem' = [mem EXCEPT ![w] = m]

(* A request dies.                                                         *)
Drop(w) ==
  /\ mem[w] # Idle
  /\ Become(w, Idle)
  /\ UNCHANGED <<status, configured, documents, requests>>

(***************************************************************************)
(* The checklist.                                                          *)
(***************************************************************************)
Verified(s) == {i \in DOMAIN documents[s] : documents[s][i].status = "verified"}
Newest(s) ==
  CHOOSE i \in DOMAIN documents[s] :
    \A j \in DOMAIN documents[s] :
      \/ documents[s][j].version < documents[s][i].version
      \/ documents[s][j].version = documents[s][i].version /\ j <= i

(* The default items ask only that there be a document.                    *)
DefaultDone(s) == documents[s] # <<>>

Done(s) ==
  /\ DefaultDone(s)
  /\ configured = "yes" =>
       \/ Verified(s) # {}
       \/ documents[s][Newest(s)].status \notin {"rejected", "requires_replacement"}

CanSubmit == \A s \in Slots : Done(s)

(* applicant_application_submit: the checklist of the application as it    *)
(* was fetched ...                                                         *)
OpenSubmit(w) ==
  /\ mem[w] = Idle
  /\ status \in APPLICANT_EDITABLE /\ CanSubmit
  /\ Become(w, [op |-> "submit", status |-> status])
  /\ UNCHANGED <<status, configured, documents, requests>>

(* ... and the transition, which has no edge from needs_correction.        *)
SubmitApplication(w) ==
  /\ mem[w].op = "submit"
  /\ "submitted" \in AllowedTargets(mem[w].status, TRUE)
  /\ status' = "submitted"
  /\ Become(w, Idle)
  /\ UNCHANGED <<configured, documents, requests>>

(* application_transition and application_correction_request.              *)
StaffTransition(stage) ==
  /\ stage \in AllowedTargets(status, FALSE) \cap Stages
  /\ status' = stage
  /\ UNCHANGED <<configured, documents, requests, mem>>

(* applicant_correction_response asks nothing of the checklist.            *)
CorrectionResponse ==
  /\ "resubmitted" \in AllowedTargets(status, TRUE)
  /\ status' = "resubmitted"
  /\ UNCHANGED <<configured, documents, requests, mem>>

(***************************************************************************)
(* Uploads.                                                                *)
(***************************************************************************)
Uploaded == {s \in Slots : documents[s] # <<>>}

NextVersion(s) == IF documents[s] = <<>> THEN 1 ELSE documents[s][Newest(s)].version + 1

(* applicant_document_upload: an editable application, or one that has     *)
(* documents already.  DocumentService.upload reads the previous version ...*)
OpenUpload(w, s) ==
  /\ mem[w] = Idle
  /\ status \in APPLICANT_EDITABLE \/ Uploaded # {}
  /\ Len(documents[s]) < MaxVersions
  /\ Become(w, [op |-> "upload", slot |-> s, version |-> NextVersion(s),
                revoked |-> IF documents[s] # <<>> /\ documents[s][Newest(s)].status = "verified"
                            THEN Newest(s) ELSE 0])
  /\ UNCHANGED <<status, configured, documents, requests>>

(* ... revokes its sign-off and inserts the new one, in one transaction.   *)
Upload(w) ==
  /\ mem[w].op = "upload"
  /\ Len(documents[mem[w].slot]) < MaxVersions
  /\ LET s == mem[w].slot
         old == [i \in DOMAIN documents[s] |->
                   IF i = mem[w].revoked THEN [documents[s][i] EXCEPT !.status = "requires_replacement"]
                   ELSE documents[s][i]]
     IN documents' = [documents EXCEPT ![s] =
          Append(old, [version |-> mem[w].version, status |-> "pending"])]
  /\ Become(w, Idle)
  /\ UNCHANGED <<status, configured, requests>>

(***************************************************************************)
(* Verification.                                                           *)
(***************************************************************************)
(* assert_can_manage_documents of a member of the admissions staff.        *)
AssertCanManageDocuments == None

(* DocumentService.verify, reject and request_replacement.                 *)
Judge(s, i, verdict) ==
  /\ verdict = "verified" => documents[s][i].status # "verified"
  /\ documents' = [documents EXCEPT ![s][i].status = verdict]
  /\ UNCHANGED <<status, configured, requests, mem>>

Verdicts == VerificationStatus \ {"pending"}

(* document_verify: nothing returned is taken for `not allowed'.           *)
Admitted == AssertCanManageDocuments # None \/ DirectCalls

DocumentVerify(s, i) == Admitted /\ \E verdict \in Verdicts : Judge(s, i, verdict)

(***************************************************************************)
(* Document requests.                                                      *)
(***************************************************************************)
DocumentRequestCreate(r) ==
  /\ requests[r] = NoRequest
  /\ requests' = [requests EXCEPT ![r] = [status |-> "pending", file |-> "no"]]
  /\ UNCHANGED <<status, configured, documents, mem>>

(* Staff may declare any request fulfilled.                                *)
DocumentRequestFulfill(r) ==
  /\ requests[r] # NoRequest
  /\ requests' = [requests EXCEPT ![r].status = "fulfilled"]
  /\ UNCHANGED <<status, configured, documents, mem>>

(* applicant_upload_document, of a pending request ...                     *)
OpenRequest(w, r) ==
  /\ mem[w] = Idle /\ requests[r].status = "pending"
  /\ Become(w, [op |-> "request", request |-> r])
  /\ UNCHANGED <<status, configured, documents, requests>>

(* ... which mark_fulfilled saves as fulfilled ...                         *)
MarkFulfilled(w) ==
  /\ mem[w].op = "request"
  /\ requests' = [requests EXCEPT ![mem[w].request].status = "fulfilled"]
  /\ Become(w, [mem[w] EXCEPT !.op = "file"])
  /\ UNCHANGED <<status, configured, documents>>

(* ... before the file is saved.                                           *)
SaveUploadedFile(w) ==
  /\ mem[w].op = "file"
  /\ requests' = [requests EXCEPT ![mem[w].request].file = "yes"]
  /\ Become(w, Idle)
  /\ UNCHANGED <<status, configured, documents>>

(***************************************************************************)
(* The specification.                                                      *)
(***************************************************************************)
ApplicantStep(w) ==
  \/ OpenSubmit(w) \/ SubmitApplication(w) \/ Upload(w) \/ MarkFulfilled(w) \/ SaveUploadedFile(w)
  \/ \E s \in Slots : OpenUpload(w, s)
  \/ \E r \in Requests : OpenRequest(w, r)

StaffJudges(s) == \E i \in DOMAIN documents[s] : DocumentVerify(s, i)

Next ==
  \/ \E w \in Workers : ApplicantStep(w) \/ Drop(w)
  \/ \E stage \in Stages : StaffTransition(stage)
  \/ CorrectionResponse
  \/ \E s \in Slots : StaffJudges(s)
  \/ \E r \in Requests : DocumentRequestCreate(r) \/ DocumentRequestFulfill(r)

Spec == Init /\ [][Next]_vars

(* The office works through the documents it is sent.                      *)
FairSpec == Spec /\ \A s \in Slots : WF_vars(StaffJudges(s))

(***************************************************************************)
(* Properties.                                                             *)
(***************************************************************************)
(* Every row keeps its type, and the versions of a document have no gaps,  *)
(* two uploads at once included.                                           *)
TypeOK ==
  /\ status \in Workflow /\ configured \in {"yes", "no"}
  /\ \A s \in Slots :
       /\ documents[s] \in Seq(Document)
       /\ \A i \in DOMAIN documents[s] :
            documents[s][i].version = 1
              \/ \E j \in 1..(i - 1) : documents[s][j].version = documents[s][i].version - 1
  /\ requests \in [Requests -> [status : {None, "pending", "fulfilled"}, file : {"yes", "no"}]]

(* "Verify / reject / request replacement for an uploaded document": what  *)
(* an applicant has uploaded is looked at.                                 *)
UploadsAreJudged ==
  \A s \in Slots : documents[s] # <<>> ~> (documents[s] # <<>> /\ documents[s][1].status # "pending")

(***************************************************************************)
(* Inductive strengthening.                                                *)
(***************************************************************************)
Request ==
  {Idle}
  \cup [op : {"submit"}, status : Workflow]
  \cup [op : {"upload"}, slot : Slots, version : 1..MaxVersions, revoked : 0..MaxVersions]
  \cup [op : {"request", "file"}, request : Requests]

(* The row before version n in slot s, which is never deleted.             *)
Follows(s, n) == n = 1 \/ \E j \in DOMAIN documents[s] : documents[s][j].version = n - 1

VersionInv ==
  /\ TypeOK /\ documents \in [Slots -> Seq(Document)] /\ mem \in [Workers -> Request]
  /\ \A s \in Slots :
       /\ Len(documents[s]) <= MaxVersions
       /\ \A i \in DOMAIN documents[s] : documents[s][i].version <= i
  /\ \A w \in Workers : mem[w].op = "upload" =>
       /\ Follows(mem[w].slot, mem[w].version)
       /\ mem[w].version <= Len(documents[mem[w].slot]) + 1
  /\ \A w \in Workers : mem[w].op \in {"request", "file"} =>
       requests[mem[w].request] # NoRequest
=============================================================================
