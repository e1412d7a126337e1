---------------------------- MODULE TeachingProofs ----------------------------
(***************************************************************************)
(* Theorems about ResultSheets and the other desks of MCTeaching, for any  *)
(* number of workers, students, scores, revisions, attempts, questions,    *)
(* courses, sessions, offerings, timetables and classes.                   *)
(***************************************************************************)
EXTENDS MCTeaching, SumTheorems

(***************************************************************************)
(* Result sheets.                                                          *)
(***************************************************************************)
(* Types.                                                                  *)

(* A request of each kind carries what its view reads from it.             *)
LEMMA RequestFields ==
  ASSUME NEW r \in AllRequests \cup {NoRequest}
  PROVE  /\ r.op = "setup" => r.scheme \in Schemes
         /\ r.op = "enter" => r.scores \in Entries /\ r.user \in {"teacher", "superuser"}
<1>1. CASE r \in SetupRequests
  BY <1>1 DEF SetupRequests
<1>2. CASE r \in EntryRequests
  BY <1>2 DEF EntryRequests
<1>3. CASE r \in SubmitRequests
  BY <1>3 DEF SubmitRequests
<1>4. CASE r \in ReviewRequests
  BY <1>4 DEF ReviewRequests
<1>5. CASE r = NoRequest
  BY <1>5 DEF NoRequest, None
<1>6. QED BY <1>1, <1>2, <1>3, <1>4, <1>5 DEF AllRequests

LEMMA BlankType == Blank \in Sheets
BY SchemesAssumption, MaxRevisionAssumption DEF Blank, NewSheet, Sheets, SheetStatus

LEMMA RegradedType ==
  ASSUME NEW row \in Rows, NEW x \in Scores \cup {None}, NEW k \in Schemes
  PROVE  Regraded(row, x, k) \in Rows
BY DEF Regraded, Rows, Totals

LEMMA FinishType ==
  ASSUME TypeOK, NEW w \in Workers, Finish(w)
  PROVE  /\ pc' \in [Workers -> {"idle", "fetched", "published"}]
         /\ req' \in [Workers -> AllRequests \cup {NoRequest}]
         /\ mem' \in [Workers -> Sheets]
         /\ todo' \in [Workers -> SUBSET Students]
BY BlankType DEF Finish, TypeOK

LEMMA TypeInit == Init => TypeOK
<1> SUFFICES ASSUME Init PROVE TypeOK OBVIOUS
<1>1. sheet \in Sheets
  BY MaxRevisionAssumption DEF Init, NewSheet, Sheets, SheetStatus
<1>2. Empty \in Results
  BY DEF Empty, Results, Rows, Totals, NoTotal
<1>3. QED BY <1>1, <1>2, BlankType DEF Init, TypeOK

LEMMA TypeNext == TypeOK /\ [Next]_vars => TypeOK'
<1> SUFFICES ASSUME TypeOK, [Next]_vars PROVE TypeOK' OBVIOUS
<1> USE DEF Serves
<1>1. ASSUME NEW w \in Workers, NEW r \in Requests, Fetch(w, r) PROVE TypeOK'
  BY <1>1, RequestsAssumption DEF Fetch, TypeOK
<1>2. ASSUME NEW w \in Workers, Configure(w) PROVE TypeOK'
  <2>1. req[w].scheme \in Schemes
    BY <1>2, RequestFields DEF Configure, TypeOK
  <2>2. sheet' \in Sheets
    BY <1>2, <2>1 DEF Configure, TypeOK, Sheets
  <2>3. QED BY <1>2, <2>2, FinishType DEF Configure, NoteCrossing, TypeOK
<1>3. ASSUME NEW w \in Workers, SaveRow(w) PROVE TypeOK'
  <2>1. PICK s \in todo[w] :
          /\ results' = [results EXCEPT ![s] = Regraded(results[s], req[w].scores[s], sheet.scheme)]
          /\ \/ Finish(w)
             \/ /\ todo' = [todo EXCEPT ![w] = todo[w] \ {s}]
                /\ UNCHANGED <<pc, req, mem>>
    BY <1>3 DEF SaveRow
  <2>2. s \in Students /\ req[w].scores \in Entries
    BY <1>3, RequestFields DEF SaveRow, TypeOK
  <2>3. Regraded(results[s], req[w].scores[s], sheet.scheme) \in Rows
    BY <2>2, RegradedType DEF TypeOK, Results, Entries, Sheets
  <2>4. results' \in Results /\ crossed' \in {"yes", "no"}
    BY <1>3, <2>1, <2>2, <2>3 DEF SaveRow, TypeOK, Results
  <2>5. CASE Finish(w)
    BY <1>3, <2>4, <2>5, FinishType DEF SaveRow, TypeOK
  <2>6. CASE todo' = [todo EXCEPT ![w] = todo[w] \ {s}] /\ UNCHANGED <<pc, req, mem>>
    BY <1>3, <2>4, <2>6 DEF SaveRow, TypeOK
  <2>7. QED BY <2>1, <2>5, <2>6
<1>4. ASSUME NEW w \in Workers, Submit(w) \/ Approve(w) \/ Reject(w) PROVE TypeOK'
  <2>1. sheet' \in Sheets
    BY <1>4 DEF Submit, Approve, Reject, TypeOK, Sheets, SheetStatus
  <2>2. QED
    BY <1>4, <2>1, FinishType
       DEF Submit, Approve, Reject, NoteCrossing, TypeOK, Milestones
<1>5. ASSUME NEW w \in Workers, Publish(w) PROVE TypeOK'
  BY <1>5 DEF Publish, NoteCrossing, TypeOK, Sheets, Milestones
<1>6. ASSUME NEW w \in Workers, Capture(w) PROVE TypeOK'
  <2>1. Captured(mem[w].revision) \in SUBSET Versions
    BY DEF Captured, TypeOK, Versions, Sheets
  <2>2. QED BY <1>6, <2>1, FinishType DEF Capture, NoteCrossing, TypeOK
<1>7. ASSUME NEW w \in Workers, Revise(w) PROVE TypeOK'
  <2>1. NextRound(mem[w]) \in 1..MaxRevision
    BY <1>7, MaxRevisionAssumption DEF Revise, NextRound, TypeOK, Sheets
  <2>2. sheet' \in Sheets
    BY <1>7, <2>1 DEF Revise, TypeOK, Sheets, SheetStatus
  <2>3. QED BY <1>7, <2>2, FinishType DEF Revise, NoteCrossing, TypeOK
<1>8. ASSUME NEW w \in Workers, Abandon(w) PROVE TypeOK'
  BY <1>8, FinishType DEF Abandon, TypeOK
<1>9. CASE UNCHANGED vars
  BY <1>9 DEF vars, TypeOK
<1>10. QED
  BY <1>1, <1>2, <1>3, <1>4, <1>5, <1>6, <1>7, <1>8, <1>9 DEF Next, Step

(* Rows and in-memory copies keep their types: TypeOK of ResultSheets.     *)
THEOREM TypeCorrect == Spec => []TypeOK
BY TypeInit, TypeNext, PTL DEF Spec

(* The chain of approval.                                                  *)

(* A row rests on the milestones passed, and goes on doing so.             *)
LEMMA FoundedStays ==
  ASSUME NEW m, Founded(m), reached \subseteq reached'
  PROVE  /\ m.status \in {"submitted", "approved"} => m.status \in reached'
         /\ m.published_at = "set" \/ m.revision > 1 => "published" \in reached'
BY DEF Founded

LEMMA BlankFounded ==
  /\ Blank.status = "open" /\ Blank.published_at = "null" /\ ~(Blank.revision > 1)
BY DEF Blank, NewSheet

LEMMA ChainInit == Init => ChainInv
<1> SUFFICES ASSUME Init PROVE ChainInv OBVIOUS
<1>1. Founded(sheet) /\ \A w \in Workers : Founded(mem[w])
  BY BlankFounded DEF Init, NewSheet, Founded
<1>2. QED BY <1>1 DEF Init, ChainInv, ChainOfApproval, NewSheet

(* A worker that finishes holds nothing that needs a milestone.            *)
LEMMA FinishChain ==
  ASSUME TypeOK, ChainInv, reached \subseteq reached', NEW w \in Workers, Finish(w)
  PROVE  \A v \in Workers :
           /\ Founded(mem[v])'
           /\ pc'[v] = "published" => "published" \in reached'
BY BlankFounded DEF Finish, ChainInv, Founded, TypeOK

LEMMA ChainNext == TypeOK /\ ChainInv /\ [Next]_vars => ChainInv'
<1> SUFFICES ASSUME TypeOK, ChainInv, [Next]_vars PROVE ChainInv' OBVIOUS
<1>1. ASSUME NEW w \in Workers, NEW r \in Requests, Fetch(w, r) PROVE ChainInv'
  BY <1>1 DEF Fetch, ChainInv, ChainOfApproval, Founded, TypeOK
<1>2. ASSUME NEW w \in Workers, Configure(w) \/ Submit(w) \/ Approve(w) \/ Reject(w)
      PROVE  ChainInv'
  <2>1. Founded(mem[w]) /\ mem[w] \in Sheets
    BY DEF ChainInv, TypeOK
  <2>2. Finish(w) /\ reached \subseteq reached' /\ versions' = versions
    BY <1>2 DEF Configure, Submit, Approve, Reject
  <2>3. /\ Founded(sheet)'
        /\ sheet'.published_at = mem[w].published_at /\ sheet'.revision = mem[w].revision
    BY <1>2, <2>1 DEF Configure, Submit, Approve, Reject, Founded, Sheets
  <2>4. /\ "published" \in reached' => "approved" \in reached'
        /\ "approved" \in reached' => "submitted" \in reached'
    BY <1>2, <2>1 DEF Configure, Submit, Approve, Reject, Approvable, Founded, ChainInv,
                      ChainOfApproval
  <2>5. QED BY <2>2, <2>3, <2>4, FinishChain DEF ChainInv, ChainOfApproval, Founded
<1>3. ASSUME NEW w \in Workers, SaveRow(w) PROVE ChainInv'
  <2>1. \/ Finish(w)
        \/ UNCHANGED <<pc, mem>>
    BY <1>3 DEF SaveRow
  <2>2. UNCHANGED <<sheet, versions, reached>>
    BY <1>3 DEF SaveRow
  <2>3. QED BY <2>1, <2>2, FinishChain DEF ChainInv, ChainOfApproval, Founded
<1>4. ASSUME NEW w \in Workers, Publish(w) PROVE ChainInv'
  <2>1. "approved" \in reached
    BY <1>4 DEF Publish, Publishable, ChainInv, Founded
  <2>2. reached' = reached \cup {"published"} /\ sheet'.status = sheet.status
    BY <1>4 DEF Publish, TypeOK, Sheets
  <2>3. \A v \in Workers : mem'[v].status = mem[v].status
    BY <1>4 DEF Publish, TypeOK, Sheets
  <2>4. QED BY <2>1, <2>2, <2>3 DEF ChainInv, ChainOfApproval, Founded
<1>5. ASSUME NEW w \in Workers, Capture(w) PROVE ChainInv'
  <2>1. "published" \in reached
    BY <1>5 DEF Capture, Serves, ChainInv
  <2>2. QED
    BY <1>5, <2>1, FinishChain DEF Capture, ChainInv, ChainOfApproval, Founded
<1>6. ASSUME NEW w \in Workers, Revise(w) PROVE ChainInv'
  <2>1. "published" \in reached
    BY <1>6 DEF Revise, IsPublished, ChainInv, Founded
  <2>2. sheet'.status = "open" /\ Finish(w) /\ UNCHANGED <<versions, reached>>
    BY <1>6 DEF Revise, TypeOK, Sheets
  <2>3. QED BY <2>1, <2>2, FinishChain DEF ChainInv, ChainOfApproval, Founded
<1>7. ASSUME NEW w \in Workers, Abandon(w) PROVE ChainInv'
  BY <1>7, FinishChain DEF Abandon, ChainInv, ChainOfApproval, Founded
<1>8. CASE UNCHANGED vars
  BY <1>8 DEF vars, ChainInv, ChainOfApproval, Founded
<1>9. QED BY <1>1, <1>2, <1>3, <1>4, <1>5, <1>6, <1>7, <1>8 DEF Next, Step

(* ChainOfApproval of ResultSheets, for any number of workers: nothing is  *)
(* published without approval, nor approved without submission.            *)
THEOREM NoStageSkipped == Spec => []ChainOfApproval
<1>1. ChainInv => ChainOfApproval
  BY DEF ChainInv
<1>2. QED BY <1>1, ChainInit, ChainNext, TypeCorrect, PTL DEF Spec

(* The lock and the revision numbers.                                      *)

LEMMA CalmNext == TypeOK /\ CalmInv /\ [Next]_vars => CalmInv'
<1> SUFFICES ASSUME TypeOK, CalmInv, [Next]_vars PROVE CalmInv' OBVIOUS
<1>1. ASSUME NEW w \in Workers, Finish(w)
      PROVE  \A v \in Workers : pc'[v] = "published" => IsPublished(mem'[v])
  BY <1>1 DEF Finish, CalmInv, TypeOK
<1>2. ASSUME NEW w \in Workers, NoteCrossing(w), Calm' PROVE Calm /\ mem[w] = sheet
  BY <1>2 DEF NoteCrossing, Calm
<1>3. ASSUME NEW w \in Workers, NEW r \in Requests, Fetch(w, r) PROVE CalmInv'
  <2>1. UNCHANGED <<sheet, results, versions, agreed, crossed>>
    BY <1>3 DEF Fetch
  <2>2. ASSUME NEW v \in Workers, pc'[v] = "published" PROVE IsPublished(mem'[v])
    BY <1>3, <2>2 DEF Fetch, CalmInv, TypeOK
  <2>3. QED BY <2>1, <2>2 DEF CalmInv, LockedAsApproved, NextPublishIsNew, Calm
<1>4. ASSUME NEW w \in Workers, Configure(w) \/ Submit(w) \/ Approve(w) \/ Reject(w)
      PROVE  CalmInv'
  <2>1. NoteCrossing(w) /\ Finish(w) /\ UNCHANGED <<versions, results>>
    BY <1>4 DEF Configure, Submit, Approve, Reject
  <2>2. ASSUME Calm'
        PROVE  /\ Calm
               /\ sheet'.revision = sheet.revision /\ sheet'.published_at = sheet.published_at
    BY <1>2, <1>4, <2>1, <2>2 DEF Configure, Submit, Approve, Reject, TypeOK, Sheets
  <2>3. sheet'.status = "approved" => results' = agreed'
    BY <1>4 DEF Configure, Submit, Approve, Reject, TypeOK, Sheets
  <2>4. QED
    BY <1>1, <2>1, <2>2, <2>3 DEF CalmInv, LockedAsApproved, NextPublishIsNew
<1>5. ASSUME NEW w \in Workers, SaveRow(w) PROVE CalmInv'
  <2>1. Calm' => Calm /\ sheet.status # "approved"
    BY <1>5 DEF SaveRow, CanEdit, PastTheLock, Calm
  <2>2. UNCHANGED <<sheet, versions>> /\ (Finish(w) \/ UNCHANGED <<pc, mem>>)
    BY <1>5 DEF SaveRow
  <2>3. \A v \in Workers : pc'[v] = "published" => IsPublished(mem'[v])
    BY <1>1, <2>2 DEF CalmInv
  <2>4. QED BY <2>1, <2>2, <2>3 DEF CalmInv, LockedAsApproved, NextPublishIsNew
<1>6. ASSUME NEW w \in Workers, Publish(w) PROVE CalmInv'
  <2>1. /\ NoteCrossing(w) /\ UNCHANGED <<results, versions, agreed>>
        /\ sheet'.status = sheet.status /\ sheet'.revision = sheet.revision
        /\ sheet'.published_at = "set"
    BY <1>6 DEF Publish, TypeOK, Sheets
  <2>2. mem'[w].status = "approved" /\ mem'[w].published_at = "set"
    BY <1>6 DEF Publish, Publishable, TypeOK, Sheets
  <2>3. \A v \in Workers : pc'[v] = "published" => IsPublished(mem'[v])
    BY <1>6, <2>2 DEF Publish, IsPublished, CalmInv, TypeOK
  <2>4. Calm' => Calm
    BY <1>2, <2>1
  <2>5. QED BY <2>1, <2>3, <2>4 DEF CalmInv, LockedAsApproved, NextPublishIsNew
<1>7. ASSUME NEW w \in Workers, Capture(w) PROVE CalmInv'
  <2>1. /\ NoteCrossing(w) /\ Finish(w) /\ UNCHANGED <<sheet, results, agreed>>
        /\ versions' \subseteq versions \cup {[revision |-> mem[w].revision, results |-> results]}
        /\ IsPublished(mem[w])
    BY <1>7 DEF Capture, Captured, Serves, CalmInv
  <2>2. ASSUME Calm'
        PROVE  /\ Calm /\ sheet.published_at = "set"
               /\ \A v \in versions' : v.revision <= sheet.revision
    <3>1. Calm /\ mem[w] = sheet
      BY <1>2, <2>1, <2>2
    <3>2. sheet.revision \in Nat
      BY MaxRevisionAssumption DEF TypeOK, Sheets
    <3>3. QED BY <2>1, <3>1, <3>2 DEF CalmInv, IsPublished
  <2>3. QED BY <1>1, <2>1, <2>2 DEF CalmInv, LockedAsApproved, NextPublishIsNew
<1>8. ASSUME NEW w \in Workers, Revise(w) PROVE CalmInv'
  <2>1. NoteCrossing(w) /\ Finish(w) /\ UNCHANGED <<results, agreed, versions>>
    BY <1>8 DEF Revise
  <2>2. sheet'.status = "open" /\ sheet'.revision = mem[w].revision + 1
    BY <1>8 DEF Revise, NextRound, TypeOK, Sheets
  <2>3. ASSUME Calm' PROVE \A v \in versions : v.revision < sheet'.revision
    <3>1. Calm /\ mem[w] = sheet
      BY <1>2, <2>1, <2>3
    <3>2. sheet.revision \in Nat /\ \A v \in versions : v.revision \in Nat
      BY MaxRevisionAssumption DEF TypeOK, Sheets, Versions
    <3>3. QED BY <2>2, <3>1, <3>2 DEF CalmInv
  <2>4. sheet'.revision \in Nat /\ \A v \in versions : v.revision \in Nat
    BY <2>2, MaxRevisionAssumption DEF TypeOK, Sheets, Versions
  <2>5. Calm' => \A v \in versions : v.revision # sheet'.revision /\ v.revision <= sheet'.revision
    BY <2>3, <2>4
  <2>6. QED BY <1>1, <2>1, <2>2, <2>5 DEF CalmInv, LockedAsApproved, NextPublishIsNew
<1>9. ASSUME NEW w \in Workers, Abandon(w) PROVE CalmInv'
  BY <1>1, <1>9 DEF Abandon, CalmInv, LockedAsApproved, NextPublishIsNew, Calm
<1>10. CASE UNCHANGED vars
  BY <1>10 DEF vars, CalmInv, LockedAsApproved, NextPublishIsNew, Calm, IsPublished
<1>11. QED
  BY <1>3, <1>4, <1>5, <1>6, <1>7, <1>8, <1>9, <1>10 DEF Next, Step

LEMMA CalmInit == Init => CalmInv
<1> SUFFICES ASSUME Init PROVE CalmInv OBVIOUS
<1>1. sheet.status = "open" /\ versions = {} /\ \A w \in Workers : pc[w] = "idle"
  BY DEF Init, NewSheet
<1>2. QED BY <1>1 DEF CalmInv, LockedAsApproved, NextPublishIsNew

(* LockedAsApproved of ResultSheets, for any number of workers: the marks  *)
(* of an approved sheet are those approved, until a request writes on a    *)
(* copy the sheet has left behind or a superuser past the lock.            *)
THEOREM ApprovedMarksAreLocked == Spec => []LockedAsApproved
<1>1. CalmInv => LockedAsApproved
  BY DEF CalmInv
<1>2. QED BY <1>1, CalmInit, CalmNext, TypeCorrect, PTL DEF Spec

(* NextPublishIsNew of ResultSheets, for any number of workers: until      *)
(* requests have crossed, the number of an unpublished sheet is free, so   *)
(* its publication is captured.                                            *)
THEOREM RevisionFindsItsNumberFree == Spec => []NextPublishIsNew
<1>1. CalmInv => NextPublishIsNew
  BY DEF CalmInv
<1>2. QED BY <1>1, CalmInit, CalmNext, TypeCorrect, PTL DEF Spec


(***************************************************************************)
(* Registration.                                                           *)
(***************************************************************************)
FeeTable == [Register!OfferingSessions -> Seq({"paid", "unpaid"})]

LEMMA FeeParts ==
  Register!FeeInv <=>
    /\ v1 \in Register!Fee
    /\ v2 \in [Offerings -> Register!Request \cup {Register!NoRequest}]
    /\ v3 \in [Offerings -> Register!Enrolment \cup {Register!NoEnrolment}]
    /\ v4 \in [Offerings -> Register!Result]
    /\ v5 \in FeeTable /\ \A y \in Register!OfferingSessions : Len(v5[y]) <= 1
    /\ memory \in [Workers -> Register!Call]
BY DEF Register!FeeInv, Register!TypeOK, Register!ChargedOnce, FeeTable

LEMMA FeePartsNext ==
  Register!FeeInv' <=>
    /\ v1' \in Register!Fee
    /\ v2' \in [Offerings -> Register!Request \cup {Register!NoRequest}]
    /\ v3' \in [Offerings -> Register!Enrolment \cup {Register!NoEnrolment}]
    /\ v4' \in [Offerings -> Register!Result]
    /\ v5' \in FeeTable /\ \A y \in Register!OfferingSessions : Len(v5'[y]) <= 1
    /\ memory' \in [Workers -> Register!Call]
BY DEF Register!FeeInv, Register!TypeOK, Register!ChargedOnce, FeeTable

LEMMA RegisterCallType ==
  ASSUME NEW m \in Register!Call
  PROVE  /\ m.op = "payment" => m.paid \in 0..(Due - 1)
         /\ m.op \in {"register", "judge", "enrol"} => m.offering \in Offerings
         /\ m.op = "judge" => m.row \in Register!Request
         /\ m.op = "enrol" => m.retake \in Register!YesNo
         /\ m.op \in {"failed", "charge"} => m.session \in Register!OfferingSessions
BY DEF Register!Call, Register!Idle

LEMMA RegisterCalls ==
  /\ Register!Idle \in Register!Call
  /\ \A n \in 0..(Due - 1) : [op |-> "payment", paid |-> n] \in Register!Call
  /\ \A o \in Offerings : [op |-> "register", offering |-> o] \in Register!Call
  /\ \A o \in Offerings, row \in Register!Request :
       [op |-> "judge", offering |-> o, row |-> row] \in Register!Call
  /\ \A o \in Offerings, retake \in Register!YesNo :
       [op |-> "enrol", offering |-> o, retake |-> retake] \in Register!Call
  /\ \A y \in Register!OfferingSessions :
       /\ [op |-> "failed", session |-> y] \in Register!Call
       /\ [op |-> "charge", session |-> y] \in Register!Call
BY DEF Register!Call

LEMMA RegisterBecome ==
  ASSUME Register!FeeInv, NEW w, NEW m \in Register!Call, Register!Become(w, m)
  PROVE  memory' \in [Workers -> Register!Call]
BY FeeParts DEF Register!Become

LEMMA RegisterInit == Register!Init => Register!FeeInv
<1> SUFFICES ASSUME Register!Init PROVE Register!FeeInv
  OBVIOUS
<1>1. v1 \in Register!Fee
  BY BoundsAssumption DEF Register!Init, Register!Fee, Register!YesNo
<1>2. v4 \in [Offerings -> Register!Result]
  BY DEF Register!Init, Register!Result, Register!None
<1>3. v5 \in FeeTable /\ \A y \in Register!OfferingSessions : Len(v5[y]) <= 1
  <2>1. <<>> \in Seq({"paid", "unpaid"}) /\ Len(<<>>) <= 1
    OBVIOUS
  <2>2. QED BY <2>1 DEF Register!Init, FeeTable
<1>4. QED BY <1>1, <1>2, <1>3, RegisterCalls, FeeParts DEF Register!Init

LEMMA FeeSteps ==
  ASSUME Register!FeeInv,
         \/ Register!AssignFee \/ Register!ToggleOverdue
         \/ \E w \in Workers : Register!OpenPayment(w) \/ Register!RecordPayment(w)
         \/ \E y \in Register!OfferingSessions : Register!RetakeFeePay(y)
  PROVE  Register!FeeInv'
<1>1. v1 \in Register!Fee /\ Due \in Nat
  BY FeeParts, BoundsAssumption
<1>2. CASE Register!AssignFee
  <2>1. v1' \in Register!Fee /\ UNCHANGED <<v2, v3, v4, v5, memory>>
    BY <1>1, <1>2 DEF Register!AssignFee, Register!Fee
  <2>2. QED BY <2>1, FeeParts, FeePartsNext
<1>3. ASSUME NEW w \in Workers, Register!OpenPayment(w) PROVE Register!FeeInv'
  <2>1. v1.paid \in 0..(Due - 1)
    BY <1>1, <1>3 DEF Register!OpenPayment, Register!Fee
  <2>2. memory' \in [Workers -> Register!Call] /\ UNCHANGED <<v1, v2, v3, v4, v5>>
    BY <1>3, <2>1, RegisterCalls, RegisterBecome DEF Register!OpenPayment
  <2>3. QED BY <2>2, FeeParts, FeePartsNext
<1>4. ASSUME NEW w \in Workers, Register!RecordPayment(w) PROVE Register!FeeInv'
  <2>1. memory[w].paid \in 0..(Due - 1)
    BY <1>4, FeeParts, RegisterCallType DEF Register!RecordPayment
  <2>2. memory[w].paid + 1 \in 0..Due
    BY <1>1, <2>1
  <2>3. v1' \in Register!Fee
    BY <1>1, <1>4, <2>2 DEF Register!RecordPayment, Register!Fee, Register!YesNo
  <2>4. memory' \in [Workers -> Register!Call] /\ UNCHANGED <<v2, v3, v4, v5>>
    BY <1>4, RegisterCalls, RegisterBecome DEF Register!RecordPayment
  <2>5. QED BY <2>3, <2>4, FeeParts, FeePartsNext
<1>5. ASSUME NEW y \in Register!OfferingSessions, Register!RetakeFeePay(y) PROVE Register!FeeInv'
  <2>1. PICK i \in DOMAIN v5[y] : v5' = [v5 EXCEPT ![y][i] = "paid"]
    BY <1>5 DEF Register!RetakeFeePay
  <2>2. PICK list : list = [v5[y] EXCEPT ![i] = "paid"]
    OBVIOUS
  <2>3. v5[y] \in Seq({"paid", "unpaid"}) /\ Len(v5[y]) <= 1
    BY FeeParts DEF FeeTable
  <2>4. list \in Seq({"paid", "unpaid"}) /\ Len(list) = Len(v5[y])
    BY <2>1, <2>2, <2>3
  <2>5. v5' = [v5 EXCEPT ![y] = list]
    BY <2>1, <2>2
  <2>6. v5' \in FeeTable /\ \A x \in Register!OfferingSessions : Len(v5'[x]) <= 1
    BY <2>3, <2>4, <2>5, FeeParts DEF FeeTable
  <2>7. UNCHANGED <<v1, v2, v3, v4, memory>>
    BY <1>5 DEF Register!RetakeFeePay
  <2>8. QED BY <2>6, <2>7, FeeParts, FeePartsNext
<1>6. CASE Register!ToggleOverdue
  <2>1. v1' \in Register!Fee /\ UNCHANGED <<v2, v3, v4, v5, memory>>
    BY <1>1, <1>6 DEF Register!ToggleOverdue, Register!Fee, Register!YesNo
  <2>2. QED BY <2>1, FeeParts, FeePartsNext
<1>7. QED BY <1>2, <1>3, <1>4, <1>5, <1>6

LEMMA RegistrationSteps ==
  ASSUME Register!FeeInv, NEW w \in Workers, Register!RequestStep(w) \/ Register!Drop(w)
  PROVE  Register!FeeInv'
<1>1. memory[w] \in Register!Call
  BY FeeParts
<1>2. CASE Register!OpenRegistration(w)
  <2>1. memory' \in [Workers -> Register!Call] /\ UNCHANGED <<v1, v2, v3, v4, v5>>
    BY <1>2, RegisterCalls, RegisterBecome, ListedAssumption DEF Register!OpenRegistration
  <2>2. QED BY <2>1, FeeParts, FeePartsNext
<1>3. CASE Register!CourseRegistration(w)
  <2>1. memory[w].offering \in Offerings
    BY <1>1, <1>3, RegisterCallType DEF Register!CourseRegistration
  <2>2. \A retake \in Register!YesNo :
          [status |-> "pending", retake |-> retake] \in Register!Request
    BY DEF Register!Request
  <2>3. v2' \in [Offerings -> Register!Request \cup {Register!NoRequest}]
    BY <1>3, <2>1, <2>2, FeeParts DEF Register!CourseRegistration, Register!YesNo
  <2>4. memory' \in [Workers -> Register!Call] /\ UNCHANGED <<v1, v3, v4, v5>>
    BY <1>3, RegisterCalls, RegisterBecome DEF Register!CourseRegistration
  <2>5. QED BY <2>3, <2>4, FeeParts, FeePartsNext
<1>4. ASSUME NEW o \in Offerings, Register!OpenJudge(w, o) PROVE Register!FeeInv'
  <2>1. v2[o] \in Register!Request
    BY <1>4, FeeParts DEF Register!OpenJudge, Register!Judgeable, Register!NoRequest,
                          Register!None
  <2>2. \A d \in {"approved", "rejected"} : [v2[o] EXCEPT !.status = d] \in Register!Request
    BY <2>1 DEF Register!Request
  <2>3. memory' \in [Workers -> Register!Call] /\ UNCHANGED <<v1, v2, v3, v4, v5>>
    BY <1>4, <2>2, RegisterCalls, RegisterBecome DEF Register!OpenJudge
  <2>4. QED BY <2>3, FeeParts, FeePartsNext
<1>5. CASE Register!SaveJudgement(w)
  <2>1. memory[w].offering \in Offerings /\ memory[w].row \in Register!Request
    BY <1>1, <1>5, RegisterCallType DEF Register!SaveJudgement
  <2>2. memory[w].row.retake \in Register!YesNo
    BY <2>1 DEF Register!Request
  <2>3. v2' \in [Offerings -> Register!Request \cup {Register!NoRequest}]
    BY <1>5, <2>1, FeeParts DEF Register!SaveJudgement
  <2>4. memory' \in [Workers -> Register!Call] /\ UNCHANGED <<v1, v3, v4, v5>>
    BY <1>5, <2>1, <2>2, RegisterCalls, RegisterBecome DEF Register!SaveJudgement
  <2>5. QED BY <2>3, <2>4, FeeParts, FeePartsNext
<1>6. CASE Register!AutoEnrolOnApproval(w)
  <2>1. memory[w].offering \in Offerings /\ memory[w].retake \in Register!YesNo
    BY <1>1, <1>6, RegisterCallType DEF Register!AutoEnrolOnApproval
  <2>2. \A original \in Register!Original(memory[w].retake) :
          [active |-> "yes", retake |-> memory[w].retake, original |-> original]
            \in Register!Enrolment
    BY <2>1 DEF Register!Original, Register!Enrolment, Register!YesNo
  <2>3. v3' \in [Offerings -> Register!Enrolment \cup {Register!NoEnrolment}]
    BY <1>6, <2>1, <2>2, FeeParts DEF Register!AutoEnrolOnApproval
  <2>4. memory' \in [Workers -> Register!Call] /\ UNCHANGED <<v1, v2, v4, v5>>
    BY <1>6, RegisterCalls, RegisterBecome DEF Register!AutoEnrolOnApproval
  <2>5. QED BY <2>3, <2>4, FeeParts, FeePartsNext
<1>7. CASE Register!Drop(w)
  <2>1. memory' \in [Workers -> Register!Call] /\ UNCHANGED <<v1, v2, v3, v4, v5>>
    BY <1>7, RegisterCalls, RegisterBecome DEF Register!Drop
  <2>2. QED BY <2>1, FeeParts, FeePartsNext
<1>8. QED BY <1>2, <1>3, <1>4, <1>5, <1>6, <1>7 DEF Register!RequestStep

LEMMA ResultSteps ==
  ASSUME Register!FeeInv, NEW w \in Workers, Register!ResultStep(w)
  PROVE  Register!FeeInv'
<1>1. memory[w] \in Register!Call
  BY FeeParts
<1>2. ASSUME NEW o \in Offerings, NEW grade \in {"A", "F"}, Register!EnterResult(w, o, grade)
      PROVE  Register!FeeInv'
  <2>1. OfferingSession[o] \in Register!OfferingSessions
    BY DEF Register!OfferingSessions
  <2>2. v4[o] \in Register!Result
    BY FeeParts
  <2>3. [v4[o] EXCEPT !.grade = grade] \in Register!Result
    BY <2>2 DEF Register!Result
  <2>4. v4' \in [Offerings -> Register!Result]
    BY <1>2, <2>3, FeeParts DEF Register!EnterResult
  <2>5. memory' \in [Workers -> Register!Call] /\ UNCHANGED <<v1, v2, v3, v5>>
    BY <1>2, <2>1, RegisterCalls, RegisterBecome DEF Register!EnterResult
  <2>6. QED BY <2>4, <2>5, FeeParts, FeePartsNext
<1>3. CASE Register!FindRetakeFee(w)
  <2>1. memory[w].session \in Register!OfferingSessions
    BY <1>1, <1>3, RegisterCallType DEF Register!FindRetakeFee
  <2>2. memory' \in [Workers -> Register!Call] /\ UNCHANGED <<v1, v2, v3, v4, v5>>
    BY <1>3, <2>1, RegisterCalls, RegisterBecome DEF Register!FindRetakeFee
  <2>3. QED BY <2>2, FeeParts, FeePartsNext
<1>4. CASE Register!CreateRetakeFee(w)
  <2>1. PICK y \in Register!OfferingSessions : y = memory[w].session
    BY <1>1, <1>4, RegisterCallType DEF Register!CreateRetakeFee
  <2>2. v5[y] = <<>> /\ v5' = [v5 EXCEPT ![y] = Append(<<>>, "unpaid")]
    BY <1>4, <2>1 DEF Register!CreateRetakeFee, Register!UniqueRow
  <2>3. Append(<<>>, "unpaid") \in Seq({"paid", "unpaid"}) /\ Len(Append(<<>>, "unpaid")) = 1
    OBVIOUS
  <2>4. v5' \in FeeTable /\ \A x \in Register!OfferingSessions : Len(v5'[x]) <= 1
    BY <2>2, <2>3, FeeParts DEF FeeTable
  <2>5. memory' \in [Workers -> Register!Call] /\ UNCHANGED <<v1, v2, v3, v4>>
    BY <1>4, RegisterCalls, RegisterBecome DEF Register!CreateRetakeFee
  <2>6. QED BY <2>4, <2>5, FeeParts, FeePartsNext
<1>5. QED BY <1>2, <1>3, <1>4 DEF Register!ResultStep

LEMMA OfficeSteps ==
  ASSUME Register!FeeInv, NEW o \in Offerings,
         Register!EnrolmentCreate(o) \/ Register!EnrolmentActivate(o) \/ Register!ToggleApproval(o)
  PROVE  Register!FeeInv'
<1>1. CASE Register!EnrolmentCreate(o)
  <2>1. Register!FirstTake \in Register!Enrolment
    BY DEF Register!FirstTake, Register!Enrolment, Register!YesNo
  <2>2. v3' \in [Offerings -> Register!Enrolment \cup {Register!NoEnrolment}]
    BY <1>1, <2>1, FeeParts DEF Register!EnrolmentCreate
  <2>3. QED BY <1>1, <2>2, FeeParts, FeePartsNext DEF Register!EnrolmentCreate
<1>2. CASE Register!EnrolmentActivate(o)
  <2>1. v3[o] \in Register!Enrolment
    BY <1>2, FeeParts DEF Register!EnrolmentActivate
  <2>2. PICK flag \in Register!YesNo : v3' = [v3 EXCEPT ![o].active = flag]
    BY <1>2 DEF Register!EnrolmentActivate, Register!YesNo
  <2>3. [v3[o] EXCEPT !.active = flag] \in Register!Enrolment
    BY <2>1 DEF Register!Enrolment
  <2>4. v3' \in [Offerings -> Register!Enrolment \cup {Register!NoEnrolment}]
    BY <2>2, <2>3, FeeParts
  <2>5. QED BY <1>2, <2>4, FeeParts, FeePartsNext DEF Register!EnrolmentActivate
<1>3. CASE Register!ToggleApproval(o)
  <2>1. v4[o] \in Register!Result
    BY FeeParts
  <2>2. PICK state \in {"open", "approved"} : v4' = [v4 EXCEPT ![o].sheet = state]
    BY <1>3 DEF Register!ToggleApproval
  <2>3. [v4[o] EXCEPT !.sheet = state] \in Register!Result
    BY <2>1 DEF Register!Result
  <2>4. v4' \in [Offerings -> Register!Result]
    BY <2>2, <2>3, FeeParts
  <2>5. QED BY <1>3, <2>4, FeeParts, FeePartsNext DEF Register!ToggleApproval
<1>4. QED BY <1>1, <1>2, <1>3

LEMMA RegisterNext == Register!FeeInv /\ Register!Next => Register!FeeInv'
BY FeeSteps, RegistrationSteps, ResultSteps, OfficeSteps DEF Register!Next


(***************************************************************************)
(* The library's operators, as the desks' modules instantiate them.        *)
(***************************************************************************)
LEMMA SameCardinality ==
  \A S : Course!Cardinality(S) = Cardinality(S) /\ Quiz!Cardinality(S) = Cardinality(S)
BY DEF Course!Cardinality, Quiz!Cardinality, Cardinality

LEMMA SameSum ==
  \A f, S : /\ Progress!SumFunctionOnSet(f, S) = SumFunctionOnSet(f, S)
           /\ Page!SumFunctionOnSet(f, S) = SumFunctionOnSet(f, S)
<1>1. \A f, S : Progress!SumFunctionOnSet(f, S) = SumFunctionOnSet(f, S)
  BY DEF Progress!SumFunctionOnSet, Progress!FoldFunctionOnSet, Progress!MapThenFoldSet,
         SumFunctionOnSet, FoldFunctionOnSet, MapThenFoldSet
<1>2. \A f, S : Page!SumFunctionOnSet(f, S) = SumFunctionOnSet(f, S)
  BY DEF Page!SumFunctionOnSet, Page!FoldFunctionOnSet, Page!MapThenFoldSet,
         SumFunctionOnSet, FoldFunctionOnSet, MapThenFoldSet
<1>3. QED BY <1>1, <1>2

(***************************************************************************)
(* Coursework.                                                             *)
(***************************************************************************)
(* The downloads under way in a memory.                                    *)
Underway(table) == {w \in Workers : table[w].op = "access"}

(* Downloads counted, and still to be counted, are no more than logged.    *)
CountedIn(row, table, logged) == row.count + Cardinality(Underway(table)) <= logged

Graded(rows, marks) ==
  \A s \in Students : rows[s].score # Course!None => marks[s] \in {rows[s].text, Course!Unread}

LEMMA GradedParts ==
  Course!GradedInv <=>
    /\ v1 \in SUBSET Students /\ v2 \in Course!Material /\ v3 \in 0..MaxAccesses
    /\ v4 \in Course!AssignmentStatus /\ v5 \in {"yes", "no"}
    /\ v6 \in [Students -> Course!Submission \cup {Course!NoSubmission}]
    /\ v7 \in [Students -> Texts \cup {Course!None, Course!Unread}]
    /\ v9 \in [Students -> Course!Attendance \cup {Course!None}]
    /\ v8 = "no" => \A s \in Students : v9[s] = Course!None
    /\ memory \in [Workers -> Course!Request]
    /\ CountedIn(v2, memory, v3)
    /\ \A w \in Workers :
         /\ memory[w].op = "material" => CountedIn(memory[w].row, memory, v3)
         /\ memory[w].op = "submit" => memory[w].row.score = Course!None
         /\ memory[w].op = "attend" => v8 = "yes"
         /\ memory[w].op = "grade" => memory[w].read \in {memory[w].row.text, Course!Unread}
    /\ Graded(v6, v7)
<1>1. Course!Accessing = Underway(memory)
  BY DEF Course!Accessing, Underway
<1>2. /\ Course!Counted(v2) <=> CountedIn(v2, memory, v3)
      /\ \A w \in Workers :
           Course!Counted(memory[w].row) <=> CountedIn(memory[w].row, memory, v3)
  BY <1>1, SameCardinality DEF Course!Counted, CountedIn
<1>3. Course!ScoreIsOfThisText <=> Graded(v6, v7)
  BY DEF Course!ScoreIsOfThisText, Graded
<1>4. QED BY <1>2, <1>3 DEF Course!GradedInv, Course!TypeOK

LEMMA GradedPartsNext ==
  Course!GradedInv' <=>
    /\ v1' \in SUBSET Students /\ v2' \in Course!Material /\ v3' \in 0..MaxAccesses
    /\ v4' \in Course!AssignmentStatus /\ v5' \in {"yes", "no"}
    /\ v6' \in [Students -> Course!Submission \cup {Course!NoSubmission}]
    /\ v7' \in [Students -> Texts \cup {Course!None, Course!Unread}]
    /\ v9' \in [Students -> Course!Attendance \cup {Course!None}]
    /\ v8' = "no" => \A s \in Students : v9'[s] = Course!None
    /\ memory' \in [Workers -> Course!Request]
    /\ CountedIn(v2', memory', v3')
    /\ \A w \in Workers :
         /\ memory'[w].op = "material" => CountedIn(memory'[w].row, memory', v3')
         /\ memory'[w].op = "submit" => memory'[w].row.score = Course!None
         /\ memory'[w].op = "attend" => v8' = "yes"
         /\ memory'[w].op = "grade" => memory'[w].read \in {memory'[w].row.text, Course!Unread}
    /\ Graded(v6', v7')
<1>1. Course!Accessing' = Underway(memory')
  BY DEF Course!Accessing, Underway
<1>2. /\ Course!Counted(v2)' <=> CountedIn(v2', memory', v3')
      /\ \A w \in Workers :
           Course!Counted(memory[w].row)' <=> CountedIn(memory'[w].row, memory', v3')
  BY <1>1, SameCardinality DEF Course!Counted, CountedIn
<1>3. Course!ScoreIsOfThisText' <=> Graded(v6', v7')
  BY DEF Course!ScoreIsOfThisText, Graded
<1>4. QED BY <1>2, <1>3 DEF Course!GradedInv, Course!TypeOK

LEMMA CourseRequestType ==
  ASSUME NEW m \in Course!Request
  PROVE  /\ m.op = "material" => m.row \in Course!Material
         /\ m.op \in {"submit", "page", "grade"} => m.student \in Students
         /\ m.op = "submit" => m.row \in Course!Submission \cup {Course!NoSubmission}
         /\ m.op = "grade" => m.row \in Course!Submission /\ m.read \in Texts \cup {Course!Unread}
         /\ m.op = "attend" => m.left \in SUBSET Students
BY DEF Course!Request, Course!Idle

LEMMA CourseRequests ==
  /\ Course!Idle \in Course!Request /\ Course!Idle.op = "idle"
  /\ [op |-> "access"] \in Course!Request
  /\ \A row \in Course!Material : [op |-> "material", row |-> row] \in Course!Request
  /\ \A s \in Students, row \in Course!Submission \cup {Course!NoSubmission} :
       [op |-> "submit", student |-> s, row |-> row] \in Course!Request
  /\ \A s \in Students, text \in Texts :
       [op |-> "page", student |-> s, text |-> text] \in Course!Request
  /\ \A s \in Students, row \in Course!Submission, read \in Texts \cup {Course!Unread} :
       [op |-> "grade", student |-> s, row |-> row, read |-> read] \in Course!Request
  /\ \A left \in SUBSET Students : [op |-> "attend", left |-> left] \in Course!Request
BY DEF Course!Request, Course!Idle

LEMMA CourseworkInit == Course!Init => Course!GradedInv
<1> SUFFICES ASSUME Course!Init PROVE Course!GradedInv
  OBVIOUS
<1>1. memory \in [Workers -> Course!Request] /\ \A w \in Workers : memory[w].op = "idle"
  BY CourseRequests DEF Course!Init
<1>2. Underway(memory) = {}
  BY <1>1 DEF Underway
<1>3. v2 \in Course!Material /\ v2.count = 0 /\ v3 \in 0..MaxAccesses /\ v3 = 0
  BY BoundsAssumption DEF Course!Init, Course!Material
<1>4. CountedIn(v2, memory, v3)
  BY <1>2, <1>3, FS_EmptySet DEF CountedIn
<1>5. Graded(v6, v7)
  BY DEF Course!Init, Course!NoSubmission, Graded
<1>6. QED BY <1>1, <1>3, <1>4, <1>5, GradedParts
          DEF Course!Init, Course!AssignmentStatus, Course!None

(* What a step may do to the downloads under way.                          *)
LEMMA UnderwayStep ==
  ASSUME Course!GradedInv, NEW w \in Workers, NEW m \in Course!Request, Course!Become(w, m)
  PROVE  /\ memory' \in [Workers -> Course!Request] /\ memory'[w] = m
         /\ \A x \in Workers \ {w} : memory'[x] = memory[x]
         /\ Cardinality(Underway(memory)) \in Nat /\ Cardinality(Underway(memory')) \in Nat
         /\ m.op # "access" => Cardinality(Underway(memory')) <= Cardinality(Underway(memory))
         /\ m.op # "access" /\ memory[w].op = "access" =>
              Cardinality(Underway(memory')) + 1 = Cardinality(Underway(memory))
         /\ m.op = "access" /\ memory[w].op # "access" =>
              Cardinality(Underway(memory')) = Cardinality(Underway(memory)) + 1
<1>1. /\ memory' \in [Workers -> Course!Request] /\ memory'[w] = m
      /\ \A x \in Workers \ {w} : memory'[x] = memory[x]
  BY GradedParts DEF Course!Become
<1>2. PICK U, V : U = Underway(memory) /\ V = Underway(memory')
  OBVIOUS
<1>3. IsFiniteSet(U) /\ IsFiniteSet(V)
  BY <1>2, FiniteAssumption, FS_Subset DEF Underway
<1>4. Cardinality(U) \in Nat /\ Cardinality(V) \in Nat
  BY <1>3, FS_CardinalityType
<1>5. CASE m.op # "access" /\ memory[w].op = "access"
  <2>1. w \in U /\ V = U \ {w}
    BY <1>1, <1>2, <1>5 DEF Underway
  <2>2. Cardinality(V) = Cardinality(U) - 1
    BY <1>3, <2>1, FS_RemoveElement
  <2>3. QED BY <1>1, <1>2, <1>4, <1>5, <2>2
<1>6. CASE m.op = "access" /\ memory[w].op # "access"
  <2>1. w \notin U /\ V = U \cup {w}
    BY <1>1, <1>2, <1>6 DEF Underway
  <2>2. Cardinality(V) = Cardinality(U) + 1
    BY <1>3, <2>1, FS_AddElement
  <2>3. QED BY <1>1, <1>2, <1>4, <1>6, <2>2
<1>7. CASE m.op # "access" /\ memory[w].op # "access"
  <2>1. V = U
    BY <1>1, <1>2, <1>7 DEF Underway
  <2>2. QED BY <1>1, <1>2, <1>4, <1>7, <2>1
<1>8. CASE m.op = "access" /\ memory[w].op = "access"
  BY <1>1, <1>2, <1>4, <1>8
<1>9. QED BY <1>5, <1>6, <1>7, <1>8

LEMMA CountedOn ==
  ASSUME Course!GradedInv, NEW w \in Workers, NEW m \in Course!Request, Course!Become(w, m),
         m.op # "access", v3' = v3, NEW row \in Course!Material, CountedIn(row, memory, v3)
  PROVE  CountedIn(row, memory', v3')
<1>1. row.count \in Nat /\ v3 \in Nat
  BY BoundsAssumption, GradedParts DEF Course!Material
<1>2. /\ Cardinality(Underway(memory)) \in Nat /\ Cardinality(Underway(memory')) \in Nat
      /\ Cardinality(Underway(memory')) <= Cardinality(Underway(memory))
  BY UnderwayStep
<1>3. QED BY <1>1, <1>2 DEF CountedIn

(* The memory may change, and a row of the material be read from it or     *)
(* stay: the rest of the strengthening that depends on the memory.         *)
MemoryKept ==
  /\ memory' \in [Workers -> Course!Request]
  /\ \A w \in Workers :
       /\ memory'[w].op = "material" => CountedIn(memory'[w].row, memory', v3')
       /\ memory'[w].op = "submit" => memory'[w].row.score = Course!None
       /\ memory'[w].op = "attend" => v8' = "yes"
       /\ memory'[w].op = "grade" => memory'[w].read \in {memory'[w].row.text, Course!Unread}

LEMMA BecomeKeepsMemory ==
  ASSUME Course!GradedInv, NEW w \in Workers, NEW m \in Course!Request, Course!Become(w, m),
         m.op # "access", v3' = v3, v8 = "yes" => v8' = "yes",
         m.op = "material" => CountedIn(m.row, memory, v3),
         m.op = "submit" => m.row.score = Course!None,
         m.op = "attend" => v8' = "yes",
         m.op = "grade" => m.read \in {m.row.text, Course!Unread}
  PROVE  MemoryKept
<1>1. /\ memory' \in [Workers -> Course!Request] /\ memory'[w] = m
      /\ \A x \in Workers \ {w} : memory'[x] = memory[x]
  BY UnderwayStep
<1>2. ASSUME NEW x \in Workers
      PROVE  /\ memory'[x].op = "material" => CountedIn(memory'[x].row, memory, v3)
             /\ memory'[x].op = "submit" => memory'[x].row.score = Course!None
             /\ memory'[x].op = "attend" => v8' = "yes"
             /\ memory'[x].op = "grade" => memory'[x].read \in {memory'[x].row.text, Course!Unread}
  BY <1>1, GradedParts
<1>3. ASSUME NEW x \in Workers, memory'[x].op = "material"
      PROVE  CountedIn(memory'[x].row, memory', v3')
  <2>1. PICK row \in Course!Material : row = memory'[x].row
    BY <1>1, <1>3, CourseRequestType
  <2>2. CountedIn(row, memory, v3)
    BY <1>2, <1>3, <2>1
  <2>3. CountedIn(row, memory', v3')
    BY <2>2, CountedOn
  <2>4. QED BY <2>1, <2>3
<1>4. QED BY <1>1, <1>2, <1>3 DEF MemoryKept

LEMMA MaterialSteps ==
  ASSUME Course!GradedInv, NEW w \in Workers,
         \/ Course!OpenMaterial(w) \/ Course!MaterialEdit(w) \/ Course!MaterialDelete(w)
         \/ Course!CountDownload(w) \/ \E s \in Students : Course!MaterialAccess(w, s)
  PROVE  Course!GradedInv'
<1>1. /\ v2 \in Course!Material /\ v3 \in 0..MaxAccesses /\ CountedIn(v2, memory, v3)
      /\ memory[w] \in Course!Request /\ MaxAccesses \in Nat
  BY GradedParts, BoundsAssumption
<1>2. /\ Course!Idle \in Course!Request /\ Course!Idle.op = "idle"
      /\ Cardinality(Underway(memory)) \in Nat
  BY CourseRequests, FiniteAssumption, FS_Subset, FS_CardinalityType DEF Underway
<1>3. CASE Course!OpenMaterial(w)
  <2>1. PICK m \in Course!Request : m = [op |-> "material", row |-> v2]
    BY <1>1, CourseRequests
  <2>2. Course!Become(w, m) /\ UNCHANGED <<v1, v2, v3, v4, v5, v6, v7, v8, v9>>
    BY <1>3, <2>1 DEF Course!OpenMaterial
  <2>3. MemoryKept
    BY <1>1, <2>1, <2>2, BecomeKeepsMemory
  <2>4. CountedIn(v2', memory', v3')
    BY <1>1, <2>1, <2>2, CountedOn
  <2>5. QED BY <2>2, <2>3, <2>4, GradedParts, GradedPartsNext DEF MemoryKept
<1>4. ASSUME NEW row, row.count = memory[w].row.count, row \in Course!Material,
             Course!SaveMaterial(w, row)
      PROVE  Course!GradedInv'
  <2>1. CountedIn(memory[w].row, memory, v3)
    BY <1>4, GradedParts DEF Course!SaveMaterial
  <2>2. CountedIn(row, memory, v3)
    BY <1>4, <2>1 DEF CountedIn
  <2>3. Course!Become(w, Course!Idle) /\ v2' = row /\ UNCHANGED <<v1, v3, v4, v5, v6, v7, v8, v9>>
    BY <1>4 DEF Course!SaveMaterial
  <2>4. MemoryKept
    BY <1>2, <2>3, BecomeKeepsMemory
  <2>5. CountedIn(v2', memory', v3')
    BY <1>2, <1>4, <2>2, <2>3, CountedOn
  <2>6. QED BY <1>4, <2>3, <2>4, <2>5, GradedParts, GradedPartsNext DEF MemoryKept
<1>5. CASE Course!MaterialEdit(w)
  <2>1. PICK published \in {"yes", "no"} :
          Course!SaveMaterial(w, [memory[w].row EXCEPT !.published = published])
    BY <1>5 DEF Course!MaterialEdit
  <2>2. memory[w].row \in Course!Material
    BY <1>1, <2>1, CourseRequestType DEF Course!SaveMaterial
  <2>3. PICK row : row = [memory[w].row EXCEPT !.published = published]
    OBVIOUS
  <2>4. row \in Course!Material /\ row.count = memory[w].row.count
    BY <2>2, <2>3 DEF Course!Material
  <2>5. QED BY <1>4, <2>1, <2>3, <2>4
<1>6. CASE Course!MaterialDelete(w)
  <2>1. memory[w].row \in Course!Material
    BY <1>1, <1>6, CourseRequestType DEF Course!MaterialDelete, Course!SaveMaterial
  <2>2. PICK row : row = [memory[w].row EXCEPT !.active = "no"]
    OBVIOUS
  <2>3. row \in Course!Material /\ row.count = memory[w].row.count
    BY <2>1, <2>2 DEF Course!Material
  <2>4. QED BY <1>4, <1>6, <2>2, <2>3 DEF Course!MaterialDelete
<1>7. CASE Course!CountDownload(w)
  <2>1. /\ memory[w].op = "access" /\ Course!Become(w, Course!Idle)
        /\ v2' = [v2 EXCEPT !.count = v2.count + 1]
        /\ UNCHANGED <<v1, v3, v4, v5, v6, v7, v8, v9>>
    BY <1>7 DEF Course!CountDownload
  <2>2. /\ Cardinality(Underway(memory')) \in Nat
        /\ Cardinality(Underway(memory')) + 1 = Cardinality(Underway(memory))
    BY <1>2, <2>1, UnderwayStep
  <2>3. v2.count + 1 + Cardinality(Underway(memory')) <= v3 /\ v2.count \in Nat
    BY <1>1, <2>2 DEF CountedIn, Course!Material
  <2>4. v2.count + 1 \in 0..MaxAccesses
    BY <1>1, <2>2, <2>3
  <2>5. v2' \in Course!Material /\ v2'.count = v2.count + 1
    BY <1>1, <2>1, <2>4 DEF Course!Material
  <2>6. CountedIn(v2', memory', v3')
    BY <2>1, <2>3, <2>5 DEF CountedIn
  <2>7. MemoryKept
    BY <1>2, <2>1, BecomeKeepsMemory
  <2>8. QED BY <2>1, <2>5, <2>6, <2>7, GradedParts, GradedPartsNext DEF MemoryKept
<1>8. ASSUME NEW s \in Students, Course!MaterialAccess(w, s) PROVE Course!GradedInv'
  <2>1. PICK m \in Course!Request : m = [op |-> "access"]
    BY CourseRequests
  <2>2. /\ Course!Become(w, m) /\ memory[w] = Course!Idle /\ v3' = v3 + 1 /\ v3' \in 0..MaxAccesses
        /\ UNCHANGED <<v1, v2, v4, v5, v6, v7, v8, v9>>
    BY <1>1, <1>8, <2>1 DEF Course!MaterialAccess
  <2>3. Cardinality(Underway(memory')) = Cardinality(Underway(memory)) + 1
    BY <1>2, <2>1, <2>2, UnderwayStep
  <2>4. ASSUME NEW row \in Course!Material, CountedIn(row, memory, v3)
        PROVE  CountedIn(row, memory', v3')
    <3>1. row.count \in Nat /\ v3 \in Nat
      BY <1>1 DEF Course!Material
    <3>2. QED BY <1>2, <2>2, <2>3, <2>4, <3>1 DEF CountedIn
  <2>5. /\ memory' \in [Workers -> Course!Request] /\ memory'[w] = m
        /\ \A x \in Workers \ {w} : memory'[x] = memory[x]
    BY <2>2, UnderwayStep
  <2>6. ASSUME NEW x \in Workers
        PROVE  /\ memory'[x].op = "material" => CountedIn(memory'[x].row, memory', v3')
               /\ memory'[x].op = "submit" => memory'[x].row.score = Course!None
               /\ memory'[x].op = "attend" => v8' = "yes"
               /\ memory'[x].op = "grade" =>
                    memory'[x].read \in {memory'[x].row.text, Course!Unread}
    <3>1. CASE x = w
      BY <2>1, <2>5, <3>1
    <3>2. CASE x # w
      <4>1. memory'[x] = memory[x] /\ memory[x] \in Course!Request
        BY <2>5, <3>2, GradedParts
      <4>2. memory[x].op = "material" => CountedIn(memory[x].row, memory', v3')
        BY <2>4, <4>1, CourseRequestType, GradedParts
      <4>3. QED BY <2>2, <4>1, <4>2, GradedParts
    <3>3. QED BY <3>1, <3>2
  <2>7. CountedIn(v2', memory', v3')
    BY <1>1, <2>2, <2>4
  <2>8. QED BY <2>2, <2>5, <2>6, <2>7, GradedParts, GradedPartsNext
<1>9. QED BY <1>3, <1>5, <1>6, <1>7, <1>8

LEMMA AssignmentSteps ==
  ASSUME Course!GradedInv, NEW w \in Workers, NEW s \in Students,
         \/ Course!OpenSubmission(w, s) \/ Course!Submit(w)
         \/ Course!ReadSubmission(w, s) \/ Course!OpenGrading(w) \/ Course!GradeSubmission(w)
  PROVE  Course!GradedInv'
<1>1. /\ v6 \in [Students -> Course!Submission \cup {Course!NoSubmission}]
      /\ v7 \in [Students -> Texts \cup {Course!None, Course!Unread}]
      /\ Graded(v6, v7) /\ memory[w] \in Course!Request
      /\ v2 \in Course!Material /\ CountedIn(v2, memory, v3)
  BY GradedParts
<1>2. Course!Idle \in Course!Request /\ Course!Idle.op = "idle"
  BY CourseRequests
<1>3. CASE Course!OpenSubmission(w, s)
  <2>1. PICK m \in Course!Request : m = [op |-> "submit", student |-> s, row |-> v6[s]]
    BY <1>1, CourseRequests
  <2>2. /\ Course!Become(w, m) /\ v6[s].score = Course!None
        /\ UNCHANGED <<v1, v2, v3, v4, v5, v6, v7, v8, v9>>
    BY <1>3, <2>1 DEF Course!OpenSubmission, Course!Ungraded
  <2>3. MemoryKept
    BY <2>1, <2>2, BecomeKeepsMemory
  <2>4. CountedIn(v2', memory', v3')
    BY <1>1, <2>1, <2>2, CountedOn
  <2>5. QED BY <2>2, <2>3, <2>4, GradedParts, GradedPartsNext DEF MemoryKept
<1>4. CASE Course!ReadSubmission(w, s)
  <2>1. v6[s] \in Course!Submission /\ v6[s].text \in Texts
    BY <1>1, <1>4 DEF Course!ReadSubmission, Course!Submission
  <2>2. PICK m \in Course!Request : m = [op |-> "page", student |-> s, text |-> v6[s].text]
    BY <2>1, CourseRequests
  <2>3. /\ Course!Become(w, m) /\ v6[s] # Course!NoSubmission
        /\ UNCHANGED <<v1, v2, v3, v4, v5, v6, v7, v8, v9>>
    BY <1>4, <2>2 DEF Course!ReadSubmission
  <2>4. MemoryKept
    BY <2>2, <2>3, BecomeKeepsMemory
  <2>5. CountedIn(v2', memory', v3')
    BY <1>1, <2>2, <2>3, CountedOn
  <2>6. QED BY <2>3, <2>4, <2>5, GradedParts, GradedPartsNext DEF MemoryKept
<1>9. CASE Course!OpenGrading(w)
  <2>1. PICK t \in Students : t = memory[w].student
    BY <1>1, <1>9, CourseRequestType DEF Course!OpenGrading
  <2>2. v6[t] \in Course!Submission /\ v6[t].text \in Texts
    BY <1>1, <1>9, <2>1 DEF Course!OpenGrading, Course!Submission
  <2>3. PICK seen \in Texts \cup {Course!Unread} :
          seen = IF v6[t].text = memory[w].text THEN v6[t].text ELSE Course!Unread
    BY <2>2
  <2>4. PICK m \in Course!Request :
          m = [op |-> "grade", student |-> t, row |-> v6[t], read |-> seen]
    BY <2>2, CourseRequests
  <2>5. Course!Become(w, m) /\ UNCHANGED <<v1, v2, v3, v4, v5, v6, v7, v8, v9>>
    BY <1>9, <2>1, <2>3, <2>4 DEF Course!OpenGrading
  <2>6. m.op = "grade" /\ m.row.text = v6[t].text /\ m.read \in {m.row.text, Course!Unread}
    BY <2>3, <2>4
  <2>7. MemoryKept
    BY <2>5, <2>6, BecomeKeepsMemory
  <2>8. CountedIn(v2', memory', v3')
    BY <1>1, <2>5, <2>6, CountedOn
  <2>9. QED BY <2>5, <2>7, <2>8, GradedParts, GradedPartsNext DEF MemoryKept
<1>5. ASSUME memory[w].op \in {"submit", "grade"}, Course!Become(w, Course!Idle),
             UNCHANGED <<v1, v2, v3, v4, v5, v8, v9>>,
             v6' \in [Students -> Course!Submission \cup {Course!NoSubmission}],
             v7' \in [Students -> Texts \cup {Course!None, Course!Unread}], Graded(v6', v7')
      PROVE  Course!GradedInv'
  <2>1. MemoryKept
    BY <1>2, <1>5, BecomeKeepsMemory
  <2>2. CountedIn(v2', memory', v3')
    BY <1>1, <1>2, <1>5, CountedOn
  <2>3. QED BY <1>5, <2>1, <2>2, GradedParts, GradedPartsNext DEF MemoryKept
<1>6. CASE Course!Submit(w)
  <2>1. /\ memory[w].op = "submit" /\ Course!Become(w, Course!Idle)
        /\ UNCHANGED <<v1, v2, v3, v4, v5, v7, v8, v9>>
    BY <1>6 DEF Course!Submit
  <2>2. PICK t \in Students, row \in Course!Submission \cup {Course!NoSubmission} :
          t = memory[w].student /\ row = memory[w].row /\ row.score = Course!None
    BY <1>1, <2>1, CourseRequestType, GradedParts
  <2>3. PICK text \in Texts : v6' = [v6 EXCEPT ![t] = [row EXCEPT !.text = text, !.late = v5]]
    BY <1>6, <2>2 DEF Course!Submit
  <2>4. PICK new : new = [row EXCEPT !.text = text, !.late = v5]
    OBVIOUS
  <2>5. v5 \in {"yes", "no"}
    BY GradedParts
  <2>6. CASE row \in Course!Submission
    <3>1. new \in Course!Submission /\ new.score = Course!None
      BY <2>2, <2>4, <2>5, <2>6 DEF Course!Submission
    <3>2. QED BY <1>1, <1>5, <2>1, <2>3, <2>4, <3>1 DEF Graded
  <2>7. CASE row = Course!NoSubmission
    <3>1. new \in Course!Submission /\ new.score = Course!None
      BY <2>4, <2>5, <2>7 DEF Course!Submission, Course!NoSubmission
    <3>2. QED BY <1>1, <1>5, <2>1, <2>3, <2>4, <3>1 DEF Graded
  <2>8. QED BY <2>6, <2>7
<1>7. CASE Course!GradeSubmission(w)
  <2>1. /\ memory[w].op = "grade" /\ Course!Become(w, Course!Idle)
        /\ UNCHANGED <<v1, v2, v3, v4, v5, v8, v9>>
    BY <1>7 DEF Course!GradeSubmission
  <2>2. PICK t \in Students, row \in Course!Submission :
          t = memory[w].student /\ row = memory[w].row
    BY <1>1, <2>1, CourseRequestType
  <2>3. PICK score \in Marks \cup {Course!None} :
          v6' = [v6 EXCEPT ![t] = [row EXCEPT !.score = score]] /\ v7' = [v7 EXCEPT ![t] = memory[w].read]
    BY <1>7, <2>2 DEF Course!GradeSubmission
  <2>4. PICK new : new = [row EXCEPT !.score = score]
    OBVIOUS
  <2>5. new \in Course!Submission /\ new.text = row.text /\ row.text \in Texts
    BY <2>2, <2>3, <2>4 DEF Course!Submission
  <2>9. memory[w].read \in {row.text, Course!Unread}
    BY <2>1, <2>2, GradedParts
  <2>6. /\ v6' \in [Students -> Course!Submission \cup {Course!NoSubmission}]
        /\ v7' \in [Students -> Texts \cup {Course!None, Course!Unread}]
    BY <1>1, <2>3, <2>4, <2>5, <2>9
  <2>7. Graded(v6', v7')
    BY <1>1, <2>3, <2>4, <2>5, <2>9 DEF Graded
  <2>8. QED BY <1>5, <2>1, <2>6, <2>7
<1>8. QED BY <1>3, <1>4, <1>6, <1>7, <1>9

LEMMA AttendanceSteps ==
  ASSUME Course!GradedInv, NEW w \in Workers,
         \/ Course!AttendanceTake(w) \/ Course!Drop(w)
         \/ \E s \in Students : Course!MarkStudent(w, s)
  PROVE  Course!GradedInv'
<1>1. /\ v1 \in SUBSET Students /\ memory[w] \in Course!Request
      /\ v9 \in [Students -> Course!Attendance \cup {Course!None}]
      /\ v2 \in Course!Material /\ CountedIn(v2, memory, v3)
  BY GradedParts
<1>2. Course!Idle \in Course!Request /\ Course!Idle.op = "idle"
  BY CourseRequests
<1>3. CASE Course!AttendanceTake(w)
  <2>1. PICK m \in Course!Request : 
          m = IF v1 = {} THEN Course!Idle ELSE [op |-> "attend", left |-> v1]
    BY <1>1, CourseRequests
  <2>2. /\ Course!Become(w, m) /\ v8' = "yes"
        /\ UNCHANGED <<v1, v2, v3, v4, v5, v6, v7, v9>>
    BY <1>3, <2>1 DEF Course!AttendanceTake
  <2>3. m.op \in {"idle", "attend"}
    BY <1>2, <2>1
  <2>4. MemoryKept
    BY <2>2, <2>3, BecomeKeepsMemory
  <2>5. CountedIn(v2', memory', v3')
    BY <1>1, <2>2, <2>3, CountedOn
  <2>6. QED BY <2>2, <2>4, <2>5, GradedParts, GradedPartsNext DEF MemoryKept
<1>4. CASE Course!Drop(w)
  <2>1. Course!Become(w, Course!Idle) /\ UNCHANGED <<v1, v2, v3, v4, v5, v6, v7, v8, v9>>
    BY <1>4 DEF Course!Drop
  <2>2. MemoryKept
    BY <1>2, <2>1, BecomeKeepsMemory
  <2>3. CountedIn(v2', memory', v3')
    BY <1>1, <1>2, <2>1, CountedOn
  <2>4. QED BY <2>1, <2>2, <2>3, GradedParts, GradedPartsNext DEF MemoryKept
<1>5. ASSUME NEW s \in Students, Course!MarkStudent(w, s) PROVE Course!GradedInv'
  <2>1. memory[w].op = "attend" /\ memory[w].left \in SUBSET Students
    BY <1>1, <1>5, CourseRequestType DEF Course!MarkStudent
  <2>2. memory[w] \in [op : {"attend"}, left : SUBSET Students]
    BY <1>1, <2>1 DEF Course!Request, Course!Idle
  <2>3. PICK rest : rest = [memory[w] EXCEPT !.left = memory[w].left \ {s}]
    OBVIOUS
  <2>4. rest = [op |-> "attend", left |-> memory[w].left \ {s}]
    BY <2>2, <2>3
  <2>5. PICK m \in Course!Request :
          m = IF memory[w].left = {s} THEN Course!Idle ELSE rest
    BY <2>1, <2>4, CourseRequests
  <2>6. m.op \in {"idle", "attend"}
    BY <1>2, <2>4, <2>5
  <2>7. /\ Course!Become(w, m) /\ v8 = "yes"
        /\ UNCHANGED <<v1, v2, v3, v4, v5, v6, v7, v8>>
    BY <1>5, <2>1, <2>3, <2>5, GradedParts DEF Course!MarkStudent
  <2>8. v9' \in [Students -> Course!Attendance \cup {Course!None}]
    BY <1>1, <1>5 DEF Course!MarkStudent
  <2>9. MemoryKept
    BY <2>6, <2>7, BecomeKeepsMemory
  <2>10. CountedIn(v2', memory', v3')
    BY <1>1, <2>6, <2>7, CountedOn
  <2>11. QED BY <2>7, <2>8, <2>9, <2>10, GradedParts, GradedPartsNext DEF MemoryKept
<1>6. QED BY <1>3, <1>4, <1>5

LEMMA CourseworkNext == Course!GradedInv /\ Course!Next => Course!GradedInv'
<1> SUFFICES ASSUME Course!GradedInv, Course!Next PROVE Course!GradedInv'
  OBVIOUS
<1>1. ASSUME memory' = memory, v2' = v2, v3' = v3, v6' = v6, v7' = v7, v8' = v8, v9' = v9,
             v1' \in SUBSET Students, v4' \in Course!AssignmentStatus, v5' \in {"yes", "no"}
      PROVE  Course!GradedInv'
  BY <1>1, GradedParts, GradedPartsNext
<1>2. CASE Course!PublishToggle
  BY <1>1, <1>2, GradedParts DEF Course!PublishToggle, Course!AssignmentStatus
<1>3. CASE Course!DueDatePasses
  BY <1>1, <1>3, GradedParts DEF Course!DueDatePasses
<1>4. ASSUME NEW s \in Students, Course!ToggleEnrolment(s) PROVE Course!GradedInv'
  BY <1>1, <1>4, GradedParts DEF Course!ToggleEnrolment
<1>5. ASSUME NEW w \in Workers, Course!TeacherStep(w) \/ Course!StudentStep(w) \/ Course!Drop(w)
      PROVE  Course!GradedInv'
  <2>1. CASE Course!Submit(w) \/ Course!OpenGrading(w) \/ Course!GradeSubmission(w)
    <3>1. memory[w].student \in Students
      BY <2>1, GradedParts, CourseRequestType
         DEF Course!Submit, Course!OpenGrading, Course!GradeSubmission
    <3>2. QED BY <2>1, <3>1, AssignmentSteps
  <2>2. QED BY <1>5, <2>1, MaterialSteps, AssignmentSteps, AttendanceSteps
            DEF Course!TeacherStep, Course!StudentStep
<1>6. QED BY <1>2, <1>3, <1>4, <1>5 DEF Course!Next


(***************************************************************************)
(* Quizzes.                                                                *)
(***************************************************************************)
Begun(table) == {t \in Attempts : table[t] # Quiz!NoAttempt}
SavedFor(marks, t) == {q \in Questions : marks[t][q] # Quiz!NoMark}
AttemptRow ==
  [number : 0..MaxAttempts, complete : {"yes", "no"}, score : -1..Cardinality(Questions)]

(* No two attempts have the same number.                                   *)
Numbered(table) ==
  \A t \in Begun(table) :
    /\ table[t].number >= 1
    /\ \A u \in Begun(table) : table[t].number = table[u].number => t = u

(* What a request has read is true of the rows, or still to be made so.    *)
HeldFor(m, table, marks) ==
  /\ m.op \in {"take", "mark"} =>
       /\ m.attempt \in Begun(table)
       /\ m.total + Cardinality(m.left) <= Cardinality(Questions)
  /\ m.op = "take" => m.left \subseteq m.listed /\ m.listed \ m.left \subseteq SavedFor(marks, m.attempt)
  /\ m.op = "mark" => \A q \in m.left : m.rows[q] # Quiz!NoMark

Completed(table, marks, lists) ==
  \A t \in Attempts : table[t].complete = "yes" => lists[t] \subseteq SavedFor(marks, t)

LEMMA QuizOperators ==
  /\ Quiz!Started = Begun(v5) /\ \A t : Quiz!Answered(t) = SavedFor(v6, t)
  /\ Quiz!NoMark = -1 /\ Quiz!ScoreRange = -1..Cardinality(Questions)
BY SameCardinality
   DEF Quiz!Started, Begun, Quiz!Answered, SavedFor, Quiz!NoMark, Quiz!ScoreRange

LEMMA QuizOperatorsNext ==
  Quiz!Started' = Begun(v5') /\ \A t : Quiz!Answered(t)' = SavedFor(v6', t)
BY DEF Quiz!Started, Begun, Quiz!Answered, SavedFor

LEMMA AttemptParts ==
  Quiz!AttemptInv <=>
    /\ v1 \in {"yes", "no"} /\ v2 \in {"before", "open", "after"} /\ v3 \in {"yes", "no"}
    /\ v4 \in [Questions -> Quiz!QuestionType \cup {Quiz!None}]
    /\ v5 \in [Attempts -> AttemptRow]
    /\ v6 \in [Attempts -> [Questions -> -1..1]]
    /\ v7 \in SUBSET Begun(v5) /\ v8 \in [Attempts -> SUBSET Questions]
    /\ memory \in [Workers -> Quiz!Request]
    /\ Numbered(v5) /\ \A w \in Workers : HeldFor(memory[w], v5, v6)
    /\ Cardinality(Begun(v5)) <= MaxAttempts /\ Completed(v5, v6, v8)
<1>1. Quiz!TypeOK <=>
        /\ v1 \in {"yes", "no"} /\ v2 \in {"before", "open", "after"} /\ v3 \in {"yes", "no"}
        /\ v4 \in [Questions -> Quiz!QuestionType \cup {Quiz!None}]
        /\ v5 \in [Attempts -> AttemptRow]
        /\ v6 \in [Attempts -> [Questions -> -1..1]]
        /\ v7 \in SUBSET Begun(v5) /\ v8 \in [Attempts -> SUBSET Questions]
  BY QuizOperators DEF Quiz!TypeOK, AttemptRow
<1>2. Quiz!AttemptsKept <=> Cardinality(Begun(v5)) <= MaxAttempts /\ Completed(v5, v6, v8)
  BY QuizOperators, SameCardinality DEF Quiz!AttemptsKept, Completed
<1>3. (\A w \in Workers : HeldFor(memory[w], v5, v6)) <=>
        \A w \in Workers :
          /\ memory[w].op \in {"take", "mark"} =>
               /\ memory[w].attempt \in Quiz!Started
               /\ memory[w].total + Quiz!Cardinality(memory[w].left) <= Quiz!Cardinality(Questions)
          /\ memory[w].op = "take" =>
               /\ memory[w].left \subseteq memory[w].listed
               /\ memory[w].listed \ memory[w].left \subseteq Quiz!Answered(memory[w].attempt)
          /\ memory[w].op = "mark" => \A q \in memory[w].left : memory[w].rows[q] # Quiz!NoMark
  BY QuizOperators, SameCardinality DEF HeldFor
<1>4. QED BY <1>1, <1>2, <1>3, QuizOperators DEF Quiz!AttemptInv, Numbered

LEMMA AttemptPartsNext ==
  Quiz!AttemptInv' <=>
    /\ v1' \in {"yes", "no"} /\ v2' \in {"before", "open", "after"} /\ v3' \in {"yes", "no"}
    /\ v4' \in [Questions -> Quiz!QuestionType \cup {Quiz!None}]
    /\ v5' \in [Attempts -> AttemptRow]
    /\ v6' \in [Attempts -> [Questions -> -1..1]]
    /\ v7' \in SUBSET Begun(v5') /\ v8' \in [Attempts -> SUBSET Questions]
    /\ memory' \in [Workers -> Quiz!Request]
    /\ Numbered(v5') /\ \A w \in Workers : HeldFor(memory'[w], v5', v6')
    /\ Cardinality(Begun(v5')) <= MaxAttempts /\ Completed(v5', v6', v8')
<1>1. Quiz!TypeOK' <=>
        /\ v1' \in {"yes", "no"} /\ v2' \in {"before", "open", "after"} /\ v3' \in {"yes", "no"}
        /\ v4' \in [Questions -> Quiz!QuestionType \cup {Quiz!None}]
        /\ v5' \in [Attempts -> AttemptRow]
        /\ v6' \in [Attempts -> [Questions -> -1..1]]
        /\ v7' \in SUBSET Begun(v5') /\ v8' \in [Attempts -> SUBSET Questions]
  BY QuizOperators, QuizOperatorsNext DEF Quiz!TypeOK, AttemptRow
<1>2. Quiz!AttemptsKept' <=> Cardinality(Begun(v5')) <= MaxAttempts /\ Completed(v5', v6', v8')
  BY QuizOperatorsNext, SameCardinality DEF Quiz!AttemptsKept, Completed
<1>3. (\A w \in Workers : HeldFor(memory'[w], v5', v6')) <=>
        \A w \in Workers :
          /\ memory'[w].op \in {"take", "mark"} =>
               /\ memory'[w].attempt \in Quiz!Started'
               /\ memory'[w].total + Quiz!Cardinality(memory'[w].left) <= Quiz!Cardinality(Questions)
          /\ memory'[w].op = "take" =>
               /\ memory'[w].left \subseteq memory'[w].listed
               /\ memory'[w].listed \ memory'[w].left \subseteq Quiz!Answered(memory[w].attempt)'
          /\ memory'[w].op = "mark" => \A q \in memory'[w].left : memory'[w].rows[q] # Quiz!NoMark
  <2>1. \A w : Quiz!Answered(memory[w].attempt)' = SavedFor(v6', memory'[w].attempt)
    BY DEF Quiz!Answered, SavedFor
  <2>2. QED BY <2>1, QuizOperatorsNext, SameCardinality DEF HeldFor
<1>4. QED BY <1>1, <1>2, <1>3, QuizOperatorsNext DEF Quiz!AttemptInv, Numbered


LEMMA QuizRequestType ==
  ASSUME NEW m \in Quiz!Request
  PROVE  /\ m.op = "start" => m.number \in 1..MaxAttempts
         /\ m.op \in {"take", "mark"} =>
              m.attempt \in Attempts /\ m.left \in SUBSET Questions /\ m.total \in Nat
         /\ m.op = "take" => m.form \in {"filled", "empty"} /\ m.listed \in SUBSET Questions
         /\ m.op = "mark" => m.rows \in [Questions -> -1..1]
<1>1. CASE m = Quiz!Idle
  BY <1>1 DEF Quiz!Idle
<1>2. CASE m \in [op : {"start"}, number : 1..MaxAttempts]
  BY <1>2
<1>3. CASE m \in [op : {"take"}, attempt : Attempts, form : {"filled", "empty"},
                  listed : SUBSET Questions, left : SUBSET Questions, total : Nat]
  BY <1>3
<1>4. CASE m \in [op : {"mark"}, attempt : Attempts, rows : [Questions -> Quiz!NoMark..1],
                  left : SUBSET Questions, total : Nat]
  BY <1>4 DEF Quiz!NoMark
<1>5. QED BY <1>1, <1>2, <1>3, <1>4 DEF Quiz!Request

LEMMA QuizRequests ==
  /\ Quiz!Idle \in Quiz!Request /\ Quiz!Idle.op = "idle"
  /\ \A n \in 1..MaxAttempts : [op |-> "start", number |-> n] \in Quiz!Request
  /\ \A t \in Attempts, form \in {"filled", "empty"}, listed, left \in SUBSET Questions,
        total \in Nat :
       [op |-> "take", attempt |-> t, form |-> form, listed |-> listed, left |-> left,
        total |-> total] \in Quiz!Request
  /\ \A t \in Attempts, fetched \in [Questions -> -1..1], left \in SUBSET Questions, total \in Nat :
       [op |-> "mark", attempt |-> t, rows |-> fetched, left |-> left, total |-> total]
         \in Quiz!Request
BY DEF Quiz!Request, Quiz!Idle, Quiz!NoMark

LEMMA QuestionCount ==
  /\ Cardinality(Questions) \in Nat
  /\ \A S \in SUBSET Questions :
       /\ IsFiniteSet(S) /\ Cardinality(S) \in Nat /\ Cardinality(S) <= Cardinality(Questions)
       /\ \A q \in S : Cardinality(S \ {q}) + 1 = Cardinality(S)
<1>1. Cardinality(Questions) \in Nat
  BY FiniteAssumption, FS_CardinalityType
<1>2. ASSUME NEW S \in SUBSET Questions
      PROVE  /\ IsFiniteSet(S) /\ Cardinality(S) \in Nat /\ Cardinality(S) <= Cardinality(Questions)
             /\ \A q \in S : Cardinality(S \ {q}) + 1 = Cardinality(S)
  <2>1. IsFiniteSet(S) /\ Cardinality(S) <= Cardinality(Questions)
    BY FiniteAssumption, FS_Subset
  <2>2. Cardinality(S) \in Nat
    BY <2>1, FS_CardinalityType
  <2>3. ASSUME NEW q \in S PROVE Cardinality(S \ {q}) + 1 = Cardinality(S)
    <3>1. Cardinality(S \ {q}) = Cardinality(S) - 1
      BY <2>1, FS_RemoveElement
    <3>2. QED BY <2>2, <3>1
  <2>4. QED BY <2>1, <2>2, <2>3
<1>3. QED BY <1>1, <1>2

(* Numbers that differ and are within bounds bound the attempts.           *)
LEMMA NumbersBound ==
  ASSUME NEW table \in [Attempts -> AttemptRow], Numbered(table)
  PROVE  IsFiniteSet(Begun(table)) /\ Cardinality(Begun(table)) <= MaxAttempts
<1> DEFINE S == Begun(table)
           f == [t \in S |-> table[t].number]
<1>1. \A t \in S : table[t].number \in 1..MaxAttempts
  BY BoundsAssumption DEF Begun, Numbered, AttemptRow
<1>2. \A t, u \in S : f[t] = f[u] => t = u
  BY DEF Numbered
<1>3. f \in Injection(S, 1..MaxAttempts)
  BY <1>1, <1>2 DEF Injection, IsInjective
<1>4. IsFiniteSet(1..MaxAttempts) /\ Cardinality(1..MaxAttempts) = MaxAttempts
  BY BoundsAssumption, FS_Interval
<1>5. QED BY <1>3, <1>4, FS_Injection

(* A row that stays begun, and answers that stay saved, keep what a        *)
(* request has read.                                                       *)
LEMMA HeldOn ==
  ASSUME NEW m \in Quiz!Request, NEW table, NEW tables, NEW marks, NEW after,
         HeldFor(m, table, marks), Begun(table) \subseteq Begun(tables),
         \A t \in Attempts : SavedFor(marks, t) \subseteq SavedFor(after, t)
  PROVE  HeldFor(m, tables, after)
<1>1. m.op \in {"take", "mark"} => m.attempt \in Attempts
  BY QuizRequestType
<1>2. QED BY <1>1 DEF HeldFor

(* What every step keeps, whichever row it writes.                         *)
LEMMA QuizStep ==
  ASSUME Quiz!AttemptInv, NEW w \in Workers, NEW m \in Quiz!Request, Quiz!Become(w, m),
         UNCHANGED <<v1, v2, v3, v4, v7>>,
         v5' \in [Attempts -> AttemptRow], v6' \in [Attempts -> [Questions -> -1..1]],
         v8' \in [Attempts -> SUBSET Questions],
         Begun(v5) \subseteq Begun(v5'), Numbered(v5'),
         \A t \in Attempts : SavedFor(v6, t) \subseteq SavedFor(v6', t),
         HeldFor(m, v5', v6'), Completed(v5', v6', v8')
  PROVE  Quiz!AttemptInv'
<1>1. memory' = [memory EXCEPT ![w] = m] /\ memory \in [Workers -> Quiz!Request]
  BY AttemptParts DEF Quiz!Become
<1>2. memory' \in [Workers -> Quiz!Request]
  BY <1>1
<1>3. ASSUME NEW x \in Workers PROVE HeldFor(memory'[x], v5', v6')
  <2>1. CASE x = w
    BY <1>1, <2>1
  <2>2. CASE x # w
    <3>1. memory'[x] = memory[x] /\ memory[x] \in Quiz!Request /\ HeldFor(memory[x], v5, v6)
      BY <1>1, <2>2, AttemptParts
    <3>2. QED BY <3>1, HeldOn
  <2>3. QED BY <2>1, <2>2
<1>4. Cardinality(Begun(v5')) <= MaxAttempts
  BY NumbersBound
<1>5. QED BY <1>2, <1>3, <1>4, AttemptParts, AttemptPartsNext

LEMMA QuizInit == Quiz!Init => Quiz!AttemptInv
<1> SUFFICES ASSUME Quiz!Init PROVE Quiz!AttemptInv
  OBVIOUS
<1>1. Quiz!NoAttempt \in AttemptRow
  BY BoundsAssumption, QuestionCount DEF Quiz!NoAttempt, Quiz!NoMark, AttemptRow
<1>2. v5 \in [Attempts -> AttemptRow] /\ Begun(v5) = {}
  BY <1>1 DEF Quiz!Init, Begun
<1>3. v6 \in [Attempts -> [Questions -> -1..1]]
  BY DEF Quiz!Init, Quiz!NoAnswers, Quiz!NoMark
<1>4. Numbered(v5)
  BY <1>2 DEF Numbered
<1>5. Completed(v5, v6, v8)
  BY DEF Quiz!Init, Quiz!NoAttempt, Completed
<1>6. memory \in [Workers -> Quiz!Request] /\ \A w \in Workers : HeldFor(memory[w], v5, v6)
  BY QuizRequests DEF Quiz!Init, HeldFor
<1>7. QED BY <1>2, <1>3, <1>4, <1>5, <1>6, NumbersBound, AttemptParts
          DEF Quiz!Init, Quiz!None


LEMMA StartSteps ==
  ASSUME Quiz!AttemptInv, NEW w \in Workers,
         Quiz!QuizStart(w) \/ \E t \in Attempts : Quiz!CreateAttempt(w, t)
  PROVE  Quiz!AttemptInv'
<1>1. /\ v5 \in [Attempts -> AttemptRow] /\ v6 \in [Attempts -> [Questions -> -1..1]]
      /\ v8 \in [Attempts -> SUBSET Questions] /\ Numbered(v5) /\ Completed(v5, v6, v8)
      /\ memory[w] \in Quiz!Request
  BY AttemptParts
<1>2. CASE Quiz!QuizStart(w)
  <2>1. /\ Cardinality(Begun(v5)) < MaxAttempts
        /\ Quiz!Become(w, [op |-> "start", number |-> Cardinality(Begun(v5)) + 1])
        /\ UNCHANGED <<v1, v2, v3, v4, v5, v6, v7, v8>>
    BY <1>2, QuizOperators, SameCardinality DEF Quiz!QuizStart
  <2>2. Cardinality(Begun(v5)) \in Nat
    BY <1>1, NumbersBound, FS_CardinalityType
  <2>3. Cardinality(Begun(v5)) + 1 \in 1..MaxAttempts
    BY <2>1, <2>2, BoundsAssumption
  <2>4. PICK m \in Quiz!Request : m = [op |-> "start", number |-> Cardinality(Begun(v5)) + 1]
    BY <2>3, QuizRequests
  <2>5. HeldFor(m, v5', v6')
    BY <2>4 DEF HeldFor
  <2>6. QED BY <1>1, <2>1, <2>4, <2>5, QuizStep
<1>3. ASSUME NEW t \in Attempts, Quiz!CreateAttempt(w, t) PROVE Quiz!AttemptInv'
  <2>1. PICK n \in 1..MaxAttempts : n = memory[w].number
    BY <1>1, <1>3, QuizRequestType DEF Quiz!CreateAttempt
  <2>2. /\ v5[t] = Quiz!NoAttempt /\ v5' = [v5 EXCEPT ![t].number = n]
        /\ Quiz!Become(w, Quiz!Idle) /\ UNCHANGED <<v1, v2, v3, v4, v6, v7, v8>>
        /\ \A u \in Begun(v5) : v5[u].number # n
    BY <1>3, <2>1, QuizOperators DEF Quiz!CreateAttempt, Quiz!NumberFree
  <2>3. PICK new : new = [Quiz!NoAttempt EXCEPT !.number = n]
    OBVIOUS
  <2>4. v5' = [v5 EXCEPT ![t] = new]
    BY <2>2, <2>3
  <2>5. /\ new \in AttemptRow /\ new.number = n /\ new.complete = "no" 
    BY <1>1, <2>2, <2>3, BoundsAssumption DEF AttemptRow, Quiz!NoAttempt
  <2>6. new # Quiz!NoAttempt
    BY <2>5, BoundsAssumption DEF Quiz!NoAttempt
  <2>7. t \notin Begun(v5) /\ Begun(v5') = Begun(v5) \cup {t}
    BY <1>1, <2>2, <2>4, <2>6 DEF Begun
  <2>8. v5' \in [Attempts -> AttemptRow] /\ v5'[t] = new /\ \A u \in Attempts \ {t} : v5'[u] = v5[u]
    BY <1>1, <2>4, <2>5
  <2>9. Begun(v5) \subseteq Attempts
    BY DEF Begun
  <2>10. Numbered(v5')
    <3>1. v5'[t].number = n /\ n >= 1
      BY <2>5, <2>8, BoundsAssumption
    <3>2. \A u \in Begun(v5) : v5'[u].number = v5[u].number /\ v5[u].number # n
      BY <2>2, <2>7, <2>8, <2>9
    <3>3. QED BY <1>1, <2>7, <3>1, <3>2 DEF Numbered
  <2>11. Completed(v5', v6', v8')
    BY <1>1, <2>2, <2>5, <2>8 DEF Completed
  <2>12. HeldFor(Quiz!Idle, v5', v6')
    BY QuizRequests DEF HeldFor
  <2>13. QED BY <1>1, <2>2, <2>7, <2>8, <2>10, <2>11, <2>12, QuizRequests, QuizStep
<1>4. QED BY <1>2, <1>3


(* A row that is scored, and perhaps complete, was begun and still is.     *)
LEMMA ScoredRow ==
  ASSUME Quiz!AttemptInv, NEW t \in Begun(v5), NEW total \in 0..Cardinality(Questions),
         NEW complete \in {v5[t].complete, "yes"},
         v5' = [v5 EXCEPT ![t] = [number |-> v5[t].number, complete |-> complete, score |-> total]]
  PROVE  /\ v5' \in [Attempts -> AttemptRow] /\ Begun(v5') = Begun(v5) /\ Numbered(v5')
         /\ v5'[t].complete = complete
         /\ \A u \in Attempts \ {t} : v5'[u] = v5[u]
<1>1. v5 \in [Attempts -> AttemptRow] /\ Numbered(v5) /\ t \in Attempts
  BY AttemptParts DEF Begun
<1>2. v5[t] \in AttemptRow /\ v5[t].number >= 1
  BY <1>1 DEF Numbered
<1>3. PICK new : new = [number |-> v5[t].number, complete |-> complete, score |-> total]
  OBVIOUS
<1>4. total \in -1..Cardinality(Questions)
  BY QuestionCount
<1>5. new \in AttemptRow /\ new.number = v5[t].number /\ new.complete = complete
  BY <1>2, <1>3, <1>4 DEF AttemptRow
<1>6. new # Quiz!NoAttempt
  BY <1>2, <1>5 DEF Quiz!NoAttempt
<1>7. v5' \in [Attempts -> AttemptRow] /\ v5'[t] = new /\ \A u \in Attempts \ {t} : v5'[u] = v5[u]
  BY <1>1, <1>3, <1>5
<1>8. Begun(v5') = Begun(v5)
  BY <1>1, <1>6, <1>7 DEF Begun
<1>9. \A u \in Attempts : v5'[u].number = v5[u].number
  BY <1>5, <1>7
<1>10. Begun(v5) \subseteq Attempts
  BY DEF Begun
<1>11. Numbered(v5')
  BY <1>1, <1>8, <1>9, <1>10 DEF Numbered
<1>12. QED BY <1>5, <1>7, <1>8, <1>11

LEMMA TakeSteps ==
  ASSUME Quiz!AttemptInv, NEW w \in Workers,
         \/ Quiz!CompleteAttempt(w) \/ \E t \in Attempts : Quiz!QuizTake(w, t)
         \/ \E q \in Questions : Quiz!SaveAnswer(w, q)
  PROVE  Quiz!AttemptInv'
<1>1. /\ v5 \in [Attempts -> AttemptRow] /\ v6 \in [Attempts -> [Questions -> -1..1]]
      /\ v8 \in [Attempts -> SUBSET Questions] /\ Numbered(v5) /\ Completed(v5, v6, v8)
      /\ memory[w] \in Quiz!Request /\ HeldFor(memory[w], v5, v6)
  BY AttemptParts
<1>2. ASSUME NEW t \in Attempts, Quiz!QuizTake(w, t) PROVE Quiz!AttemptInv'
  <2>1. Quiz!Asked \in SUBSET Questions
    BY DEF Quiz!Asked
  <2>2. PICK form \in {"filled", "empty"} :
          Quiz!Become(w, [op |-> "take", attempt |-> t, form |-> form,
                          listed |-> Quiz!Asked, left |-> Quiz!Asked, total |-> 0])
    BY <1>2 DEF Quiz!QuizTake
  <2>3. PICK m \in Quiz!Request :
          m = [op |-> "take", attempt |-> t, form |-> form,
               listed |-> Quiz!Asked, left |-> Quiz!Asked, total |-> 0]
    BY <2>1, QuizRequests
  <2>4. t \in Begun(v5) /\ UNCHANGED <<v1, v2, v3, v4, v5, v6, v7, v8>>
    BY <1>2, QuizOperators DEF Quiz!QuizTake
  <2>5. 0 + Cardinality(Quiz!Asked) <= Cardinality(Questions)
    BY <2>1, QuestionCount
  <2>6. HeldFor(m, v5', v6')
    BY <2>3, <2>4, <2>5 DEF HeldFor
  <2>7. QED BY <1>1, <2>2, <2>3, <2>4, <2>6, QuizStep
<1>3. ASSUME NEW q \in Questions, Quiz!SaveAnswer(w, q) PROVE Quiz!AttemptInv'
  <2>1. memory[w].op = "take" /\ q \in memory[w].left
    BY <1>3 DEF Quiz!SaveAnswer
  <2>2. PICK u \in Attempts, left \in SUBSET Questions, listed \in SUBSET Questions, total \in Nat :
          /\ u = memory[w].attempt /\ left = memory[w].left /\ listed = memory[w].listed
          /\ total = memory[w].total
    BY <1>1, <2>1, QuizRequestType
  <2>3. /\ u \in Begun(v5) /\ total + Cardinality(left) <= Cardinality(Questions)
        /\ left \subseteq listed /\ listed \ left \subseteq SavedFor(v6, u)
    BY <1>1, <2>1, <2>2 DEF HeldFor
  <2>0. PICK marks \in Quiz!Awarded(q) :
          /\ v6' = [v6 EXCEPT ![memory[w].attempt][q] = marks]
          /\ Quiz!Become(w, [memory[w] EXCEPT !.left = memory[w].left \ {q},
                                              !.total = memory[w].total + marks])
    BY <1>3 DEF Quiz!SaveAnswer
  <2>4. /\ marks \in 0..1 /\ v6' = [v6 EXCEPT ![u][q] = marks]
        /\ Quiz!Become(w, [memory[w] EXCEPT !.left = left \ {q}, !.total = total + marks])
    BY <2>0, <2>2 DEF Quiz!Awarded
  <2>5. memory[w] \in [op : {"take"}, attempt : Attempts, form : {"filled", "empty"},
                       listed : SUBSET Questions, left : SUBSET Questions, total : Nat]
    BY <1>1, <2>1 DEF Quiz!Request, Quiz!Idle
  <2>6. PICK m : m = [memory[w] EXCEPT !.left = left \ {q}, !.total = total + marks]
    OBVIOUS
  <2>7. /\ m = [op |-> "take", attempt |-> u, form |-> memory[w].form, listed |-> listed,
                left |-> left \ {q}, total |-> total + marks]
        /\ memory[w].form \in {"filled", "empty"}
    BY <2>2, <2>5, <2>6
  <2>8. left \ {q} \in SUBSET Questions /\ total + marks \in Nat
    BY <2>4
  <2>9. m \in Quiz!Request
    BY <2>7, <2>8, QuizRequests
  <2>10. PICK list : list = [v6[u] EXCEPT ![q] = marks]
    OBVIOUS
  <2>11. list \in [Questions -> -1..1] /\ v6' = [v6 EXCEPT ![u] = list] /\ list[q] # -1
         /\ \A p \in Questions \ {q} : list[p] = v6[u][p]
    BY <1>1, <2>4, <2>10
  <2>12. /\ v6' \in [Attempts -> [Questions -> -1..1]]
         /\ v6'[u] = list /\ \A x \in Attempts \ {u} : v6'[x] = v6[x]
    BY <1>1, <2>11
  <2>13. SavedFor(v6', u) = SavedFor(v6, u) \cup {q}
    BY <2>11, <2>12 DEF SavedFor, Quiz!NoMark
  <2>14. \A x \in Attempts : SavedFor(v6, x) \subseteq SavedFor(v6', x)
    BY <2>12, <2>13 DEF SavedFor
  <2>15. UNCHANGED <<v1, v2, v3, v4, v5, v7, v8>>
    BY <1>3 DEF Quiz!SaveAnswer
  <2>16. total + marks + Cardinality(left \ {q}) <= Cardinality(Questions)
    <3>1. Cardinality(left \ {q}) + 1 = Cardinality(left) /\ Cardinality(left \ {q}) \in Nat
      BY <2>1, <2>2, <2>8, QuestionCount
    <3>2. QED BY <2>3, <2>4, <3>1, QuestionCount
  <2>17. HeldFor(m, v5', v6')
    BY <2>3, <2>7, <2>13, <2>15, <2>16 DEF HeldFor
  <2>18. Completed(v5', v6', v8')
    BY <1>1, <2>14, <2>15 DEF Completed
  <2>19. QED BY <1>1, <2>4, <2>6, <2>9, <2>12, <2>14, <2>15, <2>17, <2>18, QuizStep
<1>4. CASE Quiz!CompleteAttempt(w)
  <2>1. memory[w].op = "take" /\ memory[w].left = {}
    BY <1>4 DEF Quiz!CompleteAttempt, Quiz!AllSaved
  <2>2. PICK u \in Attempts, listed \in SUBSET Questions, total \in Nat :
          u = memory[w].attempt /\ listed = memory[w].listed /\ total = memory[w].total
    BY <1>1, <2>1, QuizRequestType
  <2>3. u \in Begun(v5) /\ total + Cardinality({}) <= Cardinality(Questions)
    BY <1>1, <2>1, <2>2 DEF HeldFor
  <2>4. total \in 0..Cardinality(Questions)
    BY <2>3, FS_EmptySet, QuestionCount
  <2>5. listed \subseteq SavedFor(v6, u)
    BY <1>1, <2>1, <2>2 DEF HeldFor
  <2>6. /\ v5' = [v5 EXCEPT ![u].score = total, ![u].complete = "yes"]
        /\ v8' = [v8 EXCEPT ![u] = listed] /\ Quiz!Become(w, Quiz!Idle)
        /\ UNCHANGED <<v1, v2, v3, v4, v6, v7>>
    BY <1>4, <2>2 DEF Quiz!CompleteAttempt
  <2>7. v5[u] \in [number : 0..MaxAttempts, complete : {"yes", "no"}, score : -1..Cardinality(Questions)]
    BY <1>1 DEF AttemptRow
  <2>8. PICK first : first = [v5[u] EXCEPT !.score = total]
    OBVIOUS
  <2>9. PICK second : second = [first EXCEPT !.complete = "yes"]
    OBVIOUS
  <2>10. second = [number |-> v5[u].number, complete |-> "yes", score |-> total]
    BY <2>7, <2>8, <2>9
  <2>11. v5' = [v5 EXCEPT ![u] = second]
    BY <1>1, <2>6, <2>8, <2>9
  <2>12. /\ v5' \in [Attempts -> AttemptRow] /\ Begun(v5') = Begun(v5) /\ Numbered(v5')
         /\ \A x \in Attempts \ {u} : v5'[x] = v5[x]
    BY <2>3, <2>4, <2>10, <2>11, ScoredRow
  <2>13. v8' \in [Attempts -> SUBSET Questions]
    BY <1>1, <2>6
  <2>14. Completed(v5', v6', v8')
    BY <1>1, <2>5, <2>6, <2>12 DEF Completed
  <2>15. HeldFor(Quiz!Idle, v5', v6')
    BY QuizRequests DEF HeldFor
  <2>16. \A x \in Attempts : SavedFor(v6, x) \subseteq SavedFor(v6', x)
    BY <2>6
  <2>17. QED BY <1>1, <2>6, <2>12, <2>13, <2>14, <2>15, <2>16, QuizRequests, QuizStep
<1>5. QED BY <1>2, <1>3, <1>4


LEMMA MarkSteps ==
  ASSUME Quiz!AttemptInv, NEW w \in Workers,
         \/ Quiz!SaveScore(w) \/ Quiz!Drop(w) \/ \E t \in Attempts : Quiz!QuizAttemptDetail(w, t)
         \/ \E q \in Questions : Quiz!MarkAnswer(w, q)
  PROVE  Quiz!AttemptInv'
<1>1. /\ v5 \in [Attempts -> AttemptRow] /\ v6 \in [Attempts -> [Questions -> -1..1]]
      /\ v8 \in [Attempts -> SUBSET Questions] /\ Numbered(v5) /\ Completed(v5, v6, v8)
      /\ memory[w] \in Quiz!Request /\ HeldFor(memory[w], v5, v6)
  BY AttemptParts
<1>2. ASSUME NEW t \in Attempts, Quiz!QuizAttemptDetail(w, t) PROVE Quiz!AttemptInv'
  <2>1. PICK left \in SUBSET Questions, fetched \in [Questions -> -1..1] :
          left = SavedFor(v6, t) /\ fetched = v6[t]
    BY <1>1 DEF SavedFor
  <2>2. /\ t \in Begun(v5) /\ UNCHANGED <<v1, v2, v3, v4, v5, v6, v7, v8>>
        /\ Quiz!Become(w, [op |-> "mark", attempt |-> t, rows |-> fetched, left |-> left,
                           total |-> 0])
    BY <1>2, <2>1, QuizOperators DEF Quiz!QuizAttemptDetail
  <2>3. PICK m \in Quiz!Request :
          m = [op |-> "mark", attempt |-> t, rows |-> fetched, left |-> left, total |-> 0]
    BY QuizRequests
  <2>4. 0 + Cardinality(left) <= Cardinality(Questions)
    BY QuestionCount
  <2>5. \A p \in left : fetched[p] # Quiz!NoMark
    BY <2>1 DEF SavedFor
  <2>6. HeldFor(m, v5', v6')
    BY <2>2, <2>3, <2>4, <2>5 DEF HeldFor
  <2>7. QED BY <1>1, <2>2, <2>3, <2>6, QuizStep
<1>3. ASSUME NEW q \in Questions, Quiz!MarkAnswer(w, q) PROVE Quiz!AttemptInv'
  <2>1. memory[w].op = "mark" /\ q \in memory[w].left
    BY <1>3 DEF Quiz!MarkAnswer
  <2>2. PICK u \in Attempts, left \in SUBSET Questions, fetched \in [Questions -> -1..1], total \in Nat :
          /\ u = memory[w].attempt /\ left = memory[w].left /\ fetched = memory[w].rows
          /\ total = memory[w].total
    BY <1>1, <2>1, QuizRequestType
  <2>3. /\ u \in Begun(v5) /\ total + Cardinality(left) <= Cardinality(Questions)
        /\ \A p \in left : fetched[p] # Quiz!NoMark
    BY <1>1, <2>1, <2>2 DEF HeldFor
  <2>4. fetched[q] \in 0..1
    BY <2>1, <2>2, <2>3 DEF Quiz!NoMark
  <2>5. PICK marks \in 0..1 :
          /\ Quiz!Become(w, [memory[w] EXCEPT !.left = left \ {q}, !.total = total + marks])
          /\ v6' = v6 \/ v6' = [v6 EXCEPT ![u][q] = marks]
    <3>1. CASE /\ Quiz!Become(w, [memory[w] EXCEPT !.left = memory[w].left \ {q},
                                      !.total = memory[w].total + memory[w].rows[q]])
               /\ v6' = v6
      BY <2>2, <2>4, <3>1
    <3>2. CASE \E marks \in 0..1 :
                 /\ Quiz!Become(w, [memory[w] EXCEPT !.left = memory[w].left \ {q},
                                        !.total = memory[w].total + marks])
                 /\ v6' = [v6 EXCEPT ![memory[w].attempt][q] = marks]
      BY <2>2, <3>2
    <3>3. QED BY <1>3, <3>1, <3>2 DEF Quiz!MarkAnswer
  <2>6. memory[w] \in [op : {"mark"}, attempt : Attempts, rows : [Questions -> Quiz!NoMark..1],
                       left : SUBSET Questions, total : Nat]
    BY <1>1, <2>1 DEF Quiz!Request, Quiz!Idle
  <2>7. PICK m : m = [memory[w] EXCEPT !.left = left \ {q}, !.total = total + marks]
    OBVIOUS
  <2>8. m = [op |-> "mark", attempt |-> u, rows |-> fetched, left |-> left \ {q},
             total |-> total + marks]
    BY <2>2, <2>6, <2>7
  <2>9. left \ {q} \in SUBSET Questions /\ total + marks \in Nat
    BY <2>5
  <2>10. m \in Quiz!Request
    BY <2>8, <2>9, QuizRequests
  <2>11. /\ v6' \in [Attempts -> [Questions -> -1..1]]
         /\ \A x \in Attempts : SavedFor(v6, x) \subseteq SavedFor(v6', x)
    <3>1. CASE v6' = v6
      BY <1>1, <3>1
    <3>2. CASE v6' = [v6 EXCEPT ![u][q] = marks]
      <4>1. PICK list : list = [v6[u] EXCEPT ![q] = marks]
        OBVIOUS
      <4>2. /\ list \in [Questions -> -1..1] /\ v6' = [v6 EXCEPT ![u] = list] /\ list[q] # -1
            /\ \A p \in Questions \ {q} : list[p] = v6[u][p]
        BY <1>1, <2>5, <3>2, <4>1
      <4>3. /\ v6' \in [Attempts -> [Questions -> -1..1]]
            /\ v6'[u] = list /\ \A x \in Attempts \ {u} : v6'[x] = v6[x]
        BY <1>1, <4>2
      <4>4. SavedFor(v6, u) \subseteq SavedFor(v6', u)
        BY <4>2, <4>3 DEF SavedFor, Quiz!NoMark
      <4>5. QED BY <4>3, <4>4 DEF SavedFor
    <3>3. QED BY <2>5, <3>1, <3>2
  <2>12. UNCHANGED <<v1, v2, v3, v4, v5, v7, v8>>
    BY <1>3 DEF Quiz!MarkAnswer
  <2>13. total + marks + Cardinality(left \ {q}) <= Cardinality(Questions)
    <3>1. Cardinality(left \ {q}) + 1 = Cardinality(left) /\ Cardinality(left \ {q}) \in Nat
      BY <2>1, <2>2, <2>9, QuestionCount
    <3>2. QED BY <2>3, <2>5, <3>1, QuestionCount
  <2>14. HeldFor(m, v5', v6')
    BY <2>3, <2>8, <2>12, <2>13 DEF HeldFor
  <2>15. Completed(v5', v6', v8')
    BY <1>1, <2>11, <2>12 DEF Completed
  <2>16. QED BY <1>1, <2>5, <2>7, <2>10, <2>11, <2>12, <2>14, <2>15, QuizStep
<1>4. CASE Quiz!SaveScore(w)
  <2>1. memory[w].op = "mark" /\ memory[w].left = {}
    BY <1>4 DEF Quiz!SaveScore
  <2>2. PICK u \in Attempts, total \in Nat : u = memory[w].attempt /\ total = memory[w].total
    BY <1>1, <2>1, QuizRequestType
  <2>3. u \in Begun(v5) /\ total + Cardinality({}) <= Cardinality(Questions)
    BY <1>1, <2>1, <2>2 DEF HeldFor
  <2>4. total \in 0..Cardinality(Questions)
    BY <2>3, FS_EmptySet, QuestionCount
  <2>5. /\ v5' = [v5 EXCEPT ![u].score = total] /\ Quiz!Become(w, Quiz!Idle)
        /\ UNCHANGED <<v1, v2, v3, v4, v6, v7, v8>>
    BY <1>4, <2>2 DEF Quiz!SaveScore
  <2>6. v5[u] \in [number : 0..MaxAttempts, complete : {"yes", "no"}, score : -1..Cardinality(Questions)]
    BY <1>1 DEF AttemptRow
  <2>7. PICK new : new = [v5[u] EXCEPT !.score = total]
    OBVIOUS
  <2>8. new = [number |-> v5[u].number, complete |-> v5[u].complete, score |-> total]
    BY <2>6, <2>7
  <2>9. v5' = [v5 EXCEPT ![u] = new]
    BY <1>1, <2>5, <2>7
  <2>10. /\ v5' \in [Attempts -> AttemptRow] /\ Begun(v5') = Begun(v5) /\ Numbered(v5')
         /\ v5'[u].complete = v5[u].complete
         /\ \A x \in Attempts \ {u} : v5'[x] = v5[x]
    BY <2>3, <2>4, <2>8, <2>9, ScoredRow
  <2>11. Completed(v5', v6', v8')
    BY <1>1, <2>5, <2>10 DEF Completed
  <2>12. HeldFor(Quiz!Idle, v5', v6')
    BY QuizRequests DEF HeldFor
  <2>13. \A x \in Attempts : SavedFor(v6, x) \subseteq SavedFor(v6', x)
    BY <2>5
  <2>14. QED BY <1>1, <2>5, <2>10, <2>11, <2>12, <2>13, QuizRequests, QuizStep
<1>5. CASE Quiz!Drop(w)
  <2>1. Quiz!Become(w, Quiz!Idle) /\ UNCHANGED <<v1, v2, v3, v4, v5, v6, v7, v8>>
    BY <1>5 DEF Quiz!Drop
  <2>2. HeldFor(Quiz!Idle, v5', v6')
    BY QuizRequests DEF HeldFor
  <2>3. QED BY <1>1, <2>1, <2>2, QuizRequests, QuizStep
<1>6. QED BY <1>2, <1>3, <1>4, <1>5

LEMMA QuizNext == Quiz!AttemptInv /\ Quiz!Next => Quiz!AttemptInv'
<1> SUFFICES ASSUME Quiz!AttemptInv, Quiz!Next PROVE Quiz!AttemptInv'
  OBVIOUS
<1>1. ASSUME UNCHANGED <<v5, v6, v8, memory>>, v1' \in {"yes", "no"},
             v2' \in {"before", "open", "after"}, v3' \in {"yes", "no"},
             v4' \in [Questions -> Quiz!QuestionType \cup {Quiz!None}], v7' \in SUBSET Begun(v5)
      PROVE  Quiz!AttemptInv'
  BY <1>1, AttemptParts, AttemptPartsNext
<1>2. CASE Quiz!PublishToggle
  BY <1>1, <1>2, AttemptParts DEF Quiz!PublishToggle
<1>3. CASE Quiz!ClockTick
  BY <1>1, <1>3, AttemptParts DEF Quiz!ClockTick
<1>4. CASE Quiz!LeaveCourse
  BY <1>1, <1>4, AttemptParts DEF Quiz!LeaveCourse
<1>5. ASSUME NEW q \in Questions, Quiz!QuestionAdd(q) PROVE Quiz!AttemptInv'
  BY <1>1, <1>5, AttemptParts DEF Quiz!QuestionAdd
<1>6. ASSUME NEW t \in Attempts, Quiz!TimeIsUp(t) PROVE Quiz!AttemptInv'
  BY <1>1, <1>6, AttemptParts, QuizOperators DEF Quiz!TimeIsUp
<1>7. ASSUME NEW w \in Workers, Quiz!StudentStep(w) \/ Quiz!TeacherStep(w) \/ Quiz!Drop(w)
      PROVE  Quiz!AttemptInv'
  BY <1>7, StartSteps, TakeSteps, MarkSteps DEF Quiz!StudentStep, Quiz!TeacherStep
<1>8. QED BY <1>2, <1>3, <1>4, <1>5, <1>6, <1>7 DEF Quiz!Next


(***************************************************************************)
(* Progression.                                                            *)
(***************************************************************************)
UnitSum(C) == SumFunctionOnSet(Units, C)
OfSession(y) == {c \in Courses : CourseSession[c] = y}
CreditSum(table) == SumFunctionOnSet([y \in Sessions |-> table[y].credits], Sessions)
LevelSum(table) == SumFunctionOnSet([y \in Sessions |-> table[y].level], Sessions)
GrantTable == [Sessions -> Progress!Grant]

(* What a session grants is worth no more than its courses, and a session  *)
(* without a decision has granted nothing.                                 *)
GrantsFounded(decisions, table) ==
  \A y \in Sessions :
    /\ decisions[y] = Progress!None => table[y] = Progress!NoGrant
    /\ table[y].credits <= UnitSum(OfSession(y))

EarnedBy(level, credits, pushed, table) ==
  /\ level <= Levels /\ level <= 1 + pushed + LevelSum(table)
  /\ credits <= CreditSum(table)

(* What a request is about to write has been earned.                       *)
Carries(m, pushed, table) ==
  /\ m.op = "run" => EarnedBy(m.row.level, m.row.credits, pushed, table)
  /\ m.op = "created" =>
       EarnedBy(m.row.level + m.grant.level, m.row.credits + m.grant.credits, pushed, table)
  /\ m.op = "advance" => EarnedBy(m.next, 0, pushed, table)

ResultTable ==
  [Courses -> [grade : DOMAIN GradePoint, approved : {"yes", "no"}] \cup {Progress!NoResult}]

LEMMA ProgressOperators ==
  /\ Progress!MaxCredits = UnitSum(Courses)
  /\ \A C : Progress!CreditsAttempted(C) = UnitSum(C)
  /\ Progress!GrantedCredits = CreditSum(v5) /\ Progress!GrantedLevels = LevelSum(v5)
  /\ \A level, credits : Progress!Earned(level, credits) <=> EarnedBy(level, credits, v6, v5)
<1>1. /\ Progress!GrantedCredits = CreditSum(v5) /\ Progress!GrantedLevels = LevelSum(v5)
  BY SameSum DEF Progress!GrantedCredits, Progress!GrantedLevels, Progress!SumFunction,
                 CreditSum, LevelSum
<1>2. \A C : Progress!CreditsAttempted(C) = UnitSum(C)
  BY SameSum DEF Progress!CreditsAttempted, UnitSum
<1>3. QED BY <1>1, <1>2 DEF Progress!MaxCredits, Progress!Earned, EarnedBy

LEMMA ProgressOperatorsNext ==
  /\ Progress!GrantedCredits' = CreditSum(v5') /\ Progress!GrantedLevels' = LevelSum(v5')
BY SameSum DEF Progress!GrantedCredits, Progress!GrantedLevels, Progress!SumFunction,
               CreditSum, LevelSum

LEMMA CreditParts ==
  Progress!CreditInv <=>
    /\ v1 \in ResultTable /\ v2 \in Progress!Row
    /\ v3 \in [Sessions -> Progress!Decision \cup {Progress!None}]
    /\ v4 \in [Completing -> {Progress!None, "confirmed", "rejected"}]
    /\ v5 \in GrantTable /\ v6 \in 0..MaxPushes
    /\ memory \in [Workers -> Progress!Request]
    /\ GrantsFounded(v3, v5)
    /\ EarnedBy(v2.level, v2.credits, v6, v5)
    /\ \A w \in Workers : Carries(memory[w], v6, v5)
<1>1. Progress!TypeOK <=>
        /\ v1 \in ResultTable /\ v2 \in Progress!Row
        /\ v3 \in [Sessions -> Progress!Decision \cup {Progress!None}]
        /\ v4 \in [Completing -> {Progress!None, "confirmed", "rejected"}]
        /\ v5 \in GrantTable /\ v6 \in 0..MaxPushes
  BY DEF Progress!TypeOK, ResultTable, GrantTable, Progress!Grant, Progress!Row, Progress!Grades
<1>2. GrantsFounded(v3, v5) <=>
        \A s \in Sessions :
          /\ v3[s] = Progress!None => v5[s] = Progress!NoGrant
          /\ v5[s].credits <= Progress!CreditsAttempted({c \in Courses : CourseSession[c] = s})
  BY ProgressOperators DEF GrantsFounded, OfSession
<1>3. QED BY <1>1, <1>2, ProgressOperators DEF Progress!CreditInv, Carries

LEMMA CreditPartsNext ==
  Progress!CreditInv' <=>
    /\ v1' \in ResultTable /\ v2' \in Progress!Row
    /\ v3' \in [Sessions -> Progress!Decision \cup {Progress!None}]
    /\ v4' \in [Completing -> {Progress!None, "confirmed", "rejected"}]
    /\ v5' \in GrantTable /\ v6' \in 0..MaxPushes
    /\ memory' \in [Workers -> Progress!Request]
    /\ GrantsFounded(v3', v5')
    /\ EarnedBy(v2'.level, v2'.credits, v6', v5')
    /\ \A w \in Workers : Carries(memory'[w], v6', v5')
<1>1. Progress!TypeOK' <=>
        /\ v1' \in ResultTable /\ v2' \in Progress!Row
        /\ v3' \in [Sessions -> Progress!Decision \cup {Progress!None}]
        /\ v4' \in [Completing -> {Progress!None, "confirmed", "rejected"}]
        /\ v5' \in GrantTable /\ v6' \in 0..MaxPushes
  BY DEF Progress!TypeOK, ResultTable, GrantTable, Progress!Grant, Progress!Row, Progress!Grades
<1>2. GrantsFounded(v3', v5') <=>
        \A s \in Sessions :
          /\ v3'[s] = Progress!None => v5'[s] = Progress!NoGrant
          /\ v5'[s].credits <= Progress!CreditsAttempted({c \in Courses : CourseSession[c] = s})
  BY ProgressOperators DEF GrantsFounded, OfSession
<1>3. /\ Progress!Earned(v2.level, v2.credits)' <=> EarnedBy(v2'.level, v2'.credits, v6', v5')
      /\ \A w \in Workers :
           /\ Progress!Earned(memory[w].row.level, memory[w].row.credits)' <=>
                EarnedBy(memory'[w].row.level, memory'[w].row.credits, v6', v5')
           /\ Progress!Earned(memory[w].row.level + memory[w].grant.level,
                              memory[w].row.credits + memory[w].grant.credits)' <=>
                EarnedBy(memory'[w].row.level + memory'[w].grant.level,
                         memory'[w].row.credits + memory'[w].grant.credits, v6', v5')
           /\ Progress!Earned(memory[w].next, 0)' <=> EarnedBy(memory'[w].next, 0, v6', v5')
  BY ProgressOperatorsNext DEF Progress!Earned, EarnedBy
<1>4. QED BY <1>1, <1>2, <1>3 DEF Progress!CreditInv, Carries


LEMMA ProgressRequestType ==
  ASSUME NEW m \in Progress!Request
  PROVE  /\ m.op \in {"run", "created"} => m.row \in Progress!Row
         /\ m.op = "run" => m.session \in Sessions
         /\ m.op = "created" => m.grant \in Progress!Grant
         /\ m.op = "advance" => m.next \in 1..Levels
         /\ m.op = "graduate" => m.session \in Completing
<1>1. CASE m = Progress!Idle
  BY <1>1 DEF Progress!Idle
<1>2. CASE m \in [op : {"run"}, session : Sessions, row : Progress!Row]
  BY <1>2
<1>3. CASE m \in [op : {"created"}, row : Progress!Row, grant : Progress!Grant]
  BY <1>3
<1>4. CASE m \in [op : {"advance"}, next : 1..Levels] \/ m \in [op : {"graduate"}, session : Completing]
  BY <1>4
<1>5. QED BY <1>1, <1>2, <1>3, <1>4 DEF Progress!Request

LEMMA ProgressRequests ==
  /\ Progress!Idle \in Progress!Request /\ Progress!Idle.op = "idle"
  /\ \A y \in Sessions, row \in Progress!Row :
       [op |-> "run", session |-> y, row |-> row] \in Progress!Request
  /\ \A row \in Progress!Row, grant \in Progress!Grant :
       [op |-> "created", row |-> row, grant |-> grant] \in Progress!Request
  /\ \A n \in 1..Levels : [op |-> "advance", next |-> n] \in Progress!Request
  /\ \A y \in Completing : [op |-> "graduate", session |-> y] \in Progress!Request
BY DEF Progress!Request, Progress!Idle

LEMMA UnitSumType ==
  /\ \A C \in SUBSET Courses : UnitSum(C) \in Nat
  /\ \A C \in SUBSET Courses : \A part \in SUBSET C : UnitSum(part) <= UnitSum(C)
<1>1. IsFiniteSet(Courses) /\ \A c \in Courses : Units[c] \in Nat
  BY FiniteAssumption, CourseAssumption
<1>2. \A C \in SUBSET Courses : UnitSum(C) \in Nat
  BY <1>1, SumType DEF UnitSum
<1>3. ASSUME NEW C \in SUBSET Courses, NEW part \in SUBSET C PROVE UnitSum(part) <= UnitSum(C)
  BY <1>1, SumPart DEF UnitSum
<1>4. QED BY <1>2, <1>3

LEMMA GrantType ==
  /\ UnitSum(Courses) \in Nat
  /\ Progress!Grant = [level : 0..1, credits : 0..UnitSum(Courses)]
  /\ Progress!Row = [level : 1..Levels, credits : 0..UnitSum(Courses)]
BY UnitSumType, ProgressOperators DEF Progress!Grant, Progress!Row

LEMMA GrantSums ==
  ASSUME NEW table \in GrantTable
  PROVE  CreditSum(table) \in Nat /\ LevelSum(table) \in Nat
<1> DEFINE F == [y \in Sessions |-> table[y].credits]
           G == [y \in Sessions |-> table[y].level]
<1>1. \A y \in Sessions : table[y] \in [level : 0..1, credits : 0..UnitSum(Courses)]
  BY GrantType DEF GrantTable
<1>2. \A y \in Sessions : F[y] \in Nat /\ G[y] \in Nat
  BY <1>1, GrantType
<1>3. Sessions \in SUBSET Sessions /\ IsFiniteSet(Sessions)
  BY FiniteAssumption
<1> HIDE DEF F, G
<1>4. SumFunctionOnSet(F, Sessions) \in Nat /\ SumFunctionOnSet(G, Sessions) \in Nat
  BY <1>2, <1>3, SumType
<1>5. QED BY <1>4 DEF F, G, CreditSum, LevelSum

(* No table of grants is worth more than all courses.                      *)
LEMMA GrantsWithin ==
  ASSUME NEW table \in GrantTable, NEW decisions, GrantsFounded(decisions, table)
  PROVE  CreditSum(table) <= UnitSum(Courses)
<1> DEFINE F == [y \in Sessions |-> table[y].credits]
           H == [y \in Sessions |-> UnitSum(OfSession(y))]
<1>1. \A y \in Sessions : table[y] \in [level : 0..1, credits : 0..UnitSum(Courses)]
  BY GrantType DEF GrantTable
<1>2. \A y \in Sessions : OfSession(y) \in SUBSET Courses
  BY DEF OfSession
<1>3. \A y \in Sessions : F[y] \in Nat /\ H[y] \in Nat /\ F[y] <= H[y]
  BY <1>1, <1>2, UnitSumType, GrantType DEF GrantsFounded
<1>4. \A y \in Sessions : H[y] = SumFunctionOnSet(Units, Group(Courses, CourseSession, y))
  BY DEF UnitSum, OfSession, Group
<1>5. CreditSum(table) = SumFunctionOnSet(F, Sessions)
  BY DEF CreditSum
<1> HIDE DEF F, H
<1>6. /\ IsFiniteSet(Courses) /\ (\A c \in Courses : Units[c] \in Nat) /\ IsFiniteSet(Sessions)
      /\ \A c \in Courses : CourseSession[c] \in Sessions
  BY FiniteAssumption, CourseAssumption
<1>7. SumFunctionOnSet(H, Sessions) = SumFunctionOnSet(Units, Courses)
  BY <1>4, <1>6, SumByGroups
<1>8. SumFunctionOnSet(F, Sessions) <= SumFunctionOnSet(H, Sessions)
  BY <1>3, <1>6, SumLess
<1>9. QED BY <1>5, <1>7, <1>8 DEF UnitSum

(* Granting where nothing was granted adds the grant to the sums.          *)
LEMMA GrantAdds ==
  ASSUME NEW table \in GrantTable, NEW y \in Sessions, table[y] = Progress!NoGrant,
         NEW grant \in Progress!Grant, NEW tables, tables = [table EXCEPT ![y] = grant]
  PROVE  /\ tables \in GrantTable
         /\ CreditSum(tables) = CreditSum(table) + grant.credits
         /\ LevelSum(tables) = LevelSum(table) + grant.level
<1> DEFINE F == [s \in Sessions |-> table[s].credits]
           G == [s \in Sessions |-> tables[s].credits]
           D == [s \in Sessions |-> table[s].level]
           E == [s \in Sessions |-> tables[s].level]
<1>1. tables \in GrantTable
  BY DEF GrantTable
<1>2. \A s \in Sessions : /\ table[s] \in [level : 0..1, credits : 0..UnitSum(Courses)]
                          /\ tables[s] \in [level : 0..1, credits : 0..UnitSum(Courses)]
  BY <1>1, GrantType DEF GrantTable
<1>3. \A s \in Sessions : F[s] \in Nat /\ G[s] \in Nat
  BY <1>2, GrantType
<1>4. \A s \in Sessions : D[s] \in Nat /\ E[s] \in Nat
  BY <1>2, GrantType
<1>5. tables[y] = grant /\ \A s \in Sessions \ {y} : tables[s] = table[s]
  BY DEF GrantTable
<1>6. grant.credits \in Nat /\ grant.level \in Nat
  BY GrantType
<1>7. table[y].credits = 0 /\ table[y].level = 0
  BY DEF Progress!NoGrant
<1>8. G[y] = F[y] + grant.credits /\ \A s \in Sessions \ {y} : F[s] = G[s]
  BY <1>5, <1>6, <1>7
<1>9. E[y] = D[y] + grant.level /\ \A s \in Sessions \ {y} : D[s] = E[s]
  BY <1>5, <1>6, <1>7
<1>10. /\ CreditSum(tables) = SumFunctionOnSet(G, Sessions)
       /\ CreditSum(table) = SumFunctionOnSet(F, Sessions)
       /\ LevelSum(tables) = SumFunctionOnSet(E, Sessions)
       /\ LevelSum(table) = SumFunctionOnSet(D, Sessions)
  BY DEF CreditSum, LevelSum
<1> HIDE DEF F, G, D, E
<1>11. IsFiniteSet(Sessions)
  BY FiniteAssumption
<1>12. SumFunctionOnSet(G, Sessions) = SumFunctionOnSet(F, Sessions) + grant.credits
  BY <1>3, <1>6, <1>8, <1>11, SumMore
<1>13. SumFunctionOnSet(E, Sessions) = SumFunctionOnSet(D, Sessions) + grant.level
  BY <1>4, <1>6, <1>9, <1>11, SumMore
<1>14. QED BY <1>1, <1>10, <1>12, <1>13


(* What was earned stays earned as more is granted and pushed.             *)
LEMMA CarriesOn ==
  ASSUME NEW m \in Progress!Request, NEW table \in GrantTable, NEW tables \in GrantTable,
         NEW pushed \in Nat, NEW pushes1 \in Nat, pushed <= pushes1,
         CreditSum(table) <= CreditSum(tables), LevelSum(table) <= LevelSum(tables),
         Carries(m, pushed, table)
  PROVE  Carries(m, pushes1, tables)
<1>1. /\ CreditSum(table) \in Nat /\ LevelSum(table) \in Nat
      /\ CreditSum(tables) \in Nat /\ LevelSum(tables) \in Nat
  BY GrantSums
<1>2. ASSUME NEW level \in Nat, NEW credits \in Nat, EarnedBy(level, credits, pushed, table)
      PROVE  EarnedBy(level, credits, pushes1, tables)
  BY <1>1, <1>2 DEF EarnedBy
<1>3. /\ m.op \in {"run", "created"} => m.row.level \in Nat /\ m.row.credits \in Nat
      /\ m.op = "created" => m.grant.level \in Nat /\ m.grant.credits \in Nat
      /\ m.op = "advance" => m.next \in Nat
  BY ProgressRequestType, GrantType, BoundsAssumption
<1>4. m.op = "created" =>
        m.row.level + m.grant.level \in Nat /\ m.row.credits + m.grant.credits \in Nat
  BY <1>3
<1>5. QED BY <1>2, <1>3, <1>4 DEF Carries

(* What every step keeps, whichever row it writes.                         *)
LEMMA ProgressStep ==
  ASSUME Progress!CreditInv, NEW w \in Workers, NEW m \in Progress!Request, Progress!Become(w, m),
         v1' \in ResultTable, v2' \in Progress!Row,
         v3' \in [Sessions -> Progress!Decision \cup {Progress!None}],
         v4' \in [Completing -> {Progress!None, "confirmed", "rejected"}],
         v5' \in GrantTable, v6' \in 0..MaxPushes, GrantsFounded(v3', v5'),
         v6 <= v6', CreditSum(v5) <= CreditSum(v5'), LevelSum(v5) <= LevelSum(v5'),
         EarnedBy(v2'.level, v2'.credits, v6', v5'), Carries(m, v6', v5')
  PROVE  Progress!CreditInv'
<1>1. memory' = [memory EXCEPT ![w] = m] /\ memory \in [Workers -> Progress!Request]
  BY CreditParts DEF Progress!Become
<1>2. memory' \in [Workers -> Progress!Request]
  BY <1>1
<1>3. v6 \in Nat /\ v6' \in Nat /\ v5 \in GrantTable
  BY CreditParts, BoundsAssumption
<1>4. ASSUME NEW x \in Workers PROVE Carries(memory'[x], v6', v5')
  <2>1. CASE x = w
    BY <1>1, <2>1
  <2>2. CASE x # w
    <3>1. memory'[x] = memory[x] /\ memory[x] \in Progress!Request /\ Carries(memory[x], v6, v5)
      BY <1>1, <2>2, CreditParts
    <3>2. QED BY <1>3, <3>1, CarriesOn
  <2>3. QED BY <2>1, <2>2
<1>5. QED BY <1>2, <1>4, CreditPartsNext

(* A request that writes no row but the graduation record.                 *)
LEMMA OnlyRequest ==
  ASSUME Progress!CreditInv, NEW w \in Workers, NEW m \in Progress!Request, Progress!Become(w, m),
         UNCHANGED <<v1, v2, v3, v5, v6>>, Carries(m, v6, v5),
         v4' \in [Completing -> {Progress!None, "confirmed", "rejected"}]
  PROVE  Progress!CreditInv'
<1>1. v6 \in Nat /\ v5 \in GrantTable
  BY CreditParts, BoundsAssumption
<1>2. CreditSum(v5) \in Nat /\ LevelSum(v5) \in Nat
  BY <1>1, GrantSums
<1>3. v6 <= v6' /\ CreditSum(v5) <= CreditSum(v5') /\ LevelSum(v5) <= LevelSum(v5')
  BY <1>1, <1>2
<1>4. QED BY <1>3, ProgressStep, CreditParts

LEMMA ProgressInit == Progress!Init => Progress!CreditInv
<1> SUFFICES ASSUME Progress!Init PROVE Progress!CreditInv
  OBVIOUS
<1>1. v1 \in ResultTable
  BY DEF Progress!Init, ResultTable
<1>2. v2 \in Progress!Row /\ v2.level = 1 /\ v2.credits = 0
  BY GrantType, BoundsAssumption DEF Progress!Init
<1>3. v6 = 0 /\ v6 \in 0..MaxPushes
  BY BoundsAssumption DEF Progress!Init
<1>4. Progress!NoGrant \in Progress!Grant /\ Progress!NoGrant.credits = 0
  BY GrantType DEF Progress!NoGrant
<1>5. v5 \in GrantTable
  BY <1>4 DEF Progress!Init, GrantTable
<1>6. \A y \in Sessions : OfSession(y) \in SUBSET Courses
  BY DEF OfSession
<1>7. GrantsFounded(v3, v5)
  BY <1>4, <1>6, UnitSumType DEF Progress!Init, GrantsFounded
<1>8. CreditSum(v5) \in Nat /\ LevelSum(v5) \in Nat
  BY <1>5, GrantSums
<1>9. EarnedBy(v2.level, v2.credits, v6, v5)
  BY <1>2, <1>3, <1>8, BoundsAssumption DEF EarnedBy
<1>10. memory \in [Workers -> Progress!Request] /\ \A w \in Workers : Carries(memory[w], v6, v5)
  BY ProgressRequests DEF Progress!Init, Carries
<1>11. QED BY <1>1, <1>2, <1>3, <1>5, <1>7, <1>9, <1>10, CreditParts DEF Progress!Init

LEMMA EvaluateType ==
  ASSUME NEW y, NEW level
  PROVE  /\ Progress!Evaluate(y, level) \in Progress!Decision
         /\ Progress!Evaluate(y, level) = "ADVANCE" => level # Levels
<1>1. PICK C, failed : C = Progress!SessionResults(y) /\ failed = C \ Progress!Passed(C)
  OBVIOUS
<1>2. Progress!Evaluate(y, level) =
        IF C = {} THEN "DEFERRED"
        ELSE IF Progress!GpaBelow(C, WithdrawThreshold) THEN "WITHDRAWN"
        ELSE IF Progress!Cardinality(failed) > MaxFailed THEN "REPEAT"
        ELSE IF Progress!GpaBelow(C, ProbationThreshold) \/ Progress!GpaBelow(C, MinAdvance)
               THEN "PROBATION"
        ELSE IF level = Levels THEN "COMPLETED" ELSE "ADVANCE"
  BY <1>1 DEF Progress!Evaluate, Progress!IsFinalLevel
<1>3. QED BY <1>2 DEF Progress!Decision

LEMMA DecisionSteps ==
  ASSUME Progress!CreditInv, NEW w \in Workers, Progress!RecordDecision(w)
  PROVE  Progress!CreditInv'
<1>1. /\ v1 \in ResultTable /\ v2 \in Progress!Row
      /\ v3 \in [Sessions -> Progress!Decision \cup {Progress!None}]
      /\ v4 \in [Completing -> {Progress!None, "confirmed", "rejected"}]
      /\ v5 \in GrantTable /\ v6 \in 0..MaxPushes /\ v6 \in Nat
      /\ GrantsFounded(v3, v5) /\ EarnedBy(v2.level, v2.credits, v6, v5)
      /\ memory[w] \in Progress!Request /\ Carries(memory[w], v6, v5)
  BY CreditParts, BoundsAssumption
<1>2. memory[w].op = "run"
  BY DEF Progress!RecordDecision
<1>3. PICK y \in Sessions, row \in Progress!Row : y = memory[w].session /\ row = memory[w].row
  BY <1>1, <1>2, ProgressRequestType
<1>4. EarnedBy(row.level, row.credits, v6, v5)
  BY <1>1, <1>2, <1>3 DEF Carries
<1>5. PICK decision : decision = Progress!Evaluate(y, row.level)
  OBVIOUS
<1>6. decision \in Progress!Decision /\ (decision = "ADVANCE" => row.level # Levels)
  BY <1>5, EvaluateType
<1>7. PICK part : part = Progress!Passed(Progress!SessionResults(y))
  OBVIOUS
<1>8. part \in SUBSET OfSession(y) /\ OfSession(y) \in SUBSET Courses
  BY <1>7 DEF Progress!Passed, Progress!SessionResults, Progress!Approved, OfSession
<1>9. UnitSum(part) \in Nat /\ UnitSum(part) <= UnitSum(OfSession(y))
      /\ UnitSum(part) <= UnitSum(Courses)
  BY <1>8, UnitSumType
<1>10. PICK grant : grant = [level |-> IF decision = "ADVANCE" THEN 1 ELSE 0,
                             credits |-> UnitSum(part)]
  OBVIOUS
<1>11. grant \in Progress!Grant
  BY <1>9, <1>10, GrantType
<1>12. /\ v3' = [v3 EXCEPT ![y] = decision]
       /\ v5' = IF v3[y] = Progress!None THEN [v5 EXCEPT ![y] = grant] ELSE v5
       /\ Progress!Become(w, IF v3[y] = Progress!None
                               THEN [op |-> "created", row |-> row, grant |-> grant]
                               ELSE Progress!Idle)
       /\ UNCHANGED <<v1, v2, v4, v6>>
  BY <1>3, <1>5, <1>7, <1>10, ProgressOperators DEF Progress!RecordDecision, Progress!Created
<1>13. v3' \in [Sessions -> Progress!Decision \cup {Progress!None}] /\ decision # Progress!None
  BY <1>1, <1>6, <1>12 DEF Progress!Decision, Progress!None
<1>14. CreditSum(v5) \in Nat /\ LevelSum(v5) \in Nat
  BY <1>1, GrantSums
<1>15. CASE v3[y] = Progress!None
  <2>1. v5[y] = Progress!NoGrant
    BY <1>1, <1>15 DEF GrantsFounded
  <2>2. v5' = [v5 EXCEPT ![y] = grant]
    BY <1>12, <1>15
  <2>3. /\ v5' \in GrantTable
        /\ CreditSum(v5') = CreditSum(v5) + grant.credits
        /\ LevelSum(v5') = LevelSum(v5) + grant.level
    BY <1>1, <1>11, <2>1, <2>2, GrantAdds
  <2>4. grant.credits \in Nat /\ grant.level \in 0..1
    BY <1>9, <1>10
  <2>5. /\ v6 <= v6' /\ CreditSum(v5) <= CreditSum(v5') /\ LevelSum(v5) <= LevelSum(v5')
    BY <1>1, <1>12, <1>14, <2>3, <2>4
  <2>6. PICK m \in Progress!Request : m = [op |-> "created", row |-> row, grant |-> grant]
    BY <1>11, ProgressRequests
  <2>7. row.level \in 1..Levels /\ row.credits \in Nat /\ Levels \in Nat
    BY GrantType, BoundsAssumption
  <2>8. row.level + grant.level <= Levels
    <3>1. CASE decision = "ADVANCE"
      BY <1>6, <2>4, <2>7, <3>1
    <3>2. CASE decision # "ADVANCE"
      BY <1>10, <2>7, <3>2
    <3>3. QED BY <3>1, <3>2
  <2>9. EarnedBy(row.level + grant.level, row.credits + grant.credits, v6, v5')
    BY <1>1, <1>4, <1>14, <2>3, <2>4, <2>7, <2>8 DEF EarnedBy
  <2>10. Carries(m, v6', v5')
    BY <1>12, <2>6, <2>9 DEF Carries
  <2>11. v2.level \in Nat /\ v2.credits \in Nat
    BY <1>1, GrantType, BoundsAssumption
  <2>12. EarnedBy(v2'.level, v2'.credits, v6', v5')
    BY <1>1, <1>12, <1>14, <2>3, <2>4, <2>11 DEF EarnedBy
  <2>13. grant.credits <= UnitSum(OfSession(y))
    BY <1>9, <1>10
  <2>14. /\ v3'[y] = decision /\ v5'[y] = grant
         /\ \A s \in Sessions \ {y} : v3'[s] = v3[s] /\ v5'[s] = v5[s]
    BY <1>1, <1>12, <2>2 DEF GrantTable
  <2>15. GrantsFounded(v3', v5')
    BY <1>1, <1>13, <2>13, <2>14 DEF GrantsFounded
  <2>16. QED BY <1>1, <1>12, <1>13, <1>15, <2>3, <2>5, <2>6, <2>10, <2>12, <2>15, ProgressStep
<1>16. CASE v3[y] # Progress!None
  <2>1. v5' = v5 /\ Progress!Become(w, Progress!Idle)
    BY <1>12, <1>16
  <2>2. /\ v6 <= v6' /\ CreditSum(v5) <= CreditSum(v5') /\ LevelSum(v5) <= LevelSum(v5')
    BY <1>1, <1>12, <1>14, <2>1
  <2>3. Carries(Progress!Idle, v6', v5')
    BY ProgressRequests DEF Carries
  <2>4. GrantsFounded(v3', v5')
    BY <1>1, <1>12, <1>13, <1>16, <2>1 DEF GrantsFounded
  <2>5. QED BY <1>1, <1>12, <1>13, <2>1, <2>2, <2>3, <2>4, ProgressRequests, ProgressStep
<1>17. QED BY <1>15, <1>16


LEMMA ProfileSteps ==
  ASSUME Progress!CreditInv, NEW w \in Workers, Progress!SaveProfile(w) \/ Progress!SaveLevel(w)
  PROVE  Progress!CreditInv'
<1>1. /\ v2 \in Progress!Row /\ v5 \in GrantTable /\ v6 \in 0..MaxPushes /\ v6 \in Nat
      /\ GrantsFounded(v3, v5) /\ EarnedBy(v2.level, v2.credits, v6, v5)
      /\ memory[w] \in Progress!Request /\ Carries(memory[w], v6, v5)
  BY CreditParts, BoundsAssumption
<1>2. CreditSum(v5) \in Nat /\ LevelSum(v5) \in Nat /\ CreditSum(v5) <= UnitSum(Courses)
  BY <1>1, GrantSums, GrantsWithin
<1>3. UnitSum(Courses) \in Nat /\ Levels \in Nat
  BY UnitSumType, BoundsAssumption
<1>4. Carries(Progress!Idle, v6, v5)
  BY ProgressRequests DEF Carries
<1>5. ASSUME NEW level \in 1..Levels, NEW credits \in Nat, EarnedBy(level, credits, v6, v5),
             v2' = [level |-> level, credits |-> credits],
             Progress!Become(w, Progress!Idle), UNCHANGED <<v1, v3, v4, v5, v6>>
      PROVE  Progress!CreditInv'
  <2>1. credits \in 0..UnitSum(Courses)
    BY <1>2, <1>3, <1>5 DEF EarnedBy
  <2>2. v2' \in Progress!Row /\ v2'.level = level /\ v2'.credits = credits
    BY <1>5, <2>1, GrantType
  <2>3. EarnedBy(v2'.level, v2'.credits, v6', v5') /\ Carries(Progress!Idle, v6', v5')
    BY <1>4, <1>5, <2>2
  <2>4. v6 <= v6' /\ CreditSum(v5) <= CreditSum(v5') /\ LevelSum(v5) <= LevelSum(v5')
    BY <1>1, <1>2, <1>5
  <2>5. QED BY <1>5, <2>2, <2>3, <2>4, CreditParts, ProgressRequests, ProgressStep
<1>6. CASE Progress!SaveProfile(w)
  <2>1. memory[w].op = "created"
    BY <1>6 DEF Progress!SaveProfile
  <2>2. PICK row \in Progress!Row, grant \in Progress!Grant :
          row = memory[w].row /\ grant = memory[w].grant
    BY <1>1, <2>1, ProgressRequestType
  <2>3. PICK level, credits : level = row.level + grant.level /\ credits = row.credits + grant.credits
    OBVIOUS
  <2>4. EarnedBy(level, credits, v6, v5)
    BY <1>1, <2>1, <2>2, <2>3 DEF Carries
  <2>5. level \in Nat /\ credits \in Nat /\ level >= 1 /\ level <= Levels
    BY <1>3, <2>3, <2>4, GrantType DEF EarnedBy
  <2>6. QED BY <1>3, <1>5, <1>6, <2>2, <2>3, <2>4, <2>5 DEF Progress!SaveProfile
<1>7. CASE Progress!SaveLevel(w)
  <2>1. memory[w].op = "advance"
    BY <1>7 DEF Progress!SaveLevel
  <2>2. PICK level \in 1..Levels : level = memory[w].next
    BY <1>1, <2>1, ProgressRequestType
  <2>3. EarnedBy(level, 0, v6, v5)
    BY <1>1, <2>1, <2>2 DEF Carries
  <2>4. v2 \in [level : 1..Levels, credits : 0..UnitSum(Courses)]
    BY <1>1, GrantType
  <2>5. v2' = [v2 EXCEPT !.level = level]
    BY <1>7, <2>2 DEF Progress!SaveLevel
  <2>6. v2' = [level |-> level, credits |-> v2.credits] /\ v2.credits \in Nat
    BY <1>3, <2>4, <2>5
  <2>7. EarnedBy(level, v2.credits, v6, v5)
    BY <1>1, <2>3 DEF EarnedBy
  <2>8. Progress!Become(w, Progress!Idle) /\ UNCHANGED <<v1, v3, v4, v5, v6>>
    BY <1>7 DEF Progress!SaveLevel
  <2>9. QED BY <1>5, <2>6, <2>7, <2>8
<1>8. QED BY <1>6, <1>7

LEMMA RunSteps ==
  ASSUME Progress!CreditInv, NEW w \in Workers,
         \/ \E y \in Sessions : Progress!OpenRun(w, y)
         \/ \E y \in Completing : Progress!OpenGraduation(w, y)
         \/ Progress!CreateGraduationRecord(w) \/ Progress!OpenAdvance(w) \/ Progress!Drop(w)
  PROVE  Progress!CreditInv'
<1>1. /\ v2 \in Progress!Row /\ v5 \in GrantTable /\ v6 \in 0..MaxPushes /\ v6 \in Nat
      /\ v4 \in [Completing -> {Progress!None, "confirmed", "rejected"}]
      /\ GrantsFounded(v3, v5) /\ EarnedBy(v2.level, v2.credits, v6, v5)
      /\ memory[w] \in Progress!Request
  BY CreditParts, BoundsAssumption
<1>2. Carries(Progress!Idle, v6, v5)
  BY ProgressRequests DEF Carries
<1>3. ASSUME NEW y \in Sessions, Progress!OpenRun(w, y) PROVE Progress!CreditInv'
  <2>1. PICK m \in Progress!Request : m = [op |-> "run", session |-> y, row |-> v2]
    BY <1>1, ProgressRequests
  <2>2. Carries(m, v6, v5)
    BY <1>1, <2>1 DEF Carries
  <2>3. Progress!Become(w, m) /\ UNCHANGED <<v1, v2, v3, v4, v5, v6>>
    BY <1>3, <2>1 DEF Progress!OpenRun
  <2>4. QED BY <1>1, <2>2, <2>3, OnlyRequest
<1>4. ASSUME NEW y \in Completing, Progress!OpenGraduation(w, y) PROVE Progress!CreditInv'
  <2>1. PICK m \in Progress!Request : m = [op |-> "graduate", session |-> y]
    BY ProgressRequests
  <2>2. Carries(m, v6, v5)
    BY <2>1 DEF Carries
  <2>3. Progress!Become(w, m) /\ UNCHANGED <<v1, v2, v3, v4, v5, v6>>
    BY <1>4, <2>1 DEF Progress!OpenGraduation
  <2>4. QED BY <1>1, <2>2, <2>3, OnlyRequest
<1>5. CASE Progress!CreateGraduationRecord(w)
  <2>1. PICK y \in Completing : y = memory[w].session
    BY <1>1, <1>5, ProgressRequestType DEF Progress!CreateGraduationRecord
  <2>2. PICK judged \in {"confirmed", "rejected"} : v4' = [v4 EXCEPT ![y] = judged]
    BY <1>5, <2>1 DEF Progress!CreateGraduationRecord
  <2>3. v4' \in [Completing -> {Progress!None, "confirmed", "rejected"}]
    BY <1>1, <2>2
  <2>4. Progress!Become(w, Progress!Idle) /\ UNCHANGED <<v1, v2, v3, v5, v6>>
    BY <1>5 DEF Progress!CreateGraduationRecord
  <2>5. QED BY <1>2, <2>3, <2>4, OnlyRequest, ProgressRequests
<1>6. CASE Progress!OpenAdvance(w)
  <2>1. /\ v6 < MaxPushes /\ v2.level # Levels /\ v6' = v6 + 1
        /\ Progress!Become(w, [op |-> "advance", next |-> v2.level + 1])
        /\ UNCHANGED <<v1, v2, v3, v4, v5>>
    BY <1>6 DEF Progress!OpenAdvance, Progress!IsFinalLevel
  <2>2. /\ CreditSum(v5) \in Nat /\ LevelSum(v5) \in Nat /\ Levels \in Nat /\ MaxPushes \in Nat
        /\ v2.level \in 1..Levels /\ v2.credits \in Nat
    BY <1>1, GrantSums, GrantType, BoundsAssumption
  <2>3. v2.level + 1 \in 1..Levels
    BY <2>1, <2>2
  <2>4. PICK m \in Progress!Request : m = [op |-> "advance", next |-> v2.level + 1]
    BY <2>3, ProgressRequests
  <2>5. v6' \in 0..MaxPushes /\ v6 <= v6'
    BY <1>1, <2>1, <2>2
  <2>6. EarnedBy(v2.level + 1, 0, v6', v5')
    BY <1>1, <2>1, <2>2, <2>3 DEF EarnedBy
  <2>7. Carries(m, v6', v5')
    BY <2>4, <2>6 DEF Carries
  <2>8. EarnedBy(v2'.level, v2'.credits, v6', v5')
    BY <1>1, <2>1, <2>2 DEF EarnedBy
  <2>9. CreditSum(v5) <= CreditSum(v5') /\ LevelSum(v5) <= LevelSum(v5')
    BY <2>1, <2>2
  <2>10. QED BY <2>1, <2>4, <2>5, <2>7, <2>8, <2>9, CreditParts, ProgressStep
<1>7. CASE Progress!Drop(w)
  <2>1. Progress!Become(w, Progress!Idle) /\ UNCHANGED <<v1, v2, v3, v4, v5, v6>>
    BY <1>7 DEF Progress!Drop
  <2>2. QED BY <1>1, <1>2, <2>1, OnlyRequest, ProgressRequests
<1>8. QED BY <1>3, <1>4, <1>5, <1>6, <1>7

LEMMA ProgressNext == Progress!CreditInv /\ Progress!Next => Progress!CreditInv'
<1> SUFFICES ASSUME Progress!CreditInv, Progress!Next PROVE Progress!CreditInv'
  OBVIOUS
<1>1. ASSUME v1' \in ResultTable, UNCHANGED <<v2, v3, v4, v5, v6, memory>>
      PROVE  Progress!CreditInv'
  BY <1>1, CreditParts, CreditPartsNext
<1>2. ASSUME NEW c \in Courses, Progress!EnterResult(c) PROVE Progress!CreditInv'
  <2>1. PICK grade \in DOMAIN GradePoint : v1' = [v1 EXCEPT ![c].grade = grade]
    BY <1>2 DEF Progress!EnterResult, Progress!Grades
  <2>2. PICK new : new = [v1[c] EXCEPT !.grade = grade]
    OBVIOUS
  <2>3. v1 \in ResultTable
    BY CreditParts
  <2>4. new \in [grade : DOMAIN GradePoint, approved : {"yes", "no"}]
    <3>1. CASE v1[c] = Progress!NoResult
      BY <2>2, <3>1 DEF Progress!NoResult
    <3>2. CASE v1[c] \in [grade : DOMAIN GradePoint, approved : {"yes", "no"}]
      BY <2>2, <3>2
    <3>3. QED BY <2>3, <3>1, <3>2 DEF ResultTable
  <2>5. v1' \in ResultTable
    BY <2>1, <2>2, <2>3, <2>4 DEF ResultTable
  <2>6. QED BY <1>1, <1>2, <2>5 DEF Progress!EnterResult
<1>3. ASSUME NEW c \in Courses, Progress!ToggleApproval(c) PROVE Progress!CreditInv'
  <2>1. v1 \in ResultTable
    BY CreditParts
  <2>2. v1[c] \in [grade : DOMAIN GradePoint, approved : {"yes", "no"}]
    BY <1>3, <2>1 DEF Progress!ToggleApproval, ResultTable
  <2>3. PICK flag \in {"yes", "no"} : v1' = [v1 EXCEPT ![c].approved = flag]
    BY <1>3 DEF Progress!ToggleApproval
  <2>4. PICK new : new = [v1[c] EXCEPT !.approved = flag]
    OBVIOUS
  <2>5. new \in [grade : DOMAIN GradePoint, approved : {"yes", "no"}]
    BY <2>2, <2>4
  <2>6. v1' \in ResultTable
    BY <2>1, <2>3, <2>4, <2>5 DEF ResultTable
  <2>7. QED BY <1>1, <1>3, <2>6 DEF Progress!ToggleApproval
<1>4. QED BY <1>2, <1>3, DecisionSteps, ProfileSteps, RunSteps
          DEF Progress!Next, Progress!ProgressionStep, Progress!GraduationStep


(***************************************************************************)
(* The calendar.                                                           *)
(***************************************************************************)
LEMMA LeastOfTwo ==
  ASSUME NEW a \in Int, NEW b \in Int
  PROVE  Page!Min({a, b}) = IF a <= b THEN a ELSE b
BY DEF Page!Min

LEMMA SemestersRange ==
  \E n \in Nat : n > 0 /\ Page!Semesters = 1..n
<1>1. PICK D : D = [start : Int, end : Int]
  OBVIOUS
<1>2. Term \in Seq(D) /\ Term # <<>>
  BY <1>1, CalendarAssumption
<1>3. Len(Term) \in Nat /\ DOMAIN Term = 1..Len(Term) /\ Len(Term) > 0
  BY <1>2
<1>4. QED BY <1>3 DEF Page!Semesters

LEMMA LatestSemester ==
  ASSUME NEW S \in SUBSET Page!Semesters, S # {}
  PROVE  Page!Max(S) \in S
<1>1. PICK n \in Nat : Page!Semesters = 1..n
  BY SemestersRange
<1>2. S \in SUBSET (0..n)
  BY <1>1
<1>3. \E x \in S : \A y \in S : x >= y
  BY <1>2, GreatestNumber
<1>4. QED BY <1>3 DEF Page!Max

LEMMA MonthsRange ==
  /\ \A m \in Page!Months : MonthLengths[m] \in 28..31
  /\ \A m \in Page!Months : Page!MonthStart[m] \in Int
<1>1. Len(MonthLengths) \in Nat /\ DOMAIN MonthLengths = 1..Len(MonthLengths)
      /\ \A m \in DOMAIN MonthLengths : MonthLengths[m] \in 28..31
  BY CalendarAssumption
<1>2. \A m \in DOMAIN MonthLengths : MonthLengths[m] \in Nat
  BY <1>1
<1>3. PICK S : S = DOMAIN MonthLengths
  OBVIOUS
<1>4. IsFiniteSet(S)
  BY <1>1, <1>3, FS_Interval
<1>5. ASSUME NEW m \in S PROVE Page!MonthStart[m] \in Int
  <2>1. PICK before \in SUBSET S : before = 1..(m - 1)
    BY <1>1, <1>3, <1>5
  <2>2. SumFunctionOnSet(MonthLengths, before) \in Nat
    BY <1>2, <1>3, <1>4, SumType
  <2>3. Page!MonthStart[m] = SumFunctionOnSet(MonthLengths, before)
    BY <1>3, <2>1, SameSum DEF Page!MonthStart, Page!Months
  <2>4. QED BY <2>2, <2>3
<1>6. QED BY <1>1, <1>3, <1>5 DEF Page!Months

LEMMA DateType ==
  /\ \A m \in Page!Months : \A day \in Int :
       Page!DateOf(m, day) = Page!MonthStart[m] + day - 1 /\ Page!DateOf(m, day) \in Int
  /\ \A d \in Int : Page!Weekday(d) = (d + FirstWeekday) % 7 /\ Page!Weekday(d) \in 0..6
<1>1. FirstWeekday \in Int
  BY CalendarAssumption
<1>2. QED BY <1>1, MonthsRange DEF Page!DateOf, Page!Weekday

(* No window is as long as the weeks over which classes are laid out.      *)
LEMMA WindowType ==
  ASSUME NEW mode \in Page!Mode, NEW y \in Page!Semesters, NEW m \in Page!Months, NEW day \in Int
  PROVE  /\ Page!Window(mode, y, m, day).start \in Int /\ Page!Window(mode, y, m, day).end \in Int
         /\ Page!Window(mode, y, m, day).end - Page!Window(mode, y, m, day).start < 637
<1>1. PICK window : window = Page!Window(mode, y, m, day)
  OBVIOUS
<1>2. Page!Min({day, 28}) \in Int
  BY LeastOfTwo
<1>3. PICK base \in Int : base = Page!BaseDate(m, day)
  BY <1>2, DateType DEF Page!BaseDate
<1>4. PICK monday \in Int : monday = Page!Monday(base)
  BY DateType DEF Page!Monday
<1>5. CASE mode = "month"
  <2>1. window = [start |-> Page!DateOf(m, 1), end |-> Page!DateOf(m, MonthLengths[m])]
    BY <1>1, <1>5 DEF Page!Window
  <2>2. /\ window.start = Page!MonthStart[m] /\ window.end = Page!MonthStart[m] + MonthLengths[m] - 1
        /\ Page!MonthStart[m] \in Int /\ MonthLengths[m] \in 28..31
    BY <2>1, MonthsRange, DateType
  <2>3. QED BY <1>1, <2>2
<1>6. CASE mode = "week"
  <2>1. window = [start |-> monday, end |-> monday + 6]
    BY <1>1, <1>3, <1>4, <1>6 DEF Page!Window
  <2>2. QED BY <1>1, <2>1
<1>7. CASE mode = "day"
  <2>1. window = [start |-> base, end |-> base]
    BY <1>1, <1>3, <1>7 DEF Page!Window
  <2>2. QED BY <1>1, <2>1
<1>8. CASE mode = "agenda"
  <2>1. window = [start |-> Term[y].start, end |-> Term[y].end]
    BY <1>1, <1>8 DEF Page!Window
  <2>2. PICK D : D = [start : Int, end : Int]
    OBVIOUS
  <2>3. Term \in Seq(D) /\ y \in DOMAIN Term
    BY <2>2, CalendarAssumption DEF Page!Semesters
  <2>4. Term[y] \in D
    BY <2>3
  <2>5. Term[y].start \in Int /\ Term[y].end \in Int
    BY <2>2, <2>4
  <2>6. Term[y].end - Term[y].start < 637
    BY <2>3, CalendarAssumption
  <2>7. QED BY <1>1, <2>1, <2>5, <2>6
<1>9. QED BY <1>5, <1>6, <1>7, <1>8 DEF Page!Mode


(* The first day at or after `a' on weekday `b', and every seventh from it. *)
FirstOn(b, a, f) == a + ((b - ((a + f) % 7)) % 7)

Sevenths(first, b, a, f) ==
  /\ first \in Int /\ first >= a
  /\ \A i \in Int : (first + 7 * i + f) % 7 = b
  /\ \A d \in Int : d >= a /\ (d + f) % 7 = b =>
       \E i \in Nat : d = first + 7 * i /\ 7 * i <= d - a

LEMMA EverySeventh ==
  ASSUME NEW f \in Int, NEW b \in 0..6, NEW a \in Int, NEW first, first = FirstOn(b, a, f)
  PROVE  Sevenths(first, b, a, f)
<1>1. \A x \in Int : x % 7 \in 0..6 /\ \E q \in Int : x = 7 * q + (x % 7)
  OBVIOUS
<1>2. \A q \in Int, r \in 0..6 : (7 * q + r) % 7 = r
  OBVIOUS
<1>3. PICK w \in 0..6, q1 \in Int : w = (a + f) % 7 /\ a + f = 7 * q1 + w
  BY <1>1
<1>4. PICK r \in 0..6, q2 \in Int : r = (b - w) % 7 /\ b - w = 7 * q2 + r
  BY <1>1
<1>5. first = a + r
  BY <1>3, <1>4 DEF FirstOn
<1>6. ASSUME NEW i \in Int PROVE (first + 7 * i + f) % 7 = b
  <2>1. first + 7 * i + f = 7 * (q1 - q2 + i) + b /\ q1 - q2 + i \in Int
    BY <1>3, <1>4, <1>5
  <2>2. QED BY <1>2, <2>1
<1>7. ASSUME NEW d \in Int, d >= a, (d + f) % 7 = b
      PROVE  \E i \in Nat : d = first + 7 * i /\ 7 * i <= d - a
  <2>1. PICK q3 \in Int : d + f = 7 * q3 + b
    BY <1>1, <1>7
  <2>2. PICK i \in Int : i = q3 - q1 + q2
    OBVIOUS
  <2>3. d = first + 7 * i
    BY <1>3, <1>4, <1>5, <2>1, <2>2
  <2>4. i >= 0 /\ 7 * i <= d - a
    BY <1>5, <1>7, <2>3
  <2>5. QED BY <2>3, <2>4
<1>8. first \in Int /\ first >= a
  BY <1>5
<1>9. QED BY <1>6, <1>7, <1>8 DEF Sevenths

(* A class is laid out on its weekday, on every such day of the window and *)
(* on no other.                                                            *)
LEMMA ClassDaysAreItsWeekdays ==
  ASSUME NEW e \in DOMAIN Classes, NEW window, window.start \in Int, window.end \in Int,
         window.end - window.start < 637
  PROVE  Page!ClassDays(e, window) =
           {d \in window.start..window.end : Page!Weekday(d) = Classes[e].day}
<1>1. PICK a \in Int, z \in Int : a = window.start /\ z = window.end
  OBVIOUS
<1>2. PICK b \in 0..6 : b = Classes[e].day
  BY CalendarAssumption
<1>3. FirstWeekday \in Int
  BY CalendarAssumption
<1>4. PICK first : first = FirstOn(b, a, FirstWeekday)
  OBVIOUS
<1>5. /\ first \in Int /\ first >= a
      /\ \A i \in Int : (first + 7 * i + FirstWeekday) % 7 = b
      /\ \A d \in Int : d >= a /\ (d + FirstWeekday) % 7 = b =>
           \E i \in Nat : d = first + 7 * i /\ 7 * i <= d - a
  <2>1. Sevenths(first, b, a, FirstWeekday)
    BY <1>3, <1>4, EverySeventh
  <2>2. QED BY <2>1 DEF Sevenths
<1>6. PICK P : P = Page!Placed(window)
  OBVIOUS
<1>7. P = 0..(IF z - a <= 90 THEN z - a ELSE 90)
  BY <1>1, <1>6, LeastOfTwo DEF Page!Placed
<1>8. Page!ClassDays(e, window) = {d \in {first + 7 * i : i \in P} : d <= z}
  BY <1>1, <1>2, <1>4, <1>6, DateType DEF Page!ClassDays, FirstOn
<1>9. ASSUME NEW d \in Page!ClassDays(e, window)
      PROVE  d \in a..z /\ Page!Weekday(d) = b
  <2>1. PICK i \in P : d = first + 7 * i /\ d <= z
    BY <1>8
  <2>2. i \in Nat
    BY <1>7
  <2>3. d \in Int /\ d >= a
    BY <1>5, <2>1, <2>2
  <2>4. Page!Weekday(d) = b
    BY <1>5, <2>1, <2>2, <2>3, DateType
  <2>5. QED BY <2>1, <2>3, <2>4
<1>10. ASSUME NEW d \in a..z, Page!Weekday(d) = b PROVE d \in Page!ClassDays(e, window)
  <2>1. d \in Int /\ d >= a /\ d <= z /\ (d + FirstWeekday) % 7 = b
    BY <1>10, DateType
  <2>2. PICK i \in Nat : d = first + 7 * i /\ 7 * i <= d - a
    BY <1>5, <2>1
  <2>3. i \in P
    BY <1>1, <1>7, <2>1, <2>2
  <2>4. QED BY <1>8, <2>1, <2>2, <2>3
<1>11. QED BY <1>1, <1>2, <1>9, <1>10

(* The page that is shown is true, whatever was asked for.                 *)
LEMMA ShownPage ==
  ASSUME Page!TypeOK, NEW mode \in Page!Mode, NEW y \in Page!Semesters, NEW m \in Page!Months,
         NEW day \in Int, Page!Show(mode, y, m, day)
  PROVE  Page!PageInv'
<1>1. PICK s \in Page!ActiveSchedule(y) : v7' = Page!CalendarItems(mode, y, m, day, s)
  BY DEF Page!Show
<1>2. UNCHANGED <<v1, v2, v3, v4, v5, v6>>
  BY DEF Page!Show
<1>3. PICK window : window = Page!Window(mode, y, m, day)
  OBVIOUS
<1>4. window.start \in Int /\ window.end \in Int /\ window.end - window.start < 637
  BY <1>3, WindowType
<1>5. /\ v7'.mode = mode /\ v7'.semester = y /\ v7'.month = m /\ v7'.day = day
      /\ v7'.timetable = s
      /\ v7'.classes = UNION {{e} \X Page!ClassDays(e, window) : e \in Page!ScopedEntries(s)}
  BY <1>1, <1>3 DEF Page!CalendarItems
<1>6. Page!Shown' = window
  BY <1>3, <1>5 DEF Page!Shown, Page!Window
<1>7. Page!ScopedEntries(s) \subseteq DOMAIN Classes
  BY DEF Page!ScopedEntries
<1>8. \A e \in Page!ScopedEntries(s) :
        Page!ClassDays(e, window) =
          {d \in window.start..window.end : Page!Weekday(d) = Classes[e].day}
  BY <1>4, <1>7, ClassDaysAreItsWeekdays
<1>9. PICK K : K = Page!ScopedEntries(s)
  OBVIOUS
<1>10. v7'.classes = {c \in K \X (window.start..window.end) :
                         Page!Weekday(c[2]) = Classes[c[1]].day}
  <2>1. ASSUME NEW c \in v7'.classes
        PROVE  c \in K \X (window.start..window.end) /\ Page!Weekday(c[2]) = Classes[c[1]].day
    <3>1. PICK e \in K : c \in {e} \X Page!ClassDays(e, window)
      BY <1>5, <1>9
    <3>2. PICK d \in Page!ClassDays(e, window) : c = <<e, d>>
      BY <3>1
    <3>3. QED BY <1>8, <1>9, <3>2
  <2>2. ASSUME NEW c \in K \X (window.start..window.end), Page!Weekday(c[2]) = Classes[c[1]].day
        PROVE  c \in v7'.classes
    <3>1. PICK e \in K, d \in window.start..window.end : c = <<e, d>>
      OBVIOUS
    <3>2. d \in Page!ClassDays(e, window)
      BY <1>8, <1>9, <2>2, <3>1
    <3>3. c \in {e} \X Page!ClassDays(e, window)
      BY <3>1, <3>2
    <3>4. QED BY <1>5, <1>9, <3>3
  <2>3. QED BY <2>1, <2>2
<1>11. Page!ScopedEntries(v7.timetable)' = K
  BY <1>2, <1>5, <1>9 DEF Page!ScopedEntries
<1>12. v7'.semester = Page!GetCurrent' => \A c \in v7'.classes : Page!EntryDetail(c[1])'
  <2>1. SUFFICES ASSUME y = Page!GetCurrent, NEW c \in v7'.classes
                 PROVE  Page!EntryDetail(c[1])'
    BY <1>2, <1>5 DEF Page!GetCurrent
  <2>2. PICK e \in K : e = c[1]
    BY <1>10
  <2>3. e \in DOMAIN Classes /\ Classes[e].timetable = s /\ (v1 = "admin" \/ e \in v4)
    BY <1>9 DEF Page!ScopedEntries
  <2>4. s # "none"
    BY <2>3, CalendarAssumption
  <2>5. s \in Page!Eligible(y)
    BY <2>4 DEF Page!ActiveSchedule, Page!None
  <2>6. Schedules[s] = y /\ (v1 = "admin" \/ s \in v2)
    BY <2>5 DEF Page!Eligible
  <2>7. v1' = "admin" \/ (e \in v4' /\ Classes[e].timetable \in v2'
                            /\ (v1' = "student" => Schedules[Classes[e].timetable] = Page!GetCurrent'))
    BY <1>2, <2>1, <2>3, <2>6 DEF Page!GetCurrent
  <2>8. QED BY <2>2, <2>7 DEF Page!EntryDetail
<1>13. Page!PageIsTrue'
  BY <1>6, <1>10, <1>11, <1>12 DEF Page!PageIsTrue
<1>14. Page!TypeOK'
  BY <1>2, <1>5 DEF Page!TypeOK
<1>15. QED BY <1>5, <1>13, <1>14 DEF Page!PageInv


LEMMA PageInit == Page!Init => Page!PageInv
BY DEF Page!Init, Page!PageInv, Page!TypeOK, Page!PageIsTrue

(* The links of the page lead to dates of the calendar.                    *)
LEMMA TurnedPage ==
  ASSUME Page!PageInv, v7 # Page!Closed, NEW date \in Int, Page!Turned(date)
  PROVE  Page!PageInv'
<1>1. PICK m : m = Page!MonthOf(date)
  OBVIOUS
<1>2. m \in Page!Months
  BY <1>1 DEF Page!Turned, Page!Within, Page!MonthOf
<1>3. PICK day \in Int : day = date - Page!MonthStart[m] + 1
  BY <1>2, MonthsRange
<1>4. Page!Show(v7.mode, v7.semester, m, day)
  BY <1>1, <1>3 DEF Page!Turned
<1>5. Page!TypeOK /\ v7.mode \in Page!Mode /\ v7.semester \in Page!Semesters
  BY DEF Page!PageInv, Page!TypeOK
<1>6. QED BY <1>2, <1>4, <1>5, ShownPage

LEMMA CalendarUse ==
  ASSUME Page!PageInv, Page!Next, ~Page!OfficeStep
  PROVE  Page!PageInv'
<1>1. Page!TypeOK
  BY DEF Page!PageInv
<1>2. CASE Page!Leave
  BY <1>1, <1>2 DEF Page!Leave, Page!PageInv, Page!TypeOK, Page!PageIsTrue
<1>3. ASSUME NEW mode \in Page!Mode, NEW m \in Page!Months, NEW day \in 1..MonthLengths[m],
             Page!OpenCalendar(mode, m, day)
      PROVE  Page!PageInv'
  <2>1. day \in Int
    BY MonthsRange
  <2>2. Page!Semesters # {} /\ v6 \subseteq Page!Semesters
    BY <1>1, SemestersRange DEF Page!TypeOK
  <2>3. Page!DefaultSemester \in Page!Semesters
    <3>1. CASE v6 = {}
      BY <2>2, <3>1, LatestSemester DEF Page!DefaultSemester
    <3>2. CASE v6 # {}
      BY <2>2, <3>2, LatestSemester DEF Page!DefaultSemester
    <3>3. QED BY <3>1, <3>2
  <2>4. QED BY <1>1, <1>3, <2>1, <2>3, ShownPage DEF Page!OpenCalendar
<1>4. ASSUME v7 # Page!Closed
      PROVE  /\ v7.mode \in Page!Mode /\ v7.semester \in Page!Semesters
             /\ v7.month \in Page!Months /\ v7.day \in Int
             /\ Page!Shown.start \in Int /\ Page!Shown.end \in Int /\ Page!Step \in Int
  <2>1. /\ v7.mode \in Page!Mode /\ v7.semester \in Page!Semesters
        /\ v7.month \in Page!Months /\ v7.day \in Int
    BY <1>1, <1>4 DEF Page!PageInv, Page!TypeOK
  <2>2. Page!Shown.start \in Int /\ Page!Shown.end \in Int
    BY <2>1, WindowType DEF Page!Shown
  <2>3. Page!Step \in Int
    BY <2>1 DEF Page!Step, Page!Mode
  <2>4. QED BY <2>1, <2>2, <2>3
<1>5. ASSUME NEW y \in Page!Semesters, Page!ChooseSemester(y) PROVE Page!PageInv'
  BY <1>1, <1>4, <1>5, ShownPage DEF Page!ChooseSemester
<1>6. ASSUME NEW mode \in Page!Mode, Page!SwitchMode(mode) PROVE Page!PageInv'
  BY <1>1, <1>4, <1>6, ShownPage DEF Page!SwitchMode
<1>7. "month" \in Page!Mode /\ 1 \in Int
  BY DEF Page!Mode
<1>8. CASE Page!GoPrevious
  <2>1. CASE v7.mode = "month"
    <3>1. PICK m : m = v7.month - 1
      OBVIOUS
    <3>2. m \in Page!Months /\ Page!Show("month", v7.semester, m, 1)
      BY <1>8, <2>1, <3>1 DEF Page!GoPrevious
    <3>3. QED BY <1>1, <1>4, <1>7, <1>8, <3>2, ShownPage DEF Page!GoPrevious
  <2>2. CASE v7.mode # "month"
    <3>1. PICK date \in Int : date = Page!Shown.start - Page!Step
      BY <1>4, <1>8 DEF Page!GoPrevious
    <3>2. Page!Turned(date) /\ v7 # Page!Closed
      BY <1>8, <2>2, <3>1 DEF Page!GoPrevious
    <3>3. QED BY <3>2, TurnedPage
  <2>3. QED BY <2>1, <2>2
<1>9. CASE Page!GoNext
  <2>1. CASE v7.mode = "month"
    <3>1. PICK m : m = v7.month + 1
      OBVIOUS
    <3>2. m \in Page!Months /\ Page!Show("month", v7.semester, m, 1)
      BY <1>9, <2>1, <3>1 DEF Page!GoNext
    <3>3. QED BY <1>1, <1>4, <1>7, <1>9, <3>2, ShownPage DEF Page!GoNext
  <2>2. CASE v7.mode # "month"
    <3>1. PICK date \in Int : date = Page!Shown.end + Page!Step
      BY <1>4, <1>9 DEF Page!GoNext
    <3>2. Page!Turned(date) /\ v7 # Page!Closed
      BY <1>9, <2>2, <3>1 DEF Page!GoNext
    <3>3. QED BY <3>2, TurnedPage
  <2>3. QED BY <2>1, <2>2
<1>10. QED BY <1>2, <1>3, <1>5, <1>6, <1>8, <1>9 DEF Page!Next

LEMMA CalendarOffice ==
  ASSUME Page!PageInv, Page!OfficeStep
  PROVE  Page!PageInv'
<1>1. v7 = Page!Closed /\ Page!TypeOK
  BY DEF Page!OfficeStep, Page!PageInv
<1>2. ASSUME v7' = v7, v2' \subseteq DOMAIN Schedules, v3' \subseteq DOMAIN Schedules,
             v4' \subseteq DOMAIN Classes, v5' \subseteq Events, v6' \subseteq Page!Semesters
      PROVE  Page!PageInv'
  BY <1>1, <1>2 DEF Page!PageInv, Page!TypeOK, Page!PageIsTrue
<1>3. ASSUME NEW s \in DOMAIN Schedules, Page!Publish(s) PROVE Page!PageInv'
  BY <1>1, <1>2, <1>3 DEF Page!Publish, Page!TypeOK
<1>4. ASSUME NEW s \in DOMAIN Schedules, Page!Unpublish(s) PROVE Page!PageInv'
  BY <1>1, <1>2, <1>4 DEF Page!Unpublish, Page!TypeOK
<1>5. ASSUME NEW e \in DOMAIN Classes, Page!TakeCourse(e) PROVE Page!PageInv'
  BY <1>1, <1>2, <1>5 DEF Page!TakeCourse, Page!Toggled, Page!TypeOK
<1>6. ASSUME NEW v \in Events, Page!EventChange(v) PROVE Page!PageInv'
  BY <1>1, <1>2, <1>6 DEF Page!EventChange, Page!Toggled, Page!TypeOK
<1>7. ASSUME NEW y \in Page!Semesters, Page!SaveSemester(y) PROVE Page!PageInv'
  BY <1>1, <1>2, <1>7 DEF Page!SaveSemester, Page!TypeOK
<1>8. QED BY <1>3, <1>4, <1>5, <1>6, <1>7 DEF Page!OfficeStep

LEMMA PageNext == Page!PageInv /\ Page!Next => Page!PageInv'
BY CalendarUse, CalendarOffice


(***************************************************************************)
(* The desks together.                                                     *)
(***************************************************************************)
TeachingInv ==
  /\ TypeOK
  /\ desk = "coursework" => Course!GradedInv
  /\ desk = "quizzes" => Quiz!AttemptInv
  /\ desk = "progression" => Progress!CreditInv
  /\ desk = "registration" => Register!FeeInv
  /\ desk = "calendar" => Page!PageInv

LEMMA TeachingBegins == TeachingInit => TeachingInv
BY TypeInit, CourseworkInit, QuizInit, ProgressInit, RegisterInit, PageInit
   DEF TeachingInit, TeachingInv

LEMMA TeachingRests ==
  ASSUME TeachingInv, UNCHANGED all
  PROVE  TeachingInv'
<1>1. TypeOK'
  BY TypeNext DEF TeachingInv, all
<1>2. desk' = desk /\ UNCHANGED <<v1, v2, v3, v4, v5, v6, v7, v8, v9, memory>>
  BY DEF all, others
<1>3. CASE desk = "coursework"
  <2>1. Course!GradedInv'
    BY <1>2, <1>3, GradedParts, GradedPartsNext DEF TeachingInv
  <2>2. QED BY <1>1, <1>2, <1>3, <2>1 DEF TeachingInv
<1>4. CASE desk = "quizzes"
  <2>1. Quiz!AttemptInv'
    BY <1>2, <1>4, AttemptParts, AttemptPartsNext DEF TeachingInv
  <2>2. QED BY <1>1, <1>2, <1>4, <2>1 DEF TeachingInv
<1>5. CASE desk = "progression"
  <2>1. Progress!CreditInv'
    BY <1>2, <1>5, CreditParts, CreditPartsNext DEF TeachingInv
  <2>2. QED BY <1>1, <1>2, <1>5, <2>1 DEF TeachingInv
<1>6. CASE desk = "registration"
  <2>1. Register!FeeInv'
    BY <1>2, <1>6, FeeParts, FeePartsNext DEF TeachingInv
  <2>2. QED BY <1>1, <1>2, <1>6, <2>1 DEF TeachingInv
<1>7. CASE desk = "calendar"
  <2>1. Page!PageInv
    BY <1>7 DEF TeachingInv
  <2>2. Page!PageInv'
    BY <1>2, <2>1
       DEF Page!PageInv, Page!TypeOK, Page!PageIsTrue, Page!ScopedEntries, Page!Shown,
           Page!GetCurrent, Page!EntryDetail
  <2>3. QED BY <1>1, <1>2, <1>7, <2>2 DEF TeachingInv
<1>8. CASE desk \notin {"coursework", "quizzes", "progression", "registration", "calendar"}
  BY <1>1, <1>2, <1>8 DEF TeachingInv
<1>9. QED BY <1>3, <1>4, <1>5, <1>6, <1>7, <1>8

LEMMA TeachingWorks == TeachingInv /\ [TeachingNext]_all => TeachingInv'
<1> SUFFICES ASSUME TeachingInv, TeachingNext PROVE TeachingInv'
  BY TeachingRests
<1>1. desk' = desk /\ TypeOK'
  BY TypeNext DEF TeachingNext, TeachingInv
<1>2. CASE desk = "coursework"
  BY <1>1, <1>2, CourseworkNext DEF TeachingNext, TeachingInv
<1>3. CASE desk = "quizzes"
  BY <1>1, <1>3, QuizNext DEF TeachingNext, TeachingInv
<1>4. CASE desk = "progression"
  BY <1>1, <1>4, ProgressNext DEF TeachingNext, TeachingInv
<1>5. CASE desk = "registration"
  BY <1>1, <1>5, RegisterNext DEF TeachingNext, TeachingInv
<1>6. CASE desk = "calendar"
  BY <1>1, <1>6, PageNext DEF TeachingNext, TeachingInv
<1>7. CASE desk \notin {"coursework", "quizzes", "progression", "registration", "calendar"}
  BY <1>1, <1>7 DEF TeachingInv
<1>8. QED BY <1>2, <1>3, <1>4, <1>5, <1>6, <1>7

LEMMA TeachingKeeps == TeachingSpec => []TeachingInv
BY TeachingBegins, TeachingWorks, PTL DEF TeachingSpec

(* TypesOK: every row at every desk keeps its type, a student's level and  *)
(* credits within those of the programme and of the courses, a quiz score  *)
(* within the marks of the quiz, and no attendance record without a sheet. *)
THEOREM TypesKept == TeachingSpec => []TypesOK
<1>1. TeachingInv => TypesOK
  BY DEF TeachingInv, TypesOK, Course!GradedInv, Quiz!AttemptInv, Progress!CreditInv,
         Register!FeeInv, Page!PageInv
<1>2. QED BY <1>1, TeachingKeeps, PTL

(* ScoreIsOfThisText: a score stands beside the very text its teacher      *)
(* read, however assignment_submit (students/views) and grade_submission   *)
(* (teachers/views) cross once the mark is posted; only a text that        *)
(* changed before that is scored unread.                                   *)
THEOREM ScoresStandByTheirText == TeachingSpec => []ScoreIsOfThisText
<1>1. TeachingInv => ScoreIsOfThisText
  BY DEF TeachingInv, ScoreIsOfThisText, Course!GradedInv
<1>2. QED BY <1>1, TeachingKeeps, PTL

(* CountNeverAhead: the count of a material's downloads may fall behind    *)
(* its log, by a stale save of the form or a request that died, and is     *)
(* never ahead of it (material_edit, teachers/views; material_access,      *)
(* students/views).                                                        *)
THEOREM DownloadsAreLogged == TeachingSpec => []CountNeverAhead
<1>1. Course!GradedInv => Course!CountNeverAhead
  <2> SUFFICES ASSUME Course!GradedInv PROVE v2.count <= v3
    BY DEF Course!CountNeverAhead
  <2>1. v2.count \in Nat /\ v3 \in Nat /\ v2.count + Cardinality(Underway(memory)) <= v3
    BY GradedParts, BoundsAssumption DEF Course!Material, CountedIn
  <2>2. Cardinality(Underway(memory)) \in Nat
    BY FiniteAssumption, FS_Subset, FS_CardinalityType DEF Underway
  <2>3. QED BY <2>1, <2>2
<1>2. TeachingInv => CountNeverAhead
  BY <1>1 DEF TeachingInv, CountNeverAhead
<1>3. QED BY <1>2, TeachingKeeps, PTL

(* AttemptsKept: never more attempts than max_attempts, by the unique      *)
(* attempt number, and no attempt complete with an answer missing, by the  *)
(* order of the saves (quiz_start and quiz_take, students/views).          *)
THEOREM AttemptsAreCounted == TeachingSpec => []AttemptsKept
<1>1. TeachingInv => AttemptsKept
  BY DEF TeachingInv, AttemptsKept, Quiz!AttemptInv
<1>2. QED BY <1>1, TeachingKeeps, PTL

(* NeverDoubled: re-run or overlap the runs of the progression engine as   *)
(* you like, the student has no more credits and levels than the first     *)
(* decision of each session granted (run_progression_for_session and       *)
(* apply_progression, academics/services), and the promotions of           *)
(* advance_students.                                                       *)
THEOREM CreditsAreGrantedOnce == TeachingSpec => []NeverDoubled
<1>1. TeachingInv => NeverDoubled
  <2>1. Progress!CreditInv => Progress!NeverDoubled
    BY DEF Progress!CreditInv, Progress!Earned, Progress!NeverDoubled
  <2>2. QED BY <2>1 DEF TeachingInv, NeverDoubled
<1>2. QED BY <1>1, TeachingKeeps, PTL

(* ChargedOnce: one retake fee for a session, however the results of two   *)
(* sheets are entered at once: the row is looked for, and the insert of a  *)
(* second refused (create_retake_fee_on_fail, finance/signals).            *)
THEOREM RetakesAreChargedOnce == TeachingSpec => []ChargedOnce
<1>1. TeachingInv => ChargedOnce
  BY DEF TeachingInv, ChargedOnce, Register!FeeInv
<1>2. QED BY <1>1, TeachingKeeps, PTL

(* PageIsTrue: a page of the calendar shows each entry of the user's on    *)
(* every one of its weekdays in the window and on no other day, and        *)
(* entry_detail opens what it shows of the current semester                *)
(* (calendar_items, scheduling/services; scheduling/views).                *)
THEOREM CalendarShowsTheTruth == TeachingSpec => []PageIsTrue
<1>1. TeachingInv => PageIsTrue
  BY DEF TeachingInv, PageIsTrue, Page!PageInv
<1>2. QED BY <1>1, TeachingKeeps, PTL
=============================================================================
