---------------------------- MODULE ResultSheets ----------------------------
(***************************************************************************)
(* One teachers.ResultSheet from first entry to publication and revision   *)
(* (teachers/models.py, teachers/views.py): the sheet row, the students'   *)
(* result rows and the published versions.                                 *)
(*                                                                         *)
(* Each request runs in its own worker: it Fetches the sheet, then checks  *)
(* and writes on that copy, without a lock or a transaction.  Publication  *)
(* writes the sheet first and the version after it; marks are saved one    *)
(* row at a time.  A refused request, or a dead worker, is Abandoned with  *)
(* what it has written so far.  The audit log, the notifications and the   *)
(* cached CGPA are written and never read back by a guard: left out.       *)
(***************************************************************************)
EXTENDS Naturals

CONSTANTS
  Workers,      \* the server's workers, each serving one request at a time
  Students,     \* the students enrolled in the offering
  Scores,       \* the CA and exam scores a teacher may enter for a student
  Schemes,      \* CA/exam weights together with a grading scheme
  MaxRevision,  \* bound on the revision counter
  Requests      \* the requests that staff may send

None == "none"    \* an empty score, an absent total
Milestones == {"submitted", "approved", "published"}

SheetStatus == {"open", "submitted", "approved", "rejected"}

Entries == [Students -> Scores \cup {None}]
SetupRequests == [op : {"setup"}, scheme : Schemes]
EntryRequests == [op : {"enter"}, user : {"teacher", "superuser"}, scores : Entries]
SubmitRequests == [op : {"submit"}, user : {"teacher", "superuser"}]
ReviewRequests == [op : {"approve", "reject", "publish", "revise"}]
AllRequests == SetupRequests \cup EntryRequests \cup SubmitRequests \cup ReviewRequests
NoRequest == [op |-> None]

ASSUME RequestsAssumption == Requests \subseteq AllRequests
ASSUME SchemesAssumption == Schemes # {}
ASSUME MaxRevisionAssumption == MaxRevision \in Nat \ {0}

VARIABLES
  sheet,     \* the ResultSheet row
  results,   \* the StudentResult row of each student
  versions,  \* the ResultVersion rows
  agreed,    \* history: the results as they were at the latest approval
  reached,   \* history: the milestones the sheet has ever passed
  crossed,   \* history: whether a request has written past another, or past the lock
  pc,        \* where each worker's request stands
  req,       \* the request each worker serves
  mem,       \* the sheet as each worker fetched it
  todo       \* the students whose row an entry has still to save

vars == <<sheet, results, versions, agreed, reached, crossed, pc, req, mem, todo>>

Sheets == [status : SheetStatus, scheme : Schemes, revision : 1..MaxRevision,
           published_at : {"null", "set"}]

NewSheet(k) == [status |-> "open", scheme |-> k, revision |-> 1, published_at |-> "null"]
Blank == NewSheet(CHOOSE k \in Schemes : TRUE)

(* A total records the score and the weights it was computed from.         *)
Totals == (Scores \cup {None}) \X (Schemes \cup {None})
NoTotal == <<None, None>>
Rows == [score : Scores \cup {None}, total : Totals]
Results == [Students -> Rows]
Versions == [revision : 1..MaxRevision, results : Results]

Empty == [s \in Students |-> [score |-> None, total |-> NoTotal]]

(* Mutant: the lock is not looked at.                                      *)
EditAnyway(m, user) == TRUE

(* can_edit for an allocated teacher; a superuser passes in any case.      *)
CanEdit(m, user) == m.status # "approved" \/ user = "superuser"

IsPublished(m) == m.status = "approved" /\ m.published_at = "set"

(* Mutant: any sheet may be approved.                                      *)
ApproveAny(m) == m.status # "approved"
Approvable(m) == m.status = "submitted"

Publishable(m) == m.status = "approved" /\ m.published_at = "null"

(* Mutants: a revision keeps its number, or takes one too many.            *)
SameRound(m) == m.revision
SkipRound(m) == m.revision + 2
NextRound(m) == m.revision + 1

(* StudentResult.save: the total is recomputed when there is any score.    *)
Regraded(row, score, scheme) ==
  [score |-> score, total |-> IF score = None THEN row.total ELSE <<score, scheme>>]

(* ResultVersion.capture: get_or_create for (sheet, revision).             *)
Captured(revision) ==
  IF \E v \in versions : v.revision = revision THEN versions
  ELSE versions \cup {[revision |-> revision, results |-> results]}

Init ==
  /\ \E k \in Schemes : sheet = NewSheet(k)
  /\ results = Empty /\ agreed = Empty
  /\ versions = {} /\ reached = {} /\ crossed = "no"
  /\ pc = [w \in Workers |-> "idle"]
  /\ req = [w \in Workers |-> NoRequest]
  /\ mem = [w \in Workers |-> Blank]
  /\ todo = [w \in Workers |-> {}]

Serves(w, phase, op) == pc[w] = phase /\ req[w].op = op

Finish(w) ==
  /\ pc' = [pc EXCEPT ![w] = "idle"]
  /\ req' = [req EXCEPT ![w] = NoRequest]
  /\ todo' = [todo EXCEPT ![w] = {}]
  /\ mem' = [mem EXCEPT ![w] = Blank]

(* A write upon a copy of the sheet that the sheet has left behind.        *)
NoteCrossing(w) == crossed' = IF mem[w] = sheet THEN crossed ELSE "yes"

(* get_object_or_404(ResultSheet, pk).                                     *)
Fetch(w, r) ==
  /\ pc[w] = "idle"
  /\ pc' = [pc EXCEPT ![w] = "fetched"]
  /\ req' = [req EXCEPT ![w] = r]
  /\ mem' = [mem EXCEPT ![w] = sheet]
  /\ todo' = [todo EXCEPT ![w] = IF r.op = "enter" THEN Students ELSE {}]
  /\ UNCHANGED <<sheet, results, versions, agreed, reached, crossed>>

(* result_sheet_setup: the form saves the whole row.                       *)
Configure(w) ==
  /\ Serves(w, "fetched", "setup")
  /\ mem[w].status # "approved"
  /\ sheet' = [mem[w] EXCEPT !.scheme = req[w].scheme]
  /\ NoteCrossing(w) /\ Finish(w)
  /\ UNCHANGED <<results, versions, agreed, reached>>

(* A superuser enters marks into an approved sheet.                        *)
PastTheLock(w) == sheet.status = "approved" /\ req[w].user = "superuser"

(* result_entry saves the rows of the class one after the other.           *)
SaveRow(w) ==
  /\ Serves(w, "fetched", "enter")
  /\ CanEdit(mem[w], req[w].user)
  /\ \E s \in todo[w] :
       /\ results' = [results EXCEPT ![s] = Regraded(results[s], req[w].scores[s], sheet.scheme)]
       /\ IF todo[w] = {s} THEN Finish(w)
          ELSE todo' = [todo EXCEPT ![w] = todo[w] \ {s}] /\ UNCHANGED <<pc, req, mem>>
  /\ crossed' = IF mem[w] = sheet /\ ~PastTheLock(w) THEN crossed ELSE "yes"
  /\ UNCHANGED <<sheet, versions, agreed, reached>>

(* result_submit, from any status the teacher may edit in.                 *)
Submit(w) ==
  /\ Serves(w, "fetched", "submit")
  /\ CanEdit(mem[w], req[w].user)
  /\ sheet' = [mem[w] EXCEPT !.status = "submitted"]
  /\ reached' = reached \cup {"submitted"}
  /\ NoteCrossing(w) /\ Finish(w)
  /\ UNCHANGED <<results, versions, agreed>>

(* _approve_sheet, one sheet at a time or from the batch view.             *)
Approve(w) ==
  /\ Serves(w, "fetched", "approve")
  /\ Approvable(mem[w])
  /\ sheet' = [mem[w] EXCEPT !.status = "approved"]
  /\ agreed' = results
  /\ reached' = reached \cup {"approved"}
  /\ NoteCrossing(w) /\ Finish(w)
  /\ UNCHANGED <<results, versions>>

(* _reject_sheet asks for no particular status.                            *)
Reject(w) ==
  /\ Serves(w, "fetched", "reject")
  /\ sheet' = [mem[w] EXCEPT !.status = "rejected"]
  /\ NoteCrossing(w) /\ Finish(w)
  /\ UNCHANGED <<results, versions, agreed, reached>>

(* result_publish, first half: save(update_fields=["published_at", ...]).  *)
Publish(w) ==
  /\ Serves(w, "fetched", "publish")
  /\ Publishable(mem[w])
  /\ sheet' = [sheet EXCEPT !.published_at = "set"]
  /\ reached' = reached \cup {"published"}
  /\ pc' = [pc EXCEPT ![w] = "published"]
  /\ mem' = [mem EXCEPT ![w].published_at = "set"]
  /\ NoteCrossing(w)
  /\ UNCHANGED <<results, versions, agreed, req, todo>>

(* result_publish, second half.                                            *)
Capture(w) ==
  /\ Serves(w, "published", "publish")
  /\ versions' = Captured(mem[w].revision)
  /\ NoteCrossing(w) /\ Finish(w)
  /\ UNCHANGED <<sheet, results, agreed, reached>>

(* result_revise returns a published sheet to draft.                       *)
Revise(w) ==
  /\ Serves(w, "fetched", "revise")
  /\ IsPublished(mem[w])
  /\ mem[w].revision < MaxRevision
  /\ sheet' = [sheet EXCEPT !.status = "open", !.published_at = "null",
                            !.revision = NextRound(mem[w])]
  /\ NoteCrossing(w) /\ Finish(w)
  /\ UNCHANGED <<results, versions, agreed, reached>>

(* Refused with a message, or the worker died: no row is rolled back.      *)
Abandon(w) ==
  /\ pc[w] # "idle" /\ Finish(w)
  /\ UNCHANGED <<sheet, results, versions, agreed, reached, crossed>>

Step(w) ==
  \/ \E r \in Requests : Fetch(w, r)
  \/ Configure(w) \/ SaveRow(w) \/ Submit(w) \/ Approve(w) \/ Reject(w)
  \/ Publish(w) \/ Capture(w) \/ Revise(w) \/ Abandon(w)

Next == \E w \in Workers : Step(w)

Spec == Init /\ [][Next]_vars

(***************************************************************************)
(* Properties.                                                             *)
(***************************************************************************)
(* Every row and every in-memory copy keeps its type.                      *)
TypeOK ==
  /\ sheet \in Sheets
  /\ results \in Results /\ agreed \in Results
  /\ versions \in SUBSET Versions
  /\ reached \in SUBSET Milestones /\ crossed \in {"yes", "no"}
  /\ pc \in [Workers -> {"idle", "fetched", "published"}]
  /\ req \in [Workers -> AllRequests \cup {NoRequest}]
  /\ mem \in [Workers -> Sheets]
  /\ todo \in [Workers -> SUBSET Students]

(* No stage is skipped, under any interleaving: nothing is published that  *)
(* was never approved, nothing approved that was never submitted, and a    *)
(* version or a second revision exists only after a publication.           *)
ChainOfApproval ==
  /\ "published" \in reached => "approved" \in reached
  /\ "approved" \in reached => "submitted" \in reached
  /\ (sheet.published_at = "set" \/ sheet.revision > 1 \/ versions # {})
       => "published" \in reached

(* As long as nobody has written on a copy that the sheet had left behind, *)
(* and no superuser past the lock.                                         *)
Calm == crossed = "no"

(* "Approved - locked": while a sheet is approved its marks are the ones   *)
(* the head of department approved, however many requests are open and     *)
(* wherever they die, unless requests have written past one another.       *)
LockedAsApproved == Calm /\ sheet.status = "approved" => results = agreed

(* "the next publish creates the next version": an unpublished sheet has   *)
(* no version under its revision number, though a publication may die      *)
(* before it has captured one; again unless requests have crossed.         *)
NextPublishIsNew ==
  Calm /\ sheet.published_at = "null" => \A v \in versions : v.revision # sheet.revision

(* "a published sheet is immutable": what is published stands with the     *)
(* marks of the version captured under its revision number.                *)
PublishedIsImmutable ==
  IsPublished(sheet) =>
    \A v \in versions : v.revision = sheet.revision => v.results = results

(***************************************************************************)
(* Inductive strengthenings: what the sheets in memory rest on.            *)
(***************************************************************************)
(* Each stage a copy of the sheet shows was really passed.                 *)
Founded(m) ==
  /\ m.status \in {"submitted", "approved"} => m.status \in reached
  /\ m.published_at = "set" \/ m.revision > 1 => "published" \in reached

ChainInv ==
  /\ ChainOfApproval
  /\ Founded(sheet)
  /\ \A w \in Workers : Founded(mem[w])
  /\ \A w \in Workers : pc[w] = "published" => "published" \in reached

(* Without crossings no version is ahead of the sheet, and what a request  *)
(* has stamped as published was approved.                                  *)
CalmInv ==
  /\ LockedAsApproved /\ NextPublishIsNew
  /\ Calm => \A v \in versions : v.revision <= sheet.revision
  /\ \A w \in Workers : pc[w] = "published" => IsPublished(mem[w])
=============================================================================
