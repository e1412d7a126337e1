# eduPro in TLA+

eduPro is a Django application for a university: admissions, teaching and
results, hostels, timetables, finance, identity cards. This directory holds a
TLA+ verification of its stateful core: modules translated from the Python
source, instances of them for TLC, and theorems with TLAPS proofs. Paths below
are relative to the repository (`src/` in `PROJECT.json`).

## 1. The system

All components live in one process image: each HTTP request is served by a
worker that runs one view. There are no background threads or queues; the only
periodic work is a management command or a sweep a view makes before it
answers. Components share one relational database and call each other
in-process.

What makes this hard is the worker model. `ATOMIC_REQUESTS` is not set: every
`save()` outside an explicit `transaction.atomic()` commits by itself, most
views fetch a row without a lock, check the *in-memory* copy and write later,
and `save()` without `update_fields` writes back every column that was fetched.
A request can be refused, or its process can die, between any two statements.
Only the hostel services lock (`select_for_update`).

| Component | State | Operations | Interactions | Hard behaviour | What makes it correct |
|---|---|---|---|---|---|
| Admissions workflow (`portal/workflow.py`) | `AdmissionApplication.status` and legacy values | `transition`, `can_transition` | called by every portal service and view | stale validation, gates on a few of sixteen statuses | no review before payment; only a request that saw it open moves a closed application |
| Decisions, offers, conversion (`portal/services.py`) | `decision`, `AdmissionOffer`, `converted_at`, `StudentProfile` | record, approve, issue, accept, decline, revoke, expire, convert | writes workflow status; creates accounts and profiles | two routes to one status; late answers; partial failure | a student only by an accepted offer |
| Application-fee payments | `ApplicationPayment` | initiate, record, verify, confirm, fail, cancel | moves the workflow after payment | part payments, late provider answers | only verified payments count |
| Documents, checklist, corrections | `ApplicationDocument`, `DocumentRequest` | upload, verify, reject, request, fulfil, submit, resubmit | guards submission | uploads racing with judgements | what is uploaded is judged; versions without gaps |
| Cycles, types, public form | `AdmissionCycle`, `CycleApplicationType` | create, edit, apply | read by admissions | several statements without a transaction, read in between | only types the office accepted get in |
| Result sheets (`teachers/`) | `ResultSheet`, `StudentResult`, `ResultVersion` | setup, enter, submit, approve, reject, publish, revise, capture | fills GPA, retake fees, notifications | row-by-row saves, publication in two transactions, stale full-row saves | approved marks locked; every publication under a new number; no stage skipped |
| Coursework (`teachers/`, `students/`) | material, submissions, attendance | publish, access, submit, grade, mark | enrolment opens it | grade and resubmission by stale forms | a score belongs to its text |
| Quizzes | `QuizAttempt`, `QuizAnswer` | start, take, grade by hand | enrolment opens it | counted then inserted; answers saved one by one | no attempt too many, none complete without its answers |
| Hostel beds and allocations (`hostel/services/`) | `HostelBed.state`, `HostelAllocation`, `HostelTransfer`, `BedMaintenance` | allocate, hold, block, cancel, expire, check in and out, transfer, maintain | payments gate check-in; applications are confirmed | four kinds of row that must agree; reservation expiry against check-in and transfer | a bed is reserved or occupied exactly when a live allocation says so |
| Hostel applications and payments | `HostelApplication`, `StudentFee`, `FeePayment` | apply, review, charge, pay (callback, webhook, officer), check in | feeds allocation; fees are finance's | callback and webhook race on one reference; crash between payment and fee | no charge shows more than was paid; nobody moves in on unpaid or another booking's charges |
| Timetable lifecycle (`scheduling/services.py`) | `AcademicSchedule`, approvals, versions | generate, edit, submit, approve, publish, unpublish, archive, restore, delete | entries read by the calendar | guards differ per operation; version and status in two commits | one current schedule, free of conflicts, signed by the heads, kept in history |
| Timetable generation (`scheduling/engine/`) | entries | generate, detect, repair, optimize | reads offerings, events, availability | greedy with fall-backs; moves against an in-memory state | nothing booked twice, nobody placed while away; no pass adds a clash |
| Calendar | what the page shows | open, turn, switch | reads timetables, events, semesters | date arithmetic, two copies of the visibility rule | each class of the user's on all its days |
| Academic structure | sessions, semesters, offerings, enrolments | set current, enrol | read everywhere | flag moved in two statements | - |
| Progression (`academics/services.py`) | `StudentStatus`, profile level and credits, `GraduationRecord` | run, advance, graduate | reads approved results | two commits per student, overlapping and repeated runs | a session is granted once |
| Registration and student finance | requests, enrolments, `StudentFee`, `StudentRetakeFee` | register, judge, enrol, pay, charge | gates on fees; signals | check-then-insert in signals | one retake fee per course and session |
| Identity cards | `IDCard`, `ReplacementRequest` | generate, print, issue, cancel, replace, renew, expire | photo and profile | stale copies; refusals after a write | a replaced card stays dead; a replacement has its card |
| Accounts | users, HOD rows, student numbers | register, approve, toggle, reject, upload, grant | roles gate all views | whole-row saves of stale rows | active only by decision |
| Notifications | `NotificationRecord` | send, callbacks, read | called by all | key looked up then inserted; crash between insert and delivery | nobody is told twice |
| Hostel incidents; operations; messaging, feedback, e-learning; analytics, API; core | own rows | CRUD, reads, audit | - | none | - |

`PROJECT.json` lists the same components with their sources and what is or is
not modelled, and every hazard at the line where it bites.

## 2. Modules

| Module | Models | Checked by |
|---|---|---|
| `AdmissionGraph` | statuses, legacy aliases, edges, applicant moves as constant operators | - |
| `Admissions` | one application: workflow, decision, offers, fee payments, conversion, with concurrent requests | `MCAdmissions`, `MCOffice`; theorems in `OfficeProofs` |
| `Intake` | admission cycles, their accepted types, the public form | `MCOffice`; theorems in `OfficeProofs` |
| `Documents` | one application's checklist, uploads, verification and document requests | `MCOffice`, itself; theorem in `OfficeProofs` |
| `Accounts` | users, approval, student numbers, the HOD flag | `MCOffice`; theorems in `OfficeProofs` |
| `Notifications` | records of one event over recipients and channels | `MCOffice`; theorems in `OfficeProofs` |
| `ResultSheets` | one teachers' result sheet from entry to publication and revision | `MCResultSheets`, `MCTeaching`; theorems in `TeachingProofs` |
| `Coursework` | material, an assignment's submissions and grades, a day's attendance | `MCTeaching`; theorems in `TeachingProofs` |
| `Quizzes` | one quiz and a student's attempts | `MCTeaching`; theorems in `TeachingProofs` |
| `Progression` | decisions, promotion and graduation of one student | `MCTeaching`; theorems in `TeachingProofs` |
| `Registration` | registration for one course's offerings, fees and retake fees | `MCTeaching`; theorems in `TeachingProofs` |
| `Calendar` | the calendar page of one user | `MCTeaching`; theorems in `TeachingProofs` |
| `BedStays` | abstract specification: stays that begin, move and end as a whole | through `HostelBeds` |
| `HostelBeds` | beds, allocations, transfers and maintenance records with the expiry sweep; implements `BedStays` | `MCHostelBeds`; theorems in `HostelBedsProofs` |
| `Accommodation` | hostel application, charge, payments, allocation and check-in gate | `MCAccommodation`; theorems in `AccommodationProofs` |
| `Schedules` | the schedules of a semester and type from generation to publication, with versions | `MCSchedules`, which puts it beside `Timetable`; theorems in `SchedulesProofs` |
| `Timetable` | generation, conflict sweep, repair, optimizer | `MCTimetable`, `MCSchedules`; theorems in `TimetableProofs` |
| `IDCards` | photos, cards, replacement requests, expiry | `MCIDCards`; theorems in `IDCardsProofs` |
| `SumTheorems` | no code: lemmas about sums over finite sets | used by the proofs of `Accommodation`, `Accounts` and teaching |

### How a request is modelled

Every module with lock-free views models the server in the same way. A worker
is idle, or serves one request (`req[w]` in `Admissions` and `ResultSheets`;
elsewhere `mem[w]` says what it serves and what it has read), which

1. **fetches** the rows the view loads, into `mem[w]`;
2. where the code queries the database again between fetch and write
   (payment gate, offers in force, pending payments), **validates** on the
   in-memory row and the database of that moment;
3. **writes**, naming the columns: `save(update_fields=...)` is
   `[row EXCEPT ...]`, a bare `save()` is the whole of `mem[w]`.

Steps of other workers come between any two of these. Statements inside one
`transaction.atomic()` that only write are one action. `Abandon` is a request
that is refused with a message, raises, or whose worker dies: an open
transaction rolls back, and what was committed remains. Each writing action
needs the view's own guards, so a request whose guards fail can only be
abandoned. Roles appear only as the set of requests that exist; a superuser's
way past `can_edit` is a request of its own.

### Admissions

| TLA+ | Code |
|---|---|
| `app` | `AdmissionApplication`: `status`, `decision`, `converted_at`, whether an applicant account exists |
| `offers`, `acceptedAt` | `AdmissionOffer.status`, `issue_date`, `expiry_date`; `acceptance_date` is set |
| `payments`, `paidAt` | `ApplicationPayment.status`; `paid_at` is set |
| `student` | the applicant has a `StudentProfile` |
| `today` | `timezone.localdate()` |
| `waived` | history only: staff passed `bypass_payment` on the way into a gated status |
| `Fetch`, `Abandon` | `get_object_or_404`; the error paths |
| `Validate`, `Transition` | `ApplicationWorkflow.transition` with `can_transition` and its gates |
| `Decide` | `DecisionService.record`; the admin's bulk rejection |
| `IssueOffer` | `OfferService.issue`, alone or inside `application_approve` |
| `Respond` | `accept`, `decline`, `revoke`, `expire_overdue` |
| `Convert` | `StudentConversionService.convert` |
| `Edit` | `applicant_application_edit` (full-row save) |
| `CreatePayment`, `ProviderConfirms`, `ConfirmPayment`, `DropPayment` | `PaymentService` |

Amounts are abstracted to `Sufficient`, the sets of payments that add up to the
fee (closed upwards). Legacy status values are kept: the graph normalises them,
but some guards in the code test the raw value. An application counts as
converted by its mark or by its status (`is_converted`,
`portal/models.py:979`), and the transition view stores the status of an
application that has no student (`portal/views.py:1658`). `StudentOnlyByOffer`
reads both: neither comes without an accepted offer, and the mark never without
a student. The status alone does come without one, and the code relies on
nothing more.

Remarks on the code that need no run: the transition view rejects an
application without touching its decision, though `portal/models.py:1205` says
the two can never disagree; `application_reject` passes a `reason=`
keyword the service does not take, so that view raises
(`portal/views.py:1018-1021`) and rejections go through the decision view; the
applicant's submit from `needs_correction` asks for an edge that does not exist
(`portal/views.py:1378-1410`), so only `resubmitted` leaves it; `OfferService.revoke`
and `expire_overdue`, `PaymentService.fail` and `cancel` are called from tests
only, and are modelled as requests anyone may send; the audit row is written
after the transition and not atomically with it.

### ResultSheets

| TLA+ | Code |
|---|---|
| `sheet` | `ResultSheet`: `status`, weights with grading scheme, `revision`, `published_at` |
| `results` | `StudentResult` of each student: the entered score, and the score and weights the stored total was computed from |
| `versions` | `ResultVersion` rows |
| `agreed`, `reached` | history only: results at the latest approval; milestones ever passed |
| `crossed` | history only: a request has written on a copy that the sheet had left behind, or a superuser past the lock |
| `todo[w]` | rows an entry request has still to save |
| `Configure`, `SaveRow`, `Submit` | `result_sheet_setup`, `result_entry` (one `save()` per student), `result_submit` |
| `Approve`, `Reject` | `_approve_sheet`, `_reject_sheet` |
| `Publish`, `Capture` | the two halves of `result_publish`: stamp, then `ResultVersion.capture` |
| `Revise` | `result_revise` |

No view of a sheet locks it, so an approval can fall between two rows that
`result_entry` saves, and a stale save brings an old status back. The code
prevents neither, and `crossed` records that it happened. While it has not
(`Calm`), the marks of an approved sheet are those that were approved and the
next publication finds its number free, with any number of requests open and
wherever they die; `ChainOfApproval` holds under every crossing. What `Calm`
leaves open is not only races: rejecting a *published* sheet keeps its
publication mark and revision, and the sheet that is entered, submitted and
approved again is published with other marks under the old number (the finding
`published_marks`).

`capture` reads the marks and inserts the version in one step. A version's
contents matter to `PublishedIsImmutable` only, which is checked with one
worker, so nothing could come between. Not modelled: the cached CGPA (recomputed at approval
only, so a revision leaves it counting withdrawn marks), retake fees (created
by a signal, never removed), notifications, audit, and
`ResultVersion.restore_into_sheet`, which has no caller outside the tests.
Students see results as soon as the status is approved
(`students/views.py:655,716`), not only once published.

### HostelBeds

| TLA+ | Code |
|---|---|
| `state` | `HostelBed.state` |
| `allocs` | `HostelAllocation`: status, student, bed, session |
| `transfers` | `HostelTransfer`: status, old allocation, new bed |
| `records` | `BedMaintenance`: status, bed |
| `due` | reservations whose `reservation_expires_at` has passed; `Lapse` is the clock |
| `sweep` | primary keys listed by running `expire_due_reservations` and not reached yet |
| `Allocate`, `CancelAllocation`, `HoldBed`, `ReleaseHold`, `Block`, `Unblock` | `HostelAllocationService` |
| `StartSweep`, `ExpireReservation`, `SkipRows` | `expire_due_reservations`: the query, one transaction per row, a killed process or a logged failure |
| `CheckIn`, `Checkout` | `HostelCheckInService` |
| `RequestTransfer`, `Decide`, `CompleteTransfer` | `HostelTransferService` |
| `StartMaintenance`, `UpdateMaintenance`, `DeleteMaintenance`, `Sync` | `BedMaintenanceService` |

Unlike the other modules this one needs no request state: every service locks
its rows inside one transaction and reads them there, so it is one action, and
a refusal changes nothing. The two exceptions are modelled. `request_transfer`
judges the old allocation on the object its view fetched; every allocation was
live when it was created, so any existing one may pass (`RequestTransfer`). The
sweep lists first and expires later, row by row, so anything may happen to a
listed reservation in between.

`BedStays` is what the services promise in terms of stays alone. The refinement
mapping takes the live allocations to the stays they stand for: allocation is
`Begin`, cancellation, expiry and check-out are `End`, a completed transfer is
`Move` (or `Begin`, see below), check-in and everything about beds, records and
requests is a stutter.

Remarks on the code that need no run: an approved transfer whose old allocation
has ended meanwhile is completed all the same, and the student who has no bed
any more gets a new reservation (`hostel/services/transfer.py:137`); a held or
blocked bed taken into maintenance comes back available; a bed that was blocked
out of maintenance and unblocked is available behind its ongoing record
(`hostel/services/allocation.py:161`, `171`), though `hostel/models/core.py:252-253`
says that a bed under maintenance cannot be allocated: `LetAfterRecords` excepts
the lifting of a block and nothing else; the view
`maintenance_complete` does not catch the error its service may raise
(`hostel/views/staff.py:555`); `select_for_update` together with
`select_related` over nullable keys is refused by PostgreSQL. Not modelled:
renewal (it moves the end date `expires_at` of a resident's allocation, which
no service reads), the hostel application that an allocation confirms and a
cancellation cancels, and edits of a bed's state in the Django admin, which
bypass the services.

### Intake and Documents

`Intake` has the cycles with their accepted types in the statements in which
the views write them, the types the admin switches on and off, and the public
form that reads them in between. History
`chosen` keeps what the office ever meant to accept: the form may see a type
that is gone by the time it saves, never one that no choice contained. One case
is excepted because the code makes it so: when every accepted type is switched
off, `for_cycle` offers any active type (`portal/services.py:1220-1222`), the
office's or not, although `portal/forms.py:160-166` checks the posted type
against that very list so that an applicant cannot choose what the cycle does
not run. `off` remembers, for each application, what was off at that check.
Remarks: creating a cycle with several types keeps only the first, because
`set_accepted_types` writes rows only for a saved cycle and the form saves
afterwards (`portal/forms.py` says "so the row and its join rows are always
consistent"); two saves at once may leave two active cycles; one application
per cycle is checked and then inserted; `max_applications` is never enforced.

`Documents` has one application's checklist, uploads, judgements and document
requests. `DirectCalls` tells the code as users reach it (the verification view
refuses everyone: the finding `documents_judged`) from the services as the
repository's tests call them. Remarks: two uploads at once may share a version
number; the default checklist counts a rejected document as done; a correction
response skips the checklist, and so does the public form; staff may verify an
older version, though `DocumentService.verify` says it never happens;
`document_request_fulfill` has no guard.

### Accounts and Notifications

`Accounts`: user rows saved whole or by fields, the HOD row and the signal that
keeps `is_staff` in step, student numbers, log-in, the admin's bulk activation
(`accounts/admin.py:45-58`, one `UPDATE`) and `StudentConversionService.convert`,
which activates whatever user has the applicant's address
(`portal/services.py:980-996`). Remarks: convert saves the changed columns only,
so a teacher or head who becomes a student keeps `is_staff`; bulk upload counts
numbers from the active profiles and not with `generate_number`, so a number
may collide and leave a user without a profile; granting HOD again after a
revocation raises on a unique row; the list of pending users includes
deactivated ones, so "reject" deletes former students, and a stale reject
deletes an account approved meanwhile; a stale form re-activates or re-inserts
a user, which is why `ActivatedByDecision` counts saving a form fetched when
the account was active among the decisions.

`Notifications`: one event over recipients and channels; key looked up, record
inserted, message sent, outcome saved are steps of their own, and the process
may die between them. Remarks: a lost race on the key raises out of `send`, so
the remaining recipients and the caller's view fail, though
`notifications/services.py:11` says it never raises into views; a failed or
crashed attempt is never repeated, because its key exists; callbacks out of
order regress the status, and one that precedes the provider's id is lost.

### Coursework and Quizzes

`Coursework`: material and its download counter, submissions and grades,
attendance. A teacher reads a text (`ReadSubmission`), and
`grade_submission` fetches the row again when the mark is posted and saves the
whole of it (`teachers/views.py:431-443`): a text that
changed since it was read is scored unread, which `Unread` records and nothing
in the code looks at. `ScoreIsOfThisText` is about the others: a score given for
the text its teacher had read stands beside that text and no other.
`CountNeverAhead` relates the download counter, which whole-row saves put back,
to the log. Remarks: a
grade is lost to a stale resubmission form and a resubmitted text to a stale
grading form; `allow_late` is never read, a late hand-in is accepted and marked.

`Quizzes`: starting an attempt counts and inserts; submitting saves answers one
by one and the attempt last. Remarks: two submissions of one attempt may
interleave, and its score then is not the sum of its answers; opening the page
after the time is up saves empty answers; a question saved with invalid choices
is scored as correct when left blank; the views `quiz_publish` and
`quiz_unpublish` name a field that does not exist and raise, the toggle at the
same URL is what teachers reach.

### Progression and Registration

`Progression`: runs of the engine fetch all profiles and then work through
them, decision and profile in two commits; `granted` remembers what a session's
first decision gave. Remarks: a crash between decision and profile is never
made good, since later runs find the decision; a student deferred first is never
moved by a later `ADVANCE`; re-running graduation turns a confirmed record into
a rejected one; `process_graduation` ignores its dry run for candidates;
`advance_students` promotes whatever the results.

`Registration`: fee gate (with the overdue mark the admin sets), request, its judges, the enrolment signal, the retake
signal, and fee assignment and payment as they move the gate. Remarks: a
rejected request blocks its offering for ever though the form still lists it;
approving while the enrolment is deactivated raises after the approval is
committed; approve and reject at once leave a rejected request with an
enrolment; between saving an F and charging for it the student may register
unpaid; a fee stays owed when the grade is corrected; the bulk allocation form
and its view disagree on field names, so the view always raises.

### Calendar

Days are numbers; a page is what `calendar_items` laid out when it was opened.
Only office changes between two visits are modelled, not under an open page.
Remarks: day and week modes clamp the day to 28, so the last days of a month
cannot be shown alone and "next" gets stuck there; month mode lays classes out
beyond the semester's dates; the detail view opens any public event whatever
its scope; two saves of a semester at once leave two current.

### Accommodation

From application to check-in; beds are `HostelBeds`'. Applications are all for
one session, and the officer's form may allocate for that or another one and
name another student's application (`hostel/forms/allocation.py:31-35`). What a
stay is judged by follows: the charges of its own booking, or all of the
student's hostel charges when the sessions differ or there is no application,
as after a transfer (`hostel/services/finance.py:51-53`). The comment at
`hostel/services/checkin.py:39-41` claims the former for every stay;
`CheckedInOnPayments` states each case as the code has it. A reference made with
a test key is completed on the spot and never confirmed again: the gateway, which
`PaystackService.verify` asks, has not seen it. A service
that locks and re-reads its row is one action, the payment and form paths are
taken statement by statement. Remarks: the setting "When enabled, allocations
create StudentFee records" (`hostel/models/policy.py`) is not what
`allocate_bed` does, so a student who never opens the payment page moves in
free; two `ensure_charge` at once make two charges, and the next one raises; a
crash between payment row and fee leaves the payment uncredited; whole-row
saves may turn a cancelled application into a confirmed one; an expired
reservation leaves its application confirmed; `cancel_application`
(`hostel/services/application.py:101`) has no caller.

### Schedules and Timetable

`Schedules` is the life of timetables around the engine, which it takes by its
result (sessions placed, verdict of the conflict check); `Timetable` is the
engine. Remarks on the first: `publish_schedule` checks conflicts and not the
status, though `scheduling/services.py:4-6` says the workflow "can never be
accidentally bypassed" (so `HeadsSigned` speaks of the status
`hod_approved`); repair is refused to a published schedule only
(`scheduling/services.py:317`), though `scheduling/models.py:513` forbids edits
from submission onward: approvals keep the plan each head signed, and
`HeadsSigned` permits a repair since of a plan that was signed with its
conflicts, which is what the code allows; `schedule_edit` saves nothing, because
its form is bound to the very row that `update_schedule` compares with
(`scheduling/views.py:989`), so the term of a schedule never changes; publishing a superseded schedule
again clears `is_current` on the current one; a stale generation may replace
the entries of a published schedule; restoring deletes the entries, and then
raises on one with a lecturer, without a transaction; `update_entry` is called
by tests only. `crossed` is a history: the schedules of a term in which one
request changed a schedule while another was being served. Nothing in the code
prevents that, and the properties of the first three invariants speak of the
other schedules (`Calm`).

On the second: the loops that load the absences unpack the keys of dictionaries
(`scheduling/engine/generator.py:484-489`, `optimizer.py:188-195`), so
`unavail_map` is empty and no class is ever kept out of a lecturer's absence
(the finding `absences`; repair gets the same map), while the detector's sweep
reads the rows themselves; events block only the weekday they begin on, for
the whole semester; blackout dates never reach the detector; the optimizer
moves locked entries; the generator allows back-to-back sessions that the sweep
counts as violations of the break. A pass runs inside one request and edits
come between passes; concurrent passes are not modelled.

### IDCards

Requests act on copies; statuses are written as single columns. `Expire` is the
daily sweep with its renewals. Remarks: the retry on a serial-number collision
runs inside the failed transaction and cannot succeed; `digital_card` serves
the newest card whatever its status; a renewal has no actor, so it fails when
student requests are disabled, and a refused one leaves a pending request;
`mark_printed` moves an active card back to printed. A card the bound leaves no
room for counts as a refusal (`CanReplace`). A card refers to its holder's
`PassportPhoto` row, whose picture a new upload overwrites: a printed card may
show another one. Uploads are unbounded. Edits and deletions in the admin
(`id_cards/admin.py:49`) are not modelled.

## 3. Runs

| Run | Instance | Question and answer |
|---|---|---|
| `office` | five desks, 2 workers each | `ReviewedOnlyIfSettled`, `StudentOnlyByOffer`, `ReopenedOnlyByStale`, `TypeWasOffered`, `NotifiedOnce`, `ActivatedByDecision` hold under every interleaving |
| `closed_for_good` | admissions, 2 workers, 1 offer, 1 payment | finding: a move validated while the application was open reopens it after it was closed |
| `documents_judged` | 1 document, 1 worker, the view only, a fair office | finding: an upload is never judged, because the view refuses everyone |
| `teaching` | six desks, 2 workers each | `ChainOfApproval`, `ScoreIsOfThisText`, `CountNeverAhead`, `AttemptsKept`, `NeverDoubled`, `ChargedOnce`, `PageIsTrue` hold under every interleaving; `LockedAsApproved` and `NextPublishIsNew` unless requests cross |
| `published_marks` | 1 sheet, 1 worker, 1 student, 2 weight schemes, no superuser | finding: a published sheet is rejected, changed and approved, and stands published under its old version number |
| `hostel_beds` | 2 beds, 2 students, 1 session, 3 allocations, 1 transfer, 1 record | `BedsAgree`, `HistoryStands` hold, and the services implement `BedStays` (`KeepsPromise`) |
| `hostel_one_bed` | 1 bed, 2 allocations, 2 records, fair sweep | `LetAfterRecords`: a bed with an ongoing record goes back into use only by lifting a block, however two records overlap; `OverdueReleased`: no overdue reservation keeps its bed for ever |
| `accommodation` | 1 student, 2 applications, charges, payments, stays; 2 workers; 2 policies | `PaidIsBacked`: no charge shows more than its payment rows; `CheckedInOnPayments`: nobody moves in on a charge without payments |
| `payment_once` | the same | finding: callback and webhook record one payment through the live gateway twice |
| `schedules` | beside each other: 2 schedules of one term, 2 departments, 1 worker; and the engine on 3 sessions of 2 offerings, 2 edits | `OneCurrent`, `PublishedStands`, `HeadsSigned`, `NothingOverwritten`; `GeneratedIsSound`, `PassAddsNoClash` |
| `absences` | the engine of the same problems | finding: classes are placed while their lecturer is away |
| `id_cards` | 1 student, 2 cards, 1 request, 2 workers, 3 settings | `ReplacedForGood`, `ReplacedByLive`, `RevivedOnlyByStale` |

Each passing run checks a type invariant besides (`TypeOK`, `TypesOK`,
`EngineTypeOK`), `hostel_one_bed` excepted, which is an instance of the module
that `hostel_beds` checks.

Where a race breaks what one would wish for, the property says what is left.
`ReopenedOnlyByStale` names the only requests that reopen an application.
`LockedAsApproved`, `NextPublishIsNew`, `OneCurrent`, `PublishedStands` and
`HeadsSigned` hold until requests cross, and the crossing is recorded when it
happens, not excluded beforehand: the model makes every such step. `teaching`
checks its two with requests that do cross. `schedules` has one worker, whose
requests die between their statements but do not cross, since two are beyond
TLC here; the theorems cover any number of workers and every crossing.

The desks. `MCOffice` and `MCTeaching` put components side by side that share
no row: the initial state picks the desk at work, one module's actions run on
its rows, and the rows of the others do not move. The state space is the sum of
the desks' and not their product, so one run answers one question of each: what
may two overlapping requests, or one that died half-way, do here? What each
desk's component takes as a parameter is a constant of `MCOffice` or
`MCTeaching`, with named assumptions, and gets its value in the `.cfg`, so the
theorems about the desks hold for every other value too.

Bounds and why they suffice.

* Admissions. One offer, which may be accepted, revoked or expire before another
  decision; two half payments are the smallest instance where no single payment
  settles the fee; two days let an offer expire. `MaxDay` bounds the clock.
* Result sheets. One student with one entry of marks or none: what the
  properties tell apart is whether the marks are the approved ones. The theorems
  cover a half-saved class. Of superusers the desk has those who submit and
  those who enter marks, and of teachers those who enter or clear them.
  `MaxRevision = 2` gives one revision after a
  publication. `published_marks` needs a second scheme, so that the same score
  makes another total.
* Hostel. Three allocations let a transfer create one while another student's
  stands against it, and a sweep reach an allocation that was moved. Two
  sessions differ only in the conflict query, and the bed's state already keeps
  a bed to one stay. `hostel_one_bed` has the second record that reopening and
  deleting out of order need.
* Accommodation. Two bookings let money paid for one meet the other. `Due = 5`
  and `Cash = 3`: the counter pays in part, and two such payments exceed the
  charge. The policies differ in what they let in: partial payments through
  the live gateway, full payment with a test key. The constraint `Bounds` lets
  workers overlap on one booking only, since a second one, which the first must
  not pay for, is handled by one worker as well as by two; with a test key, where
  the stays do not differ, there is one allocation.
* Schedules. The main schedule holds two departments' sessions or nothing, keeps
  two snapshots (one before a change, one at publication) and leaves at most one session unplaced;
  its rival is empty and competes for the current flag. The rival holds no sessions, keeps no
  versions and is signed by no head (the constraint `RivalUnsigned`), but it is
  published, withdrawn and archived like the main one. `MaxVersions`, `MaxUnplaced` and `Contents` bound what an engine run may leave.
* Timetable. Two mornings with adjoining and overlapping slots, two rooms of
  which one is a laboratory, one lecturer who may be shared, missing or away, two
  cohorts, events inside and outside the semester; `MaxEdits = 2` moves a session
  onto another and back.
* Identity cards. The second card is a replacement or a duplicate; the settings
  are the defaults, automatic approval with renewal, and refused renewals.
* Intake: one cycle of two types, one application. Documents: one type, two
  versions, one document request. Accounts: one user with one number: the
  property relates the requests that hold one account, and the theorem covers
  several. Notifications: one recipient over all three channels.
* Coursework: two texts, one mark, two downloads; material, assignment and
  attendance, which share no row but the enrolment, are at work one at a time
  (the constraint `OnePart`). Quizzes: two attempts where one is allowed.
  Progression: two sessions, the second course a retake of the first.
  Registration: the old offering and the open one, a fee of one unit, paid or
  not. Calendar: January and
  February from a Thursday, so that weeks cross both ends of a month, a
  semester in each, one timetable, one class, one event across the boundary;
  no window comes near the 91 weeks that cap the layout; the theorem covers
  every semester below them.

Symmetry is over primary keys, students and workers, which the actions compare
for equality only, and is used for safety only.

Fairness. Nothing in most of this code retries or runs by itself: an application
waits for staff and a sheet for a head of department, and no code schedules
people; those specifications are `Init /\ [][Next]_vars`. Two have more. The
expiry sweep is a management command meant to be scheduled repeatedly
(`hostel/management/commands/expire_hostel_reservations.py`), which the student's
hostel page runs too (`hostel/views/student.py:65`). `SweepFairness` says that
a sweep which has something new to list is eventually started (weak fairness),
and that a row which is listed again and again is eventually reached (strong
fairness: `SkipRows` models a sweep that dies or a row that fails, and a row
that failed every time would never be released). `Documents!FairSpec` supposes
an office that judges whatever it is able to judge; under it the finding is not
that staff are idle but that judging is never enabled. Liveness is checked
without symmetry.

Deadlock is checked wherever the system goes on for ever: a worker that has
begun a request can always abandon it, a bed can always be held or
released, a plan can be swept again. It is off in `accommodation`,
`payment_once`, `teaching`, `office`, `documents_judged`, `closed_for_good` and
`published_marks`, where the primary keys and other bounds run out, and a desk
that has used them stops.

## 4. Proofs

All theorems hold for every value of the constants, from the assumptions next
to the constants (`RequestsAssumption`, `FeeAssumption`, `BoundsAssumption`,
...), which TLC evaluates in every run. Each inductive invariant is written at
the end of its component's module, under "Inductive strengthening", and its
preservation has one step per action. Type correctness is inductive alone or
with what the requests in flight carry; the other invariants need what those
requests have read, because any of them may still write it.

Admissions (`OfficeProofs`, about its own `Spec`)

* `PaymentGate` (`ReviewedOnlyIfSettled`, any number of workers). `FeeInv` adds
  that no copy of a row in memory and no validated move is ahead of the fee: a
  full-row save could otherwise revive a review status nobody paid for. The
  argument also uses the graph: interview stages are entered from review stages
  only (lemma `Edges`). `waived` and `paidAt` only grow, which is why a failed
  payment does not break it.
* `OfferIsOnlyRoute` (`StudentOnlyByOffer`, any number of workers). `OfferInv`:
  an accepted offer has its acceptance date, a validated conversion, by the
  service or by the transition view, rests on one, and a copied conversion mark
  on a student.
* `OnlyStaleReopens` (`ReopenedOnlyByStale`, any number of workers). `OpenInv`:
  a validated move is of an application that was open when it was fetched. The
  rest is the graph: a terminal status has no way out, and every other write
  keeps the status or takes it from the copy.

The other office desks (same module, about `OfficeSpec`, any number of
workers at each)

* `OnlyOfferedTypes` (`TypeWasOffered`). `OfferedInv`: what a form holds between
  its reads and its save was chosen by the office once, unless
  the first type of that choice was off, and `chosen` only grows.
* `TellsOnce` (`NotifiedOnce`). `DeliveryInv`: whoever is about to deliver has
  inserted the key's record, alone, and nothing was sent before; the database
  refuses a second row for the key, so a late lookup cannot lead to delivery.
* `ActivationIsDecided` (`ActivatedByDecision`). `AccountInv`: what a request
  holds is a row of its user as it once stood, so only a row that showed the
  account active can make it so, and such a form counts as a decision; the
  signal of the HOD role saves one field of it.
* `TypesKept` (`TypesOK`) has the invariants of all five desks under it. For
  document versions (`VersionInv`): a version is never above the number of its
  row, which bounds the version an upload in flight has computed, and the row
  before it exists.

Result sheets and the other teaching desks (`TeachingProofs`)

* `NoStageSkipped` (`ChainOfApproval`, any number of workers). `ChainInv`: every
  copy of the sheet shows only stages that were really passed, so a stale save
  cannot invent one.
* `ApprovedMarksAreLocked` and `RevisionFindsItsNumberFree` (`LockedAsApproved`,
  `NextPublishIsNew`, any number of workers and requests, superusers' among
  them). `CalmInv`: until requests cross, no version has a number above the
  sheet's; a request between the halves of a publication holds a sheet that
  stood published. A write that keeps `crossed` at `no` was made upon the sheet
  as it stands.
* `ScoresStandByTheirText` (`ScoreIsOfThisText`, any number of workers, as all
  that follow). `GradedInv`: a submission form in flight was fetched without a
  score, so saving it cannot put an old score beside a new text, and a mark that
  was given for a text just read is saved beside that text.
* `DownloadsAreLogged` (`CountNeverAhead`): those counted and those under way
  are among those logged, a cardinality argument that holds of every stale copy.
* `AttemptsAreCounted` (`AttemptsKept`). `AttemptInv`: no two attempts have one
  number and numbers lie in `1..MaxAttempts`, which bounds the attempts (an
  injection), although the count is read before the row is inserted. A
  submission in flight has saved every listed answer it is not still to save.
* `CreditsAreGrantedOnce` (`NeverDoubled`). `CreditInv`: whatever a run, however
  stale, would write into the profile has been granted already. A session's
  first decision adds to the sum of grants, later ones find it; one session
  grants at most the units of its own courses, and the sessions' courses are
  disjoint, so all grants fit in the units of all courses.
* `RetakesAreChargedOnce` (`ChargedOnce`). Registration's `FeeInv`: the signal
  looks for a row first, but what holds under races is the unique constraint at
  the insert, and payments change no row but their own.
* `CalendarShowsTheTruth` (`PageIsTrue`). `PageInv` with the lemma
  `ClassDaysAreItsWeekdays`: stepping a week at a time from the first weekday on
  or after the window's start meets each of the weekdays in the window, by
  arithmetic modulo 7, for every window shorter than 637 days.
* `TypesKept` (`TypesOK`), `TypeCorrect`.

Hostels (`HostelBedsProofs`, `AccommodationProofs`)

* `BedsAlwaysAgree` (`BedsAgree`). The invariant is inductive with type
  correctness, because it says both that a live allocation's bed is in the
  matching state and that no two live allocations share a bed: releasing a bed
  at the end of one stay then cannot strip another. `TypeOK` carries the fact
  that a transfer refers to an existing allocation.
* `LetWhenTheLastRecordEnds` (`LetAfterRecords`): every change of a record
  synchronises its own bed by all its records, and the other services that make
  a bed available find it reserved, occupied or held, never in maintenance
  (`BedsAgree` says so of the bed of a live stay).
* `HistoryIsKept` (`HistoryStands`): each action changes only rows whose status
  it has checked in the same transaction.
* `PromiseKept` (`KeepsPromise`): `HostelBeds` implements `BedStays`.
  `BedsAgree` supplies that an available bed hosts no live allocation, and the
  conflict query that the student has no other stay in the session. The abstract
  bed hosts one stay over all sessions, which the rows enforce only through the
  bed's state.
* `PaidNeverExceedsPayments` (`PaidIsBacked`, any number of workers).
  `LedgerInv`: what a worker has seen of a charge, and what it is about to write
  to it, is at most the payments on record against it. A payment row is inserted
  before the charge is saved and is never removed, so a lost update only leaves
  the charge with less. A reference may have several rows (the finding
  `payment_once`), one for each worker that looked it up (`RowsOwed`).
* `CheckInNeedsPaymentsOnRecord` (`CheckedInOnPayments`), in its two cases: the
  charges of the booking, or all of the student's. If every charge were paid
  below 60 %, so would their sum be (lemma `SatisfiedIsCovered`), and
  `LedgerInv` puts payments behind what a charge shows.

Timetables (`SchedulesProofs`, `TimetableProofs`)

* `OneCurrentTimetable`, `WhatIsPublishedStands`, `HeadsSignedWhatIsPlaced`
  (`OneCurrent`, `PublishedStands`, `HeadsSigned`; any number of workers, of
  schedules in whose term no requests have crossed). `CalmInv`: there a fetched
  row is the row as it stands, a checked schedule is still publishable
  (`HoldsTheRow`), and heads who signed in this round signed the sessions that
  are placed. Once requests cross `OneCurrent` may fail, since clearing the
  rivals' flag and saving one's own are two statements.
* `ReplacedPlansAreKept` (`NothingOverwritten`, any number of workers): the
  snapshot is taken in the step that replaces the entries, not when the engine
  started.
* `PassesAddNoClash` (`PassAddsNoClash`). Every step of the engine moves one
  session to one of its candidates (lemma `EngineMoves`); a candidate clashes
  with no session of the in-memory state, and clashes are mutual, so the moved
  session is in no clash at all afterwards, and the rest clash as they did.
* `EnginePlansAreSound` (`GeneratedIsSound`), inductive with type correctness.
  The step that is not obvious is the daily limit of the sessions that do *not*
  move: when one joins their day, they have as many others there as it found,
  itself counted instead of them (`OthersStaySound`). It says nothing of
  absences, which the code does not keep. Nothing is assumed of the
  problem, the penalties or the order in which sessions are visited.

Identity cards (`IDCardsProofs`, any number of workers)

* `ReplacedCardsStayReplaced` (`ReplacedForGood`). `CardInv`: a completed
  request has marked its old card as replaced by a newer card of the same
  student, whatever the old card's status has become since, and the mark is
  never cleared.
* `NoCardLostToReplacement` (`ReplacedByLive`) and `OnlyStaleCopiesRevive`
  (`RevivedOnlyByStale`): action properties, from the same invariant. The second
  bounds what an unlocked copy can do: only a copy that was read before a card
  died revives it.

`SumTheorems` holds the lemmas on sums over finite sets that `Accommodation`,
`Accounts` and teaching need: the sum of naturals is a natural, taking one
element out, changing one value, comparing two functions, regrouping. The
library defines the sum by a recursive function on sets; that the function
exists, and what it unfolds to, is proved through a least counterexample
(`WFMin` of the library's `WellFoundedInduction`, over the sizes of subsets),
since the induction theorems take an operator as a parameter.

Only model-checked: `OverdueReleased` (liveness under fairness is out of the
prover's reach) and the five findings, which are counterexamples. No module
uses a RECURSIVE operator.

## 5. Plan

Done: every module of section 2 modelled and checked; every safety property of
the passing runs proved. What is left:

1. Abstract specifications: a published timetable as a growing history, and a
   result sheet's versions likewise, each implemented while requests do not cross.
2. The admin's bulk approval of applications
   (`portal/models.py:1143-1199`) and the enrolments a conversion makes.
3. The second result workflow `academics.ResultSheet`, in which a head may
   approve a sheet of her own and a stale judge may take a finalized sheet back.
4. The calendar's search, imports and exports of timetables.

## 6. Not modelled

Pages, forms, layout, e-mail and file handling; catalogue and CRUD components
where no two rows must agree; hostel incidents and inspections, operations,
messaging, feedback and e-learning (single-row inserts and reads); analytics
and the read-only API (reads); the audit log (written, never read by a guard);
authentication, other than which requests exist. Import and export of
timetables, notification templates, payroll and fee structures write rows of
one kind that no other operation depends on. `PROJECT.json` gives the reason
for each component.

Some disagreements between code and comments are kept as remarks, since
a run would say no more than the line itself: the transition view can set
`CONVERTED` without a conversion (`portal/views.py:1658`); the way from
submitted over the waiting list to a decision goes around the fee gate
(`portal/workflow.py:254`, which is why the gate's property is about review
statuses); changed weights leave stored totals as they were
(`teachers/views.py:914`); a blocked bed with an ongoing maintenance record can
be unblocked and let (`hostel/services/allocation.py:161`); a form whose accepted
types are all off offers the others (`portal/services.py:1220`); a plan that
heads signed with its conflicts can be repaired (`scheduling/services.py:317`);
a stay for another session is judged by all the student's hostel charges
(`hostel/services/finance.py:53`).
