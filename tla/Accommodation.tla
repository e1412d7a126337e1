---------------------------- MODULE Accommodation ----------------------------
(***************************************************************************)
(* From a student's hostel application to the key of the room: the         *)
(* application, the charge of its booking, the payments against it and the *)
(* allocation (hostel/services, hostel/views, finance).  Beds themselves   *)
(* are the matter of HostelBeds: here an allocation has none.  Applications *)
(* are all for one academic session, but the officer's form may allocate   *)
(* for any, so an allocation is for the session applied for or another.    *)
(*                                                                         *)
(* A service that locks its row and re-reads it is one action.  The others *)
(* hold what they read in `mem' between their database statements: an      *)
(* application that is checked and then inserted, a charge looked up and   *)
(* then created, a payment whose reference is looked up before its row is  *)
(* inserted and its fee, as fetched, saved, and an allocation form that    *)
(* writes the application it fetched.  The process may die in between.     *)
(***************************************************************************)
EXTENDS Integers, FiniteSets, FiniteSetsExt

CONSTANTS
  Students,
  Apps,         \* primary keys for HostelApplication rows
  Allocations,  \* primary keys for HostelAllocation rows
  Fees,         \* primary keys for StudentFee rows
  Refs,         \* references of payments
  Workers,
  Due,          \* the amount_due of a booking's charge
  Cash,         \* what an officer records at the counter
  Policies      \* the active HostelPolicy and kind of gateway key that may be

ASSUME AmountAssumption == Due \in Nat \ {0} /\ Cash \in Nat \ {0}
ASSUME KeyAssumption ==
  /\ IsFiniteSet(Fees) /\ IsFiniteSet(Refs) /\ IsFiniteSet(Workers)
  /\ "none" \notin Students \cup Apps \cup Allocations \cup Fees

VARIABLES
  policy,
  apps, allocs, fees,
  refs,    \* what each reference stands for and its FeePayment rows
  mem      \* what a worker has read

vars == <<policy, apps, allocs, fees, refs, mem>>

None == "none"
ApplicationStatus == {"pending", "approved", "rejected", "confirmed", "cancelled"}
LiveApplication == {"pending", "approved"}
LiveAllocation == {"reserved", "active"}
Applied == "applied"
Sessions == {Applied, "other"}

NoApp == [status |-> None, student |-> None, allocation |-> None, verified |-> "no"]
NoAllocation == [status |-> None, student |-> None, session |-> None]
NoFee == [app |-> None, paid |-> 0]
NoRef == [state |-> None, app |-> None, fee |-> None, amount |-> 0, rows |-> 0]
Idle == [op |-> "idle"]

Init ==
  /\ policy \in Policies
  /\ apps = [p \in Apps |-> NoApp]
  /\ allocs = [a \in Allocations |-> NoAllocation]
  /\ fees = [f \in Fees |-> NoFee]
  /\ refs = [r \in Refs |-> NoRef]
  /\ mem = [w \in Workers |-> Idle]

Become(w, m) == mem' = [mem EXCEPT ![w] = m]

(* A worker dies, or refuses what it read.                                 *)
Drop(w) ==
  /\ mem[w] # Idle
  /\ Become(w, Idle)
  /\ UNCHANGED <<policy, apps, allocs, fees, refs>>

(***************************************************************************)
(* Applications.                                                           *)
(***************************************************************************)
Housed(s, y) ==
  \E a \in Allocations :
    allocs[a].student = s /\ allocs[a].session = y /\ allocs[a].status \in LiveAllocation

(* can_apply, of a student who passes the basic checks in an open window.  *)
CanApply(s) ==
  /\ ~\E p \in Apps : apps[p].student = s /\ apps[p].status \in LiveApplication
  /\ ~Housed(s, Applied)

Apply(w, s) ==
  /\ mem[w] = Idle /\ CanApply(s)
  /\ Become(w, [op |-> "apply", student |-> s])
  /\ UNCHANGED <<policy, apps, allocs, fees, refs>>

(* The insert of submit_application: nothing is checked again.             *)
Submit(w, p) ==
  /\ mem[w].op = "apply" /\ apps[p] = NoApp
  /\ apps' = [apps EXCEPT ![p] = [NoApp EXCEPT !.status = "pending", !.student = mem[w].student]]
  /\ Become(w, Idle)
  /\ UNCHANGED <<policy, allocs, fees, refs>>

Reviewable(p) == apps[p].status = "pending"

Review(p) ==
  /\ Reviewable(p)
  /\ \E next \in {"approved", "rejected"} : apps' = [apps EXCEPT ![p].status = next]
  /\ UNCHANGED <<policy, allocs, fees, refs, mem>>

(***************************************************************************)
(* Charges and payments.                                                   *)
(***************************************************************************)
Charges(p) == {f \in Fees : fees[f].app = p}

PaidOn(F) == SumFunctionOnSet([f \in Fees |-> fees[f].paid], F)

StudentFees(s) == {f \in Fees : fees[f] # NoFee /\ apps[fees[f].app].student = s}

(* Mutant: a booking is not told from the student's others.                *)
AllFeesFor(s, p, y) == StudentFees(s)

(* _fees_for: the booking's own charges when the stay is for the session   *)
(* applied for, or else every hostel fee of the student.  No fee           *)
(* configuration names a structure: hostel fees go by their names.         *)
FeesFor(s, p, y) ==
  IF p # None /\ y = Applied THEN Charges(p) \cap StudentFees(s) ELSE StudentFees(s)

(* payment_satisfied; a stay nobody has raised a charge for passes.  A fee *)
(* the office marked overdue refuses as well: then nothing happens.        *)
Satisfied(s, p, y) ==
  LET F == FeesFor(s, p, y)
      due == Due * Cardinality(F)
  IN  \/ ~policy.required
      \/ due = 0
      \/ IF policy.partial THEN 5 * PaidOn(F) >= 3 * due ELSE PaidOn(F) >= due

(* hostel_pay_initiate, up to the get of ensure_charge; it raises when the *)
(* booking has two charges.                                                *)
PayInitiate(w, p) ==
  /\ mem[w] = Idle /\ apps[p].status = "approved"
  /\ \/ /\ Charges(p) = {}
        /\ Become(w, [op |-> "charge", app |-> p])
     \/ \E f \in Fees :
          /\ Charges(p) = {f}
          /\ Become(w, [op |-> "pay", app |-> p, fee |-> f, seen |-> fees[f].paid])
  /\ UNCHANGED <<policy, apps, allocs, fees, refs>>

(* The create of ensure_charge.                                            *)
EnsureCharge(w, f) ==
  /\ mem[w].op = "charge" /\ fees[f] = NoFee
  /\ fees' = [fees EXCEPT ![f] = [app |-> mem[w].app, paid |-> 0]]
  /\ Become(w, [op |-> "pay", app |-> mem[w].app, fee |-> f, seen |-> 0])
  /\ UNCHANGED <<policy, apps, allocs, refs>>

Issue(w, r, state) ==
  /\ mem[w].op = "pay" /\ mem[w].seen < Due
  /\ refs[r] = NoRef
  /\ refs' = [refs EXCEPT ![r] = [state |-> state, app |-> mem[w].app, fee |-> mem[w].fee,
                                  amount |-> Due - mem[w].seen, rows |-> 0]]
  /\ UNCHANGED <<policy, apps, allocs, fees>>

(* A checkout of the balance is opened at the gateway.                     *)
Initialize(w, r) ==
  /\ ~policy.test
  /\ Issue(w, r, "open")
  /\ Become(w, Idle)

(* With a test key the charge is completed on the spot, and the gateway,   *)
(* which never saw the reference, will not confirm it again.               *)
SimulateTestPayment(w, r) ==
  /\ policy.test
  /\ Issue(w, r, "test")
  /\ Become(w, [op |-> "record", fee |-> mem[w].fee, seen |-> mem[w].seen, ref |-> r])

(* The student pays at the gateway.                                        *)
Pay(r) ==
  /\ refs[r].state = "open"
  /\ refs' = [refs EXCEPT ![r].state = "paid"]
  /\ UNCHANGED <<policy, apps, allocs, fees, mem>>

(* Mutant: the reference is not looked up.                                 *)
NeverDone(r) == FALSE

Done(r) == refs[r].rows > 0

(* A paid reference arrives and record_external_payment looks it up.       *)
Arrive(w, r, f) ==
  /\ mem[w] = Idle /\ refs[r].state = "paid"
  /\ Become(w, IF Done(r) THEN [op |-> "verify", app |-> refs[r].app]
               ELSE [op |-> "record", fee |-> f, seen |-> fees[f].paid, ref |-> r])
  /\ UNCHANGED <<policy, apps, allocs, fees, refs>>

(* The browser's return finds the fee by the metadata of the transaction;  *)
(* the webhook, which the gateway repeats, by ensure_charge.               *)
PayCallback(w, r) == Arrive(w, r, refs[r].fee)
PayWebhook(w, r) == \E f \in Fees : Charges(refs[r].app) = {f} /\ Arrive(w, r, f)

(* record_payment: an officer's receipt against the fee as fetched.        *)
RecordPayment(w, r, f) ==
  /\ mem[w] = Idle /\ fees[f] # NoFee /\ refs[r] = NoRef
  /\ refs' = [refs EXCEPT ![r] = [state |-> "cash", app |-> fees[f].app, fee |-> f,
                                  amount |-> Cash, rows |-> 0]]
  /\ Become(w, [op |-> "record", fee |-> f, seen |-> fees[f].paid, ref |-> r])
  /\ UNCHANGED <<policy, apps, allocs, fees>>

(* The FeePayment row is inserted.                                         *)
InsertPayment(w) ==
  /\ mem[w].op = "record"
  /\ refs' = [refs EXCEPT ![mem[w].ref].rows = @ + 1]
  /\ Become(w, [mem[w] EXCEPT !.op = "save"])
  /\ UNCHANGED <<policy, apps, allocs, fees>>

(* Mutant: the amount is added to what the row holds after it was saved.   *)
CreditTwice(m) == m.seen + 2 * refs[m.ref].amount

Credited(m) == m.seen + refs[m.ref].amount

(* fee.save: the amount paid as this worker knows it.                      *)
SaveFee(w) ==
  /\ mem[w].op = "save"
  /\ fees' = [fees EXCEPT ![mem[w].fee].paid = Credited(mem[w])]
  /\ LET r == mem[w].ref
     IN Become(w, IF refs[r].state = "cash" THEN Idle ELSE [op |-> "verify", app |-> refs[r].app])
  /\ UNCHANGED <<policy, apps, allocs, refs>>

MarkPaymentVerified(w) ==
  /\ mem[w].op = "verify"
  /\ LET p == mem[w].app
     IN apps' = IF apps[p].status = "approved" /\ Satisfied(apps[p].student, p, Applied)
                THEN [apps EXCEPT ![p].verified = "yes"] ELSE apps
  /\ Become(w, Idle)
  /\ UNCHANGED <<policy, allocs, fees, refs>>

(***************************************************************************)
(* Allocations.                                                            *)
(***************************************************************************)
(* AllocationForm: the officer's student and session, and an approved      *)
(* application, of whichever student, or none.                             *)
OpenAllocationForm(w, s, y) ==
  /\ mem[w] = Idle /\ ~Housed(s, y)
  /\ \E p \in {q \in Apps : apps[q].status = "approved"} \cup {None} :
       Become(w, [op |-> "allocate", student |-> s, session |-> y, app |-> p,
                  row |-> IF p = None THEN NoApp ELSE apps[p]])
  /\ UNCHANGED <<policy, apps, allocs, fees, refs>>

(* allocate_bed, which saves the application as the form fetched it.       *)
AllocateBed(w, a) ==
  /\ mem[w].op = "allocate" /\ allocs[a] = NoAllocation
  /\ ~Housed(mem[w].student, mem[w].session)
  /\ allocs' = [allocs EXCEPT ![a] = [status |-> "reserved", student |-> mem[w].student,
                                      session |-> mem[w].session]]
  /\ apps' = [p \in Apps |->
       IF p = mem[w].app THEN [mem[w].row EXCEPT !.status = "confirmed", !.allocation = a]
       ELSE apps[p]]
  /\ Become(w, Idle)
  /\ UNCHANGED <<policy, fees, refs>>

(* The application an allocation belongs to.                               *)
ApplicationOf(a) ==
  IF \E p \in Apps : apps[p].allocation = a
  THEN CHOOSE p \in Apps : apps[p].allocation = a ELSE None

CheckIn(a) ==
  /\ allocs[a].status = "reserved"
  /\ Satisfied(allocs[a].student, ApplicationOf(a), allocs[a].session)
  /\ allocs' = [allocs EXCEPT ![a].status = "active"]
  /\ UNCHANGED <<policy, apps, fees, refs, mem>>

(* checkout, and expire_reservation, which leaves the application as it is. *)
Leave(a) ==
  /\ allocs[a].status \in LiveAllocation
  /\ allocs' = [allocs EXCEPT ![a].status =
       IF allocs[a].status = "active" THEN "checked_out" ELSE "expired"]
  /\ UNCHANGED <<policy, apps, fees, refs, mem>>

CancelAllocation(a) ==
  /\ allocs[a].status \in LiveAllocation
  /\ allocs' = [allocs EXCEPT ![a].status = "cancelled"]
  /\ apps' = [p \in Apps |-> IF apps[p].allocation = a
                             THEN [apps[p] EXCEPT !.status = "cancelled"] ELSE apps[p]]
  /\ UNCHANGED <<policy, fees, refs, mem>>

(* complete_transfer: the new allocation has no application.               *)
CompleteTransfer(old, new) ==
  LET s == allocs[old].student
      y == allocs[old].session
  IN  /\ allocs[old] # NoAllocation /\ allocs[new] = NoAllocation
      /\ ~\E a \in Allocations \ {old} :
           allocs[a].student = s /\ allocs[a].session = y /\ allocs[a].status \in LiveAllocation
      /\ allocs' = [allocs EXCEPT
           ![old].status = IF @ \in LiveAllocation THEN "checked_out" ELSE @,
           ![new] = [status |-> "reserved", student |-> s, session |-> y]]
      /\ UNCHANGED <<policy, apps, fees, refs, mem>>

(***************************************************************************)
(* The specification.                                                      *)
(***************************************************************************)
ApplicationStep(w) ==
  \/ \E s \in Students : Apply(w, s) \/ \E y \in Sessions : OpenAllocationForm(w, s, y)
  \/ \E p \in Apps : Submit(w, p) \/ PayInitiate(w, p)
  \/ \E a \in Allocations : AllocateBed(w, a)

PaymentStep(w) ==
  \/ \E f \in Fees : EnsureCharge(w, f)
  \/ \E r \in Refs : \/ Initialize(w, r) \/ SimulateTestPayment(w, r)
                     \/ PayCallback(w, r) \/ PayWebhook(w, r)
                     \/ \E f \in Fees : RecordPayment(w, r, f)
  \/ InsertPayment(w) \/ SaveFee(w) \/ MarkPaymentVerified(w) \/ Drop(w)

AllocationStep(a) ==
  \/ CheckIn(a) \/ Leave(a) \/ CancelAllocation(a)
  \/ \E c \in Allocations : CompleteTransfer(a, c)

Next ==
  \/ \E w \in Workers : ApplicationStep(w) \/ PaymentStep(w)
  \/ \E p \in Apps : Review(p)
  \/ \E r \in Refs : Pay(r)
  \/ \E a \in Allocations : AllocationStep(a)

Spec == Init /\ [][Next]_vars

(***************************************************************************)
(* Properties.                                                             *)
(***************************************************************************)
(* Rows keep their types, and what a row or a worker refers to exists.     *)
TypeOK ==
  /\ \A p \in Apps : apps[p] = NoApp \/ (/\ apps[p].status \in ApplicationStatus
                                        /\ apps[p].student \in Students
                                        /\ apps[p].verified \in {"yes", "no"}
                                        /\ \/ apps[p].allocation = None
                                           \/ allocs[apps[p].allocation] # NoAllocation)
  /\ \A f \in Fees : fees[f] = NoFee \/ (/\ apps[fees[f].app] # NoApp
                                        /\ fees[f].paid \in Nat)
  /\ \A r \in Refs : refs[r] = NoRef \/ (/\ fees[refs[r].fee].app = refs[r].app
                                        /\ refs[r].amount \in 1..(Due + Cash)
                                        /\ refs[r].rows \in 0..Cardinality(Workers))
  /\ \A a, c \in Apps : apps[a].allocation = apps[c].allocation => a = c \/ apps[a].allocation = None

(* What the FeePayment rows of a charge add up to.                         *)
Recorded(f) ==
  SumFunctionOnSet(
    [r \in Refs |-> IF refs[r].fee = f THEN refs[r].rows * refs[r].amount ELSE 0], Refs)

(* A charge never shows more paid than the payment rows recorded against   *)
(* it, whichever callbacks, webhooks and officers overwrite each other's   *)
(* total and wherever they die.                                            *)
PaidIsBacked == \A f \in Fees : fees[f].paid <= Recorded(f)

(* A charge that payment rows of its own cover to the 60 % a part payment  *)
(* must reach.                                                             *)
Covered(f) == 5 * Recorded(f) >= 3 * Due

(* Where payment is required, nobody moves in on totals that no payments   *)
(* stand behind.  A stay for the session its student applied for needs     *)
(* payments for that booking: "a paid-off previous stay can never satisfy  *)
(* a fresh booking".  One for another session, or without an application   *)
(* as after a transfer, needs a paid charge of the student's, whichever    *)
(* booking that was.                                                       *)
CheckedInOnPayments ==
  [][\A a \in Allocations :
       LET p == ApplicationOf(a)
           s == allocs[a].student
           scoped == p # None /\ allocs[a].session = Applied
       IN  allocs[a].status = "reserved" /\ allocs'[a].status = "active" /\ policy.required
           => /\ (scoped /\ apps[p].student = s /\ Charges(p) # {}
                    => \E f \in Charges(p) : Covered(f))
              /\ (~scoped /\ StudentFees(s) # {} => \E f \in StudentFees(s) : Covered(f))]_vars

(* record_external_payment is "Idempotent per reference".                  *)
OncePerReference == \A r \in Refs : refs[r].rows <= 1

(***************************************************************************)
(* Inductive strengthening.                                                *)
(***************************************************************************)
Application == [status : ApplicationStatus, student : Students,
                allocation : Allocations \cup {None}, verified : {"yes", "no"}]
Allocation == [status : LiveAllocation \cup {"checked_out", "expired", "cancelled"},
               student : Students, session : Sessions]
Charge == [app : Apps, paid : Nat]
Reference == [state : {"open", "paid", "test", "cash"}, app : Apps, fee : Fees,
              amount : 1..(Due + Cash), rows : Nat]
Copy == {Idle}
  \cup [op : {"apply"}, student : Students]
  \cup [op : {"charge", "verify"}, app : Apps]
  \cup [op : {"pay"}, app : Apps, fee : Fees, seen : Nat]
  \cup [op : {"record", "save"}, fee : Fees, seen : Nat, ref : Refs]
  \cup [op : {"allocate"}, student : Students, session : Sessions, app : {None}, row : {NoApp}]
  \cup [op : {"allocate"}, student : Students, session : Sessions, app : Apps, row : Application]

Typed ==
  /\ apps \in [Apps -> Application \cup {NoApp}]
  /\ allocs \in [Allocations -> Allocation \cup {NoAllocation}]
  /\ fees \in [Fees -> Charge \cup {NoFee}]
  /\ refs \in [Refs -> Reference \cup {NoRef}]
  /\ mem \in [Workers -> Copy]

(* What rows and workers refer to: nothing is ever deleted.                *)
Refers ==
  /\ \A p \in Apps : apps[p].allocation # None =>
       /\ allocs[apps[p].allocation] # NoAllocation
       /\ \A q \in Apps : apps[q].allocation = apps[p].allocation => q = p
  /\ \A f \in Fees : fees[f] # NoFee => apps[fees[f].app] # NoApp
  /\ \A r \in Refs : refs[r] # NoRef => fees[refs[r].fee].app = refs[r].app
  /\ \A w \in Workers :
       /\ mem[w].op \in {"charge", "verify"} => apps[mem[w].app] # NoApp
       /\ mem[w].op = "pay" => fees[mem[w].fee].app = mem[w].app
       /\ mem[w].op \in {"record", "save"} => refs[mem[w].ref].fee = mem[w].fee

(* A reference that has no row yet may be recorded by every worker that    *)
(* looked it up, and by no other.                                          *)
Recorders(r) == {w \in Workers : mem[w].op = "record" /\ mem[w].ref = r}
RowsOwed ==
  \A r \in Refs : refs[r].rows + Cardinality(Recorders(r)) <= Cardinality(Workers)

(* What a worker is about to save is backed as well as what is saved.      *)
Backed ==
  /\ PaidIsBacked
  /\ \A w \in Workers :
       /\ mem[w].op \in {"pay", "record"} => mem[w].seen <= Recorded(mem[w].fee)
       /\ mem[w].op = "save" => Credited(mem[w]) <= Recorded(mem[w].fee)

LedgerInv == Typed /\ Refers /\ RowsOwed /\ Backed
=============================================================================
