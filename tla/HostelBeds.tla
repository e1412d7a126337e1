----------------------------- MODULE HostelBeds -----------------------------
(***************************************************************************)
(* Beds of the hostels and what binds them: allocations, transfers and     *)
(* maintenance records (hostel/services, hostel/models).                   *)
(*                                                                         *)
(* Each service locks its rows in one transaction and re-reads them, so it *)
(* is one action; a refusal rolls back and changes nothing.  Two things do *)
(* not: a transfer request trusts the allocation its view fetched, and the *)
(* expiry sweep lists reservations first and expires each in a transaction *)
(* of its own.  What the finance, policy and eligibility components answer *)
(* (charges settled, transfers allowed) may be either at any moment: an    *)
(* operation they refuse is the action not taken.                          *)
(***************************************************************************)
CONSTANTS
  Beds, Students, Sessions,
  Allocations,  \* primary keys for HostelAllocation rows
  Transfers,    \* primary keys for HostelTransfer rows
  Records       \* primary keys for BedMaintenance rows

VARIABLES
  state,      \* the state of each HostelBed
  allocs,     \* the HostelAllocation rows
  transfers,  \* the HostelTransfer rows
  records,    \* the BedMaintenance rows
  due,        \* reservations past their reservation_expires_at
  sweep       \* reservations that running sweeps have listed and not reached

vars == <<state, allocs, transfers, records, due, sweep>>

NoRow == "no row"
BedState == {"available", "held", "reserved", "occupied", "maintenance", "blocked"}
LIVE_ALLOCATION_STATUSES == {"reserved", "active"}
Closed == {"cancelled", "expired", "checked_out"}
OpenTransfer == {"pending", "approved"}
ClosedTransfer == {"rejected", "cancelled", "completed"}

AllocationRows == [status : LIVE_ALLOCATION_STATUSES \cup Closed,
                   student : Students, bed : Beds, session : Sessions]
TransferRows == [status : OpenTransfer \cup ClosedTransfer, old : Allocations, bed : Beds]
RecordRows == [status : {"ongoing", "completed"}, bed : Beds]

NoAllocation == [status |-> NoRow, student |-> NoRow, bed |-> NoRow, session |-> NoRow]
NoTransfer == [status |-> NoRow, old |-> NoRow, bed |-> NoRow]
NoRecord == [status |-> NoRow, bed |-> NoRow]

Live(a) == allocs[a].status \in LIVE_ALLOCATION_STATUSES

Ongoing(b) == \E r \in Records : records[r].status = "ongoing" /\ records[r].bed = b

(* Mutant: the student's other allocations are not looked at.              *)
ConflictBed(s, b, y, but) ==
  \E a \in Allocations : Live(a) /\ allocs[a].session = y /\ allocs[a].bed = b

(* The live allocation, other than `but', that stands against a new one of *)
(* this student or this bed: the queries, and the two partial unique       *)
(* constraints behind them.                                                *)
Conflict(s, b, y, but) ==
  \E a \in Allocations :
    /\ Live(a) /\ allocs[a].session = y
    /\ \/ allocs[a].student = s /\ a \notin but
       \/ allocs[a].bed = b

(* Mutant: a reservation starts with the status of an application.         *)
PendingReservation(s, b, y) == [status |-> "pending", student |-> s, bed |-> b, session |-> y]

Reservation(s, b, y) == [status |-> "reserved", student |-> s, bed |-> b, session |-> y]

Init ==
  /\ state = [b \in Beds |-> "available"]
  /\ allocs = [a \in Allocations |-> NoAllocation]
  /\ transfers = [t \in Transfers |-> NoTransfer]
  /\ records = [r \in Records |-> NoRecord]
  /\ due = {} /\ sweep = {}

(***************************************************************************)
(* Allocations.                                                            *)
(***************************************************************************)
Allocate(a, s, b, y) ==
  /\ allocs[a] = NoAllocation
  /\ state[b] = "available"
  /\ ~Conflict(s, b, y, {})
  /\ allocs' = [allocs EXCEPT ![a] = Reservation(s, b, y)]
  /\ state' = [state EXCEPT ![b] = "reserved"]
  /\ UNCHANGED <<transfers, records, due, sweep>>

(* The allocation ends; its bed is released if it is in one of the states  *)
(* `from'.  Only of a reservation is the expiry ever read: `due' forgets a. *)
Close(a, status, from) ==
  LET b == allocs[a].bed
  IN  /\ allocs' = [allocs EXCEPT ![a].status = status]
      /\ due' = due \ {a}
      /\ state' = IF state[b] \in from THEN [state EXCEPT ![b] = "available"] ELSE state

CancelAllocation(a) ==
  /\ Live(a)
  /\ Close(a, "cancelled", {"reserved", "occupied"})
  /\ UNCHANGED <<transfers, records, sweep>>

(* check_in; the reservation may be overdue.                               *)
CheckIn(a) ==
  /\ allocs[a].status = "reserved"
  /\ state[allocs[a].bed] \in {"reserved", "available"}
  /\ allocs' = [allocs EXCEPT ![a].status = "active"]
  /\ state' = [state EXCEPT ![allocs[a].bed] = "occupied"]
  /\ due' = due \ {a}
  /\ UNCHANGED <<transfers, records, sweep>>

Checkout(a) ==
  /\ allocs[a].status = "active"
  /\ Close(a, "checked_out", {"occupied"})
  /\ UNCHANGED <<transfers, records, sweep>>

(* The clock passes reservation_expires_at.                                *)
Lapse(a) ==
  /\ allocs[a].status = "reserved" /\ a \notin due
  /\ due' = due \cup {a}
  /\ UNCHANGED <<state, allocs, transfers, records, sweep>>

(* Mutant: the query asks for reservations whose bed is free.              *)
DueOnFreeBeds == {a \in due : state[allocs[a].bed] = "available"}

(* The query of expire_due_reservations.                                   *)
DueReservations == {a \in due : allocs[a].status = "reserved"}

(* Sweeps, of the command and of the views, may overlap.                   *)
StartSweep ==
  /\ ~(DueReservations \subseteq sweep)
  /\ sweep' = sweep \cup DueReservations
  /\ UNCHANGED <<state, allocs, transfers, records, due>>

(* Mutant: the listed reservation is not read again.                       *)
StaleExpirable(a) == TRUE

Expirable(a) == allocs[a].status = "reserved"

(* expire_reservation of a listed allocation: it is read again.            *)
ExpireReservation(a) ==
  /\ a \in sweep
  /\ sweep' = sweep \ {a}
  /\ IF Expirable(a) THEN Close(a, "expired", {"reserved"})
     ELSE UNCHANGED <<state, allocs, due>>
  /\ UNCHANGED <<transfers, records>>

(* The process of a sweep dies, or one row's failure is logged and skipped. *)
SkipRows ==
  /\ \E left \in SUBSET sweep : left # sweep /\ sweep' = left
  /\ UNCHANGED <<state, allocs, transfers, records, due>>

(***************************************************************************)
(* Beds.                                                                   *)
(***************************************************************************)
SetBed(b, from, to) ==
  /\ state[b] \in from
  /\ state' = [state EXCEPT ![b] = to]
  /\ UNCHANGED <<allocs, transfers, records, due, sweep>>

HoldBed(b) == SetBed(b, {"available"}, "held")
ReleaseHold(b) == SetBed(b, {"held"}, "available")
Block(b) == SetBed(b, {"available", "held", "maintenance"}, "blocked")
Unblock(b) == SetBed(b, {"blocked"}, "available")

(***************************************************************************)
(* Transfers.                                                              *)
(***************************************************************************)
(* request_transfer: the new bed is refreshed, but the old allocation is as *)
(* hostel_transfer_request fetched it.  Every row was live once, so every   *)
(* row may pass that check, closed or not by now.                           *)
RequestTransfer(t, a, b) ==
  /\ transfers[t] = NoTransfer /\ allocs[a] # NoAllocation
  /\ state[b] = "available"
  /\ transfers' = [transfers EXCEPT ![t] = [status |-> "pending", old |-> a, bed |-> b]]
  /\ UNCHANGED <<state, allocs, records, due, sweep>>

(* review_transfer and cancel_transfer.                                    *)
Decide(t) ==
  /\ \E next \in {"approved", "rejected", "cancelled"} :
       /\ transfers[t].status = "pending" \/ (transfers[t].status = "approved" /\ next = "cancelled")
       /\ transfers' = [transfers EXCEPT ![t].status = next]
  /\ UNCHANGED <<state, allocs, records, due, sweep>>

(* Mutant: the old allocation is left to be closed by hand.                *)
KeepOld(a) == allocs

(* The rows once the old allocation of a transfer is closed.               *)
CloseOld(a) == IF Live(a) THEN [allocs EXCEPT ![a].status = "checked_out"] ELSE allocs

(* complete_transfer: the old allocation need not be live any more.        *)
CompleteTransfer(t, a) ==
  LET old == transfers[t].old
      b   == transfers[t].bed
  IN  /\ transfers[t].status = "approved"
      /\ allocs[a] = NoAllocation
      /\ state[b] = "available"
      /\ ~Conflict(allocs[old].student, b, allocs[old].session, {old})
      /\ allocs' = [CloseOld(old) EXCEPT
           ![a] = Reservation(allocs[old].student, b, allocs[old].session)]
      /\ state' = [c \in Beds |-> IF c = b THEN "reserved"
                                  ELSE IF Live(old) /\ c = allocs[old].bed THEN "available"
                                  ELSE state[c]]
      /\ transfers' = [transfers EXCEPT ![t].status = "completed"]
      /\ due' = due \ {old}
      /\ UNCHANGED <<records, sweep>>

(***************************************************************************)
(* Maintenance.                                                            *)
(***************************************************************************)
StartMaintenance(r, b) ==
  /\ records[r] = NoRecord
  /\ state[b] \notin {"occupied", "reserved"}
  /\ records' = [records EXCEPT ![r] = [status |-> "ongoing", bed |-> b]]
  /\ state' = [state EXCEPT ![b] = "maintenance"]
  /\ UNCHANGED <<allocs, transfers, due, sweep>>

(* Mutant: only the record that changes is looked at.                       *)
SyncThis(b, ongoing) ==
  IF ongoing
  THEN state[b] \notin {"occupied", "reserved"} /\ state' = [state EXCEPT ![b] = "maintenance"]
  ELSE state' = IF state[b] = "maintenance" THEN [state EXCEPT ![b] = "available"]
                ELSE state

(* _sync_bed_state, with the records as they are after the change; it      *)
(* raises, and the change rolls back, when the bed is in use.  Callers bind *)
(* `b' with \E: it names the bed of the record as it was.                   *)
Sync(b, ongoing) ==
  IF ongoing \/ Ongoing(b)'
  THEN /\ state[b] \notin {"occupied", "reserved"}
       /\ state' = [state EXCEPT ![b] = "maintenance"]
  ELSE state' = IF state[b] = "maintenance" THEN [state EXCEPT ![b] = "available"]
                ELSE state

(* complete_maintenance and update_status, from any status to any.         *)
UpdateMaintenance(r) ==
  /\ records[r] # NoRecord
  /\ \E b \in {records[r].bed}, status \in {"ongoing", "completed"} :
       /\ records' = [records EXCEPT ![r].status = status]
       /\ Sync(b, status = "ongoing")
  /\ UNCHANGED <<allocs, transfers, due, sweep>>

DeleteMaintenance(r) ==
  /\ records[r] # NoRecord
  /\ records' = [records EXCEPT ![r] = NoRecord]
  /\ \E b \in {records[r].bed} : Sync(b, FALSE)
  /\ UNCHANGED <<allocs, transfers, due, sweep>>

(***************************************************************************)
(* The specification.                                                      *)
(***************************************************************************)
AllocationStep(a) ==
  \/ \E s \in Students, b \in Beds, y \in Sessions : Allocate(a, s, b, y)
  \/ CancelAllocation(a) \/ CheckIn(a) \/ Checkout(a)
  \/ Lapse(a) \/ ExpireReservation(a)

BedStep(b) == HoldBed(b) \/ ReleaseHold(b) \/ Block(b) \/ Unblock(b)

TransferStep(t) ==
  \/ \E a \in Allocations, b \in Beds : RequestTransfer(t, a, b)
  \/ Decide(t)
  \/ \E a \in Allocations : CompleteTransfer(t, a)

MaintenanceStep(r) ==
  \/ \E b \in Beds : StartMaintenance(r, b)
  \/ UpdateMaintenance(r) \/ DeleteMaintenance(r)

Next ==
  \/ \E a \in Allocations : AllocationStep(a)
  \/ \E b \in Beds : BedStep(b)
  \/ \E t \in Transfers : TransferStep(t)
  \/ \E r \in Records : MaintenanceStep(r)
  \/ StartSweep \/ SkipRows

Spec == Init /\ [][Next]_vars

(* The command is scheduled again and again, and is not killed every time  *)
(* before it reaches a given row.                                          *)
SweepFairness ==
  /\ WF_vars(StartSweep)
  /\ \A a \in Allocations : SF_vars(ExpireReservation(a))

FairSpec == Spec /\ SweepFairness

(***************************************************************************)
(* Properties.                                                             *)
(***************************************************************************)
References ==
  \A t \in Transfers : transfers[t] # NoTransfer => allocs[transfers[t].old] # NoAllocation

(* Every row keeps its type, and a transfer refers to an allocation.       *)
TypeOK ==
  /\ state \in [Beds -> BedState]
  /\ allocs \in [Allocations -> AllocationRows \cup {NoAllocation}]
  /\ transfers \in [Transfers -> TransferRows \cup {NoTransfer}]
  /\ References
  /\ records \in [Records -> RecordRows \cup {NoRecord}]
  /\ due \in SUBSET Allocations
  /\ sweep \in SUBSET Allocations

Stands(b, status) == \E a \in Allocations : allocs[a].status = status /\ allocs[a].bed = b

(* Beds and allocations agree: a bed is marked reserved exactly when a     *)
(* reservation stands on it, occupied exactly when a resident does, and no *)
(* two live allocations share it in any session: no bed leaks when its     *)
(* stay ends and none is given away under a stay.                          *)
BedsAgree ==
  /\ \A b \in Beds :
       /\ state[b] = "reserved" <=> Stands(b, "reserved")
       /\ state[b] = "occupied" <=> Stands(b, "active")
  /\ \A a, c \in Allocations : Live(a) /\ Live(c) /\ allocs[a].bed = allocs[c].bed => a = c

OutOfUse == {"maintenance", "blocked"}

(* Only when the last of a bed's records ends may the bed be let: in       *)
(* whatever order records are opened, completed, reopened and deleted, no  *)
(* step takes a bed with an ongoing record out of MAINTENANCE or BLOCKED,  *)
(* but for the one that lifts a block (set_bed_blocked reads no record).   *)
LetAfterRecords ==
  [][\A b \in Beds :
       state[b] \in OutOfUse /\ state'[b] \notin OutOfUse /\ Ongoing(b)' => Unblock(b)]_vars

(* "the original allocation stays historically traceable": a closed        *)
(* allocation is never reopened, whatever late sweep, transfer or check-in *)
(* reaches it.                                                             *)
HistoryStands ==
  [][\A a \in Allocations : allocs[a].status \in Closed => allocs'[a] = allocs[a]]_vars

(* The stays that the live allocations stand for.                          *)
stays == {[bed |-> allocs[a].bed, student |-> allocs[a].student,
           session |-> allocs[a].session] : a \in {c \in Allocations : Live(c)}}

Promise == INSTANCE BedStays
             WITH Beds <- Beds, Students <- Students, Sessions <- Sessions, stays <- stays

(* Allocations, check-ins, transfers and sweeps keep the hostel's promise: *)
(* one stay per bed, one per student and session, and a transfer moves the *)
(* stay in one step.                                                       *)
KeepsPromise == Promise!Spec

(* An overdue reservation does not keep its bed for ever: it is expired,   *)
(* unless something else closes it or the student checks in.               *)
OverdueReleased ==
  \A a \in Allocations :
    (a \in due /\ allocs[a].status = "reserved") ~> (allocs[a].status # "reserved")
=============================================================================
