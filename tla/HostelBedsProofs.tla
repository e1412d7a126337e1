-------------------------- MODULE HostelBedsProofs --------------------------
(***************************************************************************)
(* Theorems about HostelBeds for any beds, students, sessions and rows.    *)
(***************************************************************************)
EXTENDS HostelBeds, TLAPS

(* NoRow is no stored status, so an absent row is in no status the guards  *)
(* ask for.                                                                *)
LEMMA AllocationFields ==
  ASSUME allocs \in [Allocations -> AllocationRows \cup {NoAllocation}],
         NEW a \in Allocations
  PROVE  /\ allocs[a] # NoAllocation =>
              /\ allocs[a] \in AllocationRows
              /\ allocs[a].student \in Students /\ allocs[a].bed \in Beds
              /\ allocs[a].session \in Sessions
         /\ allocs[a].status \in LIVE_ALLOCATION_STATUSES \cup Closed => allocs[a] # NoAllocation
<1>1. NoAllocation.status \notin LIVE_ALLOCATION_STATUSES \cup Closed
  BY DEF NoAllocation, NoRow, LIVE_ALLOCATION_STATUSES, Closed
<1>2. allocs[a] # NoAllocation => allocs[a] \in AllocationRows
  OBVIOUS
<1>3. QED BY <1>1, <1>2 DEF AllocationRows

(* A row keeps its type, and no row vanishes, when its status changes.     *)
LEMMA StatusType ==
  ASSUME allocs \in [Allocations -> AllocationRows \cup {NoAllocation}],
         NEW a \in Allocations, allocs[a] # NoAllocation,
         NEW s \in LIVE_ALLOCATION_STATUSES \cup Closed
  PROVE  /\ [allocs EXCEPT ![a].status = s]
              \in [Allocations -> AllocationRows \cup {NoAllocation}]
         /\ \A c \in Allocations :
              allocs[c] # NoAllocation => [allocs EXCEPT ![a].status = s][c] # NoAllocation
<1>1. allocs[a] \in AllocationRows
  OBVIOUS
<1>2. [allocs[a] EXCEPT !.status = s] \in AllocationRows
  BY <1>1 DEF AllocationRows
<1>3. NoAllocation \notin AllocationRows
  BY DEF NoAllocation, NoRow, AllocationRows, LIVE_ALLOCATION_STATUSES, Closed
<1>4. QED BY <1>2, <1>3

(* Transfers keep their allocations when no allocation vanishes.           *)
LEMMA ReferencesStand ==
  ASSUME TypeOK, UNCHANGED transfers,
         \A a \in Allocations : allocs[a] # NoAllocation => allocs'[a] # NoAllocation
  PROVE  References'
<1>1. ASSUME NEW t \in Transfers, transfers[t] # NoTransfer
      PROVE  transfers[t].old \in Allocations
  BY <1>1 DEF TypeOK, TransferRows
<1>2. QED BY <1>1 DEF TypeOK, References

(* Closing an allocation of the table keeps every type.                    *)
LEMMA CloseType ==
  ASSUME TypeOK, NEW a \in Allocations, allocs[a] # NoAllocation,
         NEW s \in Closed, NEW from, Close(a, s, from), UNCHANGED transfers
  PROVE  /\ allocs' \in [Allocations -> AllocationRows \cup {NoAllocation}]
         /\ References'
         /\ state' \in [Beds -> BedState] /\ due' \in SUBSET Allocations
<1>1. /\ allocs' \in [Allocations -> AllocationRows \cup {NoAllocation}]
      /\ \A c \in Allocations : allocs[c] # NoAllocation => allocs'[c] # NoAllocation
  BY StatusType DEF Close, TypeOK
<1>2. state' \in [Beds -> BedState] /\ due' \in SUBSET Allocations
  BY DEF Close, TypeOK, BedState
<1>3. QED BY <1>1, <1>2, ReferencesStand

(* The types of an allocation's own steps.                                 *)
LEMMA AllocationTypes ==
  ASSUME TypeOK, NEW a \in Allocations, AllocationStep(a)
  PROVE  TypeOK'
<1>1. ASSUME NEW s \in Students, NEW b \in Beds, NEW y \in Sessions, Allocate(a, s, b, y)
      PROVE  TypeOK'
  <2>1. Reservation(s, b, y) \in AllocationRows
    BY DEF Reservation, AllocationRows, LIVE_ALLOCATION_STATUSES
  <2>2. NoAllocation \notin AllocationRows
    BY DEF NoAllocation, NoRow, AllocationRows, LIVE_ALLOCATION_STATUSES, Closed
  <2>3. References'
    BY <1>1, <2>1, <2>2, ReferencesStand DEF Allocate, TypeOK
  <2>4. QED BY <1>1, <2>1, <2>3 DEF Allocate, TypeOK, BedState
<1>2. CASE CancelAllocation(a)
  <2>1. allocs[a] # NoAllocation
    BY <1>2, AllocationFields DEF CancelAllocation, Live, TypeOK
  <2>2. QED BY <1>2, <2>1, CloseType DEF CancelAllocation, TypeOK, Closed
<1>3. CASE CheckIn(a)
  <2>1. allocs[a] # NoAllocation
    BY <1>3, AllocationFields DEF CheckIn, TypeOK, LIVE_ALLOCATION_STATUSES
  <2>2. /\ allocs' \in [Allocations -> AllocationRows \cup {NoAllocation}]
        /\ \A c \in Allocations : allocs[c] # NoAllocation => allocs'[c] # NoAllocation
    BY <1>3, <2>1, StatusType DEF CheckIn, TypeOK, LIVE_ALLOCATION_STATUSES
  <2>3. References'
    BY <1>3, <2>2, ReferencesStand DEF CheckIn
  <2>4. QED BY <1>3, <2>2, <2>3 DEF CheckIn, TypeOK, BedState
<1>4. CASE Checkout(a)
  <2>1. allocs[a] # NoAllocation
    BY <1>4, AllocationFields DEF Checkout, TypeOK, LIVE_ALLOCATION_STATUSES
  <2>2. QED BY <1>4, <2>1, CloseType DEF Checkout, TypeOK, Closed
<1>5. CASE Lapse(a)
  BY <1>5 DEF Lapse, TypeOK, References
<1>6. CASE ExpireReservation(a)
  <2>1. CASE Expirable(a)
    <3>1. allocs[a] # NoAllocation
      BY <2>1, AllocationFields DEF Expirable, TypeOK, LIVE_ALLOCATION_STATUSES
    <3>2. QED BY <1>6, <2>1, <3>1, CloseType DEF ExpireReservation, TypeOK, Closed
  <2>2. CASE ~Expirable(a)
    BY <1>6, <2>2 DEF ExpireReservation, TypeOK, References
  <2>3. QED BY <2>1, <2>2
<1>7. QED BY <1>1, <1>2, <1>3, <1>4, <1>5, <1>6 DEF AllocationStep

(* An absent transfer has none of the statuses that the services ask for.  *)
LEMMA AbsentTransfer == NoTransfer.status \notin {"pending", "approved"}
BY DEF NoTransfer, NoRow

(* What an approved transfer refers to.                                    *)
LEMMA TransferFields ==
  ASSUME TypeOK, NEW t \in Transfers, transfers[t] # NoTransfer
  PROVE  /\ transfers[t] \in TransferRows
         /\ transfers[t].old \in Allocations /\ transfers[t].bed \in Beds
         /\ allocs[transfers[t].old] \in AllocationRows
         /\ allocs[transfers[t].old] # NoAllocation
BY DEF TypeOK, TransferRows, References

(* The types of a transfer's steps.                                        *)
LEMMA TransferTypes ==
  ASSUME TypeOK, NEW t \in Transfers, TransferStep(t)
  PROVE  TypeOK'
<1>1. ASSUME NEW a \in Allocations, NEW b \in Beds, RequestTransfer(t, a, b)
      PROVE  TypeOK'
  <2>1. [status |-> "pending", old |-> a, bed |-> b] \in TransferRows
    BY DEF TransferRows, OpenTransfer
  <2>2. transfers' \in [Transfers -> TransferRows \cup {NoTransfer}] /\ References'
    BY <1>1, <2>1 DEF RequestTransfer, TypeOK, References
  <2>3. QED BY <1>1, <2>2 DEF RequestTransfer, TypeOK
<1>2. CASE Decide(t)
  <2>1. PICK s \in {"approved", "rejected", "cancelled"} :
          /\ transfers[t].status \in {"pending", "approved"}
          /\ transfers' = [transfers EXCEPT ![t].status = s]
    BY <1>2 DEF Decide
  <2>2. transfers[t] # NoTransfer
    BY <2>1, AbsentTransfer
  <2>3. [transfers[t] EXCEPT !.status = s] \in TransferRows
    BY <2>1, <2>2, TransferFields DEF TransferRows, OpenTransfer, ClosedTransfer
  <2>4. transfers'[t].old = transfers[t].old
    BY <2>1, <2>2, TransferFields DEF TypeOK, TransferRows
  <2>5. References'
    BY <1>2, <2>1, <2>2, <2>4 DEF Decide, References, TypeOK
  <2>6. QED BY <1>2, <2>1, <2>3, <2>5 DEF Decide, TypeOK
<1>3. ASSUME NEW a \in Allocations, CompleteTransfer(t, a)
      PROVE  TypeOK'
  <2> DEFINE old == transfers[t].old
             b == transfers[t].bed
             new == Reservation(allocs[old].student, b, allocs[old].session)
  <2>1. transfers[t] # NoTransfer
    BY <1>3, AbsentTransfer DEF CompleteTransfer
  <2>2. /\ CloseOld(old) \in [Allocations -> AllocationRows \cup {NoAllocation}]
        /\ \A c \in Allocations : allocs[c] # NoAllocation => CloseOld(old)[c] # NoAllocation
    BY <2>1, TransferFields, StatusType DEF CloseOld, TypeOK, Closed
  <2>3. new \in AllocationRows /\ new # NoAllocation
    BY <2>1, TransferFields, AllocationFields
    DEF TypeOK, Reservation, AllocationRows, LIVE_ALLOCATION_STATUSES, NoAllocation, NoRow
  <2>4. allocs' = [CloseOld(old) EXCEPT ![a] = new]
    BY <1>3 DEF CompleteTransfer
  <2>5. /\ allocs' \in [Allocations -> AllocationRows \cup {NoAllocation}]
        /\ \A c \in Allocations : allocs[c] # NoAllocation => allocs'[c] # NoAllocation
    BY <2>2, <2>3, <2>4
  <2>6. state' \in [Beds -> BedState]
    BY <1>3 DEF CompleteTransfer, TypeOK, BedState
  <2>7. [transfers[t] EXCEPT !.status = "completed"] \in TransferRows
    BY <2>1, TransferFields DEF TransferRows, ClosedTransfer
  <2>8. transfers' \in [Transfers -> TransferRows \cup {NoTransfer}]
    BY <1>3, <2>7 DEF CompleteTransfer, TypeOK
  <2>9. \A u \in Transfers :
          transfers'[u] # NoTransfer => transfers[u] # NoTransfer /\ transfers'[u].old = transfers[u].old
    BY <1>3, <2>1, TransferFields DEF CompleteTransfer, TypeOK, TransferRows
  <2>10. References'
    BY <2>5, <2>9, TransferFields DEF References
  <2>11. QED BY <1>3, <2>5, <2>6, <2>8, <2>10 DEF CompleteTransfer, TypeOK
<1>4. QED BY <1>1, <1>2, <1>3 DEF TransferStep

(* Synchronising a bed keeps its state a bed state.                        *)
LEMMA SyncType ==
  ASSUME state \in [Beds -> BedState], NEW b, NEW ongoing, Sync(b, ongoing)
  PROVE  state' \in [Beds -> BedState]
<1>1. CASE state' = state
  BY <1>1
<1>2. CASE state' # state
  BY <1>2 DEF Sync, BedState
<1>3. QED BY <1>1, <1>2

(* The types of a maintenance record's steps.                              *)
LEMMA MaintenanceTypes ==
  ASSUME TypeOK, NEW r \in Records, MaintenanceStep(r)
  PROVE  TypeOK'
<1>1. state' \in [Beds -> BedState]
  <2>1. ASSUME NEW b \in Beds, StartMaintenance(r, b)
        PROVE  state' \in [Beds -> BedState]
    BY <2>1 DEF StartMaintenance, TypeOK, BedState
  <2>2. CASE UpdateMaintenance(r)
    BY <2>2, SyncType DEF UpdateMaintenance, TypeOK
  <2>3. CASE DeleteMaintenance(r)
    BY <2>3, SyncType DEF DeleteMaintenance, TypeOK
  <2>4. QED BY <2>1, <2>2, <2>3 DEF MaintenanceStep
<1>2. records' \in [Records -> RecordRows \cup {NoRecord}]
  <2>1. ASSUME NEW b \in Beds, StartMaintenance(r, b)
        PROVE  records' \in [Records -> RecordRows \cup {NoRecord}]
    <3>1. [status |-> "ongoing", bed |-> b] \in RecordRows
      BY DEF RecordRows
    <3>2. QED BY <2>1, <3>1 DEF StartMaintenance, TypeOK
  <2>2. CASE UpdateMaintenance(r)
    <3>1. PICK s \in {"ongoing", "completed"} : records' = [records EXCEPT ![r].status = s]
      BY <2>2 DEF UpdateMaintenance
    <3>2. records[r] \in RecordRows
      BY <2>2 DEF UpdateMaintenance, TypeOK
    <3>3. [records[r] EXCEPT !.status = s] \in RecordRows
      BY <3>2 DEF RecordRows
    <3>4. QED BY <3>1, <3>3 DEF TypeOK
  <2>3. CASE DeleteMaintenance(r)
    BY <2>3 DEF DeleteMaintenance, TypeOK
  <2>4. QED BY <2>1, <2>2, <2>3 DEF MaintenanceStep
<1>3. UNCHANGED <<allocs, transfers, due, sweep>>
  BY DEF MaintenanceStep, StartMaintenance, UpdateMaintenance, DeleteMaintenance
<1>4. QED BY <1>1, <1>2, <1>3 DEF TypeOK, References

(* Every step keeps the types.                                             *)
LEMMA TypeStep == TypeOK /\ [Next]_vars => TypeOK'
<1> SUFFICES ASSUME TypeOK, [Next]_vars
             PROVE  TypeOK'
  OBVIOUS
<1>1. ASSUME NEW b \in Beds, BedStep(b)
      PROVE  TypeOK'
  BY <1>1 DEF BedStep, HoldBed, ReleaseHold, Block, Unblock, SetBed, TypeOK, References, BedState
<1>2. CASE StartSweep \/ SkipRows
  BY <1>2 DEF StartSweep, SkipRows, DueReservations, TypeOK, References
<1>3. CASE UNCHANGED vars
  BY <1>3 DEF vars, TypeOK, References
<1>4. QED BY <1>1, <1>2, <1>3, AllocationTypes, TransferTypes, MaintenanceTypes DEF Next

(* Rows, references and bookkeeping are well typed in every reachable      *)
(* state.                                                                  *)
THEOREM TypeCorrect == Spec => []TypeOK
<1>1. Init => TypeOK
  BY DEF Init, TypeOK, References, BedState
<1>2. QED BY <1>1, TypeStep, PTL DEF Spec

(***************************************************************************)
(* Beds and allocations agree.                                             *)
(***************************************************************************)
(* A step that touches no allocation and leaves the beds in use alone      *)
(* keeps the agreement.                                                    *)
LEMMA BedsUntouched ==
  ASSUME BedsAgree, UNCHANGED allocs,
         \A b \in Beds : /\ state'[b] = "reserved" <=> state[b] = "reserved"
                         /\ state'[b] = "occupied" <=> state[b] = "occupied"
  PROVE  BedsAgree'
BY DEF BedsAgree, Stands, Live

(* A bed that is neither reserved nor occupied has no live allocation, and *)
(* the bed of a live one is marked with its status.                        *)
LEMMA LiveBed ==
  ASSUME TypeOK, BedsAgree, NEW a \in Allocations, Live(a)
  PROVE  /\ allocs[a] \in AllocationRows /\ allocs[a].bed \in Beds
         /\ allocs[a].status = "reserved" => state[allocs[a].bed] = "reserved"
         /\ allocs[a].status = "active" => state[allocs[a].bed] = "occupied"
         /\ allocs[a].status \in {"reserved", "active"}
<1>1. allocs[a] # NoAllocation /\ allocs[a] \in AllocationRows /\ allocs[a].bed \in Beds
  BY AllocationFields DEF TypeOK, Live
<1>2. QED BY <1>1 DEF BedsAgree, Stands, Live, LIVE_ALLOCATION_STATUSES

(* Changing the status of one allocation changes nothing else of any.      *)
LEMMA NewStatus ==
  ASSUME TypeOK, NEW a \in Allocations, allocs[a] \in AllocationRows, NEW s,
         allocs' = [allocs EXCEPT ![a].status = s]
  PROVE  /\ allocs'[a].status = s
         /\ allocs'[a].bed = allocs[a].bed
         /\ allocs'[a].student = allocs[a].student
         /\ allocs'[a].session = allocs[a].session
         /\ \A c \in Allocations : c # a => allocs'[c] = allocs[c]
BY DEF TypeOK, AllocationRows

(* A live allocation that ends gives its bed back.                         *)
LEMMA CloseAgrees ==
  ASSUME TypeOK, BedsAgree, NEW a \in Allocations, Live(a),
         NEW s \in Closed, NEW from, Close(a, s, from),
         state[allocs[a].bed] \in from
  PROVE  BedsAgree'
<1> DEFINE b == allocs[a].bed
<1>1. /\ b \in Beds /\ allocs[a] \in AllocationRows
  BY LiveBed
<1>2. state' = [state EXCEPT ![b] = "available"]
  BY DEF Close
<1>3. /\ allocs'[a].status = s /\ allocs'[a].bed = b
      /\ \A c \in Allocations : c # a => allocs'[c] = allocs[c]
  BY <1>1, NewStatus DEF Close
<1>4. s \notin {"reserved", "active"}
  BY DEF Closed
<1>5. \A c \in Allocations : Live(c)' <=> c # a /\ Live(c)
  BY <1>3, <1>4 DEF Live, LIVE_ALLOCATION_STATUSES
<1>6. \A c \in Allocations : c # a /\ Live(c) => allocs[c].bed # b
  BY DEF BedsAgree
<1>7. ASSUME NEW c \in Beds
      PROVE  /\ state'[c] = "reserved" <=> Stands(c, "reserved")'
             /\ state'[c] = "occupied" <=> Stands(c, "active")'
  <2>1. CASE c = b
    <3>1. state'[c] = "available"
      BY <1>1, <1>2, <2>1 DEF TypeOK
    <3>2. \A d \in Allocations : allocs'[d].bed = c => allocs'[d].status \notin {"reserved", "active"}
      BY <1>3, <1>4, <1>6, <2>1 DEF Live, LIVE_ALLOCATION_STATUSES
    <3>3. QED BY <3>1, <3>2 DEF Stands
  <2>2. CASE c # b
    <3>1. state'[c] = state[c]
      BY <1>2, <2>2 DEF TypeOK
    <3>2. \A d \in Allocations : allocs'[d].bed = c => allocs'[d] = allocs[d]
      BY <1>3, <2>2
    <3>3. \A d \in Allocations : allocs[d].bed = c => allocs'[d] = allocs[d]
      BY <1>3, <2>2
    <3>4. QED BY <3>1, <3>2, <3>3 DEF Stands, BedsAgree
  <2>3. QED BY <2>1, <2>2
<1>8. \A c, d \in Allocations : Live(c)' /\ Live(d)' /\ allocs'[c].bed = allocs'[d].bed => c = d
  BY <1>3, <1>5 DEF BedsAgree
<1>9. QED BY <1>7, <1>8 DEF BedsAgree

(* A bed that is available is free of live allocations.                    *)
LEMMA AvailableIsFree ==
  ASSUME TypeOK, BedsAgree, NEW b \in Beds, state[b] = "available"
  PROVE  \A c \in Allocations : Live(c) => allocs[c].bed # b
BY LiveBed

(* An allocation's own steps keep the agreement.                           *)
LEMMA AllocationAgrees ==
  ASSUME TypeOK, BedsAgree, NEW a \in Allocations, AllocationStep(a)
  PROVE  BedsAgree'
<1>1. ASSUME NEW s \in Students, NEW b \in Beds, NEW y \in Sessions, Allocate(a, s, b, y)
      PROVE  BedsAgree'
  <2>1. /\ allocs'[a].status = "reserved" /\ allocs'[a].bed = b
        /\ \A c \in Allocations : c # a => allocs'[c] = allocs[c]
    BY <1>1 DEF Allocate, Reservation, TypeOK
  <2>2. /\ state'[b] = "reserved"
        /\ \A c \in Beds : c # b => state'[c] = state[c]
    BY <1>1 DEF Allocate, TypeOK
  <2>3. \A c \in Allocations : Live(c) => allocs[c].bed # b
    BY <1>1, AvailableIsFree DEF Allocate
  <2>4. ~Live(a)
    <3>1. allocs[a] = NoAllocation
      BY <1>1 DEF Allocate
    <3>2. QED BY <3>1, AllocationFields DEF Live, TypeOK
  <2>5. ASSUME NEW c \in Beds
        PROVE  /\ state'[c] = "reserved" <=> Stands(c, "reserved")'
               /\ state'[c] = "occupied" <=> Stands(c, "active")'
    <3>1. CASE c = b
      BY <2>1, <2>2, <2>3, <3>1 DEF Stands, Live, LIVE_ALLOCATION_STATUSES
    <3>2. CASE c # b
      BY <2>1, <2>2, <2>4, <3>2 DEF Stands, BedsAgree, Live, LIVE_ALLOCATION_STATUSES
    <3>3. QED BY <3>1, <3>2
  <2>6. \A c, d \in Allocations : Live(c)' /\ Live(d)' /\ allocs'[c].bed = allocs'[d].bed => c = d
    BY <2>1, <2>3 DEF BedsAgree, Live
  <2>7. QED BY <2>5, <2>6 DEF BedsAgree
<1>2. CASE CancelAllocation(a)
  BY <1>2, CloseAgrees, LiveBed DEF CancelAllocation, Closed
<1>3. CASE CheckIn(a)
  <2> DEFINE b == allocs[a].bed
  <2>1. Live(a)
    BY <1>3 DEF CheckIn, Live, LIVE_ALLOCATION_STATUSES
  <2>2. /\ allocs'[a].status = "active" /\ allocs'[a].bed = b /\ b \in Beds
        /\ \A c \in Allocations : c # a => allocs'[c] = allocs[c]
    BY <1>3, <2>1, LiveBed, NewStatus DEF CheckIn
  <2>3. /\ state'[b] = "occupied"
        /\ \A c \in Beds : c # b => state'[c] = state[c]
    BY <1>3, <2>2 DEF CheckIn, TypeOK
  <2>4. \A c \in Allocations : c # a /\ Live(c) => allocs[c].bed # b
    BY <2>1 DEF BedsAgree
  <2>5. ASSUME NEW c \in Beds
        PROVE  /\ state'[c] = "reserved" <=> Stands(c, "reserved")'
               /\ state'[c] = "occupied" <=> Stands(c, "active")'
    <3>1. CASE c = b
      BY <2>2, <2>3, <2>4, <3>1 DEF Stands, Live, LIVE_ALLOCATION_STATUSES
    <3>2. CASE c # b
      BY <2>2, <2>3, <3>2 DEF Stands, BedsAgree
    <3>3. QED BY <3>1, <3>2
  <2>6. \A c, d \in Allocations : Live(c)' /\ Live(d)' /\ allocs'[c].bed = allocs'[d].bed => c = d
    BY <2>1, <2>2 DEF BedsAgree, Live
  <2>7. QED BY <2>5, <2>6 DEF BedsAgree
<1>4. CASE Checkout(a)
  <2>1. Live(a)
    BY <1>4 DEF Checkout, Live, LIVE_ALLOCATION_STATUSES
  <2>2. QED BY <1>4, <2>1, CloseAgrees, LiveBed DEF Checkout, Closed
<1>5. CASE Lapse(a)
  BY <1>5, BedsUntouched DEF Lapse
<1>6. CASE ExpireReservation(a)
  <2>1. CASE Expirable(a)
    <3>1. Live(a)
      BY <2>1 DEF Expirable, Live, LIVE_ALLOCATION_STATUSES
    <3>2. QED BY <1>6, <2>1, <3>1, CloseAgrees, LiveBed DEF ExpireReservation, Expirable, Closed
  <2>2. CASE ~Expirable(a)
    BY <1>6, <2>2, BedsUntouched DEF ExpireReservation
  <2>3. QED BY <2>1, <2>2
<1>7. QED BY <1>1, <1>2, <1>3, <1>4, <1>5, <1>6 DEF AllocationStep

(* A transfer that is completed names an allocation and a bed.             *)
LEMMA CompletionFields ==
  ASSUME TypeOK, NEW t \in Transfers, NEW a \in Allocations, CompleteTransfer(t, a)
  PROVE  \E old \in Allocations, b \in Beds :
           /\ transfers[t].old = old /\ transfers[t].bed = b
           /\ allocs[old] \in AllocationRows /\ allocs[old] # NoAllocation
<1>1. transfers[t] # NoTransfer
  BY AbsentTransfer DEF CompleteTransfer
<1>2. QED BY <1>1, TransferFields

(* What completing a transfer does to allocations and beds.                *)
LEMMA Completion ==
  ASSUME TypeOK, BedsAgree, NEW t \in Transfers, NEW a \in Allocations, CompleteTransfer(t, a),
         NEW old \in Allocations, transfers[t].old = old,
         NEW b \in Beds, transfers[t].bed = b,
         allocs[old] \in AllocationRows, allocs[old] # NoAllocation
  PROVE  /\ a # old /\ ~Live(a) /\ ~Live(old)'
         /\ allocs'[a] = Reservation(allocs[old].student, b, allocs[old].session)
         /\ \A c \in Allocations : c # a /\ c # old => allocs'[c] = allocs[c]
         /\ \A c \in Allocations : Live(c) => allocs[c].bed # b
         /\ \A c \in Allocations : Live(c)' <=> c = a \/ (Live(c) /\ c # old)
<1>1. a # old /\ allocs[a] = NoAllocation
  BY DEF CompleteTransfer
<1>2. ~Live(a)
  BY <1>1, AllocationFields DEF Live, TypeOK
<1>3. allocs'[a] = Reservation(allocs[old].student, b, allocs[old].session)
  BY DEF CompleteTransfer, CloseOld, TypeOK
<1>4. \A c \in Allocations : c # a /\ c # old => allocs'[c] = allocs[c]
  BY DEF CompleteTransfer, CloseOld, TypeOK
<1>5. ~Live(old)'
  <2>1. CASE Live(old)
    <3>1. allocs'[old] = [allocs[old] EXCEPT !.status = "checked_out"]
      BY <1>1, <2>1 DEF CompleteTransfer, CloseOld, TypeOK
    <3>2. allocs'[old].status = "checked_out"
      BY <3>1 DEF AllocationRows
    <3>3. QED BY <3>2 DEF Live, LIVE_ALLOCATION_STATUSES
  <2>2. CASE ~Live(old)
    BY <1>1, <2>2 DEF CompleteTransfer, CloseOld, TypeOK, Live
  <2>3. QED BY <2>1, <2>2
<1>6. \A c \in Allocations : Live(c) => allocs[c].bed # b
  BY AvailableIsFree DEF CompleteTransfer
<1>7. \A c \in Allocations : Live(c)' <=> c = a \/ (Live(c) /\ c # old)
  BY <1>2, <1>3, <1>4, <1>5 DEF Live, Reservation, LIVE_ALLOCATION_STATUSES
<1>8. QED BY <1>1, <1>2, <1>3, <1>4, <1>5, <1>6, <1>7

(* A transfer's steps keep the agreement.                                  *)
LEMMA TransferAgrees ==
  ASSUME TypeOK, BedsAgree, NEW t \in Transfers, TransferStep(t)
  PROVE  BedsAgree'
<1>1. ASSUME NEW a \in Allocations, NEW b \in Beds, RequestTransfer(t, a, b)
      PROVE  BedsAgree'
  BY <1>1, BedsUntouched DEF RequestTransfer
<1>2. CASE Decide(t)
  BY <1>2, BedsUntouched DEF Decide
<1>3. ASSUME NEW a \in Allocations, CompleteTransfer(t, a)
      PROVE  BedsAgree'
  <2> PICK old \in Allocations, b \in Beds :
        /\ transfers[t].old = old /\ transfers[t].bed = b
        /\ allocs[old] \in AllocationRows /\ allocs[old] # NoAllocation
    BY <1>3, CompletionFields
  <2>1. /\ a # old /\ ~Live(a) /\ ~Live(old)'
        /\ allocs'[a] = Reservation(allocs[old].student, b, allocs[old].session)
        /\ \A c \in Allocations : c # a /\ c # old => allocs'[c] = allocs[c]
        /\ \A c \in Allocations : Live(c) => allocs[c].bed # b
        /\ \A c \in Allocations : Live(c)' <=> c = a \/ (Live(c) /\ c # old)
    BY <1>3, Completion
  <2>2. allocs'[a].bed = b /\ allocs'[a].status = "reserved"
    BY <2>1 DEF Reservation
  <2>3. /\ state'[b] = "reserved"
        /\ \A c \in Beds : c # b =>
             state'[c] = IF Live(old) /\ c = allocs[old].bed THEN "available" ELSE state[c]
    BY <1>3, <2>1 DEF CompleteTransfer
  <2>4. ASSUME NEW c \in Beds
        PROVE  /\ state'[c] = "reserved" <=> Stands(c, "reserved")'
               /\ state'[c] = "occupied" <=> Stands(c, "active")'
    <3>1. CASE c = b
      <4>1. \A d \in Allocations : d # a => ~(Live(d)' /\ allocs'[d].bed = c)
        BY <2>1, <3>1
      <4>2. QED BY <2>2, <2>3, <3>1, <4>1 DEF Stands, Live, LIVE_ALLOCATION_STATUSES
    <3>2. CASE c # b /\ Live(old) /\ c = allocs[old].bed
      <4>1. \A d \in Allocations : Live(d) /\ d # old => allocs[d].bed # c
        BY <2>1, <3>2 DEF BedsAgree
      <4>2. \A d \in Allocations : ~(Live(d)' /\ allocs'[d].bed = c)
        BY <2>1, <2>2, <3>2, <4>1
      <4>3. QED BY <2>3, <3>2, <4>2 DEF Stands, Live, LIVE_ALLOCATION_STATUSES
    <3>3. CASE c # b /\ ~(Live(old) /\ c = allocs[old].bed)
      <4>1. state'[c] = state[c]
        BY <2>3, <3>3
      <4>2. \A d \in Allocations : Live(d)' /\ allocs'[d].bed = c
                                     => Live(d) /\ allocs[d] = allocs'[d]
        BY <2>1, <2>2, <3>3
      <4>3. \A d \in Allocations : Live(d) /\ allocs[d].bed = c
                                     => Live(d)' /\ allocs[d] = allocs'[d]
        BY <2>1, <2>2, <3>3
      <4>4. QED BY <4>1, <4>2, <4>3 DEF Stands, BedsAgree, Live, LIVE_ALLOCATION_STATUSES
    <3>4. QED BY <3>1, <3>2, <3>3
  <2>5. \A c, d \in Allocations : Live(c)' /\ Live(d)' /\ allocs'[c].bed = allocs'[d].bed => c = d
    BY <2>1, <2>2 DEF BedsAgree
  <2>6. QED BY <2>4, <2>5 DEF BedsAgree
<1>4. QED BY <1>1, <1>2, <1>3 DEF TransferStep

(* A maintenance record's steps leave the beds in use alone.               *)
LEMMA MaintenanceAgrees ==
  ASSUME TypeOK, BedsAgree, NEW r \in Records, MaintenanceStep(r)
  PROVE  BedsAgree'
<1>1. UNCHANGED allocs
  BY DEF MaintenanceStep, StartMaintenance, UpdateMaintenance, DeleteMaintenance
<1> DEFINE InUse == {"reserved", "occupied"}
           Spared == \A c \in Beds : state'[c] # state[c] => state[c] \notin InUse /\ state'[c] \notin InUse
<1>2. Spared
  <2>1. ASSUME NEW b \in Beds, StartMaintenance(r, b)
        PROVE  Spared
    BY <2>1 DEF StartMaintenance, TypeOK
  <2>2. ASSUME NEW b, NEW ongoing, Sync(b, ongoing)
        PROVE  Spared
    <3>1. CASE state' = [state EXCEPT ![b] = "maintenance"] /\ state[b] \notin InUse
      BY <3>1 DEF TypeOK
    <3>2. CASE state' = [state EXCEPT ![b] = "available"] /\ state[b] = "maintenance"
      BY <3>2 DEF TypeOK
    <3>3. CASE state' = state
      BY <3>3
    <3>4. QED BY <2>2, <3>1, <3>2, <3>3 DEF Sync
  <2>3. QED BY <2>1, <2>2 DEF MaintenanceStep, UpdateMaintenance, DeleteMaintenance
<1>3. QED BY <1>1, <1>2, BedsUntouched

(* Every step keeps the agreement.                                         *)
LEMMA AgreementStep == TypeOK /\ BedsAgree /\ [Next]_vars => BedsAgree'
<1> SUFFICES ASSUME TypeOK, BedsAgree, [Next]_vars
             PROVE  BedsAgree'
  OBVIOUS
<1>1. ASSUME NEW b \in Beds, BedStep(b)
      PROVE  BedsAgree'
  BY <1>1, BedsUntouched DEF BedStep, HoldBed, ReleaseHold, Block, Unblock, SetBed, TypeOK
<1>2. CASE StartSweep \/ SkipRows
  BY <1>2, BedsUntouched DEF StartSweep, SkipRows
<1>3. CASE UNCHANGED vars
  BY <1>3, BedsUntouched DEF vars
<1>4. QED BY <1>1, <1>2, <1>3, AllocationAgrees, TransferAgrees, MaintenanceAgrees DEF Next

(* A bed is reserved or occupied exactly when one live allocation says so, *)
(* for any number of beds, students, sessions and rows.                    *)
THEOREM BedsAlwaysAgree == Spec => []BedsAgree
<1>1. Init => BedsAgree
  <2>1. NoAllocation.status \notin {"reserved", "active"}
    BY DEF NoAllocation, NoRow
  <2>2. QED BY <2>1 DEF Init, BedsAgree, Stands, Live, LIVE_ALLOCATION_STATUSES
<1>2. QED BY <1>1, AgreementStep, TypeCorrect, PTL DEF Spec

(***************************************************************************)
(* Beds under maintenance are not let.                                     *)
(***************************************************************************)
(* No bed that is out of use is put back into use.                         *)
NoneReturns == \A b \in Beds : state[b] \in OutOfUse => state'[b] \in OutOfUse

(* Closing an allocation gives back a bed that was in use.                 *)
LEMMA CloseReturnsNone ==
  ASSUME TypeOK, NEW a, NEW s, NEW from, Close(a, s, from),
         from \subseteq {"reserved", "occupied"}
  PROVE  NoneReturns
BY DEF Close, NoneReturns, OutOfUse, TypeOK

(* Allocations, check-ins and sweeps only touch beds in use or available.  *)
LEMMA AllocationReturnsNone ==
  ASSUME TypeOK, NEW a \in Allocations, AllocationStep(a)
  PROVE  NoneReturns
<1>1. ASSUME NEW s \in Students, NEW b \in Beds, NEW y \in Sessions, Allocate(a, s, b, y)
      PROVE  NoneReturns
  BY <1>1 DEF Allocate, NoneReturns, OutOfUse, TypeOK
<1>2. CASE CancelAllocation(a)
  BY <1>2, CloseReturnsNone DEF CancelAllocation
<1>3. CASE CheckIn(a)
  BY <1>3 DEF CheckIn, NoneReturns, OutOfUse, TypeOK
<1>4. CASE Checkout(a)
  BY <1>4, CloseReturnsNone DEF Checkout
<1>5. CASE Lapse(a)
  BY <1>5 DEF Lapse, NoneReturns
<1>6. CASE ExpireReservation(a)
  BY <1>6, CloseReturnsNone DEF ExpireReservation, NoneReturns
<1>7. QED BY <1>1, <1>2, <1>3, <1>4, <1>5, <1>6 DEF AllocationStep

(* A transfer takes an available bed, and gives back the bed of an         *)
(* allocation that is still live.                                          *)
LEMMA TransferReturnsNone ==
  ASSUME TypeOK, BedsAgree, NEW t \in Transfers, TransferStep(t)
  PROVE  NoneReturns
<1>1. CASE UNCHANGED state
  BY <1>1 DEF NoneReturns
<1>2. ASSUME NEW a \in Allocations, CompleteTransfer(t, a)
      PROVE  NoneReturns
  <2> PICK old \in Allocations, b \in Beds : transfers[t].old = old /\ transfers[t].bed = b
    BY <1>2, CompletionFields
  <2>1. Live(old) => state[allocs[old].bed] \in {"reserved", "occupied"}
    BY LiveBed
  <2>2. /\ state[b] = "available"
        /\ \A c \in Beds : state'[c] = IF c = b THEN "reserved"
                                       ELSE IF Live(old) /\ c = allocs[old].bed THEN "available"
                                       ELSE state[c]
    BY <1>2 DEF CompleteTransfer
  <2>3. QED BY <2>1, <2>2 DEF NoneReturns, OutOfUse
<1>3. QED BY <1>1, <1>2 DEF TransferStep, RequestTransfer, Decide

(* Synchronising bed `b' leaves every other bed alone, and lets `b' only   *)
(* when no record of it is ongoing.                                        *)
LEMMA SyncLets ==
  ASSUME TypeOK, NEW b, NEW ongoing, Sync(b, ongoing), NEW c \in Beds,
         state[c] \in OutOfUse, state'[c] \notin OutOfUse
  PROVE  ~Ongoing(c)'
<1>1. CASE ongoing \/ Ongoing(b)'
  BY <1>1 DEF Sync, OutOfUse, TypeOK
<1>2. CASE ~(ongoing \/ Ongoing(b)')
  <2>1. c = b
    BY <1>2 DEF Sync, TypeOK
  <2>2. QED BY <1>2, <2>1
<1>3. QED BY <1>1, <1>2

(* What a step puts back into use has no ongoing record, or had a block.   *)
LEMMA LettingStep ==
  ASSUME TypeOK, BedsAgree, [Next]_vars, NEW c \in Beds,
         state[c] \in OutOfUse, state'[c] \notin OutOfUse, Ongoing(c)'
  PROVE  Unblock(c)
<1>1. ~NoneReturns
  BY DEF NoneReturns
<1>2. ASSUME NEW b \in Beds, BedStep(b)
      PROVE  Unblock(c)
  <2>1. CASE HoldBed(b) \/ ReleaseHold(b) \/ Block(b)
    BY <2>1 DEF HoldBed, ReleaseHold, Block, SetBed, OutOfUse, TypeOK
  <2>2. CASE Unblock(b)
    <3>1. c = b
      BY <2>2 DEF Unblock, SetBed, TypeOK
    <3>2. QED BY <2>2, <3>1
  <2>3. QED BY <1>2, <2>1, <2>2 DEF BedStep
<1>3. ASSUME NEW r \in Records, MaintenanceStep(r)
      PROVE  FALSE
  <2>1. ASSUME NEW b \in Beds, StartMaintenance(r, b)
        PROVE  FALSE
    BY <2>1 DEF StartMaintenance, OutOfUse, TypeOK
  <2>2. CASE UpdateMaintenance(r) \/ DeleteMaintenance(r)
    BY <2>2, SyncLets DEF UpdateMaintenance, DeleteMaintenance
  <2>3. QED BY <1>3, <2>1, <2>2 DEF MaintenanceStep
<1>4. CASE StartSweep \/ SkipRows \/ UNCHANGED vars
  BY <1>4 DEF StartSweep, SkipRows, vars
<1>5. QED BY <1>1, <1>2, <1>3, <1>4, AllocationReturnsNone, TransferReturnsNone DEF Next

(* LetAfterRecords of HostelBeds: for any beds and records, in any order   *)
(* of services, a bed is let behind an ongoing record only by lifting a    *)
(* block.                                                                  *)
THEOREM LetWhenTheLastRecordEnds == Spec => LetAfterRecords
<1>1. TypeOK /\ BedsAgree /\ [Next]_vars
        => [\A b \in Beds :
              state[b] \in OutOfUse /\ state'[b] \notin OutOfUse /\ Ongoing(b)' => Unblock(b)]_vars
  BY LettingStep
<1>2. QED BY <1>1, TypeCorrect, BedsAlwaysAgree, PTL DEF Spec, LetAfterRecords

(***************************************************************************)
(* The hostel's promise.                                                   *)
(***************************************************************************)
(* The stay that an allocation stands for while it is live.                *)
StayOf(a) == [bed |-> allocs[a].bed, student |-> allocs[a].student,
              session |-> allocs[a].session]

LEMMA StaysOfLive ==
  /\ stays = {StayOf(a) : a \in {c \in Allocations : Live(c)}}
  /\ stays' = {StayOf(a)' : a \in {c \in Allocations : Live(c)'}}
BY DEF stays, StayOf

(* When live allocations keep their beds and owners, the stays stand.      *)
LEMMA Stutter ==
  ASSUME \A a \in Allocations : Live(a)' <=> Live(a),
         \A a \in Allocations : Live(a) =>
           /\ allocs'[a].bed = allocs[a].bed /\ allocs'[a].student = allocs[a].student
           /\ allocs'[a].session = allocs[a].session
  PROVE  stays' = stays
<1>1. \A a \in Allocations : Live(a) => StayOf(a)' = StayOf(a)
  BY DEF StayOf
<1>2. QED BY <1>1, StaysOfLive

(* Closing a live allocation ends its stay, and no other.                  *)
LEMMA CloseEnds ==
  ASSUME TypeOK, BedsAgree, NEW a \in Allocations, Live(a),
         NEW s \in Closed, NEW from, Close(a, s, from)
  PROVE  Promise!Next
<1>1. allocs[a] \in AllocationRows
  BY LiveBed
<1>2. /\ allocs'[a].status = s
      /\ \A c \in Allocations : c # a => allocs'[c] = allocs[c]
  BY <1>1, NewStatus DEF Close
<1>3. \A c \in Allocations : Live(c)' <=> c # a /\ Live(c)
  BY <1>2 DEF Live, LIVE_ALLOCATION_STATUSES, Closed
<1>4. \A c \in Allocations : c # a => StayOf(c)' = StayOf(c)
  BY <1>2 DEF StayOf
<1>5. \A c \in Allocations : Live(c) /\ StayOf(c) = StayOf(a) => c = a
  BY DEF BedsAgree, StayOf
<1>6. StayOf(a) \in stays /\ stays' = stays \ {StayOf(a)}
  BY <1>3, <1>4, <1>5, StaysOfLive
<1>7. QED BY <1>6 DEF Promise!Next, Promise!End

(* A bed free of live allocations hosts no stay.                           *)
LEMMA FreeBed ==
  ASSUME NEW b \in Beds, \A c \in Allocations : Live(c) => allocs[c].bed # b
  PROVE  Promise!Free(b)
BY StaysOfLive DEF Promise!Free, StayOf

(* A student without conflict has no stay in the session.                  *)
LEMMA NoConflict ==
  ASSUME NEW s, NEW b, NEW y, NEW but, ~Conflict(s, b, y, but),
         \A a \in Allocations : Live(a) => a \notin but
  PROVE  Promise!Homeless(s, y)
BY StaysOfLive DEF Conflict, Promise!Homeless, StayOf

(* A new live allocation begins a stay.                                    *)
LEMMA NewBegins ==
  ASSUME NEW a \in Allocations, NEW s \in Students, NEW b \in Beds, NEW y \in Sessions,
         Promise!Free(b), Promise!Homeless(s, y),
         allocs'[a] = Reservation(s, b, y),
         \A c \in Allocations : Live(c)' <=> c = a \/ Live(c),
         \A c \in Allocations : Live(c) => allocs'[c] = allocs[c]
  PROVE  Promise!Next
<1> DEFINE p == [bed |-> b, student |-> s, session |-> y]
<1>1. StayOf(a)' = p
  BY DEF StayOf, Reservation
<1>2. \A c \in Allocations : Live(c) => StayOf(c)' = StayOf(c)
  BY DEF StayOf
<1>3. stays' = stays \cup {p}
  BY <1>1, <1>2, StaysOfLive
<1>4. p \in Promise!Stay
  BY DEF Promise!Stay
<1>5. Promise!Free(p.bed) /\ Promise!Homeless(p.student, p.session)
  OBVIOUS
<1>6. QED BY <1>3, <1>4, <1>5 DEF Promise!Next, Promise!Begin

(* An allocation's own steps begin or end a stay, or leave the stays.      *)
LEMMA AllocationKeeps ==
  ASSUME TypeOK, BedsAgree, NEW a \in Allocations, AllocationStep(a)
  PROVE  Promise!Next \/ stays' = stays
<1>1. ASSUME NEW s \in Students, NEW b \in Beds, NEW y \in Sessions, Allocate(a, s, b, y)
      PROVE  Promise!Next
  <2>1. /\ allocs'[a] = Reservation(s, b, y)
        /\ \A c \in Allocations : c # a => allocs'[c] = allocs[c]
    BY <1>1 DEF Allocate, TypeOK
  <2>2. ~Live(a)
    <3>1. allocs[a] = NoAllocation
      BY <1>1 DEF Allocate
    <3>2. QED BY <3>1, AllocationFields DEF Live, TypeOK
  <2>3. \A c \in Allocations : Live(c)' <=> c = a \/ Live(c)
    BY <2>1, <2>2 DEF Live, Reservation, LIVE_ALLOCATION_STATUSES
  <2>4. Promise!Free(b)
    BY <1>1, AvailableIsFree, FreeBed DEF Allocate
  <2>5. Promise!Homeless(s, y)
    BY <1>1, NoConflict DEF Allocate
  <2>6. \A c \in Allocations : Live(c) => allocs'[c] = allocs[c]
    BY <2>1, <2>2
  <2>7. QED BY <2>1, <2>3, <2>4, <2>5, <2>6, NewBegins
<1>2. CASE CancelAllocation(a)
  BY <1>2, CloseEnds DEF CancelAllocation, Closed
<1>3. CASE CheckIn(a)
  <2>1. Live(a)
    BY <1>3 DEF CheckIn, Live, LIVE_ALLOCATION_STATUSES
  <2>2. /\ allocs'[a].status = "active"
        /\ allocs'[a].bed = allocs[a].bed /\ allocs'[a].student = allocs[a].student
        /\ allocs'[a].session = allocs[a].session
        /\ \A c \in Allocations : c # a => allocs'[c] = allocs[c]
    BY <1>3, <2>1, LiveBed, NewStatus DEF CheckIn
  <2>3. \A c \in Allocations : Live(c)' <=> Live(c)
    BY <2>1, <2>2 DEF Live, LIVE_ALLOCATION_STATUSES
  <2>4. \A c \in Allocations : /\ allocs'[c].bed = allocs[c].bed
                               /\ allocs'[c].student = allocs[c].student
                               /\ allocs'[c].session = allocs[c].session
    BY <2>2
  <2>5. QED BY <2>3, <2>4, Stutter
<1>4. CASE Checkout(a)
  <2>1. Live(a)
    BY <1>4 DEF Checkout, Live, LIVE_ALLOCATION_STATUSES
  <2>2. QED BY <1>4, <2>1, CloseEnds DEF Checkout, Closed
<1>5. CASE Lapse(a)
  BY <1>5 DEF Lapse, stays, Live
<1>6. CASE ExpireReservation(a)
  <2>1. CASE Expirable(a)
    <3>1. Live(a)
      BY <2>1 DEF Expirable, Live, LIVE_ALLOCATION_STATUSES
    <3>2. QED BY <1>6, <2>1, <3>1, CloseEnds DEF ExpireReservation, Closed
  <2>2. CASE ~Expirable(a)
    BY <1>6, <2>2 DEF ExpireReservation, stays, Live
  <2>3. QED BY <2>1, <2>2
<1>7. QED BY <1>1, <1>2, <1>3, <1>4, <1>5, <1>6 DEF AllocationStep

(* A completed transfer moves the stay of a live allocation, and begins    *)
(* one when the old allocation is no longer live.                          *)
LEMMA TransferKeeps ==
  ASSUME TypeOK, BedsAgree, NEW t \in Transfers, TransferStep(t)
  PROVE  Promise!Next \/ stays' = stays
<1>1. ASSUME NEW a \in Allocations, NEW b \in Beds, RequestTransfer(t, a, b)
      PROVE  stays' = stays
  BY <1>1 DEF RequestTransfer, stays, Live
<1>2. CASE Decide(t)
  BY <1>2 DEF Decide, stays, Live
<1>3. ASSUME NEW a \in Allocations, CompleteTransfer(t, a)
      PROVE  Promise!Next
  <2>1. PICK old \in Allocations, b \in Beds :
          /\ transfers[t].old = old /\ transfers[t].bed = b
          /\ allocs[old] \in AllocationRows /\ allocs[old] # NoAllocation
    BY <1>3, CompletionFields
  <2>2. /\ a # old /\ ~Live(a) /\ ~Live(old)'
        /\ allocs'[a] = Reservation(allocs[old].student, b, allocs[old].session)
        /\ \A c \in Allocations : c # a /\ c # old => allocs'[c] = allocs[c]
        /\ \A c \in Allocations : Live(c) => allocs[c].bed # b
        /\ \A c \in Allocations : Live(c)' <=> c = a \/ (Live(c) /\ c # old)
    BY <1>3, <2>1, Completion
  <2>3. Promise!Free(b)
    BY <2>2, FreeBed
  <2>4. CASE Live(old)
    <3> DEFINE p == StayOf(old)
               q == [p EXCEPT !.bed = b]
    <3>1. p \in stays
      BY <2>4, StaysOfLive
    <3>2. StayOf(a)' = q
      BY <2>2 DEF StayOf, Reservation
    <3>3. \A c \in Allocations : c # a /\ c # old => StayOf(c)' = StayOf(c)
      BY <2>2 DEF StayOf
    <3>4. \A c \in Allocations : Live(c) /\ StayOf(c) = p => c = old
      BY <2>4 DEF BedsAgree, StayOf
    <3>5. stays' = (stays \ {p}) \cup {q}
      BY <2>2, <3>2, <3>3, <3>4, StaysOfLive
    <3>6. QED BY <2>3, <3>1, <3>5 DEF Promise!Next, Promise!Move
  <2>5. CASE ~Live(old)
    <3>1. ~Conflict(allocs[old].student, b, allocs[old].session, {old})
      BY <1>3, <2>1 DEF CompleteTransfer
    <3>2. Promise!Homeless(allocs[old].student, allocs[old].session)
      BY <2>5, <3>1, NoConflict
    <3>3. /\ allocs[old].student \in Students /\ allocs[old].session \in Sessions
      BY <2>1 DEF AllocationRows
    <3>4. /\ \A c \in Allocations : Live(c)' <=> c = a \/ Live(c)
          /\ \A c \in Allocations : Live(c) => allocs'[c] = allocs[c]
      BY <2>2, <2>5
    <3>5. QED BY <2>2, <2>3, <3>2, <3>3, <3>4, NewBegins
  <2>6. QED BY <2>4, <2>5
<1>4. QED BY <1>1, <1>2, <1>3 DEF TransferStep

(* Every step of the services is one step of the promise or none.          *)
LEMMA PromiseStep == TypeOK /\ BedsAgree /\ [Next]_vars => [Promise!Next]_stays
<1> SUFFICES ASSUME TypeOK, BedsAgree, [Next]_vars
             PROVE  Promise!Next \/ stays' = stays
  OBVIOUS
<1>1. ASSUME UNCHANGED allocs
      PROVE  stays' = stays
  BY <1>1 DEF stays, Live
<1>2. ASSUME NEW b \in Beds, BedStep(b)
      PROVE  UNCHANGED allocs
  BY <1>2 DEF BedStep, HoldBed, ReleaseHold, Block, Unblock, SetBed
<1>3. ASSUME NEW r \in Records, MaintenanceStep(r)
      PROVE  UNCHANGED allocs
  BY <1>3 DEF MaintenanceStep, StartMaintenance, UpdateMaintenance, DeleteMaintenance
<1>4. CASE StartSweep \/ SkipRows \/ UNCHANGED vars
  BY <1>1, <1>4 DEF StartSweep, SkipRows, vars
<1>5. QED BY <1>1, <1>2, <1>3, <1>4, AllocationKeeps, TransferKeeps DEF Next

(* The services implement the promise: one stay per bed, one per student   *)
(* and session, each begun, moved and ended as a whole.                    *)
THEOREM PromiseKept == Spec => KeepsPromise
<1>1. Init => Promise!Init
  <2>1. NoAllocation.status \notin LIVE_ALLOCATION_STATUSES
    BY DEF NoAllocation, NoRow, LIVE_ALLOCATION_STATUSES
  <2>2. QED BY <2>1 DEF Init, Promise!Init, stays, Live
<1>2. QED BY <1>1, PromiseStep, TypeCorrect, BedsAlwaysAgree, PTL DEF Spec, KeepsPromise, Promise!Spec

(***************************************************************************)
(* History.                                                                *)
(***************************************************************************)
(* No step touches a closed allocation: cancelling, check-in, check-out    *)
(* and the sweep each ask for a live one, and a completed transfer reads   *)
(* again whether the old one is.                                           *)
LEMMA ClosedStays ==
  ASSUME TypeOK, [Next]_vars, NEW c \in Allocations, allocs[c].status \in Closed
  PROVE  allocs'[c] = allocs[c]
<1>1. /\ NoAllocation.status \notin Closed
      /\ LIVE_ALLOCATION_STATUSES \cap Closed = {}
  BY DEF NoAllocation, NoRow, Closed, LIVE_ALLOCATION_STATUSES
<1>2. ~Live(c) /\ allocs[c] # NoAllocation /\ allocs \in [Allocations -> AllocationRows \cup {NoAllocation}]
  BY <1>1 DEF Live, TypeOK
<1>3. ASSUME NEW a \in Allocations, AllocationStep(a)
      PROVE  allocs'[c] = allocs[c]
  <2>1. ASSUME NEW s \in Students, NEW b \in Beds, NEW y \in Sessions, Allocate(a, s, b, y)
        PROVE  allocs'[c] = allocs[c]
    BY <1>2, <2>1 DEF Allocate
  <2>2. CASE CancelAllocation(a) \/ CheckIn(a) \/ Checkout(a)
    BY <1>2, <2>2 DEF CancelAllocation, CheckIn, Checkout, Close, Live, LIVE_ALLOCATION_STATUSES
  <2>3. CASE Lapse(a)
    BY <2>3 DEF Lapse
  <2>4. CASE ExpireReservation(a)
    BY <1>2, <2>4 DEF ExpireReservation, Expirable, Close, Live, LIVE_ALLOCATION_STATUSES
  <2>5. QED BY <1>3, <2>1, <2>2, <2>3, <2>4 DEF AllocationStep
<1>4. ASSUME NEW t \in Transfers, TransferStep(t)
      PROVE  allocs'[c] = allocs[c]
  <2>1. ASSUME NEW a \in Allocations, CompleteTransfer(t, a)
        PROVE  allocs'[c] = allocs[c]
    <3>1. a # c
      BY <1>2, <2>1 DEF CompleteTransfer
    <3>2. PICK old \in Allocations : transfers[t].old = old
      BY <2>1, CompletionFields
    <3>3. CloseOld(old)[c] = allocs[c]
      BY <1>2 DEF CloseOld
    <3>4. QED BY <2>1, <3>1, <3>2, <3>3 DEF CompleteTransfer
  <2>2. QED BY <1>4, <2>1 DEF TransferStep, RequestTransfer, Decide
<1>5. ASSUME NEW b \in Beds, BedStep(b)
      PROVE  allocs' = allocs
  BY <1>5 DEF BedStep, HoldBed, ReleaseHold, Block, Unblock, SetBed
<1>6. ASSUME NEW r \in Records, MaintenanceStep(r)
      PROVE  allocs' = allocs
  BY <1>6 DEF MaintenanceStep, StartMaintenance, UpdateMaintenance, DeleteMaintenance
<1>7. CASE StartSweep \/ SkipRows \/ UNCHANGED vars
  BY <1>7 DEF StartSweep, SkipRows, vars
<1>8. QED BY <1>3, <1>4, <1>5, <1>6, <1>7 DEF Next

(* HistoryStands of HostelBeds: whatever late sweep, transfer or check-in  *)
(* reaches a closed allocation, its row stays as it was closed.            *)
THEOREM HistoryIsKept == Spec => HistoryStands
<1>1. TypeOK /\ [Next]_vars
        => [\A a \in Allocations : allocs[a].status \in Closed => allocs'[a] = allocs[a]]_vars
  BY ClosedStays
<1>2. QED BY <1>1, TypeCorrect, PTL DEF Spec, HistoryStands
=============================================================================
