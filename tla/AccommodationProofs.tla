------------------------- MODULE AccommodationProofs -------------------------
(***************************************************************************)
(* Theorems about Accommodation for any students, applications, charges,   *)
(* references, workers and policies.                                       *)
(***************************************************************************)
EXTENDS Accommodation, SumTheorems

(* A sum of small values is small.                                         *)
LEMMA SumSmall ==
  ASSUME NEW F, NEW S, IsFiniteSet(S), NEW c \in Nat,
         \A x \in S : F[x] \in Nat /\ 5 * F[x] < c
  PROVE  \A s \in SUBSET S : s # {} => 5 * SumFunctionOnSet(F, s) < c * Cardinality(s)
<1> DEFINE Sum(s) == SumFunctionOnSet(F, s)
           T == {s \in SUBSET S : s # {} /\ ~(5 * Sum(s) < c * Cardinality(s))}
<1>1. SUFFICES ASSUME T # {} PROVE FALSE
  OBVIOUS
<1>2. PICK s \in T : \A t \in T : t \subseteq s => t = s
  <2>1. T \in SUBSET (SUBSET S)
    OBVIOUS
  <2> HIDE DEF T
  <2>2. QED BY <1>1, <2>1, SmallestSubset
<1>3. PICK x, r : x = Member(s) /\ r = s \ {x}
  OBVIOUS
<1>4. /\ x \in s /\ r \subseteq s /\ r # s /\ r \subseteq S /\ IsFiniteSet(s)
      /\ Sum(s) = F[x] + Sum(r) /\ F[x] \in Nat /\ 5 * F[x] < c
  BY <1>3, MemberType, SumRecursion, FS_Subset
<1>5. /\ Cardinality(r) = Cardinality(s) - 1 /\ Cardinality(s) \in Nat
      /\ Cardinality(r) \in Nat /\ Sum(r) \in Nat
  BY <1>4, <1>3, FS_RemoveElement, FS_CardinalityType, FS_Subset, SumType
<1>6. CASE r = {}
  <2>1. Sum(r) = 0 /\ Cardinality(r) = 0
    BY <1>4, <1>6, SumRecursion, FS_EmptySet
  <2>2. ~(5 * Sum(s) < c * Cardinality(s))
    BY <1>2
  <2>3. Cardinality(s) = 1
    BY <1>5, <2>1
  <2> HIDE DEF Sum
  <2>4. QED BY <1>4, <2>1, <2>2, <2>3
<1>7. CASE r # {}
  <2>1. 5 * Sum(r) < c * Cardinality(r)
    BY <1>2, <1>4, <1>7
  <2>2. ~(5 * Sum(s) < c * Cardinality(s))
    BY <1>2
  <2> HIDE DEF Sum
  <2>3. PICK n \in Nat, m \in Nat : n = Cardinality(r) /\ m = c * n
    BY <1>5
  <2>4. c * Cardinality(s) = m + c
    BY <1>5, <2>3
  <2>5. QED BY <1>4, <1>5, <2>1, <2>2, <2>3, <2>4
<1>8. QED BY <1>6, <1>7

(***************************************************************************)
(* Charges and what was recorded against them.                             *)
(***************************************************************************)
LEMMA AbsentRows ==
  /\ None \notin Apps /\ None \notin Fees /\ None \notin Allocations /\ None \notin Students
  /\ NoApp \notin Application /\ NoAllocation \notin Allocation
  /\ NoFee \notin Charge /\ NoRef \notin Reference
  /\ NoApp.allocation = None /\ NoFee.app = None /\ NoRef.fee = None
  /\ NoFee.paid = 0 /\ NoRef.rows = 0 /\ NoRef.amount = 0
BY KeyAssumption DEF None, NoApp, Application, ApplicationStatus, NoAllocation, Allocation,
   LiveAllocation, NoFee, Charge, NoRef, Reference

(* What reference r contributes to the payments recorded against f.        *)
Entries(f) == [r \in Refs |-> IF refs[r].fee = f THEN refs[r].rows * refs[r].amount ELSE 0]

LEMMA ReferenceType ==
  ASSUME Typed, NEW r \in Refs
  PROVE  /\ refs[r].rows \in Nat /\ refs[r].amount \in Nat
         /\ refs[r].rows * refs[r].amount \in Nat
         /\ refs[r] # NoRef => refs[r] \in Reference
         /\ refs[r].fee \in Fees => refs[r] # NoRef
<1>1. refs[r] # NoRef => refs[r] \in Reference
  BY DEF Typed
<1>2. refs[r].rows \in Nat /\ refs[r].amount \in Nat
  BY <1>1, AbsentRows, AmountAssumption DEF Reference
<1>3. refs[r].rows * refs[r].amount \in Nat
  BY <1>2
<1>4. QED BY <1>1, <1>2, <1>3, AbsentRows

LEMMA RecordedType ==
  ASSUME Typed, NEW f
  PROVE  Recorded(f) \in Nat /\ \A r \in Refs : Entries(f)[r] \in Nat
<1>1. \A r \in Refs : Entries(f)[r] \in Nat
  BY ReferenceType DEF Entries
<1>2. Recorded(f) = SumFunctionOnSet(Entries(f), Refs)
  BY DEF Recorded, Entries
<1>3. Refs \in SUBSET Refs /\ IsFiniteSet(Refs)
  BY KeyAssumption
<1>4. QED BY <1>1, <1>2, <1>3, SumType

(* References change their state, or are issued without a payment row.     *)
Quiet ==
  \A r \in Refs :
    \/ /\ refs'[r].fee = refs[r].fee /\ refs'[r].rows = refs[r].rows
       /\ refs'[r].amount = refs[r].amount
    \/ refs[r] = NoRef /\ refs'[r] \in Reference /\ refs'[r].rows = 0

LEMMA RecordedSame ==
  ASSUME Typed, Quiet, NEW f \in Fees
  PROVE  Recorded(f)' = Recorded(f)
<1>1. PICK F, G : F = Entries(f) /\ G = Entries(f)'
  OBVIOUS
<1>2. Recorded(f) = SumFunctionOnSet(F, Refs) /\ Recorded(f)' = SumFunctionOnSet(G, Refs)
  BY <1>1 DEF Recorded, Entries
<1>3. ASSUME NEW r \in Refs PROVE F[r] = G[r]
  <2>1. /\ F[r] = IF refs[r].fee = f THEN refs[r].rows * refs[r].amount ELSE 0
        /\ G[r] = IF refs'[r].fee = f THEN refs'[r].rows * refs'[r].amount ELSE 0
    BY <1>1 DEF Entries
  <2>2. CASE refs[r] = NoRef /\ refs'[r] \in Reference /\ refs'[r].rows = 0
    <3>1. refs'[r].amount \in Nat
      BY <2>2, AmountAssumption DEF Reference
    <3>2. F[r] = 0 /\ G[r] = 0
      BY <2>1, <2>2, <3>1, AbsentRows
    <3>3. QED BY <3>2
  <2>3. QED BY <2>1, <2>2 DEF Quiet
<1>4. QED BY <1>2, <1>3, SumSame, KeyAssumption

LEMMA RecordedMore ==
  ASSUME Typed, NEW r \in Refs, refs[r] \in Reference,
         refs' = [refs EXCEPT ![r].rows = @ + 1], NEW f \in Fees
  PROVE  Recorded(f)' = Recorded(f) + (IF refs[r].fee = f THEN refs[r].amount ELSE 0)
<1>1. PICK F, G : F = Entries(f) /\ G = Entries(f)'
  OBVIOUS
<1>2. Recorded(f) = SumFunctionOnSet(F, Refs) /\ Recorded(f)' = SumFunctionOnSet(G, Refs)
  BY <1>1 DEF Recorded, Entries
<1>3. PICK a, n, m : /\ a = (IF refs[r].fee = f THEN refs[r].amount ELSE 0)
                     /\ n = refs[r].rows /\ m = refs[r].amount
  OBVIOUS
<1>4. a \in Nat /\ n \in Nat /\ m \in Nat
  BY <1>3, ReferenceType
<1>5. /\ refs'[r].fee = refs[r].fee /\ refs'[r].amount = m /\ refs'[r].rows = n + 1
      /\ \A x \in Refs \ {r} : refs'[x] = refs[x]
  BY <1>3 DEF Typed, Reference
<1>6. \A x \in Refs \ {r} : F[x] = G[x]
  BY <1>1, <1>5 DEF Entries
<1>7. G[r] = F[r] + a /\ G[r] \in Nat
  <2>1. (n + 1) * m = n * m + m /\ n * m \in Nat
    BY <1>4
  <2>2. /\ F[r] = IF refs[r].fee = f THEN n * m ELSE 0
        /\ G[r] = IF refs[r].fee = f THEN (n + 1) * m ELSE 0
    BY <1>1, <1>3, <1>5 DEF Entries
  <2>3. QED BY <1>3, <1>4, <2>1, <2>2
<1>8. \A x \in Refs : F[x] \in Nat /\ G[x] \in Nat
  BY <1>1, <1>6, <1>7, RecordedType
<1>9. QED BY <1>2, <1>3, <1>4, <1>6, <1>7, <1>8, SumMore, KeyAssumption

(***************************************************************************)
(* What a copy relies on, and what every step keeps.                       *)
(***************************************************************************)
Holds(m) ==
  /\ m.op \in {"charge", "verify"} => apps[m.app] # NoApp
  /\ m.op = "pay" => fees[m.fee].app = m.app
  /\ m.op \in {"record", "save"} => refs[m.ref].fee = m.fee
  /\ m.op \in {"pay", "record"} => m.seen <= Recorded(m.fee)
  /\ m.op = "save" => Credited(m) <= Recorded(m.fee)

(* What rows refer to.                                                     *)
Linked ==
  /\ \A p \in Apps : apps[p].allocation # None =>
       /\ allocs[apps[p].allocation] # NoAllocation
       /\ \A q \in Apps : apps[q].allocation = apps[p].allocation => q = p
  /\ \A f \in Fees : fees[f] # NoFee => apps[fees[f].app] # NoApp
  /\ \A r \in Refs : refs[r] # NoRef => fees[refs[r].fee].app = refs[r].app

LEMMA LedgerParts ==
  LedgerInv <=> /\ Typed /\ Linked /\ RowsOwed /\ PaidIsBacked
                /\ \A w \in Workers : Holds(mem[w])
BY DEF LedgerInv, Refers, Backed, Linked, Holds

LEMMA IdleType == Idle \in Copy /\ Idle.op = "idle"
BY DEF Idle, Copy

(* A copy, by what it was fetched for.                                     *)
LEMMA CopyType ==
  ASSUME NEW m \in Copy
  PROVE  /\ m.op = "apply" => m.student \in Students
         /\ m.op \in {"charge", "verify", "pay"} => m.app \in Apps
         /\ m.op \in {"pay", "record", "save"} => m.fee \in Fees /\ m.seen \in Nat
         /\ m.op \in {"record", "save"} => m.ref \in Refs
         /\ m.op = "allocate" => /\ m.student \in Students /\ m.session \in Sessions
                                 /\ m.app # None => m.app \in Apps /\ m.row \in Application
BY DEF Copy, Idle

(* Rows stay, with what they refer to.                                     *)
Kept ==
  /\ \A p \in Apps : apps[p] # NoApp => apps'[p] # NoApp
  /\ \A f \in Fees : fees[f] # NoFee => fees'[f].app = fees[f].app
  /\ \A r \in Refs : refs[r] # NoRef =>
       refs'[r].fee = refs[r].fee /\ refs'[r].app = refs[r].app /\ refs'[r].amount = refs[r].amount
  /\ \A f \in Fees : Recorded(f)' \in Nat /\ Recorded(f) <= Recorded(f)'

LEMMA FeeLinked ==
  ASSUME Typed, NEW f \in Fees
  PROVE  /\ fees[f].app \in Apps => fees[f] # NoFee
         /\ fees[f] # NoFee => fees[f].app \in Apps
         /\ fees[f].paid \in Nat
BY AbsentRows DEF Typed, Charge

LEMMA HoldsOn ==
  ASSUME Typed, Typed', Kept, NEW m \in Copy, Holds(m)
  PROVE  Holds(m)'
<1>1. m.op \in {"charge", "verify"} => apps'[m.app] # NoApp
  BY CopyType DEF Holds, Kept
<1>2. m.op = "pay" => fees'[m.fee].app = m.app
  BY CopyType, FeeLinked DEF Holds, Kept
<1>3. CASE m.op \in {"pay", "record"}
  <2>1. m.fee \in Fees /\ m.seen \in Nat /\ m.seen <= Recorded(m.fee)
    BY <1>3, CopyType DEF Holds
  <2>2. PICK f \in Fees : f = m.fee
    BY <2>1
  <2>3. Recorded(f) \in Nat /\ Recorded(f)' \in Nat /\ Recorded(f) <= Recorded(f)'
    BY RecordedType DEF Kept
  <2>4. m.seen <= Recorded(m.fee)'
    BY <2>1, <2>2, <2>3
  <2>5. m.op = "record" => refs'[m.ref].fee = m.fee
    BY <2>1, CopyType, ReferenceType DEF Holds, Kept
  <2>6. QED BY <1>2, <1>3, <2>4, <2>5 DEF Holds
<1>4. CASE m.op = "save"
  <2>1. m.fee \in Fees /\ m.ref \in Refs /\ refs[m.ref].fee = m.fee /\ Credited(m) <= Recorded(m.fee)
    BY <1>4, CopyType DEF Holds
  <2>2. refs'[m.ref].fee = m.fee /\ Credited(m)' = Credited(m)
    BY <2>1, ReferenceType DEF Kept, Credited
  <2>3. PICK f \in Fees : f = m.fee
    BY <2>1
  <2>4. Recorded(f) \in Nat /\ Recorded(f)' \in Nat /\ Recorded(f) <= Recorded(f)'
    BY RecordedType DEF Kept
  <2>5. Credited(m) \in Nat
    BY <1>4, <2>1, CopyType, ReferenceType DEF Credited
  <2>6. Credited(m)' <= Recorded(m.fee)'
    BY <2>1, <2>2, <2>3, <2>4, <2>5
  <2>7. QED BY <1>4, <2>2, <2>6 DEF Holds
<1>5. QED BY <1>1, <1>2, <1>3, <1>4 DEF Holds

(* A copy stays, or what takes its place may rely on what it needs, and    *)
(* records a payment only against a reference that has no row, or that it  *)
(* had already looked up.                                                  *)
Renewed(w) ==
  \/ mem'[w] = mem[w]
  \/ /\ Holds(mem[w])'
     /\ mem'[w].op = "record" => refs'[mem'[w].ref].rows = 0

LEMMA CopiesHold ==
  ASSUME LedgerInv, Typed', Kept, NEW w \in Workers, Renewed(w)
  PROVE  Holds(mem[w])'
<1> SUFFICES ASSUME mem'[w] = mem[w] PROVE Holds(mem[w])'
  BY DEF Renewed
<1>1. PICK m : m = mem[w]
  OBVIOUS
<1>2. m \in Copy /\ Holds(m) /\ mem'[w] = m /\ Typed
  BY <1>1, LedgerParts DEF Typed
<1>3. Holds(m)'
  BY <1>2, HoldsOn
<1>4. QED BY <1>2, <1>3 DEF Holds, Credited

LEMMA LedgerPartsNext ==
  LedgerInv' <=> /\ Typed' /\ Linked' /\ RowsOwed' /\ PaidIsBacked'
                 /\ \A w \in Workers : Holds(mem[w])'
BY DEF LedgerInv, Refers, Backed, Linked, Holds

(* A step that neither inserts a payment nor saves a charge.               *)
LEMMA QuietStep ==
  ASSUME LedgerInv, Typed', Quiet, Linked', \A w \in Workers : Renewed(w),
         \A p \in Apps : apps[p] # NoApp => apps'[p] # NoApp,
         \A f \in Fees : fees'[f] = fees[f] \/ (fees[f] = NoFee /\ fees'[f].paid = 0),
         \A r \in Refs : refs[r] # NoRef => refs'[r].app = refs[r].app
  PROVE  LedgerInv'
<1>1. Typed /\ PaidIsBacked /\ RowsOwed
  BY LedgerParts
<1>2. \A f \in Fees : Recorded(f)' = Recorded(f) /\ Recorded(f) \in Nat
  BY <1>1, RecordedSame, RecordedType
<1>3. Kept
  <2>1. \A r \in Refs : refs[r] # NoRef => refs'[r].fee = refs[r].fee /\ refs'[r].amount = refs[r].amount
    BY DEF Quiet
  <2>2. QED BY <1>1, <1>2, <2>1 DEF Kept
<1>4. PaidIsBacked'
  BY <1>1, <1>2, FeeLinked DEF PaidIsBacked
<1>5. \A w \in Workers : Holds(mem[w])'
  BY <1>3, CopiesHold
<1>6. RowsOwed'
  <2> SUFFICES ASSUME NEW r \in Refs
               PROVE  refs'[r].rows + Cardinality(Recorders(r)') <= Cardinality(Workers)
    BY DEF RowsOwed
  <2>1. PICK R, Q : R = Recorders(r) /\ Q = Recorders(r)'
    OBVIOUS
  <2>2. R \in SUBSET Workers /\ Q \in SUBSET Workers
    BY <2>1 DEF Recorders
  <2>3. /\ Cardinality(Workers) \in Nat /\ IsFiniteSet(Q) /\ IsFiniteSet(R)
        /\ Cardinality(Q) \in Nat /\ Cardinality(R) \in Nat
        /\ Cardinality(Q) <= Cardinality(Workers)
    BY <2>2, KeyAssumption, FS_Subset, FS_CardinalityType
  <2>4. CASE refs'[r].rows = 0
    BY <2>1, <2>3, <2>4
  <2>5. CASE refs'[r].rows # 0
    <3>1. refs'[r].rows = refs[r].rows
      BY <2>5 DEF Quiet
    <3>2. Q \subseteq R
      BY <2>1, <2>5 DEF Renewed, Recorders
    <3>3. Cardinality(Q) <= Cardinality(R)
      BY <2>3, <3>2, FS_Subset
    <3>4. refs[r].rows \in Nat /\ refs[r].rows + Cardinality(R) <= Cardinality(Workers)
      BY <1>1, <2>1, ReferenceType DEF RowsOwed
    <3>5. QED BY <2>1, <2>3, <3>1, <3>3, <3>4
  <2>6. QED BY <2>4, <2>5
<1>7. QED BY <1>4, <1>5, <1>6, LedgerPartsNext

LEMMA BecomeEffect ==
  ASSUME Typed, NEW w \in Workers, NEW m \in Copy, Become(w, m)
  PROVE  /\ mem' \in [Workers -> Copy] /\ mem'[w] = m
         /\ \A v \in Workers \ {w} : mem'[v] = mem[v]
BY DEF Become, Typed

(***************************************************************************)
(* The actions on applications and allocations.                            *)
(***************************************************************************)
(* Neither charges nor references change, and no copy of them is made.     *)
LEMMA RowsChanged ==
  ASSUME LedgerInv, UNCHANGED <<fees, refs>>,
         apps' \in [Apps -> Application \cup {NoApp}],
         allocs' \in [Allocations -> Allocation \cup {NoAllocation}],
         mem' \in [Workers -> Copy],
         \A w \in Workers : mem'[w] = mem[w] \/ mem'[w].op \in {"idle", "apply", "allocate"},
         \A p \in Apps : apps[p] # NoApp => apps'[p] # NoApp,
         \A p \in Apps : apps'[p].allocation # None =>
           /\ allocs'[apps'[p].allocation] # NoAllocation
           /\ \A q \in Apps : apps'[q].allocation = apps'[p].allocation => q = p
  PROVE  LedgerInv'
<1>1. Typed /\ Linked
  BY LedgerParts
<1>2. Typed'
  BY <1>1 DEF Typed
<1>3. Quiet
  BY DEF Quiet
<1>4. Linked'
  BY <1>1, FeeLinked DEF Linked
<1>5. \A w \in Workers : Renewed(w)
  BY DEF Renewed, Holds
<1>6. QED BY <1>2, <1>3, <1>4, <1>5, QuietStep

LEMMA AllocationSteps ==
  ASSUME LedgerInv, NEW a \in Allocations, AllocationStep(a)
  PROVE  LedgerInv'
<1>1. Typed /\ Linked
  BY LedgerParts
<1>2. \A b \in Allocations : allocs[b] # NoAllocation => allocs[b] \in Allocation
  BY <1>1 DEF Typed
<1>3. ASSUME NEW b \in Allocations, allocs[b] # NoAllocation,
             NEW status \in {"active", "checked_out", "expired", "cancelled"}
      PROVE  [allocs[b] EXCEPT !.status = status] \in Allocation
  BY <1>2, <1>3 DEF Allocation, LiveAllocation
<1>4. NoAllocation.status \notin LiveAllocation
  BY DEF NoAllocation, LiveAllocation, None
<1>5. CASE CheckIn(a) \/ Leave(a)
  <2>1. PICK status \in {"active", "checked_out", "expired"} :
          /\ UNCHANGED <<apps, fees, refs, mem>> /\ allocs[a] # NoAllocation
          /\ allocs' = [allocs EXCEPT ![a].status = status]
    BY <1>4, <1>5 DEF CheckIn, Leave, LiveAllocation
  <2>2. /\ allocs' \in [Allocations -> Allocation \cup {NoAllocation}]
        /\ \A b \in Allocations : allocs[b] # NoAllocation => allocs'[b] # NoAllocation
    <3>1. [allocs[a] EXCEPT !.status = status] \in Allocation
      BY <1>3, <2>1
    <3>2. QED BY <1>1, <2>1, <3>1, AbsentRows DEF Typed
  <2>3. \A p \in Apps : apps[p].allocation # None => apps[p].allocation \in Allocations
    BY <1>1, AbsentRows DEF Typed, Application
  <2>4. QED BY <1>1, <2>1, <2>2, <2>3, RowsChanged DEF Typed, Linked
<1>6. CASE CancelAllocation(a)
  <2>1. /\ UNCHANGED <<fees, refs, mem>> /\ allocs[a] # NoAllocation
        /\ allocs' = [allocs EXCEPT ![a].status = "cancelled"]
        /\ apps' = [p \in Apps |-> IF apps[p].allocation = a
                                   THEN [apps[p] EXCEPT !.status = "cancelled"] ELSE apps[p]]
    BY <1>4, <1>6 DEF CancelAllocation
  <2>2. /\ allocs' \in [Allocations -> Allocation \cup {NoAllocation}]
        /\ \A b \in Allocations : allocs[b] # NoAllocation => allocs'[b] # NoAllocation
    BY <1>1, <1>3, <2>1, AbsentRows DEF Typed
  <2>3. ASSUME NEW p \in Apps
        PROVE  /\ apps'[p] \in Application \cup {NoApp} /\ apps'[p].allocation = apps[p].allocation
               /\ apps[p] # NoApp => apps'[p] # NoApp
               /\ apps[p].allocation # None => apps[p].allocation \in Allocations
    <3>1. CASE apps[p] \in Application
      <4>1. [apps[p] EXCEPT !.status = "cancelled"] \in Application
        BY <3>1 DEF Application, ApplicationStatus
      <4>2. [apps[p] EXCEPT !.status = "cancelled"].allocation = apps[p].allocation
        BY <3>1 DEF Application
      <4>3. apps[p].allocation # None => apps[p].allocation \in Allocations
        BY <3>1 DEF Application
      <4>4. QED BY <2>1, <3>1, <4>1, <4>2, <4>3, AbsentRows
    <3>2. CASE apps[p] = NoApp
      BY <2>1, <3>2, AbsentRows
    <3>3. QED BY <1>1, <3>1, <3>2 DEF Typed
  <2>4. apps' \in [Apps -> Application \cup {NoApp}]
    BY <2>1, <2>3
  <2>5. QED BY <1>1, <2>1, <2>2, <2>3, <2>4, RowsChanged DEF Typed, Linked
<1>7. ASSUME NEW c \in Allocations, CompleteTransfer(a, c)
      PROVE  LedgerInv'
  <2>1. PICK row : row = [status |-> "reserved", student |-> allocs[a].student,
                        session |-> allocs[a].session]
    OBVIOUS
  <2>2. PICK old : old = [allocs[a] EXCEPT !.status =
                            IF allocs[a].status \in LiveAllocation THEN "checked_out"
                            ELSE allocs[a].status]
    OBVIOUS
  <2>3. allocs[a] \in Allocation /\ allocs[c] = NoAllocation /\ a # c
    BY <1>2, <1>7 DEF CompleteTransfer
  <2>4. row \in Allocation /\ old \in Allocation
    BY <2>1, <2>2, <2>3 DEF Allocation, LiveAllocation
  <2>5. allocs' = [[allocs EXCEPT ![a] = old] EXCEPT ![c] = row]
    BY <1>1, <1>7, <2>1, <2>2, <2>3 DEF CompleteTransfer, Typed
  <2>6. UNCHANGED <<apps, fees, refs, mem>>
    BY <1>7 DEF CompleteTransfer
  <2>7. /\ allocs' \in [Allocations -> Allocation \cup {NoAllocation}]
        /\ \A b \in Allocations : allocs[b] # NoAllocation => allocs'[b] # NoAllocation
    BY <1>1, <2>3, <2>4, <2>5, AbsentRows DEF Typed
  <2>8. \A p \in Apps : apps[p].allocation # None => apps[p].allocation \in Allocations
    BY <1>1, AbsentRows DEF Typed, Application
  <2>9. QED BY <1>1, <2>6, <2>7, <2>8, RowsChanged DEF Typed, Linked
<1>8. QED BY <1>5, <1>6, <1>7 DEF AllocationStep

LEMMA ReviewStep ==
  ASSUME LedgerInv, NEW p \in Apps, Review(p)
  PROVE  LedgerInv'
<1>1. Typed /\ Linked
  BY LedgerParts
<1>2. PICK next \in {"approved", "rejected"} : apps' = [apps EXCEPT ![p].status = next]
  BY DEF Review
<1>3. apps[p] \in Application /\ UNCHANGED <<allocs, fees, refs, mem>>
  BY <1>1 DEF Review, Reviewable, Typed, NoApp, None
<1>4. PICK row : row = [apps[p] EXCEPT !.status = next]
  OBVIOUS
<1>5. row \in Application /\ row.allocation = apps[p].allocation
  BY <1>3, <1>4 DEF Application, ApplicationStatus
<1>6. \A q \in Apps : apps'[q] = IF q = p THEN row ELSE apps[q]
  BY <1>1, <1>2, <1>4 DEF Typed
<1>7. apps' \in [Apps -> Application \cup {NoApp}]
  BY <1>1, <1>2, <1>5, <1>6 DEF Typed
<1>8. \A q \in Apps : /\ apps'[q].allocation = apps[q].allocation
                      /\ apps[q] # NoApp => apps'[q] # NoApp
  BY <1>5, <1>6, AbsentRows
<1>9. QED BY <1>1, <1>3, <1>7, <1>8, RowsChanged DEF Typed, Linked

LEMMA ApplicationForms ==
  ASSUME LedgerInv, NEW w \in Workers, NEW s \in Students, NEW y \in Sessions,
         Apply(w, s) \/ OpenAllocationForm(w, s, y)
  PROVE  LedgerInv'
<1>1. Typed /\ Linked
  BY LedgerParts
<1>2. PICK m \in Copy : Become(w, m) /\ m.op \in {"apply", "allocate"}
  <2>1. CASE Apply(w, s)
    <3>1. [op |-> "apply", student |-> s] \in Copy
      BY DEF Copy
    <3>2. QED BY <2>1, <3>1 DEF Apply
  <2>2. CASE OpenAllocationForm(w, s, y)
    <3>1. PICK p \in {q \in Apps : apps[q].status = "approved"} \cup {None} :
            Become(w, [op |-> "allocate", student |-> s, session |-> y, app |-> p,
                       row |-> IF p = None THEN NoApp ELSE apps[p]])
      BY <2>2 DEF OpenAllocationForm
    <3>2. PICK row : row = IF p = None THEN NoApp ELSE apps[p]
      OBVIOUS
    <3>3. CASE p = None
      <4>1. [op |-> "allocate", student |-> s, session |-> y, app |-> p, row |-> row] \in Copy
        BY <3>2, <3>3 DEF Copy
      <4>2. QED BY <3>1, <3>2, <4>1
    <3>4. CASE p # None
      <4>1. p \in Apps /\ row \in Application
        BY <1>1, <3>1, <3>2, <3>4 DEF Typed, NoApp, None
      <4>2. [op |-> "allocate", student |-> s, session |-> y, app |-> p, row |-> row] \in Copy
        BY <4>1 DEF Copy
      <4>3. QED BY <3>1, <3>2, <4>2
    <3>5. QED BY <3>3, <3>4
  <2>3. QED BY <2>1, <2>2
<1>3. UNCHANGED <<apps, allocs, fees, refs>>
  BY DEF Apply, OpenAllocationForm
<1>4. mem' \in [Workers -> Copy] /\ \A v \in Workers : mem'[v] = mem[v] \/ mem'[v] = m
  BY <1>1, <1>2, BecomeEffect
<1>5. \A v \in Workers : mem'[v] = mem[v] \/ mem'[v].op \in {"idle", "apply", "allocate"}
  BY <1>2, <1>4
<1>6. QED BY <1>1, <1>3, <1>4, <1>5, RowsChanged DEF Typed, Linked

(* What leaves worker w idle and touches applications or allocations only. *)
LEMMA BecomesIdle ==
  ASSUME LedgerInv, NEW w \in Workers, Become(w, Idle)
  PROVE  /\ mem' \in [Workers -> Copy]
         /\ \A v \in Workers : mem'[v] = mem[v] \/ mem'[v].op \in {"idle", "apply", "allocate"}
<1>1. Typed
  BY LedgerParts
<1>2. mem' \in [Workers -> Copy] /\ \A v \in Workers : mem'[v] = mem[v] \/ mem'[v] = Idle
  BY <1>1, BecomeEffect, IdleType
<1>3. QED BY <1>2, IdleType

LEMMA SubmitStep ==
  ASSUME LedgerInv, NEW w \in Workers, NEW p \in Apps, Submit(w, p)
  PROVE  LedgerInv'
<1>1. Typed /\ Linked
  BY LedgerParts
<1>2. PICK row : row = [NoApp EXCEPT !.status = "pending", !.student = mem[w].student]
  OBVIOUS
<1>3. mem[w].student \in Students
  BY <1>1, CopyType DEF Submit, Typed
<1>4. row \in Application /\ row.allocation = None
  BY <1>2, <1>3 DEF NoApp, None, Application, ApplicationStatus
<1>5. \A q \in Apps : apps'[q] = IF q = p THEN row ELSE apps[q]
  BY <1>1, <1>2 DEF Submit, Typed
<1>6. apps' \in [Apps -> Application \cup {NoApp}]
  BY <1>1, <1>4, <1>5 DEF Submit, Typed
<1>7. /\ Become(w, Idle) /\ UNCHANGED <<allocs, fees, refs>>
      /\ apps[p] = NoApp
  BY DEF Submit
<1>8. \A q \in Apps : /\ apps'[q].allocation = apps[q].allocation
                      /\ apps[q] # NoApp => apps'[q] # NoApp
  BY <1>4, <1>5, <1>7, AbsentRows
<1>9. QED BY <1>1, <1>6, <1>7, <1>8, BecomesIdle, RowsChanged DEF Typed, Linked

LEMMA DropStep ==
  ASSUME LedgerInv, NEW w \in Workers, Drop(w)
  PROVE  LedgerInv'
<1>1. Typed /\ Linked
  BY LedgerParts
<1>2. Become(w, Idle) /\ UNCHANGED <<apps, allocs, fees, refs>>
  BY DEF Drop
<1>3. QED BY <1>1, <1>2, BecomesIdle, RowsChanged DEF Typed, Linked

LEMMA VerifiedStep ==
  ASSUME LedgerInv, NEW w \in Workers, MarkPaymentVerified(w)
  PROVE  LedgerInv'
<1>1. Typed /\ Linked
  BY LedgerParts
<1>2. Become(w, Idle) /\ UNCHANGED <<allocs, fees, refs>>
  BY DEF MarkPaymentVerified
<1>3. CASE apps' = apps
  BY <1>1, <1>2, <1>3, BecomesIdle, RowsChanged DEF Typed, Linked
<1>4. CASE apps' # apps
  <2>1. PICK p : p = mem[w].app
    OBVIOUS
  <2>2. /\ p \in Apps /\ apps[p].status = "approved"
        /\ apps' = [apps EXCEPT ![p].verified = "yes"]
    BY <1>1, <1>4, <2>1, CopyType DEF MarkPaymentVerified, Typed
  <2>3. PICK row : row = [apps[p] EXCEPT !.verified = "yes"]
    OBVIOUS
  <2>4. apps[p] \in Application
    BY <1>1, <2>2 DEF Typed, NoApp, None
  <2>5. row \in Application /\ row.allocation = apps[p].allocation
    BY <2>3, <2>4 DEF Application
  <2>6. \A q \in Apps : apps'[q] = IF q = p THEN row ELSE apps[q]
    BY <1>1, <2>2, <2>3 DEF Typed
  <2>7. apps' \in [Apps -> Application \cup {NoApp}]
    BY <1>1, <2>2, <2>5, <2>6 DEF Typed
  <2>8. \A q \in Apps : /\ apps'[q].allocation = apps[q].allocation
                        /\ apps[q] # NoApp => apps'[q] # NoApp
    BY <2>5, <2>6, AbsentRows
  <2>9. QED BY <1>1, <1>2, <2>7, <2>8, BecomesIdle, RowsChanged DEF Typed, Linked
<1>5. QED BY <1>3, <1>4

LEMMA AllocateStep ==
  ASSUME LedgerInv, NEW w \in Workers, NEW a \in Allocations, AllocateBed(w, a)
  PROVE  LedgerInv'
<1>1. Typed /\ Linked
  BY LedgerParts
<1>2. PICK m \in Copy : m = mem[w]
  BY <1>1 DEF Typed
<1>3. PICK new : new = [status |-> "reserved", student |-> m.student, session |-> m.session]
  OBVIOUS
<1>4. PICK row : row = [m.row EXCEPT !.status = "confirmed", !.allocation = a]
  OBVIOUS
<1>5. new \in Allocation /\ m.op = "allocate"
  BY <1>2, <1>3, CopyType DEF AllocateBed, Allocation, LiveAllocation
<1>6. m.app # None => row \in Application /\ row.allocation = a
  <2>1. m.app # None => m.row \in Application
    BY <1>5, CopyType
  <2>2. QED BY <1>4, <2>1 DEF Application, ApplicationStatus
<1>7. /\ \A q \in Apps : apps'[q] = IF q = m.app THEN row ELSE apps[q]
      /\ apps' \in [Apps -> Application \cup {NoApp}]
  <2>1. apps' = [q \in Apps |-> IF q = m.app THEN row ELSE apps[q]]
    BY <1>2, <1>4 DEF AllocateBed
  <2>2. QED BY <1>1, <1>6, <2>1, AbsentRows DEF Typed
<1>8. /\ Become(w, Idle) /\ UNCHANGED <<fees, refs>>
      /\ allocs[a] = NoAllocation /\ allocs' = [allocs EXCEPT ![a] = new]
  BY <1>2, <1>3 DEF AllocateBed
<1>9. /\ allocs' \in [Allocations -> Allocation \cup {NoAllocation}]
      /\ allocs'[a] # NoAllocation
      /\ \A b \in Allocations : allocs[b] # NoAllocation => allocs'[b] # NoAllocation
  BY <1>1, <1>5, <1>8, AbsentRows DEF Typed
<1>10. \A p \in Apps : apps[p].allocation # None =>
         /\ apps[p].allocation \in Allocations /\ apps[p].allocation # a
  BY <1>1, <1>8, AbsentRows DEF Typed, Application, Linked
<1>11. \A p \in Apps : apps[p] # NoApp => apps'[p] # NoApp
  BY <1>6, <1>7, AbsentRows
<1>12. ASSUME NEW p \in Apps, apps'[p].allocation # None
       PROVE  /\ allocs'[apps'[p].allocation] # NoAllocation
              /\ \A q \in Apps : apps'[q].allocation = apps'[p].allocation => q = p
  <2>1. CASE p = m.app
    BY <1>6, <1>7, <1>9, <1>10, <2>1, AbsentRows
  <2>2. CASE p # m.app
    <3>1. apps'[p] = apps[p] /\ apps[p].allocation # None
      BY <1>7, <1>12, <2>2
    <3>2. /\ allocs[apps[p].allocation] # NoAllocation
          /\ \A q \in Apps : apps[q].allocation = apps[p].allocation => q = p
      BY <1>1, <3>1 DEF Linked
    <3>3. QED BY <1>6, <1>7, <1>9, <1>10, <3>1, <3>2, AbsentRows
  <2>3. QED BY <2>1, <2>2
<1>13. QED BY <1>7, <1>8, <1>9, <1>11, <1>12, BecomesIdle, RowsChanged

(***************************************************************************)
(* The actions on charges and payments.                                    *)
(***************************************************************************)
(* Applications and allocations stay, charges are only raised, references  *)
(* only issued or paid.                                                    *)
LEMMA PaymentQuiet ==
  ASSUME LedgerInv, UNCHANGED <<apps, allocs>>,
         fees' \in [Fees -> Charge \cup {NoFee}],
         \A f \in Fees : \/ fees'[f] = fees[f]
                         \/ /\ fees[f] = NoFee /\ fees'[f].paid = 0
                            /\ apps[fees'[f].app] # NoApp,
         refs' \in [Refs -> Reference \cup {NoRef}],
         \A r \in Refs : \/ /\ refs'[r].fee = refs[r].fee /\ refs'[r].rows = refs[r].rows
                            /\ refs'[r].amount = refs[r].amount /\ refs'[r].app = refs[r].app
                            /\ refs[r] = NoRef => refs'[r] = NoRef
                         \/ /\ refs[r] = NoRef /\ refs'[r] \in Reference /\ refs'[r].rows = 0
                            /\ fees[refs'[r].fee].app = refs'[r].app,
         NEW w \in Workers, NEW m \in Copy, Become(w, m), Holds(m)',
         m.op = "record" => refs'[m.ref].rows = 0
  PROVE  LedgerInv'
<1>1. Typed /\ Linked
  BY LedgerParts
<1>2. mem' \in [Workers -> Copy] /\ mem'[w] = m /\ \A v \in Workers \ {w} : mem'[v] = mem[v]
  BY <1>1, BecomeEffect
<1>3. Typed'
  BY <1>1, <1>2 DEF Typed
<1>4. Quiet
  BY DEF Quiet
<1>5. \A f \in Fees : fees[f] # NoFee => fees'[f].app = fees[f].app
  BY DEF Quiet
<1>6. Linked'
  <2>1. \A f \in Fees : fees'[f] # NoFee => apps'[fees'[f].app] # NoApp
    BY <1>1 DEF Linked
  <2>2. ASSUME NEW r \in Refs, refs'[r] # NoRef PROVE fees'[refs'[r].fee].app = refs'[r].app
    <3>1. fees[refs'[r].fee].app = refs'[r].app
      BY <1>1, <2>2 DEF Linked
    <3>2. refs'[r].fee \in Fees /\ refs'[r].app \in Apps
      BY <2>2 DEF Reference
    <3>3. QED BY <1>1, <1>5, <3>1, <3>2, FeeLinked
  <2>3. QED BY <1>1, <2>1, <2>2 DEF Linked
<1>7. \A v \in Workers : Renewed(v)
  <2>1. Holds(mem[w])'
    BY <1>2 DEF Holds, Credited
  <2>2. QED BY <1>2, <2>1 DEF Renewed
<1>8. /\ \A p \in Apps : apps[p] # NoApp => apps'[p] # NoApp
      /\ \A f \in Fees : fees'[f] = fees[f] \/ (fees[f] = NoFee /\ fees'[f].paid = 0)
      /\ \A r \in Refs : refs[r] # NoRef => refs'[r].app = refs[r].app
  OBVIOUS
<1>9. QED BY <1>3, <1>4, <1>6, <1>7, <1>8, QuietStep

LEMMA PayInitiateStep ==
  ASSUME LedgerInv, NEW w \in Workers, NEW p \in Apps, PayInitiate(w, p)
  PROVE  LedgerInv'
<1>1. Typed /\ Linked /\ PaidIsBacked
  BY LedgerParts
<1>2. UNCHANGED <<apps, allocs, fees, refs>> /\ apps[p] # NoApp
  BY DEF PayInitiate, NoApp, None
<1>3. \A f \in Fees : Recorded(f)' = Recorded(f)
  BY <1>1, <1>2, RecordedSame DEF Quiet
<1>4. PICK m \in Copy : Become(w, m) /\ Holds(m)' /\ m.op # "record"
  <2>1. CASE Become(w, [op |-> "charge", app |-> p])
    <3>1. PICK m : m = [op |-> "charge", app |-> p]
      OBVIOUS
    <3>2. m \in Copy /\ Holds(m)' /\ m.op # "record"
      BY <1>2, <3>1 DEF Copy, Holds
    <3>3. QED BY <2>1, <3>1, <3>2
  <2>2. ASSUME NEW f \in Fees, Charges(p) = {f},
               Become(w, [op |-> "pay", app |-> p, fee |-> f, seen |-> fees[f].paid])
        PROVE  \E m \in Copy : Become(w, m) /\ Holds(m)' /\ m.op # "record"
    <3>1. PICK m : m = [op |-> "pay", app |-> p, fee |-> f, seen |-> fees[f].paid]
      OBVIOUS
    <3>2. fees[f].app = p /\ fees[f].paid \in Nat /\ fees[f].paid <= Recorded(f)'
      BY <1>1, <1>3, <2>2, FeeLinked DEF Charges, PaidIsBacked
    <3>3. m \in Copy /\ m.op = "pay" /\ m.fee = f /\ m.app = p /\ m.seen = fees[f].paid
      BY <3>1, <3>2 DEF Copy
    <3>4. Holds(m)'
      BY <1>2, <3>2, <3>3 DEF Holds
    <3>5. QED BY <2>2, <3>1, <3>3, <3>4
  <2>3. QED BY <2>1, <2>2 DEF PayInitiate
<1>5. QED BY <1>1, <1>2, <1>4, PaymentQuiet DEF Typed

LEMMA EnsureChargeStep ==
  ASSUME LedgerInv, NEW w \in Workers, NEW f \in Fees, EnsureCharge(w, f)
  PROVE  LedgerInv'
<1>1. Typed /\ Linked
  BY LedgerParts
<1>2. PICK p \in Apps : p = mem[w].app
  BY <1>1, CopyType DEF EnsureCharge, Typed
<1>3. apps[p] # NoApp
  BY <1>2, LedgerParts DEF EnsureCharge, Holds
<1>4. PICK row : row = [app |-> p, paid |-> 0]
  OBVIOUS
<1>5. PICK m : m = [op |-> "pay", app |-> p, fee |-> f, seen |-> 0]
  OBVIOUS
<1>6. /\ UNCHANGED <<apps, allocs, refs>> /\ Become(w, m)
      /\ fees[f] = NoFee /\ fees' = [fees EXCEPT ![f] = row]
  BY <1>2, <1>4, <1>5 DEF EnsureCharge
<1>7. row \in Charge /\ row.paid = 0 /\ row.app = p
  BY <1>4 DEF Charge
<1>8. fees' \in [Fees -> Charge \cup {NoFee}] /\ \A e \in Fees : fees'[e] = IF e = f THEN row ELSE fees[e]
  BY <1>1, <1>6, <1>7 DEF Typed
<1>9. m \in Copy /\ m.op = "pay" /\ m.fee = f /\ m.app = p /\ m.seen = 0
  BY <1>5 DEF Copy
<1>10. 0 <= Recorded(f)'
  <2>1. Recorded(f)' = Recorded(f) /\ Recorded(f) \in Nat
    BY <1>1, <1>6, RecordedSame, RecordedType DEF Quiet
  <2>2. QED BY <2>1
<1>11. Holds(m)'
  BY <1>7, <1>8, <1>9, <1>10 DEF Holds
<1>12. \A e \in Fees : \/ fees'[e] = fees[e]
                       \/ /\ fees[e] = NoFee /\ fees'[e].paid = 0
                          /\ apps[fees'[e].app] # NoApp
  BY <1>3, <1>6, <1>7, <1>8
<1>13. QED BY <1>1, <1>6, <1>8, <1>9, <1>11, <1>12, PaymentQuiet DEF Typed

(* A new reference without a payment row.                                  *)
LEMMA IssuedReference ==
  ASSUME Typed, NEW r \in Refs, refs[r] = NoRef, NEW row \in Reference, row.rows = 0,
         fees[row.fee].app = row.app, refs' = [refs EXCEPT ![r] = row]
  PROVE  /\ refs' \in [Refs -> Reference \cup {NoRef}] /\ refs'[r] = row
         /\ \A q \in Refs : \/ /\ refs'[q].fee = refs[q].fee /\ refs'[q].rows = refs[q].rows
                               /\ refs'[q].amount = refs[q].amount /\ refs'[q].app = refs[q].app
                               /\ refs[q] = NoRef => refs'[q] = NoRef
                            \/ /\ refs[q] = NoRef /\ refs'[q] \in Reference /\ refs'[q].rows = 0
                               /\ fees[refs'[q].fee].app = refs'[q].app
         /\ Quiet
BY DEF Typed, Quiet

LEMMA IssueSteps ==
  ASSUME LedgerInv, NEW w \in Workers, NEW r \in Refs,
         Initialize(w, r) \/ SimulateTestPayment(w, r)
  PROVE  LedgerInv'
<1>1. Typed /\ Linked
  BY LedgerParts
<1>2. PICK state \in {"open", "test"} : Issue(w, r, state)
  BY DEF Initialize, SimulateTestPayment
<1>3. PICK c \in Copy : c = mem[w]
  BY <1>1 DEF Typed
<1>4. c.op = "pay" /\ c.app \in Apps /\ c.fee \in Fees /\ c.seen \in Nat /\ c.seen < Due
  BY <1>2, <1>3, CopyType DEF Issue
<1>5. PICK row : row = [state |-> state, app |-> c.app, fee |-> c.fee,
                        amount |-> Due - c.seen, rows |-> 0]
  OBVIOUS
<1>6. row \in Reference /\ row.rows = 0 /\ row.fee = c.fee /\ row.app = c.app
  <2>1. Due - c.seen \in 1..(Due + Cash)
    BY <1>4, AmountAssumption
  <2>2. QED BY <1>4, <1>5, <2>1 DEF Reference
<1>7. Holds(c)
  BY <1>3, LedgerParts
<1>8. /\ refs[r] = NoRef /\ refs' = [refs EXCEPT ![r] = row]
      /\ UNCHANGED <<apps, allocs, fees>>
  BY <1>2, <1>3, <1>5 DEF Issue
<1>9. fees[row.fee].app = row.app /\ c.seen <= Recorded(c.fee)
  BY <1>4, <1>6, <1>7 DEF Holds
<1>10. Quiet /\ refs'[r] = row
  BY <1>1, <1>6, <1>8, <1>9, IssuedReference
<1>11. PICK m \in Copy : Become(w, m) /\ Holds(m)' /\ (m.op = "record" => refs'[m.ref].rows = 0)
  <2>1. CASE Initialize(w, r)
    <3>1. Holds(Idle)' /\ Idle.op # "record"
      BY IdleType DEF Holds
    <3>2. QED BY <2>1, <3>1, IdleType DEF Initialize
  <2>2. CASE SimulateTestPayment(w, r)
    <3>1. PICK m : m = [op |-> "record", fee |-> c.fee, seen |-> c.seen, ref |-> r]
      OBVIOUS
    <3>2. /\ m \in Copy /\ m.op = "record" /\ m.fee = c.fee /\ m.seen = c.seen /\ m.ref = r
      BY <1>4, <3>1 DEF Copy
    <3>3. PICK f \in Fees : f = c.fee
      BY <1>4
    <3>4. m.seen <= Recorded(m.fee)'
      BY <1>1, <1>9, <1>10, <3>2, <3>3, RecordedSame
    <3>5. Holds(m)'
      BY <1>6, <1>10, <3>2, <3>4 DEF Holds
    <3>6. QED BY <1>3, <1>6, <1>10, <2>2, <3>1, <3>2, <3>5 DEF SimulateTestPayment
  <2>3. QED BY <2>1, <2>2
<1>12. fees' \in [Fees -> Charge \cup {NoFee}]
  BY <1>1, <1>8 DEF Typed
<1>13. /\ refs' \in [Refs -> Reference \cup {NoRef}]
       /\ \A q \in Refs : \/ /\ refs'[q].fee = refs[q].fee /\ refs'[q].rows = refs[q].rows
                             /\ refs'[q].amount = refs[q].amount /\ refs'[q].app = refs[q].app
                             /\ refs[q] = NoRef => refs'[q] = NoRef
                          \/ /\ refs[q] = NoRef /\ refs'[q] \in Reference /\ refs'[q].rows = 0
                             /\ fees[refs'[q].fee].app = refs'[q].app
  BY <1>1, <1>6, <1>8, <1>9, IssuedReference
<1>14. QED BY <1>8, <1>11, <1>12, <1>13, PaymentQuiet

LEMMA PayStep ==
  ASSUME LedgerInv, NEW r \in Refs, Pay(r)
  PROVE  LedgerInv'
<1>1. Typed /\ Linked
  BY LedgerParts
<1>2. refs[r] \in Reference
  BY <1>1 DEF Pay, Typed, NoRef, None
<1>3. PICK row : row = [refs[r] EXCEPT !.state = "paid"]
  OBVIOUS
<1>4. /\ row \in Reference /\ row.fee = refs[r].fee /\ row.app = refs[r].app
      /\ row.amount = refs[r].amount /\ row.rows = refs[r].rows
  BY <1>2, <1>3 DEF Reference
<1>5. UNCHANGED <<apps, allocs, fees, mem>> /\ refs' = [refs EXCEPT ![r] = row]
  BY <1>3 DEF Pay
<1>6. /\ refs' \in [Refs -> Reference \cup {NoRef}]
      /\ \A q \in Refs : refs'[q] = IF q = r THEN row ELSE refs[q]
  BY <1>1, <1>4, <1>5 DEF Typed
<1>7. \A q \in Refs :
        /\ refs'[q].fee = refs[q].fee /\ refs'[q].rows = refs[q].rows
        /\ refs'[q].amount = refs[q].amount /\ refs'[q].app = refs[q].app
        /\ refs'[q] # NoRef => refs[q] # NoRef
  BY <1>2, <1>4, <1>6, AbsentRows
<1>8. Typed' /\ Linked'
  BY <1>1, <1>5, <1>6, <1>7 DEF Typed, Linked
<1>9. Quiet /\ \A w \in Workers : Renewed(w)
  BY <1>5, <1>7 DEF Quiet, Renewed
<1>10. QED BY <1>5, <1>7, <1>8, <1>9, QuietStep

(* A paid reference stands for a charge of an application.                 *)
LEMMA PaidReference ==
  ASSUME LedgerInv, NEW r \in Refs, refs[r] # NoRef
  PROVE  /\ refs[r] \in Reference /\ refs[r].app \in Apps /\ refs[r].fee \in Fees
         /\ fees[refs[r].fee].app = refs[r].app /\ fees[refs[r].fee] # NoFee
         /\ apps[refs[r].app] # NoApp
<1>1. Typed /\ Linked
  BY LedgerParts
<1>2. refs[r] \in Reference
  BY <1>1 DEF Typed
<1>3. refs[r].app \in Apps /\ refs[r].fee \in Fees
  BY <1>2 DEF Reference
<1>4. fees[refs[r].fee].app = refs[r].app
  BY <1>1 DEF Linked
<1>5. fees[refs[r].fee] # NoFee
  BY <1>1, <1>3, <1>4, FeeLinked
<1>6. QED BY <1>1, <1>2, <1>3, <1>4, <1>5 DEF Linked

(* A worker takes a charge as fetched, for a reference without a row.      *)
LEMMA FetchedCharge ==
  ASSUME LedgerInv, Quiet, UNCHANGED fees, NEW f \in Fees, NEW r \in Refs, refs'[r].fee = f,
         NEW m, m = [op |-> "record", fee |-> f, seen |-> fees[f].paid, ref |-> r]
  PROVE  m \in Copy /\ m.ref = r /\ Holds(m)'
<1>1. Typed /\ PaidIsBacked
  BY LedgerParts
<1>2. fees[f].paid \in Nat /\ fees[f].paid <= Recorded(f)'
  BY <1>1, FeeLinked, RecordedSame DEF PaidIsBacked
<1>3. m \in Copy /\ m.op = "record" /\ m.fee = f /\ m.seen = fees[f].paid /\ m.ref = r
  BY <1>2 DEF Copy
<1>4. QED BY <1>2, <1>3 DEF Holds

LEMMA ArriveStep ==
  ASSUME LedgerInv, NEW w \in Workers, NEW r \in Refs, NEW f \in Fees, f = refs[r].fee,
         Arrive(w, r, f)
  PROVE  LedgerInv'
<1>1. Typed /\ Linked
  BY LedgerParts
<1>2. UNCHANGED <<apps, allocs, fees, refs>> /\ refs[r] # NoRef
  BY DEF Arrive, NoRef, None
<1>3. Quiet
  BY <1>2 DEF Quiet
<1>4. PICK m \in Copy : Become(w, m) /\ Holds(m)' /\ (m.op = "record" => refs'[m.ref].rows = 0)
  <2>1. CASE Done(r)
    <3>1. PICK m : m = [op |-> "verify", app |-> refs[r].app]
      OBVIOUS
    <3>2. refs[r].app \in Apps /\ apps'[refs[r].app] # NoApp
      BY <1>2, PaidReference
    <3>3. m \in Copy /\ m.op = "verify" /\ m.app = refs[r].app
      BY <3>1, <3>2 DEF Copy
    <3>4. Holds(m)'
      BY <3>2, <3>3 DEF Holds
    <3>5. QED BY <2>1, <3>1, <3>3, <3>4 DEF Arrive
  <2>2. CASE ~Done(r)
    <3>1. PICK m : m = [op |-> "record", fee |-> f, seen |-> fees[f].paid, ref |-> r]
      OBVIOUS
    <3>2. m \in Copy /\ m.ref = r /\ Holds(m)'
      BY <1>2, <1>3, <3>1, FetchedCharge
    <3>3. refs'[r].rows = 0
      BY <1>1, <1>2, <2>2, ReferenceType DEF Done
    <3>4. QED BY <2>2, <3>1, <3>2, <3>3 DEF Arrive
  <2>3. QED BY <2>1, <2>2
<1>5. QED BY <1>1, <1>2, <1>4, PaymentQuiet DEF Typed

LEMMA ArrivalSteps ==
  ASSUME LedgerInv, NEW w \in Workers, NEW r \in Refs, PayCallback(w, r) \/ PayWebhook(w, r)
  PROVE  LedgerInv'
<1>1. refs[r] # NoRef
  <2>1. PICK f : Arrive(w, r, f)
    BY DEF PayCallback, PayWebhook
  <2>2. refs[r].state = "paid"
    BY <2>1 DEF Arrive
  <2>3. QED BY <2>2 DEF NoRef, None
<1>2. refs[r].fee \in Charges(refs[r].app) /\ refs[r].fee \in Fees
  BY <1>1, PaidReference DEF Charges
<1>3. Arrive(w, r, refs[r].fee)
  BY <1>2 DEF PayCallback, PayWebhook
<1>4. QED BY <1>2, <1>3, ArriveStep

LEMMA RecordPaymentStep ==
  ASSUME LedgerInv, NEW w \in Workers, NEW r \in Refs, NEW f \in Fees, RecordPayment(w, r, f)
  PROVE  LedgerInv'
<1>1. Typed /\ Linked
  BY LedgerParts
<1>2. PICK row : row = [state |-> "cash", app |-> fees[f].app, fee |-> f,
                        amount |-> Cash, rows |-> 0]
  OBVIOUS
<1>3. PICK m : m = [op |-> "record", fee |-> f, seen |-> fees[f].paid, ref |-> r]
  OBVIOUS
<1>4. /\ fees[f] # NoFee /\ refs[r] = NoRef /\ UNCHANGED <<apps, allocs, fees>>
      /\ refs' = [refs EXCEPT ![r] = row] /\ Become(w, m)
  BY <1>2, <1>3 DEF RecordPayment
<1>5. row \in Reference /\ row.rows = 0 /\ row.fee = f /\ fees[row.fee].app = row.app
  <2>1. fees[f].app \in Apps /\ Cash \in 1..(Due + Cash)
    BY <1>1, <1>4, FeeLinked, AmountAssumption
  <2>2. QED BY <1>2, <2>1 DEF Reference
<1>6. /\ refs' \in [Refs -> Reference \cup {NoRef}] /\ refs'[r] = row /\ Quiet
      /\ \A q \in Refs : \/ /\ refs'[q].fee = refs[q].fee /\ refs'[q].rows = refs[q].rows
                            /\ refs'[q].amount = refs[q].amount /\ refs'[q].app = refs[q].app
                            /\ refs[q] = NoRef => refs'[q] = NoRef
                         \/ /\ refs[q] = NoRef /\ refs'[q] \in Reference /\ refs'[q].rows = 0
                            /\ fees[refs'[q].fee].app = refs'[q].app
  BY <1>1, <1>4, <1>5, IssuedReference
<1>7. m \in Copy /\ m.ref = r /\ Holds(m)'
  BY <1>3, <1>4, <1>5, <1>6, FetchedCharge
<1>8. QED BY <1>1, <1>4, <1>5, <1>6, <1>7, PaymentQuiet DEF Typed

LEMMA SaveFeeStep ==
  ASSUME LedgerInv, NEW w \in Workers, SaveFee(w)
  PROVE  LedgerInv'
<1>1. Typed /\ Linked /\ PaidIsBacked /\ RowsOwed
  BY LedgerParts
<1>2. PICK c \in Copy : c = mem[w]
  BY <1>1 DEF Typed
<1>3. c.op = "save" /\ c.fee \in Fees /\ c.seen \in Nat /\ c.ref \in Refs
  BY <1>2, CopyType DEF SaveFee
<1>4. refs[c.ref].fee = c.fee /\ Credited(c) <= Recorded(c.fee)
  BY <1>2, <1>3, LedgerParts DEF Holds
<1>5. PICK paid \in Nat : paid = Credited(c)
  BY <1>1, <1>3, ReferenceType DEF Credited
<1>6. refs[c.ref] # NoRef /\ fees[c.fee] \in Charge
  BY <1>1, <1>3, <1>4, ReferenceType, PaidReference DEF Typed
<1>7. PICK row : row = [fees[c.fee] EXCEPT !.paid = paid]
  OBVIOUS
<1>8. row \in Charge /\ row.app = fees[c.fee].app /\ row.paid = paid
  BY <1>6, <1>7 DEF Charge
<1>9. UNCHANGED <<apps, allocs, refs>> /\ fees' = [fees EXCEPT ![c.fee] = row]
  BY <1>2, <1>5, <1>7 DEF SaveFee
<1>10. /\ fees' \in [Fees -> Charge \cup {NoFee}]
       /\ \A f \in Fees : fees'[f] = IF f = c.fee THEN row ELSE fees[f]
  BY <1>1, <1>3, <1>8, <1>9 DEF Typed
<1>11. \A f \in Fees : fees'[f].app = fees[f].app /\ (fees'[f] # NoFee => fees[f] # NoFee)
  BY <1>6, <1>8, <1>10, AbsentRows
<1>12. \A f \in Fees : Recorded(f)' = Recorded(f) /\ Recorded(f) \in Nat
  BY <1>1, <1>9, RecordedSame, RecordedType DEF Quiet
<1>13. PICK m \in Copy : Become(w, m) /\ m.op \in {"idle", "verify"} /\ Holds(m)'
  <2>1. CASE refs[c.ref].state = "cash"
    <3>1. Holds(Idle)'
      BY IdleType DEF Holds
    <3>2. QED BY <1>2, <2>1, <3>1, IdleType DEF SaveFee
  <2>2. CASE refs[c.ref].state # "cash"
    <3>1. PICK m : m = [op |-> "verify", app |-> refs[c.ref].app]
      OBVIOUS
    <3>2. refs[c.ref].app \in Apps /\ apps'[refs[c.ref].app] # NoApp
      BY <1>3, <1>6, <1>9, PaidReference
    <3>3. m \in Copy /\ m.op = "verify" /\ m.app = refs[c.ref].app
      BY <3>1, <3>2 DEF Copy
    <3>4. Holds(m)'
      BY <3>2, <3>3 DEF Holds
    <3>5. QED BY <1>2, <2>2, <3>1, <3>3, <3>4 DEF SaveFee
  <2>3. QED BY <2>1, <2>2
<1>14. mem' \in [Workers -> Copy] /\ mem'[w] = m /\ \A v \in Workers \ {w} : mem'[v] = mem[v]
  BY <1>1, <1>13, BecomeEffect
<1>15. Typed'
  BY <1>1, <1>9, <1>10, <1>14 DEF Typed
<1>16. Linked'
  BY <1>1, <1>9, <1>11, AbsentRows DEF Linked, Typed, Reference
<1>17. Kept
  BY <1>9, <1>11, <1>12 DEF Kept
<1>18. PaidIsBacked'
  BY <1>1, <1>4, <1>5, <1>8, <1>10, <1>12 DEF PaidIsBacked
<1>19. \A v \in Workers : Holds(mem[v])'
  <2>1. Holds(mem[w])'
    BY <1>13, <1>14 DEF Holds
  <2>2. \A v \in Workers \ {w} : Renewed(v)
    BY <1>14 DEF Renewed
  <2>3. QED BY <1>15, <1>17, <2>1, <2>2, CopiesHold
<1>20. RowsOwed'
  <2> SUFFICES ASSUME NEW r \in Refs
               PROVE  refs'[r].rows + Cardinality(Recorders(r)') <= Cardinality(Workers)
    BY DEF RowsOwed
  <2>1. Recorders(r)' = Recorders(r)
    BY <1>2, <1>3, <1>13, <1>14 DEF Recorders
  <2>2. QED BY <1>1, <1>9, <2>1 DEF RowsOwed
<1>21. QED BY <1>15, <1>16, <1>18, <1>19, <1>20, LedgerPartsNext

(* The row is inserted: it is recorded before it is credited.              *)
LEMMA InsertPaymentStep ==
  ASSUME LedgerInv, NEW w \in Workers, InsertPayment(w)
  PROVE  LedgerInv'
<1>1. Typed /\ Linked /\ PaidIsBacked /\ RowsOwed
  BY LedgerParts
<1>2. PICK c \in Copy : c = mem[w]
  BY <1>1 DEF Typed
<1>3. c.op = "record" /\ c.fee \in Fees /\ c.seen \in Nat /\ c.ref \in Refs
  BY <1>2, CopyType DEF InsertPayment
<1>4. PICK r \in Refs, f \in Fees : r = c.ref /\ f = c.fee
  BY <1>3
<1>5. refs[r].fee = f /\ c.seen <= Recorded(f)
  BY <1>2, <1>3, <1>4, LedgerParts DEF Holds
<1>6. refs[r] \in Reference
  BY <1>1, <1>5, ReferenceType
<1>7. PICK m : m = [c EXCEPT !.op = "save"]
  OBVIOUS
<1>8. m \in Copy /\ m.op = "save" /\ m.fee = f /\ m.ref = r /\ m.seen = c.seen
  <2>1. c \in [op : {"record", "save"}, fee : Fees, seen : Nat, ref : Refs]
    BY <1>3 DEF Copy, Idle
  <2>2. QED BY <1>4, <1>7, <2>1 DEF Copy
<1>9. /\ UNCHANGED <<apps, allocs, fees>> /\ Become(w, m)
      /\ refs' = [refs EXCEPT ![r].rows = @ + 1]
  BY <1>2, <1>4, <1>7 DEF InsertPayment
<1>10. PICK row : row = [refs[r] EXCEPT !.rows = @ + 1]
  OBVIOUS
<1>11. /\ row \in Reference /\ row.fee = f /\ row.amount = refs[r].amount
       /\ row.app = refs[r].app /\ row.rows = refs[r].rows + 1
  BY <1>5, <1>6, <1>10 DEF Reference
<1>12. /\ refs' \in [Refs -> Reference \cup {NoRef}]
       /\ \A q \in Refs : refs'[q] = IF q = r THEN row ELSE refs[q]
  BY <1>1, <1>9, <1>10, <1>11 DEF Typed
<1>13. \A q \in Refs : /\ refs'[q].fee = refs[q].fee /\ refs'[q].app = refs[q].app
                       /\ refs'[q].amount = refs[q].amount
                       /\ refs'[q] # NoRef => refs[q] # NoRef
  BY <1>5, <1>6, <1>11, <1>12, AbsentRows
<1>14. mem' \in [Workers -> Copy] /\ mem'[w] = m /\ \A v \in Workers \ {w} : mem'[v] = mem[v]
  BY <1>1, <1>8, <1>9, BecomeEffect
<1>15. Typed' /\ Linked'
  BY <1>1, <1>9, <1>12, <1>13, <1>14 DEF Typed, Linked
<1>16. \A e \in Fees : Recorded(e)' = Recorded(e) + (IF refs[r].fee = e THEN refs[r].amount ELSE 0)
  BY <1>1, <1>6, <1>9, RecordedMore
<1>17. \A e \in Fees : Recorded(e) \in Nat /\ Recorded(e)' \in Nat /\ Recorded(e) <= Recorded(e)'
  BY <1>1, <1>16, RecordedType, ReferenceType
<1>18. Kept
  BY <1>9, <1>13, <1>17 DEF Kept
<1>19. PaidIsBacked'
  <2>1. \A e \in Fees : fees[e].paid \in Nat /\ fees[e].paid <= Recorded(e)
    BY <1>1, FeeLinked DEF PaidIsBacked
  <2>2. \A e \in Fees : fees[e].paid <= Recorded(e)'
    BY <1>17, <2>1
  <2>3. QED BY <1>9, <2>2 DEF PaidIsBacked
<1>20. \A v \in Workers : Holds(mem[v])'
  <2>1. Credited(m)' <= Recorded(f)'
    <3>1. Credited(m)' = c.seen + refs[r].amount
      BY <1>8, <1>13 DEF Credited
    <3>2. Recorded(f)' = Recorded(f) + refs[r].amount
      BY <1>5, <1>16
    <3>3. QED BY <1>1, <1>3, <1>5, <1>17, <3>1, <3>2, ReferenceType
  <2>2. Holds(m)'
    BY <1>5, <1>8, <1>13, <2>1 DEF Holds
  <2>3. Holds(mem[w])'
    BY <1>14, <2>2 DEF Holds, Credited
  <2>4. \A v \in Workers \ {w} : Renewed(v)
    BY <1>14 DEF Renewed
  <2>5. QED BY <1>15, <1>18, <2>3, <2>4, CopiesHold
<1>21. RowsOwed'
  <2> SUFFICES ASSUME NEW q \in Refs
               PROVE  refs'[q].rows + Cardinality(Recorders(q)') <= Cardinality(Workers)
    BY DEF RowsOwed
  <2>1. PICK R, Q : R = Recorders(q) /\ Q = Recorders(q)'
    OBVIOUS
  <2>2. refs[q].rows + Cardinality(R) <= Cardinality(Workers)
    BY <1>1, <2>1 DEF RowsOwed
  <2>3. Q = IF q = r THEN R \ {w} ELSE R
    BY <1>2, <1>3, <1>4, <1>8, <1>14, <2>1 DEF Recorders
  <2>4. IsFiniteSet(R) /\ Cardinality(R) \in Nat
    BY <2>1, KeyAssumption, FS_Subset, FS_CardinalityType DEF Recorders
  <2>5. CASE q = r
    <3>1. w \in R
      BY <1>2, <1>3, <1>4, <2>1, <2>5 DEF Recorders
    <3>2. Cardinality(Q) = Cardinality(R) - 1
      BY <2>3, <2>4, <2>5, <3>1, FS_RemoveElement
    <3>3. refs'[q].rows = refs[q].rows + 1 /\ refs[q].rows \in Nat
      BY <1>1, <1>11, <1>12, <2>5, ReferenceType
    <3>4. QED BY <2>1, <2>2, <2>4, <3>2, <3>3
  <2>6. CASE q # r
    BY <1>12, <2>1, <2>2, <2>3, <2>6
  <2>7. QED BY <2>5, <2>6
<1>22. QED BY <1>15, <1>19, <1>20, <1>21, LedgerPartsNext

(***************************************************************************)
(* The theorems.                                                           *)
(***************************************************************************)
LEMMA LedgerInit == Init => LedgerInv
<1> SUFFICES ASSUME Init PROVE LedgerInv
  OBVIOUS
<1>1. Typed
  BY IdleType DEF Init, Typed
<1>2. Linked /\ \A w \in Workers : Holds(mem[w])
  BY IdleType, AbsentRows DEF Init, Linked, Holds
<1>3. PaidIsBacked
  BY <1>1, RecordedType, AbsentRows DEF Init, PaidIsBacked
<1>4. RowsOwed
  <2>1. \A r \in Refs : Recorders(r) = {} /\ refs[r].rows = 0
    BY IdleType, AbsentRows DEF Init, Recorders
  <2>2. Cardinality(Workers) \in Nat
    BY KeyAssumption, FS_CardinalityType
  <2>3. QED BY <2>1, <2>2, FS_EmptySet DEF RowsOwed
<1>5. QED BY <1>1, <1>2, <1>3, <1>4, LedgerParts

LEMMA LedgerStutter ==
  ASSUME LedgerInv, UNCHANGED vars
  PROVE  LedgerInv'
<1>1. Typed /\ Linked
  BY LedgerParts
<1>2. QED BY <1>1, RowsChanged DEF vars, Typed, Linked

LEMMA LedgerNext == LedgerInv /\ [Next]_vars => LedgerInv'
<1> SUFFICES ASSUME LedgerInv, [Next]_vars PROVE LedgerInv'
  OBVIOUS
<1>1. CASE UNCHANGED vars
  BY <1>1, LedgerStutter
<1>2. ASSUME NEW w \in Workers, ApplicationStep(w) PROVE LedgerInv'
  <2>1. Applied \in Sessions
    BY DEF Sessions
  <2>2. QED BY <1>2, <2>1, ApplicationForms, SubmitStep, PayInitiateStep, AllocateStep DEF ApplicationStep
<1>3. ASSUME NEW w \in Workers, PaymentStep(w) PROVE LedgerInv'
  BY <1>3, EnsureChargeStep, IssueSteps, ArrivalSteps, RecordPaymentStep, InsertPaymentStep,
     SaveFeeStep, VerifiedStep, DropStep DEF PaymentStep
<1>4. ASSUME NEW p \in Apps, Review(p) PROVE LedgerInv'
  BY <1>4, ReviewStep
<1>5. ASSUME NEW r \in Refs, Pay(r) PROVE LedgerInv'
  BY <1>5, PayStep
<1>6. ASSUME NEW a \in Allocations, AllocationStep(a) PROVE LedgerInv'
  BY <1>6, AllocationSteps
<1>7. QED BY <1>1, <1>2, <1>3, <1>4, <1>5, <1>6 DEF Next

LEMMA LedgerInvariant == Spec => []LedgerInv
BY LedgerInit, LedgerNext, PTL DEF Spec

(* Rows keep their types, and nothing that a row, a reference or a worker  *)
(* relies on is ever missing.                                              *)
THEOREM TypeCorrect == Spec => []TypeOK
<1>1. LedgerInv => TypeOK
  <2> SUFFICES ASSUME LedgerInv PROVE TypeOK
    OBVIOUS
  <2>1. Typed /\ Linked /\ RowsOwed
    BY LedgerParts
  <2>2. ASSUME NEW p \in Apps
        PROVE  apps[p] = NoApp \/ (/\ apps[p].status \in ApplicationStatus
                                   /\ apps[p].student \in Students
                                   /\ apps[p].verified \in {"yes", "no"}
                                   /\ \/ apps[p].allocation = None
                                      \/ allocs[apps[p].allocation] # NoAllocation)
    BY <2>1 DEF Typed, Application, Linked
  <2>3. \A f \in Fees : fees[f] = NoFee \/ (apps[fees[f].app] # NoApp /\ fees[f].paid \in Nat)
    BY <2>1, FeeLinked DEF Linked
  <2>4. ASSUME NEW r \in Refs, refs[r] # NoRef
        PROVE  /\ fees[refs[r].fee].app = refs[r].app
               /\ refs[r].amount \in 1..(Due + Cash)
               /\ refs[r].rows \in 0..Cardinality(Workers)
    <3>1. IsFiniteSet(Recorders(r)) /\ Cardinality(Recorders(r)) \in Nat
      BY KeyAssumption, FS_Subset, FS_CardinalityType DEF Recorders
    <3>2. refs[r].rows + Cardinality(Recorders(r)) <= Cardinality(Workers)
      BY <2>1 DEF RowsOwed
    <3>3. Cardinality(Workers) \in Nat /\ refs[r].rows \in Nat
      BY <2>1, KeyAssumption, FS_CardinalityType, ReferenceType
    <3>4. refs[r].rows \in 0..Cardinality(Workers)
      BY <3>1, <3>2, <3>3
    <3>5. QED BY <2>4, <3>4, PaidReference DEF Reference
  <2>5. \A a, c \in Apps : apps[a].allocation = apps[c].allocation =>
          a = c \/ apps[a].allocation = None
    BY <2>1 DEF Linked
  <2>6. QED BY <2>2, <2>3, <2>4, <2>5 DEF TypeOK
<1>2. QED BY <1>1, LedgerInvariant, PTL

(* Whatever callbacks, webhooks and officers overwrite of each other's     *)
(* totals, a charge never shows more than was recorded against it.         *)
THEOREM PaidNeverExceedsPayments == Spec => []PaidIsBacked
<1>1. LedgerInv => PaidIsBacked
  BY LedgerParts
<1>2. QED BY <1>1, LedgerInvariant, PTL

(* Only the check-in turns a reservation into a stay.                      *)
LEMMA OnlyCheckIn ==
  ASSUME Typed, Next, NEW a \in Allocations,
         allocs[a].status = "reserved", allocs'[a].status = "active"
  PROVE  CheckIn(a)
<1>1. allocs' # allocs
  OBVIOUS
<1>2. CASE \E w \in Workers : ApplicationStep(w) \/ PaymentStep(w)
  <2>1. PICK w \in Workers, b \in Allocations : AllocateBed(w, b)
    <3>1. PICK w \in Workers : ApplicationStep(w) \/ PaymentStep(w)
      BY <1>2
    <3>2. ~PaymentStep(w)
      BY <1>1 DEF PaymentStep, EnsureCharge, Initialize, SimulateTestPayment, Issue, PayCallback,
         PayWebhook, Arrive, RecordPayment, InsertPayment, SaveFee, MarkPaymentVerified, Drop
    <3>3. QED BY <1>1, <3>1, <3>2 DEF ApplicationStep, Apply, OpenAllocationForm, Submit, PayInitiate
  <2>2. PICK row : row = [status |-> "reserved", student |-> mem[w].student,
                        session |-> mem[w].session]
    OBVIOUS
  <2>3. allocs' = [allocs EXCEPT ![b] = row] /\ row.status = "reserved"
    BY <2>1, <2>2 DEF AllocateBed
  <2>4. QED BY <2>3 DEF Typed
<1>3. CASE \E p \in Apps : Review(p)
  BY <1>1, <1>3 DEF Review
<1>4. CASE \E r \in Refs : Pay(r)
  BY <1>1, <1>4 DEF Pay
<1>5. ASSUME NEW b \in Allocations, AllocationStep(b) PROVE CheckIn(a)
  <2>1. \A c \in Allocations : allocs[c] # NoAllocation => allocs[c] \in Allocation
    BY DEF Typed
  <2>2. CASE CheckIn(b)
    BY <2>2 DEF CheckIn, Typed
  <2>3. ASSUME Leave(b) \/ CancelAllocation(b) PROVE FALSE
    <3>1. PICK status \in {"checked_out", "expired", "cancelled"} :
            allocs' = [allocs EXCEPT ![b].status = status]
      BY <2>3 DEF Leave, CancelAllocation
    <3>2. allocs[b] # NoAllocation
      BY <2>3 DEF Leave, CancelAllocation, LiveAllocation, NoAllocation, None
    <3>3. PICK row : row = [allocs[b] EXCEPT !.status = status]
      OBVIOUS
    <3>4. row.status = status /\ allocs' = [allocs EXCEPT ![b] = row]
      BY <2>1, <3>1, <3>2, <3>3 DEF Allocation
    <3>5. QED BY <3>4 DEF Typed
  <2>4. ASSUME NEW c \in Allocations, CompleteTransfer(b, c) PROVE FALSE
    <3>1. PICK new : new = [status |-> "reserved", student |-> allocs[b].student,
                          session |-> allocs[b].session]
      OBVIOUS
    <3>2. PICK old : old = [allocs[b] EXCEPT !.status =
                              IF allocs[b].status \in LiveAllocation THEN "checked_out"
                              ELSE allocs[b].status]
      OBVIOUS
    <3>3. allocs[b] \in Allocation /\ allocs[c] = NoAllocation /\ b # c
      BY <2>1, <2>4 DEF CompleteTransfer
    <3>4. old.status # "active" /\ new.status # "active"
      BY <3>1, <3>2, <3>3 DEF Allocation, LiveAllocation
    <3>5. allocs' = [[allocs EXCEPT ![b] = old] EXCEPT ![c] = new]
      BY <2>4, <3>1, <3>2, <3>3 DEF CompleteTransfer, Typed
    <3>6. allocs'[a] \in {allocs[a], old, new}
      BY <3>5 DEF Typed
    <3>7. QED BY <3>4, <3>6
  <2>5. QED BY <1>5, <2>2, <2>3, <2>4 DEF AllocationStep
<1>6. QED BY <1>2, <1>3, <1>4, <1>5 DEF Next

(* Among charges whose average reaches 60 % of what is due, one does.      *)
LEMMA SomeChargeIsPaid ==
  ASSUME LedgerInv, NEW F \in SUBSET Fees, F # {},
         5 * PaidOn(F) >= 3 * (Due * Cardinality(F))
  PROVE  \E f \in F : 5 * Recorded(f) >= 3 * Due
<1> SUFFICES ASSUME \A f \in F : ~(5 * Recorded(f) >= 3 * Due) PROVE FALSE
  OBVIOUS
<1>1. Typed /\ PaidIsBacked
  BY LedgerParts
<1>2. PICK G : G = [f \in Fees |-> fees[f].paid]
  OBVIOUS
<1>3. PICK c \in Nat : c = 3 * Due
  BY AmountAssumption
<1>4. ASSUME NEW f \in F PROVE G[f] \in Nat /\ 5 * G[f] < c
  <2>1. fees[f].paid \in Nat /\ Recorded(f) \in Nat /\ fees[f].paid <= Recorded(f)
    BY <1>1, FeeLinked, RecordedType DEF PaidIsBacked
  <2>2. QED BY <1>2, <1>3, <2>1, AmountAssumption
<1>5. IsFiniteSet(F) /\ Cardinality(F) \in Nat
  BY KeyAssumption, FS_Subset, FS_CardinalityType
<1>6. 5 * SumFunctionOnSet(G, F) < c * Cardinality(F)
  BY <1>4, <1>5, SumSmall
<1>7. SumFunctionOnSet(G, F) \in Nat /\ PaidOn(F) = SumFunctionOnSet(G, F)
  BY <1>2, <1>4, <1>5, SumType DEF PaidOn
<1>8. 3 * (Due * Cardinality(F)) = c * Cardinality(F) /\ c * Cardinality(F) \in Nat
  BY <1>3, <1>5, AmountAssumption
<1>9. PICK n \in Nat, s \in Nat : n = c * Cardinality(F) /\ s = SumFunctionOnSet(G, F)
  BY <1>7, <1>8
<1>10. 5 * s < n /\ 5 * s >= n
  BY <1>6, <1>7, <1>8, <1>9
<1>11. QED BY <1>9, <1>10

(* What CheckIn asks of the charges it looks at, when there are any.        *)
LEMMA SatisfiedIsCovered ==
  ASSUME LedgerInv, NEW F \in SUBSET Fees, F # {}, NEW s, NEW p, NEW y,
         FeesFor(s, p, y) = F, Satisfied(s, p, y), policy.required
  PROVE  \E f \in F : Covered(f)
<1>1. Typed
  BY LedgerParts
<1>2. PICK n \in Nat : n = Cardinality(F) /\ n # 0
  BY KeyAssumption, FS_Subset, FS_CardinalityType, FS_EmptySet
<1>3. PICK due \in Nat : due = Due * n /\ due # 0
  BY <1>2, AmountAssumption
<1>4. PaidOn(F) \in Nat
  <2>1. PICK G : G = [f \in Fees |-> fees[f].paid]
    OBVIOUS
  <2>2. \A f \in Fees : G[f] \in Nat
    BY <1>1, <2>1, FeeLinked
  <2>3. QED BY <2>1, <2>2, SumType, KeyAssumption DEF PaidOn
<1>5. 5 * PaidOn(F) >= 3 * due \/ PaidOn(F) >= due
  BY <1>2, <1>3 DEF Satisfied
<1>6. 5 * PaidOn(F) >= 3 * (Due * Cardinality(F))
  BY <1>2, <1>3, <1>4, <1>5
<1>7. QED BY <1>6, SomeChargeIsPaid DEF Covered

(* Where payment is required, nobody moves in without payments on record:  *)
(* for that booking when the stay is for the session its student applied   *)
(* for, for one of the student's charges when it is for another or has no  *)
(* application.                                                            *)
THEOREM CheckInNeedsPaymentsOnRecord == Spec => CheckedInOnPayments
<1> DEFINE Step == \A a \in Allocations :
      LET p == ApplicationOf(a)
          s == allocs[a].student
          scoped == p # None /\ allocs[a].session = Applied
      IN  allocs[a].status = "reserved" /\ allocs'[a].status = "active" /\ policy.required
          => /\ (scoped /\ apps[p].student = s /\ Charges(p) # {}
                   => \E f \in Charges(p) : Covered(f))
             /\ (~scoped /\ StudentFees(s) # {} => \E f \in StudentFees(s) : Covered(f))
<1>1. ASSUME LedgerInv, [Next]_vars PROVE [Step]_vars
  <2> SUFFICES ASSUME Next, NEW a \in Allocations, NEW p, p = ApplicationOf(a),
                      NEW s, s = allocs[a].student, NEW y, y = allocs[a].session,
                      allocs[a].status = "reserved", allocs'[a].status = "active",
                      policy.required
               PROVE  /\ p # None /\ y = Applied /\ apps[p].student = s /\ Charges(p) # {}
                           => \E f \in Charges(p) : Covered(f)
                      /\ ~(p # None /\ y = Applied) /\ StudentFees(s) # {}
                           => \E f \in StudentFees(s) : Covered(f)
    BY <1>1
  <2>1. Satisfied(s, p, y)
    <3>1. CheckIn(a)
      BY <1>1, LedgerParts, OnlyCheckIn
    <3>2. QED BY <3>1 DEF CheckIn
  <2>2. ASSUME p # None, y = Applied, apps[p].student = s, Charges(p) # {}
        PROVE  \E f \in Charges(p) : Covered(f)
    <3>1. p \in Apps
      BY <2>2 DEF ApplicationOf
    <3>2. Charges(p) \in SUBSET Fees
      BY DEF Charges
    <3>3. \A f \in Charges(p) : f \in StudentFees(s)
      BY <2>2, <3>1, AbsentRows DEF Charges, StudentFees
    <3>4. FeesFor(s, p, y) = Charges(p)
      BY <2>2, <3>3 DEF FeesFor
    <3>5. QED BY <1>1, <2>1, <2>2, <3>2, <3>4, SatisfiedIsCovered
  <2>3. ASSUME ~(p # None /\ y = Applied), StudentFees(s) # {}
        PROVE  \E f \in StudentFees(s) : Covered(f)
    <3>1. StudentFees(s) \in SUBSET Fees
      BY DEF StudentFees
    <3>2. FeesFor(s, p, y) = StudentFees(s)
      BY <2>3 DEF FeesFor
    <3>3. QED BY <1>1, <2>1, <2>3, <3>1, <3>2, SatisfiedIsCovered
  <2>4. QED BY <2>2, <2>3
<1>2. QED BY <1>1, LedgerInvariant, PTL DEF Spec, CheckedInOnPayments
=============================================================================
