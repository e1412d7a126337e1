---------------------------- MODULE IDCardsProofs ----------------------------
(***************************************************************************)
(* Theorems about IDCards for any students, workers and policies.          *)
(***************************************************************************)
EXTENDS IDCards, SequenceTheorems, FiniteSetTheorems, TLAPS

(***************************************************************************)
(* Rows.                                                                   *)
(***************************************************************************)
(* What a worker holds, by what it fetched.                                *)
LEMMA CopyType ==
  ASSUME TypeOK, NEW w \in Workers
  PROVE  /\ mem[w].kind = "card" => mem[w].id \in 1..MaxCards /\ mem[w].row \in Card
         /\ mem[w].kind = "request" => mem[w].row \in RequestStatus
         /\ mem[w].kind \in {"photo", "uploaded"} =>
              mem[w].id \in Students /\ mem[w].row \in PhotoStatus
         /\ mem[w].kind = "students" =>
              mem[w].id \in SUBSET Students /\ mem[w].row \in [Students -> PhotoStatus]
BY DEF TypeOK, Copy, Idle

LEMMA IdleType == Idle \in Copy /\ Idle.kind = "idle"
BY DEF Idle, Copy

(* The rows only gain cards, holders stay, and a successor is never erased. *)
Grown ==
  /\ cards' \in Seq(Card) /\ Len(cards') <= MaxCards /\ Len(cards) <= Len(cards')
  /\ \A c \in DOMAIN cards :
       /\ cards'[c].student = cards[c].student
       /\ cards[c].replacedBy > 0 => cards'[c].replacedBy > 0
  /\ \A c \in DOMAIN cards' \ DOMAIN cards : HasPhoto(cards'[c].student)

(* A request that refers to what exists, and if completed to a successor.  *)
Consistent(r) ==
  /\ requests[r].card \in DOMAIN cards
  /\ requests[r].status = "completed" =>
       LET old == requests[r].card new == requests[r].new
       IN  /\ cards[old].replacedBy > 0
           /\ new \in DOMAIN cards /\ new > old /\ cards[new].student = cards[old].student

Recorded ==
  /\ requests' \in Seq(Request) /\ Len(requests') <= MaxRequests
  /\ Len(requests) <= Len(requests')
  /\ \A r \in DOMAIN requests' :
       (r \in DOMAIN requests /\ requests'[r] = requests[r]) \/ Consistent(r)'

(* What workers hold after a step on cards or requests.                    *)
Holding ==
  /\ mem' \in [Workers -> Copy]
  /\ \A w \in Workers :
       \/ mem'[w] = mem[w] \/ mem'[w] = Idle
       \/ mem'[w].kind = "request" /\ mem'[w].id \in DOMAIN requests'
       \/ mem'[w].kind = "card" /\ mem'[w].id \in DOMAIN cards'

(* A step on cards and requests that leaves the photos alone.              *)
LEMMA RowStep ==
  ASSUME CardInv, Grown, Recorded, Holding,
         UNCHANGED photo, policy' \in Policies, template' \in TemplateStatus
  PROVE  CardInv'
<1>1. cards \in Seq(Card) /\ requests \in Seq(Request)
  BY DEF CardInv, TypeOK
<1>2. DOMAIN cards = 1..Len(cards) /\ DOMAIN requests = 1..Len(requests)
  BY <1>1
<1>3. /\ DOMAIN cards' = 1..Len(cards') /\ DOMAIN requests' = 1..Len(requests')
      /\ DOMAIN cards \subseteq DOMAIN cards' /\ DOMAIN requests \subseteq DOMAIN requests'
  BY <1>1, <1>2 DEF Grown, Recorded
<1>4. TypeOK'
  <2>1. \A c \in DOMAIN cards' : HasPhoto(cards'[c].student)
    BY DEF CardInv, TypeOK, Grown
  <2>2. QED BY <2>1 DEF CardInv, TypeOK, Grown, Recorded, Holding, HasPhoto
<1>5. ASSUME NEW r \in DOMAIN requests'
      PROVE  Consistent(r)'
  <2>1. CASE Consistent(r)'
    BY <2>1
  <2>2. CASE r \in DOMAIN requests /\ requests'[r] = requests[r]
    <3>1. Consistent(r)
      BY <2>2 DEF CardInv, RowsExist, Superseded, Consistent
    <3>2. QED BY <1>3, <2>2, <3>1 DEF Consistent, Grown
  <2>3. QED BY <2>1, <2>2 DEF Recorded
<1>6. ASSUME NEW w \in Workers
      PROVE  /\ mem'[w].kind = "card" => mem'[w].id \in DOMAIN cards'
             /\ mem'[w].kind = "request" => mem'[w].id \in DOMAIN requests'
             /\ mem'[w].kind \in {"card", "request", "idle"} \/ mem'[w] = mem[w]
  BY <1>3, IdleType DEF CardInv, RowsExist, Holding
<1>7. PhotosBehind'
  BY <1>6 DEF CardInv, PhotosBehind, HasPhoto
<1>8. RowsExist' /\ Superseded'
  BY <1>5, <1>6 DEF RowsExist, Superseded, Consistent
<1>9. QED BY <1>4, <1>7, <1>8 DEF CardInv

(* Nothing but the worker's copy changes in these.                         *)
LEMMA SameRows ==
  ASSUME CardInv
  PROVE  /\ UNCHANGED cards => Grown
         /\ UNCHANGED requests => Recorded
BY DEF CardInv, TypeOK, Grown, Recorded

LEMMA DoneHolds ==
  ASSUME TypeOK, NEW w \in Workers, Done(w)
  PROVE  Holding /\ mem'[w] = Idle /\ \A v \in Workers \ {w} : mem'[v] = mem[v]
BY IdleType DEF Done, TypeOK, Holding

(***************************************************************************)
(* Actions on photos.                                                      *)
(***************************************************************************)
LEMMA PhotoStep ==
  ASSUME CardInv, NEW w \in Workers,
         UploadPhoto(w) \/ AutoApprove(w) \/ ApprovePhoto(w) \/ RejectPhoto(w)
  PROVE  CardInv'
<1>0. TypeOK /\ PhotosBehind /\ RowsExist /\ Superseded
  BY DEF CardInv
<1>1. PICK s : s = mem[w].id
  OBVIOUS
<1>2. s \in Students
  BY <1>0, <1>1, CopyType DEF UploadPhoto, AutoApprove, ApprovePhoto, RejectPhoto
<1>3. photo[s] \in PhotoStatus
  BY <1>0, <1>2 DEF TypeOK
<1>4. /\ photo' \in [Students -> PhotoStatus] /\ photo'[s] # "none"
      /\ \A t \in Students \ {s} : photo'[t] = photo[t]
      /\ mem' \in [Workers -> Copy] /\ mem'[w].kind \in {"idle", "uploaded"}
      /\ mem'[w].kind = "uploaded" => mem'[w].id = s
      /\ \A v \in Workers \ {w} : mem'[v] = mem[v]
      /\ UNCHANGED <<cards, requests, policy, template>>
  <2>1. CASE UploadPhoto(w)
    <3>1. photo' = [photo EXCEPT ![s] = "pending"]
      BY <1>1, <2>1 DEF UploadPhoto
    <3>4. Fetched("uploaded", s, "pending") \in Copy
      BY <1>2 DEF Copy, Fetched, PhotoStatus
    <3>5. mem' = [mem EXCEPT ![w] = Fetched("uploaded", s, "pending")]
      BY <1>1, <2>1 DEF UploadPhoto
    <3>6. photo' \in [Students -> PhotoStatus] /\ photo'[s] # "none"
      BY <1>0, <1>2, <3>1 DEF TypeOK, PhotoStatus
    <3>7. mem' \in [Workers -> Copy] /\ mem'[w] = Fetched("uploaded", s, "pending")
      BY <1>0, <3>4, <3>5 DEF TypeOK
    <3>8. QED BY <1>0, <2>1, <3>1, <3>5, <3>6, <3>7 DEF TypeOK, UploadPhoto, Fetched
  <2>2. ASSUME NEW status \in {"approved", "rejected"}, SetPhoto(w, status)
        PROVE  <1>4!:
    <3>1. photo' = [photo EXCEPT ![s] = status]
      BY <1>1, <2>2 DEF SetPhoto
    <3>2. photo' \in [Students -> PhotoStatus] /\ photo'[s] # "none"
      BY <1>0, <1>2, <3>1 DEF TypeOK, PhotoStatus
    <3>3. QED BY <1>0, <1>2, <2>2, <3>1, <3>2, DoneHolds, IdleType DEF SetPhoto, Holding, TypeOK
  <2>3. CASE AutoApprove(w)
    BY <2>2, <2>3 DEF AutoApprove
  <2>4. CASE ApprovePhoto(w)
    BY <2>2, <2>4 DEF ApprovePhoto
  <2>5. CASE RejectPhoto(w)
    BY <2>2, <2>5 DEF RejectPhoto
  <2>6. QED BY <2>1, <2>3, <2>4, <2>5
<1>5. \A t \in Students : HasPhoto(t) => HasPhoto(t)'
  BY <1>4 DEF HasPhoto
<1>6. TypeOK'
  <2>1. ASSUME NEW c \in DOMAIN cards PROVE photo'[cards[c].student] # "none"
    <3>1. cards[c] \in Card /\ photo[cards[c].student] # "none"
      BY <1>0 DEF TypeOK, HasPhoto
    <3>2. cards[c].student \in Students
      BY <3>1 DEF Card
    <3>3. QED BY <1>4, <3>1, <3>2
  <2>2. QED BY <1>0, <1>4, <2>1 DEF TypeOK, HasPhoto
<1>7. PhotosBehind'
  <2>1. ASSUME NEW v \in Workers
        PROVE  /\ mem'[v].kind = "uploaded" => photo'[mem'[v].id] # "none"
               /\ mem'[v].kind = "photo" /\ mem'[v].row # "none" =>
                    photo'[mem'[v].id] # "none"
               /\ mem'[v].kind = "students" =>
                    \A t \in Students : mem'[v].row[t] # "none" => photo'[t] # "none"
    <3>1. CASE v = w
      BY <1>4, <3>1
    <3>2. CASE v # w
      BY <1>0, <1>4, <1>5, <3>2, CopyType DEF PhotosBehind, HasPhoto
    <3>3. QED BY <3>1, <3>2
  <2>2. QED BY <2>1 DEF PhotosBehind, HasPhoto
<1>8. RowsExist'
  <2>1. ASSUME NEW v \in Workers
        PROVE  /\ mem'[v].kind = "card" => mem'[v].id \in DOMAIN cards'
               /\ mem'[v].kind = "request" => mem'[v].id \in DOMAIN requests'
    BY <1>0, <1>4 DEF RowsExist
  <2>2. QED BY <1>0, <1>4, <2>1 DEF RowsExist
<1>9. QED BY <1>0, <1>4, <1>6, <1>7, <1>8 DEF CardInv, Superseded

LEMMA FetchStep ==
  ASSUME CardInv, NEW w \in Workers,
         FetchCard(w) \/ FetchRequest(w) \/ FetchPhoto(w) \/ FetchStudent(w) \/ FetchSelection(w)
  PROVE  CardInv'
<1>0. TypeOK /\ PhotosBehind /\ RowsExist /\ Superseded
  BY DEF CardInv
<1>1. PICK copy : /\ Fetch(w, copy) /\ copy \in Copy
                  /\ copy.kind = "card" => copy.id \in DOMAIN cards
                  /\ copy.kind = "request" => copy.id \in DOMAIN requests
                  /\ copy.kind # "uploaded"
                  /\ copy.kind = "photo" /\ copy.row # "none" => HasPhoto(copy.id)
                  /\ copy.kind = "students" =>
                       \A s \in Students : copy.row[s] # "none" => HasPhoto(s)
  <2>1. CASE FetchCard(w)
    <3>1. PICK c \in DOMAIN cards : Fetch(w, Fetched("card", c, cards[c]))
      BY <2>1 DEF FetchCard
    <3>2. c \in 1..MaxCards /\ cards[c] \in Card
      BY <1>0, BoundAssumption DEF TypeOK
    <3>3. QED BY <3>1, <3>2 DEF Copy, Fetched
  <2>2. CASE FetchRequest(w)
    <3>1. PICK r \in DOMAIN requests : Fetch(w, Fetched("request", r, requests[r].status))
      BY <2>2 DEF FetchRequest
    <3>2. r \in 1..MaxRequests /\ requests[r] \in Request
      BY <1>0, BoundAssumption DEF TypeOK
    <3>3. requests[r].status \in RequestStatus
      BY <3>2 DEF Request
    <3>4. QED BY <3>1, <3>2, <3>3 DEF Copy, Fetched
  <2>3. CASE FetchPhoto(w)
    <3>1. PICK s \in Students : Fetch(w, Fetched("photo", s, photo[s]))
      BY <2>3 DEF FetchPhoto
    <3>2. photo[s] \in PhotoStatus
      BY <1>0 DEF TypeOK
    <3>3. QED BY <1>0, <3>1, <3>2 DEF Copy, Fetched, HasPhoto
  <2>4. CASE FetchStudent(w) \/ FetchSelection(w)
    <3>1. PICK chosen \in SUBSET Students : FetchStudents(w, chosen)
      BY <2>4 DEF FetchStudent, FetchSelection
    <3>2. PICK seen : seen = [s \in Students |-> photo[s]]
      OBVIOUS
    <3>3. seen \in [Students -> PhotoStatus] /\ \A s \in Students : seen[s] = photo[s]
      BY <1>0, <3>2 DEF TypeOK
    <3>4. Fetched("students", chosen, seen) \in Copy
      BY <3>3 DEF Copy, Fetched
    <3>5. QED BY <1>0, <3>1, <3>2, <3>3, <3>4 DEF FetchStudents, Fetched, HasPhoto
  <2>5. QED BY <2>1, <2>2, <2>3, <2>4
<1>2. /\ UNCHANGED <<photo, cards, requests, policy, template>>
      /\ mem' \in [Workers -> Copy] /\ mem'[w] = copy
      /\ \A v \in Workers \ {w} : mem'[v] = mem[v]
  BY <1>0, <1>1 DEF Fetch, TypeOK
<1>3. TypeOK'
  BY <1>0, <1>2 DEF TypeOK, HasPhoto
<1>4. PhotosBehind' /\ RowsExist'
  <2>1. ASSUME NEW v \in Workers
        PROVE  /\ mem'[v].kind = "uploaded" => HasPhoto(mem'[v].id)
               /\ mem'[v].kind = "photo" /\ mem'[v].row # "none" => HasPhoto(mem'[v].id)
               /\ mem'[v].kind = "students" =>
                    \A t \in Students : mem'[v].row[t] # "none" => HasPhoto(t)
               /\ mem'[v].kind = "card" => mem'[v].id \in DOMAIN cards
               /\ mem'[v].kind = "request" => mem'[v].id \in DOMAIN requests
    <3>1. CASE v = w
      BY <1>1, <1>2, <3>1
    <3>2. CASE v # w
      BY <1>0, <1>2, <3>2 DEF PhotosBehind, RowsExist
    <3>3. QED BY <3>1, <3>2
  <2>2. QED BY <1>0, <1>2, <2>1 DEF PhotosBehind, RowsExist, HasPhoto
<1>5. QED BY <1>0, <1>2, <1>3, <1>4 DEF CardInv, Superseded

(***************************************************************************)
(* Actions on cards and requests.                                          *)
(***************************************************************************)
LEMMA NewCardType ==
  ASSUME NEW s \in Students
  PROVE  NewCard(s) \in Card /\ NewCard(s).student = s /\ NewCard(s).status = "generated"
BY BoundAssumption DEF NewCard, Card, CardStatus

(* The columns that are written leave the holder and a successor alone.    *)
LEMMA Rewritten ==
  ASSUME CardInv, NEW c \in DOMAIN cards, NEW card \in Card,
         cards' = [cards EXCEPT ![c] = card], card.student = cards[c].student,
         cards[c].replacedBy > 0 => card.replacedBy > 0
  PROVE  Grown /\ DOMAIN cards' = DOMAIN cards /\ cards'[c] = card
         /\ \A d \in DOMAIN cards \ {c} : cards'[d] = cards[d]
BY DEF CardInv, TypeOK, Grown

(* Cards are numbered in the order of their insertion.                     *)
LEMMA Inserted ==
  ASSUME CardInv, NEW made \in Seq(Card), cards' = cards \o made,
         \A i \in DOMAIN made : HasPhoto(made[i].student),
         Len(cards) + Len(made) <= MaxCards
  PROVE  Grown /\ Len(cards') = Len(cards) + Len(made)
         /\ \A c \in DOMAIN cards : cards'[c] = cards[c]
<1>1. cards \in Seq(Card)
  BY DEF CardInv, TypeOK
<1>2. /\ cards \o made \in Seq(Card) /\ Len(cards \o made) = Len(cards) + Len(made)
      /\ \A i \in 1..Len(cards) + Len(made) :
           (cards \o made)[i] = IF i <= Len(cards) THEN cards[i] ELSE made[i - Len(cards)]
  BY <1>1, ConcatProperties
<1>3. \A c \in DOMAIN cards' \ DOMAIN cards : HasPhoto(cards'[c].student)
  <2>1. \A c \in DOMAIN cards' \ DOMAIN cards :
          c - Len(cards) \in DOMAIN made /\ cards'[c] = made[c - Len(cards)]
    BY <1>1, <1>2
  <2>2. QED BY <2>1
<1>4. QED BY <1>1, <1>2, <1>3 DEF Grown

(* The sequence that a batch makes of its students.                        *)
LEMMA BatchSequence ==
  ASSUME NEW S \in SUBSET Students
  PROVE  SetToSeq(S) \in Seq(S)
<1>1. IsFiniteSet(S)
  BY FS_Subset, BoundAssumption
<1>2. Cardinality(S) \in Nat /\ ExistsBijection(1..Cardinality(S), S)
  BY <1>1, FS_CardinalityType
<1>3. \E f \in [1..Cardinality(S) -> S] : IsInjective(f)
  BY <1>2 DEF ExistsBijection, Bijection, Injection
<1>4. SetToSeq(S) \in [1..Cardinality(S) -> S]
  BY <1>3 DEF SetToSeq
<1>5. QED BY <1>2, <1>4

(* What a replacement that passes preflight leaves behind.                 *)
LEMMA ReplacedEffect ==
  ASSUME CardInv, NEW c \in DOMAIN cards, CanReplace(c), cards' = Replaced(c)
  PROVE  /\ Grown /\ Len(cards) + 1 \in DOMAIN cards' /\ Len(cards) + 1 \in 1..MaxCards
         /\ c \in DOMAIN cards' /\ c < Len(cards) + 1
         /\ cards'[c].status = "replaced" /\ cards'[c].replacedBy = Len(cards) + 1
         /\ cards'[c].student = cards[c].student
         /\ cards'[Len(cards) + 1].student = cards[c].student
         /\ cards'[Len(cards) + 1].status = "generated"
         /\ \A d \in DOMAIN cards \ {c} : cards'[d] = cards[d]
<1> DEFINE n == Len(cards) + 1
<1>1. cards \in Seq(Card) /\ cards[c] \in Card /\ Len(cards) < MaxCards
  BY DEF CardInv, TypeOK, CanReplace
<1>2. n \in 1..MaxCards /\ n \in 0..MaxCards /\ n > 0 /\ c < n
  BY <1>1, BoundAssumption
<1>3. cards[c].student \in Students
  BY <1>1 DEF Card
<1>4. PICK new : new = NewCard(cards[c].student)
  OBVIOUS
<1>5. new \in Card /\ new.student = cards[c].student /\ new.status = "generated"
  BY <1>3, <1>4, NewCardType
<1>6. PICK old : old = [[cards[c] EXCEPT !.status = "replaced"] EXCEPT !.replacedBy = n]
  OBVIOUS
<1>7. old \in Card /\ old.status = "replaced" /\ old.replacedBy = n
      /\ old.student = cards[c].student
  BY <1>1, <1>2, <1>6 DEF Card, CardStatus
<1>8. [cards EXCEPT ![c].status = "replaced", ![c].replacedBy = n] = [cards EXCEPT ![c] = old]
  <2>1. [cards EXCEPT ![c].status = "replaced"][c] = [cards[c] EXCEPT !.status = "replaced"]
    BY <1>1
  <2>2. QED BY <1>1, <1>6, <2>1
<1>9. PICK marked : marked = [cards EXCEPT ![c] = old] /\ cards' = Append(marked, new)
  BY <1>4, <1>8 DEF Replaced
<1>10. /\ marked \in Seq(Card) /\ Len(marked) = Len(cards) /\ marked[c] = old
       /\ \A d \in DOMAIN cards \ {c} : marked[d] = cards[d]
  BY <1>1, <1>7, <1>9
<1>11. /\ cards' \in Seq(Card) /\ Len(cards') = n /\ cards'[c] = old /\ cards'[n] = new
       /\ \A d \in DOMAIN cards \ {c} : cards'[d] = cards[d]
  BY <1>1, <1>5, <1>9, <1>10
<1> HIDE DEF n
<1>12. DOMAIN cards' = 1..n
  BY <1>2, <1>11
<1>13. Grown
  <2>1. HasPhoto(new.student)
    BY <1>3, <1>5 DEF CanReplace, Preflight, HasPhoto
  <2>2. DOMAIN cards' \ DOMAIN cards = {n}
    BY <1>1, <1>2, <1>12 DEF n
  <2>3. QED BY <1>1, <1>2, <1>7, <1>11, <2>1, <2>2 DEF Grown, n
<1>14. QED BY <1>2, <1>5, <1>7, <1>11, <1>12, <1>13 DEF n

(* One request changes, or one is filed.                                   *)
LEMMA RequestKept ==
  ASSUME CardInv, Grown, NEW r \in DOMAIN requests, NEW request \in Request,
         requests' = [requests EXCEPT ![r] = request], Consistent(r)'
  PROVE  Recorded
BY DEF CardInv, TypeOK, Recorded

LEMMA RequestFiled ==
  ASSUME CardInv, Grown, NEW request \in Request, Len(requests) < MaxRequests,
         requests' = Append(requests, request),
         NEW r, r = Len(requests) + 1, Consistent(r)'
  PROVE  Recorded /\ r \in DOMAIN requests'
<1>1. requests \in Seq(Request)
  BY DEF CardInv, TypeOK
<1>2. /\ requests' \in Seq(Request) /\ Len(requests') = Len(requests) + 1
      /\ \A q \in 1..Len(requests) : requests'[q] = requests[q]
  BY <1>1
<1>3. QED BY <1>1, <1>2, BoundAssumption DEF Recorded

LEMMA NewRequestType ==
  ASSUME NEW c \in 1..MaxCards
  PROVE  /\ NewRequest(c) \in Request /\ NewRequest(c).card = c
         /\ NewRequest(c).status = "pending"
BY BoundAssumption DEF NewRequest, Request, RequestStatus

(* A request that is pending and refers to a card is consistent.           *)
LEMMA FiledPending ==
  ASSUME CardInv, Grown, NEW c \in DOMAIN cards, Len(requests) < MaxRequests,
         requests' = Append(requests, NewRequest(c))
  PROVE  Recorded /\ Len(requests) + 1 \in DOMAIN requests'
<1>1. cards \in Seq(Card) /\ Len(cards) <= MaxCards /\ requests \in Seq(Request)
  BY DEF CardInv, TypeOK
<1>2. c \in 1..MaxCards /\ c \in DOMAIN cards'
  BY <1>1, BoundAssumption DEF Grown
<1> PICK r : r = Len(requests) + 1
  OBVIOUS
<1>3. requests'[r] = NewRequest(c)
  BY <1>1
<1>4. Consistent(r)'
  BY <1>1, <1>2, <1>3, NewRequestType DEF Consistent
<1>5. QED BY <1>2, <1>4, NewRequestType, RequestFiled

(* What save(update_fields) of a status leaves behind.                     *)
LEMMA StoreEffect ==
  ASSUME CardInv, NEW w \in Workers, NEW status \in CardStatus, Store(w, status)
  PROVE  /\ mem[w].id \in DOMAIN cards /\ Grown /\ DOMAIN cards' = DOMAIN cards
         /\ cards'[mem[w].id].status = status
         /\ \A d \in DOMAIN cards \ {mem[w].id} : cards'[d] = cards[d]
<1> DEFINE c == mem[w].id
<1>1. c \in DOMAIN cards /\ cards \in Seq(Card)
  BY DEF CardInv, TypeOK, RowsExist, Store
<1>2. cards[c] \in Card
  BY <1>1
<1>3. PICK card : card = [cards[c] EXCEPT !.status = status]
  OBVIOUS
<1>4. card \in Card /\ card.status = status /\ card.student = cards[c].student
      /\ card.replacedBy = cards[c].replacedBy
  BY <1>2, <1>3 DEF Card
<1>5. cards' = [cards EXCEPT ![c] = card]
  BY <1>3 DEF Store, Written
<1> HIDE DEF c
<1>6. QED BY <1>1, <1>4, <1>5, Rewritten DEF c

LEMMA MarkStep ==
  ASSUME CardInv, NEW w \in Workers, NEW status \in CardStatus, Store(w, status)
  PROVE  CardInv'
<1>1. TypeOK /\ Done(w) /\ UNCHANGED <<photo, requests, policy, template>>
  BY DEF CardInv, Store
<1>2. Grown /\ Recorded /\ Holding
  BY <1>1, StoreEffect, SameRows, DoneHolds
<1>3. QED BY <1>1, <1>2, RowStep DEF TypeOK

LEMMA CardMarks ==
  ASSUME NEW w, MarkPrinted(w) \/ Issue(w) \/ Cancel(w) \/ MarkLost(w) \/ MarkDamaged(w)
  PROVE  \E status \in CardStatus \ {"replaced"} :
           /\ Store(w, status)
           /\ status \in Live => mem[w].row.status \in Live
BY DEF MarkPrinted, Printable, Issue, Cancel, MarkLost, MarkDamaged, CardStatus, Live

(* What generating cards leaves behind: those that there were, and others. *)
LEMMA GenerateEffect ==
  ASSUME CardInv, NEW w \in Workers, GenerateOne(w) \/ GenerateBatch(w)
  PROVE  Grown /\ Done(w) /\ UNCHANGED <<photo, requests, policy, template>>
         /\ \A c \in DOMAIN cards : cards'[c] = cards[c]
<1>0. TypeOK /\ PhotosBehind /\ cards \in Seq(Card)
  BY DEF CardInv, TypeOK
<1>1. ASSUME mem[w].kind = "students", NEW s \in Students, Preflight(s, mem[w].row[s], {})
      PROVE  NewCard(s) \in Card /\ HasPhoto(NewCard(s).student)
  BY <1>0, <1>1, NewCardType DEF Preflight, PhotosBehind
<1>2. CASE GenerateOne(w)
  <2>1. PICK s \in Students : /\ Preflight(s, mem[w].row[s], {})
                              /\ cards' = Append(cards, NewCard(s))
    BY <1>2 DEF GenerateOne
  <2>2. NewCard(s) \in Card /\ HasPhoto(NewCard(s).student)
    BY <1>1, <1>2, <2>1 DEF GenerateOne
  <2>3. PICK made : made = <<NewCard(s)>>
    OBVIOUS
  <2>7. /\ made \in Seq(Card) /\ Len(made) = 1
         /\ \A i \in DOMAIN made : HasPhoto(made[i].student)
    BY <2>2, <2>3
  <2>4. cards' = cards \o made
    BY <1>0, <2>1, <2>2, <2>3, AppendIsConcat
  <2>5. Len(cards) + 1 <= MaxCards
    BY <1>0, <1>2, BoundAssumption DEF GenerateOne
  <2>6. QED BY <1>2, <2>7, <2>4, <2>5, Inserted DEF GenerateOne
<1>3. CASE GenerateBatch(w)
  <2>1. PICK ready : ready = {s \in mem[w].id : Preflight(s, mem[w].row[s], {})}
    OBVIOUS
  <2>2. PICK made : /\ made = SetToSeq(ready) /\ Len(cards) + Len(made) <= MaxCards
                    /\ cards' = cards \o [i \in DOMAIN made |-> NewCard(made[i])]
    BY <1>3, <2>1 DEF GenerateBatch
  <2>3. ready \subseteq Students /\ \A s \in ready : NewCard(s) \in Card /\ HasPhoto(NewCard(s).student)
    BY <1>0, <1>1, <1>3, <2>1, CopyType DEF GenerateBatch
  <2>4. made \in Seq(ready)
    BY <2>2, <2>3, BatchSequence
  <2>5. PICK new : new = [i \in DOMAIN made |-> NewCard(made[i])]
    OBVIOUS
  <2>6. /\ new \in Seq(Card) /\ Len(new) = Len(made)
        /\ \A i \in DOMAIN new : HasPhoto(new[i].student)
    BY <2>3, <2>4, <2>5
  <2>7. QED BY <1>3, <2>2, <2>5, <2>6, Inserted DEF GenerateBatch
<1>4. QED BY <1>2, <1>3

LEMMA GenerateStep ==
  ASSUME CardInv, NEW w \in Workers, GenerateOne(w) \/ GenerateBatch(w)
  PROVE  CardInv'
<1>1. TypeOK
  BY DEF CardInv
<1>2. Grown /\ Recorded /\ Holding /\ UNCHANGED <<photo, policy, template>>
  BY <1>1, GenerateEffect, SameRows, DoneHolds
<1>3. QED BY <1>1, <1>2, RowStep DEF TypeOK

(* A replacement completes the request in the step that makes the card.    *)
LEMMA CompletedType ==
  ASSUME CardInv, NEW c \in DOMAIN cards, CanReplace(c), cards' = Replaced(c)
  PROVE  \A request \in {[card |-> c, status |-> "completed", new |-> Len(cards) + 1]} :
           request \in Request
<1>1. Len(cards) + 1 \in 1..MaxCards /\ c \in 1..MaxCards
  BY ReplacedEffect, BoundAssumption DEF CardInv, TypeOK
<1>2. Len(cards) + 1 \in 0..MaxCards
  BY <1>1
<1>3. QED BY <1>1, <1>2 DEF Request, RequestStatus

LEMMA ReplaceStep ==
  ASSUME CardInv, NEW w \in Workers, ApproveRequest(w)
  PROVE  CardInv'
<1>1. PICK r, c : r = mem[w].id /\ c = requests[r].card
  OBVIOUS
<1>2. TypeOK /\ requests \in Seq(Request) /\ r \in DOMAIN requests /\ c \in DOMAIN cards
  BY <1>1 DEF CardInv, TypeOK, RowsExist, ApproveRequest
<1>3. /\ CanReplace(c) /\ cards' = Replaced(c) /\ Done(w)
      /\ requests' = [requests EXCEPT ![r].status = "completed", ![r].new = Len(cards) + 1]
      /\ UNCHANGED <<photo, policy, template>>
  BY <1>1 DEF ApproveRequest, Replace
<1>4. PICK n : n = Len(cards) + 1
  OBVIOUS
<1>5. PICK request : request = [card |-> c, status |-> "completed", new |-> n]
  OBVIOUS
<1>6. request \in Request
  BY <1>2, <1>3, <1>4, <1>5, CompletedType
<1>7. requests' = [requests EXCEPT ![r] = request]
  <2>1. requests[r] \in Request
    BY <1>2
  <2>2. PICK half : half = [requests[r] EXCEPT !.status = "completed"]
    OBVIOUS
  <2>3. half = [card |-> c, status |-> "completed", new |-> requests[r].new]
    BY <1>1, <2>1, <2>2 DEF Request
  <2>4. [half EXCEPT !.new = n] = request
    BY <1>5, <2>3
  <2>5. [requests EXCEPT ![r].status = "completed"][r] = half
    BY <1>2, <2>2
  <2>6. [requests EXCEPT ![r].status = "completed", ![r].new = n] = [requests EXCEPT ![r] = request]
    BY <1>2, <2>4, <2>5
  <2>7. QED BY <1>3, <1>4, <2>6
<1>8. Grown
  BY <1>2, <1>3, ReplacedEffect
<1>9. requests'[r] = request
  BY <1>2, <1>7
<1>10. Consistent(r)'
  <2>1. n > 0
    BY <1>2, <1>4 DEF TypeOK
  <2>2. /\ n \in DOMAIN cards' /\ c \in DOMAIN cards' /\ c < n /\ cards'[c].replacedBy = n
        /\ cards'[n].student = cards'[c].student
    BY <1>2, <1>3, <1>4, ReplacedEffect
  <2>3. QED BY <1>5, <1>9, <2>1, <2>2 DEF Consistent
<1>11. Recorded
  BY <1>2, <1>6, <1>7, <1>8, <1>10, RequestKept
<1>12. QED BY <1>2, <1>3, <1>8, <1>11, DoneHolds, RowStep DEF TypeOK

(* The expiry sweep on one card.                                           *)
LEMMA RetiredEffect ==
  ASSUME CardInv, NEW c \in DOMAIN cards, cards' = [cards EXCEPT ![c].status = "expired"]
  PROVE  Grown /\ DOMAIN cards' = DOMAIN cards /\ cards'[c].status = "expired"
         /\ \A d \in DOMAIN cards \ {c} : cards'[d] = cards[d]
<1>1. cards[c] \in Card
  BY DEF CardInv, TypeOK
<1>2. PICK card : card = [cards[c] EXCEPT !.status = "expired"]
  OBVIOUS
<1>3. card \in Card /\ card.status = "expired" /\ card.student = cards[c].student
      /\ card.replacedBy = cards[c].replacedBy
  BY <1>1, <1>2 DEF Card, CardStatus
<1>4. cards' = [cards EXCEPT ![c] = card]
  BY <1>2
<1>5. QED BY <1>3, <1>4, Rewritten

LEMMA ExpireStep ==
  ASSUME CardInv, NEW c \in DOMAIN cards, Expire(c)
  PROVE  CardInv'
<1>1. TypeOK /\ cards \in Seq(Card) /\ requests \in Seq(Request)
  BY DEF CardInv, TypeOK
<1>2. UNCHANGED <<photo, policy, template, mem>>
  BY DEF Expire
<1>3. Grown /\ Recorded
  <2>1. CASE ~(policy.renewal = "yes" /\ policy.requests = "yes")
    <3>1. cards' = [cards EXCEPT ![c].status = "expired"] /\ requests' = requests
      BY <2>1 DEF Expire
    <3>2. QED BY <3>1, RetiredEffect, SameRows
  <2>2. CASE /\ policy.renewal = "yes" /\ policy.requests = "yes" /\ ~CanReplace(c)
    <3>1. /\ cards' = [cards EXCEPT ![c].status = "expired"]
          /\ Len(requests) < MaxRequests /\ requests' = Append(requests, NewRequest(c))
      BY <2>2 DEF Expire
    <3>2. QED BY <3>1, RetiredEffect, FiledPending
  <2>3. CASE /\ policy.renewal = "yes" /\ policy.requests = "yes" /\ CanReplace(c)
    <3>1. PICK n, r, request :
            /\ n = Len(cards) + 1 /\ r = Len(requests) + 1
            /\ request = [card |-> c, status |-> "completed", new |-> n]
      OBVIOUS
    <3>2. /\ cards' = Replaced(c) /\ Len(requests) < MaxRequests
          /\ requests' = Append(requests, request)
      BY <2>3, <3>1 DEF Expire
    <3>3. request \in Request
      BY <2>3, <3>1, <3>2, CompletedType
    <3>4. requests'[r] = request /\ n > 0
      BY <1>1, <3>1, <3>2
    <3>5. /\ Grown /\ n \in DOMAIN cards' /\ c \in DOMAIN cards' /\ c < n
          /\ cards'[c].replacedBy = n /\ cards'[n].student = cards'[c].student
      BY <2>3, <3>1, <3>2, ReplacedEffect
    <3>6. Consistent(r)'
      BY <3>1, <3>4, <3>5 DEF Consistent
    <3>7. QED BY <3>1, <3>2, <3>3, <3>5, <3>6, RequestFiled
  <2>4. QED BY <2>1, <2>2, <2>3
<1>4. Holding
  BY <1>1, <1>2 DEF TypeOK, Holding
<1>5. QED BY <1>1, <1>2, <1>3, <1>4, RowStep DEF TypeOK

LEMMA PassesStep ==
  ASSUME CardInv, NEW c \in DOMAIN cards, ExpiryPasses(c)
  PROVE  CardInv' /\ \A d \in DOMAIN cards : cards'[d].status = cards[d].status
<1>1. TypeOK /\ cards \in Seq(Card) /\ cards[c] \in Card
  BY DEF CardInv, TypeOK
<1>2. PICK card : card = [cards[c] EXCEPT !.past = "yes"]
  OBVIOUS
<1>3. card \in Card /\ card.status = cards[c].status /\ card.student = cards[c].student
      /\ card.replacedBy = cards[c].replacedBy
  BY <1>1, <1>2 DEF Card
<1>4. cards' = [cards EXCEPT ![c] = card] /\ UNCHANGED <<photo, requests, policy, template, mem>>
  BY <1>2 DEF ExpiryPasses
<1>5. Grown /\ cards'[c] = card /\ \A d \in DOMAIN cards \ {c} : cards'[d] = cards[d]
  BY <1>3, <1>4, Rewritten
<1>6. Recorded /\ Holding
  BY <1>1, <1>4, SameRows DEF TypeOK, Holding
<1>7. QED BY <1>1, <1>3, <1>4, <1>5, <1>6, RowStep DEF TypeOK

LEMMA RequestStep ==
  ASSUME CardInv, NEW w \in Workers, FileRequest(w) \/ ReplaceDirect(w) \/ RejectRequest(w)
  PROVE  CardInv'
<1>1. TypeOK /\ requests \in Seq(Request) /\ cards \in Seq(Card) /\ Len(cards) <= MaxCards
  BY DEF CardInv, TypeOK
<1>2. Grown /\ UNCHANGED <<photo, cards, policy, template>>
  BY SameRows DEF FileRequest, ReplaceDirect, RejectRequest
<1>3. CASE FileRequest(w)
  <2>1. mem[w].id \in DOMAIN cards
    BY <1>3 DEF FileRequest, CardInv, RowsExist
  <2>2. Recorded
    BY <1>2, <1>3, <2>1, FiledPending DEF FileRequest
  <2>3. QED BY <1>1, <1>2, <1>3, <2>2, DoneHolds, RowStep DEF FileRequest, TypeOK
<1>4. CASE ReplaceDirect(w)
  <2>1. mem[w].id \in DOMAIN cards
    BY <1>4 DEF ReplaceDirect, CardInv, RowsExist
  <2>2. Recorded /\ Len(requests) + 1 \in DOMAIN requests'
    BY <1>2, <1>4, <2>1, FiledPending DEF ReplaceDirect
  <2>3. PICK r : r = Len(requests) + 1
    OBVIOUS
  <2>4. r \in 1..MaxRequests
    BY <1>1, <1>4, <2>3, BoundAssumption DEF ReplaceDirect
  <2>5. Fetched("request", r, "pending") \in Copy
    BY <2>4 DEF Fetched, Copy, RequestStatus
  <2>6. mem' = [mem EXCEPT ![w] = Fetched("request", r, "pending")]
    BY <1>4, <2>3 DEF ReplaceDirect
  <2>7. Holding
    BY <1>1, <2>2, <2>3, <2>5, <2>6 DEF TypeOK, Holding, Fetched
  <2>8. QED BY <1>1, <1>2, <2>2, <2>7, RowStep DEF TypeOK
<1>5. CASE RejectRequest(w)
  <2>1. PICK r : r = mem[w].id
    OBVIOUS
  <2>2. r \in DOMAIN requests /\ requests[r] \in Request /\ requests[r].card \in DOMAIN cards
    BY <1>1, <1>5, <2>1 DEF RejectRequest, CardInv, RowsExist
  <2>3. PICK request : request = [requests[r] EXCEPT !.status = "rejected"]
    OBVIOUS
  <2>4. request \in Request /\ request.card = requests[r].card /\ request.status = "rejected"
    BY <2>2, <2>3 DEF Request, RequestStatus
  <2>5. requests' = [requests EXCEPT ![r] = request] /\ requests'[r] = request
    BY <1>1, <1>5, <2>1, <2>2, <2>3 DEF RejectRequest
  <2>6. Consistent(r)'
    BY <1>2, <2>2, <2>4, <2>5 DEF Consistent
  <2>7. Recorded
    BY <1>2, <2>2, <2>4, <2>5, <2>6, RequestKept
  <2>8. QED BY <1>1, <1>2, <1>5, <2>7, DoneHolds, RowStep DEF RejectRequest, TypeOK
<1>6. QED BY <1>3, <1>4, <1>5

LEMMA CardStep == CardInv /\ [Next]_vars => CardInv'
<1> SUFFICES ASSUME CardInv, [Next]_vars PROVE CardInv' OBVIOUS
<1>1. TypeOK
  BY DEF CardInv
<1>2. CASE SaveSettings \/ ChangeTemplates \/ UNCHANGED vars
  <2>1. /\ policy' \in Policies /\ template' \in TemplateStatus
        /\ UNCHANGED <<photo, cards, requests, mem>>
    BY <1>1, <1>2 DEF SaveSettings, ChangeTemplates, vars, TypeOK, TemplateStatus
  <2>2. Holding
    BY <1>1, <2>1 DEF TypeOK, Holding
  <2>3. QED BY <2>1, <2>2, SameRows, RowStep
<1>3. ASSUME NEW w \in Workers, Abandon(w) PROVE CardInv'
  BY <1>1, <1>3, SameRows, DoneHolds, RowStep DEF Abandon, TypeOK
<1>4. QED BY <1>2, <1>3, FetchStep, PhotoStep, GenerateStep, CardMarks, MarkStep, RequestStep,
             ReplaceStep, PassesStep, ExpireStep DEF Next, WorkerStep

LEMMA CardInvariant == Spec => []CardInv
<1>1. Init => CardInv
  <2> SUFFICES ASSUME Init PROVE CardInv OBVIOUS
  <2>1. /\ cards \in Seq(Card) /\ Len(cards) = 0 /\ DOMAIN cards = {}
        /\ requests \in Seq(Request) /\ Len(requests) = 0 /\ DOMAIN requests = {}
    BY DEF Init
  <2>2. TypeOK
    BY <2>1, IdleType, BoundAssumption DEF Init, TypeOK, PhotoStatus, TemplateStatus
  <2>3. PhotosBehind /\ RowsExist /\ Superseded
    BY <2>1, IdleType DEF Init, PhotosBehind, RowsExist, Superseded
  <2>4. QED BY <2>2, <2>3 DEF CardInv
<1>2. QED BY <1>1, CardStep, PTL DEF Spec

(* TypeOK of IDCards: no card is without a picture, for a photo that any   *)
(* worker saw approved is there, whatever became of it; and no request     *)
(* or copy refers to a card beyond those that were made.                   *)
THEOREM TypeCorrect == Spec => []TypeOK
<1>1. CardInv => TypeOK
  BY DEF CardInv
<1>2. QED BY <1>1, CardInvariant, PTL

(* ReplacedForGood: the old card of a completed replacement never verifies *)
(* again, whatever any worker's stale copy does to its status, and its     *)
(* successor is a later card of the same holder.                           *)
THEOREM ReplacedCardsStayReplaced == Spec => []ReplacedForGood
<1>1. CardInv => ReplacedForGood
  <2>1. ASSUME NEW r \in DOMAIN requests, requests[r].status = "completed", CardInv
        PROVE  cards[requests[r].card].replacedBy > 0 /\ requests[r].card \in DOMAIN cards
    BY <2>1 DEF CardInv, RowsExist, Superseded
  <2>2. QED BY <2>1 DEF CardInv, Superseded, ReplacedForGood, Verifies
<1>2. QED BY <1>1, CardInvariant, PTL

(***************************************************************************)
(* What a step may do to the cards that there are.                         *)
(***************************************************************************)
LEMMA Changes ==
  ASSUME CardInv, [Next]_vars
  PROVE  \/ \A c \in DOMAIN cards : cards'[c].status = cards[c].status
         \/ \E w \in Workers, status \in CardStatus \ {"replaced"} :
              Store(w, status) /\ (status \in Live => mem[w].row.status \in Live)
         \/ \E c \in DOMAIN cards : CanReplace(c) /\ cards' = Replaced(c)
         \/ \E c \in DOMAIN cards : cards' = [cards EXCEPT ![c].status = "expired"]
<1>1. CASE SaveSettings \/ ChangeTemplates \/ UNCHANGED vars
  BY <1>1 DEF SaveSettings, ChangeTemplates, vars
<1>2. ASSUME NEW c \in DOMAIN cards, ExpiryPasses(c) \/ Expire(c)
      PROVE  \/ \A d \in DOMAIN cards : cards'[d].status = cards[d].status
             \/ CanReplace(c) /\ cards' = Replaced(c)
             \/ cards' = [cards EXCEPT ![c].status = "expired"]
  <2>1. CASE ExpiryPasses(c)
    BY <2>1, PassesStep
  <2>2. CASE Expire(c)
    BY <2>2 DEF Expire
  <2>3. QED BY <1>2, <2>1, <2>2
<1>3. ASSUME NEW w \in Workers, WorkerStep(w)
      PROVE  \/ \A c \in DOMAIN cards : cards'[c].status = cards[c].status
             \/ \E status \in CardStatus \ {"replaced"} :
                  Store(w, status) /\ (status \in Live => mem[w].row.status \in Live)
             \/ \E c \in DOMAIN cards : CanReplace(c) /\ cards' = Replaced(c)
  <2>1. CASE UNCHANGED cards
    BY <2>1
  <2>2. CASE GenerateOne(w) \/ GenerateBatch(w)
    BY <2>2, GenerateEffect
  <2>3. CASE MarkPrinted(w) \/ Issue(w) \/ Cancel(w) \/ MarkLost(w) \/ MarkDamaged(w)
    BY <2>3, CardMarks
  <2>4. CASE ApproveRequest(w)
    BY <2>4 DEF ApproveRequest, Replace, CardInv, RowsExist
  <2>5. QED BY <1>3, <2>1, <2>2, <2>3, <2>4
            DEF WorkerStep, Abandon, Fetch, FetchCard, FetchRequest, FetchPhoto, FetchStudents,
                FetchStudent, FetchSelection, UploadPhoto, AutoApprove, ApprovePhoto, RejectPhoto,
                SetPhoto, FileRequest, ReplaceDirect, RejectRequest
<1>4. QED BY <1>1, <1>2, <1>3 DEF Next

(* A card of a worker that stores it, and the status that it gets.         *)
LEMMA Stored ==
  ASSUME CardInv, NEW w \in Workers, NEW status \in CardStatus, Store(w, status),
         NEW c \in DOMAIN cards
  PROVE  IF c = mem[w].id THEN cards'[c].status = status ELSE cards'[c] = cards[c]
BY StoreEffect

(* ReplacedByLive: a card in use becomes "replaced" only in the step that  *)
(* inserts a live card for the same holder; no service, and no stale copy, *)
(* marks it replaced otherwise.                                            *)
THEOREM NoCardLostToReplacement == Spec => ReplacedByLive
<1> DEFINE Kept(c) ==
      cards[c].status \in Live /\ cards'[c].status = "replaced" =>
        \E n \in DOMAIN cards' : n > Len(cards) /\ cards'[n].student = cards[c].student
                                 /\ cards'[n].status \in Live
<1>1. ASSUME CardInv, [Next]_vars, NEW c \in DOMAIN cards PROVE Kept(c)
  <2>1. ASSUME NEW w \in Workers, NEW status \in CardStatus \ {"replaced"}, Store(w, status)
        PROVE  Kept(c)
    BY <1>1, <2>1, Stored DEF Live
  <2>2. ASSUME NEW d \in DOMAIN cards, CanReplace(d), cards' = Replaced(d) PROVE Kept(c)
    <3>1. cards \in Seq(Card)
      BY <1>1 DEF CardInv, TypeOK
    <3>2. CASE c = d
      BY <1>1, <2>2, <3>1, <3>2, ReplacedEffect DEF Live
    <3>3. CASE c # d
      BY <1>1, <2>2, <3>3, ReplacedEffect DEF Live
    <3>4. QED BY <3>2, <3>3
  <2>3. ASSUME NEW d \in DOMAIN cards, cards' = [cards EXCEPT ![d].status = "expired"]
        PROVE  Kept(c)
    BY <1>1, <2>3, RetiredEffect DEF Live
  <2>4. QED BY <1>1, <2>1, <2>2, <2>3, Changes DEF Live
<1>2. CardInv /\ [Next]_vars => [\A c \in DOMAIN cards : Kept(c)]_vars
  BY <1>1
<1>3. QED BY <1>2, CardInvariant, PTL DEF Spec, ReplacedByLive

(* RevivedOnlyByStale: a card that is lost, damaged, cancelled, expired or *)
(* replaced is live again only because a worker stores a status it judged  *)
(* on a copy of that card that was still live.                             *)
THEOREM OnlyStaleCopiesRevive == Spec => RevivedOnlyByStale
<1> DEFINE Seen(c) ==
      cards[c].status \notin Live /\ cards'[c].status \in Live =>
        \E w \in Workers : mem[w].kind = "card" /\ mem[w].id = c /\ mem[w].row.status \in Live
<1>1. ASSUME CardInv, [Next]_vars, NEW c \in DOMAIN cards PROVE Seen(c)
  <2>1. ASSUME NEW w \in Workers, NEW status \in CardStatus, Store(w, status),
               status \in Live => mem[w].row.status \in Live
        PROVE  Seen(c)
    BY <1>1, <2>1, Stored DEF Store
  <2>2. ASSUME NEW d \in DOMAIN cards, CanReplace(d), cards' = Replaced(d) PROVE Seen(c)
    BY <1>1, <2>2, ReplacedEffect DEF Live
  <2>3. ASSUME NEW d \in DOMAIN cards, cards' = [cards EXCEPT ![d].status = "expired"]
        PROVE  Seen(c)
    BY <1>1, <2>3, RetiredEffect DEF Live
  <2>4. QED BY <1>1, <2>1, <2>2, <2>3, Changes
<1>2. CardInv /\ [Next]_vars => [\A c \in DOMAIN cards : Seen(c)]_vars
  BY <1>1
<1>3. QED BY <1>2, CardInvariant, PTL DEF Spec, RevivedOnlyByStale
=============================================================================
