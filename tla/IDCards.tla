------------------------------ MODULE IDCards -------------------------------
(***************************************************************************)
(* Identity cards: passport photos, cards, replacement requests and the    *)
(* expiry sweep of id_cards/services.py, as id_cards/views.py calls them.  *)
(*                                                                         *)
(* A worker serves one request: it fetches a row (or, to generate, the     *)
(* students with their photos), and the service judges that copy and       *)
(* writes single columns.  Cards and requests are numbered in the order of *)
(* their insertion; a card's expiry date is reduced to "has it passed".    *)
(* Profile and institution checks only refuse: such a request is abandoned.*)
(***************************************************************************)
EXTENDS Integers, Sequences, SequencesExt

CONSTANTS
  Students, Workers,
  Policies,     \* the settings that the institution may save
  MaxCards,     \* bound: cards ever generated
  MaxRequests   \* bound: replacement requests ever filed

VARIABLES
  photo,     \* the status of each student's PassportPhoto row, if there is one
  cards,     \* the IDCard rows
  requests,  \* the ReplacementRequest rows
  policy,    \* the IDCardSettings row
  template,  \* whether the institution has templates, and an active one
  mem        \* what each worker has fetched

vars == <<photo, cards, requests, policy, template, mem>>

PhotoStatus == {"none", "pending", "approved", "rejected"}
CardStatus == {"generated", "printed", "active", "expired", "lost", "damaged",
               "replaced", "cancelled"}
RequestStatus == {"pending", "completed", "rejected"}
TemplateStatus == {"none", "inactive", "active"}
Policy == [approval : {"yes", "no"}, renewal : {"yes", "no"}, requests : {"yes", "no"}]
ASSUME PolicyAssumption == Policies \subseteq Policy
ASSUME BoundAssumption ==
  /\ IsFiniteSet(Students)
  /\ MaxCards \in Nat /\ MaxRequests \in Nat

(* A card refers to its student's one PassportPhoto row, and so shows      *)
(* whichever image an upload has put there since.                          *)
Card == [student : Students, status : CardStatus, past : {"yes", "no"},
         replacedBy : 0..MaxCards]

(* Of LIVE_STATUSES and ISSUABLE, the statuses that the code ever writes.  *)
Live == {"generated", "printed", "active"}

Request == [card : 1..MaxCards, status : RequestStatus, new : 0..MaxCards]

Idle == [kind |-> "idle"]
Fetched(kind, id, row) == [kind |-> kind, id |-> id, row |-> row]
Copy == {Idle}
  \cup [kind : {"card"}, id : 1..MaxCards, row : Card]
  \cup [kind : {"request"}, id : 1..MaxRequests, row : RequestStatus]
  \cup [kind : {"photo", "uploaded"}, id : Students, row : PhotoStatus]
  \cup [kind : {"students"}, id : SUBSET Students, row : [Students -> PhotoStatus]]

Init ==
  /\ photo = [s \in Students |-> "none"]
  /\ cards = << >> /\ requests = << >>
  /\ policy \in Policies
  /\ template = "none"
  /\ mem = [w \in Workers |-> Idle]

Done(w) == mem' = [mem EXCEPT ![w] = Idle]

Abandon(w) ==
  /\ mem[w] # Idle
  /\ Done(w)
  /\ UNCHANGED <<photo, cards, requests, policy, template>>

Fetch(w, copy) ==
  /\ mem[w] = Idle
  /\ mem' = [mem EXCEPT ![w] = copy]
  /\ UNCHANGED <<photo, cards, requests, policy, template>>

FetchCard(w) == \E c \in DOMAIN cards : Fetch(w, Fetched("card", c, cards[c]))
FetchRequest(w) == \E r \in DOMAIN requests : Fetch(w, Fetched("request", r, requests[r].status))
FetchPhoto(w) == \E s \in Students : Fetch(w, Fetched("photo", s, photo[s]))
(* generate_single and generate_batch_view keep the photos they listed.    *)
FetchStudents(w, chosen) ==
  Fetch(w, Fetched("students", chosen, [s \in Students |-> photo[s]]))
FetchStudent(w) == \E s \in Students : FetchStudents(w, {s})
FetchSelection(w) == \E chosen \in SUBSET Students \ {{}} : FetchStudents(w, chosen)

(***************************************************************************)
(* Settings, templates and time.                                           *)
(***************************************************************************)
SaveSettings ==
  /\ policy' \in Policies \ {policy}
  /\ UNCHANGED <<photo, cards, requests, template, mem>>

ChangeTemplates ==
  /\ template' \in {"inactive", "active"} \ {template}
  /\ UNCHANGED <<photo, cards, requests, policy, mem>>

ExpiryPasses(c) ==
  /\ cards[c].past = "no"
  /\ cards' = [cards EXCEPT ![c].past = "yes"]
  /\ UNCHANGED <<photo, requests, policy, template, mem>>

(***************************************************************************)
(* Photos.                                                                 *)
(***************************************************************************)
(* my_card reads whether the photo is locked; the new image and the status *)
(* go to the row in one transaction, automatic approval is another.        *)
UploadPhoto(w) ==
  /\ mem[w].kind = "photo" /\ mem[w].row # "approved"
  /\ LET s == mem[w].id IN
     /\ photo' = [photo EXCEPT ![s] = "pending"]
     /\ mem' = [mem EXCEPT ![w] = Fetched("uploaded", s, "pending")]
  /\ UNCHANGED <<cards, requests, policy, template>>

SetPhoto(w, status) ==
  /\ photo' = [photo EXCEPT ![mem[w].id] = status]
  /\ Done(w)
  /\ UNCHANGED <<cards, requests, policy, template>>

AutoApprove(w) ==
  mem[w].kind = "uploaded" /\ policy.approval = "no" /\ SetPhoto(w, "approved")

ApprovePhoto(w) ==
  mem[w].kind = "photo" /\ mem[w].row \in {"pending", "rejected"} /\ SetPhoto(w, "approved")

RejectPhoto(w) ==
  mem[w].kind = "photo" /\ mem[w].row # "none" /\ SetPhoto(w, "rejected")

(***************************************************************************)
(* Cards.                                                                  *)
(***************************************************************************)
LiveCards(s) == {c \in DOMAIN cards : cards[c].student = s /\ cards[c].status \in Live}

NewCard(s) == [student |-> s, status |-> "generated", past |-> "no", replacedBy |-> 0]

(* Mutant: the photo is not asked for.                                     *)
WithoutPhoto(s, seen, replaced) == LiveCards(s) \subseteq replaced /\ template # "none"

(* preflight, with the photo status that the caller's student object holds. *)
Preflight(s, seen, replaced) ==
  seen = "approved" /\ LiveCards(s) \subseteq replaced /\ template # "none"

(* generate_card_for_student: without a template of its own it needs an    *)
(* active one.                                                             *)
GenerateOne(w) ==
  /\ mem[w].kind = "students" /\ Len(cards) < MaxCards /\ template = "active"
  /\ \E s \in Students :
       /\ mem[w].id = {s} /\ Preflight(s, mem[w].row[s], {})
       /\ cards' = Append(cards, NewCard(s))
  /\ Done(w)
  /\ UNCHANGED <<photo, requests, policy, template>>

(* generate_batch: one transaction in which students who are not ready are *)
(* skipped; the form may name a template, whatever its status.             *)
GenerateBatch(w) ==
  /\ mem[w].kind = "students"
  /\ LET made == SetToSeq({s \in mem[w].id : Preflight(s, mem[w].row[s], {})})
     IN /\ made # << >> /\ Len(cards) + Len(made) <= MaxCards
        /\ cards' = cards \o [i \in DOMAIN made |-> NewCard(made[i])]
  /\ Done(w)
  /\ UNCHANGED <<photo, requests, policy, template>>

(* Mutant: every column of the fetched row is written back.                *)
WholeRow(w, status) == [mem[w].row EXCEPT !.status = status]

Written(w, status) == [cards[mem[w].id] EXCEPT !.status = status]

(* save(update_fields): the partial unique constraint refuses a second     *)
(* live card of the student.                                               *)
Store(w, status) ==
  /\ mem[w].kind = "card"
  /\ status \in Live => LiveCards(cards[mem[w].id].student) \subseteq {mem[w].id}
  /\ cards' = [cards EXCEPT ![mem[w].id] = Written(w, status)]
  /\ Done(w)
  /\ UNCHANGED <<photo, requests, policy, template>>

(* Mutant: a card whose end was recorded is printed all the same.          *)
PrintableAlways(row) == TRUE

Printable(row) == row.status \in Live

MarkPrinted(w) == mem[w].kind = "card" /\ Printable(mem[w].row) /\ Store(w, "printed")
Issue(w) == mem[w].kind = "card" /\ mem[w].row.status \in Live /\ Store(w, "active")
Cancel(w) == mem[w].kind = "card" /\ mem[w].row.status # "cancelled" /\ Store(w, "cancelled")
MarkLost(w) == Store(w, "lost")
MarkDamaged(w) == Store(w, "damaged")

(***************************************************************************)
(* Replacement.                                                            *)
(***************************************************************************)
NewRequest(c) == [card |-> c, status |-> "pending", new |-> 0]

FileRequest(w) ==
  /\ mem[w].kind = "card" /\ mem[w].row.status \in Live /\ policy.requests = "yes"
  /\ Len(requests) < MaxRequests
  /\ requests' = Append(requests, NewRequest(mem[w].id))
  /\ Done(w)
  /\ UNCHANGED <<photo, cards, policy, template>>

(* replace_card_direct files a request of its own and then approves it.    *)
ReplaceDirect(w) ==
  /\ mem[w].kind = "card"
  /\ Len(requests) < MaxRequests
  /\ requests' = Append(requests, NewRequest(mem[w].id))
  /\ mem' = [mem EXCEPT ![w] = Fetched("request", Len(requests) + 1, "pending")]
  /\ UNCHANGED <<photo, cards, policy, template>>

Replaced(c) ==
  Append([cards EXCEPT ![c].status = "replaced", ![c].replacedBy = Len(cards) + 1],
         NewCard(cards[c].student))

(* The bound on cards counts as a refusal.                                 *)
CanReplace(c) ==
  /\ Len(cards) < MaxCards
  /\ template = "active"
  /\ Preflight(cards[c].student, photo[cards[c].student], {c})

(* Mutant: the old card's status is committed before preflight refuses.    *)
ReplaceNotAtomic(w, r) ==
  LET c == requests[r].card IN
  /\ cards' = IF CanReplace(c) THEN Replaced(c) ELSE [cards EXCEPT ![c].status = "replaced"]
  /\ requests' = IF CanReplace(c)
                 THEN [requests EXCEPT ![r].status = "completed", ![r].new = Len(cards) + 1]
                 ELSE requests

(* approve_replacement_request: one transaction, undone if preflight       *)
(* refuses the new card.                                                   *)
Replace(w, r) ==
  LET c == requests[r].card IN
  /\ CanReplace(c)
  /\ cards' = Replaced(c)
  /\ requests' = [requests EXCEPT ![r].status = "completed", ![r].new = Len(cards) + 1]

ApproveRequest(w) ==
  /\ mem[w].kind = "request" /\ mem[w].row = "pending"
  /\ Replace(w, mem[w].id)
  /\ Done(w)
  /\ UNCHANGED <<photo, policy, template>>

RejectRequest(w) ==
  /\ mem[w].kind = "request" /\ mem[w].row = "pending"
  /\ requests' = [requests EXCEPT ![mem[w].id].status = "rejected"]
  /\ Done(w)
  /\ UNCHANGED <<photo, cards, policy, template>>

(* process_expirations, one card: the row is locked and its status read    *)
(* again.  Renewal has no actor, so it needs students' requests allowed;   *)
(* when it is refused the request it filed stays pending.                  *)
Expire(c) ==
  LET renew == policy.renewal = "yes" /\ policy.requests = "yes"
      retired == [cards EXCEPT ![c].status = "expired"]
  IN
  /\ cards[c].status = "active" /\ cards[c].past = "yes"
  /\ renew => Len(requests) < MaxRequests
  /\ cards' = IF renew /\ CanReplace(c) THEN Replaced(c) ELSE retired
  /\ requests' = IF ~renew THEN requests
                 ELSE Append(requests,
                        IF CanReplace(c)
                        THEN [card |-> c, status |-> "completed", new |-> Len(cards) + 1]
                        ELSE NewRequest(c))
  /\ UNCHANGED <<photo, policy, template, mem>>

WorkerStep(w) ==
  \/ Abandon(w)
  \/ FetchCard(w) \/ FetchRequest(w) \/ FetchPhoto(w) \/ FetchStudent(w)
  \/ FetchSelection(w)
  \/ UploadPhoto(w) \/ AutoApprove(w) \/ ApprovePhoto(w) \/ RejectPhoto(w)
  \/ GenerateOne(w) \/ GenerateBatch(w)
  \/ MarkPrinted(w) \/ Issue(w) \/ Cancel(w) \/ MarkLost(w) \/ MarkDamaged(w)
  \/ FileRequest(w) \/ ReplaceDirect(w) \/ ApproveRequest(w) \/ RejectRequest(w)

Next ==
  \/ SaveSettings
  \/ ChangeTemplates
  \/ \E c \in DOMAIN cards : ExpiryPasses(c) \/ Expire(c)
  \/ \E w \in Workers : WorkerStep(w)

Spec == Init /\ [][Next]_vars

(***************************************************************************)
(* Properties.                                                             *)
(***************************************************************************)
(* verify_token: what the QR code of a card answers.                       *)
Verifies(c) == cards[c].status = "active" /\ cards[c].past = "no" /\ cards[c].replacedBy = 0

HasPhoto(s) == photo[s] # "none"

(* Rows and fetched copies are well typed, and no card is without a        *)
(* picture, however stale the approval was that it was generated on.       *)
TypeOK ==
  /\ photo \in [Students -> PhotoStatus]
  /\ cards \in Seq(Card) /\ Len(cards) <= MaxCards
  /\ \A c \in DOMAIN cards : HasPhoto(cards[c].student)
  /\ requests \in Seq(Request) /\ Len(requests) <= MaxRequests
  /\ policy \in Policies /\ template \in TemplateStatus
  /\ mem \in [Workers -> Copy]

(* Once a replacement is completed the old card never verifies again, and  *)
(* the new one is a later card of the same student: not even a request     *)
(* that fetched the old card before may bring it back by printing or       *)
(* issuing it when the new card is out of the way.                         *)
ReplacedForGood ==
  \A r \in DOMAIN requests : requests[r].status = "completed" =>
    LET old == requests[r].card new == requests[r].new IN
    /\ ~Verifies(old)
    /\ new \in DOMAIN cards /\ new > old /\ cards[new].student = cards[old].student

(* No student loses a card to a replacement that fails: a card in use is   *)
(* marked replaced only in the step that gives its holder another.         *)
ReplacedByLive ==
  [][\A c \in DOMAIN cards :
       cards[c].status \in Live /\ cards'[c].status = "replaced" =>
         \E n \in DOMAIN cards' : n > Len(cards) /\ cards'[n].student = cards[c].student
                                  /\ cards'[n].status \in Live]_vars

(* A card that was lost, cancelled, expired or replaced comes back to life *)
(* only through a request that fetched it while it was still live: the     *)
(* services' status checks hold for every copy that is not stale.          *)
RevivedOnlyByStale ==
  [][\A c \in DOMAIN cards :
       cards[c].status \notin Live /\ cards'[c].status \in Live =>
         \E w \in Workers : mem[w].kind = "card" /\ mem[w].id = c /\ mem[w].row.status \in Live]_vars

(***************************************************************************)
(* Inductive strengthening.                                                *)
(***************************************************************************)
(* A photo that was seen with any status at all is there.                  *)
PhotosBehind ==
  \A w \in Workers :
    /\ mem[w].kind = "uploaded" => HasPhoto(mem[w].id)
    /\ mem[w].kind = "photo" /\ mem[w].row # "none" => HasPhoto(mem[w].id)
    /\ mem[w].kind = "students" =>
         \A s \in Students : mem[w].row[s] # "none" => HasPhoto(s)

(* What workers and requests refer to exists: no row is ever deleted.      *)
RowsExist ==
  /\ \A r \in DOMAIN requests : requests[r].card \in DOMAIN cards
  /\ \A w \in Workers : /\ mem[w].kind = "card" => mem[w].id \in DOMAIN cards
                        /\ mem[w].kind = "request" => mem[w].id \in DOMAIN requests

(* A completed request left its mark on the old card, whatever its status. *)
Superseded ==
  \A r \in DOMAIN requests : requests[r].status = "completed" =>
    LET old == requests[r].card new == requests[r].new
    IN  /\ cards[old].replacedBy > 0
        /\ new \in DOMAIN cards /\ new > old /\ cards[new].student = cards[old].student

CardInv == TypeOK /\ PhotosBehind /\ RowsExist /\ Superseded
=============================================================================
