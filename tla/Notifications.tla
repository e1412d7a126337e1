--------------------------- MODULE Notifications ---------------------------
(***************************************************************************)
(* NotificationService (notifications): one event sent to its recipients   *)
(* over their channels, by a signal, a view or a reminder job, perhaps     *)
(* more than once and at the same time; the SMS provider's callbacks; and  *)
(* the recipients' preferences and read marks.                             *)
(***************************************************************************)
EXTENDS Naturals

CONSTANTS
  Users,     \* possible recipients
  Channels,  \* channels of the event's row in CHANNEL_MATRIX, of "app", "email" and "sms"
  Workers

VARIABLES
  records,   \* the NotificationRecord of each idempotency key: user and channel
  sent,      \* messages that went out for each key
  mem        \* where a call of send stands

vars == <<records, sent, mem>>

None == "none"
Idle == [op |-> "idle"]
Keys == Users \X Channels
DeliveryStatus == {"queued", "sent", "delivered", "failed"}
Record == [status : DeliveryStatus, id : {"yes", "no"}, read : {"yes", "no"}]
NoRecord == [status |-> None, id |-> "no", read |-> "no"]
Queued == [status |-> "queued", id |-> "no", read |-> "no"]

Init ==
  /\ records = [k \in Keys |-> NoRecord]
  /\ sent = [k \in Keys |-> 0]
  /\ mem = [w \in Workers |-> Idle]

Become(w, m) == mem' = [mem EXCEPT ![w] = m]
Exists(k) == records[k] # NoRecord

(***************************************************************************)
(* Sending: recipient by recipient and channel by channel.                 *)
(***************************************************************************)
Send(w) ==
  /\ mem[w] = Idle
  /\ \E recipients \in SUBSET Users \ {{}} :
       Become(w, [op |-> "users", users |-> recipients])
  /\ UNCHANGED <<records, sent>>

(* The next user's channels: all, or those the user's preferences, which   *)
(* may be changed at any time, allow just now.                             *)
ResolveChannels(w) ==
  /\ mem[w].op = "users"
  /\ \E u \in mem[w].users, channels \in SUBSET Channels :
       Become(w, [op |-> "channels", users |-> mem[w].users \ {u}, user |-> u, channels |-> channels])
  /\ UNCHANGED <<records, sent>>

NextUser(w) ==
  /\ mem[w].op = "channels" /\ mem[w].channels = {}
  /\ Become(w, IF mem[w].users = {} THEN Idle ELSE [op |-> "users", users |-> mem[w].users])
  /\ UNCHANGED <<records, sent>>

(* _create_record skips a key that has its record ...                      *)
FindRecord(w) ==
  /\ mem[w].op = "channels"
  /\ \E c \in mem[w].channels :
       LET rest == [mem[w] EXCEPT !.channels = @ \ {c}]
       IN Become(w, IF Exists(<<mem[w].user, c>>) THEN rest
                    ELSE [op |-> "create", key |-> <<mem[w].user, c>>, rest |-> rest])
  /\ UNCHANGED <<records, sent>>

(* Mutant: the key is not unique in the database.                          *)
KeyNeverClashes(k) == TRUE

(* ... and inserts it otherwise; the unique key may refuse, which nobody   *)
(* catches.                                                                *)
KeyIsFree(k) == ~Exists(k)

CreateRecord(w) ==
  /\ mem[w].op = "create"
  /\ LET k == mem[w].key
     IN IF KeyIsFree(k)
          THEN /\ records' = [records EXCEPT ![k] = Queued]
               /\ Become(w, [mem[w] EXCEPT !.op = "deliver"])
          ELSE Become(w, Idle) /\ UNCHANGED records
  /\ UNCHANGED sent

(* The provider takes the message or not; a failure is recorded and the    *)
(* rest goes on.                                                           *)
Fail(w) ==
  /\ mem[w].op = "deliver" /\ mem[w].key[2] # "app"
  /\ records' = [records EXCEPT ![mem[w].key].status = "failed"]
  /\ Become(w, mem[w].rest)
  /\ UNCHANGED sent

DeliverNow(w) ==
  /\ mem[w].op = "deliver" /\ mem[w].key[2] # "sms"
  /\ LET k == mem[w].key
     IN  /\ sent' = [sent EXCEPT ![k] = @ + 1]
         /\ records' = [records EXCEPT ![k].status = IF k[2] = "app" THEN "delivered" ELSE "sent"]
  /\ Become(w, mem[w].rest)

(* An SMS is with the provider before its message id is in the record.     *)
DeliverSms(w) ==
  /\ mem[w].op = "deliver" /\ mem[w].key[2] = "sms"
  /\ sent' = [sent EXCEPT ![mem[w].key] = @ + 1]
  /\ Become(w, [mem[w] EXCEPT !.op = "accepted"])
  /\ UNCHANGED records

SaveSms(w) ==
  /\ mem[w].op = "accepted"
  /\ records' = [records EXCEPT ![mem[w].key] = [@ EXCEPT !.status = "sent", !.id = "yes"]]
  /\ Become(w, mem[w].rest)
  /\ UNCHANGED sent

(* The process dies.                                                       *)
Crash(w) ==
  /\ mem[w] # Idle
  /\ Become(w, Idle)
  /\ UNCHANGED <<records, sent>>

(***************************************************************************)
(* Callbacks, in any order and any number; those that come before the      *)
(* record has the message id find no record.                               *)
(***************************************************************************)
SailupWebhook(k) ==
  /\ records[k].id = "yes"
  /\ \E status \in DeliveryStatus : records' = [records EXCEPT ![k].status = status]
  /\ UNCHANGED <<sent, mem>>

(***************************************************************************)
(* The recipient.                                                          *)
(***************************************************************************)
MarkRead(k) ==
  /\ Exists(k) /\ records[k].read = "no"
  /\ records' = [records EXCEPT ![k] = [@ EXCEPT !.read = "yes", !.status = "delivered"]]
  /\ UNCHANGED <<sent, mem>>

MarkAllRead(u) ==
  /\ \E c \in Channels \cap {"app"} :
       /\ Exists(<<u, c>>) /\ records[<<u, c>>].read = "no"
       /\ records' = [records EXCEPT ![<<u, c>>].read = "yes"]
  /\ UNCHANGED <<sent, mem>>

(***************************************************************************)
(* The specification.                                                      *)
(***************************************************************************)
ServiceStep(w) ==
  \/ Send(w) \/ ResolveChannels(w) \/ NextUser(w) \/ FindRecord(w) \/ CreateRecord(w)
  \/ Fail(w) \/ DeliverNow(w) \/ DeliverSms(w) \/ SaveSms(w)

Next ==
  \/ \E w \in Workers : ServiceStep(w) \/ Crash(w)
  \/ \E k \in Keys : SailupWebhook(k) \/ MarkRead(k)
  \/ \E u \in Users : MarkAllRead(u)

Spec == Init /\ [][Next]_vars

(***************************************************************************)
(* Properties.                                                             *)
(***************************************************************************)
(* Every row keeps its type.                                               *)
TypeOK ==
  /\ records \in [Keys -> Record \cup {NoRecord}]
  /\ sent \in [Keys -> Nat]

(* "Re-runs of the same event stay idempotent": whoever sends the event,   *)
(* how often, at the same time or after a crash, no recipient gets it      *)
(* twice over one channel.                                                 *)
NotifiedOnce == \A k \in Keys : sent[k] <= 1

(***************************************************************************)
(* Inductive strengthening.                                                *)
(***************************************************************************)
Rest == [op : {"channels"}, users : SUBSET Users, user : Users, channels : SUBSET Channels]
Call ==
  {Idle} \cup [op : {"users"}, users : SUBSET Users] \cup Rest
  \cup [op : {"create", "deliver", "accepted"}, key : Keys, rest : Rest]

Delivers(w, k) == mem[w].op = "deliver" /\ mem[w].key = k

(* Whoever delivers has inserted the key's record and is the only one to   *)
(* have done so; nothing was sent before.                                  *)
DeliveryInv ==
  /\ TypeOK /\ mem \in [Workers -> Call]
  /\ \A k \in Keys :
       /\ ~Exists(k) => sent[k] = 0
       /\ \A w \in Workers : Delivers(w, k) =>
            /\ Exists(k) /\ sent[k] = 0
            /\ \A v \in Workers : Delivers(v, k) => v = w
  /\ NotifiedOnce
=============================================================================
