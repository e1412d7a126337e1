------------------------------ MODULE Accounts ------------------------------
(***************************************************************************)
(* User accounts: registration, approval, activation, the HOD's staff flag *)
(* and student numbers (accounts, academics/models).                       *)
(*                                                                         *)
(* Views fetch a user, judge it and save some fields or the whole row; a   *)
(* whole-row save of a row deleted meanwhile inserts it again.             *)
(***************************************************************************)
EXTENDS Integers, FiniteSetsExt

CONSTANTS
  Users,      \* primary keys for EduProUser rows
  MaxNumber,  \* bound on student numbers
  Workers

VARIABLES
  users,      \* the EduProUser rows
  deleted,    \* keys whose row has been deleted once
  numbers,    \* student_number of each StudentProfile, 0 without one
  retired,    \* the deactivated StudentProfiles
  hod,        \* each user's HOD row in UserStaffRole
  sessions,   \* who is logged in
  mem         \* what a request has read

vars == <<users, deleted, numbers, retired, hod, sessions, mem>>

None == "none"
Idle == [op |-> "idle"]
Role == {"admin", "teacher", "student"}
User == [role : Role, active : {"yes", "no"}, staff : {"yes", "no"}]
NoUser == [role |-> None, active |-> "no", staff |-> "no"]

Init ==
  /\ users = [u \in Users |-> NoUser]
  /\ deleted = {}
  /\ numbers = [u \in Users |-> 0]
  /\ retired = {}
  /\ hod = [u \in Users |-> None]
  /\ sessions = {}
  /\ mem = [w \in Workers |-> Idle]

Become(w, m) == mem' = [mem EXCEPT ![w] = m]

(* A request dies.                                                         *)
Drop(w) ==
  /\ mem[w] # Idle
  /\ Become(w, Idle)
  /\ UNCHANGED <<users, deleted, numbers, retired, hod, sessions>>

Exists(u) == users[u] # NoUser
Unused(u) == ~Exists(u) /\ u \notin deleted

(* EduProUser.save: is_staff follows the role, but for a teacher.          *)
Synced(row) ==
  [row EXCEPT !.staff = CASE row.role = "admin" -> "yes"
                          [] row.role = "student" -> "no"
                          [] OTHER -> @]

NewUser(role, active) == Synced([role |-> role, active |-> active, staff |-> "no"])

(***************************************************************************)
(* Student numbers.                                                        *)
(***************************************************************************)
LastNumber(U) == Max({numbers[u] : u \in U} \cup {0})

(* generate_number: past the last one given, deactivated profiles included. *)
NextNumber == LastNumber(Users) + 1

(* The bulk upload counts on from the last active profile.                 *)
BulkNumber == LastNumber(Users \ retired) + 1

NumberFree(n) == \A u \in Users : numbers[u] # n

(* ensure_for_student, of a student without a number.                      *)
EnsureForStudent(u) ==
  /\ users[u].role = "student" /\ numbers[u] = 0 /\ NextNumber <= MaxNumber
  /\ numbers' = [numbers EXCEPT ![u] = NextNumber]
  /\ UNCHANGED <<users, deleted, retired, hod, sessions, mem>>

(* The office deactivates or restores a StudentProfile.                    *)
ToggleProfile(u) ==
  /\ numbers[u] # 0
  /\ retired' = IF u \in retired THEN retired \ {u} ELSE retired \cup {u}
  /\ UNCHANGED <<users, deleted, numbers, hod, sessions, mem>>

(***************************************************************************)
(* New accounts.                                                           *)
(***************************************************************************)
(* PendingRegistrationForm.save.                                           *)
Pending == NewUser("teacher", "no")

Register(u) ==
  /\ Unused(u)
  /\ users' = [users EXCEPT ![u] = Pending]
  /\ UNCHANGED <<deleted, numbers, retired, hod, sessions, mem>>

(* admin_create_user: a student comes with a number or not at all.         *)
AdminCreateUser(u) ==
  /\ Unused(u)
  /\ \/ /\ NextNumber <= MaxNumber
        /\ users' = [users EXCEPT ![u] = NewUser("student", "yes")]
        /\ numbers' = [numbers EXCEPT ![u] = NextNumber]
     \/ /\ \E role \in Role \ {"student"}, active \in {"yes", "no"} :
             users' = [users EXCEPT ![u] = NewUser(role, active)]
        /\ UNCHANGED numbers
  /\ UNCHANGED <<deleted, retired, hod, sessions, mem>>

(* A row of the bulk upload saves the user and reads the next number ...   *)
BulkRow(w, u) ==
  /\ mem[w] = Idle /\ Unused(u) /\ BulkNumber <= MaxNumber
  /\ users' = [users EXCEPT ![u] = NewUser("student", "yes")]
  /\ Become(w, [op |-> "bulk", user |-> u, number |-> BulkNumber])
  /\ UNCHANGED <<deleted, numbers, retired, hod, sessions>>

(* ... and creates the profile, if the number is still free.               *)
BulkProfile(w) ==
  /\ mem[w].op = "bulk"
  /\ LET u == mem[w].user
     IN  /\ Exists(u) /\ numbers[u] = 0 /\ NumberFree(mem[w].number)
         /\ numbers' = [numbers EXCEPT ![u] = mem[w].number]
  /\ Become(w, Idle)
  /\ UNCHANGED <<users, deleted, retired, hod, sessions>>

(***************************************************************************)
(* Logging in: inactive users never, students by number once they have a   *)
(* profile, and then only while it is active.                              *)
(***************************************************************************)
MayLogIn(u) ==
  /\ Exists(u) /\ users[u].active = "yes"
  /\ users[u].role = "student" => numbers[u] = 0 \/ u \notin retired

Login(u) ==
  /\ MayLogIn(u) /\ u \notin sessions
  /\ sessions' = sessions \cup {u}
  /\ UNCHANGED <<users, deleted, numbers, retired, hod, mem>>

(* The session of a user who is gone or inactive is nobody's.              *)
LoggedIn(u) == u \in sessions /\ Exists(u) /\ users[u].active = "yes"

Logout(u) ==
  /\ u \in sessions
  /\ sessions' = sessions \ {u}
  /\ UNCHANGED <<users, deleted, numbers, retired, hod, mem>>

(***************************************************************************)
(* Saving users.                                                           *)
(***************************************************************************)
(* profile_view and change_password_view, of the user, and                 *)
(* user_detail_view, of an administrator, save the whole row.              *)
OpenForm(w, u) ==
  /\ mem[w] = Idle /\ Exists(u)
  /\ \E view \in {"own", "detail"} : Become(w, [op |-> view, user |-> u, row |-> users[u]])
  /\ mem'[w].op = "own" => LoggedIn(u)
  /\ UNCHANGED <<users, deleted, numbers, retired, hod, sessions>>

SaveForm(w) ==
  /\ mem[w].op \in {"own", "detail"}
  /\ users' = [users EXCEPT ![mem[w].user] = Synced(mem[w].row)]
  /\ Become(w, Idle)
  /\ UNCHANGED <<deleted, numbers, retired, hod, sessions>>

(* approve_user and reject_user fetch an inactive user, pending or         *)
(* deactivated, and import_students approves one so; toggle_user_active    *)
(* fetches any; and the conversion of an admitted applicant any that has   *)
(* the applicant's address.                                                *)
OpenDecision(w, u) ==
  /\ mem[w] = Idle /\ Exists(u)
  /\ \E op \in {"approve", "reject", "toggle", "convert"} :
       /\ op \in {"approve", "reject"} => users[u].active = "no"
       /\ Become(w, [op |-> op, user |-> u, row |-> users[u]])
  /\ UNCHANGED <<users, deleted, numbers, retired, hod, sessions>>

(* The saves name their fields, which fails when there is no row.          *)
SaveActive(w, active) ==
  /\ Exists(mem[w].user)
  /\ users' = [users EXCEPT ![mem[w].user].active = active]
  /\ Become(w, Idle)
  /\ UNCHANGED <<deleted, numbers, retired, hod, sessions>>

(* approve_users and deactivate_users of the Django admin, one UPDATE.      *)
UpdateActive(u) ==
  /\ Exists(u)
  /\ users' = [users EXCEPT ![u].active = IF @ = "no" THEN "yes" ELSE "no"]
  /\ UNCHANGED <<deleted, numbers, retired, hod, sessions, mem>>

ApproveUser(w) == mem[w].op = "approve" /\ SaveActive(w, "yes")

ToggleUserActive(w) ==
  /\ mem[w].op = "toggle"
  /\ SaveActive(w, IF mem[w].row.active = "yes" THEN "no" ELSE "yes")

(* StudentConversionService.convert, the rest of its transaction: of the   *)
(* user as fetched the columns that change are saved (is_staff is not      *)
(* among them), and its profile gets a number and is active again.  A user *)
(* who has to be created is created as AdminCreateUser creates a student.  *)
ConvertUser(w) ==
  LET u == mem[w].user
      row == mem[w].row
  IN  /\ mem[w].op = "convert" /\ Exists(u)
      /\ users' = [users EXCEPT
           ![u].active = IF row.active = "no" THEN "yes" ELSE @,
           ![u].role = IF row.role # "student" THEN "student" ELSE @]
      /\ numbers[u] = 0 => NextNumber <= MaxNumber
      /\ numbers' = [numbers EXCEPT ![u] = IF @ = 0 THEN NextNumber ELSE @]
      /\ retired' = retired \ {u}
      /\ Become(w, Idle)
      /\ UNCHANGED <<deleted, hod, sessions>>

(* The user goes, with everything that refers to it.                       *)
RejectUser(w) ==
  /\ mem[w].op = "reject"
  /\ LET u == mem[w].user
     IN  /\ users' = [users EXCEPT ![u] = NoUser]
         /\ numbers' = [numbers EXCEPT ![u] = 0]
         /\ hod' = [hod EXCEPT ![u] = None]
         /\ retired' = retired \ {u}
         /\ deleted' = deleted \cup {u}
  /\ Become(w, Idle)
  /\ UNCHANGED sessions

(***************************************************************************)
(* Responsibilities.                                                       *)
(***************************************************************************)
(* staff_roles_view grants; a row that exists, revoked ones included,      *)
(* makes the insert fail.                                                  *)
GrantHod(w, u) ==
  /\ mem[w] = Idle /\ Exists(u) /\ hod[u] = None
  /\ hod' = [hod EXCEPT ![u] = "active"]
  /\ Become(w, [op |-> "sync", user |-> u, row |-> users[u]])
  /\ UNCHANGED <<users, deleted, numbers, retired, sessions>>

RevokeStaffRole(w, u) ==
  /\ mem[w] = Idle /\ hod[u] # None
  /\ hod' = [hod EXCEPT ![u] = "revoked"]
  /\ Become(w, [op |-> "sync", user |-> u, row |-> users[u]])
  /\ UNCHANGED <<users, deleted, numbers, retired, sessions>>

(* Mutant: the signal saves the whole row it fetched.                      *)
SyncWholeRow(w) ==
  /\ mem[w].op = "sync"
  /\ LET u == mem[w].user
     IN users' = [users EXCEPT ![u] =
          [mem[w].row EXCEPT !.staff = IF hod[u] = "active" THEN "yes" ELSE "no"]]
  /\ Become(w, Idle)
  /\ UNCHANGED <<deleted, numbers, retired, hod, sessions>>

(* sync_hod_staff_status, by the user as fetched.                          *)
SyncHodStaffStatus(w) ==
  /\ mem[w].op = "sync"
  /\ LET u == mem[w].user
         has_hod == IF hod[u] = "active" THEN "yes" ELSE "no"
     IN users' = IF Exists(u) /\ mem[w].row.role = "teacher" /\ mem[w].row.staff # has_hod
                 THEN [users EXCEPT ![u].staff = has_hod] ELSE users
  /\ Become(w, Idle)
  /\ UNCHANGED <<deleted, numbers, retired, hod, sessions>>

(***************************************************************************)
(* The specification.                                                      *)
(***************************************************************************)
AdminStep(w) ==
  \/ BulkProfile(w) \/ ApproveUser(w) \/ RejectUser(w) \/ ToggleUserActive(w)
  \/ ConvertUser(w)
  \/ SyncHodStaffStatus(w)
  \/ \E u \in Users : BulkRow(w, u) \/ OpenDecision(w, u) \/ GrantHod(w, u) \/ RevokeStaffRole(w, u)

Next ==
  \/ \E w \in Workers :
       \/ AdminStep(w) \/ SaveForm(w) \/ Drop(w)
       \/ \E u \in Users : OpenForm(w, u)
  \/ \E u \in Users :
       \/ EnsureForStudent(u) \/ ToggleProfile(u)
       \/ Register(u) \/ AdminCreateUser(u) \/ UpdateActive(u)
       \/ Login(u) \/ Logout(u)

Spec == Init /\ [][Next]_vars

(***************************************************************************)
(* Properties.                                                             *)
(***************************************************************************)
(* Every row keeps its type.                                               *)
TypeOK ==
  /\ users \in [Users -> User \cup {NoUser}]
  /\ deleted \subseteq Users /\ retired \subseteq Users /\ sessions \subseteq Users
  /\ numbers \in [Users -> 0..MaxNumber]
  /\ hod \in [Users -> {None, "active", "revoked"}]

Activates(u) == users[u].active = "no" /\ users'[u].active = "yes"

Decided(u) ==
  \/ ~Exists(u) /\ AdminCreateUser(u)
  \/ UpdateActive(u)
  \/ \E w \in Workers :
       \/ BulkRow(w, u)
       \/ /\ mem[w] # Idle /\ mem[w].user = u
          /\ mem[w].op \in {"approve", "toggle", "convert"}
               \/ (mem[w].op \in {"own", "detail"} /\ mem[w].row.active = "yes")

(* "Account is inactive until admin approves": whoever waits for approval  *)
(* or was deactivated or rejected gets in by a decision of the office on   *)
(* that account (approval, activation, conversion of an application with   *)
(* its address), or by a form that was opened while the account was        *)
(* active, and by no other way: not by another request's stale row.        *)
ActivatedByDecision == [][\A u \in Users : Activates(u) => Decided(u)]_vars

(***************************************************************************)
(* Inductive strengthening.                                                *)
(***************************************************************************)
Request ==
  {Idle}
  \cup [op : {"bulk"}, user : Users, number : 1..MaxNumber]
  \cup [op : {"own", "detail", "approve", "reject", "toggle", "convert", "sync"}, user : Users, row : User]

AccountInv ==
  /\ TypeOK /\ mem \in [Workers -> Request]
  /\ \A u \in Users : hod[u] # None => Exists(u)
=============================================================================
