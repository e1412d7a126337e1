------------------------------- MODULE Intake -------------------------------
(***************************************************************************)
(* Admission cycles, the application types they accept, and the public     *)
(* form one applicant fills in (portal/models, portal/forms, portal/views).*)
(*                                                                         *)
(* The office edits a cycle in several statements, without a transaction;  *)
(* the public form reads the cycle and its types in between.               *)
(***************************************************************************)
EXTENDS Integers, FiniteSetsExt

CONSTANTS
  Cycles,         \* numbered by start date, later ones first in a query
  ApplicationTypes,  \* numbered in display order
  ProgramTypes,   \* program_available_types of the programme applied for
  Applications,   \* primary keys
  Workers

VARIABLES
  cycles,         \* the AdmissionCycle rows
  links,          \* the CycleApplicationType rows of each cycle
  applications,   \* the applicant's AdmissionApplication rows, with the types
                  \* that were off when their form was checked (history)
  inactive,       \* the ApplicationType rows that are switched off
  chosen,         \* history: the sets of types the office chose for a cycle
  mem

vars == <<cycles, links, applications, inactive, chosen, mem>>

Idle == [op |-> "idle"]
NoType == 0
NoCycle == [exists |-> "no", active |-> "no", primary |-> NoType]
NoApplication == [cycle |-> 0, type |-> NoType, off |-> {}]

(* Mutant: without rows the primary type is not asked.                     *)
AcceptedByRows(rows, primary) == rows

(* accepted_types, by the rows and the primary type.                       *)
Accepted(rows, primary) == IF rows # {} THEN rows ELSE {primary} \ {NoType}

Primary(types) == IF types = {} THEN NoType ELSE Min(types)

Init ==
  /\ cycles = [c \in Cycles |-> NoCycle]
  /\ links = [c \in Cycles |-> {}]
  /\ applications = [a \in Applications |-> NoApplication]
  /\ inactive = {}
  /\ chosen = [c \in Cycles |-> {}]
  /\ mem = [w \in Workers |-> Idle]

Become(w, m) == mem' = [mem EXCEPT ![w] = m]

(* A request dies.                                                         *)
Drop(w) ==
  /\ mem[w] # Idle
  /\ Become(w, Idle)
  /\ UNCHANGED <<cycles, links, applications, inactive, chosen>>

(***************************************************************************)
(* The office.  set_accepted_types writes the rows of a cycle that exists  *)
(* already; a new one gets its primary type only.                          *)
(***************************************************************************)
Row(types, active) == [exists |-> "yes", active |-> active, primary |-> Primary(types)]

(* cycle_create and cycle_edit, a valid form: it lists the active types.   *)
SubmitCycleForm(w, c) ==
  /\ mem[w] = Idle
  /\ \E types \in SUBSET (ApplicationTypes \ inactive), active \in {"yes", "no"} :
       /\ chosen' = [chosen EXCEPT ![c] = @ \cup {types}]
       /\ Become(w, [op |-> IF cycles[c] = NoCycle THEN "save" ELSE "rows",
                     cycle |-> c, types |-> types, row |-> Row(types, active)])
  /\ UNCHANGED <<cycles, links, applications, inactive>>

DeleteLinks(w) ==
  /\ mem[w].op = "rows"
  /\ links' = [links EXCEPT ![mem[w].cycle] = {}]
  /\ Become(w, [mem[w] EXCEPT !.op = "create"])
  /\ UNCHANGED <<cycles, applications, inactive, chosen>>

CreateLinks(w) ==
  /\ mem[w].op = "create"
  /\ links[mem[w].cycle] \cap mem[w].types = {}  \* uniq_cycle_application_type
  /\ links' = [links EXCEPT ![mem[w].cycle] = @ \cup mem[w].types]
  /\ Become(w, [mem[w] EXCEPT !.op = "save"])
  /\ UNCHANGED <<cycles, applications, inactive, chosen>>

(* AdmissionCycle.save: an active cycle first clears the others ...        *)
ClearOthers(w) ==
  /\ mem[w].op = "save" /\ mem[w].row.active = "yes"
  /\ cycles' = [c \in Cycles |-> IF c = mem[w].cycle THEN cycles[c]
                                 ELSE [cycles[c] EXCEPT !.active = "no"]]
  /\ Become(w, [mem[w] EXCEPT !.op = "write"])
  /\ UNCHANGED <<links, applications, inactive, chosen>>

(* ... and is then written itself.                                         *)
SaveCycle(w) ==
  /\ mem[w].op = "write" \/ (mem[w].op = "save" /\ mem[w].row.active = "no")
  /\ cycles' = [cycles EXCEPT ![mem[w].cycle] = mem[w].row]
  /\ Become(w, Idle)
  /\ UNCHANGED <<links, applications, inactive, chosen>>

(* The change form of an ApplicationType in Django's admin.                *)
ToggleType(type) ==
  /\ inactive' = IF type \in inactive THEN inactive \ {type} ELSE inactive \cup {type}
  /\ UNCHANGED <<cycles, links, applications, chosen, mem>>

(***************************************************************************)
(* The applicant: application_form.                                        *)
(***************************************************************************)
Active == {c \in Cycles : cycles[c].active = "yes"}

(* get_active; a cycle that its status or its dates close is as good as    *)
(* inactive to the form.                                                   *)
FetchCycle(w) ==
  /\ mem[w] = Idle
  /\ Active # {}
  /\ \E c \in {Max(Active)} :
       Become(w, [op |-> "form", cycle |-> c, primary |-> cycles[c].primary])
  /\ UNCHANGED <<cycles, links, applications, inactive, chosen>>

(* ApplicationTypeCatalog.for_cycle: of the accepted types the active ones; *)
(* if there is none, any active type.                                      *)
ForCycle(rows, primary) ==
  LET active == ApplicationTypes \ inactive
      usable == Accepted(rows, primary) \cap active
  IN  IF usable # {} THEN usable ELSE active

(* ... and available: those that the programme runs.                       *)
Available(rows, primary) == ForCycle(rows, primary) \cap ProgramTypes

Live(c) == {a \in Applications : applications[a].cycle = c}

(* The form's checks: a type that may be chosen, and no application of     *)
(* this address in the cycle.                                              *)
CheckForm(w) ==
  /\ mem[w].op = "form"
  /\ LET c == mem[w].cycle
     IN  /\ Live(c) = {}
         /\ \E type \in Available(links[c], mem[w].primary) :
              Become(w, [op |-> "valid", cycle |-> c, type |-> type, off |-> inactive])
  /\ UNCHANGED <<cycles, links, applications, inactive, chosen>>

CreateApplication(w, a) ==
  /\ mem[w].op = "valid" /\ applications[a] = NoApplication
  /\ applications' = [applications EXCEPT
       ![a] = [cycle |-> mem[w].cycle, type |-> mem[w].type, off |-> mem[w].off]]
  /\ Become(w, Idle)
  /\ UNCHANGED <<cycles, links, inactive, chosen>>

(***************************************************************************)
(* The specification.                                                      *)
(***************************************************************************)
OfficeStep(w) ==
  \/ DeleteLinks(w) \/ CreateLinks(w) \/ ClearOthers(w) \/ SaveCycle(w)
  \/ \E c \in Cycles : SubmitCycleForm(w, c)

ApplicantStep(w) ==
  \/ FetchCycle(w) \/ CheckForm(w)
  \/ \E a \in Applications : CreateApplication(w, a)

Next ==
  \/ \E w \in Workers : OfficeStep(w) \/ ApplicantStep(w) \/ Drop(w)
  \/ \E type \in ApplicationTypes : ToggleType(type)

Spec == Init /\ [][Next]_vars

(***************************************************************************)
(* Properties.                                                             *)
(***************************************************************************)
Application == [cycle : Cycles, type : ApplicationTypes, off : SUBSET ApplicationTypes]

(* Every row keeps its type.                                               *)
TypeOK ==
  /\ cycles \in [Cycles -> [exists : {"yes", "no"}, active : {"yes", "no"},
                            primary : ApplicationTypes \cup {NoType}]]
  /\ links \in [Cycles -> SUBSET ApplicationTypes]
  /\ applications \in [Applications -> Application \cup {NoApplication}]
  /\ inactive \subseteq ApplicationTypes
  /\ chosen \in [Cycles -> SUBSET SUBSET ApplicationTypes]

(* "If the cycle is running for undergraduate and mature applicants only,  *)
(* an applicant must not be able to post certificate and be believed":     *)
(* whatever the form reads while the cycle is being edited, or after an    *)
(* edit died, it lets in only what some choice of the office accepted.     *)
(* There is one exception, for_cycle's: the first type of a choice had     *)
(* been switched off when the form was checked.                            *)
TypeWasOffered ==
  \A a \in Applications :
    applications[a] # NoApplication =>
      \E types \in chosen[applications[a].cycle] :
        \/ types = {} \/ applications[a].type \in types
        \/ Primary(types) \in applications[a].off

(***************************************************************************)
(* Inductive strengthening.                                                *)
(***************************************************************************)
CycleRow == [exists : {"yes", "no"}, active : {"yes", "no"},
             primary : ApplicationTypes \cup {NoType}]
Request ==
  {Idle}
  \cup [op : {"rows", "create", "save", "write"}, cycle : Cycles,
        types : SUBSET ApplicationTypes, row : CycleRow]
  \cup [op : {"form"}, cycle : Cycles, primary : ApplicationTypes \cup {NoType}]
  \cup [op : {"valid"}, cycle : Cycles, type : ApplicationTypes, off : SUBSET ApplicationTypes]

(* What the office chose for cycle c at some time: as rows, as the primary  *)
(* type of a choice, and as what is accepted.                              *)
Chosen(c, type) == \E types \in chosen[c] : type \in types
ChosenPrimary(c, primary) == \E types \in chosen[c] : primary = Primary(types)
Offered(c, type, off) ==
  \E types \in chosen[c] : types = {} \/ type \in types \/ Primary(types) \in off

(* The rows of a cycle are those of a choice at least.                     *)
Linked(c) == links[c] # {} => \E types \in chosen[c] : types # {} /\ types \subseteq links[c]

OfferedInv ==
  /\ TypeOK /\ mem \in [Workers -> Request]
  /\ \A c \in Cycles :
       /\ Linked(c) /\ \A type \in links[c] : Chosen(c, type)
       /\ cycles[c].active = "yes" => ChosenPrimary(c, cycles[c].primary)
  /\ \A w \in Workers :
       /\ mem[w].op \in {"rows", "create", "save", "write"} =>
            /\ mem[w].types \in chosen[mem[w].cycle]
            /\ mem[w].row.primary = Primary(mem[w].types)
       /\ mem[w].op = "form" => ChosenPrimary(mem[w].cycle, mem[w].primary)
       /\ mem[w].op = "valid" => Offered(mem[w].cycle, mem[w].type, mem[w].off)
  /\ TypeWasOffered
=============================================================================
