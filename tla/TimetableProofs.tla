-------------------------- MODULE TimetableProofs ---------------------------
(***************************************************************************)
(* Theorems about the timetable engine: its own plans are sound, and no    *)
(* step of a pass adds a clash, whatever was placed by hand before.        *)
(***************************************************************************)
EXTENDS Timetable, FiniteSetTheorems, TLAPS

Placements == [Requirements -> Placement \cup {Unplaced}]

(***************************************************************************)
(* Placements and candidates.                                              *)
(***************************************************************************)
(* There are finitely many placements, so candidates can be counted.       *)
LEMMA FinitePlacement == IsFiniteSet(Placement)
<1> DEFINE Places == Rooms \cup {NoRoom}
           f == [p \in Slots \X Places |-> [slot |-> p[1], room |-> p[2]]]
<1>1. IsFiniteSet(Places)
  BY NumbersAssumption, FS_AddElement
<1>2. IsFiniteSet(Slots \X Places)
  BY <1>1, SlotsAssumption, FS_Product
<1>3. f \in Surjection(Slots \X Places, Placement)
  <2>1. \A p \in Slots \X Places : f[p] \in Placement
    BY DEF Placement
  <2>2. \A c \in Placement : \E p \in Slots \X Places : f[p] = c
    <3> SUFFICES ASSUME NEW c \in Placement PROVE \E p \in Slots \X Places : f[p] = c
      OBVIOUS
    <3>1. <<c.slot, c.room>> \in Slots \X Places /\ c = [slot |-> c.slot, room |-> c.room]
      BY DEF Placement
    <3> QED BY <3>1
  <2> QED BY <2>1, <2>2 DEF Surjection
<1> QED BY <1>2, <1>3, FS_Surjection

(* A placement lasts some time, so it is never mistaken for none at all.   *)
LEMMA PlacedSomewhere == \A c \in Placement : c # Unplaced /\ c.room \in Rooms \cup {NoRoom}
BY SlotsAssumption DEF Placement, Unplaced

(* A free room suits; the best and the first of candidates are candidates. *)
LEMMA ChoicesAreCandidates ==
  /\ \A cands, used : Best(cands, used) \subseteq cands
  /\ \A cands : FirstOf(cands) \subseteq cands
  /\ \A r : LegalCandidates(r) \subseteq Placement
  /\ \A r : Improvements(r) \subseteq LegalCandidates(r)
<1>1. \A cands, used : Best(cands, used) \subseteq cands
  BY DEF Best
<1>2. \A r : Improvements(r) \subseteq LegalCandidates(r)
  BY <1>1 DEF Improvements
<1> QED BY <1>1, <1>2 DEF FirstOf, LegalCandidates

(* What is counted is a number.                                            *)
LEMMA CandidatesAreCounted == \A r : Cardinality(LegalCandidates(r)) \in Nat
BY FinitePlacement, ChoicesAreCandidates, FS_Subset, FS_CardinalityType

(***************************************************************************)
(* What a step does to the plan: nothing, or it moves one session to one   *)
(* of its candidates, or it clears the plan, or somebody edits.            *)
(***************************************************************************)
MovesTo(r, c) == plan' = [plan EXCEPT ![r] = c] /\ UNCHANGED <<task, edits>>

LEMMA EngineMoves ==
  ASSUME EngineTypeOK, PassStep
  PROVE  \/ UNCHANGED <<task, plan, edits>>
         \/ \E r \in Requirements : \E c \in LegalCandidates(r) : MovesTo(r, c)
<1>1. CASE PlaceNext
  <2>1. PICK r \in Tightest : \E cands \in {LegalCandidates(r)} :
          IF cands = {}
          THEN todo' = todo \ {r} /\ UNCHANGED <<plan, left>>
          ELSE /\ \E c \in Best(cands, UsedDays(r)) : plan' = [plan EXCEPT ![r] = c]
               /\ left' = left - Cardinality(cands)
               /\ todo' = todo \ {r}
    BY <1>1 DEF PlaceNext
  <2>2. r \in Requirements
    BY <2>1 DEF Tightest, EngineTypeOK
  <2> QED BY <1>1, <2>1, <2>2, ChoicesAreCandidates DEF PlaceNext, MovesTo
<1>2. CASE RepairNext
  <2>1. PICK r \in FirstStored : \E cands \in {LegalCandidates(r)} :
          /\ IF cands = {} THEN UNCHANGED plan
             ELSE \E c \in FirstOf(cands) : plan' = [plan EXCEPT ![r] = c]
          /\ todo' = todo \ {r}
    BY <1>2 DEF RepairNext
  <2>2. r \in Requirements
    BY <2>1 DEF FirstStored, EngineTypeOK
  <2> QED BY <1>2, <2>1, <2>2, ChoicesAreCandidates DEF RepairNext, MovesTo
<1>3. CASE OptimizeNext
  <2>1. PICK r \in FirstStored : \E better \in {Improvements(r)} :
          /\ IF better = {} THEN UNCHANGED <<plan, left>>
             ELSE /\ \E c \in better : plan' = [plan EXCEPT ![r] = c]
                  /\ left' = left - 1
          /\ todo' = todo \ {r}
    BY <1>3 DEF OptimizeNext
  <2>2. r \in Requirements
    BY <2>1 DEF FirstStored, EngineTypeOK
  <2> QED BY <1>3, <2>1, <2>2, ChoicesAreCandidates DEF OptimizeNext, MovesTo
<1>4. CASE EndPass
  BY <1>4 DEF EndPass
<1> QED BY <1>1, <1>2, <1>3, <1>4 DEF PassStep

(***************************************************************************)
(* Types.                                                                  *)
(***************************************************************************)
LEMMA TypeInit == EngineInit => EngineTypeOK
BY ConfigAssumption DEF EngineInit, EngineTypeOK, Placement

LEMMA PlaceNextKeepsTypes == EngineTypeOK /\ PlaceNext => EngineTypeOK'
<1> SUFFICES ASSUME EngineTypeOK, PlaceNext PROVE EngineTypeOK'
  OBVIOUS
<1>1. PICK r \in Tightest : \E cands \in {LegalCandidates(r)} :
        IF cands = {}
        THEN todo' = todo \ {r} /\ UNCHANGED <<plan, left>>
        ELSE /\ \E c \in Best(cands, UsedDays(r)) : plan' = [plan EXCEPT ![r] = c]
             /\ left' = left - Cardinality(cands)
             /\ todo' = todo \ {r}
  BY DEF PlaceNext
<1>2. plan' \in Placements
  BY <1>1, ChoicesAreCandidates DEF EngineTypeOK, Placements
<1>3. left' \in Int
  BY <1>1, CandidatesAreCounted DEF EngineTypeOK
<1>4. todo' \in SUBSET Requirements
  BY <1>1 DEF EngineTypeOK
<1> QED BY <1>2, <1>3, <1>4 DEF PlaceNext, EngineTypeOK, Placements

LEMMA RepairNextKeepsTypes == EngineTypeOK /\ RepairNext => EngineTypeOK'
<1> SUFFICES ASSUME EngineTypeOK, RepairNext PROVE EngineTypeOK'
  OBVIOUS
<1>1. PICK r \in FirstStored : \E cands \in {LegalCandidates(r)} :
        /\ IF cands = {} THEN UNCHANGED plan
           ELSE \E c \in FirstOf(cands) : plan' = [plan EXCEPT ![r] = c]
        /\ todo' = todo \ {r}
  BY DEF RepairNext
<1>2. plan' \in Placements
  BY <1>1, ChoicesAreCandidates DEF EngineTypeOK, Placements
<1>3. todo' \in SUBSET Requirements
  BY <1>1 DEF EngineTypeOK
<1> QED BY <1>2, <1>3 DEF RepairNext, EngineTypeOK, Placements

LEMMA OptimizeNextKeepsTypes == EngineTypeOK /\ OptimizeNext => EngineTypeOK'
<1> SUFFICES ASSUME EngineTypeOK, OptimizeNext PROVE EngineTypeOK'
  OBVIOUS
<1>1. PICK r \in FirstStored : \E better \in {Improvements(r)} :
        /\ IF better = {} THEN UNCHANGED <<plan, left>>
           ELSE /\ \E c \in better : plan' = [plan EXCEPT ![r] = c]
                /\ left' = left - 1
        /\ todo' = todo \ {r}
  BY DEF OptimizeNext
<1>2. plan' \in Placements
  BY <1>1, ChoicesAreCandidates DEF EngineTypeOK, Placements
<1>3. todo' \in SUBSET Requirements /\ left' \in Int
  BY <1>1 DEF EngineTypeOK
<1> QED BY <1>2, <1>3 DEF OptimizeNext, EngineTypeOK, Placements

LEMMA TypeStep == EngineTypeOK /\ [EngineNext]_engine => EngineTypeOK'
<1> SUFFICES ASSUME EngineTypeOK, [EngineNext]_engine PROVE EngineTypeOK'
  OBVIOUS
<1>1. CASE PassStep
  BY <1>1, PlaceNextKeepsTypes, RepairNextKeepsTypes, OptimizeNextKeepsTypes
    DEF PassStep, EndPass, EngineTypeOK
<1>2. CASE Regenerate
  BY <1>2, ConfigAssumption DEF Regenerate, EngineTypeOK
<1>3. CASE BeginRepair
  BY <1>3, NumbersAssumption, FS_CardinalityType
    DEF BeginRepair, BeginPass, Conflicted, Placed, EngineTypeOK
<1>4. CASE BeginOptimize
  BY <1>4, ConfigAssumption DEF BeginOptimize, BeginPass, Placed, EngineTypeOK
<1>5. ASSUME NEW r \in Requirements, Edit(r) PROVE EngineTypeOK'
  BY <1>5, ConfigAssumption DEF Edit, Anywhere, EngineTypeOK
<1>6. CASE UNCHANGED engine
  BY <1>6 DEF engine, EngineTypeOK
<1> QED BY <1>1, <1>2, <1>3, <1>4, <1>5, <1>6 DEF EngineNext

(* The engine's state keeps its type.                                      *)
THEOREM TypeCorrect == EngineSpec => []EngineTypeOK
BY TypeInit, TypeStep, PTL DEF EngineSpec

(***************************************************************************)
(* A session at one of its candidates clashes with no other, and the       *)
(* others clash among themselves as they did.                              *)
(***************************************************************************)
Clash(p, r, q) ==
  /\ q # r /\ p[r] # Unplaced /\ p[q] # Unplaced /\ Together(p[r].slot, p[q].slot)
  /\ \/ lecturer(r) # 0 /\ lecturer(q) = lecturer(r)
     \/ p[r].room # NoRoom /\ p[q].room = p[r].room
     \/ cohort(q) = cohort(r)

LEMMA ClashesAre ==
  \A p : Clashes(p) = {x \in Requirements \X Requirements : Clash(p, x[1], x[2])}
BY DEF Clashes, LecturerBusy, RoomBusy, CohortClash, Meanwhile, Clash

LEMMA ClashIsMutual == \A p, r, q : Clash(p, r, q) => Clash(p, q, r)
BY DEF Clash, Together, times_overlap

LEMMA CandidatesClashWithNone ==
  ASSUME EngineTypeOK, NEW r \in Requirements, NEW c \in LegalCandidates(r), NEW q \in Requirements
  PROVE  ~Clash([plan EXCEPT ![r] = c], r, q)
<1> DEFINE p == [plan EXCEPT ![r] = c]
<1> SUFFICES ASSUME Clash(p, r, q) PROVE FALSE
  OBVIOUS
<1>1. p[r] = c /\ q # r /\ p[q] = plan[q]
  BY DEF Clash, EngineTypeOK
<1>2. q \in Others(r) /\ Together(c.slot, Where(q).slot)
  BY <1>1 DEF Clash, Others, Placed, Where
<1>3. LegalSlot(r, c.slot)
      /\ IF FreeRooms(r, c.slot) = {} THEN c.room = NoRoom ELSE c.room \in FreeRooms(r, c.slot)
  BY DEF LegalCandidates
<1>4. CASE lecturer(r) # 0 /\ lecturer(q) = lecturer(r)
  BY <1>2, <1>3, <1>4 DEF LegalSlot
<1>5. CASE c.room # NoRoom /\ Where(q).room = c.room
  BY <1>2, <1>3, <1>5 DEF FreeRooms
<1>6. CASE cohort(q) = cohort(r)
  BY <1>2, <1>3, <1>6 DEF LegalSlot, SameCohort, Together
<1> QED BY <1>1, <1>4, <1>5, <1>6 DEF Clash, Where

LEMMA MoveAddsNoClash ==
  ASSUME EngineTypeOK, NEW r \in Requirements, NEW c \in LegalCandidates(r), MovesTo(r, c)
  PROVE  Clashes(plan') \subseteq Clashes(plan)
<1> DEFINE p == [plan EXCEPT ![r] = c]
<1>1. plan' = p
  BY DEF MovesTo
<1>2. ASSUME NEW a \in Requirements, NEW b \in Requirements, Clash(p, a, b)
      PROVE  Clash(plan, a, b)
  <2>1. a # r /\ b # r
    BY <1>2, ClashIsMutual, CandidatesClashWithNone
  <2>2. p[a] = plan[a] /\ p[b] = plan[b]
    BY <2>1 DEF EngineTypeOK
  <2> QED BY <1>2, <2>2 DEF Clash
<1> QED BY <1>1, <1>2, ClashesAre

(* During a pass no two sessions come to clash that did not before,        *)
(* whatever was placed by hand.                                            *)
THEOREM PassesAddNoClash == EngineSpec => PassAddsNoClash
<1>1. EngineTypeOK /\ [EngineNext]_engine =>
        [(pass \in {"repair", "optimize"}) => Clashes(plan') \subseteq Clashes(plan)]_engine
  <2> SUFFICES ASSUME EngineTypeOK, EngineNext, pass \in {"repair", "optimize"}
               PROVE  Clashes(plan') \subseteq Clashes(plan)
    OBVIOUS
  <2>1. PassStep
    BY DEF EngineNext, Regenerate, BeginRepair, BeginOptimize, BeginPass, Edit
  <2> QED BY <2>1, EngineMoves, MoveAddsNoClash
<1> QED BY <1>1, TypeCorrect, PTL DEF EngineSpec, PassAddsNoClash

(***************************************************************************)
(* A session at one of its candidates is well placed, and leaves the       *)
(* others as well placed as they were.                                     *)
(***************************************************************************)
(* Sessions of r's cohort that the plan has on that day, r itself apart.   *)
OnDay(r, day) == {q \in SameCohort(r) : plan[q].slot.day = day}

SoundAt(r) == ~Misplaced(r) /\ plan[r].slot.day \notin blackout_weekdays

LEMMA CountedOnDay ==
  ASSUME NEW r, NEW day
  PROVE  IsFiniteSet(OnDay(r, day)) /\ Cardinality(OnDay(r, day)) \in Nat
<1>1. OnDay(r, day) \subseteq Requirements
  BY DEF OnDay, SameCohort, Others, Placed
<1> QED BY <1>1, NumbersAssumption, FS_Subset, FS_CardinalityType

(* What moving r to c does to the sessions that are placed.                *)
LEMMA MovedPlan ==
  ASSUME EngineTypeOK, NEW r \in Requirements, NEW c \in LegalCandidates(r), MovesTo(r, c)
  PROVE  /\ plan'[r] = c /\ Placed' = Placed \cup {r}
         /\ \A q \in Requirements \ {r} : plan'[q] = plan[q]
<1>1. c \in Placement /\ c # Unplaced
  BY ChoicesAreCandidates, PlacedSomewhere
<1> QED BY <1>1 DEF MovesTo, Placed, EngineTypeOK

(* The moved session itself.                                               *)
LEMMA MovedIsSound ==
  ASSUME EngineTypeOK, NEW r \in Requirements, NEW c \in LegalCandidates(r), MovesTo(r, c)
  PROVE  SoundAt(r)'
<1>1. /\ plan'[r] = c /\ Placed' = Placed \cup {r} /\ task' = task
      /\ \A q \in Requirements \ {r} : plan'[q] = plan[q]
  BY MovedPlan DEF MovesTo
<1>2. LegalSlot(r, c.slot)
      /\ IF FreeRooms(r, c.slot) = {} THEN c.room = NoRoom ELSE c.room \in FreeRooms(r, c.slot)
  BY DEF LegalCandidates
<1>3. ~NonWorkday(r)' /\ (plan[r].slot.day \notin blackout_weekdays)'
  BY <1>1, <1>2 DEF NonWorkday, LegalSlot, blackout_weekdays
<1>4. ~unavailable(r, plan[r].slot)'
  BY <1>1, <1>2 DEF LegalSlot, unavailable, unavail_map, lecturer
<1>5. ~WrongRoom(r)'
  BY <1>1, <1>2 DEF WrongRoom, FreeRooms, suits
<1>6. ~OverDayLimit(r)'
  <2>1. {q \in SameCohort(r) : plan[q].slot.day = plan[r].slot.day}' = OnDay(r, c.slot.day)
    BY <1>1 DEF OnDay, SameCohort, Others, Placed, cohort
  <2>2. Cardinality(OnDay(r, c.slot.day)) < MaxPerDay
    BY <1>2 DEF LegalSlot, OnDay, Where
  <2>3. Cardinality(OnDay(r, c.slot.day)) \in Nat /\ MaxPerDay \in Nat
    BY CountedOnDay, ConfigAssumption
  <2>4. OverDayLimit(r)' <=> Cardinality(OnDay(r, c.slot.day)) >= MaxPerDay
    BY <2>1 DEF OverDayLimit
  <2> QED BY <2>2, <2>3, <2>4
<1> QED BY <1>3, <1>4, <1>5, <1>6 DEF SoundAt, Misplaced

(* Another session: on its day there are now at most as many others as the *)
(* moved one found there.                                                  *)
LEMMA OthersStaySound ==
  ASSUME EngineTypeOK, NEW r \in Requirements, NEW c \in LegalCandidates(r), MovesTo(r, c),
         NEW q \in Placed, q # r, SoundAt(q)
  PROVE  SoundAt(q)'
<1> DEFINE day == plan[q].slot.day
           now == {x \in SameCohort(q) : plan[x].slot.day = plan[q].slot.day}'
<1>1. /\ plan'[r] = c /\ Placed' = Placed \cup {r} /\ task' = task
      /\ q \in Requirements /\ plan'[q] = plan[q]
      /\ \A x \in Requirements \ {r} : plan'[x] = plan[x]
  BY MovedPlan DEF MovesTo, Placed
<1>2. ~NonWorkday(q)' /\ ~unavailable(q, plan[q].slot)' /\ ~WrongRoom(q)'
      /\ (plan[q].slot.day \notin blackout_weekdays)'
  BY <1>1 DEF SoundAt, Misplaced, NonWorkday, unavailable, unavail_map, WrongRoom, lecturer, suits,
              blackout_weekdays
<1>3. Cardinality(OnDay(q, day)) < MaxPerDay
  <2>1. ~(Cardinality(OnDay(q, day)) >= MaxPerDay)
    BY DEF SoundAt, Misplaced, OverDayLimit, OnDay
  <2> QED BY <2>1, CountedOnDay, NumbersAssumption, ConfigAssumption
<1>4. Cardinality(now) \in Nat /\ Cardinality(now) < MaxPerDay
  <2>1. now = {x \in Placed' \ {q} : cohort(x) = cohort(q) /\ plan'[x].slot.day = day}
    BY <1>1 DEF SameCohort, Others, cohort
  <2>2. CASE cohort(r) = cohort(q) /\ c.slot.day = day
    <3>1. /\ r \in now
          /\ now \ {r} = OnDay(r, day) \ {q}
          /\ q \in OnDay(r, day)
      BY <1>1, <2>1, <2>2 DEF OnDay, SameCohort, Others, Placed
    <3>2. Cardinality(OnDay(r, day)) < MaxPerDay
      BY <2>2 DEF LegalCandidates, LegalSlot, OnDay, Where
    <3>3. IsFiniteSet(OnDay(r, day)) /\ Cardinality(OnDay(r, day)) \in Nat
      BY CountedOnDay
    <3>4. /\ IsFiniteSet(OnDay(r, day) \ {q})
          /\ Cardinality(OnDay(r, day) \ {q}) = Cardinality(OnDay(r, day)) - 1
      BY <3>1, <3>3, FS_RemoveElement
    <3>5. now = (OnDay(r, day) \ {q}) \cup {r} /\ r \notin OnDay(r, day) \ {q}
      BY <3>1
    <3>6. Cardinality(now) = Cardinality(OnDay(r, day) \ {q}) + 1
      BY <3>4, <3>5, FS_AddElement
    <3> QED BY <3>2, <3>3, <3>4, <3>6
  <2>3. CASE ~(cohort(r) = cohort(q) /\ c.slot.day = day)
    <3>1. now \subseteq OnDay(q, day)
      BY <1>1, <2>1, <2>3 DEF OnDay, SameCohort, Others, Placed
    <3>2. IsFiniteSet(OnDay(q, day)) /\ Cardinality(OnDay(q, day)) \in Nat
      BY CountedOnDay
    <3>3. Cardinality(now) <= Cardinality(OnDay(q, day)) /\ Cardinality(now) \in Nat
      BY <3>1, <3>2, FS_Subset, FS_CardinalityType
    <3>4. MaxPerDay \in Nat
      BY ConfigAssumption
    <3> QED BY <1>3, <3>2, <3>3, <3>4
  <2> QED BY <2>2, <2>3
<1>5. ~OverDayLimit(q)'
  <2>1. OverDayLimit(q)' <=> Cardinality(now) >= MaxPerDay
    BY DEF OverDayLimit
  <2>2. MaxPerDay \in Nat
    BY ConfigAssumption
  <2> QED BY <1>4, <2>1, <2>2
<1> QED BY <1>2, <1>5 DEF SoundAt, Misplaced

LEMMA SoundInit == EngineInit => GeneratedIsSound
<1> SUFFICES ASSUME EngineInit PROVE GeneratedIsSound
  OBVIOUS
<1>1. \A r \in Requirements : plan[r] = Unplaced
  BY DEF EngineInit
<1>2. Placed = {} /\ Clashes(plan) = {}
  BY <1>1, ClashesAre DEF Placed, Clash
<1> QED BY <1>2 DEF GeneratedIsSound

LEMMA SoundStep == EngineTypeOK /\ GeneratedIsSound /\ [EngineNext]_engine => GeneratedIsSound'
<1> SUFFICES ASSUME EngineTypeOK, GeneratedIsSound, [EngineNext]_engine, edits' = 0
             PROVE  /\ Clashes(plan)' = {}
                    /\ \A r \in Placed' : SoundAt(r)'
  BY DEF GeneratedIsSound, SoundAt
<1>1. CASE UNCHANGED <<task, plan, edits>>
  <2>1. Clashes(plan) = {} /\ \A r \in Placed : SoundAt(r)
    BY <1>1 DEF GeneratedIsSound, SoundAt
  <2>2. Clashes(plan)' = Clashes(plan) /\ Placed' = Placed
    BY <1>1 DEF Clashes, LecturerBusy, RoomBusy, CohortClash, Meanwhile, lecturer, cohort, Placed
  <2>3. \A r : SoundAt(r)' = SoundAt(r)
    BY <1>1 DEF SoundAt, Misplaced, NonWorkday, unavailable, unavail_map, WrongRoom, OverDayLimit, SameCohort,
                Others, Placed, lecturer, cohort, suits, blackout_weekdays
  <2> QED BY <2>1, <2>2, <2>3
<1>2. ASSUME NEW r \in Requirements, NEW c \in LegalCandidates(r), MovesTo(r, c)
      PROVE  Clashes(plan)' = {} /\ \A q \in Placed' : SoundAt(q)'
  <2>1. Clashes(plan) = {} /\ \A q \in Placed : SoundAt(q)
    BY <1>2 DEF GeneratedIsSound, SoundAt, MovesTo
  <2>2. Clashes(plan)' = Clashes(plan')
    BY <1>2 DEF MovesTo, Clashes, LecturerBusy, RoomBusy, CohortClash, Meanwhile, lecturer, cohort
  <2>3. Clashes(plan') = {}
    BY <1>2, <2>1, MoveAddsNoClash
  <2>4. Placed' = Placed \cup {r}
    BY <1>2, MovedPlan
  <2>5. SoundAt(r)'
    BY <1>2, MovedIsSound
  <2>6. \A q \in Placed : q # r => SoundAt(q)'
    BY <1>2, <2>1, OthersStaySound
  <2> QED BY <2>2, <2>3, <2>4, <2>5, <2>6
<1>3. CASE Regenerate
  <2>1. \A r \in Requirements : plan'[r] = Unplaced
    BY <1>3 DEF Regenerate
  <2>2. Placed' = {}
    BY <2>1 DEF Placed
  <2>3. Clashes(plan)' = {}
    BY <2>1 DEF Clashes, LecturerBusy, RoomBusy, CohortClash, Meanwhile
  <2> QED BY <2>2, <2>3
<1>4. CASE PassStep
  BY <1>1, <1>2, <1>4, EngineMoves
<1>5. CASE BeginRepair \/ BeginOptimize
  BY <1>1, <1>5 DEF BeginRepair, BeginOptimize, BeginPass
<1>6. CASE \E r \in Requirements : Edit(r)
  BY <1>6 DEF Edit, EngineTypeOK
<1>7. CASE UNCHANGED engine
  BY <1>1, <1>7 DEF engine
<1> QED BY <1>3, <1>4, <1>5, <1>6, <1>7 DEF EngineNext

(* What the engine places by itself is sound, after generation and after   *)
(* any number of repairs and optimizations.                                *)
THEOREM EnginePlansAreSound == EngineSpec => []GeneratedIsSound
<1>1. EngineTypeOK /\ GeneratedIsSound /\ [EngineNext]_engine => (EngineTypeOK /\ GeneratedIsSound)'
  BY TypeStep, SoundStep
<1> QED BY <1>1, TypeInit, SoundInit, PTL DEF EngineSpec
=============================================================================
