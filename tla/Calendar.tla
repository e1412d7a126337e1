------------------------------ MODULE Calendar ------------------------------
(***************************************************************************)
(* The academic calendar as one user sees it (scheduling/services.py,      *)
(* calendar_items; scheduling/views.py): classes of the week laid out over *)
(* a month, a week, a day or a semester, with the events the user may see, *)
(* while timetables are published, courses taken and semesters changed.    *)
(*                                                                         *)
(* Dates are day numbers from the first day of the first month.            *)
(***************************************************************************)
EXTENDS Integers, FiniteSetsExt, Functions

CONSTANTS
  MonthLengths,   \* a sequence: the months the calendar may be opened at
  FirstWeekday,   \* weekday of day 0; Monday is 0
  Term,           \* first and last day of each semester, in the order of time
  Schedules,      \* the semester of each timetable
  Entries,        \* timetable and weekday of each ScheduleEntry
  Events          \* AcademicEvent rows there may be

VARIABLES
  role,       \* of the user: student, teacher, hod (a teacher too) or admin
  published,  \* timetables whose status is PUBLISHED
  flagged,    \* timetables with is_current set
  mine,       \* entries of the user's courses, or department for a hod
  events,     \* the AcademicEvent rows
  current,    \* semesters with is_current set
  page        \* what the user looks at

vars == <<role, published, flagged, mine, events, current, page>>

None == "none"
Semesters == DOMAIN Term
Months == DOMAIN MonthLengths
Mode == {"month", "week", "day", "agenda"}
Closed == [mode |-> None, semester |-> 0, month |-> 0, day |-> 0, timetable |-> None,
           classes |-> {}, events |-> {}]

Init ==
  /\ role \in {"student", "teacher", "hod", "admin"}
  /\ published = {} /\ flagged = {} /\ mine = {} /\ events = {}
  /\ current = {}
  /\ page = Closed

(***************************************************************************)
(* Dates.                                                                  *)
(***************************************************************************)
MonthStart == [m \in Months |-> SumFunctionOnSet(MonthLengths, 1..(m - 1))]
DateOf(m, day) == MonthStart[m] + day - 1
Weekday(d) == (d + FirstWeekday) % 7
MonthOf(d) == CHOOSE m \in Months : d \in DateOf(m, 1)..DateOf(m, MonthLengths[m])
Within(d) == \E m \in Months : d \in DateOf(m, 1)..DateOf(m, MonthLengths[m])

(* The window of each mode.  Days past the 28th are taken for the 28th.    *)
BaseDate(m, day) == DateOf(m, Min({day, 28}))
Monday(d) == d - Weekday(d)

Window(mode, y, m, day) ==
  CASE mode = "month" -> [start |-> DateOf(m, 1), end |-> DateOf(m, MonthLengths[m])]
    [] mode = "week" -> [start |-> Monday(BaseDate(m, day)), end |-> Monday(BaseDate(m, day)) + 6]
    [] mode = "day" -> [start |-> BaseDate(m, day), end |-> BaseDate(m, day)]
    [] mode = "agenda" -> [start |-> Term[y].start, end |-> Term[y].end]

(***************************************************************************)
(* What the user may see.                                                  *)
(***************************************************************************)
(* Semester.get_current; the calendar falls back on the latest.            *)
GetCurrent == IF current = {} THEN 0 ELSE Max(current)
DefaultSemester == IF current = {} THEN Max(Semesters) ELSE Max(current)

Eligible(y) == {s \in DOMAIN Schedules : Schedules[s] = y /\ (role = "admin" \/ s \in published)}

(* The current one of them, or else the last one touched.                  *)
ActiveSchedule(y) ==
  IF Eligible(y) = {} THEN {None}
  ELSE IF Eligible(y) \cap flagged # {} THEN Eligible(y) \cap flagged
  ELSE Eligible(y)

ScopedEntries(s) == {e \in DOMAIN Entries : Entries[e].timetable = s /\ (role = "admin" \/ e \in mine)}

(* Scoped events are those of an entry's course.                           *)
EventVisible(v) ==
  /\ v.public = "yes" \/ role \in {"hod", "admin"}
  /\ v.scope = "all" \/ role = "admin" \/ v.entry \in mine

(* entry_detail: published entries of the user's scope, a student's in the *)
(* current semester.                                                       *)
EntryDetail(e) ==
  \/ role = "admin"
  \/ /\ e \in mine /\ Entries[e].timetable \in published
     /\ role = "student" => Schedules[Entries[e].timetable] = GetCurrent

(***************************************************************************)
(* Laying out.                                                             *)
(***************************************************************************)
(* Mutant: one class fewer than the window has days.                       *)
FewerPlaced(window) == 0..Min({window.end - window.start, 90}) - 1

(* Every seventh day from the first, no more than the horizon allows.      *)
Placed(window) == 0..Min({window.end - window.start, 90})

ClassDays(e, window) ==
  LET first == window.start + ((Entries[e].day - Weekday(window.start)) % 7)
  IN  {d \in {first + 7 * i : i \in Placed(window)} : d <= window.end}

EventDays(v, window) == Max({window.start, v.start})..Min({window.end, v.end})

CalendarItems(mode, y, m, day, timetable) ==
  LET window == Window(mode, y, m, day)
  IN  [mode |-> mode, semester |-> y, month |-> m, day |-> day, timetable |-> timetable,
       classes |-> UNION {{e} \X ClassDays(e, window) : e \in ScopedEntries(timetable)},
       events |-> UNION {{v.title} \X EventDays(v, window) : v \in {v \in events : EventVisible(v)}}]

Show(mode, y, m, day) ==
  /\ \E s \in ActiveSchedule(y) : page' = CalendarItems(mode, y, m, day, s)
  /\ UNCHANGED <<role, published, flagged, mine, events, current>>

(***************************************************************************)
(* The user: opens the calendar anywhere, turns its pages.                 *)
(***************************************************************************)
OpenCalendar(mode, m, day) == page = Closed /\ Show(mode, DefaultSemester, m, day)
ChooseSemester(y) == page # Closed /\ Show(page.mode, y, page.month, page.day)
SwitchMode(mode) == page # Closed /\ Show(mode, page.semester, page.month, page.day)

(* The links carry the date, by year, month and day.                       *)
Turned(date) ==
  /\ Within(date)
  /\ LET m == MonthOf(date) IN Show(page.mode, page.semester, m, date - MonthStart[m] + 1)

Step == CASE page.mode = "week" -> 7 [] page.mode = "agenda" -> 90 [] OTHER -> 1
Shown == Window(page.mode, page.semester, page.month, page.day)

GoPrevious ==
  /\ page # Closed
  /\ IF page.mode = "month"
       THEN page.month - 1 \in Months /\ Show("month", page.semester, page.month - 1, 1)
       ELSE Turned(Shown.start - Step)

GoNext ==
  /\ page # Closed
  /\ IF page.mode = "month"
       THEN page.month + 1 \in Months /\ Show("month", page.semester, page.month + 1, 1)
       ELSE Turned(Shown.end + Step)

(***************************************************************************)
(* Meanwhile.  A page stays as it was until the user leaves it or asks     *)
(* again: here, the office acts between two visits.                        *)
(***************************************************************************)
Leave ==
  /\ page # Closed
  /\ page' = Closed
  /\ UNCHANGED <<role, published, flagged, mine, events, current>>

Toggled(x, S) == IF x \in S THEN S \ {x} ELSE S \cup {x}

(* A timetable is published, and made the semester's current one, or is    *)
(* taken back.                                                             *)
Publish(s) ==
  /\ published' = published \cup {s}
  /\ flagged' = {s} \cup {t \in flagged : Schedules[t] # Schedules[s]}
  /\ UNCHANGED <<page, role, mine, events, current>>

Unpublish(s) ==
  /\ s \in published
  /\ published' = published \ {s}
  /\ flagged' \in {flagged, flagged \ {s}}
  /\ UNCHANGED <<page, role, mine, events, current>>

TakeCourse(e) ==
  /\ mine' = Toggled(e, mine)
  /\ UNCHANGED <<page, role, published, flagged, events, current>>

(* event_create, event_edit (to a row of another kind) and event_delete.   *)
EventChange(v) ==
  /\ events' = Toggled(v, events)
  /\ UNCHANGED <<page, role, published, flagged, mine, current>>

(* Semester.save clears the flag of the others and sets its own: two saves *)
(* at once leave both.  A semester saved without the flag just loses it.   *)
SaveSemester(y) ==
  /\ current' \in {{y}, current \cup {y}, current \ {y}}
  /\ UNCHANGED <<page, role, published, flagged, mine, events>>

OfficeStep ==
  /\ page = Closed
  /\ \/ \E s \in DOMAIN Schedules : Publish(s) \/ Unpublish(s)
     \/ \E e \in DOMAIN Entries : TakeCourse(e)
     \/ \E v \in Events : EventChange(v)
     \/ \E y \in Semesters : SaveSemester(y)

Next ==
  \/ OfficeStep \/ Leave
  \/ \E mode \in Mode, m \in Months : \E day \in 1..MonthLengths[m] : OpenCalendar(mode, m, day)
  \/ \E y \in Semesters : ChooseSemester(y)
  \/ \E mode \in Mode : SwitchMode(mode)
  \/ GoPrevious \/ GoNext

Spec == Init /\ [][Next]_vars

(***************************************************************************)
(* Properties.                                                             *)
(***************************************************************************)
(* Every row keeps its type.                                               *)
TypeOK ==
  /\ published \subseteq DOMAIN Schedules /\ flagged \subseteq DOMAIN Schedules
  /\ mine \subseteq DOMAIN Entries /\ events \subseteq Events /\ current \subseteq Semesters
  /\ page # Closed => page.mode \in Mode /\ page.semester \in Semesters

(* "Visibility mirrors services.calendar_items": a page shows each entry   *)
(* of the user's on every one of its weekdays in the window and on no      *)
(* other day, and entry_detail opens what it shows of the current semester. *)
PageIsTrue ==
  page # Closed =>
    /\ page.classes = {c \in ScopedEntries(page.timetable) \X (Shown.start..Shown.end) :
                         Weekday(c[2]) = Entries[c[1]].day}
    /\ page.semester = GetCurrent => \A c \in page.classes : EntryDetail(c[1])

(***************************************************************************)
(* Inductive strengthening.                                                *)
(***************************************************************************)
PageInv ==
  /\ TypeOK /\ PageIsTrue
  /\ page # Closed => page.month \in Months /\ page.day \in Int
=============================================================================
