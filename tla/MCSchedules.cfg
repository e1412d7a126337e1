\* The workflow with one worker, two schedules of one term; the engine with three
\* sessions of two offerings.
CONSTANTS
  main = main
  rival = rival
  d1 = d1
  d2 = d2
  Schedules = {main, rival}
  Workers = {w1}
  Departments = {d1, d2}
  Sessions = {d1, d2}
  Owner <- Owners
  Term <- OneTerm
  Contents <- Held
  MaxVersions <- Kept
  MaxUnplaced <- Left
  a = a
  b = b
  k1 = k1
  k2 = k2
  Requirements = {1, 2, 3}
  Offerings = {a, b}
  Offering <- OfferingOf
  Slots <- Week
  Rooms = {1, 2}
  Labs = {3}
  LabRooms = {1}
  Lecturers = {1}
  Cohorts = {k1, k2}
  Workdays = {0, 1}
  Events <- EventsOfTerm
  SemesterDays = {0, 1, 7, 8, 14, 15}
  MaxPerDay = 2
  MinBreak = 10
  Morning = 540
  Evening = 660
  TargetDays = 2
  Budget = 9
  Iterations = 1
  Tasks <- Problems
  MaxEdits = 2
SPECIFICATION SchedulingSpec
SYMMETRY Heads
CONSTRAINT RivalUnsigned
INVARIANTS TypeOK OneCurrent PublishedStands HeadsSigned EngineTypeOK GeneratedIsSound
PROPERTIES NothingOverwritten PassAddsNoClash
