\* Two workers at each desk, and the smallest sets that let their requests cross.
CONSTANTS
  Workers = {w1, w2}
  Students = {s1}
  Scores = {good}
  Schemes = {k1}
  MaxRevision = 2
  Requests <- DeskRequests
  Texts = {x1, x2}
  Marks = {"pass"}
  Attempts = {t1, t2}
  Questions = {q1}
  Offerings = {o1, o2}
  Listed = {o2}
  MaxAccesses = 2
  MaxAttempts = 1
  Sessions = {1, 2}
  Courses = {"c1", "c2"}
  CourseSession <- TwoCourses
  RetakeOf <- Retakes
  Units <- OneUnit
  GradePoint <- Scheme
  Levels = 2
  MinAdvance = 200
  ProbationThreshold = 50
  WithdrawThreshold = 20
  MaxFailed = 0
  MaxPushes = 1
  Completing = {2}
  OfferingSession <- OldAndNew
  Priced = {2}
  Due = 1
  MonthLengths <- WinterMonths
  FirstWeekday = 3
  Term <- WinterTerms
  Schedules <- OneTimetable
  Classes <- OneClass
  Events <- OneExam
SPECIFICATION TeachingSpec
SYMMETRY Keys
CONSTRAINT OnePart
CHECK_DEADLOCK FALSE
INVARIANTS TypesOK ChainOfApproval LockedAsApproved NextPublishIsNew ScoreIsOfThisText CountNeverAhead
           AttemptsKept NeverDoubled ChargedOnce PageIsTrue
