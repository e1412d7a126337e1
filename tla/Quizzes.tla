------------------------------- MODULE Quizzes -------------------------------
(***************************************************************************)
(* One quiz and one student's attempts at it (students/views,              *)
(* teachers/views).                                                        *)
(*                                                                         *)
(* A submission saves the answers one by one and the attempt last, a       *)
(* manual grading the marks one by one and the score last; nothing is      *)
(* locked and each save commits.  A question is worth one mark.            *)
(***************************************************************************)
EXTENDS Integers, FiniteSets

CONSTANTS
  Attempts,    \* primary keys for QuizAttempt rows
  Questions,   \* primary keys for QuizQuestion rows
  MaxAttempts, \* the quiz's max_attempts
  Workers

VARIABLES
  published,  \* is_published
  phase,      \* the clock against start_datetime and end_datetime
  enrolled,
  kinds,      \* the kind of each question added so far
  attempts,   \* the QuizAttempt rows
  answers,    \* marks_awarded of the QuizAnswer rows of each attempt
  expired,    \* attempts whose duration is over
  asked,      \* history: the questions of the submission that completed an attempt
  mem

vars == <<published, phase, enrolled, kinds, attempts, answers, expired, asked, mem>>

None == "none"
NoMark == -1
Idle == [op |-> "idle"]
QuestionType == {"choice", "short"}
NoAttempt == [number |-> 0, complete |-> "no", score |-> NoMark]
NoAnswers == [q \in Questions |-> NoMark]

Init ==
  /\ published = "no" /\ phase = "before" /\ enrolled = "yes"
  /\ kinds = [q \in Questions |-> None]
  /\ attempts = [t \in Attempts |-> NoAttempt]
  /\ answers = [t \in Attempts |-> NoAnswers]
  /\ expired = {}
  /\ asked = [t \in Attempts |-> {}]
  /\ mem = [w \in Workers |-> Idle]

Become(w, m) == mem' = [mem EXCEPT ![w] = m]

Drop(w) ==
  /\ mem[w] # Idle
  /\ Become(w, Idle)
  /\ UNCHANGED <<published, phase, enrolled, kinds, attempts, answers, expired, asked>>

(***************************************************************************)
(* The teacher's quiz.                                                     *)
(***************************************************************************)
(* quiz_publish_toggle; the quiz may be taken back while it is being taken. *)
PublishToggle ==
  /\ published' = IF published = "yes" THEN "no" ELSE "yes"
  /\ UNCHANGED <<phase, enrolled, kinds, attempts, answers, expired, asked, mem>>

(* quiz_question_add, at any time.                                         *)
QuestionAdd(q) ==
  /\ kinds[q] = None
  /\ \E kind \in QuestionType : kinds' = [kinds EXCEPT ![q] = kind]
  /\ UNCHANGED <<published, phase, enrolled, attempts, answers, expired, asked, mem>>

ClockTick ==
  /\ phase # "after"
  /\ phase' = IF phase = "before" THEN "open" ELSE "after"
  /\ UNCHANGED <<published, enrolled, kinds, attempts, answers, expired, asked, mem>>

LeaveCourse ==
  /\ enrolled = "yes" /\ enrolled' = "no"
  /\ UNCHANGED <<published, phase, kinds, attempts, answers, expired, asked, mem>>

IsOpen == phase = "open" /\ published = "yes"
Asked == {q \in Questions : kinds[q] # None}

(***************************************************************************)
(* Attempts.                                                               *)
(***************************************************************************)
Started == {t \in Attempts : attempts[t] # NoAttempt}

(* quiz_start counts the attempts ...                                      *)
QuizStart(w) ==
  /\ mem[w] = Idle
  /\ enrolled = "yes" /\ IsOpen /\ Cardinality(Started) < MaxAttempts
  /\ Become(w, [op |-> "start", number |-> Cardinality(Started) + 1])
  /\ UNCHANGED <<published, phase, enrolled, kinds, attempts, answers, expired, asked>>

(* Mutant: the table has no unique constraint.                             *)
NumberAlwaysFree(n) == TRUE

(* unique_together (quiz, student, attempt_number).                        *)
NumberFree(n) == \A t \in Started : attempts[t].number # n

(* ... and inserts the next.                                               *)
CreateAttempt(w, t) ==
  /\ mem[w].op = "start" /\ attempts[t] = NoAttempt
  /\ NumberFree(mem[w].number)
  /\ attempts' = [attempts EXCEPT ![t].number = mem[w].number]
  /\ Become(w, Idle)
  /\ UNCHANGED <<published, phase, enrolled, kinds, answers, expired, asked>>

TimeIsUp(t) ==
  /\ t \in Started \ expired
  /\ expired' = expired \cup {t}
  /\ UNCHANGED <<published, phase, enrolled, kinds, attempts, answers, asked, mem>>

(* quiz_take of an attempt that is not complete: a form, on time or late,  *)
(* or the mere opening of the page once the time is up, with no answers.   *)
QuizTake(w, t) ==
  /\ mem[w] = Idle
  /\ t \in Started /\ attempts[t].complete = "no"
  /\ \E form \in {"filled", "empty"} :
       /\ form = "empty" => t \in expired
       /\ Become(w, [op |-> "take", attempt |-> t, form |-> form,
                     listed |-> Asked, left |-> Asked, total |-> 0])
  /\ UNCHANGED <<published, phase, enrolled, kinds, attempts, answers, expired, asked>>

(* A choice may be right or wrong, and an empty form is right only where no *)
(* choice was marked as correct; a short answer waits for the teacher.     *)
Awarded(q) == IF kinds[q] = "choice" THEN 0..1 ELSE {0}

SaveAnswer(w, q) ==
  /\ mem[w].op = "take" /\ q \in mem[w].left
  /\ \E marks \in Awarded(q) :
       /\ answers' = [answers EXCEPT ![mem[w].attempt][q] = marks]
       /\ Become(w, [mem[w] EXCEPT !.left = @ \ {q}, !.total = @ + marks])
  /\ UNCHANGED <<published, phase, enrolled, kinds, attempts, expired, asked>>

(* Mutant: the attempt is saved before its answers.                        *)
SavedAnyTime(w) == TRUE

AllSaved(w) == mem[w].left = {}

CompleteAttempt(w) ==
  /\ mem[w].op = "take" /\ AllSaved(w)
  /\ LET t == mem[w].attempt
     IN  /\ attempts' = [attempts EXCEPT ![t].score = mem[w].total, ![t].complete = "yes"]
         /\ asked' = [asked EXCEPT ![t] = mem[w].listed]
  /\ Become(w, Idle)
  /\ UNCHANGED <<published, phase, enrolled, kinds, answers, expired>>

(***************************************************************************)
(* Manual grading: quiz_attempt_detail, of any attempt.                    *)
(***************************************************************************)
Answered(t) == {q \in Questions : answers[t][q] # NoMark}

QuizAttemptDetail(w, t) ==
  /\ mem[w] = Idle /\ t \in Started
  /\ Become(w, [op |-> "mark", attempt |-> t, rows |-> answers[t],
                left |-> Answered(t), total |-> 0])
  /\ UNCHANGED <<published, phase, enrolled, kinds, attempts, answers, expired, asked>>

(* A field left empty keeps the marks as they were fetched.                *)
MarkAnswer(w, q) ==
  /\ mem[w].op = "mark" /\ q \in mem[w].left
  /\ LET t == mem[w].attempt
     IN \/ /\ Become(w, [mem[w] EXCEPT !.left = @ \ {q}, !.total = @ + mem[w].rows[q]])
           /\ UNCHANGED answers
        \/ \E marks \in 0..1 :
             /\ Become(w, [mem[w] EXCEPT !.left = @ \ {q}, !.total = @ + marks])
             /\ answers' = [answers EXCEPT ![t][q] = marks]
  /\ UNCHANGED <<published, phase, enrolled, kinds, attempts, expired, asked>>

SaveScore(w) ==
  /\ mem[w].op = "mark" /\ mem[w].left = {}
  /\ attempts' = [attempts EXCEPT ![mem[w].attempt].score = mem[w].total]
  /\ Become(w, Idle)
  /\ UNCHANGED <<published, phase, enrolled, kinds, answers, expired, asked>>

(***************************************************************************)
(* The specification.                                                      *)
(***************************************************************************)
StudentStep(w) ==
  \/ QuizStart(w) \/ CompleteAttempt(w)
  \/ \E t \in Attempts : CreateAttempt(w, t) \/ QuizTake(w, t)
  \/ \E q \in Questions : SaveAnswer(w, q)

TeacherStep(w) ==
  \/ SaveScore(w)
  \/ \E t \in Attempts : QuizAttemptDetail(w, t)
  \/ \E q \in Questions : MarkAnswer(w, q)

Next ==
  \/ \E w \in Workers : StudentStep(w) \/ TeacherStep(w) \/ Drop(w)
  \/ PublishToggle \/ ClockTick \/ LeaveCourse
  \/ \E q \in Questions : QuestionAdd(q)
  \/ \E t \in Attempts : TimeIsUp(t)

Spec == Init /\ [][Next]_vars

(***************************************************************************)
(* Properties.                                                             *)
(***************************************************************************)
ScoreRange == NoMark..Cardinality(Questions)

(* Every row keeps its type: a score is within the marks of the quiz.      *)
TypeOK ==
  /\ published \in {"yes", "no"} /\ phase \in {"before", "open", "after"}
  /\ enrolled \in {"yes", "no"}
  /\ kinds \in [Questions -> QuestionType \cup {None}]
  /\ attempts \in [Attempts -> [number : 0..MaxAttempts, complete : {"yes", "no"}, score : ScoreRange]]
  /\ answers \in [Attempts -> [Questions -> NoMark..1]]
  /\ expired \subseteq Started
  /\ asked \in [Attempts -> SUBSET Questions]

(* However often the student clicks, there are never more attempts than    *)
(* max_attempts; and wherever a submission dies, no attempt stands         *)
(* complete with an answer that was not saved.                             *)
AttemptsKept ==
  /\ Cardinality(Started) <= MaxAttempts
  /\ \A t \in Attempts : attempts[t].complete = "yes" => asked[t] \subseteq Answered(t)

(***************************************************************************)
(* Inductive strengthening.                                                *)
(***************************************************************************)
Request ==
  {Idle} \cup [op : {"start"}, number : 1..MaxAttempts]
  \cup [op : {"take"}, attempt : Attempts, form : {"filled", "empty"},
        listed : SUBSET Questions, left : SUBSET Questions, total : Nat]
  \cup [op : {"mark"}, attempt : Attempts, rows : [Questions -> NoMark..1],
        left : SUBSET Questions, total : Nat]

AttemptInv ==
  /\ TypeOK /\ mem \in [Workers -> Request]
  /\ \A t \in Started :
       /\ attempts[t].number >= 1
       /\ \A u \in Started : attempts[t].number = attempts[u].number => t = u
  /\ \A w \in Workers :
       /\ mem[w].op \in {"take", "mark"} =>
            /\ mem[w].attempt \in Started
            /\ mem[w].total + Cardinality(mem[w].left) <= Cardinality(Questions)
       /\ mem[w].op = "take" =>
            /\ mem[w].left \subseteq mem[w].listed
            /\ mem[w].listed \ mem[w].left \subseteq Answered(mem[w].attempt)
       /\ mem[w].op = "mark" => \A q \in mem[w].left : mem[w].rows[q] # NoMark
  /\ AttemptsKept
=============================================================================
