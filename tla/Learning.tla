------------------------------ MODULE Learning -------------------------------
(***************************************************************************)
(* Learning (lms-service): courses with one version and one assessment     *)
(* each, enrolments made by hand or by a mandatory rule, progress through  *)
(* lessons, and attempts at assessments, which complete the enrolment and  *)
(* issue a certificate when they are passed.  A request that only inserts  *)
(* a row is one step; a step that ends in COMMIT is also the update by id  *)
(* just before it.  An attempt names any assessment: the code does not ask *)
(* whether it is one of the course of the enrolment.                       *)
(***************************************************************************)
EXTENDS Integers, FiniteSets

CONSTANTS Learners,     \* employees
          Courses,      \* courses, each with its version and its assessment
          Students,     \* requests that may be under way at the same time
          MaxAttempts,  \* assessments.max_attempts
          NoEnrolment   \* "no enrolment"

VARIABLES
  course,       \* course[c]: "none", "draft" or "published"
  mandatory,    \* courses with a mandatory_training_rule for all staff
  enrolment,    \* enrolment[n]: the status of n in lms_enrollments, or "none"
  required,     \* enrolments with is_mandatory
  attempts,     \* attempts[n][c]: attempts of n at the assessment of c
  certificates, \* certificates[n]: how many were issued for n
  taking,       \* taking[w]: what the request w is doing
  of,           \* of[w]: the enrolment it is about
  paper,        \* paper[w]: the assessment that it attempts
  status,       \* status[w]: the status of the enrolment as w has read it
  attempt,      \* attempt[w]: the number of the attempt
  overtaken     \* enrolments that were completed after their status was read
                \* and before it was written

Enrolments == Learners \X Courses

catalogue == <<course, mandatory>>
records == <<enrolment, required, attempts, certificates>>
students == <<taking, of, paper, status, attempt>>

LearningInit ==
  /\ course = [c \in Courses |-> "none"]
  /\ mandatory = {} /\ required = {} /\ overtaken = {}
  /\ enrolment = [n \in Enrolments |-> "none"]
  /\ attempts = [n \in Enrolments |-> [c \in Courses |-> 0]]
  /\ certificates = [n \in Enrolments |-> 0]
  /\ taking = [w \in Students |-> "idle"]
  /\ of = [w \in Students |-> NoEnrolment]
  /\ paper = [w \in Students |-> NoEnrolment]
  /\ status = [w \in Students |-> "none"]
  /\ attempt = [w \in Students |-> 0]

-----------------------------------------------------------------------------
(* POST lms/courses, lms/courses/:id/publish, lms/mandatory-rules.         *)
CreateCourse(c) ==
  /\ course[c] = "none"
  /\ course' = [course EXCEPT ![c] = "draft"]
  /\ UNCHANGED <<mandatory, records, students, overtaken>>

Publish(c) ==
  /\ course[c] # "none"
  /\ course' = [course EXCEPT ![c] = "published"]
  /\ UNCHANGED <<mandatory, records, students, overtaken>>

AddRule(c) ==
  /\ course[c] # "none"
  /\ mandatory' = mandatory \cup {c}
  /\ UNCHANGED <<course, records, students, overtaken>>

\* POST lms/enrollments: ON CONFLICT DO NOTHING keeps the row that is there.
Enrol(l, c, is_mandatory) ==
  /\ course[c] = "published" /\ enrolment[<<l, c>>] = "none"
  /\ enrolment' = [enrolment EXCEPT ![<<l, c>>] = "assigned"]
  /\ required' = IF is_mandatory THEN required \cup {<<l, c>>} ELSE required
  /\ UNCHANGED <<catalogue, attempts, certificates, students, overtaken>>

\* POST lms/hr/onboarded: rules of courses that are not published are skipped.
Onboarded(l) ==
  LET new == {<<l, c>> : c \in {d \in mandatory : /\ course[d] = "published"
                                                  /\ enrolment[<<l, d>>] = "none"}}
  IN /\ enrolment' = [n \in Enrolments |-> IF n \in new THEN "assigned"
                                                        ELSE enrolment[n]]
     /\ required' = required \cup new
     /\ UNCHANGED <<catalogue, attempts, certificates, students, overtaken>>

-----------------------------------------------------------------------------
Respond(w) ==
  /\ taking' = [taking EXCEPT ![w] = "idle"]
  /\ of' = [of EXCEPT ![w] = NoEnrolment]
  /\ paper' = [paper EXCEPT ![w] = NoEnrolment]
  /\ status' = [status EXCEPT ![w] = "none"]
  /\ attempt' = [attempt EXCEPT ![w] = 0]

\* An error, or a unique index that refuses a row: ROLLBACK.
Abandon(w) ==
  /\ taking[w] # "idle" /\ Respond(w)
  /\ UNCHANGED <<catalogue, records, overtaken>>

\* POST lms/enrollments/:id/progress: SELECT the status, and the progress of
\* the lesson, which other properties do not depend on.
ReadStatus(w, n) ==
  /\ taking[w] = "idle" /\ enrolment[n] # "none"
  /\ taking' = [taking EXCEPT ![w] = "learning"]
  /\ of' = [of EXCEPT ![w] = n]
  /\ status' = [status EXCEPT ![w] = enrolment[n]]
  /\ UNCHANGED <<catalogue, records, paper, attempt, overtaken>>

\* If it was assigned: UPDATE ... WHERE id = $1.  COMMIT.
CommitProgress(w) ==
  /\ taking[w] = "learning"
  /\ enrolment' = [enrolment EXCEPT ![of[w]] =
                     IF status[w] = "assigned" THEN "in_progress" ELSE @]
  /\ overtaken' = IF status[w] = "assigned" /\ enrolment[of[w]] = "completed"
                  THEN overtaken \cup {of[w]} ELSE overtaken
  /\ Respond(w)
  /\ UNCHANGED <<catalogue, required, attempts, certificates>>

-----------------------------------------------------------------------------
(* POST lms/assessments/:id/attempts.                                      *)
BeginAttempt(w, n, c) ==
  /\ taking[w] = "idle" /\ enrolment[n] # "none" /\ course[c] # "none"
  /\ taking' = [taking EXCEPT ![w] = "answering"]
  /\ of' = [of EXCEPT ![w] = n]
  /\ paper' = [paper EXCEPT ![w] = c]
  /\ attempt' = [attempt EXCEPT ![w] = attempts[n][c] + 1]
  /\ UNCHANGED <<catalogue, records, status, overtaken>>

\* Mutant: one attempt more than the maximum.
NumberAttemptBeyond(w, n, c) ==
  attempts[n][c] <= MaxAttempts /\ BeginAttempt(w, n, c)

\* SELECT max(attempt_number); one more than the maximum is refused.
NumberAttempt(w, n, c) ==
  attempts[n][c] < MaxAttempts /\ BeginAttempt(w, n, c)

\* INSERT the attempt: the unique index waits for one of the same number that
\* is not committed, and refuses a number that is taken.
InsertAttempt(w) ==
  /\ taking[w] = "answering"
  /\ attempt[w] = attempts[of[w]][paper[w]] + 1
  /\ \A v \in Students \ {w} :
       taking[v] = "attempted" => <<of[v], paper[v]>> # <<of[w], paper[w]>>
  /\ taking' = [taking EXCEPT ![w] = "attempted"]
  /\ UNCHANGED <<catalogue, records, of, paper, status, attempt, overtaken>>

\* UPDATE attempts_used and, if the attempt is passed, the status, INSERT the
\* certificate, COMMIT.
CommitAttempt(w, passed) ==
  LET n == of[w]
  IN /\ taking[w] = "attempted"
     /\ attempts' = [attempts EXCEPT ![n][paper[w]] = attempt[w]]
     /\ enrolment' = [enrolment EXCEPT ![n] = IF passed THEN "completed" ELSE @]
     /\ certificates' = [certificates EXCEPT ![n] = IF passed THEN @ + 1 ELSE @]
     /\ Respond(w)
     /\ UNCHANGED <<catalogue, required, overtaken>>

-----------------------------------------------------------------------------
LearningNext ==
  \/ \E c \in Courses : CreateCourse(c) \/ Publish(c) \/ AddRule(c)
  \/ \E l \in Learners :
       \/ \E c \in Courses, is_mandatory \in BOOLEAN : Enrol(l, c, is_mandatory)
       \/ Onboarded(l)
  \/ \E w \in Students :
       \/ \E n \in Enrolments :
            ReadStatus(w, n) \/ \E c \in Courses : NumberAttempt(w, n, c)
       \/ CommitProgress(w) \/ InsertAttempt(w)
       \/ \E passed \in BOOLEAN : CommitAttempt(w, passed)
       \/ Abandon(w)

-----------------------------------------------------------------------------
\* Type invariant.
LearningTypeOK ==
  /\ course \in [Courses -> {"none", "draft", "published"}]
  /\ mandatory \subseteq Courses /\ required \subseteq Enrolments
  /\ enrolment \in [Enrolments -> {"none", "assigned", "in_progress",
                                   "completed"}]
  /\ attempts \in [Enrolments -> [Courses -> 0..MaxAttempts]]
  /\ certificates \in
       [Enrolments -> 0..(MaxAttempts * Cardinality(Courses))]
  /\ taking \in [Students -> {"idle", "learning", "answering", "attempted"}]
  /\ of \in [Students -> Enrolments \cup {NoEnrolment}]
  /\ paper \in [Students -> Courses \cup {NoEnrolment}]
  /\ status \in [Students -> {"none", "assigned", "in_progress", "completed"}]
  /\ attempt \in [Students -> 0..MaxAttempts]
  /\ overtaken \subseteq Enrolments

(* An enrolment for which a certificate was issued stays completed, except *)
(* where a progress had read that it was assigned and wrote that it is in  *)
(* progress after it was completed: the update has the id alone.           *)
CertificateStands ==
  \A n \in Enrolments :
    certificates[n] > 0 => enrolment[n] = "completed" \/ n \in overtaken
=============================================================================
