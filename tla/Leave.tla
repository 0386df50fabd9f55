-------------------------------- MODULE Leave --------------------------------
(***************************************************************************)
(* Leave (hr-payroll-service, leave-routes): requests that are approved or *)
(* rejected, and the monthly accrual.  A balance is kept as two sums,      *)
(* accrued and taken days, beside the rows that explain them.  Every       *)
(* request is one READ COMMITTED transaction; a row that it has updated or *)
(* inserted is locked until it ends, and an update that had to wait looks  *)
(* at its WHERE clause again.  One leave type; a request is for one day    *)
(* and a month accrues one.                                                *)
(***************************************************************************)
EXTENDS Integers, FiniteSets

CONSTANTS Employees,  \* rows of leave_balances: one per employee
          Requests,   \* ids of leave_requests
          Months,     \* periods that are accrued
          Sessions,   \* requests that may be under way at the same time
          Nothing     \* "no leave request", "no month", "nobody"

ASSUME MonthsAssumption == IsFiniteSet(Months) /\ Nothing \notin Months
ASSUME RequestsAssumption == IsFiniteSet(Requests) /\ Nothing \notin Requests

VARIABLES
  leave,     \* leave[r]: the status of r in leave_requests, or "none"
  owner,     \* owner[r]: whose request r is
  runs,      \* months with a row in leave_accrual_runs
  lines,     \* leave_accrual_lines: pairs of an employee and a month
  accrued,   \* accrued[e]: accrued_days of e
  taken,     \* taken[e]: taken_days of e
  job,       \* job[s]: what the request s is doing
  subject,   \* subject[s]: the leave request or the month it is about
  todo,      \* todo[s]: employees whose balance it has still to update
  booked     \* booked[s]: those whose balance it has updated and so locked

tables == <<leave, owner, runs, lines, accrued, taken>>
sessions == <<job, subject, todo, booked>>
leaveVars == <<tables, sessions>>

LeaveInit ==
  /\ leave = [r \in Requests |-> "none"]
  /\ owner = [r \in Requests |-> Nothing]
  /\ runs = {} /\ lines = {}
  /\ accrued = [e \in Employees |-> 0]
  /\ taken = [e \in Employees |-> 0]
  /\ job = [s \in Sessions |-> "idle"]
  /\ subject = [s \in Sessions |-> Nothing]
  /\ todo = [s \in Sessions |-> {}]
  /\ booked = [s \in Sessions |-> {}]

-----------------------------------------------------------------------------
Start(s, kind, about, employees) ==
  /\ job' = [job EXCEPT ![s] = kind]
  /\ subject' = [subject EXCEPT ![s] = about]
  /\ todo' = [todo EXCEPT ![s] = employees]
  /\ UNCHANGED <<tables, booked>>

End(s) ==
  /\ job' = [job EXCEPT ![s] = "idle"]
  /\ subject' = [subject EXCEPT ![s] = Nothing]
  /\ todo' = [todo EXCEPT ![s] = {}]
  /\ booked' = [booked EXCEPT ![s] = {}]

\* An error, a deadlock that the database breaks, a lost connection: ROLLBACK.
Rollback(s) == job[s] # "idle" /\ End(s) /\ UNCHANGED tables

\* POST hr/leave-requests
RequestLeave(r, e) ==
  /\ leave[r] = "none"
  /\ leave' = [leave EXCEPT ![r] = "pending"]
  /\ owner' = [owner EXCEPT ![r] = e]
  /\ UNCHANGED <<runs, lines, accrued, taken, sessions>>

\* Has a transaction that is under way updated the row of r?
RowLocked(r) ==
  \E s \in Sessions : job[s] \in {"approving", "rejecting"} /\ subject[s] = r

\* POST hr/leave-requests/:id/approve: UPDATE ... WHERE status = 'pending'
Approve(s, r) ==
  /\ job[s] = "idle" /\ leave[r] = "pending" /\ ~ RowLocked(r)
  /\ Start(s, "approving", r, {owner[r]})

\* POST hr/leave-requests/:id/reject
Reject(s, r) ==
  /\ job[s] = "idle" /\ leave[r] = "pending" /\ ~ RowLocked(r)
  /\ Start(s, "rejecting", r, {})

-----------------------------------------------------------------------------
(* POST hr/leave/accrue.                                                   *)
\* SELECT id FROM leave_accrual_runs finds no run of the month m.
BeginAccrual(s, m) ==
  /\ job[s] = "idle" /\ m \notin runs
  /\ Start(s, "selected", m, {})

\* Mutant: a run of the same month that is not committed is not waited for.
InsertRunUnchecked(s, employees) ==
  /\ job[s] = "selected" /\ subject[s] \notin runs
  /\ Start(s, "accruing", subject[s], employees)

\* INSERT INTO leave_accrual_runs, whose unique index waits for a run of the
\* same month that is not committed and refuses a second one; then SELECT the
\* employees that are active or on leave.
InsertRun(s, employees) ==
  /\ job[s] = "selected" /\ subject[s] \notin runs
  /\ \A t \in Sessions \ {s} : job[t] = "accruing" => subject[t] # subject[s]
  /\ Start(s, "accruing", subject[s], employees)

-----------------------------------------------------------------------------
\* INSERT INTO leave_balances ... ON CONFLICT DO UPDATE adds to the sum that
\* is there once no other transaction holds the row.
Book(s, e) ==
  /\ e \in todo[s]
  /\ \A t \in Sessions \ {s} : e \notin booked[t]
  /\ todo' = [todo EXCEPT ![s] = @ \ {e}]
  /\ booked' = [booked EXCEPT ![s] = @ \cup {e}]
  /\ UNCHANGED <<tables, job, subject>>

CommitRun(s) ==
  /\ job[s] = "accruing" /\ todo[s] = {}
  /\ runs' = runs \cup {subject[s]}
  /\ lines' = lines \cup (booked[s] \X {subject[s]})
  /\ accrued' = [e \in Employees |-> IF e \in booked[s] THEN accrued[e] + 1
                                                        ELSE accrued[e]]
  /\ End(s)
  /\ UNCHANGED <<leave, owner, taken>>

CommitApproval(s) ==
  /\ job[s] = "approving" /\ todo[s] = {}
  /\ leave' = [leave EXCEPT ![subject[s]] = "approved"]
  /\ taken' = [e \in Employees |-> IF e \in booked[s] THEN taken[e] + 1
                                                      ELSE taken[e]]
  /\ End(s)
  /\ UNCHANGED <<owner, runs, lines, accrued>>

CommitRejection(s) ==
  /\ job[s] = "rejecting"
  /\ leave' = [leave EXCEPT ![subject[s]] = "rejected"]
  /\ End(s)
  /\ UNCHANGED <<owner, runs, lines, accrued, taken>>

-----------------------------------------------------------------------------
LeaveNext ==
  \/ \E r \in Requests, e \in Employees : RequestLeave(r, e)
  \/ \E s \in Sessions :
       \/ \E r \in Requests : Approve(s, r) \/ Reject(s, r)
       \/ \E m \in Months : BeginAccrual(s, m)
       \/ \E employees \in SUBSET Employees : InsertRun(s, employees)
       \/ \E e \in Employees : Book(s, e)
       \/ CommitRun(s) \/ CommitApproval(s) \/ CommitRejection(s)
       \/ Rollback(s)

LeaveSpec == LeaveInit /\ [][LeaveNext]_leaveVars

-----------------------------------------------------------------------------
\* Type invariant.
LeaveTypeOK ==
  /\ leave \in [Requests -> {"none", "pending", "approved", "rejected"}]
  /\ owner \in [Requests -> Employees \cup {Nothing}]
  /\ runs \subseteq Months /\ lines \subseteq Employees \X Months
  /\ accrued \in [Employees -> Nat] /\ taken \in [Employees -> Nat]
  /\ job \in [Sessions -> {"idle", "approving", "rejecting", "selected",
                           "accruing"}]
  /\ subject \in [Sessions -> Requests \cup Months \cup {Nothing}]
  /\ todo \in [Sessions -> SUBSET Employees]
  /\ booked \in [Sessions -> SUBSET Employees]

Approved(e) == {r \in Requests : leave[r] = "approved" /\ owner[r] = e}
MonthsOf(e) == {m \in Months : <<e, m>> \in lines}

(* The two sums of a balance are what the rows beside it say: a day for    *)
(* each approved request of the employee, a day for each line of an        *)
(* accrual.  A request approved twice, a month accrued twice or a run that *)
(* breaks off would make them differ, and nothing recomputes them.         *)
LedgerAgrees ==
  \A e \in Employees :
    /\ taken[e] = Cardinality(Approved(e))
    /\ accrued[e] = Cardinality(MonthsOf(e))
=============================================================================
