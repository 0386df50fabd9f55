----------------------------- MODULE PayrollRun ------------------------------
(***************************************************************************)
(* Payroll runs of backend/services/hr-payroll-service: a run is created   *)
(* for a period, calculated, again if need be, submitted and approved by a *)
(* second person, while contracts and employees change under it.           *)
(*                                                                         *)
(* A session is one open request, a transaction at READ COMMITTED. What it *)
(* has written is kept in the session (view) until Commit; the row lock of *)
(* the run is taken by the first UPDATE of it.                             *)
(***************************************************************************)
EXTENDS Integers, FiniteSets, FiniteSetsExt

CONSTANTS Periods,       \* months, of which each can have one run
          Employees,     \* employees of the tenant
          Users,         \* preparers and approvers
          Sessions,      \* requests that may be open at the same time
          NoSession,     \* "nobody holds this row lock"
          NoUser,        \* submitted_by IS NULL, approved_by IS NULL
          MaxContracts   \* bound: contracts an employee may come to have

ASSUME NonEmptyAssumption == Periods # {} /\ Users # {}
ASSUME NobodyAssumption == NoSession \notin Sessions /\ NoUser \notin Users
ASSUME MaxContractsAssumption == MaxContracts \in Nat

VARIABLES
  pay,      \* pay[e]: the number of the active contract of e, 0 without one;
            \* the n-th contract is taken to pay n
  erased,   \* employees whose erasure has been executed
  run,      \* run[p]: the committed row of payroll_runs
  records,  \* records[p][e]: the pay in the payroll record, 0 without one
  rowLock,  \* rowLock[p]: who holds the row of the run
  pc,       \* pc[s]: the statement that session s has completed last
  req,      \* req[s]: the period and the user of the request
  view      \* view[s]: the pays that s has listed, the records it has deleted

people == <<pay, erased>>
tables == <<run, records>>
vars == <<people, tables, rowLock, pc, req, view>>

-----------------------------------------------------------------------------
Pays == [Employees -> 0 .. MaxContracts]
NoPays == [e \in Employees |-> 0]

\* What the pays add up to: for no pays the 0 that is the DEFAULT of a total.
Sum(pays) == MapThenSumSet(LAMBDA e : pays[e], Employees)

NoRun == [status |-> "none", submitted_by |-> NoUser, approved_by |-> NoUser,
          total |-> Sum(NoPays)]
NoReq == [period |-> CHOOSE p \in Periods : TRUE,
          user |-> CHOOSE u \in Users : TRUE]
NoView == [pays |-> NoPays, cleared |-> {}]

Init ==
  /\ pay = NoPays /\ erased = {}
  /\ run = [p \in Periods |-> NoRun]
  /\ records = [p \in Periods |-> NoPays]
  /\ rowLock = [p \in Periods |-> NoSession]
  /\ pc = [s \in Sessions |-> "idle"]
  /\ req = [s \in Sessions |-> NoReq]
  /\ view = [s \in Sessions |-> NoView]

-----------------------------------------------------------------------------
(* What happens to the employees: POST /v1/hr/contracts with an active     *)
(* contract, which takes the place of the one before in one transaction,   *)
(* and the execution of an erasure request.                                *)
NewContract(e) ==
  /\ e \notin erased /\ pay[e] < MaxContracts
  /\ pay' = [pay EXCEPT ![e] = @ + 1]
  /\ UNCHANGED <<erased, tables, rowLock, pc, req, view>>

Erase(e) ==
  /\ e \notin erased /\ erased' = erased \cup {e}
  /\ UNCHANGED <<pay, tables, rowLock, pc, req, view>>

\* POST payroll-runs: UNIQUE (period_year, period_month).
CreateRun(p) ==
  /\ run[p].status = "none"
  /\ run' = [run EXCEPT ![p].status = "draft"]
  /\ UNCHANGED <<people, records, rowLock, pc, req, view>>

-----------------------------------------------------------------------------
(* Transactions on a run.                                                  *)
Step(s, from, to) == pc[s] = from /\ pc' = [pc EXCEPT ![s] = to]

Begin(s, kind, p, u) ==
  /\ run[p].status # "none"
  /\ Step(s, "idle", kind)
  /\ req' = [req EXCEPT ![s] = [period |-> p, user |-> u]]
  /\ UNCHANGED <<people, tables, rowLock, view>>

\* An UPDATE of the run: it waits for the transaction that holds the row.
Lock(s) ==
  /\ rowLock[req[s].period] = NoSession
  /\ rowLock' = [rowLock EXCEPT ![req[s].period] = s]

End(s) ==
  /\ pc' = [pc EXCEPT ![s] = "idle"]
  /\ req' = [req EXCEPT ![s] = NoReq]
  /\ view' = [view EXCEPT ![s] = NoView]
  /\ rowLock' = [p \in Periods |-> IF rowLock[p] = s THEN NoSession
                                                     ELSE rowLock[p]]

\* A failing check or statement, or a calculation that throws: what the catch
\* block writes, the status failed among it, is rolled back with the rest.
Rollback(s) ==
  /\ pc[s] # "idle"
  /\ End(s)
  /\ UNCHANGED <<people, tables>>

-----------------------------------------------------------------------------
(* POST .../calculate.                                                     *)
ReadStatus(s) ==
  /\ Step(s, "calculate", "permitted")
  /\ run[req[s].period].status \in {"draft", "failed", "computed"}
  /\ UNCHANGED <<people, tables, rowLock, req, view>>

\* Mutant: the UPDATE that announces the calculation left out.
LockNothing(s) ==
  /\ Step(s, "permitted", "computing")
  /\ UNCHANGED <<people, tables, rowLock, req, view>>

\* UPDATE ... SET status = 'computing' WHERE id: whatever the status is now.
MarkComputing(s) ==
  /\ Step(s, "permitted", "computing")
  /\ Lock(s)
  /\ UNCHANGED <<people, tables, req, view>>

\* SELECT of the employees with an active contract.
ListEmployees(s) ==
  /\ Step(s, "computing", "listed")
  /\ view' = [view EXCEPT ![s].pays =
               [e \in Employees |-> IF e \in erased THEN 0 ELSE pay[e]]]
  /\ UNCHANGED <<people, tables, rowLock, req>>

\* Mutant: only the records that are about to be written again.
ClearListed(s) ==
  /\ Step(s, "listed", "cleared")
  /\ view' = [view EXCEPT ![s].cleared =
               {e \in Employees : view[s].pays[e] > 0}]
  /\ UNCHANGED <<people, tables, rowLock, req>>

\* DELETE FROM payroll_records WHERE payroll_run_id, and their lines.
ClearRecords(s) ==
  /\ Step(s, "listed", "cleared")
  /\ view' = [view EXCEPT ![s].cleared =
               {e \in Employees : records[req[s].period][e] > 0}]
  /\ UNCHANGED <<people, tables, rowLock, req>>

\* The records of the run as the transaction of s leaves them.
Kept(s) == [e \in Employees |-> IF e \in view[s].cleared THEN 0
                                ELSE records[req[s].period][e]]
Recorded(s) == [e \in Employees |-> IF view[s].pays[e] > 0 THEN view[s].pays[e]
                                    ELSE Kept(s)[e]]

\* The INSERTs, which UNIQUE (payroll_run_id, employee_id) may refuse.
InsertRecords(s) ==
  /\ pc[s] = "cleared"
  /\ \A e \in Employees : view[s].pays[e] > 0 => Kept(s)[e] = 0
  /\ records' = [records EXCEPT ![req[s].period] = Recorded(s)]

\* Mutants: the last UPDATE without the status; a status of the caller's.
CommitComputing(s) ==
  /\ InsertRecords(s)
  /\ run' = [run EXCEPT ![req[s].period].status = "computing",
                        ![req[s].period].total = Sum(view[s].pays)]
  /\ End(s)
  /\ UNCHANGED people

CommitKeepingStatus(s) ==
  /\ InsertRecords(s)
  /\ run' = [run EXCEPT ![req[s].period].total = Sum(view[s].pays)]
  /\ End(s)
  /\ UNCHANGED people

\* The totals over the employees listed, status computed, COMMIT.
CommitCalculate(s) ==
  /\ InsertRecords(s)
  /\ run' = [run EXCEPT ![req[s].period].status = "computed",
                        ![req[s].period].total = Sum(view[s].pays)]
  /\ End(s)
  /\ UNCHANGED people

-----------------------------------------------------------------------------
(* POST .../submit and .../approve: one conditional UPDATE each, which     *)
(* waits for the row and then looks at the status; the CHECK constraint    *)
(* keeps submitter and approver apart.                                     *)
SubmitUpdate(s) ==
  LET row == run[req[s].period]
  IN  /\ Step(s, "submit", "submitted")
      /\ Lock(s)
      /\ row.status = "computed"
      /\ row.approved_by # req[s].user
      /\ UNCHANGED <<people, tables, req, view>>

CommitSubmit(s) ==
  /\ pc[s] = "submitted"
  /\ run' = [run EXCEPT ![req[s].period].status = "pending_approval",
                        ![req[s].period].submitted_by = req[s].user]
  /\ End(s)
  /\ UNCHANGED <<people, records>>

ApproveUpdate(s) ==
  LET row == run[req[s].period]
  IN  /\ Step(s, "approve", "approved")
      /\ Lock(s)
      /\ row.status = "pending_approval"
      /\ row.submitted_by # req[s].user
      /\ UNCHANGED <<people, tables, req, view>>

CommitApprove(s) ==
  /\ pc[s] = "approved"
  /\ run' = [run EXCEPT ![req[s].period].status = "approved",
                        ![req[s].period].approved_by = req[s].user]
  /\ End(s)
  /\ UNCHANGED <<people, records>>

-----------------------------------------------------------------------------
\* No request is open: the service waits for the next one.
Quiet ==
  /\ \A s \in Sessions : pc[s] = "idle"
  /\ UNCHANGED vars

Calculate(s) == \/ ReadStatus(s) \/ MarkComputing(s) \/ ListEmployees(s)
                \/ ClearRecords(s) \/ CommitCalculate(s)
Submit(s) == SubmitUpdate(s) \/ CommitSubmit(s)
Approve(s) == ApproveUpdate(s) \/ CommitApprove(s)

Kinds == {"calculate", "submit", "approve"}

Next ==
  \/ \E e \in Employees : NewContract(e) \/ Erase(e)
  \/ \E p \in Periods : CreateRun(p)
  \/ \E s \in Sessions :
       \/ \E p \in Periods, u \in Users, kind \in Kinds : Begin(s, kind, p, u)
       \/ Calculate(s) \/ Submit(s) \/ Approve(s) \/ Rollback(s)
  \/ Quiet

Spec == Init /\ [][Next]_vars

-----------------------------------------------------------------------------
Statuses == {"none", "draft", "computed", "pending_approval", "approved"}
Steps == Kinds \cup {"idle", "permitted", "computing", "listed", "cleared",
                    "submitted", "approved"}

Row == [status : Statuses, submitted_by : Users \cup {NoUser},
        approved_by : Users \cup {NoUser}, total : {Sum(x) : x \in Pays}]

\* Type invariant. No committed run is computing, or failed.
TypeOK ==
  /\ pay \in Pays /\ erased \subseteq Employees
  /\ run \in [Periods -> Row]
  /\ records \in [Periods -> Pays]
  /\ rowLock \in [Periods -> Sessions \cup {NoSession}]
  /\ pc \in [Sessions -> Steps]
  /\ req \in [Sessions -> [period : Periods, user : Users]]
  /\ view \in [Sessions -> [pays : Pays, cleared : SUBSET Employees]]

(* The totals of a run are those of its payroll records, although          *)
(* calculations overlap, each deletes what it finds, and employees come    *)
(* and go between them: no record of another calculation is left behind.   *)
TotalsMatchRecords == \A p \in Periods : run[p].total = Sum(records[p])

(* Figures change only in a step that leaves the run computed: what is     *)
(* awaiting approval or approved is, record by record, what was submitted. *)
ReviewedFiguresStand ==
  [][\A p \in Periods :
       \/ records'[p] = records[p] /\ run'[p].total = run[p].total
       \/ run'[p].status = "computed"]_vars

(* A calculation never undoes a newer one: no record goes back to an older *)
(* contract, whichever of two overlapping calculations commits last.       *)
FiguresNeverGoBack ==
  [][\A p \in Periods, e \in Employees :
       records'[p][e] > 0 => records[p][e] <= records'[p][e]]_vars

(* "Immutable thereafter": the claim of SDD 6 for an approved run. The     *)
(* trigger that would see to it is in a template that is not applied.      *)
ApprovedIsFinal ==
  [][\A p \in Periods : run[p].status = "approved" => run'[p] = run[p]]_vars
=============================================================================
