-------------------------- MODULE PayrollRunProofs ---------------------------
(***************************************************************************)
(* Proofs about PayrollRun: totals match the records, reviewed figures     *)
(* stand, and no calculation undoes a newer one.                           *)
(*                                                                         *)
(* All three rest on one lock: from its first UPDATE to its COMMIT a       *)
(* calculation holds the row of the run, so what it has listed and deleted *)
(* since is still what there is when it inserts.                           *)
(***************************************************************************)
EXTENDS PayrollRun, TLAPS

LockingSteps == {"computing", "listed", "cleared", "submitted", "approved"}

Holds(s) == pc[s] \in LockingSteps => rowLock[req[s].period] = s

\* What has been listed is not newer than the contracts, and not older than
\* the records, which nobody else can have changed in the meantime.
Fresh(s) ==
  pc[s] \in {"listed", "cleared"} =>
    \A e \in Employees :
      /\ view[s].pays[e] <= pay[e]
      /\ view[s].pays[e] > 0 => records[req[s].period][e] <= view[s].pays[e]

Cleared(s) ==
  pc[s] = "cleared" =>
    view[s].cleared = {e \in Employees : records[req[s].period][e] > 0}

IInv ==
  /\ TypeOK
  /\ TotalsMatchRecords
  /\ \A p \in Periods, e \in Employees : records[p][e] <= pay[e]
  /\ \A s \in Sessions : Holds(s) /\ Fresh(s) /\ Cleared(s)

LEMMA InitInv == Init => IInv
<1> SUFFICES ASSUME Init PROVE IInv
  OBVIOUS
<1> USE DEF Init
<1>1. NoPays \in Pays
  BY MaxContractsAssumption DEF NoPays, Pays
<1>2. NoRun.total \in {Sum(x) : x \in Pays}
  BY <1>1 DEF NoRun
<1>3. NoReq \in [period : Periods, user : Users]
  BY NonEmptyAssumption DEF NoReq
<1>4. TypeOK
  BY <1>1, <1>2, <1>3
     DEF TypeOK, NoRun, NoView, Row, Statuses, Steps, Kinds
<1>5. TotalsMatchRecords
  BY DEF TotalsMatchRecords, NoRun
<1>6. \A p \in Periods, e \in Employees : records[p][e] <= pay[e]
  BY DEF NoPays
<1>7. \A s \in Sessions : Holds(s) /\ Fresh(s) /\ Cleared(s)
  BY DEF Holds, Fresh, Cleared, LockingSteps
<1> QED  BY <1>4, <1>5, <1>6, <1>7 DEF IInv

-----------------------------------------------------------------------------
\* Ending a transaction that has changed no figures keeps the invariant.
LEMMA EndInv ==
  ASSUME IInv, NEW s \in Sessions, End(s), UNCHANGED <<people, records>>,
         run' \in [Periods -> Row],
         \A p \in Periods : run'[p].total = run[p].total
  PROVE  IInv'
<1>1. NoView \in [pays : Pays, cleared : SUBSET Employees]
  BY MaxContractsAssumption DEF NoView, NoPays, Pays
<1>2. NoReq \in [period : Periods, user : Users]
  BY NonEmptyAssumption DEF NoReq
<1>3. TypeOK'
  BY <1>1, <1>2 DEF IInv, TypeOK, End, people, Steps
<1>4. TotalsMatchRecords'
  BY DEF IInv, TotalsMatchRecords, people
<1>5. (\A p \in Periods, e \in Employees : records[p][e] <= pay[e])'
  BY DEF IInv, people
<1>6. ASSUME NEW q \in Sessions PROVE (Holds(q) /\ Fresh(q) /\ Cleared(q))'
  <2>1. CASE q = s
    BY <2>1 DEF IInv, TypeOK, End, Holds, Fresh, Cleared, LockingSteps
  <2>2. CASE q # s
    BY <2>2 DEF IInv, TypeOK, End, people, Holds, Fresh, Cleared
  <2> QED  BY <2>1, <2>2
<1> QED  BY <1>3, <1>4, <1>5, <1>6 DEF IInv

\* A step of s that takes no effect yet, and may take the lock.
LEMMA StepInv ==
  ASSUME IInv, NEW s \in Sessions, UNCHANGED <<people, tables, view>>,
         pc' \in [Sessions -> Steps], req' \in [Sessions -> [period : Periods, user : Users]],
         \A q \in Sessions \ {s} : pc'[q] = pc[q] /\ req'[q] = req[q],
         UNCHANGED rowLock \/ (Lock(s) /\ UNCHANGED req),
         pc'[s] \in LockingSteps => rowLock'[req'[s].period] = s,
         pc'[s] \notin {"listed", "cleared"}
  PROVE  IInv'
<1>1. TypeOK'
  BY DEF IInv, TypeOK, people, tables, Lock
<1>2. TotalsMatchRecords'
  BY DEF IInv, TotalsMatchRecords, tables
<1>3. (\A p \in Periods, e \in Employees : records[p][e] <= pay[e])'
  BY DEF IInv, people, tables
<1>4. ASSUME NEW q \in Sessions PROVE Holds(q)'
  BY NobodyAssumption DEF IInv, TypeOK, Holds, Lock, LockingSteps
<1>5. ASSUME NEW q \in Sessions PROVE Fresh(q)' /\ Cleared(q)'
  BY DEF IInv, Fresh, Cleared, people, tables
<1> QED  BY <1>1, <1>2, <1>3, <1>4, <1>5 DEF IInv

\* What is known of a session that is about to insert its records: the run
\* has none left, so it leaves exactly those that it has listed.
LEMMA OnlyListed ==
  ASSUME IInv, NEW s \in Sessions, pc[s] = "cleared"
  PROVE  Recorded(s) = view[s].pays
<1> DEFINE p == req[s].period
<1>1. p \in Periods /\ view[s].pays \in Pays /\ records[p] \in Pays
  BY DEF IInv, TypeOK
<1>2. view[s].cleared = {e \in Employees : records[p][e] > 0}
  BY DEF IInv, Cleared
<1>3. \A e \in Employees : Kept(s)[e] = 0
  BY <1>1, <1>2, MaxContractsAssumption DEF Kept, Pays
<1>4. \A e \in Employees : Recorded(s)[e] = view[s].pays[e]
  BY <1>1, <1>3, MaxContractsAssumption DEF Recorded, Pays
<1> QED  BY <1>1, <1>4 DEF Recorded, Pays

-----------------------------------------------------------------------------
LEMMA CommitCalculateInv ==
  ASSUME IInv, NEW s \in Sessions, CommitCalculate(s)
  PROVE  IInv'
<1> DEFINE p == req[s].period
<1>1. /\ pc[s] = "cleared" /\ p \in Periods
      /\ view[s].pays \in Pays /\ rowLock[p] = s
  BY DEF CommitCalculate, InsertRecords, IInv, TypeOK, Holds, LockingSteps
<1>2. /\ records' = [records EXCEPT ![p] = view[s].pays]
      /\ run' = [run EXCEPT ![p].status = "computed",
                            ![p].total = Sum(view[s].pays)]
  BY <1>1, OnlyListed DEF CommitCalculate, InsertRecords
<1>3. TypeOK'
  <2>1. /\ NoView \in [pays : Pays, cleared : SUBSET Employees]
        /\ NoReq \in [period : Periods, user : Users]
    BY MaxContractsAssumption, NonEmptyAssumption
       DEF NoView, NoReq, NoPays, Pays
  <2>2. records' \in [Periods -> Pays]
    BY <1>1, <1>2 DEF IInv, TypeOK
  <2>3. run' \in [Periods -> Row]
    <3> DEFINE new == [run[p] EXCEPT !.status = "computed",
                                     !.total = Sum(view[s].pays)]
    <3>1. run \in [Periods -> Row] /\ run[p] \in Row
      BY <1>1 DEF IInv, TypeOK
    <3>2. Sum(view[s].pays) \in {Sum(x) : x \in Pays}
      BY <1>1
    <3>3. new \in Row
      BY <3>1, <3>2 DEF Row, Statuses
    <3>4. run' = [run EXCEPT ![p] = new]
      BY <1>1, <1>2, <3>1
    <3> HIDE DEF new
    <3> QED  BY <1>1, <3>1, <3>3, <3>4
  <2> QED
    BY <2>1, <2>2, <2>3
       DEF IInv, TypeOK, CommitCalculate, End, people, Steps
<1>4. TotalsMatchRecords'
  <2> SUFFICES ASSUME NEW q \in Periods
               PROVE  run'[q].total = Sum(records'[q])
    BY DEF TotalsMatchRecords
  <2>1. CASE q = p
    BY <2>1, <1>1, <1>2 DEF IInv, TypeOK
  <2>2. CASE q # p
    BY <2>2, <1>2 DEF IInv, TypeOK, TotalsMatchRecords
  <2> QED  BY <2>1, <2>2
<1>5. (\A q \in Periods, e \in Employees : records[q][e] <= pay[e])'
  BY <1>1, <1>2 DEF IInv, TypeOK, Fresh, CommitCalculate, people
<1>6. ASSUME NEW q \in Sessions PROVE (Holds(q) /\ Fresh(q) /\ Cleared(q))'
  <2>1. CASE q = s
    BY <2>1 DEF IInv, TypeOK, CommitCalculate, End, Holds, Fresh, Cleared,
                LockingSteps
  <2>2. CASE q # s
    <3>1. pc'[q] = pc[q] /\ req'[q] = req[q] /\ view'[q] = view[q]
      BY <2>2 DEF IInv, TypeOK, CommitCalculate, End
    <3>2. Holds(q)'
      BY <2>2, <3>1 DEF IInv, TypeOK, CommitCalculate, End, Holds
    <3>3. CASE pc[q] \in LockingSteps
      <4>1. req[q].period # p /\ req[q].period \in Periods
        BY <3>3, <1>1, <2>2 DEF IInv, TypeOK, Holds
      <4>2. records'[req[q].period] = records[req[q].period] /\ pay' = pay
        BY <4>1, <1>2 DEF IInv, TypeOK, CommitCalculate, people
      <4> QED  BY <3>1, <3>2, <4>2 DEF IInv, Fresh, Cleared
    <3>4. CASE pc[q] \notin LockingSteps
      BY <3>1, <3>2, <3>4 DEF Fresh, Cleared, LockingSteps
    <3> QED  BY <3>3, <3>4
  <2> QED  BY <2>1, <2>2
<1> QED  BY <1>3, <1>4, <1>5, <1>6 DEF IInv

\* Submitting and approving change a status and a user, and no total.
LEMMA ReviewKeepsTotals ==
  ASSUME IInv, NEW s \in Sessions, CommitSubmit(s) \/ CommitApprove(s)
  PROVE  /\ run' \in [Periods -> Row]
         /\ \A p \in Periods : run'[p].total = run[p].total
<1> DEFINE r == req[s].period
<1>1. req[s].user \in Users /\ r \in Periods /\ run[r] \in Row
  BY DEF IInv, TypeOK
<1>2. CASE CommitSubmit(s)
  <2> DEFINE row == [run[r] EXCEPT !.status = "pending_approval",
                                   !.submitted_by = req[s].user]
  <2>1. row \in Row /\ row.total = run[r].total
    BY <1>1 DEF Row, Statuses
  <2>2. run' = [run EXCEPT ![r] = row]
    BY <1>2, <1>1 DEF CommitSubmit, IInv, TypeOK
  <2> HIDE DEF row, r
  <2> QED  BY <1>1, <2>1, <2>2 DEF IInv, TypeOK
<1>3. CASE CommitApprove(s)
  <2> DEFINE row == [run[r] EXCEPT !.status = "approved",
                                   !.approved_by = req[s].user]
  <2>1. row \in Row /\ row.total = run[r].total
    BY <1>1 DEF Row, Statuses
  <2>2. run' = [run EXCEPT ![r] = row]
    BY <1>3, <1>1 DEF CommitApprove, IInv, TypeOK
  <2> HIDE DEF row, r
  <2> QED  BY <1>1, <2>1, <2>2 DEF IInv, TypeOK
<1> QED  BY <1>2, <1>3

\* Listing and deleting, which only the session itself remembers.
LEMMA ListInv ==
  ASSUME IInv, NEW s \in Sessions, ListEmployees(s) \/ ClearRecords(s)
  PROVE  IInv'
<1>1. UNCHANGED <<people, tables, rowLock, req>>
  BY DEF ListEmployees, ClearRecords
<1>2. /\ pc' = [pc EXCEPT ![s] = pc'[s]] /\ pc'[s] \in {"listed", "cleared"}
      /\ pc[s] \in {"computing", "listed"}
  BY DEF IInv, TypeOK, ListEmployees, ClearRecords, Step
<1>3. \A q \in Sessions \ {s} : view'[q] = view[q]
  BY DEF IInv, TypeOK, ListEmployees, ClearRecords
<1>4. view' \in [Sessions -> [pays : Pays, cleared : SUBSET Employees]]
  <2>1. [e \in Employees |-> IF e \in erased THEN 0 ELSE pay[e]] \in Pays
    BY MaxContractsAssumption DEF IInv, TypeOK, Pays
  <2>2. CASE ListEmployees(s)
    BY <2>1, <2>2 DEF IInv, TypeOK, ListEmployees
  <2>3. CASE ClearRecords(s)
    BY <2>3 DEF IInv, TypeOK, ClearRecords
  <2> QED  BY <2>2, <2>3
<1>5. TypeOK'
  BY <1>1, <1>2, <1>4 DEF IInv, TypeOK, people, tables, Steps
<1>6. TotalsMatchRecords' /\ (\A p \in Periods, e \in Employees : records[p][e] <= pay[e])'
  BY <1>1 DEF IInv, TotalsMatchRecords, people, tables
<1>7. ASSUME NEW q \in Sessions PROVE (Holds(q) /\ Fresh(q) /\ Cleared(q))'
  <2>1. CASE q # s
    BY <2>1, <1>1, <1>2, <1>3
       DEF IInv, TypeOK, people, tables, Holds, Fresh, Cleared
  <2>2. CASE q = s /\ ListEmployees(s)
    <3>1. /\ pc'[s] = "listed" /\ req[s].period \in Periods
          /\ view'[s].pays = [e \in Employees |-> IF e \in erased THEN 0 ELSE pay[e]]
      BY <2>2 DEF IInv, TypeOK, ListEmployees, Step
    <3>2. Fresh(s)'
      BY <3>1, <1>1, MaxContractsAssumption
         DEF IInv, TypeOK, Fresh, people, tables, Pays
    <3> QED  BY <2>2, <3>1, <3>2, <1>1, <1>2
                DEF IInv, Holds, Cleared, LockingSteps
  <2>3. CASE q = s /\ ClearRecords(s)
    <3>1. /\ pc[s] = "listed" /\ pc'[s] = "cleared" /\ view'[s].pays = view[s].pays
          /\ view'[s].cleared = {e \in Employees : records[req[s].period][e] > 0}
      BY <2>3 DEF IInv, TypeOK, ClearRecords, Step
    <3> QED  BY <2>3, <3>1, <1>1
                DEF IInv, people, tables, Holds, Fresh, Cleared, LockingSteps
  <2> QED  BY <2>1, <2>2, <2>3
<1> QED  BY <1>5, <1>6, <1>7 DEF IInv

-----------------------------------------------------------------------------
LEMMA NextInv == IInv /\ [Next]_vars => IInv'
<1> SUFFICES ASSUME IInv, [Next]_vars PROVE IInv'
  OBVIOUS
<1>1. ASSUME NEW e \in Employees, NewContract(e) PROVE IInv'
  <2>1. /\ \A x \in Employees : pay[x] <= pay'[x]
        /\ pay' \in Pays
    BY <1>1, MaxContractsAssumption DEF IInv, TypeOK, NewContract, Pays
  <2>2. UNCHANGED <<erased, run, records, rowLock, pc, req, view>>
    BY <1>1 DEF NewContract, tables
  <2>3. TypeOK'
    BY <2>1, <2>2 DEF IInv, TypeOK
  <2>4. (\A p \in Periods, x \in Employees : records[p][x] <= pay[x])'
    BY <2>1, <2>2, MaxContractsAssumption DEF IInv, TypeOK, Pays
  <2>5. ASSUME NEW s \in Sessions PROVE (Holds(s) /\ Fresh(s) /\ Cleared(s))'
    BY <2>1, <2>2, MaxContractsAssumption
       DEF IInv, TypeOK, Pays, Holds, Fresh, Cleared
  <2> QED  BY <2>2, <2>3, <2>4, <2>5 DEF IInv, TotalsMatchRecords
<1>2. ASSUME NEW e \in Employees, Erase(e) PROVE IInv'
  BY <1>2 DEF IInv, TypeOK, Erase, tables, TotalsMatchRecords, Holds, Fresh,
              Cleared
<1>3. ASSUME NEW p \in Periods, CreateRun(p) PROVE IInv'
  <2>1. UNCHANGED <<pay, erased, records, rowLock, pc, req, view>>
    BY <1>3 DEF CreateRun, people
  <2>2. TypeOK'
    <3>1. run \in [Periods -> Row] /\ run[p] \in Row
      BY DEF IInv, TypeOK
    <3>2. [run[p] EXCEPT !.status = "draft"] \in Row
      BY <3>1 DEF Row, Statuses
    <3>3. run' = [run EXCEPT ![p] = [run[p] EXCEPT !.status = "draft"]]
      BY <1>3, <3>1 DEF CreateRun
    <3>4. run' \in [Periods -> Row]
      BY <3>1, <3>2, <3>3
    <3> QED  BY <2>1, <3>4 DEF IInv, TypeOK
  <2>3. TotalsMatchRecords'
    BY <1>3, <2>1 DEF IInv, TypeOK, TotalsMatchRecords, CreateRun
  <2> QED  BY <2>1, <2>2, <2>3 DEF IInv, Holds, Fresh, Cleared
<1>4. ASSUME NEW s \in Sessions, NEW p \in Periods, NEW u \in Users,
             NEW kind \in Kinds, Begin(s, kind, p, u)
      PROVE  IInv'
  <2>1. /\ UNCHANGED <<people, tables, view, rowLock>>
        /\ pc' \in [Sessions -> Steps] /\ pc'[s] = kind
        /\ req' \in [Sessions -> [period : Periods, user : Users]]
        /\ \A q \in Sessions \ {s} : pc'[q] = pc[q] /\ req'[q] = req[q]
    BY <1>4 DEF IInv, TypeOK, Begin, Step, Steps
  <2>2. kind \notin LockingSteps
    BY DEF Kinds, LockingSteps
  <2> QED  BY <2>1, <2>2, StepInv DEF LockingSteps
<1>5. ASSUME NEW s \in Sessions,
             ReadStatus(s) \/ MarkComputing(s) \/ SubmitUpdate(s) \/ ApproveUpdate(s)
      PROVE  IInv'
  <2>1. /\ UNCHANGED <<people, tables, view, req>>
        /\ pc' = [pc EXCEPT ![s] = pc'[s]]
        /\ pc'[s] \in {"permitted", "computing", "submitted", "approved"}
        /\ pc'[s] # "permitted" => Lock(s)
        /\ pc'[s] = "permitted" => UNCHANGED rowLock
    BY <1>5 DEF IInv, TypeOK, ReadStatus, MarkComputing, SubmitUpdate,
                ApproveUpdate, Step
  <2>2. /\ pc' \in [Sessions -> Steps]
        /\ \A q \in Sessions \ {s} : pc'[q] = pc[q] /\ req'[q] = req[q]
        /\ req' \in [Sessions -> [period : Periods, user : Users]]
    BY <2>1 DEF IInv, TypeOK, Steps
  <2>3. UNCHANGED rowLock \/ (Lock(s) /\ UNCHANGED req)
    BY <2>1
  <2>4. pc'[s] \in LockingSteps => rowLock'[req'[s].period] = s
    BY <2>1 DEF LockingSteps, Lock, IInv, TypeOK
  <2>5. pc'[s] \notin {"listed", "cleared"}
    BY <2>1
  <2> QED  BY <2>1, <2>2, <2>3, <2>4, <2>5, StepInv
<1>6. ASSUME NEW s \in Sessions, ListEmployees(s) \/ ClearRecords(s) PROVE IInv'
  BY <1>6, ListInv
<1>7. ASSUME NEW s \in Sessions, CommitCalculate(s) PROVE IInv'
  BY <1>7, CommitCalculateInv
<1>8. ASSUME NEW s \in Sessions,
             CommitSubmit(s) \/ CommitApprove(s) \/ Rollback(s)
      PROVE  IInv'
  <2>1. End(s) /\ UNCHANGED <<people, records>>
    BY <1>8 DEF CommitSubmit, CommitApprove, Rollback, tables
  <2>2. /\ run' \in [Periods -> Row]
        /\ \A p \in Periods : run'[p].total = run[p].total
    BY <1>8, ReviewKeepsTotals DEF IInv, TypeOK, Rollback, tables
  <2> QED  BY <2>1, <2>2, EndInv
<1>9. CASE UNCHANGED vars
  BY <1>9 DEF vars, people, tables, IInv, TypeOK, TotalsMatchRecords, Holds,
              Fresh, Cleared
<1> QED
  BY <1>1, <1>2, <1>3, <1>4, <1>5, <1>6, <1>7, <1>8, <1>9
     DEF Next, Quiet, Calculate, Submit, Approve

(* The inductive invariant holds of every state.                           *)
THEOREM Invariance == Spec => []IInv
  BY InitInv, NextInv, PTL DEF Spec

(* Every variable keeps its type; no run is ever committed as computing    *)
(* or failed.                                                              *)
THEOREM TypeCorrectness == Spec => []TypeOK
  BY Invariance, PTL DEF IInv

(* However calculations of a run overlap, and whoever is hired or erased   *)
(* meanwhile, the totals of a run are those of its records.                *)
THEOREM TotalsAlwaysMatch == Spec => []TotalsMatchRecords
  BY Invariance, PTL DEF IInv

-----------------------------------------------------------------------------
\* Only the COMMIT of a calculation touches figures.
LEMMA FiguresUntouched ==
  ASSUME IInv, [Next]_vars, \A s \in Sessions : ~ CommitCalculate(s)
  PROVE  \A p \in Periods : records'[p] = records[p] /\ run'[p].total = run[p].total
<1>1. CASE \E e \in Employees : NewContract(e) \/ Erase(e)
  BY <1>1 DEF NewContract, Erase, tables
<1>2. CASE \E p \in Periods : CreateRun(p)
  BY <1>2 DEF CreateRun, IInv, TypeOK
<1>3. ASSUME NEW s \in Sessions, CommitSubmit(s) \/ CommitApprove(s)
      PROVE  \A p \in Periods :
               records'[p] = records[p] /\ run'[p].total = run[p].total
  BY <1>3, ReviewKeepsTotals DEF CommitSubmit, CommitApprove
<1>4. CASE UNCHANGED tables
  BY <1>4 DEF tables
<1>5. ASSUME NEW s \in Sessions, NEW p \in Periods, NEW u \in Users,
             NEW kind \in Kinds, Begin(s, kind, p, u)
      PROVE  UNCHANGED tables
  BY <1>5 DEF Begin, tables
<1>6. ASSUME NEW s \in Sessions,
             \/ ReadStatus(s) \/ MarkComputing(s) \/ ListEmployees(s)
             \/ ClearRecords(s) \/ SubmitUpdate(s) \/ ApproveUpdate(s)
             \/ Rollback(s)
      PROVE  UNCHANGED tables
  BY <1>6 DEF ReadStatus, MarkComputing, ListEmployees, ClearRecords,
              SubmitUpdate, ApproveUpdate, Rollback, tables
<1>7. CASE UNCHANGED vars
  BY <1>7, <1>4 DEF vars
<1> QED
  BY <1>1, <1>2, <1>3, <1>4, <1>5, <1>6, <1>7
     DEF Next, Calculate, Submit, Approve, Quiet

(* What is awaiting approval, or approved, has the figures it was          *)
(* submitted with.                                                         *)
THEOREM ReviewStands == Spec => ReviewedFiguresStand
<1>1. IInv /\ [Next]_vars =>
        [\A p \in Periods :
           \/ records'[p] = records[p] /\ run'[p].total = run[p].total
           \/ run'[p].status = "computed"]_vars
  <2> SUFFICES ASSUME IInv, [Next]_vars, NEW p \in Periods
               PROVE  \/ records'[p] = records[p] /\ run'[p].total = run[p].total
                      \/ run'[p].status = "computed"
    OBVIOUS
  <2>1. ASSUME NEW s \in Sessions, CommitCalculate(s)
        PROVE  \/ records'[p] = records[p] /\ run'[p].total = run[p].total
               \/ run'[p].status = "computed"
    BY <2>1 DEF CommitCalculate, InsertRecords, IInv, TypeOK
  <2> QED  BY <2>1, FiguresUntouched
<1> QED  BY <1>1, Invariance, PTL DEF Spec, ReviewedFiguresStand

(* No calculation, however late it commits, brings back the pay of an      *)
(* older contract.                                                         *)
THEOREM NoStaleFigures == Spec => FiguresNeverGoBack
<1>1. IInv /\ [Next]_vars =>
        [\A p \in Periods, e \in Employees :
           records'[p][e] > 0 => records[p][e] <= records'[p][e]]_vars
  <2> SUFFICES ASSUME IInv, [Next]_vars, NEW p \in Periods, NEW e \in Employees,
                      records'[p][e] > 0
               PROVE  records[p][e] <= records'[p][e]
    OBVIOUS
  <2>1. records[p][e] \in Nat
    BY MaxContractsAssumption DEF IInv, TypeOK, Pays
  <2>2. ASSUME NEW s \in Sessions, CommitCalculate(s)
        PROVE  records[p][e] <= records'[p][e]
    <3>1. /\ pc[s] = "cleared" /\ Fresh(s)
          /\ records' = [records EXCEPT ![req[s].period] = view[s].pays]
      BY <2>2, OnlyListed DEF CommitCalculate, InsertRecords, IInv
    <3>2. CASE p = req[s].period
      BY <3>1, <3>2 DEF IInv, TypeOK, Fresh
    <3>3. CASE p # req[s].period
      BY <3>1, <3>3, <2>1 DEF IInv, TypeOK
    <3> QED  BY <3>2, <3>3
  <2> QED  BY <2>1, <2>2, FiguresUntouched
<1> QED  BY <1>1, Invariance, PTL DEF Spec, FiguresNeverGoBack
=============================================================================
