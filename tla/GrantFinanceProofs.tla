------------------------- MODULE GrantFinanceProofs -------------------------
(***************************************************************************)
(* Theorems about GrantFinance, for any number of grants, disbursements,   *)
(* users and overlapping requests.  The row locks carry the first part of  *)
(* the argument: a session that holds one knows the committed row until it *)
(* commits.  The ceiling is checked without a lock, so what can be proved  *)
(* of it is how far it can be exceeded, and that is the second part, with  *)
(* the sums it needs.  The status that approve reads without a lock is     *)
(* left to the runs, and is where the code and its documents part.         *)
(***************************************************************************)
EXTENDS GrantFinance, FiniteSetTheorems, TLAPS

\* The row of a disbursement is locked by exactly the session that has
\* updated it and not yet ended.
RowLockInv ==
  /\ \A s \in Sessions : pc[s] \in {"submitted", "approved"} =>
       rowLock[req[s].disbursement] = s
  /\ \A d \in Disbursements : \A s \in Sessions :
       rowLock[d] = s => /\ pc[s] \in {"submitted", "approved"}
                         /\ req[s].disbursement = d

\* The current budget row is locked by a session that has unset it, and
\* only such a session gets past the unique index.
BudgetLockInv ==
  /\ \A s \in Sessions : pc[s] = "revised" => budgetLock[req[s].grant] = s
  /\ \A g \in Grants : \A s \in Sessions :
       budgetLock[g] = s => /\ pc[s] \in {"unset", "revised"}
                            /\ req[s].grant = g

\* A budget that exists is numbered 1..n, and n is the current version.
Numbered(g, n) ==
  /\ Versions(g) = 1 .. n
  /\ \A b, c \in budgets[g] : b.version = c.version => b = c
  /\ current[g] = {n}

BudgetInv ==
  \A g \in Grants : \/ budgets[g] = {} /\ current[g] = {}
                    \/ \E n \in Nat \ {0} : Numbered(g, n)

\* A revision is about an existing grant, and numbers its row after the
\* newest one.
RevisionInv ==
  /\ \A s \in Sessions : pc[s] \in ReviseSteps => budgets[req[s].grant] # {}
  /\ \A s \in Sessions : pc[s] = "revised" => 
       seen[s].version - 1 \in current[req[s].grant]
  /\ \A s \in Sessions : pc[s] \in ReviseSteps => req[s].amount \in Totals

\* What an open request knows about its disbursement.
RequestInv ==
  /\ \A s \in Sessions : pc[s] \in RecordSteps =>
       /\ disbursements[req[s].disbursement].status = "none"
       /\ \A v \in Sessions \ {s} : pc[v] \in RecordSteps =>
            req[v].disbursement # req[s].disbursement
  /\ \A s \in Sessions : pc[s] \in ApproveSteps \cup {"submit", "submitted"} =>
       disbursements[req[s].disbursement].status # "none"
  /\ \A s \in Sessions : pc[s] = "submitted" =>
       disbursements[req[s].disbursement].status = "recorded"

IInv == /\ TypeOK /\ RowLockInv /\ BudgetLockInv /\ BudgetInv /\ RevisionInv
        /\ RequestInv

-----------------------------------------------------------------------------
(* Lemmas.                                                                 *)

\* The newest version of a numbered budget is the number of its versions.
LEMMA LatestOfNumbered ==
  ASSUME NEW g \in Grants, NEW n \in Nat \ {0}, Numbered(g, n)
  PROVE  LatestVersion(g) = n
<1>1. Versions(g) = 1 .. n /\ budgets[g] # {}
  BY DEF Numbered, Versions
<1>2. n \in Versions(g) /\ \A x \in Versions(g) : x <= n
  BY <1>1
<1>3. \A v \in Versions(g) : (\A x \in Versions(g) : x <= v) => v = n
  BY <1>2
<1> QED BY <1>1, <1>2, <1>3 DEF LatestVersion

LEMMA NoReqType == NoReq \in Request
<1>1. /\ (CHOOSE g \in Grants : TRUE) \in Grants
      /\ (CHOOSE d \in Disbursements : TRUE) \in Disbursements
      /\ (CHOOSE u \in Users : TRUE) \in Users
  BY NonEmptyAssumption
<1> QED BY <1>1 DEF NoReq, Request

LEMMA NoRowType == NoRow \in Row
<1>1. (CHOOSE g \in Grants : TRUE) \in Grants
  BY NonEmptyAssumption
<1> QED BY <1>1 DEF NoRow, Row, CommittedStatuses

\* Ending a transaction keeps the locks and the session in their types.
LEMMA EndType ==
  ASSUME TypeOK, NEW s \in Sessions, End(s)
  PROVE  /\ budgetLock' \in [Grants -> Sessions \cup {NoSession}]
         /\ rowLock' \in [Disbursements -> Sessions \cup {NoSession}]
         /\ pc' \in [Sessions -> States]
         /\ req' \in [Sessions -> Request]
         /\ seen' \in [Sessions -> [ceiling : Nat, version : Nat]]
<1>1. NoReq \in Request /\ NoSeen \in [ceiling : Nat, version : Nat]
  BY NoReqType DEF NoSeen
<1> QED BY <1>1 DEF TypeOK, End, Released, States

\* Ending a transaction frees its locks and no other's.
LEMMA EndLocks ==
  ASSUME TypeOK, RowLockInv, BudgetLockInv, NEW s \in Sessions, End(s)
  PROVE  RowLockInv' /\ BudgetLockInv'
<1>1. /\ pc'[s] = "idle"
      /\ \A v \in Sessions \ {s} : pc'[v] = pc[v] /\ req'[v] = req[v]
  BY DEF TypeOK, End
<1>2. \A d \in Disbursements :
        rowLock'[d] = IF rowLock[d] = s THEN NoSession ELSE rowLock[d]
  BY DEF TypeOK, End, Released
<1>3. \A g \in Grants :
        budgetLock'[g] = IF budgetLock[g] = s THEN NoSession ELSE budgetLock[g]
  BY DEF TypeOK, End, Released
<1>4. \A v \in Sessions : /\ req[v].disbursement \in Disbursements
                          /\ req[v].grant \in Grants
  BY DEF TypeOK, Request
<1>5. RowLockInv'
  BY <1>1, <1>2, <1>4, NoSessionAssumption DEF RowLockInv
<1>6. BudgetLockInv'
  BY <1>1, <1>3, <1>4, NoSessionAssumption DEF BudgetLockInv
<1> QED BY <1>5, <1>6

LEMMA InitIInv ==
  ASSUME Init
  PROVE  IInv
<1>1. NoReq \in Request /\ NoRow \in Row
  BY NoReqType, NoRowType
<1>2. TypeOK
  <2>1. <<>> \in Seq(Events)
    OBVIOUS
  <2> QED BY <1>1, <2>1 DEF Init, TypeOK, States, NoSeen
<1>3. RowLockInv /\ BudgetLockInv
  BY NoSessionAssumption DEF Init, RowLockInv, BudgetLockInv
<1>4. BudgetInv /\ RevisionInv /\ RequestInv
  BY DEF Init, BudgetInv, RevisionInv, RequestInv, ReviseSteps, RecordSteps,
         ApproveSteps
<1> QED BY <1>2, <1>3, <1>4 DEF IInv

-----------------------------------------------------------------------------
(* Steps that change no table: the requests begin, read and check.         *)

\* A session that moves on without locks or tables keeps what the others
\* rely on; what it may rely on itself is left to each step.
LEMMA MovedOn ==
  ASSUME IInv, NEW s \in Sessions, NEW to \in States,
         pc' = [pc EXCEPT ![s] = to], UNCHANGED <<tables, locks>>,
         \A v \in Sessions \ {s} : req'[v] = req[v] /\ seen'[v] = seen[v],
         pc[s] \notin {"submitted", "approved", "revised"},
         to \notin {"submitted", "approved", "revised"},
         pc[s] = "unset" => to = "unset" /\ req'[s] = req[s]
  PROVE  /\ RowLockInv' /\ BudgetLockInv' /\ BudgetInv'
<1>1. /\ pc'[s] = to
      /\ \A v \in Sessions \ {s} : pc'[v] = pc[v] /\ req'[v] = req[v]
  BY DEF IInv, TypeOK
<1>2. RowLockInv'
  BY <1>1 DEF IInv, RowLockInv, locks
<1>3. BudgetLockInv'
  BY <1>1 DEF IInv, BudgetLockInv, locks
<1>4. BudgetInv'
  BY DEF IInv, BudgetInv, tables, Numbered, Versions
<1> QED BY <1>2, <1>3, <1>4

LEMMA BeginRecordIInv ==
  ASSUME IInv, NEW s \in Sessions, NEW g \in Grants, NEW d \in Disbursements,
         NEW u \in Users, NEW a \in Amounts, BeginRecord(s, g, d, u, a)
  PROVE  IInv'
<1> DEFINE r == [grant |-> g, disbursement |-> d, user |-> u, amount |-> a]
<1>1. /\ pc[s] = "idle"
      /\ pc' = [pc EXCEPT ![s] = "record"]
      /\ req' = [req EXCEPT ![s] = r]
      /\ UNCHANGED <<tables, locks, seen>>
      /\ disbursements[d].status = "none"
      /\ \A v \in Sessions : pc[v] \in RecordSteps => req[v].disbursement # d
  BY DEF BeginRecord, BeginRequest, Step
<1>2. r \in Request
  BY AmountsAssumption DEF Request
<1>3. TypeOK'
  BY <1>1, <1>2 DEF IInv, TypeOK, States, RecordSteps, tables, locks
<1>4. /\ pc'[s] = "record" /\ req'[s] = r
      /\ \A v \in Sessions \ {s} : pc'[v] = pc[v] /\ req'[v] = req[v]
  BY <1>1 DEF IInv, TypeOK
<1>5. RowLockInv' /\ BudgetLockInv' /\ BudgetInv'
  BY <1>1, <1>4, MovedOn DEF States, RecordSteps
<1>6. RevisionInv'
  BY <1>1, <1>4 DEF IInv, RevisionInv, ReviseSteps, tables
<1>7. RequestInv'
  BY <1>1, <1>4 DEF IInv, RequestInv, RecordSteps, ApproveSteps, tables
<1> QED BY <1>3, <1>5, <1>6, <1>7 DEF IInv

LEMMA BeginOnRowIInv ==
  ASSUME IInv, NEW s \in Sessions, NEW d \in Disbursements, NEW u \in Users,
         BeginSubmit(s, d, u) \/ BeginApprove(s, d, u)
  PROVE  IInv'
<1> DEFINE r == RequestFor(d, u)
<1>1. PICK to \in {"submit", "approve"} :
         /\ pc[s] = "idle"
         /\ pc' = [pc EXCEPT ![s] = to]
         /\ req' = [req EXCEPT ![s] = r]
         /\ UNCHANGED <<tables, locks, seen>>
         /\ disbursements[d].status # "none"
  BY DEF BeginSubmit, BeginApprove, BeginRequest, Step
<1>2. r \in Request /\ r.disbursement = d
  BY DEF RequestFor, Request, IInv, TypeOK, Row
<1>3. TypeOK'
  BY <1>1, <1>2 DEF IInv, TypeOK, States, ApproveSteps, tables, locks
<1>4. /\ pc'[s] = to /\ req'[s] = r
      /\ \A v \in Sessions \ {s} : pc'[v] = pc[v] /\ req'[v] = req[v]
  BY <1>1 DEF IInv, TypeOK
<1>5. RowLockInv' /\ BudgetLockInv' /\ BudgetInv'
  BY <1>1, <1>4, MovedOn DEF States, ApproveSteps
<1>6. RevisionInv'
  BY <1>1, <1>4 DEF IInv, RevisionInv, ReviseSteps, tables
<1> HIDE DEF r
<1>7. RequestInv'
  BY <1>1, <1>2, <1>4 DEF IInv, RequestInv, RecordSteps, ApproveSteps, tables
<1> QED BY <1>3, <1>5, <1>6, <1>7 DEF IInv

LEMMA BeginReviseIInv ==
  ASSUME IInv, NEW s \in Sessions, NEW g \in Grants, NEW u \in Users,
         NEW t \in Totals, BeginRevise(s, g, u, t)
  PROVE  IInv'
<1> DEFINE r == [NoReq EXCEPT !.grant = g, !.user = u, !.amount = t]
<1>1. /\ pc[s] = "idle"
      /\ pc' = [pc EXCEPT ![s] = "revise"]
      /\ req' = [req EXCEPT ![s] = r]
      /\ UNCHANGED <<tables, locks, seen>>
      /\ budgets[g] # {}
  BY DEF BeginRevise, BeginRequest, Step
<1>2. r \in Request /\ r.grant = g /\ r.amount = t
  BY NoReqType, AmountsAssumption DEF Request
<1>3. TypeOK'
  BY <1>1, <1>2 DEF IInv, TypeOK, States, ReviseSteps, tables, locks
<1> HIDE DEF r
<1>4. /\ pc'[s] = "revise" /\ req'[s] = r
      /\ \A v \in Sessions \ {s} : pc'[v] = pc[v] /\ req'[v] = req[v]
  BY <1>1 DEF IInv, TypeOK
<1>5. RowLockInv' /\ BudgetLockInv' /\ BudgetInv'
  BY <1>1, <1>4, MovedOn DEF States, ReviseSteps
<1>6. RevisionInv'
  BY <1>1, <1>2, <1>4 DEF IInv, RevisionInv, ReviseSteps, tables
<1>7. RequestInv'
  BY <1>1, <1>4 DEF IInv, RequestInv, RecordSteps, ApproveSteps, tables
<1> QED BY <1>3, <1>5, <1>6, <1>7 DEF IInv

\* The reads and checks: from, to and what seen becomes.
LEMMA ReadIInv ==
  ASSUME IInv, NEW s \in Sessions,
         ReadCeiling(s) \/ CheckAndInsert(s) \/ ReadForApproval(s)
           \/ CheckApproval(s)
  PROVE  IInv'
<1>1. PICK to \in RecordSteps \cup ApproveSteps :
         /\ pc' = [pc EXCEPT ![s] = to]
         /\ \/ pc[s] \in RecordSteps /\ to \in RecordSteps
            \/ pc[s] \in ApproveSteps /\ to \in ApproveSteps
         /\ pc[s] # "approved" /\ to # "approved"
  <2>1. CASE pc' = [pc EXCEPT ![s] = "recordCeiling"] /\ pc[s] = "record"
    BY <2>1 DEF RecordSteps
  <2>2. CASE pc' = [pc EXCEPT ![s] = "approveCeiling"] /\ pc[s] = "approveRead"
    BY <2>2 DEF ApproveSteps
  <2>3. CASE CheckAndInsert(s)
    BY <2>3 DEF CheckAndInsert, Step, RecordSteps
  <2>4. CASE ReadForApproval(s)
    BY <2>4 DEF ReadForApproval, Step, ApproveSteps
  <2>5. CASE CheckApproval(s)
    BY <2>5 DEF CheckApproval, Step, ApproveSteps
  <2> QED BY <2>1, <2>2, <2>3, <2>4, <2>5 DEF ReadCeiling, Step
<1>2. UNCHANGED <<tables, locks, req>>
  BY DEF ReadCeiling, CheckAndInsert, ReadForApproval, CheckApproval
<1>3. /\ seen' \in [Sessions -> [ceiling : Nat, version : Nat]]
      /\ \A v \in Sessions \ {s} : seen'[v] = seen[v]
  <2>1. Ceilings(req[s].grant) \subseteq Nat
    <3>1. req[s].grant \in Grants
      BY DEF IInv, TypeOK, Request
    <3>2. budgets[req[s].grant] \subseteq Budget
      BY <3>1 DEF IInv, TypeOK
    <3>3. \A b \in Budget : b.total \in Nat
      BY AmountsAssumption DEF Budget
    <3> QED BY <3>2, <3>3 DEF Ceilings
  <2> QED BY <2>1 DEF ReadCeiling, CheckAndInsert, ReadForApproval,
                     CheckApproval, IInv, TypeOK
<1>4. TypeOK'
  BY <1>1, <1>2, <1>3 DEF IInv, TypeOK, States, tables, locks
<1>5. pc'[s] = to /\ \A v \in Sessions \ {s} : pc'[v] = pc[v]
  BY <1>1 DEF IInv, TypeOK
<1>6. RowLockInv' /\ BudgetLockInv' /\ BudgetInv'
  BY <1>1, <1>2, <1>3, MovedOn DEF States, RecordSteps, ApproveSteps
<1>7. RevisionInv'
  BY <1>1, <1>2, <1>3, <1>5
  DEF IInv, RevisionInv, ReviseSteps, RecordSteps, ApproveSteps, tables
<1>8. RequestInv'
  BY <1>1, <1>2, <1>5 DEF IInv, RequestInv, RecordSteps, ApproveSteps, tables
<1> QED BY <1>4, <1>6, <1>7, <1>8 DEF IInv

LEMMA FindCurrentIInv ==
  ASSUME IInv, NEW s \in Sessions, FindCurrent(s)
  PROVE  IInv'
<1>1. /\ pc[s] = "revise" /\ pc' = [pc EXCEPT ![s] = "unsetting"]
      /\ UNCHANGED <<tables, locks, req>>
      /\ \E v \in current[req[s].grant] : seen' = [seen EXCEPT ![s].version = v]
  BY DEF FindCurrent, Step
<1>2. current[req[s].grant] \subseteq Nat
  BY DEF IInv, TypeOK, Request
<1>3. TypeOK'
  BY <1>1, <1>2 DEF IInv, TypeOK, States, ReviseSteps, tables, locks
<1>4. /\ pc'[s] = "unsetting"
      /\ \A v \in Sessions \ {s} : pc'[v] = pc[v] /\ seen'[v] = seen[v]
  BY <1>1 DEF IInv, TypeOK
<1>5. RowLockInv' /\ BudgetLockInv' /\ BudgetInv'
  BY <1>1, <1>4, MovedOn DEF States, ReviseSteps
<1>6. RevisionInv'
  BY <1>1, <1>4 DEF IInv, RevisionInv, ReviseSteps, tables
<1>7. RequestInv'
  BY <1>1, <1>4 DEF IInv, RequestInv, RecordSteps, ApproveSteps, tables
<1> QED BY <1>3, <1>5, <1>6, <1>7 DEF IInv

-----------------------------------------------------------------------------
(* Steps that take a lock or rely on one.                                  *)

LEMMA UpdateRowIInv ==
  ASSUME IInv, NEW s \in Sessions, SubmitUpdate(s) \/ ApproveUpdate(s)
  PROVE  IInv'
<1> DEFINE d == req[s].disbursement
<1>1. PICK to \in {"submitted", "approved"} :
         /\ pc' = [pc EXCEPT ![s] = to]
         /\ pc[s] \in {"submit", "approveChecked"}
         /\ rowLock[d] = NoSession
         /\ rowLock' = [rowLock EXCEPT ![d] = s]
         /\ UNCHANGED <<tables, budgetLock, req, seen>>
         /\ to = "submitted" => disbursements[d].status = "recorded"
  BY DEF SubmitUpdate, ApproveUpdate, Step
<1>2. d \in Disbursements /\ disbursements[d].status # "none"
  BY <1>1 DEF IInv, TypeOK, Request, RequestInv, ApproveSteps
<1>3. TypeOK'
  BY <1>1, <1>2 DEF IInv, TypeOK, States, ApproveSteps, tables
<1>4. pc'[s] = to /\ \A v \in Sessions \ {s} : pc'[v] = pc[v]
  BY <1>1 DEF IInv, TypeOK
<1>5. RowLockInv'
  <2>1. \A x \in Disbursements : rowLock'[x] = IF x = d THEN s ELSE rowLock[x]
    BY <1>1, <1>2 DEF IInv, TypeOK
  <2>2. \A v \in Sessions : req[v].disbursement \in Disbursements
    BY DEF IInv, TypeOK, Request
  <2> QED BY <1>1, <1>4, <2>1, <2>2, NoSessionAssumption DEF IInv, RowLockInv
<1>6. BudgetLockInv' /\ BudgetInv'
  BY <1>1, <1>4 DEF IInv, BudgetLockInv, BudgetInv, tables, Numbered, Versions
<1>7. RevisionInv'
  BY <1>1, <1>4 DEF IInv, RevisionInv, ReviseSteps, tables
<1>8. RequestInv'
  BY <1>1, <1>2, <1>4 DEF IInv, RequestInv, RecordSteps, ApproveSteps, tables
<1> QED BY <1>3, <1>5, <1>6, <1>7, <1>8 DEF IInv

LEMMA UnsetCurrentIInv ==
  ASSUME IInv, NEW s \in Sessions, UnsetCurrent(s)
  PROVE  IInv'
<1> DEFINE g == req[s].grant
<1>1. /\ pc[s] = "unsetting" /\ pc' = [pc EXCEPT ![s] = "unset"]
      /\ budgetLock[g] = NoSession
      /\ budgetLock' = [budgetLock EXCEPT ![g] = s] \/ UNCHANGED budgetLock
      /\ UNCHANGED <<tables, rowLock, req, seen>>
  BY DEF UnsetCurrent, Step
<1>2. g \in Grants
  BY DEF IInv, TypeOK, Request
<1>3. TypeOK'
  BY <1>1, <1>2 DEF IInv, TypeOK, States, ReviseSteps, tables
<1>4. pc'[s] = "unset" /\ \A v \in Sessions \ {s} : pc'[v] = pc[v]
  BY <1>1 DEF IInv, TypeOK
<1>5. BudgetLockInv'
  <2>1. \A x \in Grants :
          budgetLock'[x] = budgetLock[x] \/ (x = g /\ budgetLock'[x] = s)
    BY <1>1, <1>2 DEF IInv, TypeOK
  <2>2. \A v \in Sessions : pc[v] = "revised" => req[v].grant # g
    BY <1>1, NoSessionAssumption DEF IInv, BudgetLockInv
  <2>3. \A v \in Sessions : req[v].grant \in Grants
    BY DEF IInv, TypeOK, Request
  <2> QED BY <1>1, <1>4, <2>1, <2>2, <2>3 DEF IInv, BudgetLockInv
<1>6. RowLockInv' /\ BudgetInv'
  BY <1>1, <1>4 DEF IInv, RowLockInv, BudgetInv, tables, Numbered, Versions
<1>7. RevisionInv'
  BY <1>1, <1>4 DEF IInv, RevisionInv, ReviseSteps, tables
<1>8. RequestInv'
  BY <1>1, <1>4 DEF IInv, RequestInv, RecordSteps, ApproveSteps, tables
<1> QED BY <1>3, <1>5, <1>6, <1>7, <1>8 DEF IInv

\* The unique index lets only the session pass that has unset the current row.
LEMMA InsertBudgetIInv ==
  ASSUME IInv, NEW s \in Sessions, InsertBudget(s)
  PROVE  IInv'
<1> DEFINE g == req[s].grant
           n == LatestVersion(g)
<1>1. /\ pc[s] = "unset" /\ pc' = [pc EXCEPT ![s] = "revised"]
      /\ StillCurrent(s) = {}
      /\ seen' = [seen EXCEPT ![s].version = n + 1]
      /\ UNCHANGED <<tables, locks, req>>
  BY DEF InsertBudget, Step
<1>2. g \in Grants /\ budgets[g] # {}
  BY <1>1 DEF IInv, TypeOK, Request, RevisionInv, ReviseSteps
<1>3. n \in Nat \ {0} /\ current[g] = {n}
  <2>1. PICK m \in Nat \ {0} : Numbered(g, m)
    BY <1>2 DEF IInv, BudgetInv
  <2>2. LatestVersion(g) = m
    BY <1>2, <2>1, LatestOfNumbered
  <2> QED BY <2>1, <2>2 DEF Numbered
<1>4. budgetLock[g] = s
  BY <1>1, <1>3 DEF StillCurrent
<1> HIDE DEF n
<1>5. TypeOK'
  <2>1. seen' \in [Sessions -> [ceiling : Nat, version : Nat]]
    <3>1. seen[s] \in [ceiling : Nat, version : Nat] /\ n + 1 \in Nat
      BY <1>3 DEF IInv, TypeOK
    <3>2. [seen[s] EXCEPT !.version = n + 1] \in [ceiling : Nat, version : Nat]
      BY <3>1
    <3> QED BY <1>1, <3>2 DEF IInv, TypeOK
  <2>2. pc' \in [Sessions -> States]
    BY <1>1 DEF IInv, TypeOK, States, ReviseSteps
  <2> QED BY <1>1, <2>1, <2>2 DEF IInv, TypeOK, tables, locks
<1>6. /\ pc'[s] = "revised" /\ seen'[s].version = n + 1
      /\ \A v \in Sessions \ {s} : pc'[v] = pc[v] /\ seen'[v] = seen[v]
  BY <1>1, <1>3 DEF IInv, TypeOK
<1>7. BudgetLockInv' /\ RowLockInv' /\ BudgetInv'
  BY <1>1, <1>4, <1>6 DEF IInv, BudgetLockInv, RowLockInv, BudgetInv, tables,
                         locks, Numbered, Versions
<1>8. RevisionInv'
  BY <1>1, <1>3, <1>6 DEF IInv, RevisionInv, ReviseSteps, tables
<1>9. RequestInv'
  BY <1>1, <1>6 DEF IInv, RequestInv, RecordSteps, ApproveSteps, tables
<1> QED BY <1>5, <1>7, <1>8, <1>9 DEF IInv

-----------------------------------------------------------------------------
(* Steps that end a transaction, and those that change a table.            *)

\* What ending a session leaves of the others.
LEMMA EndOthers ==
  ASSUME IInv, NEW s \in Sessions, End(s)
  PROVE  /\ pc'[s] = "idle"
         /\ \A v \in Sessions \ {s} :
              pc'[v] = pc[v] /\ req'[v] = req[v] /\ seen'[v] = seen[v]
BY DEF IInv, TypeOK, End

LEMMA RollbackIInv ==
  ASSUME IInv, NEW s \in Sessions, Rollback(s)
  PROVE  IInv'
<1>1. End(s) /\ UNCHANGED tables
  BY DEF Rollback
<1>2. TypeOK' /\ RowLockInv' /\ BudgetLockInv'
  BY <1>1, EndType, EndLocks DEF IInv, TypeOK, tables
<1>3. BudgetInv'
  BY <1>1 DEF IInv, BudgetInv, tables, Numbered, Versions
<1>4. /\ pc'[s] = "idle"
      /\ \A v \in Sessions \ {s} : pc'[v] = pc[v] /\ req'[v] = req[v]
                                   /\ seen'[v] = seen[v]
      /\ UNCHANGED <<budgets, current, disbursements>>
  BY <1>1, EndOthers DEF tables
<1>5. RevisionInv'
  BY <1>4 DEF IInv, RevisionInv, ReviseSteps
<1>6. RequestInv'
  <2>1. \A v \in Sessions :
          pc'[v] \in RecordSteps \cup ApproveSteps \cup {"submit", "submitted"}
            => v # s
    BY <1>4 DEF RecordSteps, ApproveSteps
  <2> QED BY <1>4, <2>1 DEF IInv, RequestInv
<1> QED BY <1>2, <1>3, <1>5, <1>6 DEF IInv

LEMMA CreateGrantIInv ==
  ASSUME IInv, NEW g \in Grants, NEW total \in Totals, CreateGrant(g, total)
  PROVE  IInv'
<1> DEFINE first == [version |-> 1, total |-> total]
<1>1. /\ budgets[g] = {}
      /\ budgets' = [budgets EXCEPT ![g] = {first}]
      /\ current' = [current EXCEPT ![g] = {1}]
      /\ UNCHANGED <<disbursements, outbox, locks, pc, req, seen>>
  BY DEF CreateGrant
<1>2. first \in Budget /\ first.version = 1
  BY DEF Budget
<1> HIDE DEF first
<1>3. /\ budgets'[g] = {first} /\ current'[g] = {1}
      /\ \A x \in Grants \ {g} : budgets'[x] = budgets[x] /\ current'[x] = current[x]
  BY <1>1 DEF IInv, TypeOK
<1>4. TypeOK'
  BY <1>1, <1>2 DEF IInv, TypeOK, locks
<1>5. RowLockInv' /\ BudgetLockInv'
  BY <1>1 DEF IInv, RowLockInv, BudgetLockInv, locks
<1>6. BudgetInv'
  <2>1. Numbered(g, 1)'
    BY <1>2, <1>3 DEF Numbered, Versions
  <2>2. \A x \in Grants \ {g} : \A n \in Nat : Numbered(x, n) => Numbered(x, n)'
    BY <1>3 DEF Numbered, Versions
  <2> QED BY <2>1, <2>2, <1>3 DEF IInv, BudgetInv
<1>7. RevisionInv'
  <2>1. \A s \in Sessions : pc[s] \in ReviseSteps => req[s].grant # g
    BY <1>1 DEF IInv, RevisionInv
  <2>2. \A s \in Sessions : req[s].grant \in Grants
    BY DEF IInv, TypeOK, Request
  <2> QED BY <1>1, <1>3, <2>1, <2>2 DEF IInv, RevisionInv, ReviseSteps
<1>8. RequestInv'
  BY <1>1 DEF IInv, RequestInv
<1> QED BY <1>4, <1>5, <1>6, <1>7, <1>8 DEF IInv

\* A commit that changes the row of one disbursement, and what the other
\* sessions need of the new status.
LEMMA RowCommitted ==
  ASSUME IInv, NEW s \in Sessions, NEW row \in Row, NEW added \in Seq(Events),
         End(s), UNCHANGED <<budgets, current>>,
         disbursements' = [disbursements EXCEPT ![req[s].disbursement] = row],
         outbox' = [outbox EXCEPT ![req[s].disbursement] = added],
         row.status # "none",
         \A v \in Sessions \ {s} : req[v].disbursement = req[s].disbursement =>
           pc[v] \notin RecordSteps \cup {"submitted"}
  PROVE  IInv'
<1> DEFINE d == req[s].disbursement
<1>1. d \in Disbursements /\ \A v \in Sessions : req[v].disbursement \in Disbursements
  BY DEF IInv, TypeOK, Request
<1>2. TypeOK'
  <2>1. disbursements' \in [Disbursements -> Row]
    BY DEF IInv, TypeOK
  <2>2. outbox' \in [Disbursements -> Seq(Events)]
    BY DEF IInv, TypeOK
  <2> QED BY <2>1, <2>2, EndType DEF IInv, TypeOK
<1>3. RowLockInv' /\ BudgetLockInv'
  BY EndLocks DEF IInv
<1>4. BudgetInv'
  BY DEF IInv, BudgetInv, Numbered, Versions
<1>5. RevisionInv'
  BY EndOthers DEF IInv, RevisionInv, ReviseSteps
<1>6. RequestInv'
  <2>1. \A x \in Disbursements :
          disbursements'[x] = IF x = d THEN row ELSE disbursements[x]
    BY DEF IInv, TypeOK
  <2> QED BY <1>1, <2>1, EndOthers
          DEF IInv, RequestInv, RecordSteps, ApproveSteps
<1> QED BY <1>2, <1>3, <1>4, <1>5, <1>6 DEF IInv

LEMMA CommitRecordIInv ==
  ASSUME IInv, NEW s \in Sessions, CommitRecord(s)
  PROVE  IInv'
<1> DEFINE d == req[s].disbursement
           row == [status |-> "recorded", grant |-> req[s].grant,
                   amount |-> req[s].amount, created_by |-> req[s].user,
                   approved_by |-> NoUser]
           added == Append(outbox[d], <<"recorded", req[s].user>>)
<1>1. /\ pc[s] = "recorded" /\ End(s) /\ UNCHANGED <<budgets, current>>
      /\ disbursements' = [disbursements EXCEPT ![d] = row]
      /\ outbox' = [outbox EXCEPT ![d] = added]
  BY DEF CommitRecord, IInv, TypeOK
<1>2. row \in Row /\ row.status = "recorded"
  BY DEF IInv, TypeOK, Request, Row, CommittedStatuses
<1>3. added \in Seq(Events)
  <2>1. outbox[d] \in Seq(Events) /\ <<"recorded", req[s].user>> \in Events
    BY DEF IInv, TypeOK, Request, Events
  <2> QED BY <2>1
<1>4. \A v \in Sessions \ {s} : req[v].disbursement = d =>
        pc[v] \notin RecordSteps \cup {"submitted"}
  BY <1>1 DEF IInv, RequestInv, RecordSteps
<1> HIDE DEF row, added
<1> QED BY <1>1, <1>2, <1>3, <1>4, RowCommitted

\* A committed row keeps all but the columns that the UPDATE sets.
LEMMA CommitSubmitIInv ==
  ASSUME IInv, NEW s \in Sessions, CommitSubmit(s)
  PROVE  IInv'
<1> DEFINE d == req[s].disbursement
           row == [disbursements[d] EXCEPT !.status = "pending_approval"]
<1>1. /\ pc[s] = "submitted" /\ End(s) /\ UNCHANGED <<budgets, current>>
      /\ disbursements' = [disbursements EXCEPT ![d] = row]
      /\ outbox' = [outbox EXCEPT ![d] = outbox[d]]
  BY DEF CommitSubmit, IInv, TypeOK
<1>2. /\ d \in Disbursements /\ disbursements[d] \in Row
      /\ disbursements[d].status = "recorded"
  BY <1>1 DEF IInv, TypeOK, Request, RequestInv
<1>3. row \in Row /\ row.status = "pending_approval"
  BY <1>2 DEF Row, CommittedStatuses
<1>4. outbox[d] \in Seq(Events)
  BY <1>2 DEF IInv, TypeOK
<1>5. \A v \in Sessions \ {s} : req[v].disbursement = d =>
        pc[v] \notin RecordSteps \cup {"submitted"}
  BY <1>1, <1>2 DEF IInv, RequestInv, RowLockInv
<1> HIDE DEF row
<1> QED BY <1>1, <1>3, <1>4, <1>5, RowCommitted

LEMMA CommitApproveIInv ==
  ASSUME IInv, NEW s \in Sessions, CommitApprove(s)
  PROVE  IInv'
<1> DEFINE d == req[s].disbursement
           u == req[s].user
           row == [disbursements[d] EXCEPT !.status = "approved",
                                           !.approved_by = u]
           added == Append(outbox[d], <<"approved", u>>)
<1>1. /\ pc[s] = "approved" /\ End(s) /\ UNCHANGED <<budgets, current>>
      /\ disbursements' = [disbursements EXCEPT ![d] = row]
      /\ outbox' = [outbox EXCEPT ![d] = added]
  BY DEF CommitApprove, IInv, TypeOK, Request
<1>2. /\ d \in Disbursements /\ disbursements[d] \in Row /\ u \in Users
      /\ disbursements[d].status # "none"
  BY <1>1 DEF IInv, TypeOK, Request, RequestInv, ApproveSteps
<1>3. row \in Row /\ row.status = "approved"
  BY <1>2 DEF Row, CommittedStatuses
<1>4. added \in Seq(Events)
  <2>1. outbox[d] \in Seq(Events) /\ <<"approved", u>> \in Events
    BY <1>2 DEF IInv, TypeOK, Events
  <2> QED BY <2>1
<1>5. \A v \in Sessions \ {s} : req[v].disbursement = d =>
        pc[v] \notin RecordSteps \cup {"submitted"}
  BY <1>1, <1>2 DEF IInv, RequestInv, RowLockInv
<1> HIDE DEF row, added
<1> QED BY <1>1, <1>3, <1>4, <1>5, RowCommitted

LEMMA CommitReviseIInv ==
  ASSUME IInv, NEW s \in Sessions, CommitRevise(s)
  PROVE  IInv'
<1>0. PICK g \in Grants : g = req[s].grant
  BY DEF IInv, TypeOK, Request
<1> DEFINE new == [version |-> seen[s].version, total |-> req[s].amount]
<1>1. /\ pc[s] = "revised" /\ End(s) /\ UNCHANGED <<disbursements, outbox>>
      /\ budgets' = [budgets EXCEPT ![g] = budgets[g] \cup {new}]
      /\ current' = [current EXCEPT ![g] = StillCurrent(s) \cup {seen[s].version}]
  BY <1>0 DEF CommitRevise
<1>2. \A v \in Sessions : req[v].grant \in Grants
  BY DEF IInv, TypeOK, Request
<1>3. budgetLock[g] = s /\ StillCurrent(s) = {}
  BY <1>0, <1>1 DEF IInv, BudgetLockInv, StillCurrent
<1>4. PICK n \in Nat \ {0} : Numbered(g, n)
  BY <1>0, <1>1, <1>2 DEF IInv, BudgetInv, RevisionInv, ReviseSteps
<1>5. /\ seen[s].version = n + 1
      /\ req[s].amount \in Totals
  BY <1>0, <1>1, <1>4 DEF IInv, RevisionInv, Numbered, TypeOK, ReviseSteps
<1>6. new \in Budget /\ new.version = n + 1
  BY <1>5 DEF Budget
<1>7. \A v \in Sessions \ {s} : pc[v] = "revised" => req[v].grant # g
  BY <1>3 DEF IInv, BudgetLockInv
<1> HIDE DEF new
<1>8. /\ budgets'[g] = budgets[g] \cup {new} /\ current'[g] = {n + 1}
      /\ \A x \in Grants \ {g} : budgets'[x] = budgets[x] /\ current'[x] = current[x]
  BY <1>1, <1>2, <1>3, <1>5 DEF IInv, TypeOK
<1>9. TypeOK'
  <2>1. /\ budgets' \in [Grants -> SUBSET Budget]
        /\ current' \in [Grants -> SUBSET Nat]
    BY <1>1, <1>2, <1>3, <1>5, <1>6 DEF IInv, TypeOK
  <2> QED BY <1>1, <2>1, EndType DEF IInv, TypeOK
<1>10. RowLockInv' /\ BudgetLockInv'
  BY <1>1, EndLocks DEF IInv
<1>11. BudgetInv'
  <2>1. \A b \in budgets[g] : b.version \in 1 .. n
    BY <1>4 DEF Numbered, Versions
  <2>2. Versions(g)' = 1 .. (n + 1)
    <3>1. Versions(g)' = Versions(g) \cup {n + 1}
      BY <1>6, <1>8 DEF Versions
    <3> QED BY <3>1, <1>4 DEF Numbered
  <2>3. \A b, c \in budgets'[g] : b.version = c.version => b = c
    BY <1>4, <1>6, <1>8, <2>1 DEF Numbered
  <2>4. Numbered(g, n + 1)' /\ n + 1 \in Nat \ {0}
    BY <1>8, <2>2, <2>3 DEF Numbered
  <2>5. \A x \in Grants \ {g} : \A m \in Nat : Numbered(x, m) => Numbered(x, m)'
    BY <1>8 DEF Numbered, Versions
  <2> QED BY <1>8, <2>4, <2>5 DEF IInv, BudgetInv
<1>12. RevisionInv'
  BY <1>1, <1>2, <1>7, <1>8, EndOthers DEF IInv, RevisionInv, ReviseSteps
<1>13. RequestInv'
  BY <1>1, EndOthers DEF IInv, RequestInv, RecordSteps, ApproveSteps
<1> QED BY <1>9, <1>10, <1>11, <1>12, <1>13 DEF IInv

-----------------------------------------------------------------------------
(* The invariant, and what follows from it.                                *)

LEMMA NextIInv ==
  ASSUME IInv, [Next]_vars
  PROVE  IInv'
<1>1. CASE \E g \in Grants, t \in Totals : CreateGrant(g, t)
  BY <1>1, CreateGrantIInv
<1>2. ASSUME NEW s \in Sessions, Begins(s) PROVE IInv'
  <2>1. CASE \E g \in Grants, d \in Disbursements, u \in Users, a \in Amounts :
               BeginRecord(s, g, d, u, a)
    BY <2>1, BeginRecordIInv
  <2>2. CASE \E d \in Disbursements, u \in Users :
               BeginSubmit(s, d, u) \/ BeginApprove(s, d, u)
    BY <2>2, BeginOnRowIInv
  <2>3. CASE \E g \in Grants, u \in Users, t \in Totals : BeginRevise(s, g, u, t)
    BY <2>3, BeginReviseIInv
  <2> QED BY <1>2, <2>1, <2>2, <2>3 DEF Begins
<1>3. ASSUME NEW s \in Sessions, Record(s) PROVE IInv'
  BY <1>3, ReadIInv, CommitRecordIInv DEF Record
<1>4. ASSUME NEW s \in Sessions, Submit(s) PROVE IInv'
  BY <1>4, UpdateRowIInv, CommitSubmitIInv DEF Submit
<1>5. ASSUME NEW s \in Sessions, Approve(s) PROVE IInv'
  BY <1>5, ReadIInv, UpdateRowIInv, CommitApproveIInv DEF Approve
<1>6. ASSUME NEW s \in Sessions, Revise(s) PROVE IInv'
  BY <1>6, FindCurrentIInv, UnsetCurrentIInv, InsertBudgetIInv, CommitReviseIInv
  DEF Revise
<1>7. CASE \E s \in Sessions : Rollback(s)
  BY <1>7, RollbackIInv
<1>8. CASE UNCHANGED vars
  <2>1. UNCHANGED <<budgets, current, disbursements, outbox, budgetLock, rowLock,
                    pc, req, seen>>
    BY <1>8 DEF vars, tables, locks
  <2>2. TypeOK' /\ RowLockInv' /\ BudgetLockInv' /\ RevisionInv' /\ RequestInv'
    BY <2>1 DEF IInv, TypeOK, RowLockInv, BudgetLockInv, RevisionInv, RequestInv
  <2>3. BudgetInv'
    BY <2>1 DEF IInv, BudgetInv, Numbered, Versions
  <2> QED BY <2>2, <2>3 DEF IInv
<1> QED BY <1>1, <1>2, <1>3, <1>4, <1>5, <1>6, <1>7, <1>8 DEF Next, Quiet

THEOREM Invariance == Spec => []IInv
BY InitIInv, NextIInv, PTL DEF Spec

\* Every variable keeps its type.
THEOREM TypeCorrectness == Spec => []TypeOK
<1>1. IInv => TypeOK
  BY DEF IInv
<1> QED BY <1>1, Invariance, PTL

\* However many revisions race each other, a grant has one current budget
\* version, the newest of a gap-free numbering.
THEOREM OneCurrentBudgetAlways == Spec => []OneCurrentBudget
<1>1. ASSUME IInv PROVE OneCurrentBudget
  <2> SUFFICES ASSUME NEW g \in Grants
               PROVE  /\ Versions(g) = 1 .. LatestVersion(g)
                      /\ \A b, c \in budgets[g] : b.version = c.version => b = c
                      /\ current[g] = IF budgets[g] = {} THEN {}
                                       ELSE {LatestVersion(g)}
    BY DEF OneCurrentBudget
  <2>1. CASE budgets[g] = {}
    <3>1. Versions(g) = {} /\ LatestVersion(g) = 0
      BY <2>1 DEF Versions, LatestVersion
    <3> QED BY <2>1, <3>1, <1>1 DEF IInv, BudgetInv, Numbered
  <2>2. CASE budgets[g] # {}
    <3>1. PICK n \in Nat \ {0} : Numbered(g, n)
      BY <1>1, <2>2 DEF IInv, BudgetInv
    <3>2. LatestVersion(g) = n
      BY <3>1, LatestOfNumbered
    <3> QED BY <2>2, <3>1, <3>2 DEF Numbered
  <2> QED BY <2>1, <2>2
<1> QED BY <1>1, Invariance, PTL

\* The tables that a step changes: a row takes a new status only in the
\* commit of a session that knows the status it replaces.
LEMMA StatusStep ==
  ASSUME IInv, [Next]_vars, NEW d \in Disbursements
  PROVE  \/ disbursements'[d] = disbursements[d]
         \/ /\ disbursements[d].status = "none"
            /\ disbursements'[d].status = "recorded"
         \/ /\ disbursements[d].status = "recorded"
            /\ disbursements'[d].status = "pending_approval"
         \/ /\ disbursements[d].status # "none"
            /\ disbursements'[d].status = "approved"
<1> USE DEF IInv, TypeOK
<1>1. CASE \E s \in Sessions : CommitRecord(s)
  BY <1>1 DEF CommitRecord, RequestInv, RecordSteps
<1>2. CASE \E s \in Sessions : CommitSubmit(s)
  <2>1. PICK s \in Sessions : CommitSubmit(s)
    BY <1>2
  <2>2. disbursements[req[s].disbursement].status = "recorded"
    BY <2>1 DEF CommitSubmit, RequestInv
  <2>3. disbursements[req[s].disbursement] \in Row
    BY DEF Request
  <2>4. [disbursements[req[s].disbursement] EXCEPT !.status = "pending_approval"]
          .status = "pending_approval"
    BY <2>3 DEF Row
  <2> QED BY <2>1, <2>2, <2>4 DEF CommitSubmit
<1>3. CASE \E s \in Sessions : CommitApprove(s)
  <2>1. PICK s \in Sessions : CommitApprove(s)
    BY <1>3
  <2>2. disbursements[req[s].disbursement].status # "none"
    BY <2>1 DEF CommitApprove, RequestInv, ApproveSteps
  <2>3. disbursements[req[s].disbursement] \in Row
    BY DEF Request
  <2>4. disbursements'[req[s].disbursement].status = "approved"
    BY <2>1, <2>3 DEF CommitApprove, Row, Request
  <2>5. d # req[s].disbursement => disbursements'[d] = disbursements[d]
    BY <2>1 DEF CommitApprove
  <2> QED BY <2>2, <2>4, <2>5
<1>4. CASE UNCHANGED disbursements
  BY <1>4
<1> QED BY <1>1, <1>2, <1>3, <1>4
    DEF Next, CreateGrant, Begins, BeginRecord, BeginSubmit, BeginApprove, BeginRevise,
        BeginRequest, Record, ReadCeiling, CheckAndInsert, Submit, SubmitUpdate,
        Approve, ReadForApproval, CheckApproval, ApproveUpdate, Revise,
        FindCurrent, UnsetCurrent, InsertBudget, CommitRevise, Rollback, Quiet,
        vars, tables

\* An approved disbursement is never sent back, whoever races whom.
THEOREM NoRegress == Spec => StatusNeverRegresses
<1>1. ASSUME IInv, [Next]_vars
      PROVE  [\A d \in Disbursements : Rank(disbursements[d].status)
                                         <= Rank(disbursements'[d].status)]_vars
  <2>1. \A d \in Disbursements :
          disbursements[d].status \in CommittedStatuses \cup {"none"}
    BY <1>1 DEF IInv, TypeOK, Row
  <2> SUFFICES ASSUME NEW d \in Disbursements
               PROVE  Rank(disbursements[d].status) <= Rank(disbursements'[d].status)
    OBVIOUS
  <2> QED BY <1>1, <2>1, StatusStep DEF Rank, CommittedStatuses
<1> QED BY <1>1, Invariance, PTL DEF StatusNeverRegresses, Spec

-----------------------------------------------------------------------------
(* The outbox and the row.                                                 *)

\* The three commits, on one row and its events.
LEMMA ToldRecorded ==
  ASSUME NEW row \in Row, NEW new \in Row, NEW events \in Seq(Events),
         Told(row, events), row.status = "none", new.status = "recorded"
  PROVE  Told(new, Append(events, <<"recorded", new.created_by>>))
<1> DEFINE all == Append(events, <<"recorded", new.created_by>>)
<1>1. Len(events) = 0
  BY DEF Told
<1>2. /\ Len(all) = 1 /\ DOMAIN all = {1}
      /\ all[1] = <<"recorded", new.created_by>>
  BY <1>1
<1> HIDE DEF all
<1>3. Told(new, all)
  BY <1>2 DEF Told
<1> QED BY <1>3 DEF all

LEMMA ToldSubmitted ==
  ASSUME NEW row \in Row, NEW new \in Row, NEW events \in Seq(Events),
         Told(row, events), row.status = "recorded",
         new.status = "pending_approval", new.created_by = row.created_by
  PROVE  Told(new, events)
BY DEF Told

LEMMA ToldApproved ==
  ASSUME NEW row \in Row, NEW new \in Row, NEW events \in Seq(Events),
         Told(row, events), row.status # "none", new.status = "approved",
         new.created_by = row.created_by
  PROVE  Told(new, Append(events, <<"approved", new.approved_by>>))
<1> DEFINE n == Len(events)
           all == Append(events, <<"approved", new.approved_by>>)
<1>1. n \in Nat \ {0}
  BY DEF Told
<1>2. /\ Len(all) = n + 1 /\ DOMAIN all = 1 .. (n + 1)
      /\ all[n + 1] = <<"approved", new.approved_by>>
      /\ \A i \in 1 .. n : all[i] = events[i] /\ i \in DOMAIN events
  OBVIOUS
<1> HIDE DEF all, n
<1>3. \A i \in 1 .. (n + 1) : /\ all[i][1] = "recorded" <=> i = 1
                              /\ i = 1 => all[i][2] = new.created_by
  <2> SUFFICES ASSUME NEW i \in 1 .. (n + 1)
               PROVE  /\ all[i][1] = "recorded" <=> i = 1
                      /\ i = 1 => all[i][2] = new.created_by
    OBVIOUS
  <2>1. CASE i = n + 1
    BY <1>1, <1>2, <2>1
  <2>2. CASE i \in 1 .. n
    BY <1>1, <1>2, <2>2 DEF Told
  <2> QED BY <1>1, <2>1, <2>2
<1>4. Told(new, all)
  BY <1>1, <1>2, <1>3 DEF Told
<1> QED BY <1>4 DEF all

LEMMA EventsStep ==
  ASSUME IInv, EventsMatchRow, [Next]_vars, NEW d \in Disbursements
  PROVE  Told(disbursements[d], outbox[d])'
<1>1. /\ disbursements[d] \in Row /\ outbox[d] \in Seq(Events)
      /\ disbursements'[d] \in Row /\ Told(disbursements[d], outbox[d])
  BY NextIInv DEF IInv, TypeOK, EventsMatchRow
<1>2. ASSUME NEW s \in Sessions, CommitRecord(s), req[s].disbursement = d
      PROVE  Told(disbursements[d], outbox[d])'
  <2> DEFINE new == [status |-> "recorded", grant |-> req[s].grant,
                     amount |-> req[s].amount, created_by |-> req[s].user,
                     approved_by |-> NoUser]
  <2>1. disbursements[d].status = "none"
    BY <1>2 DEF CommitRecord, IInv, RequestInv, RecordSteps
  <2>2. /\ disbursements'[d] = new
        /\ outbox'[d] = Append(outbox[d], <<"recorded", req[s].user>>)
    BY <1>2 DEF CommitRecord, IInv, TypeOK
  <2>3. new.status = "recorded" /\ new.created_by = req[s].user
    OBVIOUS
  <2> HIDE DEF new
  <2> QED BY <1>1, <2>1, <2>2, <2>3, ToldRecorded
<1>3. ASSUME NEW s \in Sessions, CommitSubmit(s), req[s].disbursement = d
      PROVE  Told(disbursements[d], outbox[d])'
  <2> DEFINE new == [disbursements[d] EXCEPT !.status = "pending_approval"]
  <2>1. disbursements[d].status = "recorded"
    BY <1>3 DEF CommitSubmit, IInv, RequestInv
  <2>2. disbursements'[d] = new /\ outbox'[d] = outbox[d]
    BY <1>3 DEF CommitSubmit, IInv, TypeOK
  <2>3. /\ new.status = "pending_approval"
        /\ new.created_by = disbursements[d].created_by
    BY <1>1 DEF Row
  <2> HIDE DEF new
  <2> QED BY <1>1, <2>1, <2>2, <2>3, ToldSubmitted
<1>4. ASSUME NEW s \in Sessions, CommitApprove(s), req[s].disbursement = d
      PROVE  Told(disbursements[d], outbox[d])'
  <2> DEFINE u == req[s].user
             new == [disbursements[d] EXCEPT !.status = "approved",
                                             !.approved_by = u]
  <2>1. disbursements[d].status # "none"
    BY <1>4 DEF CommitApprove, IInv, RequestInv, ApproveSteps
  <2>2. /\ disbursements'[d] = new
        /\ outbox'[d] = Append(outbox[d], <<"approved", u>>)
    BY <1>4 DEF CommitApprove, IInv, TypeOK
  <2>3. /\ new.status = "approved" /\ new.approved_by = u
        /\ new.created_by = disbursements[d].created_by
    BY <1>1 DEF Row
  <2> HIDE DEF new, u
  <2> QED BY <1>1, <2>1, <2>2, <2>3, ToldApproved
<1>5. CASE disbursements'[d] = disbursements[d] /\ outbox'[d] = outbox[d]
  BY <1>1, <1>5
<1>6. \A s \in Sessions :
        /\ CommitRecord(s) \/ CommitSubmit(s) \/ CommitApprove(s)
        /\ req[s].disbursement # d
        => disbursements'[d] = disbursements[d] /\ outbox'[d] = outbox[d]
  BY DEF CommitRecord, CommitSubmit, CommitApprove, IInv, TypeOK
<1>7. \/ \E s \in Sessions :
            CommitRecord(s) \/ CommitSubmit(s) \/ CommitApprove(s)
      \/ disbursements' = disbursements /\ outbox' = outbox
  <2>1. ASSUME NEW s \in Sessions, Begins(s)
        PROVE  disbursements' = disbursements /\ outbox' = outbox
    BY <2>1 DEF Begins, BeginRecord, BeginSubmit, BeginApprove, BeginRevise,
                BeginRequest, tables
  <2>2. ASSUME NEW s \in Sessions, Record(s) \/ Submit(s) \/ Approve(s)
        PROVE  \/ CommitRecord(s) \/ CommitSubmit(s) \/ CommitApprove(s)
               \/ disbursements' = disbursements /\ outbox' = outbox
    BY <2>2 DEF Record, ReadCeiling, CheckAndInsert, Submit, SubmitUpdate,
                Approve, ReadForApproval, CheckApproval, ApproveUpdate, tables
  <2>3. ASSUME NEW s \in Sessions, Revise(s) \/ Rollback(s)
        PROVE  disbursements' = disbursements /\ outbox' = outbox
    BY <2>3 DEF Revise, FindCurrent, UnsetCurrent, InsertBudget, CommitRevise,
                Rollback, tables
  <2>4. ASSUME \/ \E g \in Grants, t \in Totals : CreateGrant(g, t)
               \/ Quiet \/ UNCHANGED vars
        PROVE  disbursements' = disbursements /\ outbox' = outbox
    BY <2>4 DEF CreateGrant, Quiet, vars, tables
  <2> QED BY <2>1, <2>2, <2>3, <2>4 DEF Next
<1> QED BY <1>2, <1>3, <1>4, <1>5, <1>6, <1>7

\* What consumers are told of a disbursement is what its row says.
THEOREM EventsAlwaysMatch == Spec => []EventsMatchRow
<1>1. Init => EventsMatchRow
  BY DEF Init, EventsMatchRow, Told, NoRow
<1>2. IInv /\ EventsMatchRow /\ [Next]_vars => EventsMatchRow'
  BY EventsStep DEF EventsMatchRow
<1> QED BY <1>1, <1>2, Invariance, PTL DEF Spec

-----------------------------------------------------------------------------
(***************************************************************************)
(* Sums over finite sets.  The library's sum is a recursive function on    *)
(* the parts of a set that takes an arbitrary element first, so that it    *)
(* does not depend on the order is a theorem, and proved by a smallest     *)
(* part for which it fails.                                                *)
(***************************************************************************)
\* The element that a sum takes first, the sums of all parts of a set, and the
\* sum of the set.
Pick(s) == CHOOSE x \in s : TRUE
Unrolled(fn, S, f) ==
  f = [s \in SUBSET S |-> IF s = {} THEN 0 ELSE fn[Pick(s)] + f[s \ {Pick(s)}]]
Sum(fn, S) == (CHOOSE f : Unrolled(fn, S, f))[S]

\* The sum of the library is that one.
LEMMA SumIs == \A fn, S : SumFunctionOnSet(fn, S) = Sum(fn, S)
BY Zenon DEF SumFunctionOnSet, FoldFunctionOnSet, MapThenFoldSet, Sum, Unrolled, Pick

\* What is picked is an element.
LEMMA PickIn == \A s : s # {} => Pick(s) \in s
BY DEF Pick

\* Among the parts of a finite set there is a smallest counterexample: this is
\* what an induction over finite sets comes down to.
LEMMA MinimalSet ==
  ASSUME NEW S, IsFiniteSet(S), NEW F, F \subseteq SUBSET S, F # {}
  PROVE  \E A \in F : \A B \in F : B \subseteq A => B = A
<1>1. IsWellFoundedOn(StrictSubsetOrdering(S), SUBSET S)
  BY FS_StrictSubsetOrderingWellFounded, FS_FiniteSubsetsOfFinite
<1>2. PICK A \in F : \A B \in F : ~ (<<B, A>> \in StrictSubsetOrdering(S))
  BY <1>1, WFMin
<1>3. \A B \in F : B \subseteq A => B = A
  BY <1>2 DEF StrictSubsetOrdering
<1> QED  BY <1>3

\* What is unrolled is unrolled in one way,
LEMMA UnrolledOnce ==
  ASSUME NEW fn, NEW S, IsFiniteSet(S), NEW f, NEW g, NEW T, T \subseteq S,
         Unrolled(fn, S, f), Unrolled(fn, T, g)
  PROVE  g[T] = f[T]
<1> SUFFICES ASSUME g[T] # f[T] PROVE FALSE
  OBVIOUS
<1> DEFINE F == {A \in SUBSET T : g[A] # f[A]}
<1>1. IsFiniteSet(T)
  BY FS_Subset
<1>2. PICK A \in F : \A B \in F : B \subseteq A => B = A
  <2>1. F \subseteq SUBSET T /\ F # {}
    OBVIOUS
  <2> HIDE DEF F
  <2> QED  BY <1>1, <2>1, MinimalSet
<1>3. CASE A = {}
  BY <1>3 DEF Unrolled
<1>4. CASE A # {}
  <2>1. Pick(A) \in A
    BY <1>4, PickIn
  <2>2. A \ {Pick(A)} \notin F
    BY <1>2, <2>1
  <2>3. f[A \ {Pick(A)}] = g[A \ {Pick(A)}]
    BY <2>2
  <2>4. /\ A \in SUBSET S /\ A \in SUBSET T
        /\ g[A] # f[A]
    OBVIOUS
  <2>5. f[A] = fn[Pick(A)] + f[A \ {Pick(A)}]
    BY <1>4, <2>4 DEF Unrolled
  <2>6. g[A] = fn[Pick(A)] + g[A \ {Pick(A)}]
    BY <1>4, <2>4 DEF Unrolled
  <2> QED  BY <2>3, <2>4, <2>5, <2>6
<1> QED  BY <1>3, <1>4

\* and it can be.
LEMMA UnrolledSomehow ==
  ASSUME NEW fn, NEW S, IsFiniteSet(S)
  PROVE  \E f : Unrolled(fn, S, f)
<1> DEFINE F == {A \in SUBSET S : ~ \E f : Unrolled(fn, A, f)}
<1> SUFFICES ASSUME F # {} PROVE FALSE
  OBVIOUS
<1>1. PICK A \in F : \A B \in F : B \subseteq A => B = A
  <2>1. F \subseteq SUBSET S
    OBVIOUS
  <2> HIDE DEF F
  <2> QED  BY <2>1, MinimalSet
<1>2. IsFiniteSet(A) /\ \A B \in SUBSET A : IsFiniteSet(B)
  BY FS_Subset
<1> DEFINE of(B) == CHOOSE f : Unrolled(fn, B, f)
           sum(B) == IF B = {} THEN 0
               ELSE fn[Pick(B)] + of(B \ {Pick(B)})[B \ {Pick(B)}]
           g == [B \in SUBSET A |-> sum(B)]
<1>3. ASSUME NEW B \in SUBSET A, B # A
      PROVE  Unrolled(fn, B, of(B))
  <2>1. B \notin F /\ B \in SUBSET S
    BY <1>1, <1>3
  <2>2. \E f : Unrolled(fn, B, f)
    BY <2>1
  <2> QED  BY <2>2, Zenon
<1>4. ASSUME NEW B \in SUBSET A, B # A PROVE of(B)[B] = sum(B)
  <2>1. CASE B = {}
    <3>1. Unrolled(fn, B, of(B))
      BY <1>3, <1>4
    <3> HIDE DEF of
    <3> QED  BY <2>1, <3>1 DEF Unrolled
  <2>2. CASE B # {}
    <3> DEFINE C == B \ {Pick(B)}
    <3>1. C \subseteq B /\ C # B /\ C # A
      BY <1>4, <2>2, PickIn
    <3>2. Unrolled(fn, B, of(B)) /\ Unrolled(fn, C, of(C))
      BY <1>3, <1>4, <3>1
    <3> HIDE DEF of
    <3>3. of(C)[C] = of(B)[C]
      BY <1>2, <3>1, <3>2, UnrolledOnce
    <3>4. of(B)[B] = fn[Pick(B)] + of(B)[C]
      BY <2>2, <3>2 DEF Unrolled
    <3> QED  BY <2>2, <3>3, <3>4
  <2> QED  BY <2>1, <2>2
<1> HIDE DEF of
<1>5. ASSUME NEW B \in SUBSET A, B # {}
      PROVE  g[B] = fn[Pick(B)] + g[B \ {Pick(B)}]
  <2> DEFINE C == B \ {Pick(B)}
  <2>1. C \in SUBSET A /\ C # A
    BY <1>5, PickIn
  <2>2. of(C)[C] = g[C]
    BY <1>4, <2>1
  <2> QED  BY <1>5, <2>2
<1>6. Unrolled(fn, A, g)
  <2>1. g[{}] = 0
    OBVIOUS
  <2> HIDE DEF sum
  <2>2. \A B \in SUBSET A : g[B] = IF B = {} THEN 0 ELSE fn[Pick(B)] + g[B \ {Pick(B)}]
    BY <1>5, <2>1
  <2>3. g = [B \in SUBSET A |-> g[B]]
    OBVIOUS
  <2> HIDE DEF g
  <2> QED  BY <2>2, <2>3 DEF Unrolled
<1> QED  BY <1>6

\* The sum in the order in which it is chosen,
LEMMA SumStep ==
  ASSUME NEW fn, NEW S, IsFiniteSet(S)
  PROVE  SumFunctionOnSet(fn, S) =
           IF S = {} THEN 0 ELSE fn[Pick(S)] + SumFunctionOnSet(fn, S \ {Pick(S)})
<1> DEFINE of(B) == CHOOSE f : Unrolled(fn, B, f)
           T == S \ {Pick(S)}
<1>1. IsFiniteSet(T) /\ T \subseteq S
  BY FS_Subset
<1>2. Unrolled(fn, S, of(S)) /\ Unrolled(fn, T, of(T))
  BY <1>1, UnrolledSomehow, Zenon
<1>3. of(S)[S] = Sum(fn, S) /\ of(T)[T] = Sum(fn, T)
  BY Zenon DEF Sum
<1> HIDE DEF of
<1>4. of(T)[T] = of(S)[T]
  BY <1>1, <1>2, UnrolledOnce
<1>5. of(S)[S] = IF S = {} THEN 0 ELSE fn[Pick(S)] + of(S)[T]
  BY <1>2 DEF Unrolled
<1> QED  BY <1>3, <1>4, <1>5, SumIs

\* is a natural number,
LEMMA SumType ==
  ASSUME NEW S, IsFiniteSet(S), NEW fn, \A x \in S : fn[x] \in Nat
  PROVE  SumFunctionOnSet(fn, S) \in Nat
<1> DEFINE F == {A \in SUBSET S : SumFunctionOnSet(fn, A) \notin Nat}
<1> SUFFICES ASSUME F # {} PROVE FALSE
  OBVIOUS
<1>1. PICK A \in F : \A B \in F : B \subseteq A => B = A
  <2>1. F \subseteq SUBSET S
    OBVIOUS
  <2> HIDE DEF F
  <2> QED  BY <2>1, MinimalSet
<1>2. IsFiniteSet(A) /\ A \subseteq S
  BY FS_Subset
<1>3. SumFunctionOnSet(fn, A) = IF A = {} THEN 0
          ELSE fn[Pick(A)] + SumFunctionOnSet(fn, A \ {Pick(A)})
  BY <1>2, SumStep
<1>4. A # {}
  BY <1>3
<1>5. Pick(A) \in A
  BY <1>4, PickIn
<1>6. SumFunctionOnSet(fn, A \ {Pick(A)}) \in Nat
  BY <1>1, <1>2, <1>5
<1> QED  BY <1>1, <1>2, <1>3, <1>4, <1>5, <1>6

\* and the same in any order.
LEMMA SumRemove ==
  ASSUME NEW S, IsFiniteSet(S), NEW fn, \A x \in S : fn[x] \in Nat, NEW x \in S
  PROVE  SumFunctionOnSet(fn, S) = fn[x] + SumFunctionOnSet(fn, S \ {x})
<1> DEFINE sum(A) == SumFunctionOnSet(fn, A)
           F == {A \in SUBSET S : \E y \in A : sum(A) # fn[y] + sum(A \ {y})}
<1> SUFFICES ASSUME F # {} PROVE FALSE
  OBVIOUS
<1>1. PICK A \in F : \A B \in F : B \subseteq A => B = A
  <2>1. F \subseteq SUBSET S
    OBVIOUS
  <2> HIDE DEF F
  <2> QED  BY <2>1, MinimalSet
<1>2. PICK y \in A : sum(A) # fn[y] + sum(A \ {y})
  BY <1>1
<1>3. \A B \in SUBSET A : IsFiniteSet(B) /\ sum(B) \in Nat
  BY FS_Subset, SumType
<1> DEFINE c == Pick(A)
           B == A \ {c, y}
<1>4. c \in A
  BY PickIn
<1>5. sum(A) = fn[c] + sum(A \ {c})
  BY <1>3, SumStep
<1>6. c # y
  BY <1>2, <1>5
<1>7. sum(A \ {c}) = fn[y] + sum(B)
  <2>1. A \ {c} \notin F /\ A \ {c} \in SUBSET S
    BY <1>1, <1>4
  <2>2. y \in A \ {c} /\ (A \ {c}) \ {y} = B
    BY <1>6
  <2> HIDE DEF sum, c, B
  <2> QED  BY <2>1, <2>2
<1>8. sum(A \ {y}) = fn[c] + sum(B)
  <2>1. A \ {y} \notin F /\ A \ {y} \in SUBSET S
    BY <1>1, <1>2
  <2>2. c \in A \ {y} /\ (A \ {y}) \ {c} = B
    BY <1>4, <1>6
  <2> HIDE DEF sum, c, B
  <2> QED  BY <2>1, <2>2
<1>9. fn[c] \in Nat /\ fn[y] \in Nat /\ sum(B) \in Nat
  BY <1>3, <1>4
<1> HIDE DEF sum, c, B
<1> QED  BY <1>2, <1>5, <1>7, <1>8, <1>9

\* Nothing adds up to zero.
LEMMA SumEmpty == \A fn : SumFunctionOnSet(fn, {}) = 0
BY SumStep, FS_EmptySet

\* One more number adds to the sum.
LEMMA SumAdd ==
  ASSUME NEW S, IsFiniteSet(S), NEW fn, NEW x, x \notin S,
         \A y \in S \cup {x} : fn[y] \in Nat
  PROVE  SumFunctionOnSet(fn, S \cup {x}) = fn[x] + SumFunctionOnSet(fn, S)
<1>1. IsFiniteSet(S \cup {x}) /\ (S \cup {x}) \ {x} = S
  BY FS_AddElement
<1>2. x \in S \cup {x}
  OBVIOUS
<1>3. SumFunctionOnSet(fn, S \cup {x})
          = fn[x] + SumFunctionOnSet(fn, (S \cup {x}) \ {x})
  BY <1>1, <1>2, SumRemove
<1> QED  BY <1>1, <1>3

\* The same numbers have the same sum.
LEMMA SumSame ==
  ASSUME NEW S, IsFiniteSet(S), NEW f, NEW g, \A x \in S : f[x] = g[x]
  PROVE  SumFunctionOnSet(f, S) = SumFunctionOnSet(g, S)
<1> DEFINE F == {A \in SUBSET S : SumFunctionOnSet(f, A) # SumFunctionOnSet(g, A)}
<1> SUFFICES ASSUME F # {} PROVE FALSE
  OBVIOUS
<1>1. PICK A \in F : \A B \in F : B \subseteq A => B = A
  <2>1. F \subseteq SUBSET S
    OBVIOUS
  <2> HIDE DEF F
  <2> QED  BY <2>1, MinimalSet
<1>2. IsFiniteSet(A) /\ A \subseteq S
  BY FS_Subset
<1>3. /\ SumFunctionOnSet(f, A) = IF A = {} THEN 0
             ELSE f[Pick(A)] + SumFunctionOnSet(f, A \ {Pick(A)})
      /\ SumFunctionOnSet(g, A) = IF A = {} THEN 0
             ELSE g[Pick(A)] + SumFunctionOnSet(g, A \ {Pick(A)})
  BY <1>2, SumStep
<1>4. A # {}
  BY <1>3
<1>5. Pick(A) \in A
  BY <1>4, PickIn
<1>6. A \ {Pick(A)} \notin F
  BY <1>1, <1>5
<1>7. SumFunctionOnSet(f, A \ {Pick(A)}) = SumFunctionOnSet(g, A \ {Pick(A)})
  BY <1>2, <1>6
<1>8. f[Pick(A)] = g[Pick(A)]
  BY <1>2, <1>5
<1> QED  BY <1>1, <1>3, <1>4, <1>7, <1>8

\* A sum is at most as many times the largest number.
LEMMA SumAtMost ==
  ASSUME NEW S, IsFiniteSet(S), NEW m \in Nat, NEW fn,
         \A x \in S : fn[x] \in Nat /\ fn[x] <= m
  PROVE  SumFunctionOnSet(fn, S) <= Cardinality(S) * m
<1> DEFINE F == {A \in SUBSET S : ~ (SumFunctionOnSet(fn, A) <= Cardinality(A) * m)}
<1> SUFFICES ASSUME F # {} PROVE FALSE
  OBVIOUS
<1>1. PICK A \in F : \A B \in F : B \subseteq A => B = A
  <2>1. F \subseteq SUBSET S
    OBVIOUS
  <2> HIDE DEF F
  <2> QED  BY <2>1, MinimalSet
<1>2. IsFiniteSet(A) /\ A \subseteq S
  BY FS_Subset
<1>3. A # {}
  BY FS_EmptySet, SumEmpty
<1>4. PICK c \in A : TRUE
  BY <1>3
<1> DEFINE B == A \ {c}
<1>5. B \notin F /\ B \in SUBSET S
  BY <1>1, <1>2, <1>4
<1>6. SumFunctionOnSet(fn, B) <= Cardinality(B) * m
  BY <1>5
<1>7. SumFunctionOnSet(fn, A) = fn[c] + SumFunctionOnSet(fn, B)
  BY <1>2, <1>4, SumRemove
<1>8. Cardinality(A) \in Nat /\ Cardinality(B) = Cardinality(A) - 1
  BY <1>2, <1>4, FS_RemoveElement, FS_CardinalityType
<1>9. SumFunctionOnSet(fn, B) \in Nat /\ fn[c] \in Nat /\ fn[c] <= m
  BY <1>2, <1>4, <1>5, SumType, FS_Subset
<1> DEFINE k == Cardinality(A)
<1>10. (k - 1) * m + m = k * m
  BY <1>8
<1>11. k * m \in Nat /\ (k - 1) * m \in Int
  BY <1>8
<1> HIDE DEF B
<1>12. SumFunctionOnSet(fn, A) <= Cardinality(A) * m
  BY <1>6, <1>7, <1>8, <1>9, <1>10, <1>11
<1> QED  BY <1>1, <1>12

\* Fewer numbers have a smaller sum.
LEMMA SumSubset ==
  ASSUME NEW S, IsFiniteSet(S), NEW fn, \A x \in S : fn[x] \in Nat, NEW T, T \subseteq S
  PROVE  SumFunctionOnSet(fn, T) <= SumFunctionOnSet(fn, S)
<1> DEFINE F == {A \in SUBSET S :
        T \subseteq A /\ ~ (SumFunctionOnSet(fn, T) <= SumFunctionOnSet(fn, A))}
<1> SUFFICES ASSUME F # {} PROVE FALSE
  <2>1. S \in F \/ SumFunctionOnSet(fn, T) <= SumFunctionOnSet(fn, S)
    OBVIOUS
  <2> QED  BY <2>1
<1>1. PICK A \in F : \A B \in F : B \subseteq A => B = A
  <2>1. F \subseteq SUBSET S
    OBVIOUS
  <2> HIDE DEF F
  <2> QED  BY <2>1, MinimalSet
<1>2. IsFiniteSet(A) /\ A \subseteq S /\ IsFiniteSet(T)
  BY FS_Subset
<1>3. SumFunctionOnSet(fn, T) \in Nat
  BY <1>2, SumType
<1>4. A # T
  BY <1>3
<1>5. PICK c \in A : c \notin T
  BY <1>4
<1> DEFINE B == A \ {c}
<1>6. B \notin F /\ B \in SUBSET S /\ T \subseteq B
  BY <1>1, <1>2, <1>5
<1>7. SumFunctionOnSet(fn, T) <= SumFunctionOnSet(fn, B)
  BY <1>6
<1>8. SumFunctionOnSet(fn, A) = fn[c] + SumFunctionOnSet(fn, B)
  BY <1>2, <1>5, SumRemove
<1>9. SumFunctionOnSet(fn, B) \in Nat /\ fn[c] \in Nat
  BY <1>2, <1>5, <1>6, SumType, FS_Subset
<1> HIDE DEF B
<1>10. SumFunctionOnSet(fn, T) <= SumFunctionOnSet(fn, A)
  BY <1>3, <1>7, <1>8, <1>9
<1> QED  BY <1>1, <1>10
-----------------------------------------------------------------------------
(***************************************************************************)
(* The overrun.  Some budget of a grant bounds what is prepared for it, up *)
(* to what the other requests may add: a request that inserts has found    *)
(* room for itself among the committed rows, so only those that have       *)
(* inserted and not committed can come on top of it.  Rows never shrink    *)
(* and budgets are never deleted, so that stays true when the request has  *)
(* ended.                                                                  *)
(***************************************************************************)
\* The largest amount, and what the other requests can add to a ceiling.
Most == Highest(Amounts)
Slack == (Cardinality(Sessions) - 1) * Most

Costs == [d \in Disbursements |-> disbursements[d].amount]
Asked == [s \in Sessions |-> req[s].amount]
Held(g) == {d \in Disbursements : /\ disbursements[d].status # "none"
                                  /\ disbursements[d].grant = g}
Inserting(g) == {s \in Sessions : pc[s] = "recorded" /\ req[s].grant = g}

\* Some budget of the grant bounds what is prepared; one of them is the largest;
\* and there is no money without a budget.
Fits(g) == \E b \in budgets[g] : Prepared(g) <= b.total + Slack
Topped(g) == \E b \in budgets[g] : \A c \in budgets[g] : c.total <= b.total
Unfunded(g) == budgets[g] = {} => Held(g) = {} /\ Inserting(g) = {}

OverrunInv ==
  /\ \A g \in Grants : Unfunded(g) /\ (budgets[g] # {} => Fits(g) /\ Topped(g))
  /\ \A s \in Sessions : pc[s] \in RecordSteps =>
       req[s].amount \in Amounts /\ budgets[req[s].grant] # {}
  /\ \A s \in Sessions : pc[s] = "recordCeiling" =>
       \E b \in budgets[req[s].grant] : seen[s].ceiling = b.total

\* Both are numbers, and no amount is larger than the largest.
LEMMA MostFacts == Most \in Nat /\ (\A a \in Amounts : a <= Most) /\ Slack \in Nat
<1>1. Most \in Amounts /\ \A a \in Amounts : a <= Most
  BY LargestAssumption DEF Most, Highest
<1>2. Cardinality(Sessions) \in Nat \ {0}
  BY FiniteAssumption, FS_CardinalityType, FS_EmptySet
<1>3. \A n \in Nat \ {0} : \A m \in Nat : (n - 1) * m \in Nat
  <2>1. \A n, m \in Nat : n * m \in Nat
    OBVIOUS
  <2>2. \A n \in Nat \ {0} : n - 1 \in Nat
    OBVIOUS
  <2> QED  BY <2>1, <2>2
<1> QED  BY <1>1, <1>2, <1>3, AmountsAssumption DEF Slack

\* Both sums are of finitely many numbers,
Countable ==
  TypeOK => \A g :
    /\ IsFiniteSet(Held(g)) /\ \A d \in Held(g) : Costs[d] \in Nat
    /\ IsFiniteSet(Inserting(g)) /\ \A s \in Inserting(g) : Asked[s] \in Nat
    /\ SumFunctionOnSet(Costs, Held(g)) \in Nat
    /\ SumFunctionOnSet(Asked, Inserting(g)) \in Nat
    /\ Prepared(g)
           = SumFunctionOnSet(Costs, Held(g)) + SumFunctionOnSet(Asked, Inserting(g))

\* now,
LEMMA SumsFinite == Countable
<1> SUFFICES ASSUME TypeOK, NEW g
             PROVE  /\ IsFiniteSet(Held(g)) /\ \A d \in Held(g) : Costs[d] \in Nat
                    /\ IsFiniteSet(Inserting(g)) /\ \A s \in Inserting(g) :
                           Asked[s] \in Nat
  <2>1. \A g : Prepared(g) = SumFunctionOnSet(Costs, Held(g))
                             + SumFunctionOnSet(Asked, Inserting(g))
    BY DEF Prepared, Costs, Asked, Held, Inserting
  <2> QED  BY <2>1, SumType DEF Countable
<1>1. IsFiniteSet(Held(g)) /\ IsFiniteSet(Inserting(g))
  <2>1. Held(g) \subseteq Disbursements /\ Inserting(g) \subseteq Sessions
    BY DEF Held, Inserting
  <2> QED  BY <2>1, FiniteAssumption, FS_Subset
<1>2. \A d \in Disbursements : disbursements[d].amount \in Nat
  BY DEF TypeOK, Row
<1>3. \A s \in Sessions : req[s].amount \in Nat
  BY DEF TypeOK, Request
<1> QED  BY <1>1, <1>2, <1>3 DEF Held, Inserting, Costs, Asked

\* and in the next state.
LEMMA SumsNext == Countable'
BY SumsFinite, PTL

\* The total of a budget is a number.
LEMMA TotalType == TypeOK => \A g \in Grants : \A b \in budgets[g] : b.total \in Nat
<1>1. \A b \in Budget : b.total \in Nat
  BY AmountsAssumption DEF Budget
<1> QED  BY <1>1 DEF TypeOK

\* Steps that prepare no more than was prepared keep it within the bound.
LEMMA FitsStill ==
  ASSUME TypeOK, TypeOK', OverrunInv, NEW g \in Grants,
         budgets[g] \subseteq budgets'[g], Prepared(g)' <= Prepared(g), budgets'[g] # {}
  PROVE  Fits(g)'
<1>0. Prepared(g) \in Nat /\ Prepared(g)' \in Nat
  BY SumsFinite, SumsNext DEF Countable
<1>1. \A b \in budgets'[g] : b.total \in Nat
  <2>1. \A b \in Budget : b.total \in Nat
    BY AmountsAssumption DEF Budget
  <2> QED  BY <2>1 DEF TypeOK
<1>2. CASE budgets[g] = {}
  <2>1. Prepared(g) = 0
    <3>1. Held(g) = {} /\ Inserting(g) = {}
      BY <1>2 DEF OverrunInv, Unfunded
    <3>2. Prepared(g)
              = SumFunctionOnSet(Costs, Held(g)) + SumFunctionOnSet(Asked, Inserting(g))
      BY SumsFinite DEF Countable
    <3> QED  BY <3>1, <3>2, SumEmpty
  <2>2. PICK b \in budgets'[g] : TRUE
    OBVIOUS
  <2>3. Prepared(g)' = 0
    BY <1>0, <2>1
  <2>4. Prepared(g)' <= b.total + Slack
    BY <1>1, <2>2, <2>3, MostFacts
  <2> QED  BY <2>4 DEF Fits, Slack, Most
<1>3. CASE budgets[g] # {}
  <2>1. PICK b \in budgets[g] : Prepared(g) <= b.total + Slack
    BY <1>3 DEF OverrunInv, Fits
  <2>2. b \in budgets'[g]
    OBVIOUS
  <2>3. Prepared(g)' <= b.total + Slack
    BY <1>0, <1>1, <2>1, <2>2, MostFacts
  <2> QED  BY <2>2, <2>3 DEF Fits, Slack, Most
<1> QED  BY <1>2, <1>3

\* Rows that keep their amounts add up to the same.
LEMMA CostsKept ==
  ASSUME TypeOK, TypeOK', NEW g,
         \A d \in Disbursements : disbursements[d].status # "none" =>
           disbursements'[d].amount = disbursements[d].amount
  PROVE  SumFunctionOnSet(Costs', Held(g)) = SumFunctionOnSet(Costs, Held(g))
<1>1. \A d \in Held(g) : Costs'[d] = Costs[d]
  BY DEF Held, Costs
<1> QED  BY <1>1, SumSame, SumsFinite DEF Countable

\* So do requests.
LEMMA AskedKept ==
  ASSUME TypeOK, TypeOK', NEW g, NEW S, S \subseteq Inserting(g),
         \A s \in S : req'[s] = req[s]
  PROVE  SumFunctionOnSet(Asked', S) = SumFunctionOnSet(Asked, S)
<1>1. \A s \in S : Asked'[s] = Asked[s]
  BY DEF Inserting, Asked
<1>2. IsFiniteSet(S)
  BY SumsFinite, FS_Subset DEF Countable
<1> QED  BY <1>1, <1>2, SumSame

\* What is prepared while rows change their status only, and requests end.
LEMMA PreparedFalls ==
  ASSUME TypeOK, TypeOK', NEW g,
         \A d \in Disbursements :
           /\ disbursements'[d].status = "none" <=> disbursements[d].status = "none"
           /\ disbursements[d].status # "none" =>
                /\ disbursements'[d].amount = disbursements[d].amount
                /\ disbursements'[d].grant = disbursements[d].grant,
         \A s \in Sessions : pc'[s] = "recorded"
             => pc[s] = "recorded" /\ req'[s] = req[s]
  PROVE  /\ Prepared(g)' <= Prepared(g)
         /\ Held(g)' = Held(g) /\ Inserting(g)' \subseteq Inserting(g)
<1>1. Held(g)' = Held(g)
  BY DEF Held
<1>2. Inserting(g)' \subseteq Inserting(g)
  BY DEF Inserting
<1>3. SumFunctionOnSet(Costs', Held(g)') = SumFunctionOnSet(Costs, Held(g))
  BY <1>1, CostsKept
<1>4. SumFunctionOnSet(Asked', Inserting(g)') = SumFunctionOnSet(Asked, Inserting(g)')
  <2>1. \A s \in Inserting(g)' : req'[s] = req[s]
    BY DEF Inserting
  <2> QED  BY <1>2, <2>1, AskedKept
<1>5. SumFunctionOnSet(Asked, Inserting(g)') <= SumFunctionOnSet(Asked, Inserting(g))
  BY <1>2, SumsFinite, SumSubset DEF Countable
<1>6. /\ SumFunctionOnSet(Costs, Held(g)) \in Nat
             /\ SumFunctionOnSet(Asked, Inserting(g)) \in Nat
      /\ SumFunctionOnSet(Asked', Inserting(g)') \in Nat
      /\ Prepared(g)
             = SumFunctionOnSet(Costs, Held(g)) + SumFunctionOnSet(Asked, Inserting(g))
      /\ Prepared(g)'
             = SumFunctionOnSet(Costs', Held(g)')
                 + SumFunctionOnSet(Asked', Inserting(g)')
  BY SumsFinite, SumsNext DEF Countable
<1>7. Prepared(g)' <= Prepared(g)
  BY <1>3, <1>4, <1>5, <1>6
<1> QED  BY <1>1, <1>2, <1>7

\* The sessions, when one of them has gone on.
LEMMA SessionsStill ==
  ASSUME IInv, OverrunInv, NEW s \in Sessions,
         \A v \in Sessions \ {s} :
             pc'[v] = pc[v] /\ req'[v] = req[v] /\ seen'[v] = seen[v],
         \A g \in Grants : budgets[g] \subseteq budgets'[g],
         pc'[s] \in RecordSteps
             => req'[s].amount \in Amounts /\ budgets'[req'[s].grant] # {},
         pc'[s] = "recordCeiling" =>
           \E b \in budgets'[req'[s].grant] : seen'[s].ceiling = b.total
  PROVE  /\ \A v \in Sessions : pc'[v] \in RecordSteps =>
              req'[v].amount \in Amounts /\ budgets'[req'[v].grant] # {}
         /\ \A v \in Sessions : pc'[v] = "recordCeiling" =>
              \E b \in budgets'[req'[v].grant] : seen'[v].ceiling = b.total
<1>1. \A v \in Sessions : req[v].grant \in Grants
  BY DEF IInv, TypeOK, Request
<1>2. ASSUME NEW v \in Sessions \ {s}
      PROVE  /\ pc'[v] \in RecordSteps
                    => req'[v].amount \in Amounts /\ budgets'[req'[v].grant] # {}
             /\ pc'[v] = "recordCeiling" =>
                  \E b \in budgets'[req'[v].grant] : seen'[v].ceiling = b.total
  <2>1. budgets[req[v].grant] \subseteq budgets'[req[v].grant]
    BY <1>1
  <2> QED  BY <2>1 DEF OverrunInv
<1> QED  BY <1>2

\* The bound, from what a step does to the sums, the budgets and the sessions.
LEMMA OverrunStill ==
  ASSUME IInv, IInv', OverrunInv,
         \A g \in Grants :
             budgets[g] \subseteq budgets'[g] /\ (budgets'[g] # {} => Topped(g)'),
         \A g \in Grants : Fits(g)' \/ Prepared(g)' <= Prepared(g),
         \A g \in Grants : budgets'[g] = {} =>
           Held(g)' \subseteq Held(g) /\ Inserting(g)' \subseteq Inserting(g),
         \A v \in Sessions : pc'[v] \in RecordSteps =>
           req'[v].amount \in Amounts /\ budgets'[req'[v].grant] # {},
         \A v \in Sessions : pc'[v] = "recordCeiling" =>
           \E b \in budgets'[req'[v].grant] : seen'[v].ceiling = b.total
  PROVE  OverrunInv'
<1>1. ASSUME NEW g \in Grants PROVE Unfunded(g)'
  BY <1>1 DEF OverrunInv, Unfunded
<1>2. ASSUME NEW g \in Grants, budgets'[g] # {} PROVE Fits(g)'
  BY <1>2, FitsStill DEF IInv
<1> QED  BY <1>1, <1>2 DEF OverrunInv

\* A request that goes on without a table, and does not insert.
LEMMA MovesOverrun ==
  ASSUME IInv, IInv', OverrunInv, NEW s \in Sessions, UNCHANGED tables,
         \A v \in Sessions \ {s} :
             pc'[v] = pc[v] /\ req'[v] = req[v] /\ seen'[v] = seen[v],
         pc'[s] # "recorded",
         pc'[s] \in RecordSteps
             => req'[s].amount \in Amounts /\ budgets[req'[s].grant] # {},
         pc'[s] = "recordCeiling" =>
           \E b \in budgets[req'[s].grant] : seen'[s].ceiling = b.total
  PROVE  OverrunInv'
<1>1. budgets' = budgets /\ disbursements' = disbursements
  BY DEF tables
<1>2. \A g \in Grants :
        Prepared(g)' <= Prepared(g) /\ Held(g)' = Held(g)
            /\ Inserting(g)' \subseteq Inserting(g)
  <2>1. \A v \in Sessions : pc'[v] = "recorded"
            => pc[v] = "recorded" /\ req'[v] = req[v]
    OBVIOUS
  <2> QED  BY <1>1, <2>1, PreparedFalls DEF IInv
<1>3. \A g \in Grants : budgets'[g] # {} => Topped(g)'
  BY <1>1 DEF OverrunInv, Topped
<1>4. /\ \A v \in Sessions : pc'[v] \in RecordSteps =>
           req'[v].amount \in Amounts /\ budgets'[req'[v].grant] # {}
      /\ \A v \in Sessions : pc'[v] = "recordCeiling" =>
           \E b \in budgets'[req'[v].grant] : seen'[v].ceiling = b.total
  BY <1>1, SessionsStill
<1> QED  BY <1>1, <1>2, <1>3, <1>4, OverrunStill

\* Each insert fits, and the others that are open are what can exceed it.
LEMMA InsertOverrun ==
  ASSUME IInv, IInv', OverrunInv, NEW s \in Sessions, CheckAndInsert(s)
  PROVE  OverrunInv'
<1>1. /\ pc[s] = "recordCeiling" /\ pc' = [pc EXCEPT ![s] = "recorded"]
      /\ WithinCeiling(s, req[s].amount) /\ UNCHANGED <<tables, req, seen>>
  BY DEF CheckAndInsert, Step
<1>2. budgets' = budgets /\ disbursements' = disbursements
  BY <1>1 DEF tables
<1>3. pc'[s] = "recorded" /\ \A v \in Sessions \ {s} : pc'[v] = pc[v]
  BY <1>1 DEF IInv, TypeOK
<1>4. PICK h \in Grants : h = req[s].grant
  BY DEF IInv, TypeOK, Request
<1>5. \A g \in Grants : /\ Held(g)' = Held(g)
                        /\ Inserting(g)' = IF g = h THEN Inserting(g) \cup {s}
                               ELSE Inserting(g)
  BY <1>1, <1>2, <1>3, <1>4 DEF Held, Inserting
<1>6. Costs' = Costs /\ Asked' = Asked
  BY <1>1, <1>2 DEF Costs, Asked
<1>7. \A g \in Grants :
        /\ SumFunctionOnSet(Costs, Held(g)) \in Nat
        /\ IsFiniteSet(Inserting(g)) /\ \A v \in Inserting(g) : Asked[v] \in Nat
        /\ Prepared(g)
               = SumFunctionOnSet(Costs, Held(g))
                   + SumFunctionOnSet(Asked, Inserting(g))
        /\ Prepared(g)'
               = SumFunctionOnSet(Costs', Held(g)')
                   + SumFunctionOnSet(Asked', Inserting(g)')
        /\ SumFunctionOnSet(Asked, Inserting(g)) \in Nat
  BY SumsFinite, SumsNext DEF Countable, IInv
<1>8. ASSUME NEW g \in Grants \ {h} PROVE Prepared(g)' <= Prepared(g)
  BY <1>5, <1>6, <1>7
<1>9. Fits(h)'
  <2> DEFINE held == SumFunctionOnSet(Costs, Held(h))
             others == SumFunctionOnSet(Asked, Inserting(h))
  <2>1. PICK b \in budgets[h] : seen[s].ceiling = b.total
    BY <1>1, <1>4 DEF OverrunInv
  <2>2. held + req[s].amount <= b.total
    <3>1. Of(h) = Held(h)
      <4>1. \A d \in Disbursements :
              disbursements[d].status \in CommittedStatuses
                  <=> disbursements[d].status # "none"
        BY DEF IInv, TypeOK, Row, CommittedStatuses
      <4> QED  BY <4>1 DEF Of, Held
    <3>2. DisbursedTotal(h) = held
      BY <3>1 DEF DisbursedTotal, Costs
    <3> QED  BY <1>1, <1>4, <2>1, <3>2 DEF WithinCeiling
  <2>3. s \notin Inserting(h)
    BY <1>1 DEF Inserting
  <2>4. others <= Slack
    <3>1. Inserting(h) \subseteq Sessions \ {s} /\ IsFiniteSet(Sessions \ {s})
      BY <2>3, FiniteAssumption, FS_RemoveElement DEF Inserting
    <3>2. Cardinality(Sessions \ {s}) = Cardinality(Sessions) - 1
      BY FiniteAssumption, FS_RemoveElement
    <3>3. Cardinality(Inserting(h)) <= Cardinality(Sessions) - 1
      BY <3>1, <3>2, FS_Subset
    <3>4. \A v \in Inserting(h) : Asked[v] \in Nat /\ Asked[v] <= Most
      <4>1. \A v \in Inserting(h) : req[v].amount \in Amounts
        BY DEF Inserting, OverrunInv, RecordSteps
      <4>2. \A v \in Inserting(h) : Asked[v] = req[v].amount
        BY DEF Inserting, Asked
      <4> QED  BY <1>7, <4>1, <4>2, MostFacts
    <3>5. others <= Cardinality(Inserting(h)) * Most
      BY <1>7, <3>4, MostFacts, SumAtMost
    <3>6. Cardinality(Inserting(h)) \in Nat /\ Cardinality(Sessions) \in Nat
      BY <1>7, FiniteAssumption, FS_CardinalityType
    <3>7. Cardinality(Inserting(h)) * Most <= (Cardinality(Sessions) - 1) * Most
      <4>1. \A i, m \in Nat : \A j \in Nat : i <= j => i * m <= j * m
        OBVIOUS
      <4> HIDE DEF Most
      <4> QED  BY <3>3, <3>6, <4>1, MostFacts
    <3>8. Cardinality(Inserting(h)) * Most \in Nat
      <4>1. \A i, m \in Nat : i * m \in Nat
        OBVIOUS
      <4> QED  BY <3>6, <4>1, MostFacts
    <3> HIDE DEF others
    <3>9. others \in Nat
      BY <1>7 DEF others
    <3> QED  BY <3>5, <3>7, <3>8, <3>9, MostFacts DEF Slack
  <2>5. SumFunctionOnSet(Asked, Inserting(h) \cup {s}) = req[s].amount + others
    <3>1. Asked[s] = req[s].amount /\ req[s].amount \in Nat
      BY DEF Asked, IInv, TypeOK, Request
    <3> QED  BY <1>7, <2>3, <3>1, SumAdd
  <2>6. Prepared(h)' = held + (req[s].amount + others)
    BY <1>5, <1>6, <1>7, <2>5
  <2>7. held \in Nat /\ others \in Nat /\ req[s].amount \in Nat /\ b.total \in Nat
    BY <1>7, TotalType DEF IInv, TypeOK, Request
  <2> HIDE DEF held, others
  <2>8. Prepared(h)' <= b.total + Slack
    BY <2>2, <2>4, <2>6, <2>7, MostFacts
  <2> QED  BY <1>2, <2>8 DEF Fits, Slack, Most
<1>10. \A g \in Grants : budgets'[g] # {} => Topped(g)'
  BY <1>2 DEF OverrunInv, Topped
<1>11. budgets[h] # {} /\ req[s].amount \in Amounts
  BY <1>1, <1>4 DEF OverrunInv, RecordSteps
<1>12. /\ \A v \in Sessions : pc'[v] \in RecordSteps =>
            req'[v].amount \in Amounts /\ budgets'[req'[v].grant] # {}
       /\ \A v \in Sessions : pc'[v] = "recordCeiling" =>
            \E b \in budgets'[req'[v].grant] : seen'[v].ceiling = b.total
  BY <1>1, <1>2, <1>3, <1>4, <1>11, SessionsStill
<1>13. \A g \in Grants : Fits(g)' \/ Prepared(g)' <= Prepared(g)
  BY <1>8, <1>9
<1> QED  BY <1>2, <1>5, <1>10, <1>11, <1>12, <1>13, OverrunStill

\* The insert becomes a row.
LEMMA RecordOverrun ==
  ASSUME IInv, IInv', OverrunInv, NEW s \in Sessions, CommitRecord(s)
  PROVE  OverrunInv'
<1>1. PICK d \in Disbursements : d = req[s].disbursement
  BY DEF IInv, TypeOK, Request
<1>2. PICK h \in Grants : h = req[s].grant
  BY DEF IInv, TypeOK, Request
<1>3. /\ pc[s] = "recorded" /\ End(s) /\ UNCHANGED <<budgets, current>>
      /\ disbursements[d].status = "none" /\ disbursements'[d].status = "recorded"
      /\ disbursements'[d].grant = h /\ disbursements'[d].amount = req[s].amount
      /\ \A x \in Disbursements \ {d} : disbursements'[x] = disbursements[x]
  BY <1>1, <1>2 DEF CommitRecord, IInv, TypeOK, RequestInv, RecordSteps
<1>4. /\ pc'[s] = "idle"
      /\ \A v \in Sessions \ {s} :
             pc'[v] = pc[v] /\ req'[v] = req[v] /\ seen'[v] = seen[v]
  BY <1>3 DEF End, IInv, TypeOK
<1>5. ASSUME NEW g \in Grants \ {h}
      PROVE  Held(g)' = Held(g) /\ Inserting(g)' = Inserting(g)
  <2>1. Held(g)' = Held(g)
    BY <1>3 DEF Held
  <2>2. Inserting(g)' = Inserting(g)
    BY <1>2, <1>3, <1>4 DEF Inserting
  <2> QED  BY <2>1, <2>2
<1>6. /\ Held(h)' = Held(h) \cup {d} /\ d \notin Held(h)
      /\ Inserting(h)' = Inserting(h) \ {s} /\ s \in Inserting(h)
  <2>1. Held(h)' = Held(h) \cup {d} /\ d \notin Held(h)
    BY <1>1, <1>3 DEF Held
  <2>2. Inserting(h)' = Inserting(h) \ {s} /\ s \in Inserting(h)
    BY <1>2, <1>3, <1>4 DEF Inserting
  <2> QED  BY <2>1, <2>2
<1>7. \A g \in Grants :
        /\ IsFiniteSet(Held(g)) /\ IsFiniteSet(Inserting(g))
        /\ \A v \in Inserting(g) : Asked[v] \in Nat
        /\ SumFunctionOnSet(Costs, Held(g)) \in Nat
        /\ SumFunctionOnSet(Asked, Inserting(g)) \in Nat
        /\ Prepared(g)
               = SumFunctionOnSet(Costs, Held(g))
                   + SumFunctionOnSet(Asked, Inserting(g))
        /\ \A x \in Held(g)' : Costs'[x] \in Nat
        /\ SumFunctionOnSet(Asked', Inserting(g)') \in Nat
        /\ Prepared(g)'
               = SumFunctionOnSet(Costs', Held(g)')
                   + SumFunctionOnSet(Asked', Inserting(g)')
  BY SumsFinite, SumsNext DEF Countable, IInv
<1>8. \A g \in Grants :
          SumFunctionOnSet(Costs', Held(g)) = SumFunctionOnSet(Costs, Held(g))
  <2>1. \A x \in Disbursements : disbursements[x].status # "none" =>
          disbursements'[x].amount = disbursements[x].amount
    BY <1>3
  <2> QED  BY <2>1, CostsKept DEF IInv
<1>9. \A g \in Grants :
        SumFunctionOnSet(Asked', Inserting(g)') = SumFunctionOnSet(Asked, Inserting(g)')
  <2>1. \A g \in Grants : Inserting(g)' \subseteq Inserting(g)
    BY <1>5, <1>6
  <2>2. \A g \in Grants : \A v \in Inserting(g)' : req'[v] = req[v]
    BY <1>4 DEF Inserting
  <2> QED  BY <2>1, <2>2, AskedKept DEF IInv
<1>10. ASSUME NEW g \in Grants \ {h} PROVE Prepared(g)' <= Prepared(g)
  BY <1>5, <1>7, <1>8, <1>9
<1>11. Prepared(h)' <= Prepared(h)
  <2>1. SumFunctionOnSet(Costs', Held(h)')
            = req[s].amount + SumFunctionOnSet(Costs, Held(h))
    <3>1. Costs'[d] = req[s].amount
      BY <1>3 DEF Costs
    <3>2. SumFunctionOnSet(Costs', Held(h) \cup {d})
              = Costs'[d] + SumFunctionOnSet(Costs', Held(h))
      BY <1>6, <1>7, SumAdd
    <3> QED  BY <1>6, <1>8, <3>1, <3>2
  <2>2. SumFunctionOnSet(Asked, Inserting(h))
          = req[s].amount + SumFunctionOnSet(Asked', Inserting(h)')
    <3>1. Asked[s] = req[s].amount
      BY DEF Asked
    <3>2. SumFunctionOnSet(Asked, Inserting(h))
              = Asked[s] + SumFunctionOnSet(Asked, Inserting(h) \ {s})
      BY <1>6, <1>7, SumRemove
    <3> QED  BY <1>6, <1>9, <3>1, <3>2
  <2>3. req[s].amount \in Nat
    BY DEF IInv, TypeOK, Request
  <2> QED  BY <1>7, <2>1, <2>2, <2>3
<1>12. budgets[h] # {}
  BY <1>2, <1>3 DEF OverrunInv, RecordSteps
<1>13. \A g \in Grants : budgets'[g] = {} =>
         Held(g)' \subseteq Held(g) /\ Inserting(g)' \subseteq Inserting(g)
  BY <1>3, <1>5, <1>12
<1>14. \A g \in Grants : budgets'[g] # {} => Topped(g)'
  BY <1>3 DEF OverrunInv, Topped
<1>15. /\ \A v \in Sessions : pc'[v] \in RecordSteps =>
            req'[v].amount \in Amounts /\ budgets'[req'[v].grant] # {}
       /\ \A v \in Sessions : pc'[v] = "recordCeiling" =>
            \E b \in budgets'[req'[v].grant] : seen'[v].ceiling = b.total
  <2>1. pc'[s] \notin RecordSteps /\ pc'[s] # "recordCeiling"
    BY <1>4 DEF RecordSteps
  <2> QED  BY <1>3, <1>4, <2>1, SessionsStill
<1> QED  BY <1>3, <1>10, <1>11, <1>13, <1>14, <1>15, OverrunStill

\* A row that is there keeps its grant and its amount.
LEMMA RowsOverrun ==
  ASSUME IInv, IInv', OverrunInv, NEW s \in Sessions,
         CommitSubmit(s) \/ CommitApprove(s)
  PROVE  OverrunInv'
<1>1. PICK d \in Disbursements : d = req[s].disbursement
  BY DEF IInv, TypeOK, Request
<1>2. pc[s] \in {"submitted", "approved"} /\ End(s) /\ UNCHANGED <<budgets, current>>
  BY DEF CommitSubmit, CommitApprove
<1>3. /\ disbursements[d].status # "none" /\ disbursements'[d].status # "none"
      /\ disbursements'[d].amount = disbursements[d].amount
      /\ disbursements'[d].grant = disbursements[d].grant
      /\ \A x \in Disbursements \ {d} : disbursements'[x] = disbursements[x]
  <2>1. disbursements[d].status # "none"
    BY <1>1, <1>2 DEF IInv, RequestInv, ApproveSteps
  <2>2. disbursements[d] \in Row
    BY DEF IInv, TypeOK
  <2>3. PICK u : u = req[s].user
    OBVIOUS
  <2>4. \/ disbursements' = [disbursements EXCEPT ![d].status = "pending_approval"]
        \/ disbursements'
               = [disbursements EXCEPT ![d].status = "approved", ![d].approved_by = u]
    BY <1>1, <2>3 DEF CommitSubmit, CommitApprove
  <2> QED  BY <2>1, <2>2, <2>4 DEF IInv, TypeOK, Row
<1>4. /\ pc'[s] = "idle"
      /\ \A v \in Sessions \ {s} :
             pc'[v] = pc[v] /\ req'[v] = req[v] /\ seen'[v] = seen[v]
  BY <1>2 DEF End, IInv, TypeOK
<1>5. \A g \in Grants :
        Prepared(g)' <= Prepared(g) /\ Held(g)' = Held(g)
            /\ Inserting(g)' \subseteq Inserting(g)
  <2>1. \A v \in Sessions : pc'[v] = "recorded"
            => pc[v] = "recorded" /\ req'[v] = req[v]
    BY <1>4
  <2> QED  BY <1>3, <2>1, PreparedFalls DEF IInv
<1>6. \A g \in Grants : budgets'[g] # {} => Topped(g)'
  BY <1>2 DEF OverrunInv, Topped
<1>7. /\ \A v \in Sessions : pc'[v] \in RecordSteps =>
           req'[v].amount \in Amounts /\ budgets'[req'[v].grant] # {}
      /\ \A v \in Sessions : pc'[v] = "recordCeiling" =>
           \E b \in budgets'[req'[v].grant] : seen'[v].ceiling = b.total
  <2>1. pc'[s] \notin RecordSteps /\ pc'[s] # "recordCeiling"
    BY <1>4 DEF RecordSteps
  <2> QED  BY <1>2, <1>4, <2>1, SessionsStill
<1> QED  BY <1>2, <1>5, <1>6, <1>7, OverrunStill

\* A budget is added, and the largest is the larger one.
LEMMA BudgetOverrun ==
  ASSUME IInv, IInv', OverrunInv, NEW h \in Grants, NEW n, NEW s,
         UNCHANGED disbursements,
         budgets' = [budgets EXCEPT ![h] = budgets[h] \cup {n}],
         \/ UNCHANGED <<pc, req, seen>>
         \/ s \in Sessions /\ pc'[s] = "idle"
            /\ \A v \in Sessions \ {s} :
                   pc'[v] = pc[v] /\ req'[v] = req[v] /\ seen'[v] = seen[v]
  PROVE  OverrunInv'
<1>1. /\ budgets'[h] = budgets[h] \cup {n}
      /\ \A g \in Grants \ {h} : budgets'[g] = budgets[g]
  BY DEF IInv, TypeOK
<1>2. \A g \in Grants :
        Prepared(g)' <= Prepared(g) /\ Held(g)' = Held(g)
            /\ Inserting(g)' \subseteq Inserting(g)
  <2>1. \A v \in Sessions : pc'[v] = "recorded"
            => pc[v] = "recorded" /\ req'[v] = req[v]
    OBVIOUS
  <2> QED  BY <2>1, PreparedFalls DEF IInv
<1>3. \A b \in budgets'[h] : b.total \in Nat
  <2>1. \A b \in Budget : b.total \in Nat
    BY AmountsAssumption DEF Budget
  <2> QED  BY <2>1 DEF IInv, TypeOK
<1>4. Topped(h)'
  <2>1. CASE budgets[h] = {}
    BY <1>1, <1>3, <2>1 DEF Topped
  <2>2. CASE budgets[h] # {}
    <3>1. PICK b \in budgets[h] : \A c \in budgets[h] : c.total <= b.total
      BY <2>2 DEF OverrunInv, Topped
    <3>2. CASE n.total <= b.total
      BY <1>1, <3>1, <3>2 DEF Topped
    <3>3. CASE ~ (n.total <= b.total)
      BY <1>1, <1>3, <3>1, <3>3 DEF Topped
    <3> QED  BY <3>2, <3>3
  <2> QED  BY <2>1, <2>2
<1>5. \A g \in Grants : budgets'[g] # {} => Topped(g)'
  BY <1>1, <1>4 DEF OverrunInv, Topped
<1>6. /\ \A v \in Sessions : pc'[v] \in RecordSteps =>
           req'[v].amount \in Amounts /\ budgets'[req'[v].grant] # {}
      /\ \A v \in Sessions : pc'[v] = "recordCeiling" =>
           \E b \in budgets'[req'[v].grant] : seen'[v].ceiling = b.total
  <2>1. \A v \in Sessions : req[v].grant \in Grants
    BY DEF IInv, TypeOK, Request
  <2>2. \A v \in Sessions : \/ pc'[v] = "idle"
                            \/ pc'[v] = pc[v] /\ req'[v] = req[v] /\ seen'[v] = seen[v]
    OBVIOUS
  <2>3. \A g \in Grants : budgets[g] \subseteq budgets'[g]
    BY <1>1
  <2> QED  BY <2>1, <2>2, <2>3 DEF OverrunInv, RecordSteps
<1> QED  BY <1>1, <1>2, <1>5, <1>6, OverrunStill

\* At first there is neither a budget nor a request.
LEMMA InitOverrun == Init => OverrunInv
<1> SUFFICES ASSUME Init PROVE OverrunInv
  OBVIOUS
<1>1. \A g \in Grants : budgets[g] = {} /\ Held(g) = {} /\ Inserting(g) = {}
  BY DEF Init, Held, Inserting, NoRow
<1>2. \A s \in Sessions : pc[s] = "idle"
  BY DEF Init
<1> QED  BY <1>1, <1>2 DEF OverrunInv, Unfunded, RecordSteps

\* Requests begin without having inserted anything.
LEMMA BeginsOverrun ==
  ASSUME IInv, IInv', OverrunInv, NEW s \in Sessions, Begins(s)
  PROVE  OverrunInv'
<1>1. CASE \E g \in Grants, d \in Disbursements, u \in Users, a \in Amounts :
             BeginRecord(s, g, d, u, a)
  <2>1. PICK g \in Grants, d \in Disbursements, u \in Users, a \in Amounts :
               BeginRecord(s, g, d, u, a)
    BY <1>1
  <2>2. /\ pc' = [pc EXCEPT ![s] = "record"] /\ UNCHANGED <<tables, seen>>
        /\ req' = [req EXCEPT ![s] = [grant |-> g, disbursement |-> d,
                                      user |-> u, amount |-> a]]
        /\ budgets[g] # {}
    BY <2>1 DEF BeginRecord, BeginRequest, Step
  <2>3. /\ pc'[s] = "record" /\ req'[s].grant = g /\ req'[s].amount = a
        /\ \A v \in Sessions \ {s} :
             pc'[v] = pc[v] /\ req'[v] = req[v] /\ seen'[v] = seen[v]
    BY <2>2 DEF IInv, TypeOK
  <2> QED  BY <2>2, <2>3, MovesOverrun
<1>2. CASE \/ \E d \in Disbursements, u \in Users :
                BeginSubmit(s, d, u) \/ BeginApprove(s, d, u)
           \/ \E g \in Grants, u \in Users, t \in Totals : BeginRevise(s, g, u, t)
  <2>1. PICK to \in {"submit", "approve", "revise"} :
          /\ pc' = [pc EXCEPT ![s] = to] /\ UNCHANGED <<tables, seen>>
          /\ \E r : req' = [req EXCEPT ![s] = r]
    BY <1>2 DEF BeginSubmit, BeginApprove, BeginRevise, BeginRequest, Step
  <2>2. /\ pc'[s] = to
        /\ \A v \in Sessions \ {s} :
             pc'[v] = pc[v] /\ req'[v] = req[v] /\ seen'[v] = seen[v]
    BY <2>1 DEF IInv, TypeOK
  <2>3. pc'[s] \notin RecordSteps
    BY <2>2 DEF RecordSteps
  <2>4. pc'[s] # "recorded" /\ pc'[s] # "recordCeiling"
    BY <2>3 DEF RecordSteps
  <2>5. UNCHANGED tables
    BY <2>1
  <2> QED  BY <2>2, <2>3, <2>4, <2>5, MovesOverrun
<1> QED  BY <1>1, <1>2 DEF Begins

\* The ceiling that is read is the total of a budget.
LEMMA ReadOverrun ==
  ASSUME IInv, IInv', OverrunInv, NEW s \in Sessions, ReadCeiling(s)
  PROVE  OverrunInv'
<1>1. PICK h \in Grants : h = req[s].grant
  BY DEF IInv, TypeOK, Request
<1>2. PICK c \in Ceilings(h) : seen' = [seen EXCEPT ![s].ceiling = c]
  BY <1>1 DEF ReadCeiling
<1>3. PICK b \in budgets[h] : c = b.total
  BY DEF Ceilings
<1>4. /\ UNCHANGED <<tables, req>>
      /\ \/ pc[s] = "record" /\ pc' = [pc EXCEPT ![s] = "recordCeiling"]
         \/ pc[s] = "approveRead" /\ pc' = [pc EXCEPT ![s] = "approveCeiling"]
  BY DEF ReadCeiling, Step
<1>5. /\ pc'[s] \in {"recordCeiling", "approveCeiling"} /\ seen'[s].ceiling = b.total
      /\ pc'[s] = "recordCeiling" => pc[s] \in RecordSteps
      /\ \A v \in Sessions \ {s} :
           pc'[v] = pc[v] /\ req'[v] = req[v] /\ seen'[v] = seen[v]
  BY <1>2, <1>3, <1>4 DEF IInv, TypeOK, RecordSteps
<1>6. pc'[s] # "recorded" /\ (pc'[s] \in RecordSteps => pc'[s] = "recordCeiling")
  BY <1>5 DEF RecordSteps
<1>7. req'[s].grant = h /\ req'[s].amount = req[s].amount
  BY <1>1, <1>4
<1>8. pc'[s] \in RecordSteps
          => req'[s].amount \in Amounts /\ budgets[req'[s].grant] # {}
  BY <1>1, <1>5, <1>6, <1>7 DEF OverrunInv
<1>9. pc'[s] = "recordCeiling" =>
        \E x \in budgets[req'[s].grant] : seen'[s].ceiling = x.total
  BY <1>5, <1>7
<1>10. UNCHANGED tables
  BY <1>4
<1> QED  BY <1>5, <1>6, <1>8, <1>9, <1>10, MovesOverrun

\* Approvals, submissions and revisions underway insert no disbursement.
LEMMA OthersOverrun ==
  ASSUME IInv, IInv', OverrunInv, NEW s \in Sessions,
         \/ ReadForApproval(s) \/ CheckApproval(s) \/ SubmitUpdate(s)
         \/ ApproveUpdate(s) \/ FindCurrent(s) \/ UnsetCurrent(s)
         \/ InsertBudget(s) \/ Rollback(s)
  PROVE  OverrunInv'
<1>1. /\ UNCHANGED tables
      /\ pc'[s] \in {"approveRead", "approveChecked", "submitted", "approved",
                     "unsetting", "unset", "revised", "idle"}
      /\ \A v \in Sessions \ {s} :
           pc'[v] = pc[v] /\ req'[v] = req[v] /\ seen'[v] = seen[v]
  <2>1. CASE ReadForApproval(s) \/ CheckApproval(s)
    BY <2>1 DEF ReadForApproval, CheckApproval, Step, IInv, TypeOK
  <2>2. CASE SubmitUpdate(s) \/ ApproveUpdate(s)
    BY <2>2 DEF SubmitUpdate, ApproveUpdate, Step, IInv, TypeOK
  <2>3. CASE FindCurrent(s)
    BY <2>3 DEF FindCurrent, Step, IInv, TypeOK
  <2>4. CASE UnsetCurrent(s) \/ InsertBudget(s)
    <3>1. pc' = [pc EXCEPT ![s] = "unset"] \/ pc' = [pc EXCEPT ![s] = "revised"]
      BY <2>4 DEF UnsetCurrent, InsertBudget, Step
    <3>2. UNCHANGED <<tables, req>>
      BY <2>4 DEF UnsetCurrent, InsertBudget
    <3>3. seen' = seen \/ \E n : seen' = [seen EXCEPT ![s].version = n]
      BY <2>4 DEF UnsetCurrent, InsertBudget
    <3> QED  BY <3>1, <3>2, <3>3 DEF IInv, TypeOK
  <2>5. CASE Rollback(s)
    BY <2>5, EndOthers DEF Rollback
  <2> QED  BY <2>1, <2>2, <2>3, <2>4, <2>5
<1>2. pc'[s] \notin RecordSteps /\ pc'[s] # "recorded" /\ pc'[s] # "recordCeiling"
  BY <1>1 DEF RecordSteps
<1> QED  BY <1>1, <1>2, MovesOverrun

\* A revision adds one version of the budget.
LEMMA ReviseOverrun ==
  ASSUME IInv, IInv', OverrunInv, NEW s \in Sessions, CommitRevise(s)
  PROVE  OverrunInv'
<1>1. PICK h \in Grants : h = req[s].grant
  BY DEF IInv, TypeOK, Request
<1>2. PICK n : budgets' = [budgets EXCEPT ![h] = budgets[h] \cup {n}]
  BY <1>1 DEF CommitRevise
<1>3. /\ pc'[s] = "idle" /\ UNCHANGED disbursements
      /\ \A v \in Sessions \ {s} :
           pc'[v] = pc[v] /\ req'[v] = req[v] /\ seen'[v] = seen[v]
  BY EndOthers DEF CommitRevise
<1> QED  BY <1>2, <1>3, BudgetOverrun

\* A grant comes with its first budget.
LEMMA CreateOverrun ==
  ASSUME IInv, IInv', OverrunInv, NEW g \in Grants, NEW t \in Totals, CreateGrant(g, t)
  PROVE  OverrunInv'
<1>1. PICK n : n = [version |-> 1, total |-> t]
  OBVIOUS
<1>2. budgets' = [budgets EXCEPT ![g] = budgets[g] \cup {n}]
  <2>1. budgets[g] = {} /\ budgets' = [budgets EXCEPT ![g] = {n}]
    BY <1>1 DEF CreateGrant
  <2>2. budgets[g] \cup {n} = {n}
    BY <2>1
  <2> QED  BY <2>1, <2>2
<1>3. UNCHANGED disbursements /\ UNCHANGED <<pc, req, seen>>
  BY DEF CreateGrant
<1> QED  BY <1>2, <1>3, BudgetOverrun

\* A step that changes nothing.
LEMMA StutterOverrun == OverrunInv /\ UNCHANGED vars => OverrunInv'
<1> SUFFICES ASSUME OverrunInv, UNCHANGED vars PROVE OverrunInv'
  OBVIOUS
<1>1. UNCHANGED <<budgets, disbursements, pc, req, seen>>
  BY DEF vars, tables
<1>2. \A g : Prepared(g)' = Prepared(g)
  BY <1>1 DEF Prepared
<1>3. \A g : Held(g)' = Held(g) /\ Inserting(g)' = Inserting(g)
  BY <1>1 DEF Held, Inserting
<1> QED  BY <1>1, <1>2, <1>3 DEF OverrunInv, Unfunded, Fits, Topped

\* Every step keeps the bound.
LEMMA OverrunStep ==
  ASSUME IInv, OverrunInv, [Next]_vars
  PROVE  OverrunInv'
<1>0. IInv'
  BY NextIInv
<1>1. CASE \E g \in Grants, t \in Totals : CreateGrant(g, t)
  BY <1>0, <1>1, CreateOverrun
<1>2. ASSUME NEW s \in Sessions, Begins(s) PROVE OverrunInv'
  BY <1>0, <1>2, BeginsOverrun
<1>3. ASSUME NEW s \in Sessions, Record(s) PROVE OverrunInv'
  BY <1>0, <1>3, ReadOverrun, InsertOverrun, RecordOverrun DEF Record
<1>4. ASSUME NEW s \in Sessions, Submit(s) PROVE OverrunInv'
  BY <1>0, <1>4, OthersOverrun, RowsOverrun DEF Submit
<1>5. ASSUME NEW s \in Sessions, Approve(s) PROVE OverrunInv'
  BY <1>0, <1>5, OthersOverrun, RowsOverrun DEF Approve
<1>6. ASSUME NEW s \in Sessions, Revise(s) PROVE OverrunInv'
  BY <1>0, <1>6, OthersOverrun, ReviseOverrun DEF Revise
<1>7. CASE \E s \in Sessions : Rollback(s)
  BY <1>0, <1>7, OthersOverrun
<1>8. CASE UNCHANGED vars
  BY <1>8, StutterOverrun
<1> QED  BY <1>1, <1>2, <1>3, <1>4, <1>5, <1>6, <1>7, <1>8 DEF Next, Quiet

\* BoundedOverrun (grant-service/src/index.ts, assertWithinCeiling): requests
\* that race each other exceed the highest budget by at most the largest
\* amount for each of the others, and the overrun does not build up.
THEOREM BoundedOverrunAlways == Spec => []BoundedOverrun
<1>1. IInv /\ OverrunInv => BoundedOverrun
  <2> SUFFICES ASSUME IInv, OverrunInv, NEW g \in Grants, budgets[g] # {}
               PROVE  Prepared(g) <= Highest({b.total : b \in budgets[g]}) + Slack
    BY DEF BoundedOverrun, Slack, Most
  <2> DEFINE totals == {b.total : b \in budgets[g]}
  <2>1. PICK t \in budgets[g] : \A c \in budgets[g] : c.total <= t.total
    BY DEF OverrunInv, Topped
  <2>2. t.total \in totals /\ \A y \in totals : y <= t.total
    BY <2>1
  <2>3. Highest(totals) \in totals /\ \A y \in totals : y <= Highest(totals)
    BY <2>2 DEF Highest
  <2>4. PICK b \in budgets[g] : Prepared(g) <= b.total + Slack
    BY DEF OverrunInv, Fits
  <2>5. \A x \in budgets[g] : x.total \in Nat
    BY TotalType DEF IInv
  <2>6. b.total <= Highest(totals) /\ Highest(totals) \in Nat
    BY <2>3, <2>5
  <2>7. Prepared(g) \in Nat
    BY SumsFinite DEF Countable, IInv
  <2> HIDE DEF totals
  <2> QED  BY <2>4, <2>5, <2>6, <2>7, MostFacts DEF totals
<1> QED  BY <1>1, Invariance, InitOverrun, OverrunStep, PTL DEF Spec
=============================================================================
