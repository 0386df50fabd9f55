--------------------------- MODULE BackOfficeProofs ---------------------------
(***************************************************************************)
(* Proofs about the parts of the back office: for each the invariant that  *)
(* its steps keep, and then the property that the run of MCBackOffice      *)
(* checks, for every value of the constants. A behaviour of the back       *)
(* office is one of every part, so what holds of the parts holds of it.    *)
(***************************************************************************)
EXTENDS MCBackOffice, FiniteSetTheorems, TLAPS
-----------------------------------------------------------------------------
\* The parts, each by itself.

OnboardingSpec == Onboard!OnboardingInit /\ [][Onboard!OnboardingNext]_onboarding
LearningSpec == Learn!LearningInit /\ [][Learn!LearningNext]_learning
WorkforceSpec == Work!WorkforceInit /\ [][Work!WorkforceNext]_workforce
ExportSpec == Export!ExportInit /\ [][Export!ExportNext]_exports
PayslipSpec == Pay!PayslipInit /\ [][Pay!PayslipNext]_slip
ScoreSpec == Scores!ScoreInit /\ [][Scores!ScoreNext]_scores
ExpensesSpec == Expense!ExpensesInit /\ [][Expense!ExpensesNext]_expenses
ErasureSpec == Erase!ErasureInit /\ [][Erase!ErasureNext]_erasures
InsightsSpec == Insights!AiInit /\ [][Insights!AiNext]_insights
QueueSpec == Reports!QueueInit /\ [][Reports!QueueNext]_reports
NotificationsSpec == Notices!NotificationsInit /\ [][Notices!NotificationsNext]_notices
FilesSpec == Stores!FilesInit /\ [][Stores!FilesNext]_stores
GatewaySpec == Gate!GatewayInit /\ [][Gate!GatewayNext]_gateway
TenancySpec == Tenants!TenancyInit /\ [][Tenants!TenancyNext]_tenants
SeedingSpec == Setup!SeedingInit /\ [][Setup!SeedingNext]_setup

\* A behaviour of the back office is one of every part.
LEMMA Parts ==
  Spec => /\ LeaveSpec /\ OnboardingSpec /\ LearningSpec /\ WorkforceSpec
          /\ ExportSpec /\ PayslipSpec /\ ScoreSpec /\ ExpensesSpec /\ ErasureSpec
          /\ InsightsSpec /\ QueueSpec /\ NotificationsSpec /\ FilesSpec
          /\ GatewaySpec /\ TenancySpec /\ SeedingSpec
<1>1. [Next]_vars => /\ [LeaveNext]_leaveVars /\ [Onboard!OnboardingNext]_onboarding
                     /\ [Learn!LearningNext]_learning
                     /\ [Work!WorkforceNext]_workforce
                     /\ [Export!ExportNext]_exports /\ [Pay!PayslipNext]_slip
                     /\ [Scores!ScoreNext]_scores
  BY DEF Next, vars, people, office
<1>2. [Next]_vars => /\ [Expense!ExpensesNext]_expenses
                     /\ [Erase!ErasureNext]_erasures
                     /\ [Insights!AiNext]_insights /\ [Reports!QueueNext]_reports
                     /\ [Notices!NotificationsNext]_notices
                     /\ [Stores!FilesNext]_stores /\ [Gate!GatewayNext]_gateway
                     /\ [Tenants!TenancyNext]_tenants /\ [Setup!SeedingNext]_setup
  BY DEF Next, vars, people, office
<1>3. Init => /\ LeaveInit /\ Onboard!OnboardingInit /\ Learn!LearningInit
              /\ Work!WorkforceInit /\ Export!ExportInit /\ Pay!PayslipInit
              /\ Scores!ScoreInit /\ Expense!ExpensesInit /\ Erase!ErasureInit
              /\ Insights!AiInit /\ Reports!QueueInit /\ Notices!NotificationsInit
              /\ Stores!FilesInit /\ Gate!GatewayInit /\ Tenants!TenancyInit
              /\ Setup!SeedingInit
  BY DEF Init
<1> QED
  BY <1>1, <1>2, <1>3, PTL DEF Spec, LeaveSpec, OnboardingSpec, LearningSpec, WorkforceSpec,
         ExportSpec, PayslipSpec, ScoreSpec, ExpensesSpec, ErasureSpec, InsightsSpec, QueueSpec,
         NotificationsSpec, FilesSpec, GatewaySpec, TenancySpec, SeedingSpec
-----------------------------------------------------------------------------
\* Counting.

\* A set of a finite kind with one more member counts one more.
LEMMA CountOneMore ==
  ASSUME NEW T, IsFiniteSet(T), NEW S, S \subseteq T, NEW x, x \notin S,
         NEW U, U = S \cup {x}
  PROVE  Cardinality(U) = Cardinality(S) + 1
<1>1. IsFiniteSet(S)  BY FS_Subset
<1> QED  BY <1>1, FS_AddElement

\* A part of a finite set counts no more, and one without x less.
LEMMA PartCounts ==
  ASSUME NEW T, IsFiniteSet(T), NEW S, S \subseteq T
  PROVE  /\ IsFiniteSet(S) /\ Cardinality(S) \in Nat /\ Cardinality(T) \in Nat
         /\ Cardinality(S) <= Cardinality(T)
         /\ \A x \in T \ S : Cardinality(S) + 1 <= Cardinality(T)
<1>1. /\ IsFiniteSet(S) /\ Cardinality(S) \in Nat /\ Cardinality(T) \in Nat
      /\ Cardinality(S) <= Cardinality(T)
  BY FS_Subset, FS_CardinalityType
<1>2. ASSUME NEW x \in T \ S PROVE Cardinality(S) + 1 <= Cardinality(T)
  <2>1. Cardinality(S \cup {x}) = Cardinality(S) + 1  BY <1>1, FS_AddElement
  <2>2. S \cup {x} \subseteq T  OBVIOUS
  <2>3. Cardinality(S \cup {x}) <= Cardinality(T)  BY <2>2, FS_Subset
  <2> QED  BY <2>1, <2>3
<1> QED  BY <1>1, <1>2

\* Products grow with what is multiplied.
LEMMA MoreBehind ==
  ASSUME NEW w \in Nat, NEW n \in Nat, NEW m \in Nat
  PROVE  (m >= n => w * m >= w * n) /\ (m >= n + 1 => w * m >= w * n + w)
<1>1. ASSUME NEW k \in Nat PROVE w * (n + k) = w * n + w * k /\ w * k \in Nat  OBVIOUS
<1>2. ASSUME m >= n PROVE w * m >= w * n
  <2>1. PICK k \in Nat : m = n + k
    <3>1. m - n \in Nat /\ m = n + (m - n)  BY <1>2
    <3> QED  BY <3>1
  <2> QED  BY <1>1, <2>1
<1>3. ASSUME m >= n + 1 PROVE w * m >= w * n + w
  <2>1. PICK k \in Nat : m = (n + 1) + k
    <3>1. m - (n + 1) \in Nat /\ m = (n + 1) + (m - (n + 1))  BY <1>3
    <3> QED  BY <3>1
  <2>2. w * ((n + 1) + k) = w * (n + 1) + w * k /\ w * (n + 1) = w * n + w /\ w * k \in Nat
    OBVIOUS
  <2> QED  BY <2>1, <2>2
<1> QED  BY <1>2, <1>3
-----------------------------------------------------------------------------
\* Leave. A sum is written when a transaction commits, so the invariant says
\* what each transaction may rely on until then: the leave request it has
\* updated is still pending and nobody else's, and the month it accrues has no
\* run, and no other transaction that accrues it.

\* What the request s relies on while it is under way.
LeaveUnderway(s) ==
  /\ job[s] \in {"approving", "rejecting"} =>
       /\ subject[s] \in Requests
       /\ leave[subject[s]] = "pending"
       /\ owner[subject[s]] \in Employees
  /\ job[s] = "approving" => todo[s] \cup booked[s] = {owner[subject[s]]}
  /\ job[s] \in {"selected", "accruing"} => subject[s] \in Months
  /\ job[s] = "accruing" => subject[s] \notin runs
  /\ job[s] \in {"idle", "rejecting", "selected"} =>
       todo[s] = {} /\ booked[s] = {}

\* Two requests under way are about different rows.
Apart(s, t) ==
  /\ job[s] \in {"approving", "rejecting"} /\ job[t] \in {"approving", "rejecting"}
       => subject[s] # subject[t]
  /\ job[s] = "accruing" /\ job[t] = "accruing" => subject[s] # subject[t]

Owned == \A r \in Requests : leave[r] # "none" => owner[r] \in Employees

LeaveInv ==
  /\ LeaveTypeOK
  /\ Owned
  /\ lines \subseteq Employees \X runs
  /\ \A s \in Sessions : LeaveUnderway(s)
  /\ \A s, t \in Sessions : s # t => Apart(s, t)
  /\ LedgerAgrees
-----------------------------------------------------------------------------
\* There is no leave to begin with, and the sums are nothing.
LEMMA LeaveInitInv == LeaveInit => LeaveInv
<1> SUFFICES ASSUME LeaveInit PROVE LeaveInv  OBVIOUS
<1>1. LeaveTypeOK  BY DEF LeaveInit, LeaveTypeOK
<1>2. LedgerAgrees
  <2> SUFFICES ASSUME NEW e \in Employees
               PROVE  /\ taken[e] = Cardinality(Approved(e))
                      /\ accrued[e] = Cardinality(MonthsOf(e))
    BY DEF LedgerAgrees
  <2>1. Approved(e) = {} /\ MonthsOf(e) = {}  BY DEF LeaveInit, Approved, MonthsOf
  <2> QED  BY <2>1, FS_EmptySet DEF LeaveInit
<1> QED  BY <1>1, <1>2 DEF LeaveInit, LeaveInv, Owned, LeaveUnderway, Apart
-----------------------------------------------------------------------------
\* A step that leaves the balances and what explains them alone.
LEMMA LedgerKept ==
  ASSUME LeaveTypeOK, LedgerAgrees, UNCHANGED <<lines, accrued, taken>>,
         \A r \in Requests : leave'[r] = "approved" <=> leave[r] = "approved",
         \A r \in Requests : leave[r] = "approved" => owner'[r] = owner[r]
  PROVE  LedgerAgrees'
<1>1. ASSUME NEW e \in Employees
      PROVE  Approved(e)' = Approved(e) /\ MonthsOf(e)' = MonthsOf(e)
  BY DEF Approved, MonthsOf
<1> QED  BY <1>1 DEF LedgerAgrees

\* POST hr/leave-requests
LEMMA LeaveRequestInv ==
  ASSUME LeaveInv, NEW r \in Requests, NEW e \in Employees, RequestLeave(r, e)
  PROVE  LeaveInv'
<1> USE DEF LeaveInv
<1>1. /\ leave' = [leave EXCEPT ![r] = "pending"]
      /\ owner' = [owner EXCEPT ![r] = e]
      /\ leave[r] = "none"
      /\ UNCHANGED <<runs, lines, accrued, taken, job, subject, todo, booked>>
  BY DEF RequestLeave, sessions
<1>2. LeaveTypeOK'  BY <1>1 DEF LeaveTypeOK
<1>3. Owned'  BY <1>1 DEF Owned, LeaveTypeOK
<1>4. ASSUME NEW s \in Sessions PROVE LeaveUnderway(s)'  BY <1>1 DEF LeaveUnderway, LeaveTypeOK
<1>5. \A s, t \in Sessions : s # t => Apart(s, t)'  BY <1>1 DEF Apart
<1>6. LedgerAgrees'  BY <1>1, LedgerKept DEF LeaveTypeOK
<1> QED  BY <1>1, <1>2, <1>3, <1>4, <1>5, <1>6
-----------------------------------------------------------------------------
\* A request that starts, or goes on to its next statement.
LEMMA LeaveStartInv ==
  ASSUME LeaveInv, NEW s \in Sessions, booked[s] = {},
         NEW as, as \in {"approving", "rejecting", "selected", "accruing"},
         NEW row, row \in Requests \cup Months,
         NEW employees, employees \in SUBSET Employees,
         Start(s, as, row, employees),
         as \in {"approving", "rejecting"} =>
           /\ row \in Requests /\ leave[row] = "pending"
           /\ ~ RowLocked(row),
         as = "approving" => employees = {owner[row]},
         as \in {"selected", "accruing"} => row \in Months,
         as = "accruing" =>
           /\ row \notin runs
           /\ \A t \in Sessions \ {s} : job[t] = "accruing" => subject[t] # row,
         as \in {"rejecting", "selected"} => employees = {}
  PROVE  LeaveInv'
<1> USE DEF LeaveInv
<1>1. /\ job' = [job EXCEPT ![s] = as]
      /\ subject' = [subject EXCEPT ![s] = row]
      /\ todo' = [todo EXCEPT ![s] = employees]
      /\ UNCHANGED <<leave, owner, runs, lines, accrued, taken, booked>>
  BY DEF Start, tables
<1>2. LeaveTypeOK'  BY <1>1 DEF LeaveTypeOK
<1>3. Owned' /\ lines' \subseteq Employees \X runs'  BY <1>1 DEF Owned
<1>4. ASSUME NEW t \in Sessions PROVE LeaveUnderway(t)'
  <2>1. CASE t = s  BY <1>1, <2>1 DEF LeaveUnderway, Owned, LeaveTypeOK
  <2>2. CASE t # s  BY <1>1, <2>2 DEF LeaveUnderway, LeaveTypeOK
  <2> QED  BY <2>1, <2>2
<1>5. ASSUME NEW t \in Sessions, NEW u \in Sessions, t # u PROVE Apart(t, u)'
  BY <1>1, <1>5 DEF Apart, RowLocked, LeaveTypeOK
<1>6. LedgerAgrees'  BY <1>1, LedgerKept
<1> QED  BY <1>1, <1>2, <1>3, <1>4, <1>5, <1>6

\* What a request that ends promises: nothing.
LEMMA LeaveEndInv ==
  ASSUME LeaveInv, NEW s \in Sessions, End(s), LedgerAgrees',
         UNCHANGED owner,
         leave' \in [Requests -> {"none", "pending", "approved", "rejected"}],
         runs' \subseteq Months, lines' \subseteq Employees \X runs',
         accrued' \in [Employees -> Nat], taken' \in [Employees -> Nat],
         \A r \in Requests : leave'[r] # "none" => leave[r] # "none",
         \A r \in Requests : leave'[r] # leave[r] =>
           job[s] \in {"approving", "rejecting"} /\ r = subject[s],
         \A m \in Months : m \in runs' /\ m \notin runs =>
           job[s] = "accruing" /\ m = subject[s]
  PROVE  LeaveInv'
<1> USE DEF LeaveInv
<1>1. /\ job' = [job EXCEPT ![s] = "idle"]
      /\ subject' = [subject EXCEPT ![s] = Nothing]
      /\ todo' = [todo EXCEPT ![s] = {}]
      /\ booked' = [booked EXCEPT ![s] = {}]
  BY DEF End
<1>2. LeaveTypeOK'  BY <1>1 DEF LeaveTypeOK
<1>3. Owned'  BY DEF Owned
<1>4. ASSUME NEW t \in Sessions PROVE LeaveUnderway(t)'
  <2>1. CASE t = s  BY <1>1, <2>1 DEF LeaveUnderway, LeaveTypeOK
  <2>2. CASE t # s
    <3>1. /\ job'[t] = job[t] /\ subject'[t] = subject[t]
          /\ todo'[t] = todo[t] /\ booked'[t] = booked[t]
      BY <1>1, <2>2 DEF LeaveTypeOK
    <3>2. LeaveUnderway(t) /\ Apart(s, t)  BY <2>2
    <3>3. job[t] \in {"approving", "rejecting"} =>
            leave'[subject[t]] = leave[subject[t]]
      BY <3>2 DEF LeaveUnderway, Apart
    <3>4. job[t] = "accruing" => subject[t] \notin runs'  BY <3>2 DEF LeaveUnderway, Apart
    <3> QED  BY <3>1, <3>2, <3>3, <3>4 DEF LeaveUnderway
  <2> QED  BY <2>1, <2>2
<1>5. ASSUME NEW t \in Sessions, NEW u \in Sessions, t # u PROVE Apart(t, u)'
  BY <1>1, <1>5 DEF Apart, LeaveTypeOK
<1> QED  BY <1>2, <1>3, <1>4, <1>5

\* What is rolled back leaves the rows as they were.
LEMMA LeaveRollbackInv ==
  ASSUME LeaveInv, NEW s \in Sessions, Rollback(s)
  PROVE  LeaveInv'
<1>1. End(s) /\ UNCHANGED <<leave, owner, runs, lines, accrued, taken>>  BY DEF Rollback, tables
<1>2. LedgerAgrees'  BY <1>1, LedgerKept DEF LeaveInv
<1> QED  BY <1>1, <1>2, LeaveEndInv DEF LeaveInv, LeaveTypeOK

\* A balance is booked: the sum is written when the transaction commits.
LEMMA LeaveBookInv ==
  ASSUME LeaveInv, NEW s \in Sessions, NEW e \in Employees, Book(s, e)
  PROVE  LeaveInv'
<1> USE DEF LeaveInv
<1>1. /\ e \in todo[s]
      /\ todo' = [todo EXCEPT ![s] = @ \ {e}]
      /\ booked' = [booked EXCEPT ![s] = @ \cup {e}]
      /\ UNCHANGED <<leave, owner, runs, lines, accrued, taken, job, subject>>
  BY DEF Book, tables
<1>2. LeaveTypeOK'  BY <1>1 DEF LeaveTypeOK
<1>3. Owned' /\ lines' \subseteq Employees \X runs'  BY <1>1 DEF Owned
<1>4. ASSUME NEW t \in Sessions PROVE LeaveUnderway(t)'
  <2>1. todo'[t] \cup booked'[t] = todo[t] \cup booked[t]  BY <1>1 DEF LeaveTypeOK
  <2>2. todo[t] = {} /\ booked[t] = {} => todo'[t] = {} /\ booked'[t] = {}
    BY <1>1 DEF LeaveTypeOK
  <2> QED  BY <1>1, <2>1, <2>2 DEF LeaveUnderway
<1>5. \A t, u \in Sessions : t # u => Apart(t, u)'  BY <1>1 DEF Apart
<1>6. LedgerAgrees'  BY <1>1, LedgerKept
<1> QED  BY <1>1, <1>2, <1>3, <1>4, <1>5, <1>6
-----------------------------------------------------------------------------
\* The commits.  An accrual adds a line and a day for those it has booked.
LEMMA CommitRunInv ==
  ASSUME LeaveInv, NEW s \in Sessions, CommitRun(s)
  PROVE  LeaveInv'
<1> DEFINE m == subject[s]
<1>1. /\ job[s] = "accruing" /\ End(s)
      /\ runs' = runs \cup {m}
      /\ lines' = lines \cup (booked[s] \X {m})
      /\ accrued' = [e \in Employees |-> IF e \in booked[s] THEN accrued[e] + 1
                                                            ELSE accrued[e]]
      /\ UNCHANGED <<leave, owner, taken>>
  BY DEF CommitRun
<1>2. /\ LeaveTypeOK /\ LedgerAgrees /\ LeaveUnderway(s)
      /\ lines \subseteq Employees \X runs
      /\ m \in Months /\ m \notin runs /\ booked[s] \subseteq Employees
  BY <1>1 DEF LeaveInv, LeaveUnderway, LeaveTypeOK
<1>3. lines' \subseteq Employees \X runs'  BY <1>1, <1>2
<1>4. accrued' \in [Employees -> Nat]  BY <1>1, <1>2 DEF LeaveTypeOK
<1>5. ASSUME NEW e \in Employees
      PROVE  /\ taken'[e] = Cardinality(Approved(e)')
             /\ accrued'[e] = Cardinality(MonthsOf(e)')
  <2>1. Approved(e)' = Approved(e)  BY <1>1 DEF Approved
  <2>2. CASE e \in booked[s]
    <3>1. MonthsOf(e)' = MonthsOf(e) \cup {m}  BY <1>1, <1>2, <2>2 DEF MonthsOf
    <3>2. m \notin MonthsOf(e) /\ MonthsOf(e) \subseteq Months  BY <1>2 DEF MonthsOf
    <3>3. Cardinality(MonthsOf(e)') = Cardinality(MonthsOf(e)) + 1
      BY <3>1, <3>2, CountOneMore, MonthsAssumption
    <3> QED  BY <1>1, <1>2, <2>1, <2>2, <3>3 DEF LedgerAgrees
  <2>3. CASE e \notin booked[s]
    <3>1. MonthsOf(e)' = MonthsOf(e)  BY <1>1, <2>3 DEF MonthsOf
    <3> QED  BY <1>1, <1>2, <2>1, <2>3, <3>1 DEF LedgerAgrees
  <2> QED  BY <2>2, <2>3
<1>6. LedgerAgrees'  BY <1>5 DEF LedgerAgrees
<1> QED  BY <1>1, <1>2, <1>3, <1>4, <1>6, LeaveEndInv DEF LeaveTypeOK

\* An approval adds a day for the one employee whose balance it has booked.
LEMMA CommitApprovalInv ==
  ASSUME LeaveInv, NEW s \in Sessions, CommitApproval(s)
  PROVE  LeaveInv'
<1> DEFINE r == subject[s]
<1>1. /\ job[s] = "approving" /\ todo[s] = {} /\ End(s)
      /\ leave' = [leave EXCEPT ![r] = "approved"]
      /\ taken' = [e \in Employees |-> IF e \in booked[s] THEN taken[e] + 1
                                                          ELSE taken[e]]
      /\ UNCHANGED <<owner, runs, lines, accrued>>
  BY DEF CommitApproval
<1>2. /\ LeaveTypeOK /\ LedgerAgrees /\ LeaveUnderway(s)
      /\ lines \subseteq Employees \X runs
  BY DEF LeaveInv
<1>3. r \in Requests /\ leave[r] = "pending" /\ booked[s] = {owner[r]}
  BY <1>1, <1>2 DEF LeaveUnderway
<1>4. taken' \in [Employees -> Nat]  BY <1>1, <1>2 DEF LeaveTypeOK
<1>5. ASSUME NEW e \in Employees
      PROVE  /\ taken'[e] = Cardinality(Approved(e)')
             /\ accrued'[e] = Cardinality(MonthsOf(e)')
  <2>1. MonthsOf(e)' = MonthsOf(e)  BY <1>1 DEF MonthsOf
  <2>2. CASE e = owner[r]
    <3>1. Approved(e)' = Approved(e) \cup {r}
      BY <1>1, <1>2, <1>3, <2>2 DEF Approved, LeaveTypeOK
    <3>2. r \notin Approved(e) /\ Approved(e) \subseteq Requests  BY <1>3 DEF Approved
    <3>3. Cardinality(Approved(e)') = Cardinality(Approved(e)) + 1
      BY <3>1, <3>2, CountOneMore, RequestsAssumption
    <3> QED  BY <1>1, <1>2, <1>3, <2>1, <2>2, <3>3 DEF LedgerAgrees
  <2>3. CASE e # owner[r]
    <3>1. Approved(e)' = Approved(e)  BY <1>1, <1>2, <1>3, <2>3 DEF Approved, LeaveTypeOK
    <3> QED  BY <1>1, <1>2, <1>3, <2>1, <2>3, <3>1 DEF LedgerAgrees
  <2> QED  BY <2>2, <2>3
<1>6. LedgerAgrees'  BY <1>5 DEF LedgerAgrees
<1> QED  BY <1>1, <1>2, <1>3, <1>4, <1>6, LeaveEndInv DEF LeaveTypeOK

\* A rejected request is in no sum.
LEMMA CommitRejectionInv ==
  ASSUME LeaveInv, NEW s \in Sessions, CommitRejection(s)
  PROVE  LeaveInv'
<1> DEFINE r == subject[s]
<1>1. /\ job[s] = "rejecting" /\ End(s)
      /\ leave' = [leave EXCEPT ![r] = "rejected"]
      /\ UNCHANGED <<owner, runs, lines, accrued, taken>>
  BY DEF CommitRejection
<1>2. /\ LeaveTypeOK /\ LedgerAgrees /\ lines \subseteq Employees \X runs
      /\ r \in Requests /\ leave[r] = "pending"
  BY <1>1 DEF LeaveInv, LeaveUnderway
<1>3. LedgerAgrees'  BY <1>1, <1>2, LedgerKept DEF LeaveTypeOK
<1> QED  BY <1>1, <1>2, <1>3, LeaveEndInv DEF LeaveTypeOK
-----------------------------------------------------------------------------
\* The steps that start a request or take it further.
LEMMA LeaveBeginInv ==
  ASSUME LeaveInv, NEW s \in Sessions,
         \/ \E r \in Requests : Approve(s, r) \/ Reject(s, r)
         \/ \E m \in Months : BeginAccrual(s, m)
         \/ \E employees \in SUBSET Employees : InsertRun(s, employees)
  PROVE  LeaveInv'
<1>1. LeaveTypeOK /\ LeaveUnderway(s) /\ Owned  BY DEF LeaveInv
<1>2. ASSUME NEW r \in Requests, Approve(s, r) PROVE LeaveInv'
  <2>1. booked[s] = {} /\ {owner[r]} \in SUBSET Employees
    BY <1>1, <1>2 DEF Approve, LeaveUnderway, Owned
  <2> QED  BY <1>2, <2>1, LeaveStartInv DEF Approve
<1>3. ASSUME NEW r \in Requests, Reject(s, r) PROVE LeaveInv'
  BY <1>1, <1>3, LeaveStartInv DEF Reject, LeaveUnderway
<1>4. ASSUME NEW m \in Months, BeginAccrual(s, m) PROVE LeaveInv'
  BY <1>1, <1>4, LeaveStartInv DEF BeginAccrual, LeaveUnderway
<1>5. ASSUME NEW employees \in SUBSET Employees, InsertRun(s, employees)
      PROVE  LeaveInv'
  <2>1. booked[s] = {} /\ subject[s] \in Months  BY <1>1, <1>5 DEF InsertRun, LeaveUnderway
  <2> QED  BY <1>5, <2>1, LeaveStartInv DEF InsertRun
<1> QED  BY <1>2, <1>3, <1>4, <1>5

\* The invariant is inductive: every step of every request keeps it.
THEOREM LeaveInvariance == LeaveSpec => []LeaveInv
<1>1. LeaveInv /\ [LeaveNext]_leaveVars => LeaveInv'
  <2> SUFFICES ASSUME LeaveInv, [LeaveNext]_leaveVars PROVE LeaveInv'  OBVIOUS
  <2>1. ASSUME NEW r \in Requests, NEW e \in Employees, RequestLeave(r, e)
        PROVE  LeaveInv'
    BY <2>1, LeaveRequestInv
  <2>2. ASSUME NEW s \in Sessions, NEW e \in Employees, Book(s, e) PROVE LeaveInv'
    BY <2>2, LeaveBookInv
  <2>3. ASSUME NEW s \in Sessions,
               \/ CommitRun(s) \/ CommitApproval(s) \/ CommitRejection(s)
               \/ Rollback(s)
        PROVE  LeaveInv'
    BY <2>3, CommitRunInv, CommitApprovalInv, CommitRejectionInv, LeaveRollbackInv
  <2>4. CASE UNCHANGED leaveVars
    <3>1. UNCHANGED <<leave, owner, runs, lines, accrued, taken, job, subject,
                      todo, booked>>
      BY <2>4 DEF leaveVars, tables, sessions
    <3>2. LeaveTypeOK' /\ Owned' /\ lines' \subseteq Employees \X runs'
      BY <3>1 DEF LeaveInv, LeaveTypeOK, Owned
    <3>3. \A s \in Sessions : LeaveUnderway(s)'  BY <3>1 DEF LeaveInv, LeaveUnderway
    <3>4. \A s, t \in Sessions : s # t => Apart(s, t)'  BY <3>1 DEF LeaveInv, Apart
    <3>5. LedgerAgrees'  BY <3>1, LedgerKept DEF LeaveInv
    <3> QED  BY <3>2, <3>3, <3>4, <3>5 DEF LeaveInv
  <2> QED  BY <2>1, <2>2, <2>3, <2>4, LeaveBeginInv DEF LeaveNext
<1> QED  BY LeaveInitInv, <1>1, PTL DEF LeaveSpec

\* Every variable of the leave module keeps its type.
THEOREM LeaveTypeCorrectness == LeaveSpec => []LeaveTypeOK
<1>1. LeaveInv => LeaveTypeOK  BY DEF LeaveInv
<1> QED  BY LeaveInvariance, <1>1, PTL

\* For any number of employees, requests, months and overlapping requests, the
\* sums of a balance are those of the approved requests and accrual lines.
THEOREM LedgerAgreesAlways == LeaveSpec => []LedgerAgrees
<1>1. LeaveInv => LedgerAgrees  BY DEF LeaveInv
<1> QED  BY LeaveInvariance, <1>1, PTL
-----------------------------------------------------------------------------
\* Onboarding.  A task that is being completed is still open, and nobody else
\* completes it; whoever has counted none completes the last one; and whoever
\* has counted some leaves one, unless another request that has counted as
\* well was there at the same time.

Completing(h) == doing[h] \in {"updated", "counted"}

HelperSound(h) ==
  /\ doing[h] # "idle" => whom[h] \in Hires
  /\ doing[h] = "idle" => whom[h] = Nobody
  /\ task[h] # Nobody <=> Completing(h)
  /\ h \in fresh => doing[h] = "inserted" /\ checklist[whom[h]] = "none"
  /\ Completing(h) => task[h] \in open[whom[h]]
  /\ doing[h] = "counted" =>
       /\ finding[h] = 0 => open[whom[h]] \subseteq {task[h]}
       /\ finding[h] # 0 /\ open[whom[h]] \subseteq {task[h]} => whom[h] \in crossed

HelpersApart(h, g) ==
  /\ h \in fresh /\ g \in fresh => whom[h] # whom[g]
  /\ Completing(h) /\ Completing(g) /\ whom[h] = whom[g] => task[h] # task[g]
  /\ doing[h] = "counted" /\ doing[g] = "counted" /\ whom[h] = whom[g] => whom[h] \in crossed

ChecklistSound(e) ==
  /\ checklist[e] = "none" => open[e] = {}
  /\ checklist[e] = "completed" => open[e] = {}
  /\ checklist[e] = "in_progress" /\ open[e] = {} => e \in crossed
  /\ checklist[e] = "completed" /\ employed[e] = "pending" => e \in restarted

OnboardInv ==
  /\ Onboard!OnboardingTypeOK
  /\ \A e \in Hires : ChecklistSound(e)
  /\ \A h \in Helpers : HelperSound(h)
  /\ \A h, g \in Helpers : h # g => HelpersApart(h, g)

\* The cardinality of the checklists is that of the library.
LEMMA OnboardCard == \A S : Onboard!Cardinality(S) = Cardinality(S)
BY DEF Onboard!Cardinality, Cardinality

\* There is no checklist to begin with.
LEMMA OnboardInitInv == Onboard!OnboardingInit => OnboardInv
<1> SUFFICES ASSUME Onboard!OnboardingInit PROVE OnboardInv  OBVIOUS
<1>1. 0 \in 0..Onboard!Cardinality(Tasks)  BY TasksAssumption, FS_CardinalityType, OnboardCard
<1>2. Onboard!OnboardingTypeOK  BY <1>1 DEF Onboard!OnboardingInit, Onboard!OnboardingTypeOK
<1>3. \A h \in Helpers : /\ doing[h] = "idle" /\ whom[h] = Nobody /\ task[h] = Nobody
                         /\ h \notin fresh
  BY DEF Onboard!OnboardingInit
<1>4. \A e \in Hires : checklist[e] = "none" /\ open[e] = {}  BY DEF Onboard!OnboardingInit
<1> QED
  BY <1>2, <1>3, <1>4 DEF OnboardInv, ChecklistSound, HelperSound, HelpersApart, Completing

\* A step of the request h that leaves the checklists alone.
LEMMA HelperStepInv ==
  ASSUME OnboardInv, Onboard!OnboardingTypeOK', NEW h \in Helpers,
         UNCHANGED <<employed, checklist, open, restarted>>, crossed \subseteq crossed',
         \A g \in Helpers \ {h} :
           /\ doing'[g] = doing[g] /\ whom'[g] = whom[g] /\ task'[g] = task[g]
           /\ finding'[g] = finding[g] /\ (g \in fresh' <=> g \in fresh),
         HelperSound(h)',
         \A g \in Helpers \ {h} : HelpersApart(h, g)' /\ HelpersApart(g, h)'
  PROVE  OnboardInv'
<1>1. \A e \in Hires : ChecklistSound(e)'  BY DEF OnboardInv, ChecklistSound
<1>2. \A g \in Helpers \ {h} : HelperSound(g)'  BY DEF OnboardInv, HelperSound, Completing
<1>3. \A g, f \in Helpers \ {h} : g # f => HelpersApart(g, f)'
  BY DEF OnboardInv, HelpersApart, Completing
<1> QED  BY <1>1, <1>2, <1>3 DEF OnboardInv

\* What the end of a request leaves of it.
LEMMA FinishTypes ==
  ASSUME Onboard!OnboardingTypeOK, NEW h \in Helpers, Onboard!Finish(h)
  PROVE  /\ doing' \in [Helpers -> {"idle", "starting", "inserted", "updated", "counted"}]
         /\ whom' \in [Helpers -> Hires \cup {Nobody}]
         /\ task' \in [Helpers -> Tasks \cup {Nobody}]
         /\ seen' \in [Helpers -> {"", "pending", "active"}]
         /\ fresh' \subseteq Helpers
         /\ finding' \in [Helpers -> 0..Onboard!Cardinality(Tasks)]
         /\ doing'[h] = "idle" /\ whom'[h] = Nobody /\ task'[h] = Nobody /\ h \notin fresh'
         /\ \A g \in Helpers \ {h} :
              /\ doing'[g] = doing[g] /\ whom'[g] = whom[g] /\ task'[g] = task[g]
              /\ finding'[g] = finding[g] /\ (g \in fresh' <=> g \in fresh)
<1>1. 0 \in 0..Onboard!Cardinality(Tasks)  BY TasksAssumption, FS_CardinalityType, OnboardCard
<1>2. finding' \in [Helpers -> 0..Onboard!Cardinality(Tasks)]
  BY <1>1 DEF Onboard!OnboardingTypeOK, Onboard!Finish
<1> QED  BY <1>2 DEF Onboard!OnboardingTypeOK, Onboard!Finish

\* A request that ends was about nothing any more.
LEMMA IdleSound ==
  ASSUME NEW h \in Helpers, doing'[h] = "idle", whom'[h] = Nobody, task'[h] = Nobody,
         h \notin fresh'
  PROVE  HelperSound(h)' /\ \A g : HelpersApart(h, g)' /\ HelpersApart(g, h)'
BY DEF HelperSound, HelpersApart, Completing

\* A request that gives up leaves everything as it is.
LEMMA GiveUpInv ==
  ASSUME OnboardInv, NEW h \in Helpers, Onboard!GiveUp(h)
  PROVE  OnboardInv'
<1>1. /\ Onboard!Finish(h)
      /\ UNCHANGED <<employed, checklist, open, crossed, restarted>>
  BY DEF Onboard!GiveUp, Onboard!onboarding
<1>2. Onboard!OnboardingTypeOK'  BY <1>1, FinishTypes DEF OnboardInv, Onboard!OnboardingTypeOK
<1> QED  BY <1>1, <1>2, FinishTypes, IdleSound, HelperStepInv DEF OnboardInv

\* Somebody leaves: no checklist changes.
LEMMA TerminateInv ==
  ASSUME OnboardInv, NEW e \in Hires, Onboard!Terminate(e)
  PROVE  OnboardInv'
<1>1. /\ employed' = [employed EXCEPT ![e] = "terminated"]
      /\ UNCHANGED <<checklist, open, doing, whom, task, seen, fresh, finding, crossed,
                     restarted>>
  BY DEF Onboard!Terminate, Onboard!helpers
<1>2. Onboard!OnboardingTypeOK'  BY <1>1 DEF OnboardInv, Onboard!OnboardingTypeOK
<1>3. \A d \in Hires : employed'[d] = "pending" => employed[d] = "pending"
  BY <1>1 DEF OnboardInv, Onboard!OnboardingTypeOK
<1>4. \A d \in Hires : ChecklistSound(d)'  BY <1>1, <1>3 DEF OnboardInv, ChecklistSound
<1>5. /\ \A h \in Helpers : HelperSound(h)'
      /\ \A h, g \in Helpers : h # g => HelpersApart(h, g)'
  BY <1>1 DEF OnboardInv, HelperSound, HelpersApart, Completing
<1> QED  BY <1>2, <1>4, <1>5 DEF OnboardInv

\* A start begins, and has seen whether the employee is pending.
LEMMA BeginStartInv ==
  ASSUME OnboardInv, NEW h \in Helpers, NEW e \in Hires, Onboard!BeginStart(h, e)
  PROVE  OnboardInv'
<1>1. /\ doing[h] = "idle" /\ employed[e] # "terminated"
      /\ doing' = [doing EXCEPT ![h] = "starting"] /\ whom' = [whom EXCEPT ![h] = e]
      /\ seen' = [seen EXCEPT ![h] = employed[e]]
      /\ UNCHANGED <<employed, checklist, open, task, fresh, finding, crossed, restarted>>
  BY DEF Onboard!BeginStart, Onboard!onboarding
<1>2. Onboard!OnboardingTypeOK /\ employed[e] \in {"pending", "active"}
  BY <1>1 DEF OnboardInv, Onboard!OnboardingTypeOK
<1>3. Onboard!OnboardingTypeOK'  BY <1>1, <1>2 DEF Onboard!OnboardingTypeOK
<1>4. /\ doing'[h] = "starting" /\ whom'[h] = e /\ task[h] = Nobody /\ h \notin fresh
      /\ \A g \in Helpers \ {h} : doing'[g] = doing[g] /\ whom'[g] = whom[g]
  BY <1>1, <1>2 DEF OnboardInv, HelperSound, Completing, Onboard!OnboardingTypeOK
<1>5. HelperSound(h)'  BY <1>1, <1>4 DEF HelperSound, Completing
<1>6. \A g \in Helpers \ {h} : HelpersApart(h, g)' /\ HelpersApart(g, h)'
  BY <1>1, <1>4 DEF HelpersApart, Completing
<1> QED  BY <1>1, <1>3, <1>4, <1>5, <1>6, HelperStepInv

\* The checklist is inserted, or is there already.
LEMMA InsertChecklistInv ==
  ASSUME OnboardInv, NEW h \in Helpers, Onboard!InsertChecklist(h)
  PROVE  OnboardInv'
<1>1. /\ doing[h] = "starting" /\ \A g \in fresh : whom[g] # whom[h]
      /\ doing' = [doing EXCEPT ![h] = "inserted"]
      /\ fresh' = IF checklist[whom[h]] = "none" THEN fresh \cup {h} ELSE fresh
      /\ UNCHANGED <<employed, checklist, open, whom, task, seen, finding, crossed,
                     restarted>>
  BY DEF Onboard!InsertChecklist, Onboard!onboarding
<1>2. Onboard!OnboardingTypeOK  BY DEF OnboardInv
<1>3. Onboard!OnboardingTypeOK'  BY <1>1, <1>2 DEF Onboard!OnboardingTypeOK
<1>4. /\ doing'[h] = "inserted" /\ whom[h] \in Hires /\ task[h] = Nobody
      /\ h \in fresh' => checklist[whom[h]] = "none"
      /\ \A g \in Helpers \ {h} : doing'[g] = doing[g] /\ (g \in fresh' <=> g \in fresh)
  BY <1>1, <1>2 DEF OnboardInv, HelperSound, Completing, Onboard!OnboardingTypeOK
<1>5. HelperSound(h)'  BY <1>1, <1>4, HiresAssumption DEF HelperSound, Completing
<1>6. \A g \in Helpers \ {h} : HelpersApart(h, g)' /\ HelpersApart(g, h)'
  BY <1>1, <1>4 DEF HelpersApart, Completing
<1> QED  BY <1>1, <1>3, <1>4, <1>5, <1>6, HelperStepInv

\* The row of the task is locked.
LEMMA UpdateTaskInv ==
  ASSUME OnboardInv, NEW h \in Helpers, NEW e \in Hires, NEW t \in Tasks,
         Onboard!UpdateTask(h, e, t)
  PROVE  OnboardInv'
<1>1. /\ doing[h] = "idle" /\ t \in open[e]
      /\ \A g \in Helpers : whom[g] = e => task[g] # t
      /\ doing' = [doing EXCEPT ![h] = "updated"] /\ whom' = [whom EXCEPT ![h] = e]
      /\ task' = [task EXCEPT ![h] = t]
      /\ UNCHANGED <<employed, checklist, open, seen, fresh, finding, crossed, restarted>>
  BY DEF Onboard!UpdateTask, Onboard!onboarding
<1>2. Onboard!OnboardingTypeOK  BY DEF OnboardInv
<1>3. Onboard!OnboardingTypeOK'  BY <1>1, <1>2 DEF Onboard!OnboardingTypeOK
<1>4. /\ doing'[h] = "updated" /\ whom'[h] = e /\ task'[h] = t
      /\ \A g \in Helpers \ {h} : /\ doing'[g] = doing[g] /\ whom'[g] = whom[g]
                                  /\ task'[g] = task[g]
  BY <1>1, <1>2 DEF Onboard!OnboardingTypeOK
<1>5. h \notin fresh /\ t # Nobody  BY <1>1, TasksAssumption DEF OnboardInv, HelperSound
<1>6. HelperSound(h)'  BY <1>1, <1>4, <1>5 DEF HelperSound, Completing
<1>7. \A g \in Helpers \ {h} : HelpersApart(h, g)' /\ HelpersApart(g, h)'
  BY <1>1, <1>4, <1>5 DEF HelpersApart, Completing
<1> QED  BY <1>1, <1>3, <1>4, <1>6, <1>7, HelperStepInv

\* Whoever counts finds what the others have not committed still pending.
LEMMA CountPendingInv ==
  ASSUME OnboardInv, NEW h \in Helpers, Onboard!CountPending(h)
  PROVE  OnboardInv'
<1>0. PICK e : e = whom[h]  OBVIOUS
<1>1. /\ doing[h] = "updated" /\ doing' = [doing EXCEPT ![h] = "counted"]
      /\ finding' = [finding EXCEPT ![h] = Cardinality(open[e] \ {task[h]})]
      /\ crossed' = IF Onboard!Beside(h) THEN crossed \cup {e} ELSE crossed
      /\ UNCHANGED <<employed, checklist, open, whom, task, seen, fresh, restarted>>
  BY <1>0, OnboardCard DEF Onboard!CountPending, Onboard!Count, Onboard!onboarding
<1>2. Onboard!OnboardingTypeOK /\ e \in Hires /\ open[e] \subseteq Tasks
  BY <1>0, <1>1 DEF OnboardInv, HelperSound, Onboard!OnboardingTypeOK
<1>3. /\ Cardinality(open[e] \ {task[h]}) \in 0..Cardinality(Tasks)
      /\ Cardinality(open[e] \ {task[h]}) = 0 <=> open[e] \subseteq {task[h]}
  <2>1. (open[e] \ {task[h]}) \in SUBSET Tasks  BY <1>2
  <2>2. /\ IsFiniteSet(open[e] \ {task[h]})
        /\ Cardinality(open[e] \ {task[h]}) <= Cardinality(Tasks)
    BY <2>1, TasksAssumption, FS_Subset
  <2>3. Cardinality(open[e] \ {task[h]}) \in Nat /\ Cardinality(Tasks) \in Nat
    BY <2>2, TasksAssumption, FS_CardinalityType
  <2>4. Cardinality(open[e] \ {task[h]}) = 0 <=> open[e] \ {task[h]} = {}  BY <2>2, FS_EmptySet
  <2>5. open[e] \ {task[h]} = {} <=> open[e] \subseteq {task[h]}  OBVIOUS
  <2> QED  BY <2>2, <2>3, <2>4, <2>5
<1>4. Onboard!OnboardingTypeOK'
  <2>1. finding' \in [Helpers -> 0..Onboard!Cardinality(Tasks)]
    BY <1>1, <1>2, <1>3, OnboardCard DEF Onboard!OnboardingTypeOK
  <2>2. crossed' \subseteq Hires  BY <1>1, <1>2 DEF Onboard!OnboardingTypeOK
  <2> QED  BY <1>1, <1>2, <2>1, <2>2 DEF Onboard!OnboardingTypeOK
<1>5. /\ doing'[h] = "counted" /\ finding'[h] = Cardinality(open[e] \ {task[h]})
      /\ h \notin fresh /\ task[h] # Nobody /\ task[h] \in open[e]
      /\ \A g \in Helpers \ {h} : doing'[g] = doing[g] /\ finding'[g] = finding[g]
  BY <1>0, <1>1, <1>2 DEF OnboardInv, HelperSound, Completing, Onboard!OnboardingTypeOK
<1>6. HelperSound(h)'  BY <1>0, <1>1, <1>2, <1>3, <1>5 DEF HelperSound, Completing
<1>7. ASSUME NEW g \in Helpers \ {h} PROVE HelpersApart(h, g)' /\ HelpersApart(g, h)'
  <2>1. HelpersApart(h, g) /\ HelpersApart(g, h) /\ HelperSound(g)  BY DEF OnboardInv
  <2>2. doing[g] = "counted" /\ whom[g] = e => e \in crossed'
    <3>1. doing[g] = "counted" /\ whom[g] = e => Onboard!Beside(h)
      BY <1>0, <2>1 DEF HelperSound, Completing, Onboard!Beside
    <3> QED  BY <1>1, <3>1
  <2> QED  BY <1>0, <1>1, <1>5, <2>1, <2>2 DEF HelpersApart, Completing
<1> QED  BY <1>1, <1>4, <1>5, <1>6, <1>7, HelperStepInv

\* The first start commits the checklist, a later one at most what it had read.
LEMMA CommitStartInv ==
  ASSUME OnboardInv, NEW h \in Helpers, Onboard!CommitStart(h)
  PROVE  OnboardInv'
<1>0. PICK e : e = whom[h]  OBVIOUS
<1>1. /\ doing[h] = "inserted" /\ Onboard!Finish(h)
      /\ employed' = [employed EXCEPT ![e] = IF seen[h] = "pending" THEN "pending" ELSE @]
      /\ restarted' = IF seen[h] = "pending" /\ employed[e] # "pending"
                      THEN restarted \cup {e} ELSE restarted
      /\ checklist' = [checklist EXCEPT ![e] = IF h \in fresh THEN "in_progress" ELSE @]
      /\ open' = [open EXCEPT ![e] = IF h \in fresh THEN Tasks ELSE @]
      /\ crossed' = crossed
  BY <1>0 DEF Onboard!CommitStart
<1>2. /\ Onboard!OnboardingTypeOK /\ \A d \in Hires : ChecklistSound(d)
      /\ \A g \in Helpers : HelperSound(g)
      /\ \A g, f \in Helpers : g # f => HelpersApart(g, f)
  BY DEF OnboardInv
<1>3. e \in Hires  BY <1>0, <1>1, <1>2 DEF HelperSound
<1>4. /\ employed'[e] = IF seen[h] = "pending" THEN "pending" ELSE employed[e]
      /\ checklist'[e] = IF h \in fresh THEN "in_progress" ELSE checklist[e]
      /\ open'[e] = IF h \in fresh THEN Tasks ELSE open[e]
      /\ \A d \in Hires \ {e} : /\ employed'[d] = employed[d] /\ open'[d] = open[d]
                                /\ checklist'[d] = checklist[d]
  BY <1>1, <1>2, <1>3 DEF Onboard!OnboardingTypeOK
<1>5. Onboard!OnboardingTypeOK'
  <2>1. employed' \in [Hires -> {"pending", "active", "terminated"}]
    BY <1>1, <1>2, <1>3 DEF Onboard!OnboardingTypeOK
  <2>2. /\ checklist' \in [Hires -> {"none", "in_progress", "completed"}]
        /\ open' \in [Hires -> SUBSET Tasks]
    BY <1>1, <1>2, <1>3 DEF Onboard!OnboardingTypeOK
  <2>3. crossed' \subseteq Hires /\ restarted' \subseteq Hires
    BY <1>1, <1>2, <1>3 DEF Onboard!OnboardingTypeOK
  <2> QED  BY <1>1, <1>2, <2>1, <2>2, <2>3, FinishTypes DEF Onboard!OnboardingTypeOK
<1>6. ASSUME NEW d \in Hires PROVE ChecklistSound(d)'
  <2>1. CASE d # e  BY <1>1, <1>2, <1>4, <2>1 DEF ChecklistSound
  <2>2. CASE d = e /\ h \in fresh  BY <1>4, <2>2, TasksAssumption DEF ChecklistSound
  <2>3. CASE d = e /\ h \notin fresh  BY <1>1, <1>2, <1>4, <2>3 DEF ChecklistSound
  <2> QED  BY <2>1, <2>2, <2>3
\* While a checklist is being inserted nobody else does, and it has no tasks.
<1>7. ASSUME NEW g \in Helpers \ {h}
      PROVE  HelperSound(g)'
  <2>0. HelperSound(h) /\ HelperSound(g) /\ HelpersApart(h, g) /\ HelpersApart(g, h)  BY <1>2
  <2>1. /\ doing'[g] = doing[g] /\ whom'[g] = whom[g] /\ task'[g] = task[g]
        /\ finding'[g] = finding[g] /\ (g \in fresh' <=> g \in fresh)
    BY <1>1, <1>2, FinishTypes
  <2>2. CASE h \notin fresh \/ whom[g] # e
    <3>1. doing[g] # "idle"
              => open'[whom[g]] = open[whom[g]] /\ checklist'[whom[g]] = checklist[whom[g]]
      BY <1>4, <2>0, <2>2 DEF HelperSound
    <3>2. g \in fresh => doing[g] # "idle"  BY <2>0 DEF HelperSound
    <3> QED  BY <1>1, <2>0, <2>1, <3>1, <3>2 DEF HelperSound, Completing
  <2>3. CASE h \in fresh /\ whom[g] = e
    <3>1. open[e] = {}  BY <1>0, <1>2, <1>3, <2>0, <2>3 DEF HelperSound, ChecklistSound
    <3>2. ~ Completing(g) /\ g \notin fresh
      BY <1>0, <2>0, <2>3, <3>1 DEF HelperSound, HelpersApart
    <3> QED  BY <2>0, <2>1, <3>2 DEF HelperSound, Completing
  <2> QED  BY <2>2, <2>3
<1>8. HelperSound(h)' /\ \A g : HelpersApart(h, g)' /\ HelpersApart(g, h)'
  BY <1>1, <1>2, FinishTypes, IdleSound
<1>9. ASSUME NEW f \in Helpers \ {h}, NEW g \in Helpers \ {h}, f # g
      PROVE  HelpersApart(f, g)'
  <2>1. \A k \in {f, g} : /\ doing'[k] = doing[k] /\ whom'[k] = whom[k] /\ task'[k] = task[k]
                          /\ (k \in fresh' <=> k \in fresh)
    BY <1>1, <1>2, FinishTypes
  <2>2. HelpersApart(f, g)  BY <1>2, <1>9
  <2> QED  BY <1>1, <2>1, <2>2 DEF HelpersApart, Completing
<1> QED  BY <1>5, <1>6, <1>7, <1>8, <1>9 DEF OnboardInv

\* A task is done; the checklist is concluded if none was found pending.
LEMMA CommitTaskInv ==
  ASSUME OnboardInv, NEW h \in Helpers, Onboard!CommitTask(h)
  PROVE  OnboardInv'
<1>0. PICK e : e = whom[h]  OBVIOUS
<1>1. /\ doing[h] = "counted" /\ Onboard!Finish(h)
      /\ open' = [open EXCEPT ![e] = @ \ {task[h]}]
      /\ checklist' = [checklist EXCEPT ![e] = IF finding[h] = 0 THEN "completed" ELSE @]
      /\ employed' = [employed EXCEPT ![e] = IF finding[h] = 0 /\ @ = "pending"
                                             THEN "active" ELSE @]
      /\ UNCHANGED <<crossed, restarted>>
  BY <1>0 DEF Onboard!CommitTask
<1>2. /\ Onboard!OnboardingTypeOK /\ \A d \in Hires : ChecklistSound(d)
      /\ \A g \in Helpers : HelperSound(g)
      /\ \A g, f \in Helpers : g # f => HelpersApart(g, f)
  BY DEF OnboardInv
<1>3. e \in Hires /\ task[h] \in open[e] /\ HelperSound(h)
  BY <1>0, <1>1, <1>2 DEF HelperSound, Completing
<1>4. /\ open'[e] = open[e] \ {task[h]}
      /\ checklist'[e] = IF finding[h] = 0 THEN "completed" ELSE checklist[e]
      /\ employed'[e] = IF finding[h] = 0 /\ employed[e] = "pending"
                        THEN "active" ELSE employed[e]
      /\ \A d \in Hires \ {e} : /\ employed'[d] = employed[d] /\ open'[d] = open[d]
                                /\ checklist'[d] = checklist[d]
  BY <1>1, <1>2, <1>3 DEF Onboard!OnboardingTypeOK
<1>5. Onboard!OnboardingTypeOK'
  <2>1. employed' \in [Hires -> {"pending", "active", "terminated"}]
    BY <1>1, <1>2, <1>3 DEF Onboard!OnboardingTypeOK
  <2>2. checklist' \in [Hires -> {"none", "in_progress", "completed"}]
    BY <1>1, <1>2, <1>3 DEF Onboard!OnboardingTypeOK
  <2>3. open' \in [Hires -> SUBSET Tasks]  BY <1>1, <1>2, <1>3 DEF Onboard!OnboardingTypeOK
  <2> QED  BY <1>1, <1>2, <2>1, <2>2, <2>3, FinishTypes DEF Onboard!OnboardingTypeOK
<1>6. ASSUME NEW d \in Hires PROVE ChecklistSound(d)'
  <2>1. CASE d # e  BY <1>1, <1>2, <1>4, <2>1 DEF ChecklistSound
  <2>2. CASE d = e /\ finding[h] = 0
    <3>1. open[e] \subseteq {task[h]}  BY <1>0, <1>1, <1>3, <2>2 DEF HelperSound
    <3> QED  BY <1>4, <2>2, <3>1 DEF ChecklistSound
  <2>3. CASE d = e /\ finding[h] # 0
    <3>1. open'[e] = {} => e \in crossed  BY <1>0, <1>1, <1>3, <1>4, <2>3 DEF HelperSound
    <3>2. ChecklistSound(e) /\ checklist[e] = "in_progress" /\ checklist'[e] = "in_progress"
      BY <1>2, <1>3, <1>4, <2>3 DEF ChecklistSound, Onboard!OnboardingTypeOK
    <3> QED  BY <1>1, <2>3, <3>1, <3>2 DEF ChecklistSound
  <2> QED  BY <2>1, <2>2, <2>3
<1>7. ASSUME NEW g \in Helpers \ {h} PROVE HelperSound(g)'
  <2>0. HelperSound(g) /\ HelpersApart(h, g) /\ HelpersApart(g, h)  BY <1>2
  <2>1. /\ doing'[g] = doing[g] /\ whom'[g] = whom[g] /\ task'[g] = task[g]
        /\ finding'[g] = finding[g] /\ (g \in fresh' <=> g \in fresh)
    BY <1>1, <1>2, FinishTypes
  <2>2. CASE whom[g] # e
    <3>1. doing[g] # "idle"
              => open'[whom[g]] = open[whom[g]] /\ checklist'[whom[g]] = checklist[whom[g]]
      BY <1>4, <2>0, <2>2 DEF HelperSound
    <3>2. g \in fresh => doing[g] # "idle"  BY <2>0 DEF HelperSound
    <3> QED  BY <1>1, <2>0, <2>1, <3>1, <3>2 DEF HelperSound, Completing
  <2>3. CASE whom[g] = e
    <3>1. g \notin fresh  BY <1>2, <1>3, <2>0, <2>3 DEF HelperSound, ChecklistSound
    <3>2. Completing(g) => task[g] \in open'[e]
      BY <1>0, <1>1, <1>4, <2>0, <2>3 DEF HelperSound, HelpersApart, Completing
    <3>3. doing[g] = "counted" /\ finding[g] = 0 => open'[e] \subseteq {task[g]}
      BY <1>4, <2>0, <2>3 DEF HelperSound
    <3>4. doing[g] = "counted" => e \in crossed  BY <1>0, <1>1, <2>0, <2>3 DEF HelpersApart
    <3> QED  BY <1>1, <2>0, <2>1, <2>3, <3>1, <3>2, <3>3, <3>4 DEF HelperSound, Completing
  <2> QED  BY <2>2, <2>3
<1>8. HelperSound(h)' /\ \A g : HelpersApart(h, g)' /\ HelpersApart(g, h)'
  BY <1>1, <1>2, FinishTypes, IdleSound
<1>9. ASSUME NEW f \in Helpers \ {h}, NEW g \in Helpers \ {h}, f # g
      PROVE  HelpersApart(f, g)'
  <2>1. \A k \in {f, g} : /\ doing'[k] = doing[k] /\ whom'[k] = whom[k] /\ task'[k] = task[k]
                          /\ (k \in fresh' <=> k \in fresh)
    BY <1>1, <1>2, FinishTypes
  <2>2. HelpersApart(f, g)  BY <1>2, <1>9
  <2> QED  BY <1>1, <2>1, <2>2 DEF HelpersApart, Completing
<1> QED  BY <1>5, <1>6, <1>7, <1>8, <1>9 DEF OnboardInv

\* Every step of the onboarding keeps the invariant.
LEMMA OnboardNextInv ==
  ASSUME OnboardInv, [Onboard!OnboardingNext]_onboarding
  PROVE  OnboardInv'
<1>1. CASE UNCHANGED onboarding
  <2>1. Onboard!OnboardingTypeOK'  BY <1>1 DEF onboarding, OnboardInv, Onboard!OnboardingTypeOK
  <2>2. \A e \in Hires : ChecklistSound(e)'  BY <1>1 DEF onboarding, OnboardInv, ChecklistSound
  <2>3. \A h \in Helpers : HelperSound(h)'
    BY <1>1 DEF onboarding, OnboardInv, HelperSound, Completing
  <2>4. \A h, g \in Helpers : h # g => HelpersApart(h, g)'
    BY <1>1 DEF onboarding, OnboardInv, HelpersApart, Completing
  <2> QED  BY <2>1, <2>2, <2>3, <2>4 DEF OnboardInv
<1>2. ASSUME NEW e \in Hires, Onboard!Terminate(e) PROVE OnboardInv'  BY <1>2, TerminateInv
<1>3. ASSUME NEW h \in Helpers, NEW e \in Hires,
             \/ Onboard!BeginStart(h, e)
             \/ \E t \in Tasks : Onboard!UpdateTask(h, e, t)
      PROVE  OnboardInv'
  BY <1>3, BeginStartInv, UpdateTaskInv
<1>4. ASSUME NEW h \in Helpers,
             \/ Onboard!InsertChecklist(h) \/ Onboard!CommitStart(h)
             \/ Onboard!CountPending(h) \/ Onboard!CommitTask(h) \/ Onboard!GiveUp(h)
      PROVE  OnboardInv'
  BY <1>4, InsertChecklistInv, CommitStartInv, CountPendingInv, CommitTaskInv, GiveUpInv
<1> QED  BY <1>1, <1>2, <1>3, <1>4 DEF Onboard!OnboardingNext

\* The invariant of the onboarding holds in all of its behaviours.
THEOREM OnboardInvariance == OnboardingSpec => []OnboardInv
<1>1. OnboardInv /\ [Onboard!OnboardingNext]_onboarding => OnboardInv'  BY OnboardNextInv
<1> QED  BY OnboardInitInv, <1>1, PTL DEF OnboardingSpec
-----------------------------------------------------------------------------
\* Learning.  A certificate is issued by the step that completes the
\* enrolment; only a progress that had read it as assigned undoes that.

LearnInv ==
  /\ enrolment \in [Learn!Enrolments -> {"none", "assigned", "in_progress", "completed"}]
  /\ certificates \in [Learn!Enrolments -> Nat]
  /\ Learn!CertificateStands

\* A step that issues no certificate, and leaves what is completed completed or
\* overtaken.
LEMMA LearnStepInv ==
  ASSUME LearnInv,
         enrolment' \in [Learn!Enrolments -> {"none", "assigned", "in_progress", "completed"}],
         certificates' = certificates, overtaken \subseteq overtaken',
         \A n \in Learn!Enrolments : enrolment[n] = "completed" =>
           enrolment'[n] = "completed" \/ n \in overtaken'
  PROVE  LearnInv'
<1>1. Learn!Enrolments' = Learn!Enrolments  BY DEF Learn!Enrolments
<1> QED  BY <1>1 DEF LearnInv, Learn!CertificateStands

\* Enrolments begin, and requests that write nothing end.
LEMMA EnrolInv ==
  ASSUME LearnInv, UNCHANGED <<certificates, overtaken>>,
         \/ enrolment' = enrolment
         \/ \E l \in Learners, c \in Courses, m \in BOOLEAN : Learn!Enrol(l, c, m)
         \/ \E l \in Learners : Learn!Onboarded(l)
  PROVE  LearnInv'
<1> DEFINE E == Learn!Enrolments
           States4 == {"none", "assigned", "in_progress", "completed"}
<1>1. enrolment \in [E -> States4]  BY DEF LearnInv
<1>2. /\ enrolment' \in [E -> States4]
      /\ \A n \in E : enrolment[n] = "completed" => enrolment'[n] = "completed"
  <2>1. CASE enrolment' = enrolment  BY <1>1, <2>1
  <2>2. ASSUME NEW l \in Learners, NEW c \in Courses, NEW m \in BOOLEAN, Learn!Enrol(l, c, m)
        PROVE  <1>2!1 /\ <1>2!2
    <3>1. /\ enrolment[<<l, c>>] = "none"
          /\ enrolment' = [enrolment EXCEPT ![<<l, c>>] = "assigned"]
      BY <2>2 DEF Learn!Enrol
    <3> QED  BY <1>1, <3>1
  <2>3. ASSUME NEW l \in Learners, Learn!Onboarded(l) PROVE <1>2!1 /\ <1>2!2
    <3> DEFINE new == {<<l, c>> : c \in {d \in mandatory : /\ course[d] = "published"
                                                         /\ enrolment[<<l, d>>] = "none"}}
    <3>1. \A n \in new : enrolment[n] = "none"  OBVIOUS
    <3>2. enrolment' = [n \in E |-> IF n \in new THEN "assigned" ELSE enrolment[n]]
      BY <2>3 DEF Learn!Onboarded
    <3> HIDE DEF new
    <3> QED  BY <1>1, <3>1, <3>2
  <2> QED  BY <2>1, <2>2, <2>3
<1> QED  BY <1>2, LearnStepInv

\* The exception: what was read as assigned is written after it was completed.
LEMMA CommitProgressInv ==
  ASSUME LearnInv, NEW w \in Students, Learn!CommitProgress(w)
  PROVE  LearnInv'
<1>1. /\ enrolment' = [enrolment EXCEPT ![of[w]] = IF status[w] = "assigned" THEN "in_progress" ELSE @]
      /\ overtaken' = IF status[w] = "assigned" /\ enrolment[of[w]] = "completed"
                      THEN overtaken \cup {of[w]} ELSE overtaken
      /\ certificates' = certificates
  BY DEF Learn!CommitProgress
<1>2. enrolment \in [Learn!Enrolments -> {"none", "assigned", "in_progress", "completed"}]
  BY DEF LearnInv
<1>3. enrolment' \in [Learn!Enrolments -> {"none", "assigned", "in_progress", "completed"}]
  BY <1>1, <1>2
<1>4. ASSUME NEW n \in Learn!Enrolments, enrolment[n] = "completed"
      PROVE  enrolment'[n] = "completed" \/ n \in overtaken'
  BY <1>1, <1>2, <1>4
<1>5. overtaken \subseteq overtaken'  BY <1>1
<1> QED  BY <1>1, <1>3, <1>4, <1>5, LearnStepInv

\* The certificate and the completion are committed together.
LEMMA CommitAttemptInv ==
  ASSUME LearnInv, NEW w \in Students, NEW success \in BOOLEAN, Learn!CommitAttempt(w, success)
  PROVE  LearnInv'
<1>1. /\ enrolment' = [enrolment EXCEPT ![of[w]] = IF success THEN "completed" ELSE @]
      /\ certificates' = [certificates EXCEPT ![of[w]] = IF success THEN @ + 1 ELSE @]
      /\ overtaken' = overtaken
  BY DEF Learn!CommitAttempt
<1>2. /\ enrolment \in [Learn!Enrolments -> {"none", "assigned", "in_progress", "completed"}]
      /\ certificates \in [Learn!Enrolments -> Nat]
      /\ \A n \in Learn!Enrolments :
           certificates[n] > 0 => enrolment[n] = "completed" \/ n \in overtaken
  BY DEF LearnInv, Learn!CertificateStands
<1>3. enrolment' \in [Learn!Enrolments -> {"none", "assigned", "in_progress", "completed"}]
  BY <1>1, <1>2
<1>4. certificates' \in [Learn!Enrolments -> Nat]
  <2>1. CASE success
    <3>1. certificates' = [certificates EXCEPT ![of[w]] = certificates[of[w]] + 1]
      BY <1>1, <2>1
    <3>2. \A n \in Learn!Enrolments : certificates'[n] \in Nat  BY <1>2, <3>1
    <3>3. certificates' \in [Learn!Enrolments -> {certificates'[n] : n \in Learn!Enrolments}]
      BY <1>2, <3>1
    <3> QED  BY <3>2, <3>3
  <2>2. CASE ~success
    <3>1. certificates' = certificates  BY <1>1, <1>2, <2>2
    <3> QED  BY <1>2, <3>1
  <2> QED  BY <2>1, <2>2
<1>5. ASSUME NEW n \in Learn!Enrolments, certificates'[n] > 0
      PROVE  enrolment'[n] = "completed" \/ n \in overtaken'
  <2>1. CASE success /\ n = of[w]  BY <1>1, <1>2, <2>1
  <2>2. CASE ~ (success /\ n = of[w])
    <3>1. certificates'[n] = certificates[n] /\ enrolment'[n] = enrolment[n]
      BY <1>1, <1>2, <2>2
    <3> QED  BY <1>1, <1>2, <1>5, <3>1
  <2> QED  BY <2>1, <2>2
<1>6. Learn!Enrolments' = Learn!Enrolments  BY DEF Learn!Enrolments
<1> QED  BY <1>3, <1>4, <1>5, <1>6 DEF LearnInv, Learn!CertificateStands

\* A certificate stands in all behaviours of learning.
THEOREM LearnInvariance == LearningSpec => []LearnInv
<1>1. Learn!LearningInit => LearnInv
  BY DEF Learn!LearningInit, LearnInv, Learn!CertificateStands
<1>2. ASSUME LearnInv, [Learn!LearningNext]_learning PROVE LearnInv'
  <2>1. CASE UNCHANGED learning  BY <1>2, <2>1, EnrolInv DEF learning
  <2>2. ASSUME NEW c \in Courses,
               Learn!CreateCourse(c) \/ Learn!Publish(c) \/ Learn!AddRule(c)
        PROVE  LearnInv'
    BY <1>2, <2>2, EnrolInv DEF Learn!CreateCourse, Learn!Publish, Learn!AddRule, Learn!records
  <2>3. ASSUME NEW l \in Learners,
               \/ \E c \in Courses, m \in BOOLEAN : Learn!Enrol(l, c, m)
               \/ Learn!Onboarded(l)
        PROVE  LearnInv'
    <3>1. UNCHANGED <<certificates, overtaken>>  BY <2>3 DEF Learn!Enrol, Learn!Onboarded
    <3> QED  BY <1>2, <2>3, <3>1, EnrolInv
  <2>4. ASSUME NEW w \in Students,
               \/ \E n \in Learn!Enrolments :
                    Learn!ReadStatus(w, n) \/ \E c \in Courses : Learn!NumberAttempt(w, n, c)
               \/ Learn!InsertAttempt(w) \/ Learn!Abandon(w)
        PROVE  LearnInv'
    <3>1. UNCHANGED <<enrolment, certificates, overtaken>>
      BY <2>4 DEF Learn!ReadStatus, Learn!NumberAttempt, Learn!BeginAttempt,
             Learn!InsertAttempt, Learn!Abandon, Learn!records
    <3> QED  BY <1>2, <3>1, EnrolInv
  <2>5. ASSUME NEW w \in Students,
               \/ Learn!CommitProgress(w)
               \/ \E success \in BOOLEAN : Learn!CommitAttempt(w, success)
        PROVE  LearnInv'
    BY <1>2, <2>5, CommitProgressInv, CommitAttemptInv
  <2> QED  BY <1>2, <2>1, <2>2, <2>3, <2>4, <2>5 DEF Learn!LearningNext
<1> QED  BY <1>1, <1>2, PTL DEF LearningSpec

\* CompletionStands (onboarding and lms-service): in every behaviour of the back
\* office.
THEOREM CompletionStandsAlways == Spec => []CompletionStands
<1>1. OnboardInv => Onboard!ChecklistConcluded
  BY DEF OnboardInv, ChecklistSound, Onboard!ChecklistConcluded
<1>2. OnboardInv /\ LearnInv => CompletionStands  BY <1>1 DEF LearnInv, CompletionStands
<1> QED  BY Parts, OnboardInvariance, LearnInvariance, <1>2, PTL
-----------------------------------------------------------------------------
\* The types of learning.  An attempt that is inserted is the next, and no
\* other of its number is; and there are no more certificates than attempts,
\* of which each course takes so many.

\* An attempt that has been inserted is the next of its enrolment at its paper.
StudentSound(w) ==
  /\ taking[w] # "idle" => of[w] \in Learn!Enrolments
  /\ taking[w] \in {"answering", "attempted"} => paper[w] \in Courses
  /\ taking[w] = "attempted" => attempt[w] = attempts[of[w]][paper[w]] + 1
StudentsApart(v, w) ==
  taking[v] = "attempted" /\ taking[w] = "attempted" =>
    <<of[v], paper[v]>> # <<of[w], paper[w]>>

\* The attempts of an enrolment that have been committed.
Tries(n) == {t \in Courses \X (1..MaxAttempts) : t[2] <= attempts[n][t[1]]}

\* The types of what the requests write, and of the requests.
RecordsTyped ==
  /\ course \in [Courses -> {"none", "draft", "published"}]
  /\ mandatory \subseteq Courses /\ required \subseteq Learn!Enrolments
  /\ enrolment \in [Learn!Enrolments -> {"none", "assigned", "in_progress", "completed"}]
  /\ attempts \in [Learn!Enrolments -> [Courses -> 0..MaxAttempts]]
  /\ certificates \in [Learn!Enrolments -> Nat]
  /\ overtaken \subseteq Learn!Enrolments
StudentsTyped ==
  /\ taking \in [Students -> {"idle", "learning", "answering", "attempted"}]
  /\ of \in [Students -> Learn!Enrolments \cup {NoEnrolment}]
  /\ paper \in [Students -> Courses \cup {NoEnrolment}]
  /\ status \in [Students -> {"none", "assigned", "in_progress", "completed"}]
  /\ attempt \in [Students -> 0..MaxAttempts]
Certified == \A n \in Learn!Enrolments : certificates[n] <= Cardinality(Tries(n))

LearnTyped ==
  /\ RecordsTyped /\ StudentsTyped
  /\ \A w \in Students : StudentSound(w)
  /\ \A v, w \in Students : v # w => StudentsApart(v, w)
  /\ Certified

\* The cardinality of learning is that of the library.
LEMMA LearnCard == \A S : Learn!Cardinality(S) = Cardinality(S)
BY DEF Learn!Cardinality, Cardinality

\* The attempts can be counted, and are as many as there may be.
LEMMA TriesFinite ==
  ASSUME NEW n
  PROVE  /\ IsFiniteSet(Courses \X (1..MaxAttempts)) /\ IsFiniteSet(Tries(n))
         /\ Tries(n) \subseteq Courses \X (1..MaxAttempts)
         /\ Cardinality(Tries(n)) \in Nat
         /\ Cardinality(Tries(n)) <= MaxAttempts * Cardinality(Courses)
<1>1. IsFiniteSet(Courses) /\ IsFiniteSet(1..MaxAttempts)
          /\ Cardinality(1..MaxAttempts) = MaxAttempts
  BY CoursesAssumption, FS_Interval
<1>2. /\ IsFiniteSet(Courses \X (1..MaxAttempts))
      /\ Cardinality(Courses \X (1..MaxAttempts)) = Cardinality(Courses) * MaxAttempts
  BY <1>1, FS_Product
<1>3. Tries(n) \subseteq Courses \X (1..MaxAttempts)  BY DEF Tries
<1>4. IsFiniteSet(Tries(n)) /\ Cardinality(Tries(n)) <= Cardinality(Courses) * MaxAttempts
  BY <1>2, <1>3, FS_Subset
<1>5. Cardinality(Tries(n)) \in Nat /\ Cardinality(Courses) \in Nat
  BY <1>1, <1>4, FS_CardinalityType
<1>6. \A m \in Nat : m * MaxAttempts = MaxAttempts * m  BY CoursesAssumption
<1> QED  BY <1>2, <1>3, <1>4, <1>5, <1>6

\* The invariant gives the types.
LEMMA LearnTypes == LearnTyped => Learn!LearningTypeOK
<1> SUFFICES ASSUME LearnTyped PROVE Learn!LearningTypeOK  OBVIOUS
<1> DEFINE most == MaxAttempts * Cardinality(Courses)
<1>1. \A n \in Learn!Enrolments : certificates[n] \in 0..most
  <2> SUFFICES ASSUME NEW n \in Learn!Enrolments PROVE certificates[n] \in 0..most  OBVIOUS
  <2>1. certificates[n] \in Nat /\ certificates[n] <= Cardinality(Tries(n))
    BY DEF LearnTyped, RecordsTyped, Certified
  <2>2. Cardinality(Tries(n)) \in Nat /\ Cardinality(Tries(n)) <= most  BY TriesFinite
  <2>3. most \in Nat  BY CoursesAssumption, FS_CardinalityType
  <2> HIDE DEF most
  <2> QED  BY <2>1, <2>2, <2>3
<1>2. certificates \in [Learn!Enrolments -> 0..most]
  <2> HIDE DEF most
  <2> QED  BY <1>1 DEF LearnTyped, RecordsTyped
<1> QED  BY <1>2, LearnCard DEF LearnTyped, RecordsTyped, StudentsTyped, Learn!LearningTypeOK

\* Learning begins with nothing.
LEMMA LearnInitTyped == Learn!LearningInit => LearnTyped
<1> SUFFICES ASSUME Learn!LearningInit PROVE LearnTyped  OBVIOUS
<1>1. RecordsTyped  BY CoursesAssumption DEF Learn!LearningInit, RecordsTyped
<1>2. StudentsTyped  BY CoursesAssumption DEF Learn!LearningInit, StudentsTyped
<1>3. \A w \in Students : StudentSound(w)  BY DEF Learn!LearningInit, StudentSound
<1>4. \A v, w \in Students : v # w => StudentsApart(v, w)
  BY DEF Learn!LearningInit, StudentsApart
<1>5. Certified  BY TriesFinite DEF Learn!LearningInit, Certified
<1> QED  BY <1>1, <1>2, <1>3, <1>4, <1>5 DEF LearnTyped

\* What the office writes leaves requests and certificates as they are.
LEMMA OfficeTyped ==
  ASSUME LearnTyped, UNCHANGED <<attempts, certificates, taking, of, paper, status,
             attempt, overtaken>>,
         RecordsTyped'
  PROVE  LearnTyped'
<1>1. StudentsTyped'  BY DEF LearnTyped, StudentsTyped, Learn!Enrolments
<1>2. \A w \in Students : StudentSound(w)'  BY DEF LearnTyped, StudentSound, Learn!Enrolments
<1>3. \A v, w \in Students : v # w => StudentsApart(v, w)'  BY DEF LearnTyped, StudentsApart
<1>4. Certified'  BY DEF LearnTyped, Certified, Tries, Learn!Enrolments
<1> QED  BY <1>1, <1>2, <1>3, <1>4 DEF LearnTyped

\* Courses and enrolments begin.
LEMMA OfficeStepTyped ==
  ASSUME LearnTyped,
         \/ \E c \in Courses : Learn!CreateCourse(c) \/ Learn!Publish(c) \/ Learn!AddRule(c)
         \/ \E l \in Learners, c \in Courses, m \in BOOLEAN : Learn!Enrol(l, c, m)
         \/ \E l \in Learners : Learn!Onboarded(l)
  PROVE  LearnTyped'
<1>1. RecordsTyped /\ Learn!Enrolments' = Learn!Enrolments  BY DEF LearnTyped, Learn!Enrolments
<1>2. CASE \E c \in Courses : Learn!CreateCourse(c) \/ Learn!Publish(c) \/ Learn!AddRule(c)
  <2>1. RecordsTyped'
    BY <1>1, <1>2
       DEF RecordsTyped, Learn!CreateCourse, Learn!Publish, Learn!AddRule, Learn!records
  <2> QED
    BY <1>2, <2>1, OfficeTyped
    DEF Learn!CreateCourse, Learn!Publish, Learn!AddRule, Learn!records, Learn!students
<1>3. ASSUME NEW l \in Learners, NEW c \in Courses, NEW m \in BOOLEAN, Learn!Enrol(l, c, m)
      PROVE  LearnTyped'
  <2>1. <<l, c>> \in Learn!Enrolments  BY DEF Learn!Enrolments
  <2>2. RecordsTyped'  BY <1>1, <1>3, <2>1 DEF RecordsTyped, Learn!Enrol, Learn!catalogue
  <2> QED  BY <1>3, <2>2, OfficeTyped DEF Learn!Enrol, Learn!students
<1>4. ASSUME NEW l \in Learners, Learn!Onboarded(l) PROVE LearnTyped'
  <2> DEFINE new == {<<l, c>> : c \in {d \in mandatory : /\ course[d] = "published"
                                                       /\ enrolment[<<l, d>>] = "none"}}
  <2>1. new \subseteq Learn!Enrolments
    <3>1. \A c \in mandatory : <<l, c>> \in Learn!Enrolments
      BY <1>1 DEF RecordsTyped, Learn!Enrolments
    <3> QED  BY <3>1
  <2>2. /\ enrolment' = [n \in Learn!Enrolments |-> IF n \in new THEN "assigned" ELSE enrolment[n]]
        /\ required' = required \cup new
        /\ UNCHANGED <<course, mandatory, attempts, certificates, overtaken>>
    BY <1>4 DEF Learn!Onboarded, Learn!catalogue
  <2> HIDE DEF new
  <2>3. RecordsTyped'  BY <1>1, <2>1, <2>2 DEF RecordsTyped
  <2> QED  BY <1>4, <2>3, OfficeTyped DEF Learn!Onboarded, Learn!students
<1> QED  BY <1>2, <1>3, <1>4

\* A step of the request w that issues no certificate.
LEMMA RequestTyped ==
  ASSUME LearnTyped, NEW w \in Students, UNCHANGED <<attempts, certificates>>,
         RecordsTyped', StudentsTyped', StudentSound(w)',
         \A v \in Students \ {w} : /\ taking'[v] = taking[v] /\ of'[v] = of[v]
                                   /\ paper'[v] = paper[v] /\ attempt'[v] = attempt[v],
         \/ taking'[w] # "attempted"
         \/ \A v \in Students \ {w} :
              taking[v] = "attempted" => <<of[v], paper[v]>> # <<of'[w], paper'[w]>>
  PROVE  LearnTyped'
<1>1. \A v \in Students : StudentSound(v)'
  <2>1. ASSUME NEW v \in Students \ {w} PROVE StudentSound(v)'
    BY <2>1 DEF LearnTyped, StudentSound, Learn!Enrolments
  <2> QED  BY <2>1
<1>2. ASSUME NEW u \in Students, NEW v \in Students, u # v PROVE StudentsApart(u, v)'
  <2>1. CASE u = w \/ v = w  BY <1>2, <2>1 DEF StudentsApart
  <2>2. CASE u # w /\ v # w  BY <1>2, <2>2 DEF StudentsApart, LearnTyped
  <2> QED  BY <2>1, <2>2
<1>3. Certified'  BY DEF LearnTyped, Certified, Tries, Learn!Enrolments
<1> QED  BY <1>1, <1>2, <1>3 DEF LearnTyped

\* The request w is answered.
LEMMA RespondTyped ==
  ASSUME StudentsTyped, NEW w \in Students, Learn!Respond(w)
  PROVE  /\ StudentsTyped' /\ taking'[w] = "idle"
         /\ \A v \in Students \ {w} : /\ taking'[v] = taking[v] /\ of'[v] = of[v]
                                      /\ paper'[v] = paper[v] /\ attempt'[v] = attempt[v]
BY CoursesAssumption DEF StudentsTyped, Learn!Respond, Learn!Enrolments

\* The requests that write no attempt.
LEMMA ProgressTyped ==
  ASSUME LearnTyped, NEW w \in Students,
         Learn!CommitProgress(w) \/ Learn!Abandon(w) \/ (\E n \in Learn!Enrolments : Learn!ReadStatus(w, n))
  PROVE  LearnTyped'
<1>1. RecordsTyped /\ StudentsTyped /\ Learn!Enrolments' = Learn!Enrolments
  BY DEF LearnTyped, Learn!Enrolments
<1>2. CASE Learn!CommitProgress(w) \/ Learn!Abandon(w)
  <2>1. Learn!Respond(w) /\ UNCHANGED <<attempts, certificates, course, mandatory, required>>
    BY <1>2 DEF Learn!CommitProgress, Learn!Abandon, Learn!catalogue, Learn!records
  <2>2. StudentSound(w)'  BY <1>1, <2>1, RespondTyped DEF StudentSound
  <2>3. CASE Learn!CommitProgress(w)
    <3>1. of[w] \in Learn!Enrolments  BY <2>3 DEF Learn!CommitProgress, LearnTyped, StudentSound
    <3>2. RecordsTyped'  BY <1>1, <2>1, <2>3, <3>1 DEF RecordsTyped, Learn!CommitProgress
    <3> QED  BY <1>1, <2>1, <2>2, <3>2, RespondTyped, RequestTyped
  <2>4. CASE Learn!Abandon(w)
    <3>1. RecordsTyped'  BY <1>1, <2>1, <2>4 DEF RecordsTyped, Learn!Abandon, Learn!records
    <3> QED  BY <1>1, <2>1, <2>2, <3>1, RespondTyped, RequestTyped
  <2> QED  BY <1>2, <2>3, <2>4
<1>3. ASSUME NEW n \in Learn!Enrolments, Learn!ReadStatus(w, n) PROVE LearnTyped'
  <2>1. /\ taking' = [taking EXCEPT ![w] = "learning"] /\ of' = [of EXCEPT ![w] = n]
        /\ status' = [status EXCEPT ![w] = enrolment[n]] /\ UNCHANGED <<paper, attempt>>
        /\ UNCHANGED <<course, mandatory, required, enrolment, attempts, certificates,
               overtaken>>
    BY <1>3 DEF Learn!ReadStatus, Learn!catalogue, Learn!records
  <2>2. RecordsTyped' /\ StudentsTyped'  BY <1>1, <2>1 DEF RecordsTyped, StudentsTyped
  <2>3. StudentSound(w)' /\ taking'[w] # "attempted"
    BY <1>1, <2>1 DEF StudentSound, StudentsTyped
  <2>4. \A v \in Students \ {w} : /\ taking'[v] = taking[v] /\ of'[v] = of[v]
                                  /\ paper'[v] = paper[v] /\ attempt'[v] = attempt[v]
    BY <1>1, <2>1 DEF StudentsTyped
  <2> QED  BY <2>1, <2>2, <2>3, <2>4, RequestTyped
<1> QED  BY <1>2, <1>3

\* An attempt is numbered, and inserted if it is the next.
LEMMA AttemptTyped ==
  ASSUME LearnTyped, NEW w \in Students,
         \/ Learn!InsertAttempt(w)
         \/ \E n \in Learn!Enrolments, c \in Courses : Learn!NumberAttempt(w, n, c)
  PROVE  LearnTyped'
<1>1. RecordsTyped /\ StudentsTyped /\ Learn!Enrolments' = Learn!Enrolments
  BY DEF LearnTyped, Learn!Enrolments
<1>2. CASE Learn!InsertAttempt(w)
  <2>1. /\ taking' = [taking EXCEPT ![w] = "attempted"] /\ taking[w] = "answering"
        /\ attempt[w] = attempts[of[w]][paper[w]] + 1
        /\ \A v \in Students \ {w} :
             taking[v] = "attempted" => <<of[v], paper[v]>> # <<of[w], paper[w]>>
        /\ UNCHANGED <<of, status, paper, attempt>>
        /\ UNCHANGED <<course, mandatory, required, enrolment, attempts, certificates,
               overtaken>>
    BY <1>2 DEF Learn!InsertAttempt, Learn!catalogue, Learn!records
  <2>2. RecordsTyped' /\ StudentsTyped'  BY <1>1, <2>1 DEF RecordsTyped, StudentsTyped
  <2>3. StudentSound(w)'  BY <1>1, <2>1 DEF StudentSound, StudentsTyped, LearnTyped
  <2>4. \A v \in Students \ {w} : /\ taking'[v] = taking[v] /\ of'[v] = of[v]
                                  /\ paper'[v] = paper[v] /\ attempt'[v] = attempt[v]
    BY <1>1, <2>1 DEF StudentsTyped
  <2> QED  BY <2>1, <2>2, <2>3, <2>4, RequestTyped
<1>3. ASSUME NEW n \in Learn!Enrolments, NEW c \in Courses, Learn!NumberAttempt(w, n, c)
      PROVE  LearnTyped'
  <2>1. /\ attempts[n][c] < MaxAttempts
        /\ taking' = [taking EXCEPT ![w] = "answering"] /\ of' = [of EXCEPT ![w] = n]
        /\ paper' = [paper EXCEPT ![w] = c]
               /\ attempt' = [attempt EXCEPT ![w] = attempts[n][c] + 1]
        /\ UNCHANGED status
        /\ UNCHANGED <<course, mandatory, required, enrolment, attempts, certificates,
               overtaken>>
    BY <1>3 DEF Learn!NumberAttempt, Learn!BeginAttempt, Learn!catalogue, Learn!records
  <2>2. attempts[n][c] + 1 \in 0..MaxAttempts  BY <1>1, <2>1, CoursesAssumption DEF RecordsTyped
  <2>3. RecordsTyped' /\ StudentsTyped'  BY <1>1, <2>1, <2>2 DEF RecordsTyped, StudentsTyped
  <2>4. StudentSound(w)' /\ taking'[w] # "attempted"
    BY <1>1, <2>1 DEF StudentSound, StudentsTyped
  <2>5. \A v \in Students \ {w} : /\ taking'[v] = taking[v] /\ of'[v] = of[v]
                                  /\ paper'[v] = paper[v] /\ attempt'[v] = attempt[v]
    BY <1>1, <2>1 DEF StudentsTyped
  <2> QED  BY <2>1, <2>3, <2>4, <2>5, RequestTyped
<1> QED  BY <1>2, <1>3

\* An attempt is committed: one try more, and at most one certificate.
LEMMA CommitAttemptTyped ==
  ASSUME LearnTyped, NEW w \in Students, NEW success
             \in BOOLEAN, Learn!CommitAttempt(w, success)
  PROVE  LearnTyped'
<1>1. PICK n, c, k : n = of[w] /\ c = paper[w] /\ k = attempt[w]  OBVIOUS
<1>2. /\ n \in Learn!Enrolments /\ c \in Courses /\ taking[w] = "attempted"
      /\ k = attempts[n][c] + 1 /\ k \in 1..MaxAttempts
  BY <1>1, CoursesAssumption
  DEF LearnTyped, StudentSound, StudentsTyped, RecordsTyped, Learn!CommitAttempt
<1>3. /\ attempts' = [attempts EXCEPT ![n][c] = k]
      /\ enrolment' = [enrolment EXCEPT ![n] = IF success THEN "completed" ELSE @]
      /\ certificates' = [certificates EXCEPT ![n] = IF success THEN @ + 1 ELSE @]
      /\ UNCHANGED <<course, mandatory, required, overtaken>>
      /\ Learn!Respond(w)
  BY <1>1 DEF Learn!CommitAttempt, Learn!catalogue
<1>4. RecordsTyped /\ StudentsTyped /\ Learn!Enrolments' = Learn!Enrolments
  BY DEF LearnTyped, Learn!Enrolments
<1>5. attempts' \in [Learn!Enrolments -> [Courses -> 0..MaxAttempts]]
  BY <1>2, <1>3, <1>4, CoursesAssumption DEF RecordsTyped
<1>6. ASSUME NEW e \in Learn!Enrolments, NEW d \in Courses
      PROVE  attempts'[e][d] = IF e = n /\ d = c THEN k ELSE attempts[e][d]
  BY <1>2, <1>3, <1>4 DEF RecordsTyped
<1>7. ASSUME NEW e \in Learn!Enrolments
      PROVE  /\ certificates'[e] \in Nat /\ certificates'[e] <= certificates[e] + 1
             /\ e # n => certificates'[e] = certificates[e]
  BY <1>2, <1>3, <1>4 DEF RecordsTyped
<1>8. certificates' \in [Learn!Enrolments -> Nat]
  <2>1. DOMAIN certificates' = Learn!Enrolments
            /\ certificates' = [e \in Learn!Enrolments |-> certificates'[e]]
    BY <1>3, <1>4 DEF RecordsTyped
  <2> QED  BY <1>7, <2>1
<1>9. RecordsTyped'  BY <1>2, <1>3, <1>4, <1>5, <1>8 DEF RecordsTyped
<1>10. StudentsTyped'  BY <1>3, <1>4, RespondTyped
<1>11. ASSUME NEW v \in Students PROVE StudentSound(v)'
  <2>1. CASE v = w  BY <1>3, <1>4, <2>1, RespondTyped DEF StudentSound
  <2>2. CASE v # w
    <3>1. /\ taking'[v] = taking[v] /\ of'[v] = of[v]
          /\ paper'[v] = paper[v] /\ attempt'[v] = attempt[v]
      BY <1>3, <1>4, <2>2, RespondTyped
    <3>2. StudentSound(v) /\ StudentsApart(v, w)  BY <2>2 DEF LearnTyped
    <3>3. taking[v] = "attempted" => of[v] # n \/ paper[v] # c
      BY <1>1, <1>2, <3>2 DEF StudentsApart
    <3> QED  BY <1>4, <1>6, <3>1, <3>2, <3>3 DEF StudentSound
  <2> QED  BY <2>1, <2>2
<1>12. ASSUME NEW u \in Students, NEW v \in Students, u # v PROVE StudentsApart(u, v)'
  <2>1. taking'[w] = "idle"  BY <1>3, <1>4, RespondTyped
  <2>2. CASE u = w \/ v = w  BY <2>1, <2>2 DEF StudentsApart
  <2>3. CASE u # w /\ v # w
    BY <1>3, <1>4, <1>12, <2>3, RespondTyped DEF StudentsApart, LearnTyped
  <2> QED  BY <2>2, <2>3
<1>13. ASSUME NEW e \in Learn!Enrolments PROVE certificates'[e] <= Cardinality(Tries(e)')
  <2>1. certificates[e] \in Nat /\ certificates[e] <= Cardinality(Tries(e))
    BY DEF LearnTyped, RecordsTyped, Certified
  <2>2. CASE e # n
    <3>1. Tries(e)' = Tries(e)  BY <1>6, <2>2 DEF Tries
    <3> QED  BY <1>7, <2>1, <2>2, <3>1
  <2>3. CASE e = n
    <3>1. <<c, k>> \notin Tries(e) /\ Tries(e)' = Tries(e) \cup {<<c, k>>}
      <4>1. \A d \in Courses : attempts[e][d] \in Nat
        BY <1>4, CoursesAssumption DEF RecordsTyped
      <4> QED  BY <1>2, <1>6, <2>3, <4>1 DEF Tries
    <3>2. Cardinality(Tries(e)') = Cardinality(Tries(e)) + 1  BY <3>1, TriesFinite, CountOneMore
    <3> QED  BY <1>7, <2>1, <3>2, TriesFinite
  <2> QED  BY <2>2, <2>3
<1>14. Certified'  BY <1>4, <1>13 DEF Certified
<1> QED  BY <1>9, <1>10, <1>11, <1>12, <1>14 DEF LearnTyped

\* In every behaviour of learning its tables have their types.
LEMMA LearningTyped == LearningSpec => []Learn!LearningTypeOK
<1>1. LearnTyped /\ [Learn!LearningNext]_learning => LearnTyped'
  <2> SUFFICES ASSUME LearnTyped, [Learn!LearningNext]_learning PROVE LearnTyped'  OBVIOUS
  <2>1. CASE UNCHANGED learning
    <3>1. RecordsTyped'  BY <2>1 DEF learning, LearnTyped, RecordsTyped, Learn!Enrolments
    <3> QED  BY <2>1, <3>1, OfficeTyped DEF learning
  <2>2. ASSUME NEW w \in Students,
               \/ \E n \in Learn!Enrolments :
                    Learn!ReadStatus(w, n) \/ \E c \in Courses : Learn!NumberAttempt(w, n, c)
               \/ Learn!CommitProgress(w) \/ Learn!InsertAttempt(w)
               \/ \E success \in BOOLEAN : Learn!CommitAttempt(w, success)
               \/ Learn!Abandon(w)
        PROVE  LearnTyped'
    BY <2>2, ProgressTyped, AttemptTyped, CommitAttemptTyped
  <2> QED  BY <2>1, <2>2, OfficeStepTyped DEF Learn!LearningNext
<1> QED  BY <1>1, LearnInitTyped, LearnTypes, PTL DEF LearningSpec
-----------------------------------------------------------------------------
\* Expenses.  Until it commits, an approval is the only one of its expense,
\* which is still submitted, by somebody else; and once it has inserted its
\* journal entry nobody else has or will have that number.

Settled == {x \in Expenses : expense[x] = "approved"}

Booked(a) == {x \in Settled : account[x] = a}

ApprovalUnderWay(o) ==
  /\ approving[o] # NoOfficer =>
       /\ expense[approving[o]] = "submitted"
       /\ submitted_by[approving[o]] # o
  /\ o \in entered =>
       /\ approving[o] # NoOfficer
       /\ \A x \in Settled : number[x] # number[approving[o]]

ApprovalsApart(o, p) ==
  /\ approving[o] # NoOfficer => approving[o] # approving[p]
  /\ o \in entered /\ p \in entered => number[approving[o]] # number[approving[p]]

BookInv ==
  /\ Expense!ExpensesTypeOK
  /\ \A x \in Expenses :
         expense[x] # "none" => account[x] \in Accounts /\ number[x] \in Numbers
  /\ entries = {<<x, number[x]>> : x \in Settled}
  /\ \A x, y \in Settled : number[x] = number[y] => x = y
  /\ \A x \in Settled : approved_by[x] # submitted_by[x]
  /\ \A a \in Accounts : debit[a] = Cardinality(Booked(a))
  /\ \A o \in Officers : ApprovalUnderWay(o)
  /\ \A o, p \in Officers : o # p => ApprovalsApart(o, p)

\* The cardinality of the journal is that of the library.
LEMMA ExpenseCard == \A S : Expense!Cardinality(S) = Cardinality(S)
BY DEF Expense!Cardinality, Cardinality

\* There is no expense to begin with, and none is entered.
LEMMA BookInitInv == Expense!ExpensesInit => BookInv
<1> SUFFICES ASSUME Expense!ExpensesInit PROVE BookInv  OBVIOUS
<1>1. Settled = {} /\ \A a : Booked(a) = {}  BY DEF Expense!ExpensesInit, Settled, Booked
<1>2. Expense!ExpensesTypeOK  BY DEF Expense!ExpensesInit, Expense!ExpensesTypeOK
<1>3. \A a \in Accounts : debit[a] = Cardinality(Booked(a))
  BY <1>1, FS_EmptySet DEF Expense!ExpensesInit
<1>4. entries = {<<x, number[x]>> : x \in Settled}  BY <1>1 DEF Expense!ExpensesInit
<1>5. \A o \in Officers : approving[o] = NoOfficer /\ o \notin entered
  BY DEF Expense!ExpensesInit
<1>6. \A x \in Expenses : expense[x] = "none"  BY DEF Expense!ExpensesInit
<1> QED  BY <1>1, <1>2, <1>3, <1>4, <1>5, <1>6 DEF BookInv, ApprovalUnderWay, ApprovalsApart

\* What is not approved does not touch the books.
LEMMA BooksKept ==
  ASSUME BookInv, Settled' = Settled, UNCHANGED <<approved_by, entries, debit>>,
         \A x \in Settled : /\ account'[x] = account[x] /\ number'[x] = number[x]
                             /\ submitted_by'[x] = submitted_by[x]
  PROVE  /\ entries' = {<<x, number'[x]>> : x \in Settled'}
         /\ \A x, y \in Settled' : number'[x] = number'[y] => x = y
         /\ \A x \in Settled' : approved_by'[x] # submitted_by'[x]
         /\ \A a \in Accounts : debit'[a] = Cardinality(Booked(a)')
<1>1. \A a : Booked(a)' = Booked(a)  BY DEF Booked
<1>2. {<<x, number'[x]>> : x \in Settled'} = {<<x, number[x]>> : x \in Settled}  OBVIOUS
<1> QED  BY <1>1, <1>2 DEF BookInv

\* A step that approves no expense.
LEMMA BookStepInv ==
  ASSUME BookInv, Expense!ExpensesTypeOK', Settled' = Settled,
         UNCHANGED <<approved_by, entries, debit>>,
         \A x \in Expenses : expense[x] # "none" =>
           /\ account'[x] = account[x] /\ number'[x] = number[x]
         \* What is submitted stays submitted by the same.
         , \A x \in Expenses : expense[x] \in {"submitted", "approved"} =>
             expense'[x] = expense[x] /\ submitted_by'[x] = submitted_by[x],
         \A x \in Expenses : expense'[x] # "none" =>
           account'[x] \in Accounts /\ number'[x] \in Numbers,
         \A o \in Officers : ApprovalUnderWay(o)',
         \A o, p \in Officers : o # p => ApprovalsApart(o, p)'
  PROVE  BookInv'
<1>1. \A x \in Settled : x \in Expenses /\ expense[x] = "approved"  BY DEF Settled
<1>2. \A x \in Settled : /\ account'[x] = account[x] /\ number'[x] = number[x]
                          /\ submitted_by'[x] = submitted_by[x]
  BY <1>1
<1> QED  BY <1>2, BooksKept DEF BookInv

\* The expenses that are approved are known to be of the right kind.
LEMMA CreateExpenseInv ==
  ASSUME BookInv, NEW x \in Expenses, NEW a \in Accounts, NEW n \in Numbers,
         Expense!CreateExpense(x, a, n)
  PROVE  BookInv'
<1>1. /\ expense[x] = "none" /\ expense' = [expense EXCEPT ![x] = "draft"]
      /\ account' = [account EXCEPT ![x] = a] /\ number' = [number EXCEPT ![x] = n]
      /\ UNCHANGED <<submitted_by, approved_by, entries, debit, approving, entered>>
  BY DEF Expense!CreateExpense
<1>2. Expense!ExpensesTypeOK /\ Expense!ExpensesTypeOK'
  BY <1>1 DEF BookInv, Expense!ExpensesTypeOK
<1>3. /\ expense'[x] = "draft" /\ account'[x] = a /\ number'[x] = n
      /\ \A y \in Expenses \ {x} : /\ expense'[y] = expense[y] /\ account'[y] = account[y]
                                   /\ number'[y] = number[y]
  BY <1>1, <1>2 DEF Expense!ExpensesTypeOK
<1>4. Settled' = Settled  BY <1>1, <1>3 DEF Settled
<1>5. \A o \in Officers : approving[o] # NoOfficer =>
        approving[o] \in Expenses \ {x} /\ number'[approving[o]] = number[approving[o]]
  BY <1>1, <1>2, <1>3 DEF BookInv, ApprovalUnderWay, Expense!ExpensesTypeOK
<1>6. \A y \in Settled : y \in Expenses \ {x}  BY <1>1 DEF Settled
<1>7. ASSUME NEW o \in Officers PROVE ApprovalUnderWay(o)'
  BY <1>1, <1>3, <1>4, <1>5, <1>6 DEF BookInv, ApprovalUnderWay
<1>8. ASSUME NEW o \in Officers, NEW p \in Officers, o # p PROVE ApprovalsApart(o, p)'
  BY <1>1, <1>5, <1>8 DEF BookInv, ApprovalsApart, ApprovalUnderWay
<1>9. \A y \in Expenses : expense'[y] # "none" =>
        account'[y] \in Accounts /\ number'[y] \in Numbers
  BY <1>3 DEF BookInv
<1> QED  BY <1>1, <1>2, <1>3, <1>4, <1>7, <1>8, <1>9, BookStepInv

\* A draft is submitted: no approval is under way for it.
LEMMA SubmitInv ==
  ASSUME BookInv, NEW o \in Officers, NEW x \in Expenses, Expense!Submit(o, x)
  PROVE  BookInv'
<1>1. /\ expense[x] = "draft" /\ expense' = [expense EXCEPT ![x] = "submitted"]
      /\ submitted_by' = [submitted_by EXCEPT ![x] = o]
      /\ UNCHANGED <<account, number, approved_by, entries, debit, approving, entered>>
  BY DEF Expense!Submit
<1>2. Expense!ExpensesTypeOK /\ Expense!ExpensesTypeOK'
  BY <1>1 DEF BookInv, Expense!ExpensesTypeOK
<1>3. /\ expense'[x] = "submitted"
      /\ \A y \in Expenses \ {x} :
             expense'[y] = expense[y] /\ submitted_by'[y] = submitted_by[y]
  BY <1>1, <1>2 DEF Expense!ExpensesTypeOK
<1>4. Settled' = Settled  BY <1>1, <1>3 DEF Settled
<1>5. \A p \in Officers : approving[p] # NoOfficer => approving[p] \in Expenses \ {x}
  BY <1>1, <1>2 DEF BookInv, ApprovalUnderWay, Expense!ExpensesTypeOK
<1>6. ASSUME NEW p \in Officers PROVE ApprovalUnderWay(p)'
  BY <1>1, <1>3, <1>4, <1>5 DEF BookInv, ApprovalUnderWay
<1>7. ASSUME NEW p \in Officers, NEW q \in Officers, p # q PROVE ApprovalsApart(p, q)'
  BY <1>1, <1>7 DEF BookInv, ApprovalsApart
<1>8. \A y \in Expenses : expense'[y] # "none" =>
        account'[y] \in Accounts /\ number'[y] \in Numbers
  BY <1>1, <1>3 DEF BookInv
<1> QED  BY <1>1, <1>2, <1>3, <1>4, <1>6, <1>7, <1>8, BookStepInv

\* The row is locked by the one that updates it.
LEMMA ApproveExpenseInv ==
  ASSUME BookInv, NEW o \in Officers, NEW x \in Expenses, Expense!ApproveExpense(o, x)
  PROVE  BookInv'
<1>1. /\ approving[o] = NoOfficer /\ expense[x] = "submitted" /\ submitted_by[x] # o
      /\ \A p \in Officers : approving[p] # x
      /\ approving' = [approving EXCEPT ![o] = x]
      /\ UNCHANGED <<expense, account, number, submitted_by, approved_by, entries, debit,
                     entered>>
  BY DEF Expense!ApproveExpense, Expense!expenses, Expense!Held
<1>2. Expense!ExpensesTypeOK /\ Expense!ExpensesTypeOK'
  BY <1>1 DEF BookInv, Expense!ExpensesTypeOK
<1>3. /\ approving'[o] = x /\ \A p \in Officers \ {o} : approving'[p] = approving[p]
      /\ o \notin entered /\ x # NoOfficer
  BY <1>1, <1>2, ExpensesAssumption DEF BookInv, ApprovalUnderWay, Expense!ExpensesTypeOK
<1>4. Settled' = Settled  BY <1>1 DEF Settled
<1>5. ASSUME NEW p \in Officers PROVE ApprovalUnderWay(p)'
  BY <1>1, <1>3, <1>4 DEF BookInv, ApprovalUnderWay
<1>6. ASSUME NEW p \in Officers, NEW q \in Officers, p # q PROVE ApprovalsApart(p, q)'
  BY <1>1, <1>3, <1>6 DEF BookInv, ApprovalsApart
<1>7. \A y \in Expenses :
          expense[y] # "none" => account[y] \in Accounts /\ number[y] \in Numbers
  BY DEF BookInv
<1> QED  BY <1>1, <1>2, <1>4, <1>5, <1>6, <1>7, BookStepInv

\* The unique index: the number is nobody else's.
LEMMA EnterInv ==
  ASSUME BookInv, NEW o \in Officers, Expense!Enter(o)
  PROVE  BookInv'
<1>1. /\ approving[o] # NoOfficer /\ o \notin entered
      /\ number[approving[o]] \notin {e[2] : e \in entries}
      /\ \A p \in entered : number[approving[p]] # number[approving[o]]
      /\ entered' = entered \cup {o}
      /\ UNCHANGED <<expense, account, number, submitted_by, approved_by, entries, debit,
                     approving>>
  BY DEF Expense!Enter, Expense!expenses
<1>2. Expense!ExpensesTypeOK /\ Expense!ExpensesTypeOK'
  BY <1>1 DEF BookInv, Expense!ExpensesTypeOK
<1>3. Settled' = Settled  BY <1>1 DEF Settled
<1>4. \A x \in Settled : number[x] # number[approving[o]]
  <2>1. ASSUME NEW x \in Settled PROVE number[x] \in {e[2] : e \in entries}
    <3>1. <<x, number[x]>> \in entries /\ <<x, number[x]>>[2] = number[x]  BY DEF BookInv
    <3> QED  BY <3>1
  <2> QED  BY <1>1, <2>1
<1>5. ASSUME NEW p \in Officers PROVE ApprovalUnderWay(p)'
  BY <1>1, <1>3, <1>4 DEF BookInv, ApprovalUnderWay
<1>6. ASSUME NEW p \in Officers, NEW q \in Officers, p # q PROVE ApprovalsApart(p, q)'
  BY <1>1, <1>6 DEF BookInv, ApprovalsApart
<1>7. \A y \in Expenses :
          expense[y] # "none" => account[y] \in Accounts /\ number[y] \in Numbers
  BY DEF BookInv
<1> QED  BY <1>1, <1>2, <1>3, <1>5, <1>6, <1>7, BookStepInv

\* An approval that is rolled back leaves its expense submitted.
LEMMA RollbackExpenseInv ==
  ASSUME BookInv, NEW o \in Officers, Expense!RollbackExpense(o)
  PROVE  BookInv'
<1>1. /\ approving' = [approving EXCEPT ![o] = NoOfficer] /\ entered' = entered \ {o}
      /\ UNCHANGED <<expense, account, number, submitted_by, approved_by, entries, debit>>
  BY DEF Expense!RollbackExpense, Expense!expenses, Expense!End
<1>2. Expense!ExpensesTypeOK /\ Expense!ExpensesTypeOK'
  BY <1>1 DEF BookInv, Expense!ExpensesTypeOK
<1>3. Settled' = Settled  BY <1>1 DEF Settled
<1>4. approving'[o] = NoOfficer /\ \A p \in Officers \ {o} : approving'[p] = approving[p]
  BY <1>1, <1>2 DEF Expense!ExpensesTypeOK
<1>5. ASSUME NEW p \in Officers PROVE ApprovalUnderWay(p)'
  BY <1>1, <1>3, <1>4 DEF BookInv, ApprovalUnderWay
<1>6. ASSUME NEW p \in Officers, NEW q \in Officers, p # q PROVE ApprovalsApart(p, q)'
  BY <1>1, <1>4, <1>6 DEF BookInv, ApprovalsApart
<1>7. \A y \in Expenses :
          expense[y] # "none" => account[y] \in Accounts /\ number[y] \in Numbers
  BY DEF BookInv
<1> QED  BY <1>1, <1>2, <1>3, <1>5, <1>6, <1>7, BookStepInv

\* The approval is booked: one expense, one entry and one debit more.
LEMMA CommitExpenseInv ==
  ASSUME BookInv, NEW o \in Officers, Expense!CommitExpense(o)
  PROVE  BookInv'
<1> DEFINE x == approving[o]
<1>1. /\ o \in entered /\ expense' = [expense EXCEPT ![x] = "approved"]
      /\ approved_by' = [approved_by EXCEPT ![x] = o]
      /\ entries' = entries \cup {<<x, number[x]>>}
      /\ debit' = [debit EXCEPT ![account[x]] = @ + 1]
      /\ approving' = [approving EXCEPT ![o] = NoOfficer] /\ entered' = entered \ {o}
      /\ UNCHANGED <<account, number, submitted_by>>
  BY DEF Expense!CommitExpense, Expense!End
<1>2. /\ Expense!ExpensesTypeOK
      /\ \A y \in Expenses :
             expense[y] # "none" => account[y] \in Accounts /\ number[y] \in Numbers
      /\ \A p \in Officers : ApprovalUnderWay(p)
      /\ \A p, q \in Officers : p # q => ApprovalsApart(p, q)
  BY DEF BookInv
<1>3. /\ x \in Expenses /\ expense[x] = "submitted" /\ submitted_by[x] # o
      /\ account[x] \in Accounts /\ number[x] \in Numbers
      /\ \A y \in Settled : number[y] # number[x]
  <2>1. x \in Expenses \cup {NoOfficer}  BY <1>2 DEF Expense!ExpensesTypeOK
  <2>2. x # NoOfficer /\ expense[x] = "submitted" /\ submitted_by[x] # o
        /\ \A y \in Settled : number[y] # number[x]
    BY <1>1, <1>2 DEF ApprovalUnderWay
  <2> QED  BY <1>2, <2>1, <2>2
<1> HIDE DEF x
<1>4. /\ expense'[x] = "approved" /\ \A y \in Expenses \ {x} : expense'[y] = expense[y]
      /\ approved_by'[x] = o /\ \A y \in Expenses \ {x} : approved_by'[y] = approved_by[y]
      /\ approving'[o] = NoOfficer /\ \A p \in Officers \ {o} : approving'[p] = approving[p]
  BY <1>1, <1>2, <1>3 DEF Expense!ExpensesTypeOK
<1>5. /\ debit \in [Accounts -> Nat] /\ debit'[account[x]] = debit[account[x]] + 1
      /\ \A a \in Accounts : a # account[x] => debit'[a] = debit[a]
  BY <1>1, <1>2, <1>3 DEF Expense!ExpensesTypeOK
<1>6. Settled' = Settled \cup {x} /\ x \notin Settled  BY <1>3, <1>4 DEF Settled
<1>7. Expense!ExpensesTypeOK'
  <2>1. /\ expense' \in [Expenses -> {"none", "draft", "submitted", "approved"}]
        /\ approved_by' \in [Expenses -> Officers \cup {NoOfficer}]
    BY <1>1, <1>2, <1>3 DEF Expense!ExpensesTypeOK
  <2>2. entries' \subseteq Expenses \X Numbers  BY <1>1, <1>2, <1>3 DEF Expense!ExpensesTypeOK
  <2>3. debit' \in [Accounts -> Nat]  BY <1>1, <1>3, <1>5
  <2>4. approving' \in [Officers -> Expenses \cup {NoOfficer}] /\ entered' \subseteq Officers
    BY <1>1, <1>2 DEF Expense!ExpensesTypeOK
  <2> QED  BY <1>1, <1>2, <2>1, <2>2, <2>3, <2>4 DEF Expense!ExpensesTypeOK
<1>8. entries' = {<<y, number'[y]>> : y \in Settled'}
  <2>1. entries = {<<y, number[y]>> : y \in Settled}  BY DEF BookInv
  <2> QED  BY <1>1, <1>6, <2>1
<1>9. \A y, z \in Settled' : number'[y] = number'[z] => y = z  BY <1>1, <1>3, <1>6 DEF BookInv
<1>10. \A y \in Settled' : approved_by'[y] # submitted_by'[y]
  <2>1. \A y \in Settled : approved_by[y] # submitted_by[y] /\ y \in Expenses
    BY DEF BookInv, Settled
  <2> QED  BY <1>1, <1>3, <1>4, <1>6, <2>1
<1>11. ASSUME NEW a \in Accounts PROVE debit'[a] = Cardinality(Booked(a)')
  <2>1. debit[a] = Cardinality(Booked(a))  BY DEF BookInv
  <2>2. CASE a = account[x]
    <3>1. Booked(a)' = Booked(a) \cup {x} /\ x \notin Booked(a) /\ Booked(a) \subseteq Expenses
      BY <1>1, <1>6, <2>2 DEF Booked, Settled
    <3>2. Cardinality(Booked(a)') = Cardinality(Booked(a)) + 1
      BY <3>1, ExpensesAssumption, CountOneMore
    <3> QED  BY <1>5, <2>1, <2>2, <3>2
  <2>3. CASE a # account[x]
    <3>1. Booked(a)' = Booked(a)  BY <1>1, <1>6, <2>3 DEF Booked
    <3> QED  BY <1>5, <2>1, <2>3, <3>1
  <2> QED  BY <2>2, <2>3
<1>12. ASSUME NEW p \in Officers PROVE ApprovalUnderWay(p)'
  <2>1. CASE p = o  BY <1>1, <1>4, <2>1 DEF ApprovalUnderWay
  <2>2. CASE p # o
    <3>1. /\ approving'[p] = approving[p] /\ (p \in entered' <=> p \in entered)
          /\ approving[p] # NoOfficer => approving[p] # x /\ approving[p] \in Expenses
          /\ p \in entered => number[approving[p]] # number[x]
      BY <1>1, <1>2, <1>4, <2>2 DEF ApprovalsApart, Expense!ExpensesTypeOK, x
    <3>2. ApprovalUnderWay(p)  BY <1>2
    <3> QED  BY <1>1, <1>4, <1>6, <3>1, <3>2 DEF ApprovalUnderWay
  <2> QED  BY <2>1, <2>2
<1>13. ASSUME NEW p \in Officers, NEW q \in Officers, p # q PROVE ApprovalsApart(p, q)'
  <2>1. ApprovalsApart(p, q)  BY <1>2, <1>13
  <2> QED  BY <1>1, <1>4, <2>1 DEF ApprovalsApart
<1>14. \A y \in Expenses : expense'[y] # "none" =>
         account'[y] \in Accounts /\ number'[y] \in Numbers
  BY <1>1, <1>2, <1>3, <1>4
<1> QED  BY <1>7, <1>8, <1>9, <1>10, <1>11, <1>12, <1>13, <1>14 DEF BookInv

\* Every step of the expenses keeps the invariant.
LEMMA BookNextInv ==
  ASSUME BookInv, [Expense!ExpensesNext]_expenses
  PROVE  BookInv'
<1>1. CASE UNCHANGED expenses
  BY <1>1 DEF expenses, BookInv, Expense!ExpensesTypeOK, ApprovalUnderWay, ApprovalsApart,
         Booked, Settled
<1>2. ASSUME NEW x \in Expenses, NEW a \in Accounts, NEW n \in Numbers,
             Expense!CreateExpense(x, a, n)
      PROVE  BookInv'
  BY <1>2, CreateExpenseInv
<1>3. ASSUME NEW o \in Officers, NEW x \in Expenses,
             Expense!Submit(o, x) \/ Expense!ApproveExpense(o, x)
      PROVE  BookInv'
  BY <1>3, SubmitInv, ApproveExpenseInv
<1>4. ASSUME NEW o \in Officers,
             Expense!Enter(o) \/ Expense!CommitExpense(o) \/ Expense!RollbackExpense(o)
      PROVE  BookInv'
  BY <1>4, EnterInv, CommitExpenseInv, RollbackExpenseInv
<1> QED  BY <1>1, <1>2, <1>3, <1>4 DEF Expense!ExpensesNext

\* The entries of the journal are as many as their numbers.
LEMMA BookAgrees == BookInv => Expense!JournalAgrees
<1> SUFFICES ASSUME BookInv PROVE Expense!JournalAgrees  OBVIOUS
<1>1. /\ entries = {<<x, number[x]>> : x \in Settled}
      /\ \A x, y \in Settled : number[x] = number[y] => x = y
      /\ \A x \in Settled : approved_by[x] # submitted_by[x]
      /\ \A a \in Accounts : debit[a] = Cardinality(Booked(a))
  BY DEF BookInv
<1>2. {e[1] : e \in entries} = Settled
  <2>1. \A x \in Settled : <<x, number[x]>> \in entries /\ <<x, number[x]>>[1] = x  BY <1>1
  <2>2. \A e \in entries : e[1] \in Settled  BY <1>1
  <2> QED  BY <2>1, <2>2
<1>3. Cardinality({e[2] : e \in entries}) = Cardinality(entries)
  <2> DEFINE N == {e[2] : e \in entries}
             f == [e \in entries |-> e[2]]
  <2>1. \A d, e \in entries : d[2] = e[2] => d = e  BY <1>1
  <2>2. f \in Bijection(entries, N)
    <3>1. f \in [entries -> N] /\ \A e \in entries : f[e] = e[2]  OBVIOUS
    <3>2. \A n \in N : \E e \in entries : e[2] = n  OBVIOUS
    <3>3. \A d, e \in entries : f[d] = f[e] => d = e  BY <2>1, <3>1
    <3> HIDE DEF f, N
    <3> QED  BY <3>1, <3>2, <3>3 DEF Bijection, Injection, Surjection, IsInjective
  <2>3. IsFiniteSet(Settled)  BY ExpensesAssumption, FS_Subset DEF Settled
  <2>4. IsFiniteSet(entries)
    <3> DEFINE g == [x \in Settled |-> <<x, number[x]>>]
    <3>1. g \in Surjection(Settled, entries)  BY <1>1 DEF Surjection
    <3> QED  BY <2>3, <3>1, FS_Surjection
  <2>5. ExistsBijection(entries, N)  BY <2>2 DEF ExistsBijection
  <2> QED  BY <2>4, <2>5, FS_Bijection
<1>4. \A a : Booked(a) = {x \in Settled : account[x] = a}  BY DEF Booked
<1> QED  BY <1>1, <1>2, <1>3, <1>4, ExpenseCard DEF Expense!JournalAgrees, Settled

\* The invariant of the expenses holds in all of their behaviours.
THEOREM BookInvariance == ExpensesSpec => []BookInv
<1>1. BookInv /\ [Expense!ExpensesNext]_expenses => BookInv'  BY BookNextInv
<1> QED  BY BookInitInv, <1>1, PTL DEF ExpensesSpec
-----------------------------------------------------------------------------
\* Erasures.  Whoever executes a request has found it approved, and none
\* begins once one has committed: those that were under way then are all that
\* can still be logged.

Executions(q) == {v \in Runners : executing[v] = q}

RequestSound(q) ==
  /\ plea[q] # "executed" => q \notin erased /\ log[q] = 0
  /\ plea[q] = "executed" => (q \in erased <=> kind[q] = "employee")
  /\ q \in erased => /\ log[q] > 0
                     /\ log[q] + Cardinality(Executions(q)) <= atfirst[q]
  /\ Executions(q) # {} => plea[q] \in {"approved", "executed"}

EraseInv ==
  /\ Erase!ErasureTypeOK
  /\ \A q \in Pleas : RequestSound(q)

\* The cardinality of the erasures is that of the library.
LEMMA EraseCard == \A S : Erase!Cardinality(S) = Cardinality(S)
BY DEF Erase!Cardinality, Cardinality

\* The executions of a request are finitely many.
LEMMA ExecutionsFinite ==
  \A q : /\ IsFiniteSet(Executions(q)) /\ Cardinality(Executions(q)) \in Nat
         /\ Cardinality(Executions(q)) <= Cardinality(Runners)
         /\ Cardinality(Runners) \in Nat
<1>1. ASSUME NEW q PROVE Executions(q) \in SUBSET Runners  BY DEF Executions
<1> QED  BY <1>1, RunnersAssumption, FS_Subset, FS_CardinalityType

\* There is no request to begin with, and nothing is logged.
LEMMA EraseInitInv == Erase!ErasureInit => EraseInv
<1> SUFFICES ASSUME Erase!ErasureInit PROVE EraseInv  OBVIOUS
<1>1. Erase!ErasureTypeOK
  BY ExecutionsFinite, EraseCard DEF Erase!ErasureInit, Erase!ErasureTypeOK
<1>2. ASSUME NEW q \in Pleas PROVE RequestSound(q)
  <2>1. Executions(q) = {}  BY RunnersAssumption DEF Erase!ErasureInit, Executions
  <2> QED  BY <2>1 DEF Erase!ErasureInit, RequestSound
<1> QED  BY <1>1, <1>2 DEF EraseInv

\* A step that leaves what a request is about alone, and begins no execution
\* of it.
LEMMA RequestKept ==
  ASSUME Erase!ErasureTypeOK, NEW q \in Pleas, RequestSound(q),
         plea'[q] = plea[q], kind'[q] = kind[q], q \in erased' <=> q \in erased,
         log'[q] = log[q], atfirst'[q] = atfirst[q],
         Executions(q)' \subseteq Executions(q)
  PROVE  RequestSound(q)'
<1>1. Cardinality(Executions(q)') <= Cardinality(Executions(q))  BY ExecutionsFinite, FS_Subset
<1>2. Cardinality(Executions(q)') \in Nat  BY ExecutionsFinite, FS_Subset, FS_CardinalityType
<1>3. log[q] \in Nat /\ atfirst[q] \in Nat /\ Cardinality(Executions(q)) \in Nat
  BY ExecutionsFinite, EraseCard DEF Erase!ErasureTypeOK
<1> QED  BY <1>1, <1>2, <1>3 DEF RequestSound

\* A request that nobody executes is recorded or approved.
LEMMA RecordedInv ==
  ASSUME EraseInv, NEW q \in Pleas, NEW o \in Staff,
         \/ \E data \in Erase!Kinds : Erase!Record(q, o, data)
         \/ Erase!ApproveErasure(q, o)
  PROVE  EraseInv'
<1>1. /\ plea[q] \in {"none", "pending_assessment"}
      /\ \E s \in {"pending_assessment", "approved"} : plea' = [plea EXCEPT ![q] = s]
      /\ UNCHANGED <<erased, log, executing, atfirst>>
  BY DEF Erase!Record, Erase!ApproveErasure
<1>2. /\ \/ kind' = kind
         \/ \E s \in Erase!Kinds : kind' = [kind EXCEPT ![q] = s]
      /\ \/ recorder' = recorder
         \/ recorder' = [recorder EXCEPT ![q] = o]
  BY DEF Erase!Record, Erase!ApproveErasure
<1>3. Erase!ErasureTypeOK /\ \A p \in Pleas : RequestSound(p)  BY DEF EraseInv
<1>4. Erase!ErasureTypeOK'
  <2>1. plea' \in [Pleas -> {"none", "pending_assessment", "approved", "executed"}]
    BY <1>1, <1>3 DEF Erase!ErasureTypeOK
  <2>2. kind' \in [Pleas -> Erase!Kinds \cup {NoPlea}]  BY <1>2, <1>3 DEF Erase!ErasureTypeOK
  <2>3. recorder' \in [Pleas -> Staff \cup {NoPlea}]  BY <1>2, <1>3 DEF Erase!ErasureTypeOK
  <2> QED  BY <1>1, <1>3, <2>1, <2>2, <2>3 DEF Erase!ErasureTypeOK
<1>5. /\ plea'[q] \in {"pending_assessment", "approved"}
      /\ \A p \in Pleas \ {q} : plea'[p] = plea[p] /\ kind'[p] = kind[p]
  BY <1>1, <1>2, <1>3 DEF Erase!ErasureTypeOK
<1>6. \A p \in Pleas : Executions(p)' = Executions(p)  BY <1>1 DEF Executions
<1>7. RequestSound(q)'
  <2>1. RequestSound(q) /\ Executions(q) = {} /\ q \notin erased /\ log[q] = 0
    BY <1>1, <1>3 DEF RequestSound
  <2> QED  BY <1>1, <1>5, <1>6, <2>1 DEF RequestSound
<1>8. ASSUME NEW p \in Pleas \ {q} PROVE RequestSound(p)'
  BY <1>1, <1>3, <1>5, <1>6, RequestKept
<1> QED  BY <1>4, <1>7, <1>8 DEF EraseInv

\* An execution begins while the request is approved: nobody has committed yet.
LEMMA BeginExecutionInv ==
  ASSUME EraseInv, NEW u \in Runners, NEW q \in Pleas, Erase!BeginExecution(u, q)
  PROVE  EraseInv'
<1>1. /\ executing[u] = NoPlea /\ plea[q] = "approved"
      /\ executing' = [executing EXCEPT ![u] = q]
      /\ UNCHANGED <<plea, kind, recorder, erased, log, atfirst>>
  BY DEF Erase!BeginExecution
<1>2. Erase!ErasureTypeOK /\ \A p \in Pleas : RequestSound(p)  BY DEF EraseInv
<1>3. Erase!ErasureTypeOK'  BY <1>1, <1>2 DEF Erase!ErasureTypeOK
<1>4. \A p \in Pleas : p # q => Executions(p)' \subseteq Executions(p)
  BY <1>1, <1>2 DEF Executions, Erase!ErasureTypeOK
<1>5. RequestSound(q)'  BY <1>1, <1>2 DEF RequestSound
<1>6. ASSUME NEW p \in Pleas \ {q} PROVE RequestSound(p)'  BY <1>1, <1>2, <1>4, RequestKept
<1> QED  BY <1>3, <1>5, <1>6 DEF EraseInv

\* An execution that is rolled back leaves its request as it was.
LEMMA RollbackExecutionInv ==
  ASSUME EraseInv, NEW u \in Runners, Erase!RollbackExecution(u)
  PROVE  EraseInv'
<1>1. /\ executing[u] # NoPlea /\ executing' = [executing EXCEPT ![u] = NoPlea]
      /\ UNCHANGED <<plea, kind, recorder, erased, log, atfirst>>
  BY DEF Erase!RollbackExecution
<1>2. Erase!ErasureTypeOK /\ \A p \in Pleas : RequestSound(p)  BY DEF EraseInv
<1>3. Erase!ErasureTypeOK'  BY <1>1, <1>2 DEF Erase!ErasureTypeOK
<1>4. \A p \in Pleas : Executions(p)' \subseteq Executions(p)
  BY <1>1, <1>2, RunnersAssumption DEF Executions, Erase!ErasureTypeOK
<1> QED  BY <1>1, <1>2, <1>3, <1>4, RequestKept DEF EraseInv

\* The first that commits sees the others; each that follows is one of them.
LEMMA CommitExecutionInv ==
  ASSUME EraseInv, NEW u \in Runners, Erase!CommitExecution(u)
  PROVE  EraseInv'
<1>0. PICK q : q = executing[u]  OBVIOUS
<1>1. /\ q # NoPlea /\ plea' = [plea EXCEPT ![q] = "executed"]
      /\ erased' = IF kind[q] = "employee" THEN erased \cup {q} ELSE erased
      /\ log' = [log EXCEPT ![q] = IF kind[q] = "employee" THEN @ + 1 ELSE @]
      /\ atfirst' = [atfirst EXCEPT ![q] = IF plea[q] = "executed" THEN @
                                           ELSE Cardinality(Executions(q))]
      /\ executing' = [executing EXCEPT ![u] = NoPlea]
      /\ UNCHANGED <<kind, recorder>>
  BY <1>0, EraseCard DEF Erase!CommitExecution, Executions
<1>2. Erase!ErasureTypeOK /\ \A p \in Pleas : RequestSound(p)  BY DEF EraseInv
<1>3. q \in Pleas  BY <1>0, <1>1, <1>2 DEF Erase!ErasureTypeOK
<1>4. u \in Executions(q) /\ Executions(q)' = Executions(q) \ {u}
  BY <1>0, <1>1, <1>2 DEF Executions, Erase!ErasureTypeOK
<1>5. /\ IsFiniteSet(Executions(q)) /\ Cardinality(Executions(q)) \in Nat
      /\ Cardinality(Executions(q)) <= Cardinality(Runners) /\ Cardinality(Runners) \in Nat
      /\ Cardinality(Executions(q)') = Cardinality(Executions(q)) - 1
  BY <1>4, ExecutionsFinite, FS_RemoveElement
<1>6. /\ log \in [Pleas -> Nat] /\ atfirst \in [Pleas -> 0..Cardinality(Runners)]
  BY <1>2, EraseCard DEF Erase!ErasureTypeOK
<1>7. /\ plea'[q] = "executed" /\ atfirst'[q] \in 0..Cardinality(Runners)
      /\ log'[q] = IF kind[q] = "employee" THEN log[q] + 1 ELSE log[q]
      /\ atfirst'[q] = IF plea[q] = "executed" THEN atfirst[q]
                       ELSE Cardinality(Executions(q))
      /\ \A p \in Pleas \ {q} : /\ plea'[p] = plea[p] /\ log'[p] = log[p]
                                /\ atfirst'[p] = atfirst[p]
                                /\ (p \in erased' <=> p \in erased)
  BY <1>1, <1>2, <1>3, <1>5, <1>6 DEF Erase!ErasureTypeOK
<1>8. Erase!ErasureTypeOK'
  <2>1. plea' \in [Pleas -> {"none", "pending_assessment", "approved", "executed"}]
        /\ executing' \in [Runners -> Pleas \cup {NoPlea}]
    BY <1>1, <1>2 DEF Erase!ErasureTypeOK
  <2>2. log' \in [Pleas -> Nat]
    <3>1. log'[q] \in Nat  BY <1>3, <1>6, <1>7
    <3> QED  BY <1>1, <1>6, <3>1
  <2>3. atfirst' \in [Pleas -> 0..Cardinality(Runners)]  BY <1>1, <1>6, <1>7
  <2>4. erased' \subseteq Pleas  BY <1>1, <1>2, <1>3 DEF Erase!ErasureTypeOK
  <2> QED  BY <1>1, <1>2, <2>1, <2>2, <2>3, <2>4, EraseCard DEF Erase!ErasureTypeOK
<1>9. RequestSound(q)'
  <2>1. RequestSound(q) /\ log[q] \in Nat /\ atfirst[q] \in Nat  BY <1>2, <1>3, <1>5, <1>6
  <2>2. q \in erased' => log'[q] > 0 /\ log'[q] + Cardinality(Executions(q)') <= atfirst'[q]
    <3>1. CASE plea[q] = "executed"  BY <1>1, <1>5, <1>7, <2>1, <3>1 DEF RequestSound
    <3>2. CASE plea[q] # "executed"  BY <1>1, <1>5, <1>7, <2>1, <3>2 DEF RequestSound
    <3> QED  BY <3>1, <3>2
  <2>3. q \in erased' <=> kind'[q] = "employee"  BY <1>1, <2>1 DEF RequestSound
  <2> QED  BY <1>7, <2>2, <2>3 DEF RequestSound
<1>10. ASSUME NEW p \in Pleas \ {q} PROVE RequestSound(p)'
  <2>1. Executions(p)' \subseteq Executions(p)
    BY <1>1, <1>2, RunnersAssumption DEF Executions, Erase!ErasureTypeOK
  <2> QED  BY <1>1, <1>2, <1>7, <2>1, RequestKept
<1> QED  BY <1>8, <1>9, <1>10 DEF EraseInv

\* Every step of the erasures keeps the invariant.
LEMMA EraseNextInv ==
  ASSUME EraseInv, [Erase!ErasureNext]_erasures
  PROVE  EraseInv'
<1>1. CASE UNCHANGED erasures
  <2>1. \A q \in Pleas : Executions(q)' = Executions(q)  BY <1>1 DEF erasures, Executions
  <2> QED  BY <1>1, <2>1 DEF erasures, EraseInv, Erase!ErasureTypeOK, RequestSound
<1>2. ASSUME NEW q \in Pleas, NEW o \in Staff,
             \/ \E data \in Erase!Kinds : Erase!Record(q, o, data)
             \/ Erase!ApproveErasure(q, o)
      PROVE  EraseInv'
  BY <1>2, RecordedInv
<1>3. ASSUME NEW u \in Runners, NEW q \in Pleas, Erase!BeginExecution(u, q)
      PROVE  EraseInv'
  BY <1>3, BeginExecutionInv
<1>4. ASSUME NEW u \in Runners, Erase!CommitExecution(u) \/ Erase!RollbackExecution(u)
      PROVE  EraseInv'
  BY <1>4, CommitExecutionInv, RollbackExecutionInv
<1> QED  BY <1>1, <1>2, <1>3, <1>4 DEF Erase!ErasureNext

\* The invariant of the erasures holds in all of their behaviours.
THEOREM EraseInvariance == ErasureSpec => []EraseInv
<1>1. EraseInv /\ [Erase!ErasureNext]_erasures => EraseInv'  BY EraseNextInv
<1> QED  BY EraseInitInv, <1>1, PTL DEF ErasureSpec

\* DecisionsBooked (coa-expenses and erasure-requests): in every behaviour of the
\* back office.
THEOREM DecisionsBookedAlways == Spec => []DecisionsBooked
<1>1. EraseInv => Erase!ExecutedOnce
  <2> SUFFICES ASSUME EraseInv, NEW q \in Pleas
               PROVE  /\ plea[q] = "executed" /\ kind[q] = "employee" <=> q \in erased
                      /\ q \in erased => log[q] \in 1..atfirst[q]
    BY DEF Erase!ExecutedOnce
  <2>1. /\ RequestSound(q) /\ log[q] \in Nat /\ atfirst[q] \in Nat
        /\ Cardinality(Executions(q)) \in Nat
    BY ExecutionsFinite, EraseCard DEF EraseInv, Erase!ErasureTypeOK
  <2> QED  BY <2>1 DEF RequestSound
<1>2. BookInv /\ EraseInv => DecisionsBooked  BY <1>1, BookAgrees DEF DecisionsBooked
<1> QED  BY Parts, BookInvariance, EraseInvariance, <1>2, PTL
-----------------------------------------------------------------------------
\* The queue of reports.  A job is locked by one claim at most, and queued
\* while it is; and whoever completes a claim that began while a tenant was
\* waiting is behind that tenant from then on, so that of each tenant no more
\* is counted than can have been under way at once.

Held(w) == claimed[w] # NoJob
Asking(o) == {c \in Clients : asks[c] # NoJob /\ Reports!Org(asks[c]) = o}

QueueTyped ==
  /\ state \in [Jobs -> {"none", "queued", "completed", "failed"}]
  /\ created \in Seq(Jobs)
  /\ served \in [Orgs -> 0..MaxClaims] /\ claims \in 0..MaxClaims
  /\ artifacts \subseteq Jobs \X Formats /\ files \subseteq Jobs \X Formats
  /\ asks \in [Clients -> Jobs \cup {NoJob}]
  /\ claimed \in [Workers -> Jobs \cup {NoJob}]
  /\ began \in [Workers -> 0..MaxClaims]
  /\ stored \in [Workers -> SUBSET Formats]
  /\ waiting \in [Workers -> SUBSET Orgs]
  /\ passed \in [Orgs -> Nat]

\* A job that is asked for is not there yet; one that is claimed is queued.
JobsSound ==
  /\ \A c \in Clients : asks[c] # NoJob =>
       /\ state[asks[c]] = "none"
       /\ \A d \in Clients \ {c} : asks[d] # asks[c]
  /\ \A w \in Workers : Held(w) =>
       /\ state[claimed[w]] = "queued"
       /\ \A v \in Workers \ {w} : claimed[v] # claimed[w]
       /\ \A f \in stored[w] : <<claimed[w], f>> \in files
  /\ \A w \in Workers : ~ Held(w) => stored[w] = {}

QuotaKept ==
  \A o \in Orgs :
    Cardinality(Reports!QueuedOf(o)) + Cardinality(Asking(o))
      <= MaxQueued - 1 + Cardinality(Clients)

\* Claims are in the order of their time, and w is later than all of a tenant
\* that waits for it.
ClaimsOrdered ==
  /\ \A w \in Workers : Held(w) => began[w] <= claims
  /\ \A o \in Orgs : served[o] <= claims
  /\ \A w \in Workers : \A o \in waiting[w] :
       /\ Held(w) /\ Reports!Org(claimed[w]) # o /\ served[o] < began[w]
       /\ \A v \in Workers :
            Held(v) /\ Reports!Org(claimed[v]) = o => began[v] < began[w]

\* Tenants that are behind o, and their claims that o is waiting for.
Behind(o) ==
  {p \in Orgs \ {o} :
     /\ served[p] > served[o]
     /\ \A v \in Workers :
          Held(v) /\ Reports!Org(claimed[v]) = o => began[v] < served[p]}
Chased(o) == {w \in Workers : o \in waiting[w] /\ Reports!Org(claimed[w]) \in Behind(o)}

PassesKept ==
  \A o \in Orgs :
    passed[o] + Cardinality(Chased(o)) <= Cardinality(Workers) * Cardinality(Behind(o))

QueueInv ==
  /\ QueueTyped /\ JobsSound /\ QuotaKept /\ ClaimsOrdered /\ PassesKept
  /\ Reports!ReportsWhole

\* Cardinality is the same operator in the module of the queue.
LEMMA QueueCard == \A S : Reports!Cardinality(S) = Cardinality(S)
BY DEF Reports!Cardinality, Cardinality

\* The tenants and the jobs of the instance are few, and a job has a tenant.
LEMMA JobsFinite ==
  /\ IsFiniteSet(Orgs) /\ IsFiniteSet(Jobs)
  /\ \A j \in Jobs : Reports!Org(j) \in Orgs
<1>1. IsFiniteSet(Orgs)
  <2>1. Orgs = ({} \cup {1}) \cup {2}  BY DEF Orgs
  <2> QED  BY <2>1, FS_EmptySet, FS_AddElement
<1>2. IsFiniteSet(Jobs)
  <2>1. Jobs = (({} \cup {<<1, 1>>}) \cup {<<1, 2>>}) \cup {<<1, 3>>} \cup {<<2, 1>>}
    BY DEF Jobs
  <2> QED  BY <2>1, FS_EmptySet, FS_AddElement
<1>3. \A j \in Jobs : Reports!Org(j) \in Orgs  BY DEF Jobs, Orgs, Reports!Org
<1> QED  BY <1>1, <1>2, <1>3

\* The sets that are counted are finite.
LEMMA QueueCounts ==
  ASSUME NEW o \in Orgs
  PROVE  /\ IsFiniteSet(Reports!QueuedOf(o)) /\ Cardinality(Reports!QueuedOf(o)) \in Nat
         /\ IsFiniteSet(Asking(o)) /\ Cardinality(Asking(o)) \in Nat
         /\ Cardinality(Asking(o)) <= Cardinality(Clients) /\ Cardinality(Clients) \in Nat
         /\ IsFiniteSet(Behind(o)) /\ Cardinality(Behind(o)) \in Nat
         /\ Cardinality(Behind(o)) + 1 <= Cardinality(Orgs) /\ Cardinality(Orgs) \in Nat
         /\ IsFiniteSet(Chased(o)) /\ Cardinality(Chased(o)) \in Nat
         /\ Cardinality(Workers) \in Nat
<1>1. Reports!QueuedOf(o) \subseteq Jobs  BY DEF Reports!QueuedOf
<1>2. Asking(o) \subseteq Clients  BY DEF Asking
<1>3. Behind(o) \subseteq Orgs /\ o \notin Behind(o)  BY DEF Behind
<1>4. Chased(o) \subseteq Workers  BY DEF Chased
<1> QED  BY <1>1, <1>2, <1>3, <1>4, PartCounts, JobsFinite, QueueAssumption

\* At first there is nothing.
LEMMA QueueInitInv == Reports!QueueInit => QueueInv
<1> SUFFICES ASSUME Reports!QueueInit PROVE QueueInv  OBVIOUS
<1>1. /\ state = [j \in Jobs |-> "none"] /\ created = <<>>
      /\ served = [o \in Orgs |-> 0] /\ artifacts = {} /\ files = {}
      /\ asks = [c \in Clients |-> NoJob] /\ claims = 0
      /\ claimed = [w \in Workers |-> NoJob] /\ began = [w \in Workers |-> 0]
      /\ stored = [w \in Workers |-> {}] /\ waiting = [w \in Workers |-> {}]
      /\ passed = [o \in Orgs |-> 0]
  BY DEF Reports!QueueInit
<1>2. 0 \in 0..MaxClaims  BY QueueAssumption
<1>3. QueueTyped  BY <1>1, <1>2 DEF QueueTyped
<1>4. JobsSound  BY <1>1 DEF JobsSound, Held
<1>5. ASSUME NEW o \in Orgs
      PROVE  /\ Cardinality(Reports!QueuedOf(o)) + Cardinality(Asking(o))
                  <= MaxQueued - 1 + Cardinality(Clients)
             /\ passed[o] + Cardinality(Chased(o))
                  <= Cardinality(Workers) * Cardinality(Behind(o))
  <2>1. Reports!QueuedOf(o) = {}  BY <1>1 DEF Reports!QueuedOf
  <2>2. Asking(o) = {}  BY <1>1 DEF Asking
  <2>3. Chased(o) = {}  BY <1>1 DEF Chased
  <2>4. passed[o] = 0  BY <1>1
  <2>5. Cardinality(Workers) * Cardinality(Behind(o)) \in Nat  BY QueueCounts
  <2> QED  BY <2>1, <2>2, <2>3, <2>4, <2>5, QueueCounts, FS_EmptySet, QueueAssumption
<1>6. ClaimsOrdered  BY <1>1 DEF ClaimsOrdered, Held
<1>7. Reports!ReportsWhole  BY <1>1 DEF Reports!ReportsWhole
<1> QED  BY <1>3, <1>4, <1>5, <1>6, <1>7 DEF QueueInv, QuotaKept, PassesKept

\* Nothing about claims has changed.
LEMMA PassesSame ==
  ASSUME QueueInv, UNCHANGED <<served, claims, claimed, began, waiting, passed>>
  PROVE  ClaimsOrdered' /\ PassesKept'
<1>1. ClaimsOrdered'  BY DEF QueueInv, ClaimsOrdered, Held
<1>2. \A o \in Orgs : Behind(o)' = Behind(o)  BY DEF Behind, Held
<1>3. \A o \in Orgs : Chased(o)' = Chased(o)  BY <1>2 DEF Chased
<1> QED  BY <1>1, <1>2, <1>3 DEF QueueInv, PassesKept

\* Whole reports depend on the statuses and on what has been written.
LEMMA WholeSame ==
  ASSUME QueueInv, artifacts' = artifacts, files \subseteq files',
         \A j \in Jobs : \/ state'[j] = state[j]
                         \/ state[j] = "none" /\ state'[j] = "queued"
  PROVE  Reports!ReportsWhole'
BY DEF QueueInv, Reports!ReportsWhole

\* A request compares with the quota and is going to queue a job.
LEMMA CheckReportsInv ==
  ASSUME QueueInv, NEW c \in Clients, NEW j \in Jobs, Reports!CheckReports(c, j)
  PROVE  QueueInv'
<1>1. /\ asks[c] = NoJob /\ state[j] = "none" /\ \A d \in Clients : asks[d] # j
      /\ Cardinality(Reports!QueuedOf(Reports!Org(j))) < MaxQueued
      /\ asks' = [asks EXCEPT ![c] = j] /\ created' = Append(created, j)
      /\ UNCHANGED <<state, served, artifacts, files, claims, claimed, began, stored,
                     waiting, passed>>
  BY QueueCard DEF Reports!CheckReports, Reports!Drawn, Reports!claiming
<1>2. QueueTyped /\ JobsSound /\ QuotaKept /\ j # NoJob  BY NoJobAssumption DEF QueueInv
<1>3. asks' \in [Clients -> Jobs \cup {NoJob}]  BY <1>1, <1>2 DEF QueueTyped
<1>4. QueueTyped'  BY <1>1, <1>2, <1>3 DEF QueueTyped
<1>5. \A d \in Clients : asks'[d] = IF d = c THEN j ELSE asks[d]  BY <1>1, <1>2 DEF QueueTyped
<1>6. JobsSound'
  <2>1. ASSUME NEW d \in Clients, asks'[d] # NoJob
        PROVE  /\ state'[asks'[d]] = "none"
               /\ \A e \in Clients \ {d} : asks'[e] # asks'[d]
    BY <1>1, <1>2, <1>5, <2>1 DEF JobsSound
  <2>2. ASSUME NEW w \in Workers, Held(w)'
        PROVE  /\ state'[claimed'[w]] = "queued"
               /\ \A v \in Workers \ {w} : claimed'[v] # claimed'[w]
               /\ \A f \in stored'[w] : <<claimed'[w], f>> \in files'
    BY <1>1, <1>2, <2>2 DEF JobsSound, Held
  <2> QED  BY <1>1, <1>2, <2>1, <2>2 DEF JobsSound, Held
<1>7. ASSUME NEW o \in Orgs
      PROVE  Cardinality(Reports!QueuedOf(o))' + Cardinality(Asking(o))'
               <= MaxQueued - 1 + Cardinality(Clients)
  <2>1. Reports!QueuedOf(o)' = Reports!QueuedOf(o)  BY <1>1 DEF Reports!QueuedOf
  <2>2. CASE o = Reports!Org(j)
    <3>1. Asking(o)' \subseteq Clients  BY DEF Asking
    <3>2. Cardinality(Asking(o)') <= Cardinality(Clients) /\ Cardinality(Asking(o)') \in Nat
      BY <3>1, PartCounts, QueueAssumption
    <3>3. Cardinality(Reports!QueuedOf(o)) < MaxQueued  BY <1>1, <2>2
    <3> QED  BY <2>1, <3>2, <3>3, QueueCounts, QueueAssumption
  <2>3. CASE o # Reports!Org(j)
    <3>1. Asking(o)' = Asking(o)  BY <1>1, <1>2, <1>5, <2>3 DEF Asking
    <3> QED  BY <1>2, <2>1, <3>1 DEF QuotaKept
  <2> QED  BY <2>2, <2>3
<1>8. QuotaKept'  BY <1>7 DEF QuotaKept
<1> QED  BY <1>1, <1>4, <1>6, <1>8, PassesSame, WholeSame DEF QueueInv

\* The job is queued.
LEMMA EnqueueInv ==
  ASSUME QueueInv, NEW c \in Clients, Reports!Enqueue(c)
  PROVE  QueueInv'
<1>1. PICK j : j = asks[c]  OBVIOUS
<1>2. /\ j # NoJob /\ asks' = [asks EXCEPT ![c] = NoJob]
      /\ state' = [state EXCEPT ![j] = "queued"]
      /\ UNCHANGED <<created, served, artifacts, files, claims, claimed, began, stored,
                     waiting, passed>>
  BY <1>1 DEF Reports!Enqueue, Reports!claiming
<1>3. QueueTyped /\ JobsSound /\ QuotaKept  BY DEF QueueInv
<1>4. /\ j \in Jobs /\ state[j] = "none" /\ \A d \in Clients \ {c} : asks[d] # j
  BY <1>1, <1>2, <1>3 DEF QueueTyped, JobsSound
<1>5. \A i \in Jobs : state'[i] = IF i = j THEN "queued" ELSE state[i]
  BY <1>2, <1>3, <1>4 DEF QueueTyped
<1>6. \A d \in Clients : asks'[d] = IF d = c THEN NoJob ELSE asks[d]
  BY <1>2, <1>3 DEF QueueTyped
<1>7. QueueTyped'
  <2>1. asks' \in [Clients -> Jobs \cup {NoJob}]  BY <1>2, <1>3 DEF QueueTyped
  <2>2. state' \in [Jobs -> {"none", "queued", "completed", "failed"}]
    BY <1>2, <1>3 DEF QueueTyped
  <2> QED  BY <1>2, <1>3, <2>1, <2>2 DEF QueueTyped
<1>8. JobsSound'
  <2>1. ASSUME NEW d \in Clients, asks'[d] # NoJob
        PROVE  /\ state'[asks'[d]] = "none"
               /\ \A e \in Clients \ {d} : asks'[e] # asks'[d]
    <3>1. d # c /\ asks'[d] = asks[d] /\ asks[d] \in Jobs  BY <1>3, <1>6, <2>1 DEF QueueTyped
    <3> QED  BY <1>3, <1>4, <1>5, <1>6, <2>1, <3>1 DEF JobsSound
  <2>2. ASSUME NEW w \in Workers, Held(w)'
        PROVE  /\ state'[claimed'[w]] = "queued"
               /\ \A v \in Workers \ {w} : claimed'[v] # claimed'[w]
               /\ \A f \in stored'[w] : <<claimed'[w], f>> \in files'
    <3>1. Held(w) /\ claimed[w] \in Jobs  BY <1>2, <1>3, <2>2 DEF Held, QueueTyped
    <3> QED  BY <1>2, <1>3, <1>5, <3>1 DEF JobsSound
  <2> QED  BY <1>2, <1>3, <2>1, <2>2 DEF JobsSound, Held
<1>9. ASSUME NEW o \in Orgs
      PROVE  Cardinality(Reports!QueuedOf(o))' + Cardinality(Asking(o))'
               <= MaxQueued - 1 + Cardinality(Clients)
  <2>1. CASE o = Reports!Org(j)
    <3>1. Reports!QueuedOf(o)' = Reports!QueuedOf(o) \cup {j} /\ j \notin Reports!QueuedOf(o)
      BY <1>4, <1>5, <2>1 DEF Reports!QueuedOf
    <3>2. Cardinality(Reports!QueuedOf(o)') = Cardinality(Reports!QueuedOf(o)) + 1
      BY <3>1, QueueCounts, FS_AddElement
    <3>3. Asking(o)' \subseteq Asking(o) /\ c \in Asking(o) \ Asking(o)'
      BY <1>1, <1>2, <1>6, <2>1 DEF Asking
    <3>4. /\ Cardinality(Asking(o)') + 1 <= Cardinality(Asking(o))
          /\ Cardinality(Asking(o)') \in Nat
      BY <3>3, PartCounts, QueueCounts
    <3> QED  BY <1>3, <3>2, <3>4, QueueCounts, QueueAssumption DEF QuotaKept
  <2>2. CASE o # Reports!Org(j)
    <3>1. Reports!QueuedOf(o)' = Reports!QueuedOf(o)  BY <1>5, <2>2 DEF Reports!QueuedOf
    <3>2. Asking(o)' = Asking(o)  BY <1>1, <1>6, <2>2 DEF Asking
    <3> QED  BY <1>3, <3>1, <3>2 DEF QuotaKept
  <2> QED  BY <2>1, <2>2
<1>10. QuotaKept'  BY <1>9 DEF QuotaKept
<1>11. Reports!ReportsWhole'  BY <1>2, <1>4, <1>5, WholeSame
<1> QED  BY <1>2, <1>7, <1>8, <1>10, <1>11, PassesSame DEF QueueInv

\* A format is written.
LEMMA StoreArtifactInv ==
  ASSUME QueueInv, NEW w \in Workers, NEW f \in Formats, Reports!StoreArtifact(w, f)
  PROVE  QueueInv'
<1>1. /\ claimed[w] # NoJob /\ files' = files \cup {<<claimed[w], f>>}
      /\ stored' = [stored EXCEPT ![w] = @ \cup {f}]
      /\ UNCHANGED <<state, created, served, artifacts, asks, claims, claimed, began,
                     waiting, passed>>
  BY DEF Reports!StoreArtifact, Reports!queue
<1>2. QueueTyped /\ JobsSound /\ QuotaKept  BY DEF QueueInv
<1>3. QueueTyped'
  <2>1. stored' \in [Workers -> SUBSET Formats]  BY <1>1, <1>2 DEF QueueTyped
  <2>2. files' \subseteq Jobs \X Formats  BY <1>1, <1>2 DEF QueueTyped
  <2> QED  BY <1>1, <1>2, <2>1, <2>2 DEF QueueTyped
<1>4. JobsSound'
  <2>1. ASSUME NEW v \in Workers, NEW g \in stored'[v], claimed[v] # NoJob
        PROVE  <<claimed[v], g>> \in files'
    <3>1. g \in stored[v] \/ (v = w /\ g = f)  BY <1>1, <1>2, <2>1 DEF QueueTyped
    <3> QED  BY <1>1, <1>2, <2>1, <3>1 DEF JobsSound, Held
  <2> QED  BY <1>1, <1>2, <2>1 DEF JobsSound, Held
<1>5. QuotaKept'  BY <1>1, <1>2 DEF QuotaKept, Reports!QueuedOf, Asking
<1>6. Reports!ReportsWhole'  BY <1>1, WholeSame
<1> QED  BY <1>1, <1>3, <1>4, <1>5, <1>6, PassesSame DEF QueueInv

\* Whoever is counted past o was chased, or put its tenant behind o.
LEMMA PassStep ==
  ASSUME QueueInv, NEW o \in Orgs, NEW d \in {0, 1}, passed'[o] = passed[o] + d,
         Behind(o) \subseteq Behind(o)',
         Behind(o)' = Behind(o) => Chased(o)' \subseteq Chased(o),
         Behind(o)' = Behind(o) /\ d = 1 => \E w \in Chased(o) : w \notin Chased(o)',
         d = 1 => \E w \in Workers : w \notin Chased(o)'
  PROVE  passed'[o] + Cardinality(Chased(o)') <= Cardinality(Workers) * Cardinality(Behind(o)')
<1>1. /\ passed[o] + Cardinality(Chased(o)) <= Cardinality(Workers) * Cardinality(Behind(o))
      /\ passed[o] \in Nat
  BY DEF QueueInv, PassesKept, QueueTyped
<1>2. Behind(o)' \subseteq Orgs /\ Chased(o)' \subseteq Workers  BY DEF Behind, Chased
<1>3. /\ IsFiniteSet(Behind(o)') /\ Cardinality(Behind(o)') \in Nat
      /\ IsFiniteSet(Chased(o)') /\ Cardinality(Chased(o)') \in Nat
      /\ Cardinality(Chased(o)') <= Cardinality(Workers)
      /\ d = 1 => Cardinality(Chased(o)') + 1 <= Cardinality(Workers)
  BY <1>2, PartCounts, JobsFinite, QueueAssumption
<1>4. CASE Behind(o)' = Behind(o)
  <2>1. /\ Cardinality(Chased(o)') <= Cardinality(Chased(o))
        /\ d = 1 => Cardinality(Chased(o)') + 1 <= Cardinality(Chased(o))
    BY <1>4, PartCounts, QueueCounts
  <2>2. Cardinality(Chased(o)') + d <= Cardinality(Chased(o))  BY <2>1, <1>3, QueueCounts
  <2>3. Cardinality(Workers) * Cardinality(Behind(o)) \in Nat  BY QueueCounts
  <2> QED  BY <1>1, <1>3, <1>4, <2>2, <2>3, QueueCounts
<1>5. CASE Behind(o)' # Behind(o)
  <2>1. PICK p : p \in Behind(o)' \ Behind(o)  BY <1>5
  <2>2. Cardinality(Behind(o)) + 1 <= Cardinality(Behind(o)')  BY <2>1, <1>3, PartCounts
  <2>3. Cardinality(Workers) * Cardinality(Behind(o)')
          >= Cardinality(Workers) * Cardinality(Behind(o)) + Cardinality(Workers)
    BY <2>2, <1>3, QueueCounts, MoreBehind
  <2>4. Cardinality(Chased(o)') + d <= Cardinality(Workers)  BY <1>3, QueueCounts
  <2>5. /\ Cardinality(Workers) * Cardinality(Behind(o)) \in Nat
        /\ Cardinality(Workers) * Cardinality(Behind(o)') \in Nat
    BY <1>3, QueueCounts
  <2> QED  BY <1>1, <1>3, <2>3, <2>4, <2>5, QueueCounts
<1> QED  BY <1>4, <1>5

\* A claim locks the first job of the tenant that was served longest ago.
LEMMA ClaimInv ==
  ASSUME QueueInv, NEW w \in Workers, Reports!Claim(w)
  PROVE  QueueInv'
<1>1. PICK j \in Reports!Waiting :
        /\ \A i \in Reports!Waiting \ {j} : Reports!Before(j, i)
        /\ Reports!ClaimJob(w, j)
  BY DEF Reports!Claim
<1>2. PICK p : p = Reports!Org(j)  OBVIOUS
<1>3. /\ claimed[w] = NoJob /\ claims < MaxClaims
      /\ claims' = claims + 1 /\ claimed' = [claimed EXCEPT ![w] = j]
      /\ began' = [began EXCEPT ![w] = claims + 1]
      /\ waiting' = [v \in Workers |->
                       IF v = w THEN {Reports!Org(i) : i \in Reports!Waiting} \ {p}
                       ELSE waiting[v] \ {p}]
      /\ passed' = [passed EXCEPT ![p] = 0]
      /\ UNCHANGED <<state, created, served, artifacts, files, asks, stored>>
  BY <1>1, <1>2 DEF Reports!ClaimJob, Reports!queue
<1>4. QueueTyped /\ JobsSound /\ QuotaKept /\ ClaimsOrdered  BY DEF QueueInv
<1>5. /\ j \in Jobs /\ j # NoJob /\ p \in Orgs /\ state[j] = "queued"
      /\ \A v \in Workers : claimed[v] # j
  BY <1>2, JobsFinite, NoJobAssumption DEF Reports!Waiting
<1>6. /\ \A v \in Workers : claimed'[v] = IF v = w THEN j ELSE claimed[v]
      /\ \A v \in Workers : began'[v] = IF v = w THEN claims + 1 ELSE began[v]
      /\ \A o \in Orgs : passed'[o] = IF o = p THEN 0 ELSE passed[o]
  BY <1>3, <1>4, <1>5 DEF QueueTyped
<1>7. /\ \A v \in Workers \ {w} : waiting'[v] = waiting[v] \ {p}
      /\ waiting'[w] = {Reports!Org(i) : i \in Reports!Waiting} \ {p}
  BY <1>3
<1>8. QueueTyped'
  <2>1. claims' \in 0..MaxClaims /\ claims + 1 \in 0..MaxClaims
    BY <1>3, <1>4, QueueAssumption DEF QueueTyped
  <2>2. claimed' \in [Workers -> Jobs \cup {NoJob}]  BY <1>3, <1>4, <1>5 DEF QueueTyped
  <2>3. began' \in [Workers -> 0..MaxClaims]  BY <1>3, <1>4, <2>1 DEF QueueTyped
  <2>4. passed' \in [Orgs -> Nat]  BY <1>3, <1>4 DEF QueueTyped
  <2>5. {Reports!Org(i) : i \in Reports!Waiting} \subseteq Orgs
    BY JobsFinite DEF Reports!Waiting
  <2>6. waiting' \in [Workers -> SUBSET Orgs]  BY <1>3, <1>4, <2>5 DEF QueueTyped
  <2> QED  BY <1>3, <1>4, <2>1, <2>2, <2>3, <2>4, <2>6 DEF QueueTyped
<1>9. JobsSound'
  <2>1. ASSUME NEW c \in Clients, asks'[c] # NoJob
        PROVE  /\ state'[asks'[c]] = "none"
               /\ \A d \in Clients \ {c} : asks'[d] # asks'[c]
    BY <1>3, <1>4, <2>1 DEF JobsSound
  <2>2. ASSUME NEW v \in Workers, Held(v)'
        PROVE  /\ state'[claimed'[v]] = "queued"
               /\ \A u \in Workers \ {v} : claimed'[u] # claimed'[v]
               /\ \A f \in stored'[v] : <<claimed'[v], f>> \in files'
    BY <1>3, <1>4, <1>5, <1>6, <2>2 DEF JobsSound, Held
  <2>3. \A v \in Workers : ~ Held(v)' => stored'[v] = {}
    BY <1>3, <1>4, <1>5, <1>6 DEF JobsSound, Held
  <2> QED  BY <2>1, <2>2, <2>3 DEF JobsSound
<1>10. QuotaKept'  BY <1>3, <1>4 DEF QuotaKept, Reports!QueuedOf, Asking
<1>11. claims \in Nat /\ \A o \in Orgs : served[o] \in Nat
  BY <1>4, QueueAssumption DEF QueueTyped
<1>12. ClaimsOrdered'
  <2>1. \A v \in Workers : Held(v)' => began'[v] <= claims'
    BY <1>3, <1>4, <1>6, <1>11, QueueAssumption DEF ClaimsOrdered, Held, QueueTyped
  <2>2. \A o \in Orgs : served'[o] <= claims'  BY <1>3, <1>4, <1>11 DEF ClaimsOrdered
  <2>3. ASSUME NEW o \in waiting'[w]
        PROVE  /\ Held(w)' /\ Reports!Org(claimed'[w]) # o /\ served'[o] < began'[w]
               /\ \A v \in Workers :
                    Held(v)' /\ Reports!Org(claimed'[v]) = o => began'[v] < began'[w]
    <3>1. o \in Orgs /\ o # p  BY <1>7, <1>8, <2>3 DEF QueueTyped
    <3>2. served'[o] < began'[w]  BY <1>3, <1>4, <1>6, <1>11, <3>1 DEF ClaimsOrdered
    <3>3. ASSUME NEW v \in Workers, Held(v)', Reports!Org(claimed'[v]) = o
          PROVE  began'[v] < began'[w]
      <4>1. v # w /\ Held(v) /\ began'[v] = began[v]  BY <1>2, <1>6, <3>1, <3>3 DEF Held
      <4>2. began[v] <= claims /\ began[v] \in Nat
        BY <1>4, <4>1, QueueAssumption DEF ClaimsOrdered, QueueTyped
      <4> QED  BY <1>6, <1>11, <4>1, <4>2
    <3> QED  BY <1>2, <1>5, <1>6, <3>1, <3>2, <3>3 DEF Held
  <2>4. ASSUME NEW v \in Workers \ {w}, NEW o \in waiting'[v]
        PROVE  /\ Held(v)' /\ Reports!Org(claimed'[v]) # o /\ served'[o] < began'[v]
               /\ \A u \in Workers :
                    Held(u)' /\ Reports!Org(claimed'[u]) = o => began'[u] < began'[v]
    <3>1. o \in waiting[v] /\ o # p  BY <1>7
    <3>2. /\ Held(v) /\ Reports!Org(claimed[v]) # o /\ served[o] < began[v]
          /\ \A u \in Workers :
               Held(u) /\ Reports!Org(claimed[u]) = o => began[u] < began[v]
      BY <1>4, <3>1 DEF ClaimsOrdered
    <3> QED  BY <1>2, <1>3, <1>6, <3>1, <3>2 DEF Held
  <2> QED  BY <2>1, <2>2, <2>3, <2>4 DEF ClaimsOrdered
<1>13. ASSUME NEW o \in Orgs
       PROVE  passed'[o] + Cardinality(Chased(o)')
                <= Cardinality(Workers) * Cardinality(Behind(o)')
  <2>1. CASE o = p
    <3>1. Chased(o)' = {}  BY <1>7, <2>1 DEF Chased
    <3>2. Cardinality(Chased(o)') = 0 /\ passed'[o] = 0  BY <1>6, <2>1, <3>1, FS_EmptySet
    <3>3. Behind(o)' \subseteq Orgs  BY DEF Behind
    <3>4. Cardinality(Behind(o)') \in Nat /\ Cardinality(Workers) \in Nat
      BY <3>3, PartCounts, JobsFinite, QueueCounts
    <3>5. Cardinality(Workers) * Cardinality(Behind(o)') \in Nat  BY <3>4
    <3> QED  BY <3>2, <3>5
  <2>2. CASE o # p
    <3>1. Behind(o)' = Behind(o)
      <4>1. \A v \in Workers : Held(v)' /\ Reports!Org(claimed'[v]) = o
                              <=> Held(v) /\ Reports!Org(claimed[v]) = o
        BY <1>2, <1>3, <1>6, <2>2 DEF Held
      <4>2. \A v \in Workers : Held(v) => began'[v] = began[v]  BY <1>3, <1>6 DEF Held
      <4>3. served' = served  BY <1>3
      <4> QED  BY <4>1, <4>2, <4>3 DEF Behind
    <3>2. ASSUME NEW v \in Chased(o)' PROVE v \in Chased(o)
      <4>1. v \in Workers /\ o \in waiting'[v] /\ Reports!Org(claimed'[v]) \in Behind(o)
        BY <3>1 DEF Chased
      <4>2. v # w
        <5>1. SUFFICES ASSUME v = w PROVE FALSE  OBVIOUS
        <5>2. PICK i \in Reports!Waiting : o = Reports!Org(i)  BY <1>7, <4>1, <5>1
        <5>3. Reports!Before(j, i)  BY <1>1, <1>2, <2>2, <5>2
        <5>4. served[p] < served[o] \/ served[p] = served[o]
          BY <1>2, <5>2, <5>3 DEF Reports!Before
        <5>5. served[p] > served[o]  BY <1>2, <1>6, <4>1, <5>1 DEF Behind
        <5> QED  BY <1>5, <1>11, <5>4, <5>5
      <4> QED  BY <1>6, <1>7, <4>1, <4>2 DEF Chased
    <3>3. passed'[o] = passed[o] + 0  BY <1>4, <1>6, <2>2 DEF QueueTyped
    <3>4. 0 \in {0, 1} /\ ~ (0 = 1)  OBVIOUS
    <3> QED  BY <3>1, <3>2, <3>3, <3>4, PassStep
  <2> QED  BY <2>1, <2>2
<1>14. PassesKept'  BY <1>13 DEF PassesKept
<1>15. Reports!ReportsWhole'  BY <1>3, WholeSame
<1> QED  BY <1>8, <1>9, <1>10, <1>12, <1>14, <1>15 DEF QueueInv

\* A claim ends: whatever its job becomes, it is released.
LEMMA SettleSound ==
  ASSUME QueueInv, NEW w \in Workers, Held(w), NEW outcome \in {"completed", "failed"},
         outcome = "completed" => stored[w] = Formats, Reports!Settle(w, outcome)
  PROVE  /\ state' \in [Jobs -> {"none", "queued", "completed", "failed"}]
         /\ artifacts' \subseteq Jobs \X Formats
         /\ JobsSound' /\ QuotaKept' /\ Reports!ReportsWhole'
<1>1. PICK k : k = claimed[w]  OBVIOUS
<1>2. /\ state' = [state EXCEPT ![k] = outcome]
      /\ artifacts' = artifacts \cup ({k} \X stored[w])
      /\ claimed' = [claimed EXCEPT ![w] = NoJob] /\ stored' = [stored EXCEPT ![w] = {}]
      /\ UNCHANGED <<created, files, asks, claims>>
  BY <1>1 DEF Reports!Settle, Reports!Release
<1>3. QueueTyped /\ JobsSound /\ QuotaKept /\ Reports!ReportsWhole  BY DEF QueueInv
<1>4. /\ k \in Jobs /\ state[k] = "queued" /\ stored[w] \subseteq Formats
      /\ \A v \in Workers \ {w} : claimed[v] # k
      /\ \A f \in stored[w] : <<k, f>> \in files
  BY <1>1, <1>3 DEF JobsSound, Held, QueueTyped
<1>5. \A j \in Jobs : state'[j] = IF j = k THEN outcome ELSE state[j]
  BY <1>2, <1>3, <1>4 DEF QueueTyped
<1>6. /\ \A v \in Workers : claimed'[v] = IF v = w THEN NoJob ELSE claimed[v]
      /\ \A v \in Workers : stored'[v] = IF v = w THEN {} ELSE stored[v]
  BY <1>2, <1>3 DEF QueueTyped
<1>7. /\ state' \in [Jobs -> {"none", "queued", "completed", "failed"}]
      /\ artifacts' \subseteq Jobs \X Formats
  BY <1>2, <1>3, <1>4 DEF QueueTyped
<1>8. JobsSound'
  <2>1. ASSUME NEW c \in Clients, asks'[c] # NoJob
        PROVE  /\ state'[asks'[c]] = "none"
               /\ \A d \in Clients \ {c} : asks'[d] # asks'[c]
    <3>1. asks[c] \in Jobs /\ state[asks[c]] = "none"
      BY <1>2, <1>3, <2>1 DEF JobsSound, QueueTyped
    <3> QED  BY <1>2, <1>3, <1>4, <1>5, <2>1, <3>1 DEF JobsSound
  <2>2. ASSUME NEW v \in Workers, Held(v)'
        PROVE  /\ state'[claimed'[v]] = "queued"
               /\ \A u \in Workers \ {v} : claimed'[u] # claimed'[v]
               /\ \A f \in stored'[v] : <<claimed'[v], f>> \in files'
    <3>1. /\ v # w /\ Held(v) /\ claimed'[v] = claimed[v] /\ claimed[v] \in Jobs \ {k}
          /\ claimed[v] # NoJob
      BY <1>3, <1>4, <1>6, <2>2 DEF Held, QueueTyped
    <3>2. state'[claimed'[v]] = "queued"  BY <1>3, <1>5, <3>1 DEF JobsSound
    <3> QED  BY <1>2, <1>3, <1>6, <3>1, <3>2 DEF JobsSound, Held
  <2>3. \A v \in Workers : ~ Held(v)' => stored'[v] = {}  BY <1>3, <1>6 DEF JobsSound, Held
  <2> QED  BY <2>1, <2>2, <2>3 DEF JobsSound
<1>9. ASSUME NEW o \in Orgs
      PROVE  Cardinality(Reports!QueuedOf(o))' + Cardinality(Asking(o))'
               <= MaxQueued - 1 + Cardinality(Clients)
  <2>1. Asking(o)' = Asking(o)  BY <1>2 DEF Asking
  <2>2. Reports!QueuedOf(o)' \subseteq Reports!QueuedOf(o)  BY <1>4, <1>5 DEF Reports!QueuedOf
  <2>3. /\ Cardinality(Reports!QueuedOf(o)') <= Cardinality(Reports!QueuedOf(o))
        /\ Cardinality(Reports!QueuedOf(o)') \in Nat
    BY <2>2, PartCounts, QueueCounts
  <2> QED  BY <1>3, <2>1, <2>3, QueueCounts, QueueAssumption DEF QuotaKept
<1>10. Reports!ReportsWhole'
  <2>1. artifacts' \subseteq files'  BY <1>2, <1>3, <1>4 DEF Reports!ReportsWhole
  <2>2. ASSUME NEW j \in Jobs \ {k}
        PROVE  {f \in Formats : <<j, f>> \in artifacts'}
                   = {f \in Formats : <<j, f>> \in artifacts}
    BY <1>2
  <2>3. {f \in Formats : <<k, f>> \in artifacts'} = stored[w]
    <3>1. {f \in Formats : <<k, f>> \in artifacts} = {}  BY <1>3, <1>4 DEF Reports!ReportsWhole
    <3> QED  BY <1>2, <1>4, <3>1
  <2>4. ASSUME NEW j \in Jobs
        PROVE  LET formats == {f \in Formats : <<j, f>> \in artifacts'}
               IN /\ state'[j] = "completed" => formats = Formats
                  /\ state'[j] \in {"none", "queued"} => formats = {}
    <3>1. CASE j = k  BY <1>5, <2>3, <3>1
    <3>2. CASE j # k  BY <1>3, <1>5, <2>2, <3>2 DEF Reports!ReportsWhole
    <3> QED  BY <3>1, <3>2
  <2> QED  BY <2>1, <2>4 DEF Reports!ReportsWhole
<1> QED  BY <1>7, <1>8, <1>9, <1>10 DEF QuotaKept

\* What is released is waited for no longer.
LEMMA Released ==
  ASSUME QueueInv, NEW w \in Workers, Held(w), Reports!Release(w)
  PROVE  /\ claimed' \in [Workers -> Jobs \cup {NoJob}]
         /\ began' \in [Workers -> 0..MaxClaims]
         /\ stored' \in [Workers -> SUBSET Formats]
         /\ waiting' \in [Workers -> SUBSET Orgs]
         /\ ~ Held(w)' /\ waiting'[w] = {}
         /\ \A v \in Workers \ {w} :
              /\ claimed'[v] = claimed[v] /\ began'[v] = began[v]
              /\ stored'[v] = stored[v] /\ waiting'[v] = waiting[v]
              /\ Held(v)' <=> Held(v)
<1>1. /\ claimed' = [claimed EXCEPT ![w] = NoJob] /\ began' = [began EXCEPT ![w] = 0]
      /\ stored' = [stored EXCEPT ![w] = {}] /\ waiting' = [waiting EXCEPT ![w] = {}]
  BY DEF Reports!Release
<1>2. 0 \in 0..MaxClaims  BY QueueAssumption
<1>3. QueueTyped  BY DEF QueueInv
<1>4. /\ claimed' \in [Workers -> Jobs \cup {NoJob}]
      /\ began' \in [Workers -> 0..MaxClaims]
      /\ stored' \in [Workers -> SUBSET Formats]
      /\ waiting' \in [Workers -> SUBSET Orgs]
  BY <1>1, <1>2, <1>3 DEF QueueTyped
<1>5. /\ ~ Held(w)' /\ waiting'[w] = {}
      /\ \A v \in Workers \ {w} :
           /\ claimed'[v] = claimed[v] /\ began'[v] = began[v]
           /\ stored'[v] = stored[v] /\ waiting'[v] = waiting[v]
  BY <1>1, <1>3 DEF QueueTyped, Held
<1> QED  BY <1>4, <1>5 DEF Held

\* The claim ends without a completion: its tenant is where it was.
LEMMA PassesOfFailure ==
  ASSUME QueueInv, NEW w \in Workers, Held(w), Reports!Release(w),
         UNCHANGED <<served, claims, passed>>
  PROVE  ClaimsOrdered' /\ PassesKept'
<1>1. QueueTyped /\ ClaimsOrdered  BY DEF QueueInv
<1>2. /\ ~ Held(w)' /\ waiting'[w] = {}
      /\ \A v \in Workers \ {w} :
           /\ claimed'[v] = claimed[v] /\ began'[v] = began[v] /\ waiting'[v] = waiting[v]
           /\ Held(v)' <=> Held(v)
  BY Released
<1>3. ClaimsOrdered'
  <2>1. \A v \in Workers : Held(v)' => began'[v] <= claims'  BY <1>1, <1>2 DEF ClaimsOrdered
  <2>2. ASSUME NEW v \in Workers, NEW o \in waiting'[v]
        PROVE  /\ Held(v)' /\ Reports!Org(claimed'[v]) # o /\ served'[o] < began'[v]
               /\ \A u \in Workers :
                    Held(u)' /\ Reports!Org(claimed'[u]) = o => began'[u] < began'[v]
    <3>1. v # w /\ o \in waiting[v]  BY <1>2, <2>2
    <3> QED  BY <1>1, <1>2, <3>1 DEF ClaimsOrdered
  <2> QED  BY <1>1, <2>1, <2>2 DEF ClaimsOrdered
<1>4. ASSUME NEW o \in Orgs
      PROVE  passed'[o] + Cardinality(Chased(o)')
               <= Cardinality(Workers) * Cardinality(Behind(o)')
  <2>1. ASSUME NEW q \in Behind(o) PROVE q \in Behind(o)'  BY <1>2, <2>1 DEF Behind
  <2>2. ASSUME Behind(o)' = Behind(o) PROVE Chased(o)' \subseteq Chased(o)
    BY <1>2, <2>2 DEF Chased
  <2>3. passed'[o] = passed[o] + 0  BY <1>1 DEF QueueTyped
  <2>4. 0 \in {0, 1} /\ ~ (0 = 1)  OBVIOUS
  <2> QED  BY <2>1, <2>2, <2>3, <2>4, PassStep
<1> QED  BY <1>3, <1>4 DEF PassesKept

\* The claim is completed: its tenant is behind whoever waited for it.
LEMMA PassesOfCompletion ==
  ASSUME QueueInv, NEW w \in Workers, Reports!CompleteJob(w)
  PROVE  /\ served' \in [Orgs -> 0..MaxClaims] /\ passed' \in [Orgs -> Nat]
         /\ ClaimsOrdered' /\ PassesKept'
<1>1. PICK p : p = Reports!Org(claimed[w])  OBVIOUS
<1>2. /\ Held(w) /\ Reports!Release(w) /\ claims' = claims
      /\ served' = [served EXCEPT ![p] = IF began[w] > @ THEN began[w] ELSE @]
      /\ passed' = [o \in Orgs |-> IF o \in waiting[w] THEN passed[o] + 1 ELSE passed[o]]
  BY <1>1 DEF Reports!CompleteJob, Reports!Settle, Held
<1>3. QueueTyped /\ ClaimsOrdered  BY DEF QueueInv
<1>4. /\ ~ Held(w)' /\ waiting'[w] = {}
      /\ \A v \in Workers \ {w} :
           /\ claimed'[v] = claimed[v] /\ began'[v] = began[v] /\ waiting'[v] = waiting[v]
           /\ Held(v)' <=> Held(v)
  BY <1>2, Released
<1>5. PICK b : b = began[w]  OBVIOUS
<1>6. /\ b \in 0..MaxClaims /\ b \in Nat /\ b <= claims /\ p \in Orgs
      /\ \A v \in Workers : began[v] \in Nat
      /\ \A o \in Orgs : served[o] \in Nat /\ served[o] <= claims
  BY <1>1, <1>2, <1>3, <1>5, JobsFinite, QueueAssumption DEF ClaimsOrdered, QueueTyped, Held
<1>7. /\ \A o \in Orgs \ {p} : served'[o] = served[o]
      /\ served'[p] = IF b > served[p] THEN b ELSE served[p]
  BY <1>2, <1>3, <1>5, <1>6 DEF QueueTyped
<1>8. /\ served'[p] \in Nat /\ served'[p] >= served[p] /\ served'[p] >= b
      /\ served'[p] \in {served[p], b}
  BY <1>6, <1>7
<1>9. served' \in [Orgs -> 0..MaxClaims] /\ passed' \in [Orgs -> Nat]
  BY <1>2, <1>3, <1>5, <1>6 DEF QueueTyped
<1>10. /\ p \notin waiting[w]
       /\ \A o \in waiting[w] :
            /\ served[o] < b
            /\ \A v \in Workers :
                 Held(v) /\ Reports!Org(claimed[v]) = o => began[v] < b
  BY <1>1, <1>3, <1>5 DEF ClaimsOrdered
<1>11. ClaimsOrdered'
  <2>1. \A v \in Workers : Held(v)' => began'[v] <= claims'
    BY <1>2, <1>3, <1>4 DEF ClaimsOrdered
  <2>2. \A o \in Orgs : served'[o] <= claims'  BY <1>2, <1>6, <1>7
  <2>3. ASSUME NEW v \in Workers, NEW o \in waiting'[v]
        PROVE  /\ Held(v)' /\ Reports!Org(claimed'[v]) # o /\ served'[o] < began'[v]
               /\ \A u \in Workers :
                    Held(u)' /\ Reports!Org(claimed'[u]) = o => began'[u] < began'[v]
    <3>1. v # w /\ o \in waiting[v] /\ o \in Orgs  BY <1>3, <1>4, <2>3 DEF QueueTyped
    <3>2. /\ Held(v) /\ Reports!Org(claimed[v]) # o /\ served[o] < began[v]
          /\ \A u \in Workers :
               Held(u) /\ Reports!Org(claimed[u]) = o => began[u] < began[v]
      BY <1>3, <3>1 DEF ClaimsOrdered
    <3>3. served'[o] < began[v]
      <4>1. CASE o # p  BY <1>7, <3>1, <3>2, <4>1
      <4>2. CASE o = p  BY <1>1, <1>2, <1>5, <1>8, <3>2, <4>2
      <4> QED  BY <4>1, <4>2
    <3> QED  BY <1>4, <3>1, <3>2, <3>3
  <2> QED  BY <2>1, <2>2, <2>3 DEF ClaimsOrdered
<1>12. ASSUME NEW o \in Orgs
       PROVE  passed'[o] + Cardinality(Chased(o)')
                <= Cardinality(Workers) * Cardinality(Behind(o)')
  <2>1. w \notin Chased(o)'  BY <1>4 DEF Chased
  <2>2. Behind(o) \subseteq Behind(o)'
    <3>1. SUFFICES ASSUME NEW q \in Behind(o) PROVE q \in Behind(o)'  OBVIOUS
    <3>2. /\ q \in Orgs \ {o} /\ served[q] > served[o]
          /\ \A v \in Workers :
               Held(v) /\ Reports!Org(claimed[v]) = o => began[v] < served[q]
      BY DEF Behind
    <3>3. served'[q] >= served[q] /\ served'[q] \in Nat /\ served[q] \in Nat
      BY <1>6, <1>7, <1>8, <3>2
    <3>4. served'[q] > served'[o]
      <4>1. CASE o # p  BY <1>6, <1>7, <3>2, <3>3, <4>1
      <4>2. CASE o = p
        <5>1. b < served[q] /\ served'[q] = served[q]  BY <1>1, <1>2, <1>5, <1>7, <3>2, <4>2
        <5> QED  BY <1>8, <3>2, <3>3, <4>2, <5>1
      <4> QED  BY <4>1, <4>2
    <3>5. ASSUME NEW v \in Workers, Held(v)', Reports!Org(claimed'[v]) = o
          PROVE  began'[v] < served'[q]
      <4>1. v # w /\ Held(v) /\ Reports!Org(claimed[v]) = o /\ began'[v] = began[v]
        BY <1>4, <3>5
      <4>2. began[v] < served[q] /\ began[v] \in Nat  BY <1>6, <3>2, <4>1
      <4> QED  BY <3>3, <4>1, <4>2
    <3> QED  BY <3>2, <3>4, <3>5 DEF Behind
  <2>3. ASSUME Behind(o)' = Behind(o) PROVE Chased(o)' \subseteq Chased(o)
    BY <1>4, <2>3 DEF Chased
  <2>4. CASE o \in waiting[w]
    <3>1. o # p /\ served[o] < b /\ b <= served'[p] /\ served'[o] = served[o]
      BY <1>7, <1>8, <1>10, <2>4
    <3>2. ASSUME NEW v \in Workers, Held(v)', Reports!Org(claimed'[v]) = o
          PROVE  began'[v] < served'[p]
      <4>1. v # w /\ Held(v) /\ Reports!Org(claimed[v]) = o /\ began'[v] = began[v]
        BY <1>4, <3>2
      <4>2. began[v] < b /\ began[v] \in Nat  BY <1>6, <1>10, <2>4, <4>1
      <4> QED  BY <1>6, <1>8, <4>1, <4>2
    <3>3. served'[p] > served'[o]  BY <1>6, <1>8, <3>1
    <3>4. p \in Behind(o)'  BY <1>6, <3>1, <3>2, <3>3 DEF Behind
    <3>5. Behind(o)' = Behind(o) => w \in Chased(o)  BY <1>1, <2>4, <3>4 DEF Chased
    <3>6. passed'[o] = passed[o] + 1  BY <1>2, <2>4
    <3>7. 1 \in {0, 1}  OBVIOUS
    <3> QED  BY <2>1, <2>2, <2>3, <3>5, <3>6, <3>7, PassStep
  <2>5. CASE o \notin waiting[w]
    <3>1. passed'[o] = passed[o] + 0  BY <1>2, <1>3, <2>5 DEF QueueTyped
    <3>2. 0 \in {0, 1} /\ ~ (0 = 1)  OBVIOUS
    <3> QED  BY <2>2, <2>3, <3>1, <3>2, PassStep
  <2> QED  BY <2>4, <2>5
<1> QED  BY <1>9, <1>11, <1>12 DEF PassesKept

\* The three ends of a claim.
LEMMA SettledInv ==
  ASSUME QueueInv, NEW w \in Workers,
         Reports!CompleteJob(w) \/ Reports!FailJob(w) \/ Reports!RollbackJob(w)
  PROVE  QueueInv'
<1>1. Held(w) /\ QueueTyped
  BY DEF QueueInv, Held, Reports!CompleteJob, Reports!FailJob, Reports!RollbackJob
<1>2. CASE Reports!CompleteJob(w)
  <2>1. /\ Reports!Settle(w, "completed") /\ Reports!Release(w) /\ stored[w] = Formats
        /\ UNCHANGED <<created, files, asks, claims>>
    BY <1>2 DEF Reports!CompleteJob, Reports!Settle
  <2>2. "completed" \in {"completed", "failed"}  OBVIOUS
  <2>3. /\ state' \in [Jobs -> {"none", "queued", "completed", "failed"}]
        /\ artifacts' \subseteq Jobs \X Formats
        /\ JobsSound' /\ QuotaKept' /\ Reports!ReportsWhole'
    BY <1>1, <2>1, <2>2, SettleSound
  <2>4. /\ served' \in [Orgs -> 0..MaxClaims] /\ passed' \in [Orgs -> Nat]
        /\ ClaimsOrdered' /\ PassesKept'
    BY <1>2, PassesOfCompletion
  <2>5. QueueTyped'  BY <1>1, <2>1, <2>3, <2>4, Released DEF QueueTyped
  <2> QED  BY <2>3, <2>4, <2>5 DEF QueueInv
<1>3. CASE Reports!FailJob(w)
  <2>1. /\ Reports!Settle(w, "failed") /\ Reports!Release(w)
        /\ UNCHANGED <<created, files, asks, claims, served, passed>>
    BY <1>3 DEF Reports!FailJob, Reports!Settle
  <2>2. "failed" \in {"completed", "failed"} /\ "failed" # "completed"  OBVIOUS
  <2>3. /\ state' \in [Jobs -> {"none", "queued", "completed", "failed"}]
        /\ artifacts' \subseteq Jobs \X Formats
        /\ JobsSound' /\ QuotaKept' /\ Reports!ReportsWhole'
    BY <1>1, <2>1, <2>2, SettleSound
  <2>4. ClaimsOrdered' /\ PassesKept'  BY <1>1, <2>1, PassesOfFailure
  <2>5. QueueTyped'  BY <1>1, <2>1, <2>3, Released DEF QueueTyped
  <2> QED  BY <2>3, <2>4, <2>5 DEF QueueInv
<1>4. CASE Reports!RollbackJob(w)
  <2>1. /\ Reports!Release(w)
        /\ UNCHANGED <<state, created, served, artifacts, files, asks, claims, passed>>
    BY <1>4 DEF Reports!RollbackJob, Reports!queue
  <2>2. ClaimsOrdered' /\ PassesKept'  BY <1>1, <2>1, PassesOfFailure
  <2>3. QueueTyped'  BY <1>1, <2>1, Released DEF QueueTyped
  <2>4. JobsSound /\ QuotaKept  BY DEF QueueInv
  <2>5. JobsSound'
    <3>1. ASSUME NEW c \in Clients, asks'[c] # NoJob
          PROVE  /\ state'[asks'[c]] = "none"
                 /\ \A d \in Clients \ {c} : asks'[d] # asks'[c]
      BY <2>1, <2>4, <3>1 DEF JobsSound
    <3>2. /\ ~ Held(w)' /\ stored'[w] = {} /\ claimed'[w] = NoJob
          /\ \A v \in Workers \ {w} :
               /\ claimed'[v] = claimed[v] /\ stored'[v] = stored[v]
               /\ Held(v)' <=> Held(v)
      BY <1>1, <2>1, Released DEF Reports!Release, QueueTyped, Held
    <3>3. ASSUME NEW v \in Workers, Held(v)'
          PROVE  /\ state'[claimed'[v]] = "queued"
                 /\ \A u \in Workers \ {v} : claimed'[u] # claimed'[v]
                 /\ \A f \in stored'[v] : <<claimed'[v], f>> \in files'
      <4>1. v # w /\ Held(v) /\ claimed[v] # NoJob  BY <3>2, <3>3 DEF Held
      <4> QED  BY <2>1, <2>4, <3>2, <4>1 DEF JobsSound
    <3>4. \A v \in Workers : ~ Held(v)' => stored'[v] = {}  BY <2>4, <3>2 DEF JobsSound
    <3> QED  BY <3>1, <3>3, <3>4 DEF JobsSound
  <2>6. QuotaKept'  BY <2>1, <2>4 DEF QuotaKept, Reports!QueuedOf, Asking
  <2>7. Reports!ReportsWhole'  BY <2>1, WholeSame
  <2> QED  BY <2>2, <2>3, <2>5, <2>6, <2>7 DEF QueueInv
<1> QED  BY <1>2, <1>3, <1>4

\* The invariant of the queue of reports.
THEOREM QueueInvariance == QueueSpec => []QueueInv
<1>1. Reports!QueueInit => QueueInv  BY QueueInitInv
<1>2. QueueInv /\ [Reports!QueueNext]_reports => QueueInv'
  <2> SUFFICES ASSUME QueueInv, [Reports!QueueNext]_reports PROVE QueueInv'  OBVIOUS
  <2>1. ASSUME NEW c \in Clients, Reports!Enqueue(c) PROVE QueueInv'  BY <2>1, EnqueueInv
  <2>2. ASSUME NEW c \in Clients, NEW j \in Jobs, Reports!CheckReports(c, j) PROVE QueueInv'
    BY <2>2, CheckReportsInv
  <2>3. ASSUME NEW w \in Workers, Reports!Claim(w) PROVE QueueInv'  BY <2>3, ClaimInv
  <2>4. ASSUME NEW w \in Workers,
               Reports!CompleteJob(w) \/ Reports!FailJob(w) \/ Reports!RollbackJob(w)
        PROVE  QueueInv'
    BY <2>4, SettledInv
  <2>5. ASSUME NEW w \in Workers, NEW f \in Formats, Reports!StoreArtifact(w, f)
        PROVE  QueueInv'
    BY <2>5, StoreArtifactInv
  <2>6. CASE UNCHANGED reports
    <3>1. UNCHANGED <<state, created, served, artifacts, files, asks, claims, claimed,
                      began, stored, waiting, passed>>
      BY <2>6 DEF reports
    <3>2. QueueTyped' /\ JobsSound'  BY <3>1 DEF QueueInv, QueueTyped, JobsSound, Held
    <3>3. QuotaKept'  BY <3>1 DEF QueueInv, QuotaKept, Reports!QueuedOf, Asking
    <3>4. ClaimsOrdered' /\ PassesKept'  BY <3>1, PassesSame
    <3>5. Reports!ReportsWhole'  BY <3>1, WholeSame
    <3> QED  BY <3>2, <3>3, <3>4, <3>5 DEF QueueInv
  <2> QED  BY <2>1, <2>2, <2>3, <2>4, <2>5, <2>6 DEF Reports!QueueNext
<1> QED  BY <1>1, <1>2, PTL DEF QueueSpec

\* The properties follow: those asking come on top of the quota, and at most
\* all other tenants are behind one.
LEMMA QueueHolds ==
  QueueInv => /\ Reports!QueueBounded /\ Reports!PassedOverBounded
              /\ Reports!ReportsWhole
<1> SUFFICES ASSUME QueueInv
    PROVE  Reports!QueueBounded /\ Reports!PassedOverBounded
  BY DEF QueueInv
<1>1. Reports!QueueBounded
  <2>1. \A o \in Orgs : Cardinality(Reports!QueuedOf(o))
                          <= MaxQueued - 1 + Cardinality(Clients)
    BY QueueCounts, QueueAssumption DEF QueueInv, QuotaKept
  <2> QED  BY <2>1, QueueCard DEF Reports!QueueBounded
<1>2. Reports!PassedOverBounded
  <2>1. ASSUME NEW o \in Orgs
        PROVE  passed[o] <= (Cardinality(Orgs) - 1) * Cardinality(Workers)
    <3>1. passed[o] + Cardinality(Chased(o)) <= Cardinality(Workers) * Cardinality(Behind(o))
      BY DEF QueueInv, PassesKept
    <3>2. Cardinality(Orgs) - 1 \in Nat /\ Cardinality(Orgs) - 1 >= Cardinality(Behind(o))
      BY QueueCounts
    <3>3. Cardinality(Workers) * (Cardinality(Orgs) - 1)
            >= Cardinality(Workers) * Cardinality(Behind(o))
      BY <3>2, QueueCounts, MoreBehind
    <3>4. Cardinality(Workers) * (Cardinality(Orgs) - 1)
            = (Cardinality(Orgs) - 1) * Cardinality(Workers)
      BY <3>2, QueueCounts
    <3>5. /\ passed[o] \in Nat /\ Cardinality(Chased(o)) \in Nat
          /\ Cardinality(Workers) * Cardinality(Behind(o)) \in Nat
          /\ (Cardinality(Orgs) - 1) * Cardinality(Workers) \in Nat
      BY <3>2, QueueCounts DEF QueueInv, QueueTyped
    <3> QED  BY <3>1, <3>3, <3>4, <3>5
  <2> QED  BY <2>1, QueueCard DEF Reports!PassedOverBounded
<1> QED  BY <1>1, <1>2
-----------------------------------------------------------------------------
\* Texts of a model.  Every request that has compared may still be charged one
\* call; the tokens of the calls under way are counted one by one, as pairs of
\* the request and a number up to its cost.

Pending == {a \in Prompts : asking[a] \in {"checked", "answered"}}
Spent == {s \in Prompts \X (1..MaxTokens) : s[2] <= cost[s[1]]}

InsightsTyped ==
  /\ budget \in Budgets /\ used \in Nat /\ billed \in Nat /\ wasted \in Nat
  /\ asking \in [Prompts -> {"idle", "checked", "answered", "approving"}]
  /\ cost \in [Prompts -> 0..MaxTokens]

InsightsInv ==
  /\ InsightsTyped
  /\ \A a \in Prompts : asking[a] # "answered" => cost[a] = 0
  /\ used + MaxTokens * Cardinality(Pending)
       <= Insights!LargestBudget - 1 + MaxTokens * Cardinality(Prompts)
  /\ billed = used + wasted + Cardinality(Spent)

\* No budget is larger than the largest.
LEMMA LargestBudgetFact ==
  /\ Insights!LargestBudget \in Nat \ {0} /\ Insights!LargestBudget \in Budgets
  /\ \A b \in Budgets : b <= Insights!LargestBudget
<1>1. PICK b \in Budgets : \A c \in Budgets : c <= b  BY BudgetsAssumption
<1>2. /\ Insights!LargestBudget \in Budgets
      /\ \A c \in Budgets : c <= Insights!LargestBudget
  BY <1>1 DEF Insights!LargestBudget
<1> QED  BY <1>1, <1>2, BudgetsAssumption

\* The cardinality of the texts is that of the library.
LEMMA InsightsCard == \A S : Insights!Cardinality(S) = Cardinality(S)
BY DEF Insights!Cardinality, Cardinality

\* The sets that are counted are finite.
LEMMA InsightsCounts ==
  /\ IsFiniteSet(Pending) /\ Cardinality(Pending) \in Nat
  /\ Cardinality(Pending) <= Cardinality(Prompts) /\ Cardinality(Prompts) \in Nat
  /\ IsFiniteSet(Spent) /\ Cardinality(Spent) \in Nat /\ MaxTokens \in Nat
<1>1. Pending \subseteq Prompts  BY DEF Pending
<1>2. IsFiniteSet(1..MaxTokens)  BY PromptsAssumption, FS_Interval
<1>3. IsFiniteSet(Prompts \X (1..MaxTokens))  BY <1>2, PromptsAssumption, FS_Product
<1>4. Spent \subseteq Prompts \X (1..MaxTokens)  BY DEF Spent
<1> QED  BY <1>1, <1>3, <1>4, PartCounts, PromptsAssumption

\* As many pairs of one request as it has tokens.
LEMMA TokensCounted ==
  ASSUME NEW a \in Prompts, NEW n \in Nat
  PROVE  IsFiniteSet({a} \X (1..n)) /\ Cardinality({a} \X (1..n)) = n
<1>1. IsFiniteSet(1..n) /\ Cardinality(1..n) = n  BY FS_Interval
<1>2. IsFiniteSet({a}) /\ Cardinality({a}) = 1  BY FS_Singleton
<1> QED  BY <1>1, <1>2, FS_Product

\* At first nothing has been used.
LEMMA InsightsInitInv == Insights!AiInit => InsightsInv
<1> SUFFICES ASSUME Insights!AiInit PROVE InsightsInv  OBVIOUS
<1>1. /\ budget = Insights!LargestBudget /\ used = 0 /\ billed = 0 /\ wasted = 0
      /\ asking = [a \in Prompts |-> "idle"] /\ cost = [a \in Prompts |-> 0]
  BY DEF Insights!AiInit
<1>2. InsightsTyped  BY <1>1, LargestBudgetFact, PromptsAssumption DEF InsightsTyped
<1>3. Pending = {} /\ Spent = {}  BY <1>1 DEF Pending, Spent
<1>4. Cardinality(Pending) = 0 /\ Cardinality(Spent) = 0  BY <1>3, FS_EmptySet
<1>5. MaxTokens * 0 = 0 /\ MaxTokens * Cardinality(Prompts) \in Nat  BY InsightsCounts
<1> QED  BY <1>1, <1>2, <1>4, <1>5, LargestBudgetFact DEF InsightsInv

\* What is charged and what is pending, when both may have changed.
LEMMA ChargeStep ==
  ASSUME InsightsInv, used' \in Nat,
         \/ /\ used' = used
            /\ \/ Pending' \subseteq Pending
               \/ used < Insights!LargestBudget
         \/ /\ used' <= used + MaxTokens /\ Pending' \subseteq Pending
            /\ \E a \in Pending : a \notin Pending'
  PROVE  used' + MaxTokens * Cardinality(Pending')
           <= Insights!LargestBudget - 1 + MaxTokens * Cardinality(Prompts)
<1>1. /\ used \in Nat
      /\ used + MaxTokens * Cardinality(Pending)
           <= Insights!LargestBudget - 1 + MaxTokens * Cardinality(Prompts)
  BY DEF InsightsInv, InsightsTyped
<1>2. Pending' \subseteq Prompts  BY DEF Pending
<1>3. /\ Cardinality(Pending') \in Nat /\ IsFiniteSet(Pending')
      /\ Cardinality(Pending') <= Cardinality(Prompts)
  BY <1>2, PartCounts, PromptsAssumption
<1>4. /\ MaxTokens * Cardinality(Pending) \in Nat
      /\ MaxTokens * Cardinality(Pending') \in Nat
      /\ MaxTokens * Cardinality(Prompts) \in Nat
  BY <1>3, InsightsCounts
<1>5. CASE used' = used /\ Pending' \subseteq Pending
  <2>1. Cardinality(Pending') <= Cardinality(Pending)  BY <1>5, PartCounts, InsightsCounts
  <2>2. MaxTokens * Cardinality(Pending') <= MaxTokens * Cardinality(Pending)
    BY <1>3, <2>1, InsightsCounts, MoreBehind
  <2> QED  BY <1>1, <1>4, <1>5, <2>2, LargestBudgetFact
<1>6. CASE used' = used /\ used < Insights!LargestBudget
  <2>1. MaxTokens * Cardinality(Pending') <= MaxTokens * Cardinality(Prompts)
    BY <1>3, InsightsCounts, MoreBehind
  <2> QED  BY <1>1, <1>4, <1>6, <2>1, LargestBudgetFact
<1>7. CASE /\ used' <= used + MaxTokens /\ Pending' \subseteq Pending
           /\ \E a \in Pending : a \notin Pending'
  <2>1. Cardinality(Pending') + 1 <= Cardinality(Pending)  BY <1>7, PartCounts, InsightsCounts
  <2>2. MaxTokens * Cardinality(Pending') + MaxTokens <= MaxTokens * Cardinality(Pending)
    BY <1>3, <2>1, InsightsCounts, MoreBehind
  <2> QED  BY <1>1, <1>4, <1>7, <2>2, InsightsCounts, LargestBudgetFact
<1> QED  BY <1>5, <1>6, <1>7

\* The cost of one request changes between nothing and n.
LEMMA SpentStep ==
  ASSUME InsightsInv, NEW a \in Prompts, NEW n \in 0..MaxTokens
  PROVE  /\ cost[a] = 0 /\ cost' = [cost EXCEPT ![a] = n]
              => Cardinality(Spent') = Cardinality(Spent) + n
         /\ cost[a] = n /\ cost' = [cost EXCEPT ![a] = 0]
              => Cardinality(Spent) = Cardinality(Spent') + n
         /\ Cardinality(Spent') \in Nat
<1>1. /\ cost \in [Prompts -> 0..MaxTokens] /\ n \in Nat /\ MaxTokens \in Nat
      /\ \A b \in Prompts : cost[b] \in Nat
  BY PromptsAssumption DEF InsightsInv, InsightsTyped
<1>2. IsFiniteSet({a} \X (1..n)) /\ Cardinality({a} \X (1..n)) = n  BY <1>1, TokensCounted
<1>3. ASSUME NEW S, NEW T, IsFiniteSet(S), IsFiniteSet(T), S \cap T = {}
      PROVE  Cardinality(S \cup T) = Cardinality(S) + Cardinality(T)
  <2>1. Cardinality(S \cap T) = 0  BY <1>3, FS_EmptySet
  <2>2. Cardinality(S) \in Nat /\ Cardinality(T) \in Nat  BY <1>3, FS_CardinalityType
  <2>3. Cardinality(S \cup T) = Cardinality(S) + Cardinality(T) - Cardinality(S \cap T)
    BY <1>3, FS_Union
  <2> QED  BY <2>1, <2>2, <2>3
<1>4. IsFiniteSet(Spent')
  <2>1. IsFiniteSet(1..MaxTokens)  BY PromptsAssumption, FS_Interval
  <2>2. IsFiniteSet(Prompts \X (1..MaxTokens))  BY <2>1, PromptsAssumption, FS_Product
  <2>3. Spent' \subseteq Prompts \X (1..MaxTokens)  BY DEF Spent
  <2> QED  BY <2>2, <2>3, FS_Subset
<1>5. ASSUME cost[a] = 0, cost' = [cost EXCEPT ![a] = n]
      PROVE  Cardinality(Spent') = Cardinality(Spent) + n
  <2>1. \A b \in Prompts : cost'[b] = IF b = a THEN n ELSE cost[b]  BY <1>1, <1>5
  <2>2. Spent' = Spent \cup ({a} \X (1..n)) /\ Spent \cap ({a} \X (1..n)) = {}
    BY <1>1, <1>5, <2>1 DEF Spent
  <2> QED  BY <1>2, <1>3, <2>2, InsightsCounts
<1>6. ASSUME cost[a] = n, cost' = [cost EXCEPT ![a] = 0]
      PROVE  Cardinality(Spent) = Cardinality(Spent') + n
  <2>1. \A b \in Prompts : cost'[b] = IF b = a THEN 0 ELSE cost[b]  BY <1>1, <1>6
  <2>2. Spent = Spent' \cup ({a} \X (1..n)) /\ Spent' \cap ({a} \X (1..n)) = {}
    BY <1>1, <1>6, <2>1 DEF Spent
  <2> QED  BY <1>2, <1>3, <1>4, <2>2
<1>7. Cardinality(Spent') \in Nat  BY <1>4, FS_CardinalityType
<1> QED  BY <1>5, <1>6, <1>7

\* Requests that do not touch the costs.
LEMMA SameCosts ==
  ASSUME InsightsInv, cost' = cost,
         NEW a \in Prompts, NEW phase \in {"idle", "checked", "answered", "approving"},
         asking' = [asking EXCEPT ![a] = phase], asking[a] # "answered",
         UNCHANGED <<budget, used, billed, wasted>>,
         phase = "checked" => used < Insights!LargestBudget,
         phase # "answered"
  PROVE  InsightsInv'
<1>1. InsightsTyped'  BY DEF InsightsInv, InsightsTyped
<1>2. \A b \in Prompts : asking'[b] = IF b = a THEN phase ELSE asking[b]
  BY DEF InsightsInv, InsightsTyped
<1>3. \A b \in Prompts : asking'[b] # "answered" => cost'[b] = 0  BY <1>2 DEF InsightsInv
<1>4. Spent' = Spent  BY DEF Spent
<1>5. used' = used /\ used' \in Nat  BY DEF InsightsInv, InsightsTyped
<1>6. Pending' \subseteq Pending \/ used < Insights!LargestBudget  BY <1>2 DEF Pending
<1>7. used' + MaxTokens * Cardinality(Pending')
        <= Insights!LargestBudget - 1 + MaxTokens * Cardinality(Prompts)
  BY <1>5, <1>6, ChargeStep
<1> QED  BY <1>1, <1>3, <1>4, <1>7 DEF InsightsInv

\* The model answers, and bills the tokens.
LEMMA AskModelInv ==
  ASSUME InsightsInv, NEW a \in Prompts, NEW tokens \in 1..MaxTokens,
         Insights!AskModel(a, tokens)
  PROVE  InsightsInv'
<1>1. /\ asking[a] = "checked" /\ asking' = [asking EXCEPT ![a] = "answered"]
      /\ cost' = [cost EXCEPT ![a] = tokens] /\ billed' = billed + tokens
      /\ UNCHANGED <<budget, used, wasted>>
  BY DEF Insights!AskModel
<1>2. InsightsTyped /\ tokens \in 0..MaxTokens /\ tokens \in Nat /\ cost[a] = 0
  BY <1>1, PromptsAssumption DEF InsightsInv
<1>3. InsightsTyped'  BY <1>1, <1>2 DEF InsightsTyped
<1>4. \A b \in Prompts : /\ asking'[b] = IF b = a THEN "answered" ELSE asking[b]
                         /\ cost'[b] = IF b = a THEN tokens ELSE cost[b]
  BY <1>1, <1>2 DEF InsightsTyped
<1>5. \A b \in Prompts : asking'[b] # "answered" => cost'[b] = 0  BY <1>4 DEF InsightsInv
<1>6. Cardinality(Spent') = Cardinality(Spent) + tokens  BY <1>1, <1>2, SpentStep
<1>7. Pending' \subseteq Pending  BY <1>1, <1>4 DEF Pending
<1>8. used' + MaxTokens * Cardinality(Pending')
        <= Insights!LargestBudget - 1 + MaxTokens * Cardinality(Prompts)
  BY <1>1, <1>3, <1>7, ChargeStep DEF InsightsTyped
<1>9. billed' = used' + wasted' + Cardinality(Spent')
  BY <1>1, <1>2, <1>6, InsightsCounts DEF InsightsInv, InsightsTyped
<1> QED  BY <1>3, <1>5, <1>8, <1>9 DEF InsightsInv

\* The tokens of a request are charged or lost, and it is over.
LEMMA ReturnInv ==
  ASSUME InsightsInv, NEW a \in Pending,
         asking' = [asking EXCEPT ![a] = "idle"], cost' = [cost EXCEPT ![a] = 0],
         UNCHANGED <<budget, billed>>,
         \/ used' = used + cost[a] /\ wasted' = wasted
         \/ wasted' = wasted + cost[a] /\ used' = used
  PROVE  InsightsInv'
<1>1. /\ InsightsTyped /\ a \in Prompts /\ cost[a] \in 0..MaxTokens /\ cost[a] \in Nat
      /\ MaxTokens \in Nat /\ used \in Nat /\ wasted \in Nat /\ billed \in Nat
  BY PromptsAssumption DEF InsightsInv, InsightsTyped, Pending
<1>2. InsightsTyped'
  <2>1. 0 \in 0..MaxTokens  BY <1>1
  <2>2. used' \in Nat /\ wasted' \in Nat  BY <1>1
  <2> QED  BY <1>1, <2>1, <2>2 DEF InsightsTyped
<1>3. \A b \in Prompts : /\ asking'[b] = IF b = a THEN "idle" ELSE asking[b]
                         /\ cost'[b] = IF b = a THEN 0 ELSE cost[b]
  BY <1>1 DEF InsightsTyped
<1>4. \A b \in Prompts : asking'[b] # "answered" => cost'[b] = 0  BY <1>3 DEF InsightsInv
<1>5. Cardinality(Spent) = Cardinality(Spent') + cost[a]  BY <1>1, SpentStep
<1>6. Pending' \subseteq Pending /\ a \notin Pending'  BY <1>1, <1>3 DEF Pending
<1>7. used' \in Nat /\ used' <= used + MaxTokens  BY <1>1
<1>8. used' + MaxTokens * Cardinality(Pending')
        <= Insights!LargestBudget - 1 + MaxTokens * Cardinality(Prompts)
  BY <1>6, <1>7, ChargeStep
<1>9. Cardinality(Spent') \in Nat  BY <1>1, SpentStep
<1>10. billed' = used' + wasted' + Cardinality(Spent')
  BY <1>1, <1>5, <1>9, InsightsCounts DEF InsightsInv
<1> QED  BY <1>2, <1>4, <1>8, <1>10 DEF InsightsInv

\* The invariant of the texts.
THEOREM InsightsInvariance == InsightsSpec => []InsightsInv
<1>1. InsightsInv /\ [Insights!AiNext]_insights => InsightsInv'
  <2> SUFFICES ASSUME InsightsInv, [Insights!AiNext]_insights PROVE InsightsInv'  OBVIOUS
  <2>1. CASE \/ UNCHANGED insights
             \/ \E on \in BOOLEAN, b \in Budgets : Insights!SetAi(on, b)
    <3>1. /\ UNCHANGED <<used, billed, wasted, asking, cost>> /\ budget' \in Budgets
      BY <2>1 DEF insights, Insights!SetAi, Insights!prompts, InsightsInv, InsightsTyped
    <3>2. Pending' = Pending /\ Spent' = Spent  BY <3>1 DEF Pending, Spent
    <3> QED  BY <3>1, <3>2 DEF InsightsInv, InsightsTyped
  <2>2. ASSUME NEW a \in Prompts, Insights!CheckBudget(a) PROVE InsightsInv'
    <3>1. /\ asking[a] = "idle" /\ asking' = [asking EXCEPT ![a] = "checked"]
          /\ used < budget /\ UNCHANGED <<budget, used, billed, wasted, cost>>
      BY <2>2 DEF Insights!CheckBudget, Insights!insights
    <3>2. used < Insights!LargestBudget
      BY <3>1, LargestBudgetFact, BudgetsAssumption DEF InsightsInv, InsightsTyped
    <3> QED  BY <3>1, <3>2, SameCosts
  <2>3. ASSUME NEW a \in Prompts, Insights!RefuseText(a) PROVE InsightsInv'
    <3>1. a \in Pending  BY <2>3 DEF Insights!RefuseText, Pending
    <3> QED  BY <2>3, <3>1, ReturnInv DEF Insights!RefuseText, Insights!Return
  <2>4. ASSUME NEW a \in Prompts, Insights!CommitApproval(a) PROVE InsightsInv'
    <3>1. /\ asking[a] = "approving" /\ asking' = [asking EXCEPT ![a] = "idle"]
          /\ cost' = [cost EXCEPT ![a] = 0] /\ UNCHANGED <<budget, used, billed, wasted>>
      BY <2>4 DEF Insights!CommitApproval, Insights!Return
    <3>2. cost' = cost  BY <3>1 DEF InsightsInv, InsightsTyped
    <3> QED  BY <3>1, <3>2, SameCosts
  <2>5. ASSUME NEW a \in Prompts, NEW tokens \in 1..MaxTokens, Insights!AskModel(a, tokens)
        PROVE  InsightsInv'
    BY <2>5, AskModelInv
  <2>6. ASSUME NEW a \in Prompts, NEW x \in Texts, Insights!StoreText(a, x)
        PROVE  InsightsInv'
    <3>1. a \in Pending  BY <2>6 DEF Insights!StoreText, Pending
    <3> QED  BY <2>6, <3>1, ReturnInv DEF Insights!StoreText, Insights!Return
  <2>7. ASSUME NEW a \in Prompts, NEW x \in Texts, Insights!BeginApproval(a, x)
        PROVE  InsightsInv'
    <3>1. /\ asking[a] = "idle" /\ asking' = [asking EXCEPT ![a] = "approving"]
          /\ UNCHANGED <<budget, used, billed, wasted, cost>>
      BY <2>7 DEF Insights!BeginApproval, Insights!insights
    <3> QED  BY <3>1, SameCosts
  <2> QED  BY <2>1, <2>2, <2>3, <2>4, <2>5, <2>6, <2>7 DEF Insights!AiNext
<1> QED  BY <1>1, InsightsInitInv, PTL DEF InsightsSpec

\* The property follows.
LEMMA BudgetHolds == InsightsInv => Insights!BudgetBounded
<1> SUFFICES ASSUME InsightsInv PROVE Insights!BudgetBounded  OBVIOUS
<1>1. /\ used + Cardinality(Pending) * MaxTokens
           <= Insights!LargestBudget - 1 + Cardinality(Prompts) * MaxTokens
      /\ billed >= used + wasted
  <2>1. /\ Cardinality(Pending) * MaxTokens = MaxTokens * Cardinality(Pending)
        /\ Cardinality(Prompts) * MaxTokens = MaxTokens * Cardinality(Prompts)
    BY InsightsCounts
  <2> QED  BY <2>1, InsightsCounts DEF InsightsInv, InsightsTyped
<1>2. ASSUME Pending = {} PROVE billed = used + wasted
  <2>1. Spent = {}  BY <1>2 DEF Spent, Pending, InsightsInv, InsightsTyped
  <2> QED  BY <2>1, FS_EmptySet DEF InsightsInv, InsightsTyped
<1> QED  BY <1>1, <1>2, InsightsCard DEF Insights!BudgetBounded, Pending
-----------------------------------------------------------------------------
\* The quota of the gateway.  Of the windows that a minute until now overlaps,
\* one may have begun before it; every other has begun in it, and unless it is
\* the last one, has been ended by a restart.

GateTyped ==
  /\ now \in 1..MaxTime /\ reset_at \in 0..(MaxTime + Slots)
  /\ count \in 0..MaxCount
  /\ admitted \in [0..MaxTime -> Nat] /\ starts \in [0..MaxTime -> 0..MaxStarts]

\* What was let through, and the restarts, from the slot t until now.
Since(t) == admitted[now] - admitted[t - 1]
Restarts(t) == starts[now] - starts[t - 1]

\* The minute that began with the slot t is not over.
MinuteSound(t) ==
  /\ Restarts(t) >= 0
  /\ reset_at > now /\ reset_at - Slots < t => Since(t) <= count /\ Since(t) <= Rpm
  /\ reset_at > now /\ reset_at - Slots >= t =>
       /\ Since(t) <= Rpm + Rpm * Restarts(t) + count
       /\ Since(t) <= Rpm + Rpm * Restarts(t) + Rpm
  /\ reset_at <= now => Since(t) <= Rpm + Rpm * Restarts(t)

MinuteOver(t) ==
  admitted[t + Slots - 1] - admitted[t - 1]
    <= Rpm + Rpm + Rpm * (starts[t + Slots - 1] - starts[t - 1])

GateInv ==
  /\ GateTyped
  /\ \A u \in now..MaxTime : admitted[u] = admitted[now] /\ starts[u] = starts[now]
  /\ reset_at <= now + Slots
  /\ \A t \in 1..now : now < t + Slots => MinuteSound(t)
  /\ \A t \in 1..now : t + Slots <= now => MinuteOver(t)

\* At first nothing has been let through.
LEMMA GateInitInv == Gate!GatewayInit => GateInv
<1> SUFFICES ASSUME Gate!GatewayInit PROVE GateInv  OBVIOUS
<1>1. /\ now = 1 /\ reset_at = 0 /\ count = 0
      /\ admitted = [t \in 0..MaxTime |-> 0] /\ starts = [t \in 0..MaxTime |-> 0]
      /\ Rpm \in Nat /\ Slots \in Nat \ {0} /\ MaxTime \in Nat \ {0}
      /\ MaxStarts \in Nat /\ MaxCount \in Nat
  BY GatewayAssumption DEF Gate!GatewayInit, Gate!Times
<1>2. GateTyped  BY <1>1 DEF GateTyped
<1>3. \A u \in 0..MaxTime : admitted[u] = 0 /\ starts[u] = 0  BY <1>1
<1>4. 1 \in 0..MaxTime /\ 0 \in 0..MaxTime  BY <1>1
<1>5. MinuteSound(1)
  <2>1. Since(1) = 0 /\ Restarts(1) = 0  BY <1>1, <1>3, <1>4 DEF Since, Restarts
  <2>2. Rpm * 0 = 0  BY <1>1
  <2> QED  BY <1>1, <2>1, <2>2 DEF MinuteSound
<1>6. \A u \in 1..MaxTime : admitted[u] = admitted[1] /\ starts[u] = starts[1]
  BY <1>1, <1>3, <1>4
<1>7. \A t \in 1..now : t = 1 /\ ~(t + Slots <= now)  BY <1>1
<1> QED  BY <1>1, <1>2, <1>5, <1>6, <1>7 DEF GateInv

\* The products are of small numbers, and grow with the restarts.
LEMMA QuotaProducts ==
  ASSUME NEW r \in Nat
  PROVE  /\ Rpm * r \in Nat /\ Rpm * (r + 1) = Rpm * r + Rpm /\ Rpm \in Nat
BY GatewayAssumption

\* The state in numbers.
LEMMA GateFacts ==
  ASSUME GateInv
  PROVE  /\ now \in Nat /\ now >= 1 /\ now <= MaxTime /\ reset_at \in Nat /\ count \in Nat
         /\ count <= MaxCount
         /\ Rpm \in Nat /\ Slots \in Nat /\ Slots >= 1 /\ MaxTime \in Nat
         /\ MaxStarts \in Nat /\ MaxCount \in Nat
BY GatewayAssumption DEF GateInv, GateTyped

\* The types of what is counted, one by one.
LEMMA GateCounts ==
  ASSUME GateInv
  PROVE  /\ admitted \in [0..MaxTime -> Nat] /\ starts \in [0..MaxTime -> Nat]
         /\ \A u \in 0..MaxTime : admitted[u] \in Nat /\ starts[u] \in Nat
<1>1. admitted \in [0..MaxTime -> Nat] /\ starts \in [0..MaxTime -> 0..MaxStarts]
  BY DEF GateInv, GateTyped
<1>2. starts \in [0..MaxTime -> Nat]  BY <1>1
<1> QED  BY <1>1, <1>2

\* The types of what is counted since a slot.
LEMMA SinceTypes ==
  ASSUME GateInv, NEW t \in 1..now
  PROVE  /\ t \in Nat /\ t - 1 \in 0..MaxTime /\ t - 1 < now /\ now \in 0..MaxTime
         /\ Since(t) \in Int /\ Restarts(t) \in Int
<1>1. t - 1 \in 0..MaxTime /\ now \in 0..MaxTime /\ t - 1 < now /\ t \in Nat  BY GateFacts
<1>2. admitted[t - 1] \in Nat /\ admitted[now] \in Nat /\ starts[t - 1] \in Nat
          /\ starts[now] \in Nat
  BY <1>1, GateCounts
<1> QED  BY <1>1, <1>2 DEF Since, Restarts

\* What is counted once more is one more from now on.
LEMMA OneMoreValues ==
  ASSUME GateInv, NEW f \in [0..MaxTime -> Nat]
  PROVE  /\ Gate!OneMore(f) \in [0..MaxTime -> Nat]
         /\ \A u \in 0..MaxTime : Gate!OneMore(f)[u] = IF u < now THEN f[u] ELSE f[u] + 1
BY GateFacts, GateCounts DEF Gate!OneMore, Gate!Times

\* A request is counted in its window, and let through if it is within the quota.
LEMMA RequestInv ==
  ASSUME GateInv, Gate!Request
  PROVE  GateInv'
<1>1. PICK counted \in Nat :
        /\ counted = IF now >= reset_at THEN 1 ELSE count + 1
        /\ counted <= MaxCount /\ count' = counted
        /\ reset_at' = IF now >= reset_at THEN now + Slots ELSE reset_at
        /\ admitted' = IF counted <= Rpm THEN Gate!OneMore(admitted) ELSE admitted
        /\ now' = now /\ starts' = starts
  BY GateFacts DEF Gate!Request
<1>2. admitted \in [0..MaxTime -> Nat] /\ starts \in [0..MaxTime -> 0..MaxStarts]
  BY DEF GateInv, GateTyped
<1>3. PICK g \in {0, 1} : /\ g = 1 <=> counted <= Rpm
                          /\ admitted' \in [0..MaxTime -> Nat]
                          /\ \A u \in 0..MaxTime :
                               admitted'[u] = IF u < now THEN admitted[u] ELSE admitted[u] + g
  <2>1. CASE counted <= Rpm  BY <1>1, <1>2, <2>1, OneMoreValues
  <2>2. CASE ~(counted <= Rpm)  BY <1>1, <1>2, <2>2, GateFacts, GateCounts
  <2> QED  BY <2>1, <2>2
<1>4. GateTyped'  BY <1>1, <1>2, <1>3, GateFacts DEF GateInv, GateTyped
<1>5. ASSUME NEW u \in now..MaxTime
      PROVE  admitted'[u] = admitted'[now] /\ starts'[u] = starts'[now]
  <2>1. u \in 0..MaxTime /\ now \in 0..MaxTime /\ ~(u < now) /\ ~(now < now)  BY GateFacts
  <2>2. admitted[u] = admitted[now] /\ starts[u] = starts[now]  BY DEF GateInv
  <2> QED  BY <1>1, <1>3, <2>1, <2>2
<1>6. reset_at' <= now + Slots  BY <1>1, GateFacts DEF GateInv
<1>7. ASSUME NEW t \in 1..now, now < t + Slots PROVE MinuteSound(t)'
  <2>1. t - 1 \in 0..MaxTime /\ now \in 0..MaxTime /\ t - 1 < now /\ t \in Nat  BY GateFacts
  <2>2. Since(t)' = Since(t) + g /\ Restarts(t)' = Restarts(t)
    <3>1. admitted'[t - 1] = admitted[t - 1] /\ admitted'[now] = admitted[now] + g
      BY <1>3, <2>1, GateFacts
    <3>2. admitted[t - 1] \in Nat /\ admitted[now] \in Nat  BY <2>1, GateCounts
    <3> QED  BY <1>1, <3>1, <3>2 DEF Since, Restarts
  <2>3. MinuteSound(t) /\ Since(t) \in Int /\ Restarts(t) \in Int
    BY <1>7, SinceTypes DEF GateInv
  <2>4. PICK s \in Int, r \in Nat : s = Since(t) /\ r = Restarts(t)  BY <2>3 DEF MinuteSound
  <2>5. PICK p \in Nat : p = Rpm * r  BY QuotaProducts
  <2>6. /\ reset_at > now /\ reset_at - Slots < t => s <= count /\ s <= Rpm
        /\ reset_at > now /\ reset_at - Slots >= t
               => s <= Rpm + p + count /\ s <= Rpm + p + Rpm
        /\ reset_at <= now => s <= Rpm + p
    BY <2>3, <2>4, <2>5 DEF MinuteSound
  <2>7. /\ reset_at' > now /\ reset_at' - Slots < t => s + g <= counted /\ s + g <= Rpm
        /\ reset_at' > now /\ reset_at' - Slots >= t =>
             s + g <= Rpm + p + counted /\ s + g <= Rpm + p + Rpm
        /\ reset_at' <= now => s + g <= Rpm + p
    <3>1. PICK z \in Nat : /\ z = reset_at'
                           /\ z = IF now >= reset_at THEN now + Slots ELSE reset_at
      BY <1>1, GateFacts
    <3>2. /\ g \in {0, 1} /\ (g = 1 => counted <= Rpm) /\ counted \in Nat
          /\ counted = IF now >= reset_at THEN 1 ELSE count + 1
      BY <1>1, <1>3
    <3>3. CASE now >= reset_at
      <4>1. z = now + Slots /\ counted = 1 /\ s <= Rpm + p /\ t <= now
        BY <2>1, <2>6, <3>1, <3>2, <3>3, GateFacts
      <4> QED  BY <2>1, <3>1, <3>2, <4>1, GateFacts
    <3>4. CASE ~(now >= reset_at)
      <4>1. z = reset_at /\ counted = count + 1 /\ z > now  BY <3>1, <3>2, <3>4, GateFacts
      <4>2. CASE z - Slots < t  BY <2>1, <2>6, <3>1, <3>2, <4>1, <4>2, GateFacts
      <4>3. CASE ~(z - Slots < t)  BY <2>1, <2>6, <3>1, <3>2, <4>1, <4>3, GateFacts
      <4> QED  BY <4>2, <4>3
    <3> QED  BY <3>3, <3>4
  <2> QED  BY <1>1, <2>2, <2>4, <2>5, <2>7 DEF MinuteSound
<1>8. ASSUME NEW t \in 1..now, t + Slots <= now PROVE MinuteOver(t)'
  <2>1. /\ t - 1 \in 0..MaxTime /\ t + Slots - 1 \in 0..MaxTime
        /\ t - 1 < now /\ t + Slots - 1 < now
    BY <1>8, GateFacts
  <2>2. /\ admitted'[t - 1] = admitted[t - 1]
        /\ admitted'[t + Slots - 1] = admitted[t + Slots - 1]
    BY <1>3, <2>1
  <2> QED  BY <1>1, <1>8, <2>2 DEF GateInv, MinuteOver
<1> QED  BY <1>1, <1>4, <1>5, <1>6, <1>7, <1>8 DEF GateInv

\* Time passes: a window may end, and a minute.
LEMMA ElapseInv ==
  ASSUME GateInv, Gate!Elapse
  PROVE  GateInv'
<1>1. /\ now < MaxTime /\ now' = now + 1
      /\ reset_at' = reset_at /\ count' = count /\ admitted' = admitted /\ starts' = starts
  BY DEF Gate!Elapse
<1>2. GateTyped'  BY <1>1, GateFacts DEF GateInv, GateTyped
<1>3. now \in now..MaxTime /\ now + 1 \in now..MaxTime  BY <1>1, GateFacts
<1>4. admitted[now + 1] = admitted[now] /\ starts[now + 1] = starts[now]  BY <1>3 DEF GateInv
<1>5. \A u \in (now + 1)..MaxTime :
          admitted[u] = admitted[now + 1] /\ starts[u] = starts[now + 1]
  BY <1>1, <1>4, GateFacts DEF GateInv
<1>6. ASSUME NEW t \in 1..(now + 1), now + 1 < t + Slots PROVE MinuteSound(t)'
  <2>1. Since(t)' = admitted[now] - admitted[t - 1]
            /\ Restarts(t)' = starts[now] - starts[t - 1]
    BY <1>1, <1>4 DEF Since, Restarts
  <2>2. CASE t = now + 1
    <3>1. Since(t)' = 0 /\ Restarts(t)' = 0
      <4>1. t - 1 = now /\ now \in 0..MaxTime  BY <2>2, GateFacts
      <4>2. admitted[now] \in Nat /\ starts[now] \in Nat  BY <4>1, GateCounts
      <4> QED  BY <2>1, <4>1, <4>2
    <3>2. Rpm * 0 = 0  BY GateFacts
    <3> QED  BY <1>1, <3>1, <3>2, GateFacts DEF MinuteSound
  <2>3. CASE t \in 1..now
    <3>1. MinuteSound(t) /\ Since(t) \in Int /\ Restarts(t) \in Int
      BY <1>6, <2>3, SinceTypes, GateFacts DEF GateInv
    <3>2. Since(t)' = Since(t) /\ Restarts(t)' = Restarts(t)  BY <2>1 DEF Since, Restarts
    <3>3. PICK s \in Int, r \in Nat : s = Since(t) /\ r = Restarts(t)  BY <3>1 DEF MinuteSound
    <3>4. PICK p \in Nat : p = Rpm * r  BY QuotaProducts
    <3>5. /\ reset_at > now /\ reset_at - Slots < t => s <= count /\ s <= Rpm
          /\ reset_at > now /\ reset_at - Slots >= t
                 => s <= Rpm + p + count /\ s <= Rpm + p + Rpm
          /\ reset_at <= now => s <= Rpm + p
      BY <3>1, <3>3, <3>4 DEF MinuteSound
    <3>6. /\ reset_at > now + 1 /\ reset_at - Slots < t => s <= count /\ s <= Rpm
          /\ reset_at > now + 1 /\ reset_at - Slots >= t
                 => s <= Rpm + p + count /\ s <= Rpm + p + Rpm
          /\ reset_at <= now + 1 => s <= Rpm + p
      BY <1>6, <3>5, GateFacts
    <3> QED  BY <1>1, <3>2, <3>3, <3>4, <3>6 DEF MinuteSound
  <2> QED  BY <2>2, <2>3, GateFacts
<1>7. ASSUME NEW t \in 1..(now + 1), t + Slots <= now + 1 PROVE MinuteOver(t)'
  <2>1. t \in 1..now  BY <1>7, GateFacts
  <2>2. CASE t + Slots <= now  BY <1>1, <2>1, <2>2 DEF GateInv, MinuteOver
  <2>3. CASE t + Slots - 1 = now
    <3>1. MinuteSound(t) /\ Since(t) \in Int /\ Restarts(t) \in Int
      BY <2>1, <2>3, SinceTypes, GateFacts DEF GateInv
    <3>2. PICK s \in Int, r \in Nat : s = Since(t) /\ r = Restarts(t)  BY <3>1 DEF MinuteSound
    <3>3. PICK p \in Nat : p = Rpm * r  BY QuotaProducts
    <3>4. s <= Rpm + Rpm + p
      <4>1. /\ reset_at > now /\ reset_at - Slots < t => s <= Rpm
            /\ reset_at > now /\ reset_at - Slots >= t => s <= Rpm + p + Rpm
            /\ reset_at <= now => s <= Rpm + p
        BY <3>1, <3>2, <3>3 DEF MinuteSound
      <4> QED  BY <4>1, GateFacts
    <3> QED  BY <1>1, <2>3, <3>2, <3>3, <3>4 DEF MinuteOver, Since, Restarts
  <2> QED  BY <1>7, <2>1, <2>2, <2>3, GateFacts
<1>8. reset_at <= now + 1 + Slots  BY GateFacts DEF GateInv
<1> QED  BY <1>1, <1>2, <1>5, <1>6, <1>7, <1>8 DEF GateInv

\* A restart ends the window, and is counted.
LEMMA RestartGatewayInv ==
  ASSUME GateInv, Gate!RestartGateway
  PROVE  GateInv'
<1>1. /\ starts[MaxTime] < MaxStarts /\ starts' = Gate!OneMore(starts)
      /\ reset_at' = 0 /\ count' = 0 /\ now' = now /\ admitted' = admitted
  BY DEF Gate!RestartGateway
<1>2. starts \in [0..MaxTime -> Nat]  BY GateCounts
<1>3. /\ starts' \in [0..MaxTime -> Nat]
      /\ \A u \in 0..MaxTime : starts'[u] = IF u < now THEN starts[u] ELSE starts[u] + 1
  BY <1>1, <1>2, OneMoreValues
<1>4. ASSUME NEW u \in now..MaxTime
      PROVE  admitted'[u] = admitted'[now] /\ starts'[u] = starts'[now]
  <2>1. u \in 0..MaxTime /\ now \in 0..MaxTime /\ ~(u < now) /\ ~(now < now)  BY GateFacts
  <2>2. admitted[u] = admitted[now] /\ starts[u] = starts[now]  BY DEF GateInv
  <2> QED  BY <1>1, <1>3, <2>1, <2>2
<1>5. GateTyped'
  <2>1. MaxTime \in now..MaxTime  BY GateFacts
  <2>2. \A u \in now..MaxTime : starts[u] < MaxStarts  BY <1>1, <2>1 DEF GateInv
  <2>3. \A u \in 0..MaxTime : starts'[u] \in 0..MaxStarts
    <3>1. \A u \in 0..MaxTime : u \in Nat /\ starts[u] \in 0..MaxStarts
                                 /\ (~(u < now) => u \in now..MaxTime)
      BY GateFacts DEF GateInv, GateTyped
    <3> QED  BY <1>3, <2>2, <3>1, GateFacts
  <2>4. starts' \in [0..MaxTime -> 0..MaxStarts]  BY <1>3, <2>3
  <2> QED  BY <1>1, <2>4, GateFacts DEF GateInv, GateTyped
<1>6. ASSUME NEW t \in 1..now, now < t + Slots PROVE MinuteSound(t)'
  <2>1. t - 1 \in 0..MaxTime /\ now \in 0..MaxTime /\ t - 1 < now  BY GateFacts
  <2>2. Since(t)' = Since(t) /\ Restarts(t)' = Restarts(t) + 1
    <3>1. starts'[t - 1] = starts[t - 1] /\ starts'[now] = starts[now] + 1
      BY <1>3, <2>1, GateFacts
    <3>2. starts[t - 1] \in Nat /\ starts[now] \in Nat  BY <2>1, GateCounts
    <3> QED  BY <1>1, <3>1, <3>2 DEF Since, Restarts
  <2>3. MinuteSound(t) /\ Since(t) \in Int /\ Restarts(t) \in Int
    BY <1>6, SinceTypes DEF GateInv
  <2>4. PICK s \in Int, r \in Nat : s = Since(t) /\ r = Restarts(t)  BY <2>3 DEF MinuteSound
  <2>5. PICK p \in Nat : p = Rpm * r /\ Rpm * (r + 1) = p + Rpm  BY QuotaProducts
  <2>6. s <= Rpm + p + Rpm  BY <2>3, <2>4, <2>5, GateFacts DEF MinuteSound
  <2>7. Since(t)' = s /\ Restarts(t)' = r + 1  BY <2>2, <2>4
  <2>8. s <= Rpm + Rpm * (r + 1) /\ r + 1 >= 0  BY <2>5, <2>6, GateFacts
  <2> QED  BY <1>1, <2>1, <2>7, <2>8 DEF MinuteSound
<1>7. ASSUME NEW t \in 1..now, t + Slots <= now PROVE MinuteOver(t)'
  <2>1. /\ t - 1 \in 0..MaxTime /\ t + Slots - 1 \in 0..MaxTime
        /\ t - 1 < now /\ t + Slots - 1 < now
    BY <1>7, GateFacts
  <2>2. /\ starts'[t - 1] = starts[t - 1]
        /\ starts'[t + Slots - 1] = starts[t + Slots - 1]
    BY <1>3, <2>1
  <2> QED  BY <1>1, <1>7, <2>2 DEF GateInv, MinuteOver
<1>8. reset_at' <= now + Slots  BY <1>1, GateFacts
<1> QED  BY <1>1, <1>4, <1>5, <1>6, <1>7, <1>8 DEF GateInv

\* The windows stay laid end to end, in every behaviour of the gateway.
THEOREM GatewayInvariance == GatewaySpec => []GateInv
<1>1. GateInv /\ [Gate!GatewayNext]_gateway => GateInv'
  <2> SUFFICES ASSUME GateInv, [Gate!GatewayNext]_gateway PROVE GateInv'  OBVIOUS
  <2>1. CASE UNCHANGED gateway
    <3>1. /\ now' = now /\ reset_at' = reset_at /\ count' = count
          /\ admitted' = admitted /\ starts' = starts
      BY <2>1 DEF gateway
    <3> QED  BY <3>1 DEF GateInv, GateTyped, MinuteSound, MinuteOver, Since, Restarts
  <2> QED  BY <2>1, RequestInv, ElapseInv, RestartGatewayInv DEF Gate!GatewayNext
<1> QED  BY GateInitInv, <1>1, PTL DEF GatewaySpec

\* A minute until now lets through what RateBounded allows, and so does one that
\* is over.
LEMMA RateHolds == GateInv => Gate!RateBounded
<1> SUFFICES ASSUME GateInv, NEW t \in 1..(MaxTime - Slots + 1)
             PROVE  admitted[t + Slots - 1] - admitted[t - 1]
                      <= Rpm * (2 + (starts[t + Slots - 1] - starts[t - 1]))
  BY DEF Gate!RateBounded
<1>1. /\ t \in Nat /\ t >= 1 /\ t - 1 \in 0..MaxTime /\ t + Slots - 1 \in 0..MaxTime
      /\ now \in 0..MaxTime
  BY GateFacts
<1> DEFINE s == admitted[t + Slots - 1] - admitted[t - 1]
           r == starts[t + Slots - 1] - starts[t - 1]
<1>2. s \in Int /\ r \in Int  BY <1>1, GateCounts
<1>3. Rpm * (2 + r) = Rpm + Rpm + Rpm * r  BY <1>2, GateFacts
<1>4. s <= Rpm + Rpm + Rpm * r
  <2>1. CASE t <= now /\ t + Slots <= now  BY <1>1, <2>1 DEF GateInv, MinuteOver
  <2>2. CASE t <= now /\ now < t + Slots
    <3>1. /\ admitted[t + Slots - 1] = admitted[now]
          /\ starts[t + Slots - 1] = starts[now]
      BY <1>1, <2>2, GateFacts DEF GateInv
    <3>2. MinuteSound(t) /\ s = Since(t) /\ r = Restarts(t)
      BY <1>1, <2>2, <3>1 DEF GateInv, Since, Restarts
    <3>3. r \in Nat  BY <1>2, <3>2 DEF MinuteSound
    <3>4. PICK p \in Nat : p = Rpm * r  BY <3>3, QuotaProducts
    <3>5. s <= Rpm + Rpm + p
      <4>1. /\ reset_at > now /\ reset_at - Slots < t => s <= Rpm
            /\ reset_at > now /\ reset_at - Slots >= t => s <= Rpm + p + Rpm
            /\ reset_at <= now => s <= Rpm + p
        BY <3>2, <3>4 DEF MinuteSound
      <4> QED  BY <1>1, <1>2, <4>1, GateFacts
    <3> QED  BY <3>4, <3>5
  <2>3. CASE now < t
    <3>1. t - 1 \in now..MaxTime /\ t + Slots - 1 \in now..MaxTime  BY <1>1, <2>3, GateFacts
    <3>2. s = 0 /\ r = 0
      <4>1. /\ admitted[t - 1] = admitted[t + Slots - 1]
            /\ starts[t - 1] = starts[t + Slots - 1]
        BY <3>1 DEF GateInv
      <4> QED  BY <1>1, <4>1, GateCounts
    <3>3. Rpm * 0 = 0  BY GateFacts
    <3> QED  BY <3>2, <3>3, GateFacts
  <2> QED  BY <1>1, <2>1, <2>2, <2>3, GateFacts
<1> QED  BY <1>3, <1>4
-----------------------------------------------------------------------------
\* Payslips as files.  Lines are missing once the run has been calculated
\* anew, and from then on; a run that is submitted with no calculation under
\* way is not calculated any more.

Itemisations == UNION {[1..n -> BOOLEAN] : n \in 0..Headcount}

ExportTyped ==
  /\ run \in [status : {"draft", "computed", "pending_approval", "approved"},
              calculation : Nat]
  /\ under_way \in Nat
  /\ export_job \in [Exports -> {"none", "completed"}]
  /\ stage \in [Exports -> {"idle", "checked", "listed", "over"}]
  /\ wanted \in [Exports -> SUBSET SlipFormats]
  /\ listed \in [Exports -> Nat]
  /\ itemised \in [Exports -> Itemisations] /\ final \subseteq Exports

\* What an export has read, against the run as it is.
ReadSound(x) ==
  /\ stage[x] \in {"idle", "checked"} => listed[x] = 0 /\ DOMAIN itemised[x] = {}
  /\ listed[x] <= run.calculation
  /\ \A e \in DOMAIN itemised[x] : ~ itemised[x][e] => listed[x] < run.calculation
  /\ \A d, e \in DOMAIN itemised[x] : d < e /\ itemised[x][e] => itemised[x][d]

WrittenSound(x) ==
  export_job[x] = "completed" =>
    /\ stage[x] = "over" /\ DOMAIN itemised[x] = 1..Headcount
    /\ \A f \in wanted[x] : <<x, f>> \in slip_files /\ <<x, f>> \in onDisk

FinalSound(x) ==
  x \in final =>
    /\ stage[x] # "idle" /\ under_way = 0 /\ run.status \in {"pending_approval", "approved"}
    /\ \A e \in DOMAIN itemised[x] : itemised[x][e]
    /\ listed[x] = 0 \/ listed[x] = run.calculation
    /\ stage[x] = "listed" => listed[x] = run.calculation

ExportInv ==
  /\ ExportTyped
  /\ \A x \in Exports : ReadSound(x) /\ WrittenSound(x) /\ FinalSound(x)

\* The cardinality of the exports is that of the library.
LEMMA ExportCard == \A S : Export!Cardinality(S) = Cardinality(S)
BY DEF Export!Cardinality, Cardinality

\* The lines that have been read are those of the first records.
LEMMA LinesCounted ==
  ASSUME NEW s \in Itemisations
  PROVE  \E n \in 0..Headcount :
           /\ s \in [1..n -> BOOLEAN] /\ DOMAIN s = 1..n
           /\ Export!Cardinality(DOMAIN s) = n /\ n \in Nat
<1>1. PICK n \in 0..Headcount : s \in [1..n -> BOOLEAN]  BY DEF Itemisations
<1>2. n \in Nat /\ DOMAIN s = 1..n  BY <1>1, HeadcountAssumption
<1>3. Cardinality(1..n) = n  BY <1>2, FS_Interval
<1> QED  BY <1>1, <1>2, <1>3, ExportCard

\* Nothing has been read.
LEMMA ExportInitInv == Export!ExportInit => ExportInv
<1> SUFFICES ASSUME Export!ExportInit PROVE ExportInv  OBVIOUS
<1>1. /\ run = [status |-> "draft", calculation |-> 0] /\ under_way = 0
      /\ export_job = [x \in Exports |-> "none"] /\ final = {}
      /\ stage = [x \in Exports |-> "idle"] /\ wanted = [x \in Exports |-> {}]
      /\ listed = [x \in Exports |-> 0] /\ itemised = [x \in Exports |-> <<>>]
  BY DEF Export!ExportInit
<1>2. <<>> \in [1..0 -> BOOLEAN] /\ DOMAIN <<>> = {}  OBVIOUS
<1>3. <<>> \in Itemisations  BY <1>2, HeadcountAssumption DEF Itemisations
<1>4. ExportTyped  BY <1>1, <1>3 DEF ExportTyped
<1>5. ASSUME NEW x \in Exports PROVE ReadSound(x) /\ WrittenSound(x) /\ FinalSound(x)
  <2>1. /\ stage[x] = "idle" /\ listed[x] = 0 /\ itemised[x] = <<>>
        /\ export_job[x] = "none" /\ x \notin final /\ run.calculation = 0
    BY <1>1
  <2>2. DOMAIN itemised[x] = {}  BY <1>2, <2>1
  <2> QED  BY <2>1, <2>2 DEF ReadSound, WrittenSound, FinalSound
<1> QED  BY <1>4, <1>5 DEF ExportInv

\* An export that has not moved, while the run is as it was.
LEMMA Unmoved ==
  ASSUME ExportInv, NEW x \in Exports,
         stage'[x] = stage[x], wanted'[x] = wanted[x], listed'[x] = listed[x],
         itemised'[x] = itemised[x], export_job'[x] = export_job[x],
         run' = run, under_way' = under_way,
         slip_files \subseteq slip_files', onDisk \subseteq onDisk',
         x \in final' => x \in final
  PROVE  ReadSound(x)' /\ WrittenSound(x)' /\ FinalSound(x)'
<1>1. ReadSound(x) /\ WrittenSound(x) /\ FinalSound(x)  BY DEF ExportInv
<1>2. ReadSound(x)'  BY <1>1 DEF ReadSound
<1>3. WrittenSound(x)'  BY <1>1 DEF WrittenSound
<1>4. FinalSound(x)'  BY <1>1 DEF FinalSound
<1> QED  BY <1>2, <1>3, <1>4

\* The run moves, and no export.
LEMMA RunMoves ==
  ASSUME ExportInv,
         UNCHANGED <<export_job, slip_files, onDisk, stage, wanted, listed, itemised, final>>,
         run' \in [status : {"draft", "computed", "pending_approval", "approved"},
                   calculation : Nat],
         under_way' \in Nat, run'.calculation >= run.calculation,
         final # {} => /\ run'.calculation = run.calculation /\ under_way' = 0
                       /\ run'.status \in {"pending_approval", "approved"}
  PROVE  ExportInv'
<1>1. ExportTyped /\ run.calculation \in Nat /\ run'.calculation \in Nat
  BY DEF ExportInv, ExportTyped
<1>2. ExportTyped'  BY <1>1 DEF ExportTyped
<1>3. ASSUME NEW x \in Exports PROVE ReadSound(x)' /\ WrittenSound(x)' /\ FinalSound(x)'
  <2>1. ReadSound(x) /\ WrittenSound(x) /\ FinalSound(x) /\ listed[x] \in Nat
    BY <1>1 DEF ExportInv, ExportTyped
  <2>2. PICK l \in Nat : l = listed[x]  BY <2>1
  <2>3. PICK n \in Nat : n = run.calculation  BY <1>1
  <2>4. PICK m \in Nat : m = run'.calculation  BY <1>1
  <2>5. m >= n /\ l <= n  BY <2>1, <2>2, <2>3, <2>4 DEF ReadSound
  <2>6. l <= m /\ (l < n => l < m)  BY <2>5
  <2>7. ReadSound(x)'  BY <2>1, <2>2, <2>3, <2>4, <2>6 DEF ReadSound
  <2>8. WrittenSound(x)'  BY <2>1 DEF WrittenSound
  <2>9. FinalSound(x)'  BY <2>1 DEF FinalSound
  <2> QED  BY <2>7, <2>8, <2>9
<1> QED  BY <1>2, <1>3 DEF ExportInv

\* Calculations, and the decisions on the run.
LEMMA CalculationInv ==
  ASSUME ExportInv,
         \/ Export!BeginCalculation \/ Export!Calculate
         \/ Export!GiveUp \/ Export!Decide
  PROVE  ExportInv'
<1>1. /\ run \in [status : {"draft", "computed", "pending_approval", "approved"},
                  calculation : Nat]
      /\ run.calculation \in Nat /\ under_way \in Nat
  BY DEF ExportInv, ExportTyped
<1>2. final # {} => under_way = 0 /\ run.status \in {"pending_approval", "approved"}
  BY DEF ExportInv, ExportTyped, FinalSound
<1>3. UNCHANGED <<export_job, slip_files, onDisk, stage, wanted, listed, itemised, final>>
  BY DEF Export!BeginCalculation, Export!Calculate, Export!GiveUp, Export!Decide,
         Export!requests
<1>4. CASE Export!BeginCalculation \/ Export!GiveUp
  <2>1. run' = run /\ under_way' \in Nat
    BY <1>1, <1>4 DEF Export!BeginCalculation, Export!GiveUp
  <2>2. final = {}  BY <1>1, <1>2, <1>4 DEF Export!BeginCalculation, Export!GiveUp
  <2> QED  BY <1>1, <1>3, <2>1, <2>2, RunMoves
<1>5. CASE Export!Calculate
  <2>1. /\ run' = [status |-> "computed", calculation |-> run.calculation + 1]
        /\ under_way' \in Nat /\ final = {}
    BY <1>1, <1>2, <1>5 DEF Export!Calculate
  <2>2. /\ run' \in [status : {"draft", "computed", "pending_approval", "approved"},
                      calculation : Nat]
        /\ run'.calculation >= run.calculation
    BY <1>1, <2>1
  <2> QED  BY <1>3, <2>1, <2>2, RunMoves
<1>6. CASE Export!Decide
  <2>1. PICK to \in {"pending_approval", "approved"} : run' = [run EXCEPT !.status = to]
    BY <1>6 DEF Export!Decide
  <2>2. /\ run' \in [status : {"draft", "computed", "pending_approval", "approved"},
                      calculation : Nat]
        /\ run'.calculation = run.calculation /\ run'.status = to
    BY <1>1, <2>1
  <2>3. under_way' = under_way  BY <1>6 DEF Export!Decide
  <2> QED  BY <1>1, <1>2, <1>3, <2>2, <2>3, RunMoves
<1> QED  BY <1>4, <1>5, <1>6

\* A request is inserted as running, and finds the run calculated.
LEMMA ReadRunInv ==
  ASSUME ExportInv, NEW x \in Exports, Export!ReadRun(x)
  PROVE  ExportInv'
<1>1. PICK formats \in SUBSET SlipFormats : wanted' = [wanted EXCEPT ![x] = formats]
  BY DEF Export!ReadRun
<1>2. /\ export_job[x] = "none" /\ stage[x] = "idle"
      /\ stage' = [stage EXCEPT ![x] = "checked"]
      /\ run.status \in {"computed", "pending_approval", "approved"}
      /\ final' = IF run.status = "computed" \/ under_way > 0 THEN final ELSE final \cup {x}
      /\ UNCHANGED <<run, under_way, export_job, slip_files, onDisk, listed, itemised>>
  BY DEF Export!ReadRun, Export!Advance, Export!Exportable
<1>3. ExportTyped /\ ReadSound(x) /\ WrittenSound(x) /\ x \notin final
  BY <1>2 DEF ExportInv, FinalSound
<1>4. ExportTyped'
  <2>1. stage' \in [Exports -> {"idle", "checked", "listed", "over"}]
    BY <1>2, <1>3 DEF ExportTyped
  <2>2. wanted' \in [Exports -> SUBSET SlipFormats]  BY <1>1, <1>3 DEF ExportTyped
  <2>3. final' \subseteq Exports  BY <1>2, <1>3 DEF ExportTyped
  <2> QED  BY <1>2, <1>3, <2>1, <2>2, <2>3 DEF ExportTyped
<1>5. ASSUME NEW y \in Exports \ {x} PROVE ReadSound(y)' /\ WrittenSound(y)' /\ FinalSound(y)'
  <2>1. stage'[y] = stage[y] /\ wanted'[y] = wanted[y] /\ (y \in final' => y \in final)
    BY <1>1, <1>2, <1>3 DEF ExportTyped
  <2> QED  BY <1>2, <2>1, Unmoved
<1>6. /\ stage'[x] = "checked" /\ DOMAIN itemised'[x] = {} /\ listed'[x] = 0
      /\ export_job'[x] = "none" /\ listed[x] = 0 /\ DOMAIN itemised[x] = {}
  BY <1>2, <1>3 DEF ExportTyped, ReadSound
<1>7. ReadSound(x)' /\ WrittenSound(x)'  BY <1>2, <1>3, <1>6 DEF ReadSound, WrittenSound
<1>8. FinalSound(x)'
  <2>1. x \in final' => under_way = 0 /\ run.status \in {"pending_approval", "approved"}
    BY <1>2, <1>3 DEF ExportTyped
  <2> QED  BY <1>2, <1>6, <2>1 DEF FinalSound
<1> QED  BY <1>4, <1>5, <1>7, <1>8 DEF ExportInv

\* It lists the records of the last calculation.
LEMMA ListRecordsInv ==
  ASSUME ExportInv, NEW x \in Exports, Export!ListRecords(x)
  PROVE  ExportInv'
<1>1. /\ stage[x] = "checked" /\ stage' = [stage EXCEPT ![x] = "listed"]
      /\ listed' = [listed EXCEPT ![x] = run.calculation]
      /\ UNCHANGED <<run, under_way, export_job, slip_files, onDisk, wanted, itemised, final>>
  BY DEF Export!ListRecords, Export!Advance
<1>2. ExportTyped /\ ReadSound(x) /\ WrittenSound(x) /\ FinalSound(x)
          /\ run.calculation \in Nat
  BY DEF ExportInv, ExportTyped
<1>3. ExportTyped'
  <2>1. stage' \in [Exports -> {"idle", "checked", "listed", "over"}]
    BY <1>1, <1>2 DEF ExportTyped
  <2>2. listed' \in [Exports -> Nat]  BY <1>1, <1>2 DEF ExportTyped
  <2> QED  BY <1>1, <1>2, <2>1, <2>2 DEF ExportTyped
<1>4. ASSUME NEW y \in Exports \ {x} PROVE ReadSound(y)' /\ WrittenSound(y)' /\ FinalSound(y)'
  <2>1. stage'[y] = stage[y] /\ listed'[y] = listed[y]  BY <1>1, <1>2 DEF ExportTyped
  <2> QED  BY <1>1, <2>1, Unmoved
<1>5. /\ stage'[x] = "listed" /\ listed'[x] = run.calculation /\ DOMAIN itemised[x] = {}
  BY <1>1, <1>2 DEF ExportTyped, ReadSound
<1>6. ReadSound(x)' /\ WrittenSound(x)' /\ FinalSound(x)'
  BY <1>1, <1>2, <1>5 DEF ReadSound, WrittenSound, FinalSound
<1> QED  BY <1>3, <1>4, <1>6 DEF ExportInv

\* It reads the lines of one more record, if they are still there.
LEMMA ReadLinesInv ==
  ASSUME ExportInv, NEW x \in Exports, Export!ReadLines(x)
  PROVE  ExportInv'
<1>1. PICK s : s = itemised[x]  OBVIOUS
<1>2. ExportTyped /\ ReadSound(x) /\ WrittenSound(x) /\ FinalSound(x)  BY DEF ExportInv
<1>3. s \in Itemisations  BY <1>1, <1>2 DEF ExportTyped
<1>4. PICK n \in 0..Headcount :
        /\ s \in [1..n -> BOOLEAN] /\ DOMAIN s = 1..n
        /\ Export!Cardinality(DOMAIN s) = n /\ n \in Nat
  BY <1>3, LinesCounted
<1>5. PICK now_there \in BOOLEAN : now_there = (listed[x] = run.calculation)  OBVIOUS
<1>6. PICK t : t = [e \in 1 .. n + 1 |-> IF e \in DOMAIN s THEN s[e] ELSE now_there]  OBVIOUS
<1>7. /\ stage[x] = "listed" /\ n < Headcount
      /\ itemised' = [itemised EXCEPT ![x] = t]
      /\ UNCHANGED <<run, under_way, export_job, slip_files, onDisk, stage, wanted,
                     listed, final>>
  BY <1>1, <1>2, <1>4, <1>5, <1>6 DEF Export!ReadLines, ExportTyped
<1>8. /\ t \in [1 .. n + 1 -> BOOLEAN] /\ DOMAIN t = 1 .. n + 1
      /\ \A e \in 1..n : t[e] = s[e]
      /\ t[n + 1] = now_there /\ n + 1 \in 0..Headcount
  <2>1. \A e \in 1 .. n + 1 : (e \in 1..n \/ e = n + 1) /\ ~ (n + 1 \in 1..n)  BY <1>4
  <2> QED  BY <1>4, <1>6, <1>7, <2>1, HeadcountAssumption
<1>9. ExportTyped'
  <2>1. t \in Itemisations  BY <1>8 DEF Itemisations
  <2>2. itemised' \in [Exports -> Itemisations]  BY <1>2, <1>7, <2>1 DEF ExportTyped
  <2> QED  BY <1>2, <1>7, <2>2 DEF ExportTyped
<1>10. ASSUME NEW y \in Exports \ {x} PROVE ReadSound(y)' /\ WrittenSound(y)' /\ FinalSound(y)'
  <2>1. itemised'[y] = itemised[y]  BY <1>2, <1>7 DEF ExportTyped
  <2> QED  BY <1>7, <2>1, Unmoved
<1>11. itemised'[x] = t  BY <1>2, <1>7 DEF ExportTyped
<1>12. PICK l \in Nat : l = listed[x]  BY <1>2 DEF ExportTyped
<1>13. PICK m \in Nat : m = run.calculation  BY <1>2 DEF ExportTyped
<1>14. /\ l <= m /\ (now_there => l = m) /\ (~ now_there => l # m)
       /\ \A e \in 1..n : ~ s[e] => l < m
       /\ \A d, e \in 1..n : d < e /\ s[e] => s[d]
  BY <1>1, <1>2, <1>4, <1>5, <1>12, <1>13 DEF ReadSound
<1>15. \A e \in 1 .. n + 1 : e \in 1..n \/ e = n + 1  BY <1>4
<1>16. \A e \in 1 .. n + 1 : ~ t[e] => l < m
  <2>1. ~ now_there => l < m  BY <1>12, <1>13, <1>14
  <2> QED  BY <1>8, <1>14, <1>15, <2>1
<1>17. \A d, e \in 1 .. n + 1 : d < e /\ t[e] => t[d]
  <2>1. SUFFICES ASSUME NEW d \in 1 .. n + 1, NEW e \in 1 .. n + 1, d < e, t[e]
                 PROVE  t[d]
    OBVIOUS
  <2>2. d \in 1..n  BY <1>4, <1>15, <2>1
  <2>3. CASE e \in 1..n  BY <1>8, <1>14, <2>1, <2>2, <2>3
  <2>4. CASE e = n + 1
    <3>1. l = m  BY <1>8, <1>14, <2>1, <2>4
    <3> QED  BY <1>8, <1>14, <2>2, <3>1
  <2> QED  BY <1>15, <2>3, <2>4
<1>18. ReadSound(x)'
  BY <1>2, <1>7, <1>8, <1>11, <1>12, <1>13, <1>14, <1>16, <1>17 DEF ReadSound
<1>19. WrittenSound(x)'  BY <1>2, <1>7 DEF WrittenSound
<1>20. FinalSound(x)'
  <2>1. SUFFICES ASSUME x \in final
                 PROVE  \A e \in 1 .. n + 1 : t[e]
    BY <1>2, <1>7, <1>8, <1>11 DEF FinalSound
  <2>2. l = m /\ \A e \in 1..n : s[e]
    BY <1>1, <1>2, <1>4, <1>7, <1>12, <1>13, <2>1 DEF FinalSound
  <2> QED  BY <1>8, <1>14, <1>15, <2>2
<1> QED  BY <1>9, <1>10, <1>18, <1>19, <1>20 DEF ExportInv

\* It writes a file, which is there before the row.
LEMMA WriteFileInv ==
  ASSUME ExportInv, NEW x \in Exports, NEW f \in SlipFormats, Export!WriteFile(x, f)
  PROVE  ExportInv'
<1>1. /\ onDisk \subseteq onDisk'
      /\ UNCHANGED <<run, under_way, export_job, slip_files, stage, wanted, listed,
                     itemised, final>>
  BY DEF Export!WriteFile
<1>2. ExportTyped'  BY <1>1 DEF ExportInv, ExportTyped
<1>3. ASSUME NEW y \in Exports PROVE ReadSound(y)' /\ WrittenSound(y)' /\ FinalSound(y)'
  BY <1>1, Unmoved
<1> QED  BY <1>2, <1>3 DEF ExportInv

\* It is over: completed with all its rows, or without a trace but the files.
LEMMA OverInv ==
  ASSUME ExportInv, NEW x \in Exports, Export!Complete(x) \/ Export!Abort(x)
  PROVE  ExportInv'
<1>1. /\ stage[x] \in {"checked", "listed"} /\ stage' = [stage EXCEPT ![x] = "over"]
      /\ UNCHANGED <<run, under_way, onDisk, wanted, listed, itemised, final>>
  BY DEF Export!Complete, Export!Abort, Export!Advance
<1>2. /\ ExportTyped /\ ReadSound(x) /\ WrittenSound(x) /\ FinalSound(x)  BY DEF ExportInv
<1>3. /\ slip_files \subseteq slip_files'
      /\ \/ export_job' = export_job
         \/ /\ export_job' = [export_job EXCEPT ![x] = "completed"]
            /\ DOMAIN itemised[x] = 1..Headcount
            /\ \A f \in wanted[x] : <<x, f>> \in slip_files' /\ <<x, f>> \in onDisk
  BY DEF Export!Complete, Export!Abort, Export!Paid
<1>4. ExportTyped'
  <2>1. stage' \in [Exports -> {"idle", "checked", "listed", "over"}]
    BY <1>1, <1>2 DEF ExportTyped
  <2>2. export_job' \in [Exports -> {"none", "completed"}]  BY <1>2, <1>3 DEF ExportTyped
  <2> QED  BY <1>1, <1>2, <2>1, <2>2 DEF ExportTyped
<1>5. ASSUME NEW y \in Exports \ {x} PROVE ReadSound(y)' /\ WrittenSound(y)' /\ FinalSound(y)'
  <2>1. stage'[y] = stage[y] /\ export_job'[y] = export_job[y]
    BY <1>1, <1>2, <1>3 DEF ExportTyped
  <2> QED  BY <1>1, <1>3, <2>1, Unmoved
<1>6. stage'[x] = "over" /\ export_job[x] # "completed"
  BY <1>1, <1>2 DEF ExportTyped, WrittenSound
<1>7. ReadSound(x)' /\ FinalSound(x)'  BY <1>1, <1>2, <1>6 DEF ReadSound, FinalSound
<1>8. WrittenSound(x)'  BY <1>1, <1>3, <1>6 DEF WrittenSound
<1> QED  BY <1>4, <1>5, <1>7, <1>8 DEF ExportInv

\* The invariant of the exports.
THEOREM ExportInvariance == ExportSpec => []ExportInv
<1>1. ExportInv /\ [Export!ExportNext]_exports => ExportInv'
  <2> SUFFICES ASSUME ExportInv, [Export!ExportNext]_exports PROVE ExportInv'  OBVIOUS
  <2>1. CASE UNCHANGED exports
    <3>1. UNCHANGED <<run, under_way, export_job, slip_files, onDisk, stage, wanted, listed,
                      itemised, final>>
      BY <2>1 DEF exports
    <3>2. ExportTyped'  BY <3>1 DEF ExportInv, ExportTyped
    <3>3. ASSUME NEW y \in Exports PROVE ReadSound(y)' /\ WrittenSound(y)' /\ FinalSound(y)'
      BY <3>1, Unmoved
    <3> QED  BY <3>2, <3>3 DEF ExportInv
  <2> QED
    BY <2>1, CalculationInv, ReadRunInv, ListRecordsInv, ReadLinesInv, WriteFileInv, OverInv
       DEF Export!ExportNext
<1> QED  BY <1>1, ExportInitInv, PTL DEF ExportSpec

\* The property follows.
LEMMA PayslipsHold == ExportInv => Export!PayslipsWhole
<1> SUFFICES ASSUME ExportInv, NEW x \in Exports
    PROVE  /\ export_job[x] = "completed" =>
                DOMAIN itemised[x] = 1..Headcount
                /\ \A f \in wanted[x] : Export!Served(x, f)
           /\ \A d, e \in DOMAIN itemised[x] : d < e /\ itemised[x][e] => itemised[x][d]
           /\ \A e \in DOMAIN itemised[x] : ~itemised[x][e] => listed[x] < run.calculation
           /\ x \in final =>
                /\ \A e \in DOMAIN itemised[x] : itemised[x][e]
                /\ listed[x] \in {0, run.calculation}
  BY DEF Export!PayslipsWhole, Export!Paid
<1>1. ReadSound(x) /\ WrittenSound(x) /\ FinalSound(x)  BY DEF ExportInv
<1> QED  BY <1>1 DEF ReadSound, WrittenSound, FinalSound, Export!Served
-----------------------------------------------------------------------------
\* Notifications.  While a message has no delivery, whoever has sent it is
\* under way or broke off; from then on nobody begins to send it, and who may
\* still send it was under way when the delivery was committed.

\* Requests about k that are as far as one of the steps.
At(k, steps) == {p \in Posters : message[p] = k /\ posting[p] \in steps}

NoticesTyped ==
  /\ delivery \in [Messages -> {"none", "sent", "failed"}]
  /\ fallback \in [Messages -> {"none", "sent", "failed"}]
  /\ emails \in [Messages -> Nat] /\ texts \in [Messages -> Nat] /\ faults \in Nat
  /\ posting \in [Posters -> {"idle", "checked", "mailed", "texted"}]
  /\ message \in [Posters -> Messages \cup {NoMessage}]
  /\ result \in [Posters -> {"none", "ok", "failed", "refused"}]

PostingSound ==
  \A p \in Posters :
    /\ posting[p] # "idle" => message[p] \in Messages
    /\ posting[p] = "texted" => message[p] \in Critical
    /\ posting[p] \in {"mailed", "texted"} /\ result[p] = "ok"
         => emails[message[p]] + texts[message[p]] > 0

DeliverySound ==
  \A k \in Messages :
    /\ delivery[k] = "sent" => emails[k] + texts[k] > 0
    /\ fallback[k] # "none" => k \in Critical /\ fallback[k] = delivery[k]

\* Sendings of k by the requests that have done it, or may still do it.
Accounted(sendings, k, before, after) ==
  /\ delivery[k] = "none" => sendings <= faults + Cardinality(At(k, after))
  /\ delivery[k] # "none" =>
       sendings + Cardinality(At(k, before)) <= faults + Cardinality(Posters)

\* A message's mails, and its texts.
Balanced(k) ==
  /\ Accounted(emails[k], k, {"checked"}, {"mailed", "texted"})
  /\ Accounted(texts[k], k, {"checked", "mailed"}, {"texted"})

\* The same of the next state, for a number that does not change with it.
AccountedNext(n, k, before, after) ==
  /\ delivery'[k] = "none" => n <= faults' + Cardinality(At(k, after)')
  /\ delivery'[k] # "none" =>
       n + Cardinality(At(k, before)') <= faults' + Cardinality(Posters)

NoticesInv ==
  /\ NoticesTyped /\ PostingSound /\ DeliverySound
  /\ \A k \in Messages : Balanced(k)

\* The cardinality of the notifications is that of the library.
LEMMA NoticesCard == \A S : Notices!Cardinality(S) = Cardinality(S)
BY DEF Notices!Cardinality, Cardinality

\* The sets that are counted are finite, before and after a step.
LEMMA AtCounts ==
  ASSUME NEW k, NEW steps
  PROVE  /\ IsFiniteSet(At(k, steps)) /\ Cardinality(At(k, steps)) \in Nat
         /\ Cardinality(At(k, steps)) <= Cardinality(Posters)
         /\ IsFiniteSet(At(k, steps)') /\ Cardinality(At(k, steps)') \in Nat
         /\ Cardinality(At(k, steps)') <= Cardinality(Posters)
         /\ Cardinality(Posters) \in Nat
<1>1. At(k, steps) \subseteq Posters  BY DEF At
<1>2. At(k, steps)' \subseteq Posters  BY DEF At
<1> QED  BY <1>1, <1>2, PartCounts, PostersAssumption

\* Nothing was sent.
LEMMA NoticesInitInv == Notices!NotificationsInit => NoticesInv
<1> SUFFICES ASSUME Notices!NotificationsInit PROVE NoticesInv  OBVIOUS
<1>1. /\ delivery = [k \in Messages |-> "none"] /\ fallback = [k \in Messages |-> "none"]
      /\ emails = [k \in Messages |-> 0] /\ texts = [k \in Messages |-> 0] /\ faults = 0
      /\ posting = [p \in Posters |-> "idle"] /\ message = [p \in Posters |-> NoMessage]
      /\ result = [p \in Posters |-> "none"]
  BY DEF Notices!NotificationsInit
<1>2. NoticesTyped  BY <1>1 DEF NoticesTyped
<1>3. PostingSound /\ DeliverySound  BY <1>1 DEF PostingSound, DeliverySound
<1>4. \A k \in Messages : Balanced(k)  BY <1>1, AtCounts DEF Balanced, Accounted
<1> QED  BY <1>2, <1>3, <1>4 DEF NoticesInv

\* One request moves between steps: it sends the message, and may not do so again;
\* or it does not, and if it leaves the account without a delivery it broke off.
LEMMA AccountStep ==
  ASSUME NEW p \in Posters, NEW k \in Messages, NEW before, NEW after,
         before \cap after = {},
         NEW n \in Nat, NEW m \in Nat,
         NoticesInv, Accounted(n, k, before, after), faults' \in Nat, faults' >= faults,
         \A q \in Posters \ {p} : message'[q] = message[q] /\ posting'[q] = posting[q],
         delivery'[k] = delivery[k],
         \/ /\ m = n + 1
            /\ p \in At(k, before) /\ p \notin At(k, before)' /\ p \in At(k, after)'
         \/ /\ m = n
            /\ p \in At(k, before)' => p \in At(k, before) \/ delivery[k] = "none"
            /\ p \in At(k, after) /\ p \notin At(k, after)'
                 => faults' = faults + 1 \/ delivery[k] # "none"
  PROVE  AccountedNext(m, k, before, after)
<1> USE DEF AccountedNext
<1>1. /\ \A q \in Posters \ {p} : q \in At(k, before)' <=> q \in At(k, before)
      /\ \A q \in Posters \ {p} : q \in At(k, after)' <=> q \in At(k, after)
  BY DEF At
<1>2. /\ At(k, before) \subseteq Posters /\ At(k, after) \subseteq Posters
      /\ At(k, before)' \subseteq Posters /\ At(k, after)' \subseteq Posters
      /\ p \in At(k, before) => p \notin At(k, after)
  BY DEF At
<1>3. faults \in Nat  BY DEF NoticesInv, NoticesTyped
<1>4. CASE delivery[k] = "none"
  <2>1. n <= faults + Cardinality(At(k, after))  BY <1>4 DEF Accounted
  <2>2. m <= faults' + Cardinality(At(k, after)')
    <3>1. CASE At(k, after) \subseteq At(k, after)' /\ m = n
      <4>1. Cardinality(At(k, after)) <= Cardinality(At(k, after)')
        BY <3>1, AtCounts, PartCounts
      <4> QED  BY <1>3, <2>1, <3>1, <4>1, AtCounts
    <3>2. CASE p \in At(k, after)' /\ p \notin At(k, after)
      <4>1. At(k, after)' = At(k, after) \cup {p}  BY <1>1, <1>2, <3>2
      <4>2. Cardinality(At(k, after)') = Cardinality(At(k, after)) + 1
        BY <3>2, <4>1, AtCounts, FS_AddElement
      <4> QED  BY <1>3, <2>1, <4>2, AtCounts
    <3>3. CASE p \in At(k, after) /\ p \notin At(k, after)' /\ m = n
      <4>1. At(k, after) = At(k, after)' \cup {p}  BY <1>1, <1>2, <3>3
      <4>2. Cardinality(At(k, after)) = Cardinality(At(k, after)') + 1
        BY <3>3, <4>1, AtCounts, FS_AddElement
      <4>3. faults' = faults + 1  BY <1>2, <1>4, <3>3
      <4> QED  BY <1>3, <2>1, <3>3, <4>2, <4>3, AtCounts
    <3> QED  BY <1>1, <1>2, <3>1, <3>2, <3>3
  <2> QED  BY <1>4, <2>2 DEF Accounted
<1>5. CASE delivery[k] # "none"
  <2>1. n + Cardinality(At(k, before)) <= faults + Cardinality(Posters)  BY <1>5 DEF Accounted
  <2>2. CASE m = n /\ At(k, before)' \subseteq At(k, before)
    <3>1. Cardinality(At(k, before)') <= Cardinality(At(k, before))
      BY <2>2, AtCounts, PartCounts
    <3>2. m + Cardinality(At(k, before)') <= faults' + Cardinality(Posters)
      BY <1>3, <2>1, <2>2, <3>1, AtCounts
    <3> QED  BY <1>5, <3>2 DEF Accounted
  <2>3. CASE m = n + 1 /\ p \in At(k, before) /\ p \notin At(k, before)'
    <3>1. At(k, before) = At(k, before)' \cup {p}  BY <1>1, <1>2, <2>3
    <3>2. Cardinality(At(k, before)) = Cardinality(At(k, before)') + 1
      BY <2>3, <3>1, AtCounts, FS_AddElement
    <3>3. m + Cardinality(At(k, before)') <= faults' + Cardinality(Posters)
      BY <1>3, <2>1, <2>3, <3>2, AtCounts
    <3> QED  BY <1>5, <3>3 DEF Accounted
  <2>4. At(k, before)' \subseteq At(k, before) \/ m = n + 1  BY <1>1, <1>2, <1>5
  <2> QED  BY <1>1, <1>2, <1>5, <2>2, <2>3, <2>4
<1> QED  BY <1>4, <1>5

\* A request moves on about its message, whether or not it sends it.
LEMMA MoveInv ==
  ASSUME NoticesInv, NEW p \in Posters, NEW from, NEW to,
         posting[p] = from, from # "idle",
         posting' = [posting EXCEPT ![p] = to],
         NEW outcome \in {"none", "ok", "failed", "refused"},
         result' = [result EXCEPT ![p] = outcome],
         UNCHANGED <<delivery, fallback, faults, message>>,
         \/ /\ from = "checked" /\ to = "mailed" /\ texts' = texts
            /\ \/ emails' = [emails EXCEPT ![message[p]] = @ + 1]
               \/ emails' = emails /\ outcome # "ok"
         \/ /\ from = "mailed" /\ to = "texted" /\ emails' = emails
            /\ message[p] \in Critical
            /\ \/ texts' = [texts EXCEPT ![message[p]] = @ + 1]
               \/ texts' = texts /\ outcome # "ok"
  PROVE  NoticesInv'
<1>1. PICK k : k = message[p]  OBVIOUS
<1>2. NoticesTyped /\ PostingSound /\ DeliverySound /\ k \in Messages
  BY <1>1 DEF NoticesInv, PostingSound
<1>3. NoticesTyped'
  <2>1. posting' \in [Posters -> {"idle", "checked", "mailed", "texted"}]
    BY <1>2 DEF NoticesTyped
  <2>2. result' \in [Posters -> {"none", "ok", "failed", "refused"}]  BY <1>2 DEF NoticesTyped
  <2>3. emails' \in [Messages -> Nat]  BY <1>2 DEF NoticesTyped
  <2>4. texts' \in [Messages -> Nat]  BY <1>2 DEF NoticesTyped
  <2> QED  BY <1>2, <2>1, <2>2, <2>3, <2>4 DEF NoticesTyped
<1>4. \A q \in Posters : /\ posting'[q] = (IF q = p THEN to ELSE posting[q])
                        /\ result'[q] = (IF q = p THEN outcome ELSE result[q])
  BY <1>2 DEF NoticesTyped
<1>5. /\ \A j \in Messages : emails[j] \in Nat /\ texts[j] \in Nat
      /\ \A j \in Messages : emails'[j] \in Nat /\ texts'[j] \in Nat
      /\ \A j \in Messages : emails'[j] >= emails[j] /\ texts'[j] >= texts[j]
      /\ \A j \in Messages \ {k} : emails'[j] = emails[j] /\ texts'[j] = texts[j]
  BY <1>1, <1>2, <1>3 DEF NoticesTyped
<1>6. outcome = "ok" => emails'[k] + texts'[k] > 0  BY <1>1, <1>2, <1>5 DEF NoticesTyped
<1>7. \A j \in Messages : emails[j] + texts[j] > 0 => emails'[j] + texts'[j] > 0  BY <1>5
<1>8. PostingSound'
  <2>1. ASSUME NEW q \in Posters
        PROVE  /\ posting'[q] # "idle" => message'[q] \in Messages
               /\ posting'[q] = "texted" => message'[q] \in Critical
               /\ posting'[q] \in {"mailed", "texted"} /\ result'[q] = "ok"
                    => emails'[message'[q]] + texts'[message'[q]] > 0
    <3>1. CASE q = p  BY <1>1, <1>2, <1>4, <1>6, <3>1
    <3>2. CASE q # p  BY <1>2, <1>4, <1>7, <3>2 DEF PostingSound
    <3> QED  BY <3>1, <3>2
  <2> QED  BY <2>1 DEF PostingSound
<1>9. DeliverySound'  BY <1>2, <1>7 DEF DeliverySound
<1>10. /\ \A q \in Posters \ {p} : message'[q] = message[q] /\ posting'[q] = posting[q]
       /\ faults' \in Nat /\ faults' >= faults /\ posting'[p] = to
       /\ message'[p] = k /\ message[p] = k
  BY <1>1, <1>2, <1>4 DEF NoticesTyped
<1>11. ASSUME NEW j \in Messages
       PROVE  Accounted(emails[j], j, {"checked"}, {"mailed", "texted"})'
  <2>1. Accounted(emails[j], j, {"checked"}, {"mailed", "texted"})  BY DEF NoticesInv, Balanced
  <2>2. {"checked"} \cap {"mailed", "texted"} = {}  OBVIOUS
  <2>3. delivery'[j] = delivery[j]  OBVIOUS
  <2>4. CASE emails'[j] = emails[j]
    <3>1. /\ p \in At(j, {"checked"})' => p \in At(j, {"checked"}) \/ delivery[j] = "none"
          /\ ~ (p \in At(j, {"mailed", "texted"}) /\ p \notin At(j, {"mailed", "texted"})')
      BY <1>10 DEF At
    <3> QED  BY <1>5, <1>10, <2>1, <2>2, <2>3, <2>4, <3>1, AccountStep
         DEF Accounted, AccountedNext
  <2>5. CASE emails'[j] # emails[j]
    <3>1. j = k /\ from = "checked" /\ emails'[j] = emails[j] + 1 /\ to = "mailed"
      BY <1>1, <1>2, <1>5, <2>5 DEF NoticesTyped
    <3>2. /\ p \in At(j, {"checked"}) /\ p \notin At(j, {"checked"})'
          /\ p \in At(j, {"mailed", "texted"})'
      BY <1>10, <3>1 DEF At
    <3> QED  BY <1>5, <1>10, <2>1, <2>2, <2>3, <3>1, <3>2, AccountStep
         DEF Accounted, AccountedNext
  <2> QED  BY <2>4, <2>5
<1>12. ASSUME NEW j \in Messages
       PROVE  Accounted(texts[j], j, {"checked", "mailed"}, {"texted"})'
  <2>1. Accounted(texts[j], j, {"checked", "mailed"}, {"texted"})  BY DEF NoticesInv, Balanced
  <2>2. {"checked", "mailed"} \cap {"texted"} = {}  OBVIOUS
  <2>3. delivery'[j] = delivery[j]  OBVIOUS
  <2>4. CASE texts'[j] = texts[j]
    <3>1. /\ p \in At(j, {"checked", "mailed"})'
               => p \in At(j, {"checked", "mailed"}) \/ delivery[j] = "none"
          /\ ~ (p \in At(j, {"texted"}) /\ p \notin At(j, {"texted"})')
      BY <1>10 DEF At
    <3> QED  BY <1>5, <1>10, <2>1, <2>2, <2>3, <2>4, <3>1, AccountStep
         DEF Accounted, AccountedNext
  <2>5. CASE texts'[j] # texts[j]
    <3>1. j = k /\ from = "mailed" /\ texts'[j] = texts[j] + 1 /\ to = "texted"
      BY <1>1, <1>2, <1>5, <2>5 DEF NoticesTyped
    <3>2. /\ p \in At(j, {"checked", "mailed"}) /\ p \notin At(j, {"checked", "mailed"})'
          /\ p \in At(j, {"texted"})'
      BY <1>10, <3>1 DEF At
    <3> QED  BY <1>5, <1>10, <2>1, <2>2, <2>3, <3>1, <3>2, AccountStep
         DEF Accounted, AccountedNext
  <2> QED  BY <2>4, <2>5
<1> QED  BY <1>3, <1>8, <1>9, <1>11, <1>12 DEF NoticesInv, Balanced

\* Nothing is sent: a message's accounts balance if those of any number do.
LEMMA QuietAccounts ==
  ASSUME NoticesInv, NEW j \in Messages, UNCHANGED <<emails, texts>>,
         \A before, after : \A n \in Nat :
           "idle" \notin after /\ before \cap after = {} /\ Accounted(n, j, before, after)
             => AccountedNext(n, j, before, after)
  PROVE  Balanced(j)'
<1>1. emails[j] \in Nat /\ texts[j] \in Nat /\ Balanced(j)  BY DEF NoticesInv, NoticesTyped
<1>2. /\ "idle" \notin {"mailed", "texted"} /\ "idle" \notin {"texted"}
      /\ {"checked"} \cap {"mailed", "texted"} = {}
      /\ {"checked", "mailed"} \cap {"texted"} = {}
  OBVIOUS
<1>3. /\ AccountedNext(emails[j], j, {"checked"}, {"mailed", "texted"})
      /\ AccountedNext(texts[j], j, {"checked", "mailed"}, {"texted"})
  BY <1>1, <1>2 DEF Balanced
<1> QED  BY <1>3 DEF Balanced, Accounted, AccountedNext

\* The suppressions, then the delivery with the key.
LEMMA CheckDeliveryInv ==
  ASSUME NoticesInv, NEW p \in Posters, NEW k \in Messages, Notices!CheckDelivery(p, k)
  PROVE  NoticesInv'
<1>1. /\ posting[p] = "idle" /\ delivery[k] = "none"
      /\ posting' = [posting EXCEPT ![p] = "checked"]
      /\ message' = [message EXCEPT ![p] = k]
      /\ UNCHANGED <<delivery, fallback, emails, texts, faults, result>>
  BY DEF Notices!CheckDelivery, Notices!Begin, Notices!deliveries, Notices!sent
<1>2. NoticesTyped /\ PostingSound /\ DeliverySound  BY DEF NoticesInv
<1>3. NoticesTyped'
  <2>1. posting' \in [Posters -> {"idle", "checked", "mailed", "texted"}]
    BY <1>1, <1>2 DEF NoticesTyped
  <2>2. message' \in [Posters -> Messages \cup {NoMessage}]  BY <1>1, <1>2 DEF NoticesTyped
  <2> QED  BY <1>1, <1>2, <2>1, <2>2 DEF NoticesTyped
<1>4. \A q \in Posters : /\ posting'[q] = (IF q = p THEN "checked" ELSE posting[q])
                        /\ message'[q] = (IF q = p THEN k ELSE message[q])
  BY <1>1, <1>2 DEF NoticesTyped
<1>5. PostingSound'  BY <1>1, <1>2, <1>4 DEF PostingSound
<1>6. DeliverySound'  BY <1>1, <1>2 DEF DeliverySound
<1>7. /\ \A q \in Posters \ {p} : message'[q] = message[q] /\ posting'[q] = posting[q]
      /\ faults' \in Nat /\ faults' >= faults /\ posting'[p] = "checked" /\ message'[p] = k
  BY <1>1, <1>2, <1>4 DEF NoticesTyped
<1>8. ASSUME NEW j \in Messages, NEW before, NEW after, NEW n \in Nat,
             "idle" \notin after, before \cap after = {}, Accounted(n, j, before, after)
      PROVE  AccountedNext(n, j, before, after)
  <2>1. /\ p \in At(j, before)' => p \in At(j, before) \/ delivery[j] = "none"
        /\ ~ (p \in At(j, after) /\ p \notin At(j, after)')
    BY <1>1, <1>7, <1>8 DEF At
  <2>2. delivery'[j] = delivery[j] /\ n = n  BY <1>1
  <2> QED  BY <1>7, <1>8, <2>1, <2>2, AccountStep
<1>9. \A j \in Messages : Balanced(j)'  BY <1>1, <1>8, QuietAccounts
<1> QED  BY <1>3, <1>5, <1>6, <1>9 DEF NoticesInv

\* The request is over: what the counts of the messages it is not about become.
Over(p) ==
  /\ posting' \in [Posters -> {"idle", "checked", "mailed", "texted"}]
  /\ message' \in [Posters -> Messages \cup {NoMessage}]
  /\ result' \in [Posters -> {"none", "ok", "failed", "refused"}]
  /\ posting'[p] = "idle" /\ message'[p] = NoMessage
  /\ \A q \in Posters \ {p} : /\ posting'[q] = posting[q] /\ message'[q] = message[q]
                              /\ result'[q] = result[q]
  /\ \A j \in Messages : \A steps : p \notin At(j, steps)'

LEMMA OverStep ==
  ASSUME NoticesInv, NEW p \in Posters, posting[p] # "idle",
         posting' = [posting EXCEPT ![p] = "idle"],
         message' = [message EXCEPT ![p] = NoMessage],
         result' = [result EXCEPT ![p] = "none"],
         faults' \in Nat, faults' >= faults
  PROVE  Over(p)
BY PostersAssumption DEF Over, NoticesInv, NoticesTyped, At

\* The delivery is inserted, the first with its key.
LEMMA CommitDeliveryInv ==
  ASSUME NoticesInv, NEW p \in Posters, Notices!CommitDelivery(p)
  PROVE  NoticesInv'
<1> USE DEF Over
<1>1. PICK k : k = message[p]  OBVIOUS
<1>2. PICK noted \in {"sent", "failed"} :
        noted = (IF result[p] = "ok" THEN "sent" ELSE "failed")
  OBVIOUS
<1>3. /\ posting[p] \in {"mailed", "texted"} /\ delivery[k] = "none"
      /\ delivery' = [delivery EXCEPT ![k] = noted]
      /\ fallback' = [fallback EXCEPT ![k] = IF posting[p] = "texted" THEN noted ELSE @]
      /\ posting' = [posting EXCEPT ![p] = "idle"]
      /\ message' = [message EXCEPT ![p] = NoMessage]
      /\ result' = [result EXCEPT ![p] = "none"]
      /\ UNCHANGED <<emails, texts, faults>>
  BY <1>1, <1>2 DEF Notices!CommitDelivery, Notices!sent
<1>4. /\ NoticesTyped /\ PostingSound /\ DeliverySound /\ k \in Messages /\ faults \in Nat
      /\ posting[p] = "texted" => k \in Critical
      /\ result[p] = "ok" => emails[k] + texts[k] > 0
  BY <1>1, <1>3 DEF NoticesInv, PostingSound, NoticesTyped
<1>5. Over(p)
  <2>1. posting[p] # "idle" /\ faults' \in Nat /\ faults' >= faults  BY <1>3, <1>4
  <2> QED  BY <1>3, <2>1, OverStep
<1>6. NoticesTyped'
  <2>1. delivery' \in [Messages -> {"none", "sent", "failed"}]
    BY <1>2, <1>3, <1>4 DEF NoticesTyped
  <2>2. fallback' \in [Messages -> {"none", "sent", "failed"}]
    BY <1>2, <1>3, <1>4 DEF NoticesTyped
  <2> QED  BY <1>3, <1>4, <1>5, <2>1, <2>2 DEF NoticesTyped
<1>7. PostingSound'  BY <1>3, <1>4, <1>5 DEF PostingSound
<1>8. \A j \in Messages \ {k} : delivery'[j] = delivery[j] /\ fallback'[j] = fallback[j]
  BY <1>3, <1>4 DEF NoticesTyped
<1>9. /\ delivery'[k] = noted /\ noted # "none"
      /\ fallback'[k] = (IF posting[p] = "texted" THEN noted ELSE fallback[k])
      /\ fallback[k] = "none"
  BY <1>2, <1>3, <1>4 DEF NoticesTyped, DeliverySound
<1>10. DeliverySound'  BY <1>2, <1>3, <1>4, <1>8, <1>9 DEF DeliverySound
<1>11. ASSUME NEW j \in Messages, NEW before, NEW after, NEW n \in Nat,
              before \cap after = {}, Accounted(n, j, before, after)
       PROVE  AccountedNext(n, j, before, after)
  <2>1. CASE j # k
    <3>1. p \notin At(j, before)' /\ p \notin At(j, after)  BY <1>1, <1>5, <2>1 DEF At
    <3>2. /\ delivery'[j] = delivery[j] /\ n = n /\ faults' \in Nat /\ faults' >= faults
          /\ \A q \in Posters \ {p} : message'[q] = message[q] /\ posting'[q] = posting[q]
      BY <1>3, <1>4, <1>5, <1>8, <2>1
    <3> QED  BY <1>11, <3>1, <3>2, AccountStep
  <2>2. CASE j = k
    <3>1. At(k, before)' \subseteq Posters \ At(k, after)
      <4>1. SUFFICES ASSUME NEW q \in At(k, before)' PROVE q \in Posters \ At(k, after)  OBVIOUS
      <4>2. q \in Posters \ {p} /\ q \in At(k, before)  BY <1>4, <1>5 DEF At
      <4> QED  BY <1>11, <4>2 DEF At
    <3>2. Cardinality(Posters \ At(k, after))
              = Cardinality(Posters) - Cardinality(At(k, after))
      <4>1. At(k, after) \subseteq Posters  BY DEF At
      <4>2. Posters \cap At(k, after) = At(k, after)  BY <4>1
      <4> QED  BY <4>1, <4>2, PostersAssumption, FS_Difference
    <3>3. Cardinality(At(k, before)') <= Cardinality(Posters \ At(k, after))
      BY <3>1, PartCounts, PostersAssumption
    <3>4. n <= faults + Cardinality(At(k, after)) /\ faults' = faults
      BY <1>3, <1>11, <2>2 DEF Accounted
    <3> QED  BY <1>4, <1>9, <2>2, <3>2, <3>3, <3>4, AtCounts DEF AccountedNext
  <2> QED  BY <2>1, <2>2
<1>12. \A j \in Messages : Balanced(j)'  BY <1>3, <1>11, QuietAccounts
<1> QED  BY <1>6, <1>7, <1>10, <1>12 DEF NoticesInv

\* ROLLBACK: with a delivery already there, or at the cost of a fault.
LEMMA RollbackDeliveryInv ==
  ASSUME NoticesInv, NEW p \in Posters, Notices!RollbackDelivery(p)
  PROVE  NoticesInv'
<1> USE DEF Over
<1>1. /\ posting[p] # "idle"
      /\ \/ delivery[message[p]] # "none" /\ faults' = faults
         \/ delivery[message[p]] = "none" /\ faults' = faults + 1
      /\ posting' = [posting EXCEPT ![p] = "idle"]
      /\ message' = [message EXCEPT ![p] = NoMessage]
      /\ result' = [result EXCEPT ![p] = "none"]
      /\ UNCHANGED <<delivery, fallback, emails, texts>>
  BY DEF Notices!RollbackDelivery, Notices!deliveries, Notices!sent
<1>2. /\ NoticesTyped /\ PostingSound /\ DeliverySound
      /\ faults' \in Nat /\ faults' >= faults
  BY <1>1 DEF NoticesInv, NoticesTyped
<1>3. Over(p)  BY <1>1, <1>2, OverStep
<1>4. NoticesTyped'  BY <1>1, <1>2, <1>3 DEF NoticesTyped
<1>5. PostingSound'  BY <1>1, <1>2, <1>3 DEF PostingSound
<1>6. DeliverySound'  BY <1>1, <1>2 DEF DeliverySound
<1>7. ASSUME NEW j \in Messages, NEW before, NEW after, NEW n \in Nat,
             before \cap after = {}, Accounted(n, j, before, after)
      PROVE  AccountedNext(n, j, before, after)
  <2>1. p \notin At(j, before)'  BY <1>3
  <2>2. p \in At(j, after) => faults' = faults + 1 \/ delivery[j] # "none"  BY <1>1 DEF At
  <2>3. delivery'[j] = delivery[j] /\ n = n  BY <1>1
  <2> QED  BY <1>2, <1>3, <1>7, <2>1, <2>2, <2>3, AccountStep
<1>8. \A j \in Messages : Balanced(j)'  BY <1>1, <1>7, QuietAccounts
<1> QED  BY <1>4, <1>5, <1>6, <1>8 DEF NoticesInv

\* The invariant of the notifications.
THEOREM NoticesInvariance == NotificationsSpec => []NoticesInv
<1>1. NoticesInv /\ [Notices!NotificationsNext]_notices => NoticesInv'
  <2> SUFFICES ASSUME NoticesInv, [Notices!NotificationsNext]_notices PROVE NoticesInv'  OBVIOUS
  <2>1. CASE UNCHANGED notices
    <3>1. UNCHANGED <<delivery, fallback, emails, texts, faults, posting, message, result>>
      BY <2>1 DEF notices
    <3>2. NoticesTyped' /\ PostingSound' /\ DeliverySound'
      BY <3>1 DEF NoticesInv, NoticesTyped, PostingSound, DeliverySound
    <3>3. \A k, steps : At(k, steps)' = At(k, steps)  BY <3>1 DEF At
    <3> QED  BY <3>1, <3>2, <3>3 DEF NoticesInv, Balanced, Accounted
  <2>2. ASSUME NEW p \in Posters, NEW outcome \in {"ok", "failed", "refused"},
               \/ Notices!MailTaken(p, outcome)
               \/ Notices!MailFailed(p, outcome) /\ outcome # "ok"
        PROVE  NoticesInv'
    <3>1. /\ posting[p] = "checked" /\ posting' = [posting EXCEPT ![p] = "mailed"]
          /\ result' = [result EXCEPT ![p] = outcome]
          /\ UNCHANGED <<delivery, fallback, faults, message, texts>>
          /\ \/ emails' = [emails EXCEPT ![message[p]] = @ + 1]
             \/ emails' = emails /\ outcome # "ok"
      BY <2>2 DEF Notices!MailTaken, Notices!MailFailed, Notices!Step, Notices!deliveries,
             Notices!sent
    <3>2. "checked" # "idle" /\ outcome \in {"none", "ok", "failed", "refused"}  OBVIOUS
    <3> QED  BY <3>1, <3>2, MoveInv
  <2>3. ASSUME NEW p \in Posters, NEW outcome \in {"ok", "failed", "refused"},
               \/ Notices!TextTaken(p) /\ outcome = "ok"
               \/ Notices!TextFailed(p, outcome) /\ outcome # "ok"
        PROVE  NoticesInv'
    <3>1. /\ posting[p] = "mailed" /\ posting' = [posting EXCEPT ![p] = "texted"]
          /\ result' = [result EXCEPT ![p] = outcome] /\ message[p] \in Critical
          /\ UNCHANGED <<delivery, fallback, faults, message, emails>>
          /\ \/ texts' = [texts EXCEPT ![message[p]] = @ + 1]
             \/ texts' = texts /\ outcome # "ok"
      BY <2>3 DEF Notices!TextTaken, Notices!TextFailed, Notices!Step, Notices!NeedsText,
             Notices!deliveries, Notices!sent
    <3>2. "mailed" # "idle" /\ outcome \in {"none", "ok", "failed", "refused"}  OBVIOUS
    <3> QED  BY <3>1, <3>2, MoveInv
  <2>4. ASSUME NEW p \in Posters, NEW k \in Messages, Notices!CheckDelivery(p, k)
        PROVE  NoticesInv'
    BY <2>4, CheckDeliveryInv
  <2>5. ASSUME NEW p \in Posters, Notices!CommitDelivery(p) PROVE NoticesInv'
    BY <2>5, CommitDeliveryInv
  <2>6. ASSUME NEW p \in Posters, Notices!RollbackDelivery(p) PROVE NoticesInv'
    BY <2>6, RollbackDeliveryInv
  <2>7. CASE Notices!NotificationsNext
    <3>1. PICK p \in Posters :
            \/ \E k \in Messages : Notices!CheckDelivery(p, k)
            \/ \E outcome \in {"ok", "failed"} : Notices!MailTaken(p, outcome)
            \/ \E outcome \in {"failed", "refused"} :
                 Notices!MailFailed(p, outcome) \/ Notices!TextFailed(p, outcome)
            \/ Notices!TextTaken(p)
            \/ Notices!CommitDelivery(p) \/ Notices!RollbackDelivery(p)
      BY <2>7 DEF Notices!NotificationsNext
    <3>2. ASSUME NEW outcome \in {"ok", "failed"}, Notices!MailTaken(p, outcome)
          PROVE  NoticesInv'
      BY <2>2, <3>2
    <3>3. ASSUME NEW outcome \in {"failed", "refused"},
                 Notices!MailFailed(p, outcome) \/ Notices!TextFailed(p, outcome)
          PROVE  NoticesInv'
      BY <2>2, <2>3, <3>3
    <3>4. ASSUME Notices!TextTaken(p) PROVE NoticesInv'
      <4>1. "ok" \in {"ok", "failed", "refused"}  OBVIOUS
      <4> QED  BY <2>3, <3>4, <4>1
    <3> QED  BY <2>4, <2>5, <2>6, <3>1, <3>2, <3>3, <3>4
  <2> QED  BY <2>1, <2>7
<1> QED  BY <1>1, NoticesInitInv, PTL DEF NotificationsSpec

\* The property follows: of the requests that count, there are no more than all.
LEMMA MessagesHold == NoticesInv => Notices!MessagesBounded
<1> SUFFICES ASSUME NoticesInv, NEW k \in Messages
    PROVE  /\ emails[k] <= Cardinality(Posters) + faults
           /\ texts[k] <= Cardinality(Posters) + faults
           /\ delivery[k] = "sent" => emails[k] + texts[k] > 0
           /\ fallback[k] # "none" => k \in Critical /\ fallback[k] = delivery[k]
  BY NoticesCard DEF Notices!MessagesBounded
<1>1. emails[k] \in Nat /\ texts[k] \in Nat /\ faults \in Nat  BY DEF NoticesInv, NoticesTyped
<1>2. Balanced(k)  BY DEF NoticesInv
<1>3. emails[k] <= Cardinality(Posters) + faults
  BY <1>1, <1>2, AtCounts DEF Balanced, Accounted
<1>4. texts[k] <= Cardinality(Posters) + faults  BY <1>1, <1>2, AtCounts DEF Balanced, Accounted
<1> QED  BY <1>3, <1>4 DEF NoticesInv, DeliverySound
-----------------------------------------------------------------------------
\* Files and published activities: two requests are never about the same
\* object, and each has what its phase says.

FilesTyped ==
  /\ object \in [Objects -> {"none", "stored", "deleted"}]
  /\ issue \in [Issues -> {"none", "published_local", "published_registry"}]
  /\ calling \in [Callers -> {"idle", "written", "marked", "unlinked", "issued", "answered"}]
  /\ handle \in [Callers -> Objects \cup Issues \cup {NoObject}]
  /\ answer \in [Callers -> {"none", "published_registry",
                             "published_local_registry_failed"}]

CallSound(c) ==
  /\ calling[c] = "idle" => handle[c] = NoObject
  /\ calling[c] = "written" =>
       handle[c] \in Objects /\ handle[c] \in disk /\ object[handle[c]] = "none"
  /\ calling[c] \in {"marked", "unlinked"} =>
       handle[c] \in Objects /\ object[handle[c]] = "stored"
  /\ calling[c] \in {"issued", "answered"} =>
       handle[c] \in Issues /\ handle[c] \in disk /\ issue[handle[c]] = "none"
  /\ calling[c] = "answered" /\ answer[c] = "published_registry" => handle[c] \in registry

FilesInv ==
  /\ FilesTyped
  /\ \A c \in Callers : CallSound(c)
  /\ \A c, d \in Callers : c # d /\ calling[c] # "idle" => handle[c] # handle[d]
  /\ Stores!FilesThere

\* There is nothing.
LEMMA FilesInitInv == Stores!FilesInit => FilesInv
BY DEF Stores!FilesInit, FilesInv, FilesTyped, CallSound, Stores!FilesThere

\* The other requests are where they were.
Others(c) == \A d \in Callers \ {c} : /\ calling'[d] = calling[d] /\ handle'[d] = handle[d]
                                      /\ answer'[d] = answer[d]

\* A request steps to another object or another phase; the rest is as it was.
LEMMA CallStep ==
  ASSUME FilesInv, NEW c \in Callers,
         NEW phase \in {"idle", "written", "marked", "unlinked", "issued", "answered"},
         NEW x \in Objects \cup Issues \cup {NoObject},
         NEW a \in {"none", "published_registry", "published_local_registry_failed"},
         calling' = [calling EXCEPT ![c] = phase],
         handle' = [handle EXCEPT ![c] = x], answer' = [answer EXCEPT ![c] = a]
  PROVE  /\ calling' \in [Callers -> {"idle", "written", "marked", "unlinked", "issued",
                                      "answered"}]
         /\ handle' \in [Callers -> Objects \cup Issues \cup {NoObject}]
         /\ answer' \in [Callers -> {"none", "published_registry",
                                     "published_local_registry_failed"}]
         /\ calling'[c] = phase /\ handle'[c] = x /\ answer'[c] = a /\ Others(c)
BY DEF FilesInv, FilesTyped, Others

\* The others keep what they have: nothing of theirs is touched.
LEMMA OthersSound ==
  ASSUME FilesInv, NEW c \in Callers, NEW d \in Callers \ {c},
         calling'[d] = calling[d], handle'[d] = handle[d], answer'[d] = answer[d],
         calling[d] # "idle" =>
           /\ handle[d] \in Objects => object'[handle[d]] = object[handle[d]]
           /\ handle[d] \in Issues => issue'[handle[d]] = issue[handle[d]]
           /\ handle[d] \in disk => handle[d] \in disk',
         registry \subseteq registry'
  PROVE  CallSound(d)'
<1>1. CallSound(d)  BY DEF FilesInv
<1>2. CASE calling[d] = "idle"  BY <1>1, <1>2 DEF CallSound
<1>3. CASE calling[d] # "idle"  BY <1>1, <1>3 DEF CallSound
<1> QED  BY <1>2, <1>3

\* Nothing is removed, and what is recorded stays: the files are where they should be.
LEMMA NothingRemoved ==
  ASSUME FilesInv, NEW c \in Callers, calling[c] # "unlinked", Others(c),
         disk \subseteq disk', registry \subseteq registry', UNCHANGED <<object, issue, torn>>
  PROVE  Stores!FilesThere'
<1>1. ASSUME NEW y \in Objects, object[y] = "stored", y \notin disk, y \notin torn
      PROVE  \E d \in Callers : calling'[d] = "unlinked" /\ handle'[d] = y
  BY <1>1 DEF FilesInv, Stores!FilesThere, Others
<1> QED  BY <1>1 DEF FilesInv, Stores!FilesThere

\* A file is written, of an object or of an issue.
LEMMA WriteInv ==
  ASSUME FilesInv, NEW c \in Callers,
         \/ \E x \in Objects : Stores!WriteUpload(c, x)
         \/ \E x \in Issues : Stores!WriteIssue(c, x)
  PROVE  FilesInv'
<1> USE DEF Others
<1>1. PICK x \in Objects \cup Issues, phase \in {"written", "issued"} :
        /\ calling[c] = "idle" /\ \A d \in Callers : handle[d] # x
        /\ phase = "written" => x \in Objects /\ object[x] = "none"
        /\ phase = "issued" => x \in Issues /\ issue[x] = "none"
        /\ disk' = disk \cup {x}
        /\ calling' = [calling EXCEPT ![c] = phase]
        /\ handle' = [handle EXCEPT ![c] = x] /\ answer' = [answer EXCEPT ![c] = "none"]
        /\ UNCHANGED <<object, issue, registry, remote, torn>>
  BY DEF Stores!WriteUpload, Stores!WriteIssue, Stores!Fresh, Stores!Go
<1>2. FilesTyped /\ Stores!FilesThere  BY DEF FilesInv
<1>3. /\ FilesTyped'
      /\ calling'[c] = phase /\ handle'[c] = x /\ Others(c)
  BY <1>1, <1>2, CallStep DEF FilesTyped
<1>4. ASSUME NEW d \in Callers PROVE CallSound(d)'
  <2>1. CASE d = c  BY <1>1, <1>3, <2>1 DEF CallSound
  <2>2. CASE d # c  BY <1>1, <1>3, <2>2, OthersSound
  <2> QED  BY <2>1, <2>2
<1>5. \A e, d \in Callers : e # d /\ calling'[e] # "idle" => handle'[e] # handle'[d]
  BY <1>1, <1>3 DEF FilesInv
<1>6. Stores!FilesThere'  BY <1>1, <1>3, NothingRemoved
<1> QED  BY <1>3, <1>4, <1>5, <1>6 DEF FilesInv

\* An object is marked, and its file unlinked, if it was there.
LEMMA DeleteInv ==
  ASSUME FilesInv, NEW c \in Callers,
         \/ \E x \in Objects : Stores!MarkDeleted(c, x)
         \/ \E gone \in BOOLEAN : Stores!Unlink(c, gone)
  PROVE  FilesInv'
<1> USE DEF Others
<1>1. PICK x \in Objects, phase \in {"marked", "unlinked"} :
        /\ object[x] = "stored" /\ \A d \in Callers \ {c} : handle[d] # x
        /\ calling[c] = "idle" \/ (calling[c] = "marked" /\ handle[c] = x)
        /\ disk' = disk \/ (disk' = disk \ {x} /\ phase = "unlinked")
        /\ calling' = [calling EXCEPT ![c] = phase]
        /\ handle' = [handle EXCEPT ![c] = x] /\ answer' = [answer EXCEPT ![c] = "none"]
        /\ UNCHANGED <<object, issue, registry, remote, torn>>
  <2>1. CASE \E x \in Objects : Stores!MarkDeleted(c, x)
    BY <2>1 DEF Stores!MarkDeleted, Stores!Go, Stores!stores
  <2>2. CASE \E gone \in BOOLEAN : Stores!Unlink(c, gone)
    <3>1. PICK x : x = handle[c]  OBVIOUS
    <3>2. /\ calling[c] = "marked" /\ (disk' = disk \/ disk' = disk \ {x})
          /\ calling' = [calling EXCEPT ![c] = "unlinked"]
          /\ handle' = [handle EXCEPT ![c] = x]
          /\ answer' = [answer EXCEPT ![c] = "none"]
          /\ UNCHANGED <<object, issue, registry, remote, torn>>
      BY <2>2, <3>1 DEF Stores!Unlink, Stores!Go
    <3>3. CallSound(c) /\ \A d \in Callers \ {c} : handle[d] # x  BY <3>1, <3>2 DEF FilesInv
    <3>4. x \in Objects /\ object[x] = "stored"  BY <3>1, <3>2, <3>3 DEF CallSound
    <3>5. "unlinked" \in {"marked", "unlinked"}  OBVIOUS
    <3> QED  BY <3>1, <3>2, <3>3, <3>4, <3>5
  <2> QED  BY <2>1, <2>2
<1>2. FilesTyped /\ Stores!FilesThere  BY DEF FilesInv
<1>3. /\ FilesTyped'
      /\ calling'[c] = phase /\ handle'[c] = x /\ Others(c)
  BY <1>1, <1>2, CallStep DEF FilesTyped
<1>4. ASSUME NEW d \in Callers PROVE CallSound(d)'
  <2>1. CASE d = c  BY <1>1, <1>3, <2>1 DEF CallSound
  <2>2. CASE d # c
    <3>1. handle[d] # x  BY <1>1, <2>2
    <3>2. handle[d] \in disk => handle[d] \in disk'  BY <1>1, <3>1
    <3> QED  BY <1>1, <1>3, <2>2, <3>2, OthersSound
  <2> QED  BY <2>1, <2>2
<1>5. \A e, d \in Callers : e # d /\ calling'[e] # "idle" => handle'[e] # handle'[d]
  BY <1>1, <1>3 DEF FilesInv
<1>6. Stores!FilesThere'
  <2>1. ASSUME NEW y \in Objects, object'[y] = "stored", y \notin disk'
        PROVE  y \in torn' \/ \E d \in Callers : calling'[d] = "unlinked" /\ handle'[d] = y
    <3>1. CASE y \in disk  BY <1>1, <1>3, <2>1, <3>1
    <3>2. CASE y \notin disk
      <4>1. y \in torn \/ \E d \in Callers : calling[d] = "unlinked" /\ handle[d] = y
        BY <1>1, <1>2, <2>1, <3>2 DEF Stores!FilesThere
      <4>2. \A d \in Callers : calling[d] = "unlinked" => d # c  BY <1>1
      <4> QED  BY <1>1, <1>3, <4>1, <4>2
    <3> QED  BY <3>1, <3>2
  <2>2. ASSUME NEW y \in Issues
        PROVE  /\ issue'[y] # "none" => y \in disk'
               /\ issue'[y] = "published_registry" => y \in registry'
    BY <1>1, <1>2, StoresAssumption DEF Stores!FilesThere
  <2> QED  BY <2>1, <2>2 DEF Stores!FilesThere
<1> QED  BY <1>3, <1>4, <1>5, <1>6 DEF FilesInv

\* The registry answers, or does not.
LEMMA CallRegistryInv ==
  ASSUME FilesInv, NEW c \in Callers, NEW success \in BOOLEAN,
         NEW told_status \in {"published_registry", "published_local_registry_failed"},
         Stores!CallRegistry(c, success, told_status)
  PROVE  FilesInv'
<1> USE DEF Others
<1>1. /\ calling[c] = "issued" /\ calling' = [calling EXCEPT ![c] = "answered"]
      /\ answer' = [answer EXCEPT ![c] = told_status]
      /\ registry \subseteq registry'
      /\ told_status = "published_registry" => handle[c] \in registry'
      /\ UNCHANGED <<object, disk, issue, remote, torn, handle>>
  BY DEF Stores!CallRegistry
<1>2. FilesTyped /\ Stores!FilesThere /\ CallSound(c)  BY DEF FilesInv
<1>3. FilesTyped' /\ calling'[c] = "answered" /\ answer'[c] = told_status /\ Others(c)
  BY <1>1, <1>2 DEF FilesTyped, Others
<1>4. ASSUME NEW d \in Callers PROVE CallSound(d)'
  <2>1. CASE d = c  BY <1>1, <1>2, <1>3, <2>1 DEF CallSound
  <2>2. CASE d # c  BY <1>1, <1>3, <2>2, OthersSound
  <2> QED  BY <2>1, <2>2
<1>5. \A e, d \in Callers : e # d /\ calling'[e] # "idle" => handle'[e] # handle'[d]
  BY <1>1, <1>3 DEF FilesInv
<1>6. Stores!FilesThere'  BY <1>1, <1>3, NothingRemoved
<1> QED  BY <1>3, <1>4, <1>5, <1>6 DEF FilesInv

\* A request ends: it commits what it did, or rolls back.
LEMMA StopInv ==
  ASSUME FilesInv, NEW c \in Callers,
         \/ Stores!CommitUpload(c) \/ Stores!CommitDelete(c)
         \/ Stores!CommitIssue(c) \/ Stores!RollbackFiles(c)
  PROVE  FilesInv'
<1> USE DEF Others
<1>1. PICK x : x = handle[c]  OBVIOUS
<1>2. /\ calling[c] # "idle" /\ calling' = [calling EXCEPT ![c] = "idle"]
      /\ handle' = [handle EXCEPT ![c] = NoObject] /\ answer' = [answer EXCEPT ![c] = "none"]
      /\ UNCHANGED <<disk, registry, remote>> /\ torn \subseteq torn'
  BY DEF Stores!CommitUpload, Stores!CommitDelete, Stores!CommitIssue, Stores!RollbackFiles,
         Stores!Stop, Stores!Go
<1>3. FilesTyped /\ Stores!FilesThere /\ CallSound(c)  BY DEF FilesInv
<1>4. \/ UNCHANGED <<object, issue>>
      \/ /\ x \in Objects /\ issue' = issue
         /\ \/ object' = [object EXCEPT ![x] = "stored"] /\ x \in disk
            \/ object' = [object EXCEPT ![x] = "deleted"]
      \/ /\ x \in Issues /\ x \in disk /\ object' = object
         /\ \/ issue' = [issue EXCEPT ![x] = "published_local"]
            \/ issue' = [issue EXCEPT ![x] = "published_registry"] /\ x \in registry
  <2>1. CASE Stores!CommitUpload(c) \/ Stores!CommitDelete(c)
    BY <1>1, <1>3, <2>1 DEF Stores!CommitUpload, Stores!CommitDelete, CallSound
  <2>2. CASE Stores!CommitIssue(c)
    <3>1. /\ issue' = [issue EXCEPT ![x] = IF remote THEN answer[c] ELSE "published_local"]
          /\ object' = object /\ calling[c] \in {"issued", "answered"}
          /\ remote => calling[c] = "answered" /\ answer[c] = "published_registry"
      BY <1>1, <2>2 DEF Stores!CommitIssue
    <3>2. x \in Issues /\ x \in disk /\ (remote => x \in registry)
      BY <1>1, <1>3, <3>1 DEF CallSound
    <3> QED  BY <3>1, <3>2
  <2>3. CASE Stores!RollbackFiles(c)  BY <2>3 DEF Stores!RollbackFiles
  <2> QED  BY <2>1, <2>2, <2>3
<1>5. FilesTyped'
  <2>1. object' \in [Objects -> {"none", "stored", "deleted"}]  BY <1>3, <1>4 DEF FilesTyped
  <2>2. issue' \in [Issues -> {"none", "published_local", "published_registry"}]
    BY <1>3, <1>4 DEF FilesTyped
  <2> QED  BY <1>2, <1>3, <2>1, <2>2 DEF FilesTyped
<1>6. /\ calling'[c] = "idle" /\ handle'[c] = NoObject /\ Others(c)
  BY <1>2, <1>3 DEF FilesTyped
<1>7. /\ \A y \in Objects \ {x} : object'[y] = object[y]
      /\ \A y \in Issues \ {x} : issue'[y] = issue[y]
  BY <1>3, <1>4, StoresAssumption DEF FilesTyped
<1>8. ASSUME NEW d \in Callers PROVE CallSound(d)'
  <2>1. CASE d = c  BY <1>6, <2>1 DEF CallSound
  <2>2. CASE d # c
    <3>1. calling[d] # "idle" => handle[d] # x  BY <1>1, <2>2 DEF FilesInv
    <3> QED  BY <1>2, <1>6, <1>7, <2>2, <3>1, OthersSound
  <2> QED  BY <2>1, <2>2
<1>9. \A e, d \in Callers : e # d /\ calling'[e] # "idle" => handle'[e] # handle'[d]
  <2>1. \A e \in Callers \ {c} : calling[e] # "idle" => handle[e] # NoObject
    BY StoresAssumption DEF FilesInv, CallSound, FilesTyped
  <2> QED  BY <1>6, <2>1 DEF FilesInv
<1>10. Stores!FilesThere'
  <2>1. ASSUME NEW y \in Objects, object'[y] = "stored", y \notin disk'
        PROVE  y \in torn' \/ \E d \in Callers : calling'[d] = "unlinked" /\ handle'[d] = y
    <3>1. object[y] = "stored"  BY <1>2, <1>3, <1>4, <1>7, <2>1 DEF FilesTyped
    <3>2. y \in torn \/ \E d \in Callers : calling[d] = "unlinked" /\ handle[d] = y
      BY <1>2, <1>3, <2>1, <3>1 DEF Stores!FilesThere
    <3>3. ASSUME calling[c] = "unlinked", y = x PROVE y \in torn'
      <4>1. Stores!CommitDelete(c) \/ Stores!RollbackFiles(c)
        BY <3>3 DEF Stores!CommitUpload, Stores!CommitIssue
      <4>2. CASE Stores!CommitDelete(c)
        <5>1. object' = [object EXCEPT ![x] = "deleted"]  BY <1>1, <4>2 DEF Stores!CommitDelete
        <5> QED  BY <1>3, <2>1, <3>3, <5>1 DEF FilesTyped
      <4>3. CASE Stores!RollbackFiles(c)
        BY <1>1, <1>2, <2>1, <3>3, <4>3 DEF Stores!RollbackFiles
      <4> QED  BY <4>1, <4>2, <4>3
    <3> QED  BY <1>1, <1>2, <1>6, <3>2, <3>3
  <2>2. ASSUME NEW y \in Issues
        PROVE  /\ issue'[y] # "none" => y \in disk'
               /\ issue'[y] = "published_registry" => y \in registry'
    BY <1>2, <1>3, <1>4, <1>7 DEF Stores!FilesThere, FilesTyped
  <2> QED  BY <2>1, <2>2 DEF Stores!FilesThere
<1> QED  BY <1>5, <1>8, <1>9, <1>10 DEF FilesInv

\* The invariant of the files.
THEOREM FilesInvariance == FilesSpec => []FilesInv
<1>1. FilesInv /\ [Stores!FilesNext]_stores => FilesInv'
  <2> SUFFICES ASSUME FilesInv, [Stores!FilesNext]_stores PROVE FilesInv'  OBVIOUS
  <2>1. CASE UNCHANGED stores \/ Stores!Configure
    <3>1. UNCHANGED <<object, disk, issue, registry, torn, calling, handle, answer>>
      BY <2>1 DEF stores, Stores!Configure, Stores!callers
    <3>2. FilesTyped'  BY <3>1 DEF FilesInv, FilesTyped
    <3>3. \A c \in Callers : CallSound(c)'  BY <3>1 DEF FilesInv, CallSound
    <3>4. Stores!FilesThere'  BY <3>1 DEF FilesInv, Stores!FilesThere
    <3> QED  BY <3>1, <3>2, <3>3, <3>4 DEF FilesInv
  <2> QED  BY <2>1, WriteInv, DeleteInv, CallRegistryInv, StopInv DEF Stores!FilesNext
<1> QED  BY <1>1, FilesInitInv, PTL DEF FilesSpec
-----------------------------------------------------------------------------
\* Contracts and rates.  An insert that is not committed is the only one of
\* its number and, when active, of its employee, and has terminated whatever
\* was active: that is what the unique index and the row locks are there for.
\* A refresh has written or has still to write every pair, so all pairs always
\* have the rates of the same refreshes.

WorkTyped ==
  /\ hired \subseteq People
  /\ contract \in [Contracts -> [person : hired \cup {NoPerson},
                                 status : {"none", "draft", "active", "terminated"}]]
  /\ \A n \in Contracts : contract[n] = Work!NoContract \/ contract[n].person \in hired
  /\ rate \in [Currencies -> [Sources \X Dates -> Nat]]
  /\ refreshes \in 0..MaxRefreshes
  /\ work \in [Writers -> {"idle", "begun", "looked", "terminated", "inserted",
                           "draft", "drafted", "refreshing"}]
  /\ signing \in [Writers -> [number : Contracts, person : People] \cup {Work!NoDraft}]
  /\ matched \in [Writers -> SUBSET Contracts]
  /\ ended \in [Writers -> SUBSET Contracts]
  /\ writing \in [Writers -> [id : Nat, at : Sources \X Dates] \cup {Work!NoRefresh}]
  /\ order \in [Writers -> Seq(Currencies)]
  /\ wrote \in [Writers -> SUBSET Currencies]

\* What a request has found and done, until it ends.
ContractUnderWay(w) ==
  /\ work[w] \notin {"idle", "refreshing"} =>
       signing[w] \in [number : Contracts, person : hired]
  /\ work[w] \notin {"terminated", "inserted"} => ended[w] = {}
  /\ \A n \in ended[w] : /\ contract[n].person = signing[w].person
                         /\ contract[n].status \in {"active", "terminated"}
  /\ work[w] \in {"inserted", "drafted"} => contract[signing[w].number] = Work!NoContract
  /\ work[w] = "inserted" => Work!ActiveOf(signing[w].person) \subseteq ended[w]

InsertsApart(w, x) ==
  /\ work[w] \in {"inserted", "drafted"} /\ work[x] \in {"inserted", "drafted"}
       => signing[w].number # signing[x].number
  /\ work[w] = "inserted" /\ work[x] = "inserted"
       => signing[w].person # signing[x].person

RefreshUnderWay(w) ==
  /\ work[w] = "refreshing" =>
       /\ wrote[w] \cup {order[w][i] : i \in DOMAIN order[w]} = Currencies
       /\ writing[w] \in [id : Nat, at : Sources \X Dates]

\* One active contract of each employee, and one wherever one was terminated.
Contracted ==
  /\ \A n, m \in Contracts :
       contract[n].status = "active" /\ contract[m].status = "active"
       /\ contract[n].person = contract[m].person => n = m
  /\ \A n \in Contracts : contract[n].status = "terminated" =>
       \E m \in Contracts : contract[m] = [person |-> contract[n].person, status |-> "active"]

WorkInv ==
  /\ WorkTyped
  /\ \A w \in Writers : ContractUnderWay(w) /\ RefreshUnderWay(w)
  /\ \A w, x \in Writers : w # x => InsertsApart(w, x)
  /\ Contracted
  /\ \A c, d \in Currencies : rate[c] = rate[d]

\* What holds of contracts and rates holds to begin with.
LEMMA WorkInitInv == Work!WorkforceInit => WorkInv
<1> SUFFICES ASSUME Work!WorkforceInit PROVE WorkInv  OBVIOUS
<1>1. WorkTyped  BY RefreshesAssumption DEF Work!WorkforceInit, Work!NoContract, WorkTyped
<1> QED
  BY <1>1 DEF Work!WorkforceInit, Work!NoContract, WorkInv, ContractUnderWay, RefreshUnderWay,
         InsertsApart, Contracted

\* The cardinality of the parts of the model is that of the library.
LEMMA Card == \A S : Work!Cardinality(S) = Cardinality(S)
BY DEF Work!Cardinality, Cardinality

\* A sequence that numbers a finite set without repeating has all of it.
LEMMA OrderComplete ==
  ASSUME NEW s \in Work!Orders
  PROVE  s \in Seq(Currencies) /\ {s[i] : i \in DOMAIN s} = Currencies
<1> DEFINE k == Cardinality(Currencies)
<1>1. k \in Nat  BY CurrenciesFinite, FS_CardinalityType
<1>2. s \in [1..k -> Currencies] /\ \A i, j \in DOMAIN s : s[i] = s[j] => i = j
  BY Card DEF Work!Orders
<1>3. IsFiniteSet(1..k) /\ Cardinality(1..k) = k  BY <1>1, FS_Interval
<1>4. s \in Injection(1..k, Currencies)  BY <1>2 DEF Injection, IsInjective
<1>5. s \in Surjection(1..k, Currencies)  BY <1>3, <1>4, CurrenciesFinite, FS_Injection
<1>6. \A c \in Currencies : \E i \in 1..k : s[i] = c  BY <1>5 DEF Surjection
<1>7. s \in Seq(Currencies) /\ DOMAIN s = 1..k  BY <1>1, <1>2
<1> HIDE DEF k
<1> QED  BY <1>2, <1>6, <1>7

\* Every step of the writers keeps it.
LEMMA WorkStepInv ==
  ASSUME WorkInv, [Work!WorkforceNext]_workforce
  PROVE  WorkInv'
<1>0. contract' = contract /\ rate' = rate => Contracted' /\ \A c, d \in Currencies :
          rate'[c] = rate'[d]
  BY DEF WorkInv, Contracted
<1>1. ASSUME NEW e \in People, Work!Hire(e)
      PROVE  WorkInv'
  <2> USE <1>1 DEF Work!Hire, Work!request
  <2>1. WorkTyped'  BY DEF WorkInv, WorkTyped, Work!ActiveOf
  <2>2. ASSUME NEW x \in Writers PROVE ContractUnderWay(x)' /\ RefreshUnderWay(x)'
    BY DEF WorkInv, WorkTyped, ContractUnderWay, RefreshUnderWay, Work!ActiveOf
  <2>3. ASSUME NEW x \in Writers, NEW y \in Writers, x # y PROVE InsertsApart(x, y)'
    BY <2>3 DEF WorkInv, WorkTyped, InsertsApart
  <2> QED  BY <1>0, <2>1, <2>2, <2>3 DEF WorkInv
<1>2. ASSUME NEW w \in Writers, NEW n \in Contracts, NEW e \in People,
             NEW st \in {"draft", "active"}, Work!Begin(w, n, e, st)
      PROVE  WorkInv'
  <2> USE <1>2 DEF Work!Begin, Work!rows
  <2>1. WorkTyped'  BY DEF WorkInv, WorkTyped, Work!ActiveOf
  <2>2. ASSUME NEW x \in Writers PROVE ContractUnderWay(x)' /\ RefreshUnderWay(x)'
    BY DEF WorkInv, WorkTyped, ContractUnderWay, RefreshUnderWay, Work!ActiveOf
  <2>3. ASSUME NEW x \in Writers, NEW y \in Writers, x # y PROVE InsertsApart(x, y)'
    BY <2>3 DEF WorkInv, WorkTyped, InsertsApart
  <2> QED  BY <1>0, <2>1, <2>2, <2>3 DEF WorkInv
<1>3. ASSUME NEW w \in Writers, Work!LookForActive(w)
      PROVE  WorkInv'
  <2> USE <1>3 DEF Work!LookForActive, Work!rows
  <2>1. WorkTyped'  BY DEF WorkInv, WorkTyped, Work!ActiveOf
  <2>2. ASSUME NEW x \in Writers PROVE ContractUnderWay(x)' /\ RefreshUnderWay(x)'
    BY DEF WorkInv, WorkTyped, ContractUnderWay, RefreshUnderWay, Work!ActiveOf
  <2>3. ASSUME NEW x \in Writers, NEW y \in Writers, x # y PROVE InsertsApart(x, y)'
    BY <2>3 DEF WorkInv, WorkTyped, InsertsApart
  <2> QED  BY <1>0, <2>1, <2>2, <2>3 DEF WorkInv
<1>4. ASSUME NEW w \in Writers, Work!Terminate(w)
      PROVE  WorkInv'
  <2> USE <1>4 DEF Work!Terminate, Work!rows
  <2>1. WorkTyped'  BY DEF WorkInv, WorkTyped, Work!ActiveOf
  <2>2. ASSUME NEW x \in Writers PROVE ContractUnderWay(x)' /\ RefreshUnderWay(x)'
    BY DEF WorkInv, WorkTyped, ContractUnderWay, RefreshUnderWay, Work!ActiveOf
  <2>3. ASSUME NEW x \in Writers, NEW y \in Writers, x # y PROVE InsertsApart(x, y)'
    BY <2>3 DEF WorkInv, WorkTyped, InsertsApart
  <2> QED  BY <1>0, <2>1, <2>2, <2>3 DEF WorkInv
<1>5. ASSUME NEW w \in Writers, Work!Sign(w)
      PROVE  WorkInv'
  <2> USE <1>5 DEF Work!Sign, Work!Contended, Work!rows
  <2>1. WorkTyped'  BY DEF WorkInv, WorkTyped, Work!ActiveOf
  <2>2. ASSUME NEW x \in Writers PROVE ContractUnderWay(x)' /\ RefreshUnderWay(x)'
    BY DEF WorkInv, WorkTyped, ContractUnderWay, RefreshUnderWay, Work!ActiveOf
  <2>3. ASSUME NEW x \in Writers, NEW y \in Writers, x # y PROVE InsertsApart(x, y)'
    BY <2>3 DEF WorkInv, WorkTyped, InsertsApart
  <2> QED  BY <1>0, <2>1, <2>2, <2>3 DEF WorkInv
<1>6. ASSUME NEW w \in Writers, Work!CommitContract(w) PROVE  WorkInv'
  <2> DEFINE signed == [person |-> signing[w].person,
                        status |-> IF work[w] = "drafted" THEN "draft" ELSE "active"]
  <2>0. /\ contract' = [n \in Contracts |-> contract'[n]]
        /\ \A n \in ended[w] \cap Contracts :
               contract'[n] = [contract[n] EXCEPT !.status = "terminated"]
        /\ \A n \in Contracts \ ended[w] :
             contract'[n] = IF n = signing[w].number THEN signed ELSE contract[n]
    BY <1>6 DEF Work!CommitContract
  <2>a. /\ work[w] \in {"inserted", "drafted"} /\ hired' = hired /\ rate' = rate
               /\ refreshes' = refreshes
        /\ Work!End(w)
    BY <1>6 DEF Work!CommitContract
  <2>b1. signing[w] \in [number : Contracts, person : hired]
    BY <2>a DEF WorkInv, ContractUnderWay
  <2>b2. ended[w] \subseteq Contracts  BY DEF WorkInv, WorkTyped
  <2>b3. contract[signing[w].number] = Work!NoContract  BY <2>a DEF WorkInv, ContractUnderWay
  <2>b4. \A n \in ended[w] : contract[n].person = signing[w].person
                           /\ contract[n].status \in {"active", "terminated"}
    BY DEF WorkInv, ContractUnderWay
  <2>b5. signing[w].number \notin ended[w]  BY <2>b3, <2>b4 DEF Work!NoContract
  <2>b6. \A n \in Contracts : contract[n] \in
           [person : hired \cup {NoPerson}, status : {"none", "draft", "active", "terminated"}]
    BY DEF WorkInv, WorkTyped
  <2>b7. ASSUME NEW n \in ended[w]
         PROVE  contract'[n] = [person |-> signing[w].person, status |-> "terminated"]
    BY <2>0, <2>b2, <2>b4, <2>b6
  <2>b. /\ signing[w] \in [number : Contracts, person : hired]
        /\ ended[w] \subseteq Contracts
        /\ contract[signing[w].number] = Work!NoContract
        /\ signing[w].number \notin ended[w]
        /\ \A n \in ended[w] :
               contract'[n] = [person |-> signing[w].person, status |-> "terminated"]
    BY <2>b1, <2>b2, <2>b3, <2>b5, <2>b7
  <2> HIDE DEF signed
  <2>c. \A n \in Contracts \ (ended[w] \cup {signing[w].number}) : contract'[n] = contract[n]
    BY <2>0
  <2>d. contract'[signing[w].number] = signed /\ signed.person = signing[w].person
        /\ signed.status = (IF work[w] = "drafted" THEN "draft" ELSE "active")
    BY <2>0, <2>b DEF signed
  <2>1. WorkTyped'
    <3>1. <<>> \in Seq(Currencies)  OBVIOUS
    <3>2. signed \in [person : hired, status : {"draft", "active"}]  BY <2>b DEF signed
    <3>5. ASSUME NEW n \in Contracts
          PROVE  /\ contract'[n]
                        \in [person : hired \cup {NoPerson}, status : {"none", "draft", "active", "terminated"}]
                 /\ contract'[n] = Work!NoContract \/ contract'[n].person \in hired
      <4>1. CASE n \in ended[w]
        <5>1. contract'[n] = [person |-> signing[w].person, status |-> "terminated"]
                  /\ signing[w].person \in hired
          BY <2>b1, <2>b7, <4>1
        <5> QED  BY <5>1
      <4>2. CASE n = signing[w].number  BY <2>d, <3>2, <4>2
      <4>3. CASE n \notin ended[w] \cup {signing[w].number}
        <5>1. contract[n] = Work!NoContract \/ contract[n].person \in hired
          BY DEF WorkInv, WorkTyped
        <5> QED  BY <2>b6, <2>c, <4>3, <5>1
      <4> QED  BY <4>1, <4>2, <4>3
    <3>3. \A n \in Contracts :
              contract'[n] \in [person : hired \cup {NoPerson}, status : {"none", "draft", "active", "terminated"}]
      BY <3>5
    <3>4. \A n \in Contracts : contract'[n] = Work!NoContract \/ contract'[n].person \in hired
      BY <3>5
    <3> QED  BY <2>0, <2>a, <3>1, <3>3, <3>4 DEF WorkInv, WorkTyped, Work!End
  <2>2. ASSUME NEW x \in Writers PROVE ContractUnderWay(x)'
    <3>1. CASE x = w  BY <2>a, <3>1 DEF WorkInv, WorkTyped, ContractUnderWay, Work!End
    <3>2. CASE x # w
      <4>1. work'[x] = work[x] /\ signing'[x] = signing[x] /\ ended'[x] = ended[x]
        BY <2>a, <3>2 DEF WorkInv, WorkTyped, Work!End
      <4>2. \A n \in ended[x] :
                contract'[n].person = signing[x].person /\ contract'[n].status \in {"active", "terminated"}
        <5> SUFFICES ASSUME NEW n \in ended[x]
                     PROVE  contract'[n].person = signing[x].person
                                /\ contract'[n].status \in {"active", "terminated"}
          OBVIOUS
        <5>1. contract[n].person = signing[x].person
                  /\ contract[n].status \in {"active", "terminated"}
          BY DEF WorkInv, ContractUnderWay
        <5>2. n \in Contracts  BY DEF WorkInv, WorkTyped
        <5>3. n # signing[w].number  BY <2>b3, <5>1 DEF Work!NoContract
        <5>4. CASE n \in ended[w]  BY <2>b4, <2>b7, <5>1, <5>4
        <5> QED  BY <2>c, <5>1, <5>2, <5>3, <5>4
      <4>3. work[x] \in {"inserted", "drafted"}
                => contract'[signing[x].number] = Work!NoContract
        <5>1. work[x] \in {"inserted", "drafted"} => signing[x].number # signing[w].number
          BY <2>a, <3>2 DEF WorkInv, InsertsApart
        <5> QED  BY <2>b, <2>c, <5>1 DEF WorkInv, ContractUnderWay, Work!NoContract
      <4>4. work[x] = "inserted" => Work!ActiveOf(signing[x].person)' \subseteq ended[x]
        <5>1. work[x] = "inserted" /\ work[w] = "inserted"
                  => signing[x].person # signing[w].person
          BY <3>2 DEF WorkInv, InsertsApart
        <5> QED BY <2>a, <2>b, <2>c, <2>d, <4>1, <5>1
                   DEF WorkInv, ContractUnderWay, Work!ActiveOf
      <4> QED  BY <2>a, <4>1, <4>2, <4>3, <4>4 DEF WorkInv, ContractUnderWay, Work!ActiveOf
    <3> QED  BY <3>1, <3>2
  <2>3. ASSUME NEW x \in Writers PROVE RefreshUnderWay(x)'
    BY <2>a DEF WorkInv, WorkTyped, RefreshUnderWay, Work!End
  <2>4. ASSUME NEW x \in Writers, NEW y \in Writers, x # y PROVE InsertsApart(x, y)'
    BY <2>a, <2>4 DEF WorkInv, WorkTyped, InsertsApart, Work!End
  <2>5. Contracted'
    <3>1. ASSUME NEW n \in Contracts, NEW m \in Contracts, contract'[n].status = "active",
                 contract'[m].status = "active", contract'[n].person = contract'[m].person
          PROVE  n = m
      <4>1. CASE n = signing[w].number /\ m # n
        <5>2. m \notin ended[w]  BY <2>b7, <3>1
        <5>3. contract[m] = contract'[m]  BY <2>c, <4>1, <5>2
        <5>4. work[w] = "inserted" /\ contract[m].person = signing[w].person
          BY <2>a, <2>d, <3>1, <4>1, <5>3
        <5>1. work[w] = "inserted" /\ m \in Work!ActiveOf(signing[w].person) 
          BY <2>b6, <3>1, <5>3, <5>4 DEF Work!ActiveOf
        <5> QED  BY <5>1, <2>b, <3>1 DEF WorkInv, ContractUnderWay
      <4>2. CASE m = signing[w].number /\ m # n
        <5>2. n \notin ended[w]  BY <2>b7, <3>1
        <5>3. contract[n] = contract'[n]  BY <2>c, <4>2, <5>2
        <5>4. work[w] = "inserted" /\ contract[n].person = signing[w].person
          BY <2>a, <2>d, <3>1, <4>2, <5>3
        <5>1. work[w] = "inserted" /\ n \in Work!ActiveOf(signing[w].person) 
          BY <2>b6, <3>1, <5>3, <5>4 DEF Work!ActiveOf
        <5> QED  BY <5>1, <2>b, <3>1 DEF WorkInv, ContractUnderWay
      <4>3. CASE n # signing[w].number /\ m # signing[w].number
        BY <2>b, <2>c, <3>1, <4>3 DEF WorkInv, Contracted
      <4> QED  BY <4>1, <4>2, <4>3
    <3>2. ASSUME NEW n \in Contracts, contract'[n].status = "terminated"
          PROVE  \E m \in Contracts :
                     contract'[m] = [person |-> contract'[n].person, status |-> "active"]
      <4>1. CASE n \in ended[w]
        <5>1. work[w] = "inserted"  BY <2>a, <4>1 DEF WorkInv, ContractUnderWay
        <5> QED  BY <2>b, <2>d, <4>1, <5>1 DEF signed
      <4>2. CASE n \notin ended[w]
        <5>1. contract'[n] = contract[n]  BY <2>c, <2>d, <3>2, <4>2
        <5>2. PICK m \in Contracts :
                  contract[m] = [person |-> contract[n].person, status |-> "active"]
          BY <3>2, <5>1 DEF WorkInv, Contracted
        <5>3. CASE m \in ended[w]
          <6>1. work[w] = "inserted" /\ signing[w].person = contract[n].person
            BY <2>a, <5>2, <5>3 DEF WorkInv, ContractUnderWay
          <6> QED  BY <2>b, <2>d, <5>1, <6>1 DEF signed
        <5>4. CASE m \notin ended[w]  BY <2>b, <2>c, <5>1, <5>2, <5>4 DEF Work!NoContract
        <5> QED  BY <5>3, <5>4
      <4> QED  BY <4>1, <4>2
    <3> QED  BY <3>1, <3>2 DEF Contracted
  <2>6. \A c, d \in Currencies : rate'[c] = rate'[d]  BY <2>a DEF WorkInv
  <2> QED  BY <2>1, <2>2, <2>3, <2>4, <2>5, <2>6 DEF WorkInv
<1>7. ASSUME NEW w \in Writers, NEW at \in Sources \X Dates, NEW s \in Work!Orders,
             Work!BeginRefresh(w, at, s)
      PROVE  WorkInv'
  <2> USE <1>7 DEF Work!BeginRefresh
  <2>1. WorkTyped'
    <3>1. refreshes' \in 0..MaxRefreshes  BY RefreshesAssumption DEF WorkInv, WorkTyped
    <3>2. order' \in [Writers -> Seq(Currencies)]  BY OrderComplete DEF WorkInv, WorkTyped
    <3>3. [id |-> refreshes + 1, at |-> at] \in [id : Nat, at : Sources \X Dates]
      BY RefreshesAssumption DEF WorkInv, WorkTyped
    <3>4. writing' \in [Writers -> [id : Nat, at : Sources \X Dates] \cup {Work!NoRefresh}]
      BY <3>3 DEF WorkInv, WorkTyped
    <3> QED  BY <3>1, <3>2, <3>4 DEF WorkInv, WorkTyped
  <2>2. ASSUME NEW x \in Writers PROVE ContractUnderWay(x)'
    BY DEF WorkInv, WorkTyped, ContractUnderWay, Work!ActiveOf
  <2>3. ASSUME NEW x \in Writers PROVE RefreshUnderWay(x)'
    <3>1. CASE x = w
      <4>1. order'[x] = s /\ wrote'[x] = wrote[x]
                /\ writing'[x] = [id |-> refreshes + 1, at |-> at]
        BY <3>1 DEF WorkInv, WorkTyped
      <4>2. {s[i] : i \in DOMAIN s} = Currencies /\ wrote[x] \subseteq Currencies
        BY OrderComplete DEF WorkInv, WorkTyped
      <4> QED  BY <4>1, <4>2 DEF WorkInv, WorkTyped, RefreshUnderWay
    <3>2. CASE x # w  BY <3>2 DEF WorkInv, WorkTyped, RefreshUnderWay
    <3> QED  BY <3>1, <3>2
  <2>4. ASSUME NEW x \in Writers, NEW y \in Writers, x # y PROVE InsertsApart(x, y)'
    BY <2>4 DEF WorkInv, WorkTyped, InsertsApart
  <2> QED  BY <1>0, <2>1, <2>2, <2>3, <2>4 DEF WorkInv
<1>8. ASSUME NEW w \in Writers, Work!Upsert(w)
      PROVE  WorkInv'
  <2> USE <1>8 DEF Work!Upsert, Work!rows
  <2>1. WorkTyped'
    <3>1. order[w] \in Seq(Currencies) /\ order[w] # <<>>  BY DEF WorkInv, WorkTyped
    <3>2. Head(order[w]) \in Currencies /\ Tail(order[w]) \in Seq(Currencies)  BY <3>1
    <3> QED  BY <3>2 DEF WorkInv, WorkTyped
  <2>2. ASSUME NEW x \in Writers PROVE ContractUnderWay(x)'
    BY DEF WorkInv, WorkTyped, ContractUnderWay, Work!ActiveOf
  <2>3. ASSUME NEW x \in Writers PROVE RefreshUnderWay(x)'
    <3>1. CASE x = w
      <4> DEFINE s == order[w]
      <4>1. order'[w] = Tail(s) /\ wrote'[w] = wrote[w] \cup {Head(s)}
                /\ writing'[w] = writing[w] /\ work[w] = "refreshing"
        BY DEF WorkInv, WorkTyped
      <4>2. s \in Seq(Currencies) /\ s # <<>>  BY DEF WorkInv, WorkTyped
      <4>3. wrote[w] \cup {s[i] : i \in DOMAIN s} = Currencies
        BY <4>1 DEF WorkInv, RefreshUnderWay
      <4>4. DOMAIN s = 1..Len(s) /\ DOMAIN Tail(s) = 1..(Len(s) - 1) /\ Len(s) \in Nat \ {0}
            /\ \A i \in DOMAIN Tail(s) : Tail(s)[i] = s[i + 1]
        BY <4>2
      <4>5. {s[i] : i \in DOMAIN s} = {Head(s)} \cup {Tail(s)[i] : i \in DOMAIN Tail(s)}
        <5>1. Head(s) = s[1]  BY <4>2
        <5>2. \A i \in DOMAIN s : i = 1 \/ (i - 1 \in DOMAIN Tail(s) /\ Tail(s)[i - 1] = s[i])
          BY <4>4
        <5>3. \A i \in DOMAIN Tail(s) : i + 1 \in DOMAIN s  BY <4>4
        <5>4. 1 \in DOMAIN s  BY <4>4
        <5> HIDE <1>8 DEF s, Work!Upsert, Work!rows
        <5> QED  BY <5>1, <5>2, <5>3, <5>4, <4>4
      <4> HIDE DEF s
      <4>6. wrote'[w] \cup {order'[w][i] : i \in DOMAIN order'[w]} = Currencies
        BY <4>1, <4>3, <4>5
      <4>7. writing'[w] \in [id : Nat, at : Sources \X Dates]
        BY <4>1 DEF WorkInv, RefreshUnderWay
      <4> QED  BY <4>6, <4>7, <3>1 DEF RefreshUnderWay
    <3>2. CASE x # w  BY <3>2 DEF WorkInv, WorkTyped, RefreshUnderWay
    <3> QED  BY <3>1, <3>2
  <2>4. ASSUME NEW x \in Writers, NEW y \in Writers, x # y PROVE InsertsApart(x, y)'
    BY <2>4 DEF WorkInv, WorkTyped, InsertsApart
  <2> QED  BY <1>0, <2>1, <2>2, <2>3, <2>4 DEF WorkInv
<1>9. ASSUME NEW w \in Writers, Work!CommitRefresh(w)
      PROVE  WorkInv'
  <2> USE <1>9 DEF Work!CommitRefresh, Work!End
  <2>1. WorkTyped'
    <3>1. <<>> \in Seq(Currencies)  OBVIOUS
    <3>2. rate' \in [Currencies -> [Sources \X Dates -> Nat]]
      BY DEF WorkInv, WorkTyped, RefreshUnderWay
    <3> QED  BY <3>1, <3>2 DEF WorkInv, WorkTyped
  <2>2. ASSUME NEW x \in Writers PROVE ContractUnderWay(x)'
    BY DEF WorkInv, WorkTyped, ContractUnderWay, Work!ActiveOf
  <2>3. ASSUME NEW x \in Writers PROVE RefreshUnderWay(x)'
    BY DEF WorkInv, WorkTyped, RefreshUnderWay
  <2>4. ASSUME NEW x \in Writers, NEW y \in Writers, x # y PROVE InsertsApart(x, y)'
    BY <2>4 DEF WorkInv, WorkTyped, InsertsApart
  <2>5. Contracted'  BY DEF WorkInv, Contracted
  <2>6. \A c, d \in Currencies : rate'[c] = rate'[d]
    <3>1. wrote[w] = Currencies
      <4>1. wrote[w] \cup {order[w][i] : i \in DOMAIN order[w]} = Currencies /\ order[w] = <<>>
        BY DEF WorkInv, RefreshUnderWay
      <4>2. {order[w][i] : i \in DOMAIN order[w]} = {}  BY <4>1
      <4> QED  BY <4>1, <4>2
    <3> QED  BY <3>1 DEF WorkInv
  <2> QED  BY <2>5, <2>6, <2>1, <2>2, <2>3, <2>4 DEF WorkInv
<1>10. ASSUME NEW w \in Writers, Work!Rollback(w)
       PROVE  WorkInv'
  <2> USE <1>10 DEF Work!Rollback, Work!End, Work!rows
  <2>1. WorkTyped'
    <3>1. <<>> \in Seq(Currencies)  OBVIOUS
    <3> QED  BY <3>1 DEF WorkInv, WorkTyped
  <2>2. ASSUME NEW x \in Writers PROVE ContractUnderWay(x)' /\ RefreshUnderWay(x)'
    BY DEF WorkInv, WorkTyped, ContractUnderWay, RefreshUnderWay, Work!ActiveOf
  <2>3. ASSUME NEW x \in Writers, NEW y \in Writers, x # y PROVE InsertsApart(x, y)'
    BY <2>3 DEF WorkInv, WorkTyped, InsertsApart
  <2> QED  BY <1>0, <2>1, <2>2, <2>3 DEF WorkInv
<1>11. CASE UNCHANGED workforce
  <2> USE <1>11 DEF workforce
  <2>1. WorkTyped'  BY DEF WorkInv, WorkTyped, Work!ActiveOf
  <2>2. ASSUME NEW x \in Writers PROVE ContractUnderWay(x)' /\ RefreshUnderWay(x)'
    BY DEF WorkInv, WorkTyped, ContractUnderWay, RefreshUnderWay, Work!ActiveOf
  <2>3. ASSUME NEW x \in Writers, NEW y \in Writers, x # y PROVE InsertsApart(x, y)'
    BY <2>3 DEF WorkInv, WorkTyped, InsertsApart
  <2> QED  BY <1>0, <2>1, <2>2, <2>3 DEF WorkInv
<1> QED
  BY <1>1, <1>2, <1>3, <1>4, <1>5, <1>6, <1>7, <1>8, <1>9, <1>10, <1>11 DEF Work!WorkforceNext

\* In every behaviour of the contracts and the rates (hr-service): a person has
\* at most one active contract, and the rates are those of one refresh.
THEOREM WorkInvariance == WorkforceSpec => []WorkInv
BY WorkInitInv, WorkStepInv, PTL DEF WorkforceSpec

\* One active contract at most is what a set with one member at most says.
LEMMA WorkAgrees == WorkInv => Work!WorkforceAgrees
<1> SUFFICES ASSUME WorkInv PROVE Work!WorkforceAgrees  OBVIOUS
<1>1. ASSUME NEW e \in People PROVE Cardinality(Work!ActiveOf(e)) <= 1
  <2>1. CASE Work!ActiveOf(e) = {}  BY <2>1, FS_EmptySet
  <2>2. CASE Work!ActiveOf(e) # {}
    <3>1. PICK n \in Work!ActiveOf(e) : TRUE  BY <2>2
    <3>2. Work!ActiveOf(e) = {n}  BY <3>1 DEF Work!ActiveOf, WorkInv, Contracted
    <3> QED  BY <3>2, FS_Singleton
  <2> QED  BY <2>1, <2>2
<1>2. Work!OneContract
  <2> SUFFICES ASSUME NEW e \in People, NEW n \in Contracts,
                      contract[n] = [person |-> e, status |-> "terminated"]
               PROVE  Work!ActiveOf(e) # {}
    BY <1>1, Card DEF Work!OneContract
  <2>1. contract[n].person = e /\ contract[n].status = "terminated"  OBVIOUS
  <2> QED  BY <2>1 DEF WorkInv, Contracted, Work!ActiveOf
<1>3. Work!RatesOfOneRefresh
  <2> SUFFICES ASSUME NEW c \in Currencies, NEW d \in Currencies
               PROVE  Work!Official(c) = Work!Official(d)
    BY DEF Work!RatesOfOneRefresh
  <2>1. rate[c] = rate[d]  BY DEF WorkInv
  <2> QED  BY <2>1 DEF Work!Official, Work!LastDate
<1> QED  BY <1>2, <1>3 DEF Work!WorkforceAgrees

\* The types are those of the model.
LEMMA WorkTypes == WorkInv => Work!WorkforceTypeOK
BY DEF WorkInv, WorkTyped, Work!WorkforceTypeOK

\* WorkforceAgrees (hr-service): in every behaviour of the back office, whatever
\* people, contracts, currencies and writers there are.
THEOREM WorkforceAgreesAlways == Spec => []WorkforceAgrees
<1>1. WorkInv => WorkforceAgrees  BY WorkAgrees DEF WorkforceAgrees
<1> QED  BY <1>1, Parts, WorkInvariance, PTL
-----------------------------------------------------------------------------
\* Tenants.  A request that has inserted a tenant is about one that is there;
\* and what was kept of an employee after the erasure, with what is still to
\* be kept, is no more than the requests that were under way.

\* Requests that have read the name of e.
Holding(e) == {k \in Askers : asked[k] = e /\ found[k]}

TenancyTyped ==
  /\ tenant \subseteq Slugs /\ quotas \subseteq tenant /\ named \subseteq Subjects
  /\ told \in [Slugs -> {"nothing", "created", "conflict", "failed"}]
  /\ step \in [Askers -> {"idle", "inserted", "read"}]
  /\ asked \in [Askers -> Slugs \cup Subjects \cup {NoSlug}]
  /\ found \in [Askers -> BOOLEAN]
  /\ late \in [Subjects -> Nat]

AskerSound(k) ==
  /\ step[k] = "inserted" => asked[k] \in tenant
  /\ step[k] = "read" => asked[k] \in Subjects
  /\ found[k] => step[k] = "read"

TenancyInv ==
  /\ TenancyTyped
  /\ \A k \in Askers : AskerSound(k)
  /\ \A g \in Slugs :
       /\ told[g] = "created" => g \in quotas /\ role = "ngois"
       /\ told[g] \in {"conflict", "failed"} => g \in tenant
  /\ \A e \in Subjects :
       /\ e \in named => late[e] = 0
       /\ e \notin named => late[e] + Cardinality(Holding(e)) <= Cardinality(Askers)

\* The cardinality of the tenants is that of the library.
LEMMA TenancyCard == \A S : Tenants!Cardinality(S) = Cardinality(S)
BY DEF Tenants!Cardinality, Cardinality

\* The requests that hold a name can be counted.
LEMMA HoldingFinite ==
  \A e : /\ IsFiniteSet(Holding(e)) /\ Cardinality(Holding(e)) \in Nat
         /\ Cardinality(Holding(e)) <= Cardinality(Askers) /\ Cardinality(Askers) \in Nat
<1>1. ASSUME NEW e PROVE Holding(e) \in SUBSET Askers  BY DEF Holding
<1> QED  BY <1>1, AskersFinite, FS_Subset, FS_CardinalityType

\* There is no tenant to begin with, and nobody was erased.
LEMMA TenancyInitInv == Tenants!TenancyInit => TenancyInv
BY DEF Tenants!TenancyInit, TenancyInv, TenancyTyped, AskerSound

\* A step about tenants: nothing is read or kept of employees.
LEMMA TenantStepInv ==
  ASSUME TenancyInv, TenancyTyped', UNCHANGED <<role, named, late>>,
         tenant \subseteq tenant', quotas \subseteq quotas',
         \A e \in Subjects : Holding(e)' \subseteq Holding(e),
         \A k \in Askers : AskerSound(k)',
         \A g \in Slugs : \/ told'[g] = told[g]
                          \/ told'[g] = "created" /\ g \in quotas' /\ role = "ngois"
                          \/ told'[g] \in {"conflict", "failed"} /\ g \in tenant'
  PROVE  TenancyInv'
<1>1. \A g \in Slugs :
        /\ told'[g] = "created" => g \in quotas' /\ role' = "ngois"
        /\ told'[g] \in {"conflict", "failed"} => g \in tenant'
  BY DEF TenancyInv
<1>2. ASSUME NEW e \in Subjects, e \notin named'
      PROVE  late'[e] + Cardinality(Holding(e)') <= Cardinality(Askers)
  <2>1. Cardinality(Holding(e)') <= Cardinality(Holding(e)) /\ Cardinality(Holding(e)') \in Nat
    BY HoldingFinite, FS_Subset, FS_CardinalityType
  <2>2. /\ late'[e] \in Nat /\ late[e] + Cardinality(Holding(e)) <= Cardinality(Askers)
        /\ late'[e] = late[e]
    BY <1>2 DEF TenancyInv, TenancyTyped
  <2> QED  BY <2>1, <2>2, HoldingFinite
<1> QED  BY <1>1, <1>2 DEF TenancyInv

\* A tenant is inserted, its quotas are, or the request is cut off.
LEMMA TenantInv ==
  ASSUME TenancyInv, NEW k \in Askers,
         \/ \E g \in Slugs : Tenants!InsertTenant(k, g)
         \/ Tenants!InsertQuotas(k) \/ Tenants!Crash(k)
  PROVE  TenancyInv'
<1>1. UNCHANGED <<role, named, late>>
  BY DEF Tenants!InsertTenant, Tenants!InsertQuotas, Tenants!Crash
<1>2. TenancyTyped /\ \A j \in Askers : AskerSound(j)  BY DEF TenancyInv
<1>3. ASSUME NEW g \in Slugs, Tenants!InsertTenant(k, g) PROVE TenancyInv'
  <2>1. step[k] = "idle" /\ UNCHANGED <<quotas, found>>  BY <1>3 DEF Tenants!InsertTenant
  <2>2. CASE g \in tenant
    <3>1. told' = [told EXCEPT ![g] = "conflict"] /\ UNCHANGED <<tenant, step, asked>>
      BY <1>3, <2>2 DEF Tenants!InsertTenant
    <3>2. TenancyTyped'  BY <1>1, <1>2, <2>1, <3>1 DEF TenancyTyped
    <3>3. \A h \in Slugs : \/ told'[h] = told[h]
                           \/ told'[h] = "conflict" /\ h \in tenant'
      BY <1>2, <2>2, <3>1 DEF TenancyTyped
    <3>4. \A e \in Subjects : Holding(e)' = Holding(e)  BY <2>1, <3>1 DEF Holding
    <3>5. \A j \in Askers : AskerSound(j)'  BY <1>2, <2>1, <3>1 DEF AskerSound
    <3> QED  BY <1>1, <2>1, <3>1, <3>2, <3>3, <3>4, <3>5, TenantStepInv
  <2>3. CASE g \notin tenant
    <3>1. /\ tenant' = tenant \cup {g} /\ told' = told
          /\ step' = [step EXCEPT ![k] = "inserted"] /\ asked' = [asked EXCEPT ![k] = g]
      BY <1>3, <2>3 DEF Tenants!InsertTenant, Tenants!Go
    <3>2. TenancyTyped'  BY <1>1, <1>2, <2>1, <3>1 DEF TenancyTyped
    <3>3. /\ step'[k] = "inserted" /\ asked'[k] = g /\ ~found[k]
          /\ \A j \in Askers \ {k} : step'[j] = step[j] /\ asked'[j] = asked[j]
      BY <1>2, <2>1, <3>1 DEF TenancyTyped, AskerSound
    <3>4. \A e \in Subjects : Holding(e)' \subseteq Holding(e)  BY <2>1, <3>3 DEF Holding
    <3>5. \A j \in Askers : AskerSound(j)'  BY <1>2, <2>1, <3>1, <3>3 DEF AskerSound
    <3> QED  BY <1>1, <2>1, <3>1, <3>2, <3>4, <3>5, TenantStepInv
  <2> QED  BY <2>2, <2>3
<1>4. ASSUME Tenants!InsertQuotas(k) \/ Tenants!Crash(k) PROVE TenancyInv'
  <2>1. /\ step' = [step EXCEPT ![k] = "idle"] /\ asked' = [asked EXCEPT ![k] = NoSlug]
        /\ found' = [found EXCEPT ![k] = FALSE] /\ tenant' = tenant
    BY <1>4 DEF Tenants!InsertQuotas, Tenants!Crash, Tenants!Over, Tenants!Go
  <2>2. \/ UNCHANGED <<quotas, told>>
        \/ /\ step[k] = "inserted" /\ role = "ngois"
           /\ quotas' = quotas \cup {asked[k]} /\ told' = [told EXCEPT ![asked[k]] = "created"]
        \/ /\ step[k] = "inserted" /\ quotas' = quotas
           /\ told' = [told EXCEPT ![asked[k]] = "failed"]
    BY <1>4 DEF Tenants!InsertQuotas, Tenants!Crash
  <2>3. step[k] = "inserted" => asked[k] \in tenant /\ asked[k] \in Slugs
    BY <1>2 DEF AskerSound, TenancyTyped
  <2>4. TenancyTyped'
    <3>1. /\ step' \in [Askers -> {"idle", "inserted", "read"}]
          /\ asked' \in [Askers -> Slugs \cup Subjects \cup {NoSlug}]
          /\ found' \in [Askers -> BOOLEAN]
      BY <1>2, <2>1 DEF TenancyTyped
    <3>2. quotas' \subseteq tenant
              /\ told' \in [Slugs -> {"nothing", "created", "conflict", "failed"}]
      BY <1>2, <2>2, <2>3 DEF TenancyTyped
    <3> QED  BY <1>1, <1>2, <2>1, <3>1, <3>2 DEF TenancyTyped
  <2>5. /\ step'[k] = "idle" /\ ~found'[k]
        /\ \A j \in Askers \ {k} : /\ step'[j] = step[j] /\ asked'[j] = asked[j]
                                   /\ found'[j] = found[j]
    BY <1>2, <2>1 DEF TenancyTyped
  <2>6. \A e \in Subjects : Holding(e)' \subseteq Holding(e)  BY <2>5 DEF Holding
  <2>7. \A j \in Askers : AskerSound(j)'  BY <1>2, <2>1, <2>5 DEF AskerSound
  <2>8. \A g \in Slugs : \/ told'[g] = told[g]
                         \/ told'[g] = "created" /\ g \in quotas' /\ role = "ngois"
                         \/ told'[g] \in {"conflict", "failed"} /\ g \in tenant'
    BY <1>2, <2>1, <2>2, <2>3 DEF TenancyTyped
  <2>9. quotas \subseteq quotas'  BY <2>2
  <2> QED  BY <1>1, <2>1, <2>4, <2>6, <2>7, <2>8, <2>9, TenantStepInv
<1> QED  BY <1>3, <1>4

\* The quotas of a tenant are read, and inserted where there were none.
LEMMA ReadQuotasInv ==
  ASSUME TenancyInv, NEW g \in Slugs, Tenants!ReadQuotas(g)
  PROVE  TenancyInv'
<1>1. /\ g \in tenant /\ quotas' = quotas \cup {g}
      /\ UNCHANGED <<role, tenant, told, named, packages, late, step, asked, found>>
  BY DEF Tenants!ReadQuotas
<1>2. TenancyTyped' /\ \A k \in Askers : AskerSound(k)'
  BY <1>1 DEF TenancyInv, TenancyTyped, AskerSound
<1>3. \A e \in Subjects : Holding(e)' = Holding(e)  BY <1>1 DEF Holding
<1> QED  BY <1>1, <1>2, <1>3, TenantStepInv

\* The name is read while it is there, or it is not found.
LEMMA ReadSubjectInv ==
  ASSUME TenancyInv, NEW k \in Askers, NEW e \in Subjects, Tenants!ReadSubject(k, e)
  PROVE  TenancyInv'
<1>1. /\ step[k] = "idle"
      /\ step' = [step EXCEPT ![k] = "read"] /\ asked' = [asked EXCEPT ![k] = e]
      /\ found' = [found EXCEPT ![k] = (e \in named)]
      /\ UNCHANGED <<role, tenant, quotas, told, named, late>>
  BY DEF Tenants!ReadSubject, Tenants!Go
<1>2. TenancyTyped /\ \A j \in Askers : AskerSound(j)  BY DEF TenancyInv
<1>3. TenancyTyped'  BY <1>1, <1>2 DEF TenancyTyped
<1>4. /\ step'[k] = "read" /\ asked'[k] = e /\ (found'[k] <=> e \in named) /\ ~found[k]
      /\ \A j \in Askers \ {k} : /\ step'[j] = step[j] /\ asked'[j] = asked[j]
                                 /\ found'[j] = found[j]
  BY <1>1, <1>2 DEF TenancyTyped, AskerSound
<1>5. \A j \in Askers : AskerSound(j)'  BY <1>1, <1>2, <1>4 DEF AskerSound
<1>6. \A d \in Subjects : d \notin named => Holding(d)' = Holding(d)  BY <1>4 DEF Holding
<1> QED  BY <1>1, <1>3, <1>5, <1>6 DEF TenancyInv

\* A package that is kept late was held before.
LEMMA KeepPackageInv ==
  ASSUME TenancyInv, NEW k \in Askers, Tenants!KeepPackage(k)
  PROVE  TenancyInv'
<1>0. PICK e : e = asked[k]  OBVIOUS
<1>1. /\ step[k] = "read"
      /\ late' = [late EXCEPT ![e] = @ + IF found[k] /\ e \notin named THEN 1 ELSE 0]
      /\ step' = [step EXCEPT ![k] = "idle"] /\ asked' = [asked EXCEPT ![k] = NoSlug]
      /\ found' = [found EXCEPT ![k] = FALSE]
      /\ UNCHANGED <<role, tenant, quotas, told, named>>
  BY <1>0 DEF Tenants!KeepPackage, Tenants!Over, Tenants!Go
<1>2. TenancyTyped /\ (\A j \in Askers : AskerSound(j)) /\ e \in Subjects
  BY <1>0, <1>1 DEF TenancyInv, AskerSound
<1>3. /\ late'[e] = late[e] + (IF found[k] /\ e \notin named THEN 1 ELSE 0)
      /\ \A d \in Subjects \ {e} : late'[d] = late[d]
      /\ \A d \in Subjects : late[d] \in Nat
  BY <1>1, <1>2 DEF TenancyTyped
<1>4. TenancyTyped'
  <2>1. late' \in [Subjects -> Nat]
    <3>1. late' \in [Subjects -> {late'[d] : d \in Subjects}]  BY <1>1, <1>2 DEF TenancyTyped
    <3> QED  BY <1>3, <3>1
  <2> QED  BY <1>1, <1>2, <2>1 DEF TenancyTyped
<1>5. /\ step'[k] = "idle" /\ ~found'[k]
      /\ \A j \in Askers \ {k} : /\ step'[j] = step[j] /\ asked'[j] = asked[j]
                                 /\ found'[j] = found[j]
  BY <1>1, <1>2 DEF TenancyTyped
<1>6. \A j \in Askers : AskerSound(j)'  BY <1>1, <1>2, <1>5 DEF AskerSound
<1>7. ASSUME NEW d \in Subjects, d \in named' PROVE late'[d] = 0
  BY <1>1, <1>3, <1>7 DEF TenancyInv
<1>8. ASSUME NEW d \in Subjects, d \notin named'
      PROVE  late'[d] + Cardinality(Holding(d)') <= Cardinality(Askers)
  <2>0. /\ late[d] + Cardinality(Holding(d)) <= Cardinality(Askers) /\ late[d] \in Nat
        /\ IsFiniteSet(Holding(d)) /\ Cardinality(Holding(d)) \in Nat
        /\ Cardinality(Askers) \in Nat
    BY <1>1, <1>3, <1>8, HoldingFinite DEF TenancyInv
  <2>1. CASE d = e /\ found[k]
    <3>1. k \in Holding(d) /\ Holding(d)' = Holding(d) \ {k}  BY <1>0, <1>5, <2>1 DEF Holding
    <3>2. Cardinality(Holding(d)') = Cardinality(Holding(d)) - 1
      BY <2>0, <3>1, FS_RemoveElement
    <3>3. late'[d] = late[d] + 1  BY <1>1, <1>3, <1>8, <2>1
    <3> QED  BY <2>0, <3>2, <3>3
  <2>2. CASE ~(d = e /\ found[k])
    <3>1. Holding(d)' = Holding(d)  BY <1>0, <1>5, <2>2 DEF Holding
    <3>2. late'[d] = late[d]  BY <1>3, <2>0, <2>2
    <3> QED  BY <2>0, <3>1, <3>2
  <2> QED  BY <2>1, <2>2
<1> QED  BY <1>1, <1>4, <1>6, <1>7, <1>8 DEF TenancyInv

\* A name is erased: only who has read it can still keep it.
LEMMA EraseEmployeeInv ==
  ASSUME TenancyInv, NEW e \in Subjects, Tenants!EraseEmployee(e)
  PROVE  TenancyInv'
<1>1. /\ e \in named /\ named' = named \ {e}
      /\ UNCHANGED <<role, tenant, quotas, told, packages, late, step, asked, found>>
  BY DEF Tenants!EraseEmployee
<1>2. TenancyTyped' /\ \A k \in Askers : AskerSound(k)'
  BY <1>1 DEF TenancyInv, TenancyTyped, AskerSound
<1>3. \A d \in Subjects : Holding(d)' = Holding(d)  BY <1>1 DEF Holding
<1>4. ASSUME NEW d \in Subjects, d \notin named'
      PROVE  late'[d] + Cardinality(Holding(d)') <= Cardinality(Askers)
  <2>1. CASE d = e  BY <1>1, <1>3, <2>1, HoldingFinite DEF TenancyInv
  <2>2. CASE d # e  BY <1>1, <1>3, <1>4, <2>2 DEF TenancyInv
  <2> QED  BY <2>1, <2>2
<1> QED  BY <1>1, <1>2, <1>4 DEF TenancyInv

\* The invariant of the tenants holds in all of their behaviours.
THEOREM TenancyInvariance == TenancySpec => []TenancyInv
<1>1. ASSUME TenancyInv, [Tenants!TenancyNext]_tenants PROVE TenancyInv'
  <2>1. CASE UNCHANGED tenants
    <3>1. TenancyTyped' /\ \A k \in Askers : AskerSound(k)'
      BY <1>1, <2>1 DEF tenants, TenancyInv, TenancyTyped, AskerSound
    <3>2. \A d \in Subjects : Holding(d)' = Holding(d)  BY <2>1 DEF tenants, Holding
    <3> QED  BY <1>1, <2>1, <3>1, <3>2, TenantStepInv DEF tenants
  <2>2. ASSUME NEW k \in Askers,
               \/ \E g \in Slugs : Tenants!InsertTenant(k, g)
               \/ Tenants!InsertQuotas(k) \/ Tenants!Crash(k)
               \/ \E e \in Subjects : Tenants!ReadSubject(k, e)
               \/ Tenants!KeepPackage(k)
        PROVE  TenancyInv'
    BY <1>1, <2>2, TenantInv, ReadSubjectInv, KeepPackageInv
  <2>3. ASSUME NEW g \in Slugs, Tenants!ReadQuotas(g) PROVE TenancyInv'
    BY <1>1, <2>3, ReadQuotasInv
  <2>4. ASSUME NEW e \in Subjects, Tenants!EraseEmployee(e) PROVE TenancyInv'
    BY <1>1, <2>4, EraseEmployeeInv
  <2> QED  BY <1>1, <2>1, <2>2, <2>3, <2>4 DEF Tenants!TenancyNext
<1> QED  BY TenancyInitInv, <1>1, PTL DEF TenancySpec
-----------------------------------------------------------------------------
\* What seed.ts writes: every name is that of one row of one block, and the
\* rows it refers to come with the same block or before.

\* In which block a name is, what its row needs, and how it is written.
Home(n) ==
  IF n = "A" THEN 1
  ELSE IF n \in {"entitlements", "flags", "admin", "finance", "hr", "grant", "budget"} THEN 2
  ELSE IF n = "other" THEN 3
  ELSE IF n = "other grant" THEN 4
  ELSE IF n = "B" THEN 5
  ELSE IF n \in {"admin B", "grant B", "budget B"} THEN 6
  ELSE IF n = "schema" THEN 7
  ELSE IF n = "S" THEN 9
  ELSE IF n \in {"entitlements S", "quota S", "admin S"} THEN 10
  ELSE IF n = "schema S" THEN 11
  ELSE IF n = "other quotas" THEN 12
  ELSE 8

NeedsOf(n) ==
  IF n \in {"A", "other", "B", "S"} THEN {}
  ELSE IF n = "budget" THEN {"grant"}
  ELSE IF n = "other grant" THEN {"other"}
  ELSE IF n \in {"admin B", "grant B"} THEN {"B"}
  ELSE IF n = "budget B" THEN {"grant B"}
  ELSE IF n \in {"employee", "position"} THEN {"department"}
  ELSE IF n = "contract" THEN {"employee"}
  ELSE IF n \in {"version", "assignment"} THEN {"form"}
  ELSE IF n = "fields" THEN {"version"}
  ELSE IF n \in {"course version", "rule"} THEN {"course"}
  ELSE IF n \in {"module", "assessment"} THEN {"course version"}
  ELSE IF n = "lesson" THEN {"module"}
  ELSE IF n = "question" THEN {"assessment"}
  ELSE IF n = "options" THEN {"question"}
  ELSE IF n \in {"entitlements S", "quota S", "admin S", "schema S"} THEN {"S"}
  ELSE IF n = "other quotas" THEN {"other", "B"}
  ELSE {"A"}

WayOf(n) == IF n \in {"indicator value", "kpi snapshots"} THEN "add" ELSE "keep"

\* The names that rows refer to.
Needed8 == {"department", "employee", "form", "version", "course", "course version",
            "module", "assessment", "question"}
Needed == {"A", "grant", "other", "B", "grant B", "S"} \cup Needed8

Fits(n, needs, b, way) == Home(n) = b /\ NeedsOf(n) = needs /\ WayOf(n) = way

RowIs(row, b) ==
  /\ Home(row.name) = b /\ row.way = WayOf(row.name) /\ row.needs = NeedsOf(row.name)
  /\ row = [name |-> row.name, way |-> row.way, needs |-> row.needs]

\* What a row needs comes in no later block.
LEMMA NeedsBefore ==
  ASSUME NEW n, NEW m \in NeedsOf(n)
  PROVE  m \in Needed /\ Home(m) <= Home(n)
<1>1. m \in Needed  BY DEF NeedsOf, Needed, Needed8
<1>0. Home(n) \in 1..12  BY DEF Home
<1>2. CASE m = "A"
  <2>1. Home(m) = 1  BY <1>2 DEF Home
  <2> QED  BY <1>0, <1>1, <2>1
<1>3. CASE m \in Needed8
  <2>1. Home(m) = 8 /\ Home(n) = 8  BY <1>3 DEF NeedsOf, Needed8, Home
  <2> QED  BY <1>1, <2>1
<1>4. CASE m \in {"grant", "other", "B", "grant B", "S"}
  <2>1. <<Home(m), Home(n)>>
            \in {<<2, 2>>, <<3, 4>>, <<3, 12>>, <<5, 6>>, <<5, 12>>, <<6, 6>>, <<9, 10>>, <<9, 11>>}
    BY <1>4 DEF NeedsOf, Home
  <2> QED  BY <1>1, <2>1
<1> QED  BY <1>1, <1>2, <1>3, <1>4 DEF Needed

\* Rows to keep that are all of block b, with the same needs, are as the names say.
LEMMA KeepRow ==
  ASSUME NEW N, NEW needs, NEW b, \A n \in N : Fits(n, needs, b, "keep")
  PROVE  \A row \in Setup!Keep(N, needs) : RowIs(row, b)
BY DEF Setup!Keep, RowIs, Fits

\* The same of rows that are added whenever their block runs.
LEMMA AddRow ==
  ASSUME NEW N, NEW needs, NEW b, \A n \in N : Fits(n, needs, b, "add")
  PROVE  \A row \in Setup!Add(N, needs) : RowIs(row, b)
BY DEF Setup!Add, RowIs, Fits

\* There are twelve blocks.
LEMMA BlocksLength == DOMAIN Setup!Blocks = 1..12 /\ Len(Setup!Blocks) = 12
BY DEF Setup!Blocks

\* The names of the rows of a block are names.
LEMMA NamesKept ==
  ASSUME NEW b \in 1..12, NEW N, NEW needs, Setup!Keep(N, needs) \subseteq Setup!Blocks[b]
  PROVE  N \subseteq Setup!Names
<1> SUFFICES ASSUME NEW n \in N PROVE n \in Setup!Names  OBVIOUS
<1>1. [name |-> n, way |-> "keep", needs |-> needs] \in Setup!Keep(N, needs)  BY DEF Setup!Keep
<1>2. [name |-> n, way |-> "keep", needs |-> needs] \in Setup!AllRows
  BY <1>1, BlocksLength DEF Setup!AllRows
<1> QED  BY <1>2 DEF Setup!Names

\* The tenant of the demonstration.
LEMMA Block1 ==
  /\ \A row \in Setup!Blocks[1] : RowIs(row, 1)
  /\ {"A"} \subseteq Setup!Names
<1>1. /\ Setup!Blocks[1] = Setup!Keep({"A"}, {})
      /\ \A n \in {"A"} : Fits(n, {}, 1, "keep")
  BY DEF Setup!Blocks, Setup!Tenant, Fits, Home, NeedsOf, WayOf
<1> QED  BY <1>1, KeepRow, NamesKept

\* Its settings, users, grant and budget.
LEMMA Block2 ==
  /\ \A row \in Setup!Blocks[2] : RowIs(row, 2)
  /\ {"grant"} \subseteq Setup!Names
<1>0. Setup!Blocks[2] =
      Setup!Keep({"entitlements", "flags"}, {"A"})
      \cup Setup!Keep({"admin", "finance", "hr"}, {"A"})
      \cup Setup!Keep({"grant"}, {"A"})
      \cup Setup!Keep({"budget"}, {"grant"})
  BY DEF Setup!Blocks, Setup!DesignPartner
<1>1. /\ \A n \in {"entitlements", "flags"} : Fits(n, {"A"}, 2, "keep")
      /\ \A n \in {"admin", "finance", "hr"} : Fits(n, {"A"}, 2, "keep")
      /\ \A n \in {"grant"} : Fits(n, {"A"}, 2, "keep")
      /\ \A n \in {"budget"} : Fits(n, {"grant"}, 2, "keep")
  BY DEF Fits, Home, NeedsOf, WayOf
<1>2. \A row \in Setup!Blocks[2] : RowIs(row, 2)  BY <1>0, <1>1, KeepRow
<1>3. \A N, needs : Setup!Keep(N, needs) \subseteq Setup!Blocks[2] => N \subseteq Setup!Names
  BY NamesKept
<1> QED  BY <1>0, <1>2, <1>3

\* The other tenant.
LEMMA Block3 ==
  /\ \A row \in Setup!Blocks[3] : RowIs(row, 3)
  /\ {"other"} \subseteq Setup!Names
<1>1. /\ Setup!Blocks[3] = Setup!Keep({"other"}, {})
      /\ \A n \in {"other"} : Fits(n, {}, 3, "keep")
  BY DEF Setup!Blocks, Setup!Tenant, Fits, Home, NeedsOf, WayOf
<1> QED  BY <1>1, KeepRow, NamesKept

\* Its grant.
LEMMA Block4 == \A row \in Setup!Blocks[4] : RowIs(row, 4)
<1>1. /\ Setup!Blocks[4] = Setup!Keep({"other grant"}, {"other"})
      /\ \A n \in {"other grant"} : Fits(n, {"other"}, 4, "keep")
  BY DEF Setup!Blocks, Setup!OtherNgo, Fits, Home, NeedsOf, WayOf
<1> QED  BY <1>1, KeepRow

\* The tenant of partner B.
LEMMA Block5 ==
  /\ \A row \in Setup!Blocks[5] : RowIs(row, 5)
  /\ {"B"} \subseteq Setup!Names
<1>1. /\ Setup!Blocks[5] = Setup!Keep({"B"}, {})
      /\ \A n \in {"B"} : Fits(n, {}, 5, "keep")
  BY DEF Setup!Blocks, Setup!Tenant, Fits, Home, NeedsOf, WayOf
<1> QED  BY <1>1, KeepRow, NamesKept

\* Its user, grant and budget.
LEMMA Block6 ==
  /\ \A row \in Setup!Blocks[6] : RowIs(row, 6)
  /\ {"grant B"} \subseteq Setup!Names
<1>0. Setup!Blocks[6] =
      Setup!Keep({"admin B"}, {"B"})
      \cup Setup!Keep({"grant B"}, {"B"})
      \cup Setup!Keep({"budget B"}, {"grant B"})
  BY DEF Setup!Blocks, Setup!PartnerB
<1>1. /\ \A n \in {"admin B"} : Fits(n, {"B"}, 6, "keep")
      /\ \A n \in {"grant B"} : Fits(n, {"B"}, 6, "keep")
      /\ \A n \in {"budget B"} : Fits(n, {"grant B"}, 6, "keep")
  BY DEF Fits, Home, NeedsOf, WayOf
<1>2. \A row \in Setup!Blocks[6] : RowIs(row, 6)  BY <1>0, <1>1, KeepRow
<1>3. \A N, needs : Setup!Keep(N, needs) \subseteq Setup!Blocks[6] => N \subseteq Setup!Names
  BY NamesKept
<1> QED  BY <1>0, <1>2, <1>3

\* The schema of the tenant.
LEMMA Block7 == \A row \in Setup!Blocks[7] : RowIs(row, 7)
<1>1. /\ Setup!Blocks[7] = Setup!Keep({"schema"}, {"A"})
      /\ \A n \in {"schema"} : Fits(n, {"A"}, 7, "keep")
  BY DEF Setup!Blocks, Fits, Home, NeedsOf, WayOf
<1> QED  BY <1>1, KeepRow

\* What the services hold of the tenant.
LEMMA Block8 ==
  /\ \A row \in Setup!Blocks[8] : RowIs(row, 8)
  /\ Needed8 \subseteq Setup!Names
<1>0. Setup!Blocks[8] =
      Setup!Keep({"department", "leave type", "onboarding", "quota", "account"}, {"A"})
      \cup Setup!Keep({"employee", "position"}, {"department"})
      \cup Setup!Keep({"contract"}, {"employee"})
      \cup Setup!Keep({"programme", "form"}, {"A"})
      \cup Setup!Keep({"version", "assignment"}, {"form"})
      \cup Setup!Keep({"fields"}, {"version"})
      \cup Setup!Keep({"course"}, {"A"})
      \cup Setup!Keep({"course version", "rule"}, {"course"})
      \cup Setup!Keep({"module", "assessment"}, {"course version"})
      \cup Setup!Keep({"lesson"}, {"module"})
      \cup Setup!Keep({"question"}, {"assessment"})
      \cup Setup!Keep({"options"}, {"question"})
      \cup Setup!Keep({"templates"}, {"A"})
      \cup Setup!Keep({"kpis", "dashboard", "indicator", "ai settings", "prompt"}, {"A"})
      \cup Setup!Add({"indicator value", "kpi snapshots"}, {"A"})
  BY DEF Setup!Blocks, Setup!Workforce, Setup!FieldWork, Setup!Training, Setup!Templates,
         Setup!Intelligence
<1>1. /\ \A n \in {"department", "leave type", "onboarding", "quota", "account"} :
             Fits(n, {"A"}, 8, "keep")
      /\ \A n \in {"employee", "position"} : Fits(n, {"department"}, 8, "keep")
      /\ \A n \in {"contract"} : Fits(n, {"employee"}, 8, "keep")
      /\ \A n \in {"programme", "form"} : Fits(n, {"A"}, 8, "keep")
      /\ \A n \in {"version", "assignment"} : Fits(n, {"form"}, 8, "keep")
      /\ \A n \in {"fields"} : Fits(n, {"version"}, 8, "keep")
      /\ \A n \in {"course"} : Fits(n, {"A"}, 8, "keep")
      /\ \A n \in {"course version", "rule"} : Fits(n, {"course"}, 8, "keep")
      /\ \A n \in {"module", "assessment"} : Fits(n, {"course version"}, 8, "keep")
      /\ \A n \in {"lesson"} : Fits(n, {"module"}, 8, "keep")
      /\ \A n \in {"question"} : Fits(n, {"assessment"}, 8, "keep")
      /\ \A n \in {"options"} : Fits(n, {"question"}, 8, "keep")
      /\ \A n \in {"templates"} : Fits(n, {"A"}, 8, "keep")
      /\ \A n \in {"kpis", "dashboard", "indicator", "ai settings", "prompt"} :
             Fits(n, {"A"}, 8, "keep")
      /\ \A n \in {"indicator value", "kpi snapshots"} : Fits(n, {"A"}, 8, "add")
  BY DEF Fits, Home, NeedsOf, WayOf
<1>2. \A row \in Setup!Blocks[8] : RowIs(row, 8)  BY <1>0, <1>1, KeepRow, AddRow
<1>3. \A N, needs : Setup!Keep(N, needs) \subseteq Setup!Blocks[8] => N \subseteq Setup!Names
  BY NamesKept
<1>4. /\ {"department", "leave type", "onboarding", "quota", "account"} \subseteq Setup!Names
      /\ {"employee", "position"} \subseteq Setup!Names
      /\ {"programme", "form"} \subseteq Setup!Names
      /\ {"version", "assignment"} \subseteq Setup!Names
      /\ {"course"} \subseteq Setup!Names
      /\ {"course version", "rule"} \subseteq Setup!Names
      /\ {"module", "assessment"} \subseteq Setup!Names
      /\ {"question"} \subseteq Setup!Names
  BY <1>0, <1>3
<1> QED  BY <1>2, <1>4 DEF Needed8

\* The synthetic tenant.
LEMMA Block9 ==
  /\ \A row \in Setup!Blocks[9] : RowIs(row, 9)
  /\ {"S"} \subseteq Setup!Names
<1>1. /\ Setup!Blocks[9] = Setup!Keep({"S"}, {})
      /\ \A n \in {"S"} : Fits(n, {}, 9, "keep")
  BY DEF Setup!Blocks, Setup!Tenant, Fits, Home, NeedsOf, WayOf
<1> QED  BY <1>1, KeepRow, NamesKept

\* Its settings and user.
LEMMA Block10 == \A row \in Setup!Blocks[10] : RowIs(row, 10)
<1>0. Setup!Blocks[10] =
      Setup!Keep({"entitlements S", "quota S"}, {"S"})
      \cup Setup!Keep({"admin S"}, {"S"})
  BY DEF Setup!Blocks, Setup!Synthetic
<1>1. /\ \A n \in {"entitlements S", "quota S"} : Fits(n, {"S"}, 10, "keep")
      /\ \A n \in {"admin S"} : Fits(n, {"S"}, 10, "keep")
  BY DEF Fits, Home, NeedsOf, WayOf
<1>2. \A row \in Setup!Blocks[10] : RowIs(row, 10)  BY <1>0, <1>1, KeepRow
<1> QED  BY <1>2

\* Its schema.
LEMMA Block11 == \A row \in Setup!Blocks[11] : RowIs(row, 11)
<1>1. /\ Setup!Blocks[11] = Setup!Keep({"schema S"}, {"S"})
      /\ \A n \in {"schema S"} : Fits(n, {"S"}, 11, "keep")
  BY DEF Setup!Blocks, Fits, Home, NeedsOf, WayOf
<1> QED  BY <1>1, KeepRow

\* The quotas of the other two tenants.
LEMMA Block12 == \A row \in Setup!Blocks[12] : RowIs(row, 12)
<1>1. /\ Setup!Blocks[12] = Setup!Keep({"other quotas"}, {"other", "B"})
      /\ \A n \in {"other quotas"} : Fits(n, {"other", "B"}, 12, "keep")
  BY DEF Setup!Blocks, Setup!Quotas, Fits, Home, NeedsOf, WayOf
<1> QED  BY <1>1, KeepRow

\* Every row is the one of its name.
LEMMA RowsKnown ==
  ASSUME NEW b \in 1..12, NEW row \in Setup!Blocks[b]
  PROVE  RowIs(row, b) /\ row.name \in Setup!Names
<1>1. RowIs(row, b)
  <2>1. b \in {1, 2, 3, 4, 5, 6, 7, 8, 9, 10, 11, 12}  OBVIOUS
  <2> QED
    BY <2>1, Block1, Block2, Block3, Block4, Block5, Block6, Block7, Block8, Block9, Block10,
       Block11, Block12
<1>2. row \in Setup!AllRows  BY BlocksLength DEF Setup!AllRows
<1> QED  BY <1>1, <1>2 DEF Setup!Names

\* Every name is that of a row, in the block it is at home in.
LEMMA NamesKnown ==
  ASSUME NEW n \in Setup!Names
  PROVE  Home(n) \in 1..12 /\ \E row \in Setup!Blocks[Home(n)] : row.name = n
<1>1. PICK row \in Setup!AllRows : row.name = n  BY DEF Setup!Names
<1>2. PICK b \in 1..12 : row \in Setup!Blocks[b]  BY BlocksLength DEF Setup!AllRows
<1> QED  BY <1>1, <1>2, RowsKnown DEF RowIs

\* Rows of the same name are the same, in the same block.
LEMMA RowsUnique ==
  ASSUME NEW b \in 1..12, NEW row \in Setup!Blocks[b],
         NEW c \in 1..12, NEW other \in Setup!Blocks[c], row.name = other.name
  PROVE  row = other /\ b = c
BY RowsKnown DEF RowIs

\* What a row needs is in an earlier block or in its own.
LEMMA NeedsKnown ==
  ASSUME NEW b \in 1..12, NEW row \in Setup!Blocks[b], NEW n \in row.needs
  PROVE  n \in Setup!Names /\ Home(n) <= b
<1>1. n \in Needed /\ Home(n) <= b  BY RowsKnown, NeedsBefore DEF RowIs
<1> QED  BY <1>1, Block1, Block2, Block3, Block5, Block6, Block8, Block9 DEF Needed
-----------------------------------------------------------------------------
\* Bringing a database up.  A run of the migrations is never ahead of what has
\* been applied, so what it applies is the next; and a run of the seed has
\* committed every block before the one it is at, so what a row refers to is
\* there.

MigrateTyped ==
  /\ release \in 0..MaxFiles /\ applied \subseteq 1..MaxFiles
  /\ effects \in [1..MaxFiles -> Nat]
  /\ runner \in [Migrators -> [listed : 0..MaxFiles, at : 0..(MaxFiles + 1),
                               found : {"none", "absent"}]]

RunnerSound(r) ==
  /\ \A m \in 1..MaxFiles : m < runner[r].at => m \in applied
  /\ runner[r].found = "absent" => runner[r].at \in 1..MaxFiles

MigrateInv ==
  /\ MigrateTyped
  /\ \A r \in Migrators : RunnerSound(r)
  /\ Setup!MigratedOnce

\* Nothing is applied to begin with.
LEMMA MigrateInitInv == Setup!SeedingInit => MigrateInv
<1> SUFFICES ASSUME Setup!SeedingInit PROVE MigrateInv  OBVIOUS
<1>1. /\ release = MaxFiles - 1 /\ applied = {} /\ effects = [m \in 1..MaxFiles |-> 0]
      /\ runner = [r \in Migrators |-> [listed |-> 0, at |-> 0, found |-> "none"]]
  BY DEF Setup!SeedingInit
<1>2. 0 \in 0..MaxFiles /\ 0 \in 0..(MaxFiles + 1) /\ release \in 0..MaxFiles
  BY <1>1, FilesAssumption
<1>3. MigrateTyped  BY <1>1, <1>2 DEF MigrateTyped
<1>4. \A r \in Migrators : RunnerSound(r)  BY <1>1, FilesAssumption DEF RunnerSound
<1>5. applied = 1..0  BY <1>1
<1> QED  BY <1>1, <1>2, <1>3, <1>4, <1>5 DEF MigrateInv, Setup!MigratedOnce

\* A step of the run r that applies nothing.
LEMMA RunnerStepInv ==
  ASSUME MigrateInv, NEW r \in Migrators, UNCHANGED <<release, applied, effects>>,
         NEW is \in [listed : 0..MaxFiles, at : 0..(MaxFiles + 1), found : {"none", "absent"}],
         runner' = [runner EXCEPT ![r] = is],
         \A m \in 1..MaxFiles : m < is.at => m \in applied,
         is.found = "absent" => is.at \in 1..MaxFiles
  PROVE  MigrateInv'
<1>1. MigrateTyped'  BY DEF MigrateInv, MigrateTyped
<1>2. runner'[r] = is /\ \A q \in Migrators \ {r} : runner'[q] = runner[q]
  BY DEF MigrateInv, MigrateTyped
<1>3. ASSUME NEW q \in Migrators PROVE RunnerSound(q)'
  <2>1. CASE q = r  BY <1>2, <2>1 DEF RunnerSound
  <2>2. CASE q # r  BY <1>2, <2>2 DEF MigrateInv, RunnerSound
  <2> QED  BY <2>1, <2>2
<1> QED  BY <1>1, <1>3 DEF MigrateInv, Setup!MigratedOnce

\* What is known of a runner before it takes a step.
Running(r) ==
  /\ MaxFiles \in Nat \ {0} /\ release \in 0..MaxFiles
  /\ runner[r] \in [listed : 0..MaxFiles, at : 0..(MaxFiles + 1), found : {"none", "absent"}]
  /\ runner[r].listed \in 0..MaxFiles /\ runner[r].at \in 0..(MaxFiles + 1)
  /\ runner[r] = [listed |-> runner[r].listed, at |-> runner[r].at, found |-> runner[r].found]
  /\ RunnerSound(r)

\* The types of a run of the migrations, one by one.
LEMMA RunnerTypes ==
  ASSUME MigrateInv, NEW r \in Migrators
  PROVE  Running(r)
<1>1. runner[r] \in [listed : 0..MaxFiles, at : 0..(MaxFiles + 1), found : {"none", "absent"}]
  BY DEF MigrateInv, MigrateTyped
<1> QED  BY <1>1, FilesAssumption DEF Running, MigrateInv, MigrateTyped

\* Listing the files, skipping one, ending.
LEMMA RunInv ==
  ASSUME MigrateInv, NEW r \in Migrators,
         Setup!List(r) \/ Setup!Exists(r) \/ Setup!Exit(r)
  PROVE  MigrateInv'
<1> USE DEF Running
<1>0. Running(r)  BY RunnerTypes
<1>1. UNCHANGED <<release, applied, effects>>  BY DEF Setup!List, Setup!Exists, Setup!Exit
<1>2. CASE Setup!List(r)
  <2>1. runner' = [runner EXCEPT ![r] = [listed |-> release, at |-> 1, found |-> "none"]]
    BY <1>2 DEF Setup!List, Setup!Run
  <2>2. [listed |-> release, at |-> 1, found |-> "none"]
          \in [listed : 0..MaxFiles, at : 0..(MaxFiles + 1), found : {"none", "absent"}]
    BY <1>0
  <2> DEFINE is == [listed |-> release, at |-> 1, found |-> "none"]
  <2>3. (\A n \in 1..MaxFiles : n < is.at => n \in applied) /\ is.found # "absent"  BY <1>0
  <2> QED  BY <1>1, <2>1, <2>2, <2>3, RunnerStepInv
<1>3. CASE Setup!Exists(r)
  <2>1. runner[r].at \in 1..runner[r].listed /\ runner[r].found = "none"
    BY <1>3 DEF Setup!Exists, Setup!Run
  <2>2. runner[r].at \in 1..MaxFiles /\ runner[r].at + 1 \in 0..(MaxFiles + 1)  BY <1>0, <2>1
  <2>3. CASE runner[r].at \in applied
    <3> DEFINE is == [listed |-> runner[r].listed, at |-> runner[r].at + 1, found |-> "none"]
    <3>1. runner' = [runner EXCEPT ![r] = [runner[r] EXCEPT !.at = runner[r].at + 1]]
      BY <1>3, <2>3 DEF Setup!Exists, Setup!Run
    <3>2. [runner[r] EXCEPT !.at = runner[r].at + 1] = is  BY <1>0, <2>1
    <3>3. is \in [listed : 0..MaxFiles, at : 0..(MaxFiles + 1), found : {"none", "absent"}]
      BY <1>0, <2>2
    <3>4. \A m \in 1..MaxFiles : m < is.at => m \in applied  BY <1>0, <2>2, <2>3 DEF RunnerSound
    <3> QED  BY <1>1, <3>1, <3>2, <3>3, <3>4, RunnerStepInv
  <2>4. CASE runner[r].at \notin applied
    <3> DEFINE is == [listed |-> runner[r].listed, at |-> runner[r].at, found |-> "absent"]
    <3>1. runner' = [runner EXCEPT ![r] = [runner[r] EXCEPT !.found = "absent"]]
      BY <1>3, <2>4 DEF Setup!Exists, Setup!Run
    <3>2. [runner[r] EXCEPT !.found = "absent"] = is  BY <1>0, <2>1
    <3>3. is \in [listed : 0..MaxFiles, at : 0..(MaxFiles + 1), found : {"none", "absent"}]
      BY <1>0
    <3>4. \A m \in 1..MaxFiles : m < is.at => m \in applied  BY <1>0 DEF RunnerSound
    <3> QED  BY <1>1, <2>2, <3>1, <3>2, <3>3, <3>4, RunnerStepInv
  <2> QED  BY <2>3, <2>4
<1>4. CASE Setup!Exit(r)
  <2>1. runner' = [runner EXCEPT ![r] = [listed |-> 0, at |-> 0, found |-> "none"]]
    BY <1>4 DEF Setup!Exit, Setup!Run
  <2>2. [listed |-> 0, at |-> 0, found |-> "none"]
          \in [listed : 0..MaxFiles, at : 0..(MaxFiles + 1), found : {"none", "absent"}]
    BY <1>0
  <2> DEFINE is == [listed |-> 0, at |-> 0, found |-> "none"]
  <2>3. (\A n \in 1..MaxFiles : n < is.at => n \in applied) /\ is.found # "absent"  BY <1>0
  <2> QED  BY <1>1, <2>1, <2>2, <2>3, RunnerStepInv
<1> QED  BY <1>2, <1>3, <1>4

\* Whoever applies a file applies the next one, or finds it applied.
LEMMA ApplyInv ==
  ASSUME MigrateInv, NEW r \in Migrators, Setup!Apply(r)
  PROVE  MigrateInv'
<1> USE DEF Running
<1>a. Running(r)  BY RunnerTypes
<1>0. PICK m : m = runner[r].at  OBVIOUS
<1>1. CASE m \in applied
  <2>1. /\ runner' = [runner EXCEPT ![r] = [listed |-> 0, at |-> 0, found |-> "none"]]
        /\ UNCHANGED <<release, applied, effects>>
    BY <1>0, <1>1 DEF Setup!Apply, Setup!Run
  <2>2. [listed |-> 0, at |-> 0, found |-> "none"]
          \in [listed : 0..MaxFiles, at : 0..(MaxFiles + 1), found : {"none", "absent"}]
    BY <1>a
  <2> DEFINE is == [listed |-> 0, at |-> 0, found |-> "none"]
  <2>3. (\A n \in 1..MaxFiles : n < is.at => n \in applied) /\ is.found # "absent"  BY <1>a
  <2> QED  BY <2>1, <2>2, <2>3, RunnerStepInv
<1>2. CASE m \notin applied
  <2>1. /\ runner[r].found = "absent"
        /\ runner' = [runner EXCEPT ![r] = [runner[r] EXCEPT !.at = m + 1, !.found = "none"]]
        /\ applied' = applied \cup {m} /\ effects' = [effects EXCEPT ![m] = @ + 1]
        /\ release' = release
    BY <1>0, <1>2 DEF Setup!Apply, Setup!Run
  <2>2. m \in 1..MaxFiles /\ \A n \in 1..MaxFiles : n < m => n \in applied
    BY <1>a, <1>0, <2>1 DEF RunnerSound
  <2>3. /\ MigrateTyped /\ \A q \in Migrators : RunnerSound(q)
        /\ \A n \in 1..MaxFiles : effects[n] = IF n \in applied THEN 1 ELSE 0
        /\ \E k \in 0..MaxFiles : applied = 1..k
    BY DEF MigrateInv, Setup!MigratedOnce
  <2>4. applied' = 1..m
    <3>1. PICK k \in 0..MaxFiles : applied = 1..k  BY <2>3
    <3>2. m = k + 1
      <4>1. m \in Nat /\ k \in Nat /\ MaxFiles \in Nat /\ m > k  BY <1>a, <1>2, <2>2, <3>1
      <4>2. CASE m > k + 1
        <5>1. k + 1 \in 1..MaxFiles /\ k + 1 < m /\ k + 1 \notin applied
          BY <2>2, <3>1, <4>1, <4>2
        <5> QED  BY <2>2, <5>1
      <4> QED  BY <4>1, <4>2
    <3>3. 1..(k + 1) = 1..k \cup {k + 1}  BY <3>1
    <3> QED  BY <2>1, <3>1, <3>2, <3>3
  <2>5. \A n \in 1..MaxFiles : effects'[n] = IF n \in applied' THEN 1 ELSE 0
    BY <1>2, <2>1, <2>2, <2>3 DEF MigrateTyped
  <2> DEFINE is == [listed |-> runner[r].listed, at |-> m + 1, found |-> "none"]
  <2>6. [runner[r] EXCEPT !.at = m + 1, !.found = "none"] = is
    <3>1. PICK l : l = runner[r].listed  OBVIOUS
    <3>2. runner[r] = [listed |-> l, at |-> m, found |-> "absent"]  BY <1>a, <1>0, <2>1, <3>1
    <3>3. PICK w : w = [runner[r] EXCEPT !.at = m + 1]  OBVIOUS
    <3>4. w = [listed |-> l, at |-> m + 1, found |-> "absent"]  BY <3>2, <3>3
    <3>5. [w EXCEPT !.found = "none"] = [listed |-> l, at |-> m + 1, found |-> "none"]  BY <3>4
    <3>6. [runner[r] EXCEPT !.at = m + 1, !.found = "none"] = [w EXCEPT !.found = "none"]
      BY <3>3
    <3> QED  BY <3>1, <3>5, <3>6
  <2>7. is \in [listed : 0..MaxFiles, at : 0..(MaxFiles + 1), found : {"none", "absent"}]
    BY <1>a, <2>2
  <2>8. MigrateTyped'
    <3>1. effects' \in [1..MaxFiles -> Nat]  BY <2>1, <2>2, <2>3 DEF MigrateTyped
    <3>2. applied' \subseteq 1..MaxFiles  BY <2>1, <2>2, <2>3 DEF MigrateTyped
    <3>3. runner' \in [Migrators -> [listed : 0..MaxFiles, at : 0..(MaxFiles + 1),
                                     found : {"none", "absent"}]]
      BY <2>1, <2>3, <2>6, <2>7 DEF MigrateTyped
    <3> QED  BY <2>1, <2>3, <3>1, <3>2, <3>3 DEF MigrateTyped
  <2>9. ASSUME NEW q \in Migrators PROVE RunnerSound(q)'
    <3>1. CASE q = r
      <4>1. runner'[r] = is  BY <2>1, <2>3, <2>6 DEF MigrateTyped
      <4> QED  BY <2>1, <2>2, <2>4, <3>1, <4>1 DEF RunnerSound
    <3>2. CASE q # r
      <4>1. runner'[q] = runner[q]  BY <2>1, <2>3, <3>2 DEF MigrateTyped
      <4> QED  BY <2>1, <2>3, <4>1 DEF RunnerSound
    <3> QED  BY <3>1, <3>2
  <2>10. Setup!MigratedOnce'
    <3>1. m \in 0..MaxFiles  BY <2>2
    <3> QED  BY <2>4, <2>5, <3>1 DEF Setup!MigratedOnce
  <2> QED  BY <2>8, <2>9, <2>10 DEF MigrateInv
<1> QED  BY <1>1, <1>2

\* Every step keeps the migrations in order.
LEMMA MigrateNextInv ==
  ASSUME MigrateInv, [Setup!SeedingNext]_setup
  PROVE  MigrateInv'
<1>1. CASE UNCHANGED <<applied, effects, runner>> /\ release' \in {release, MaxFiles}
  <2>1. MigrateTyped'  BY <1>1, FilesAssumption DEF MigrateInv, MigrateTyped
  <2> QED  BY <1>1, <2>1 DEF MigrateInv, RunnerSound, Setup!MigratedOnce
<1>2. ASSUME NEW r \in Migrators,
             Setup!List(r) \/ Setup!Exists(r) \/ Setup!Apply(r) \/ Setup!Exit(r)
      PROVE  MigrateInv'
  BY <1>2, RunInv, ApplyInv
<1>3. CASE UNCHANGED setup  BY <1>1, <1>3 DEF setup
<1>4. CASE \/ Setup!Deploy \/ Setup!StartSeed \/ Setup!Commit \/ Setup!Abandon
           \/ \E n \in Setup!Taken : Setup!Take(n)
  BY <1>1, <1>4
     DEF Setup!Deploy, Setup!StartSeed, Setup!Commit, Setup!Abandon, Setup!Take, Setup!migrating
<1> QED  BY <1>2, <1>3, <1>4 DEF Setup!SeedingNext
-----------------------------------------------------------------------------
\* The rows, the block a run is at, and what it has committed.
SeedTyped ==
  /\ rows \in [Setup!Names -> [count : Nat, by : {"seed", "user"}]]
  /\ block \in 0..12 /\ commits \in [1..12 -> Nat] /\ complete \in BOOLEAN

\* How many rows of its own the seed has written for row, of block b.
Times(row, b) == IF row.way = "add" THEN commits[b] ELSE IF commits[b] > 0 THEN 1 ELSE 0

RowSound(row, b) ==
  /\ rows[row.name].by = "seed" =>
       /\ rows[row.name].count = Times(row, b)
       /\ rows[row.name].count > 0 =>
            \A n \in row.needs : rows[n].by = "seed" /\ rows[n].count > 0
  /\ rows[row.name].by = "user" => row.way = "keep" /\ rows[row.name].count > 0

SeedInv ==
  /\ SeedTyped
  /\ \A b \in 1..12 : \A row \in Setup!Blocks[b] : RowSound(row, b)
  /\ block \in 1..12 => \A c \in 1..12 : c < block => commits[c] > 0
  /\ complete => \A c \in 1..12 : commits[c] > 0

\* At first nothing is written.
LEMMA SeedInitInv == Setup!SeedingInit => SeedInv
<1> SUFFICES ASSUME Setup!SeedingInit PROVE SeedInv  OBVIOUS
<1>1. /\ rows = [n \in Setup!Names |-> [count |-> 0, by |-> "seed"]]
      /\ block = 0 /\ commits = [b \in 1..12 |-> 0] /\ complete = FALSE
  BY BlocksLength DEF Setup!SeedingInit
<1>2. ASSUME NEW b \in 1..12, NEW row \in Setup!Blocks[b] PROVE RowSound(row, b)
  <2>1. rows[row.name] = [count |-> 0, by |-> "seed"] /\ commits[b] = 0  BY <1>1, RowsKnown
  <2>2. Times(row, b) = 0  BY <2>1 DEF Times
  <2> QED  BY <2>1, <2>2 DEF RowSound
<1>3. rows \in [Setup!Names -> [count : Nat, by : {"seed", "user"}]]  BY <1>1
<1>4. commits \in [1..12 -> Nat]  BY <1>1
<1>5. SeedTyped
  <2>1. block = 0  BY <1>1
  <2>2. complete \in BOOLEAN  BY <1>1, Zenon
  <2>3. 0 \in 0..12  OBVIOUS
  <2> QED  BY <1>3, <1>4, <2>1, <2>2, <2>3 DEF SeedTyped
<1> QED  BY <1>1, <1>2, <1>5 DEF SeedInv

\* What a commit of block b writes.
LEMMA CommitRows ==
  ASSUME SeedInv, NEW b \in 1..12, Setup!Write(Setup!Blocks[b])
  PROVE  /\ \A row \in Setup!Blocks[b] : rows'[row.name] = Setup!Written(row)
         /\ \A n \in Setup!Names : Home(n) # b => rows'[n] = rows[n]
<1>1. ASSUME NEW row \in Setup!Blocks[b] PROVE rows'[row.name] = Setup!Written(row)
  <2>1. (CHOOSE other \in Setup!Blocks[b] : other.name = row.name) = row  BY RowsUnique
  <2>2. row.name \in Setup!Names /\ row.name \in {other.name : other \in Setup!Blocks[b]}
    BY RowsKnown
  <2> QED  BY <2>1, <2>2 DEF Setup!Write
<1>2. ASSUME NEW n \in Setup!Names, Home(n) # b PROVE rows'[n] = rows[n]
  <2>1. n \notin {row.name : row \in Setup!Blocks[b]}  BY <1>2, RowsKnown DEF RowIs
  <2> QED  BY <2>1 DEF Setup!Write
<1> QED  BY <1>1, <1>2

\* A row that is written is there; one that was the seed's still is.
LEMMA WrittenRow ==
  ASSUME SeedInv, NEW b \in 1..12, NEW row \in Setup!Blocks[b]
  PROVE  /\ Setup!Written(row) \in [count : Nat, by : {"seed", "user"}]
         /\ Setup!Written(row).count > 0
         /\ rows[row.name].by = "seed" => Setup!Written(row).by = "seed"
<1>1. PICK w \in [count : Nat, by : {"seed", "user"}] : w = rows[row.name]
  BY RowsKnown DEF SeedInv, SeedTyped
<1>2. CASE Setup!Inserted(row)
  <2>1. Setup!Written(row) = [count |-> w.count + 1, by |-> "seed"]
    BY <1>1, <1>2 DEF Setup!Written
  <2> QED  BY <1>1, <2>1
<1>3. CASE ~Setup!Inserted(row)
  <2>1. Setup!Written(row) = w /\ w.count # 0  BY <1>1, <1>3 DEF Setup!Written, Setup!Inserted
  <2> QED  BY <1>1, <2>1
<1> QED  BY <1>2, <1>3

\* A commit leaves what was there, and what was the seed's.
LEMMA CommitKeeps ==
  ASSUME SeedInv, NEW b \in 1..12, Setup!Write(Setup!Blocks[b]), NEW n \in Setup!Names
  PROVE  /\ rows'[n] \in [count : Nat, by : {"seed", "user"}]
         /\ rows[n].count > 0 \/ Home(n) = b => rows'[n].count > 0
         /\ rows[n].by = "seed" => rows'[n].by = "seed"
<1>1. CASE Home(n) = b
  <2>1. PICK row \in Setup!Blocks[b] : row.name = n  BY <1>1, NamesKnown
  <2>2. rows'[n] = Setup!Written(row)  BY <2>1, CommitRows
  <2> QED  BY <1>1, <2>1, <2>2, WrittenRow
<1>2. CASE Home(n) # b
  <2>1. rows'[n] = rows[n] /\ rows[n] \in [count : Nat, by : {"seed", "user"}]
    BY <1>2, CommitRows DEF SeedInv, SeedTyped
  <2> QED  BY <1>2, <2>1
<1> QED  BY <1>1, <1>2

\* A commit writes rows that refer to rows of the seed.
LEMMA CommitSound ==
  ASSUME SeedInv, NEW b \in 1..12, block = b, Setup!Write(Setup!Blocks[b]),
         \A row \in Setup!Blocks[b] : ~Setup!Refused(row),
         commits' = [commits EXCEPT ![b] = @ + 1],
         NEW c \in 1..12, NEW row \in Setup!Blocks[c]
  PROVE  RowSound(row, c)'
<1>1. /\ RowSound(row, c) /\ row.name \in Setup!Names /\ RowIs(row, c)
      /\ rows[row.name] \in [count : Nat, by : {"seed", "user"}]
      /\ commits \in [1..12 -> Nat]
  BY RowsKnown DEF SeedInv, SeedTyped
<1>2. ASSUME rows[row.name].by = "seed", rows[row.name].count > 0, NEW n \in row.needs
      PROVE  rows'[n].by = "seed" /\ rows'[n].count > 0
  <2>1. rows[n].by = "seed" /\ rows[n].count > 0 /\ n \in Setup!Names
    BY <1>1, <1>2, NeedsKnown DEF RowSound
  <2> QED  BY <2>1, CommitKeeps
<1>3. CASE c # b
  <2>1. rows'[row.name] = rows[row.name]  BY <1>1, <1>3, CommitRows DEF RowIs
  <2>2. Times(row, c)' = Times(row, c)  BY <1>1, <1>3 DEF Times
  <2>3. PICK w : w = rows[row.name]  OBVIOUS
  <2> QED  BY <1>1, <1>2, <2>1, <2>2, <2>3 DEF RowSound
<1>4. CASE c = b /\ Setup!Inserted(row)
  <2>1. PICK k : k = rows[row.name].count  OBVIOUS
  <2>2. rows'[row.name] = [count |-> k + 1, by |-> "seed"] /\ k \in Nat
    BY <1>1, <1>4, <2>1, CommitRows DEF Setup!Written
  <2>3. Times(row, c)' = k + 1
    <3>1. commits'[c] = commits[c] + 1 /\ commits[c] \in Nat  BY <1>1, <1>4
    <3>2. CASE row.way = "add"
      <4>1. rows[row.name].by = "seed"  BY <1>1, <3>2 DEF RowSound
      <4>2. k = commits[c]  BY <1>1, <2>1, <3>2, <4>1 DEF RowSound, Times
      <4> QED  BY <3>1, <3>2, <4>2 DEF Times
    <3>3. CASE row.way # "add"
      <4>1. k = 0  BY <1>4, <2>1, <3>3 DEF Setup!Inserted
      <4> QED  BY <3>1, <3>3, <4>1 DEF Times
    <3> QED  BY <3>2, <3>3
  <2>4. ASSUME NEW n \in row.needs
        PROVE  rows'[n].by = "seed" /\ rows'[n].count > 0
    <3>1. n \in Setup!Names /\ Home(n) <= b /\ rows[n].by = "seed"
      BY <1>4, NeedsKnown DEF Setup!Refused
    <3>2. CASE Home(n) = b  BY <3>1, <3>2, CommitKeeps
    <3>3. CASE Home(n) # b
      <4>1. PICK h \in 1..12 : h = Home(n)  BY <3>1, NamesKnown
      <4>2. h < b /\ commits[h] > 0  BY <3>1, <3>3, <4>1 DEF SeedInv
      <4>3. PICK other \in Setup!Blocks[h] : other.name = n  BY <3>1, <4>1, NamesKnown
      <4>4. rows[n].count = Times(other, h)  BY <3>1, <4>3 DEF SeedInv, RowSound
      <4>5. Times(other, h) > 0  BY <4>2 DEF Times
      <4> QED  BY <3>1, <4>4, <4>5, CommitKeeps
    <3> QED  BY <3>2, <3>3
  <2>5. rows'[row.name].by = "seed" /\ rows'[row.name].count = k + 1  BY <2>2
  <2> QED  BY <2>3, <2>4, <2>5 DEF RowSound
<1>5. CASE c = b /\ ~Setup!Inserted(row)
  <2>1. /\ rows'[row.name] = rows[row.name] /\ row.way # "add"
        /\ rows[row.name].count # 0
    BY <1>5, CommitRows DEF Setup!Written, Setup!Inserted
  <2>2. rows[row.name].count > 0  BY <1>1, <2>1
  <2>3. Times(row, c)' = 1
    <3>1. commits'[c] = commits[c] + 1 /\ commits[c] \in Nat  BY <1>1, <1>5
    <3> QED  BY <2>1, <3>1 DEF Times
  <2>4. rows[row.name].by = "seed" => rows[row.name].count = 1
    BY <1>1, <2>1, <2>2 DEF RowSound, Times
  <2>5. PICK w : w = rows[row.name]  OBVIOUS
  <2> QED  BY <1>1, <1>2, <2>1, <2>2, <2>3, <2>4, <2>5 DEF RowSound
<1> QED  BY <1>3, <1>4, <1>5

\* A block is committed, and the seed goes on with the next.
LEMMA CommitInv ==
  ASSUME SeedInv, Setup!Commit
  PROVE  SeedInv'
<1>1. PICK b \in 1..12 :
        /\ block = b /\ Setup!Write(Setup!Blocks[b])
        /\ \A row \in Setup!Blocks[b] : ~Setup!Refused(row)
        /\ commits' = [commits EXCEPT ![b] = @ + 1]
        /\ block' = (b + 1) % 13 /\ complete' = (complete \/ b = 12)
  <2>1. block \in 1..12  BY BlocksLength DEF Setup!Commit
  <2>2. /\ Setup!Write(Setup!Blocks[block])
        /\ \A row \in Setup!Blocks[block] : ~Setup!Refused(row)
        /\ commits' = [commits EXCEPT ![block] = @ + 1]
    BY DEF Setup!Commit
  <2>3. block' = (block + 1) % 13 /\ complete' = (complete \/ block = 12)
    BY BlocksLength DEF Setup!Commit
  <2> QED  BY <2>1, <2>2, <2>3
<1>2. \A c \in 1..12 : \A row \in Setup!Blocks[c] : RowSound(row, c)'  BY <1>1, CommitSound
<1>3. /\ SeedTyped /\ (complete => \A c \in 1..12 : commits[c] > 0)
      /\ \A c \in 1..12 : c < b => commits[c] > 0
  BY <1>1 DEF SeedInv
<1>4. \A c \in 1..12 : /\ commits'[c] \in Nat /\ commits[c] \in Nat
                       /\ commits'[c] = IF c = b THEN commits[b] + 1 ELSE commits[c]
  BY <1>1, <1>3 DEF SeedTyped
<1>5. commits' \in [1..12 -> Nat]  BY <1>1, <1>3 DEF SeedTyped
<1>6. block' = IF b = 12 THEN 0 ELSE b + 1  BY <1>1
<1>7. rows' \in [Setup!Names -> [count : Nat, by : {"seed", "user"}]]
  <2>1. rows' = [n \in Setup!Names |-> rows'[n]]  BY <1>1 DEF Setup!Write
  <2>2. \A n \in Setup!Names : rows'[n] \in [count : Nat, by : {"seed", "user"}]
    BY <1>1, CommitKeeps
  <2> QED  BY <2>1, <2>2
<1>8. complete' \in BOOLEAN /\ block' \in 0..12  BY <1>1, <1>6
<1>9. block' \in 1..12 => \A c \in 1..12 : c < block' => commits'[c] > 0  BY <1>3, <1>4, <1>6
<1>10. complete' => \A c \in 1..12 : commits'[c] > 0
  <2>1. CASE complete  BY <1>3, <1>4, <2>1
  <2>2. CASE b = 12  BY <1>3, <1>4, <2>2
  <2> QED  BY <1>1, <2>1, <2>2
<1> QED  BY <1>2, <1>5, <1>7, <1>8, <1>9, <1>10 DEF SeedInv, SeedTyped

\* A user takes a key that no row refers to yet.
LEMMA TakeInv ==
  ASSUME SeedInv, NEW t \in Setup!Taken, Setup!Take(t)
  PROVE  SeedInv'
<1>1. /\ rows[t].count = 0 /\ rows' = [rows EXCEPT ![t] = [count |-> 1, by |-> "user"]]
      /\ UNCHANGED <<block, commits, complete>>
  BY DEF Setup!Take
<1>2. SeedTyped  BY DEF SeedInv
<1>3. SeedTyped'  BY <1>1, <1>2 DEF SeedTyped
<1>4. ASSUME NEW b \in 1..12, NEW row \in Setup!Blocks[b] PROVE RowSound(row, b)'
  <2>1. RowSound(row, b) /\ row.name \in Setup!Names /\ RowIs(row, b)  BY RowsKnown DEF SeedInv
  <2>2. Times(row, b)' = Times(row, b)  BY <1>1 DEF Times
  <2>3. CASE row.name = t
    <3>1. row.way = "keep"  BY <2>1, <2>3 DEF RowIs, WayOf, Setup!Taken
    <3>2. rows'[row.name] = [count |-> 1, by |-> "user"]
      BY <1>1, <1>2, <2>1, <2>3 DEF SeedTyped
    <3>3. rows'[row.name].by = "user" /\ rows'[row.name].count = 1  BY <3>2
    <3> QED  BY <3>1, <3>3 DEF RowSound
  <2>4. CASE row.name # t
    <3>1. rows'[row.name] = rows[row.name]  BY <1>1, <1>2, <2>1, <2>4 DEF SeedTyped
    <3>2. ASSUME NEW n \in row.needs, rows[n].count > 0
          PROVE  rows'[n] = rows[n]
      <4>1. n # t /\ n \in Setup!Names  BY <1>1, <3>2, NeedsKnown
      <4> QED  BY <1>1, <1>2, <4>1 DEF SeedTyped
    <3>3. PICK w : w = rows[row.name]  OBVIOUS
    <3> QED  BY <2>1, <2>2, <3>1, <3>2, <3>3 DEF RowSound
  <2> QED  BY <2>3, <2>4
<1> QED  BY <1>1, <1>3, <1>4 DEF SeedInv

\* Every step keeps what the seed has written whole.
LEMMA SeedNextInv ==
  ASSUME SeedInv, [Setup!SeedingNext]_setup
  PROVE  SeedInv'
<1>1. CASE UNCHANGED <<rows, commits, complete>> /\ block' \in {block, 0, 1}
  <2>1. SeedTyped'  BY <1>1 DEF SeedInv, SeedTyped
  <2>2. \A b \in 1..12 : \A row \in Setup!Blocks[b] : RowSound(row, b)'
    BY <1>1 DEF SeedInv, RowSound, Times
  <2>3. block' \in 1..12 => \A c \in 1..12 : c < block' => commits'[c] > 0  BY <1>1 DEF SeedInv
  <2> QED  BY <1>1, <2>1, <2>2, <2>3 DEF SeedInv
<1>2. CASE UNCHANGED setup  BY <1>1, <1>2 DEF setup
<1>3. CASE \E r \in Migrators :
             Setup!List(r) \/ Setup!Exists(r) \/ Setup!Apply(r) \/ Setup!Exit(r)
  BY <1>1, <1>3 DEF Setup!List, Setup!Exists, Setup!Apply, Setup!Exit, Setup!Run
<1>4. CASE Setup!Deploy \/ Setup!StartSeed \/ Setup!Abandon
  BY <1>1, <1>4 DEF Setup!Deploy, Setup!StartSeed, Setup!Abandon
<1>5. CASE Setup!Commit  BY <1>5, CommitInv
<1>6. CASE \E n \in Setup!Taken : Setup!Take(n)  BY <1>6, TakeInv
<1> QED  BY <1>2, <1>3, <1>4, <1>5, <1>6 DEF Setup!SeedingNext

\* Bringing a database up keeps both parts of the invariant.
THEOREM SeedingInvariance == SeedingSpec => [](MigrateInv /\ SeedInv)
<1>1. (MigrateInv /\ SeedInv) /\ [Setup!SeedingNext]_setup => (MigrateInv /\ SeedInv)'
  BY MigrateNextInv, SeedNextInv
<1> QED  BY MigrateInitInv, SeedInitInv, <1>1, PTL DEF SeedingSpec

\* What was kept, for every tenant and every row, is what the run checks.
LEMMA SetUpAgrees == TenancyInv /\ MigrateInv /\ SeedInv => TenantsSetUp
<1> SUFFICES ASSUME TenancyInv, MigrateInv, SeedInv PROVE TenantsSetUp  OBVIOUS
<1>1. Setup!Installed
  <2>1. Setup!MigratedOnce  BY DEF MigrateInv
  <2>2. ASSUME NEW b \in 1..12, NEW row \in Setup!Blocks[b]
        PROVE  complete => rows[row.name].count > 0
    <3>1. RowSound(row, b) /\ (complete => commits[b] > 0)  BY <2>2 DEF SeedInv
    <3>2. rows[row.name] \in [count : Nat, by : {"seed", "user"}]
      BY RowsKnown DEF SeedInv, SeedTyped
    <3> QED  BY <3>1, <3>2 DEF RowSound, Times
  <2>3. Setup!SeededWhole  BY <2>2, BlocksLength DEF Setup!SeededWhole, SeedInv, RowSound, Times
  <2> QED  BY <2>1, <2>3 DEF Setup!Installed
<1>2. Tenants!TenancyAgrees
  <2>1. \A e : Tenants!Cardinality({k \in Askers : asked[k] = e /\ found[k]})
                = Cardinality(Holding(e))
    BY TenancyCard DEF Holding
  <2>2. Tenants!Cardinality(Askers) = Cardinality(Askers)  BY TenancyCard
  <2> QED  BY <2>1, <2>2 DEF TenancyInv, Tenants!TenancyAgrees
<1> QED  BY <1>1, <1>2 DEF TenantsSetUp

\* TenantsSetUp (tenant-service, migrate.ts and seed.ts): in every behaviour of
\* the back office.
THEOREM TenantsSetUpAlways == Spec => []TenantsSetUp
BY Parts, TenancyInvariance, SeedingInvariance, SetUpAgrees, PTL
-----------------------------------------------------------------------------
\* The parts with a quota, and those with an effect outside the database.

\* QuotasBounded (reports-service, ai-insights-service, the gateway): in every
\* behaviour of the back office, whatever the quotas.
THEOREM QuotasBoundedAlways == Spec => []QuotasBounded
<1>1. QueueInv /\ InsightsInv /\ GateInv => QuotasBounded
  BY QueueHolds, BudgetHolds, RateHolds DEF QuotasBounded
<1> QED  BY Parts, QueueInvariance, InsightsInvariance, GatewayInvariance, <1>1, PTL

\* EffectsAccounted (reports, payroll exports, notifications, files): in every
\* behaviour of the back office.
THEOREM EffectsAccountedAlways == Spec => []EffectsAccounted
<1>1. QueueInv /\ ExportInv /\ NoticesInv /\ FilesInv => EffectsAccounted
  BY QueueHolds, PayslipsHold, MessagesHold DEF EffectsAccounted, FilesInv
<1> QED
  BY Parts, QueueInvariance, ExportInvariance, NoticesInvariance, FilesInvariance, <1>1, PTL
-----------------------------------------------------------------------------
\* The types of the other parts: what the invariants above leave out, and that
\* every count keeps to its bound.

\* Only a text is approved, and the model takes no more than may be used.
InsightsBound ==
  /\ enabled \in BOOLEAN /\ billed <= MaxUsed
  /\ text \in [Texts -> {"none", "unapproved", "approved"}]
  /\ review \in [Texts -> {"none", "pending", "resolved"}]
  /\ about \in [Prompts -> Texts \cup {NoText}]
  /\ \A a \in Prompts : asking[a] = "approving" => about[a] \in Texts

\* A request that is over is about no text, and no other has changed.
LEMMA ReturnBound ==
  ASSUME InsightsInv, InsightsBound, NEW a \in Prompts, Insights!Return(a)
  PROVE  /\ about' \in [Prompts -> Texts \cup {NoText}]
         /\ \A b \in Prompts : asking'[b] = "approving" => about'[b] \in Texts
BY DEF InsightsInv, InsightsTyped, InsightsBound, Insights!Return

\* The types of the texts of a model.
LEMMA InsightsTypes == InsightsSpec => []Insights!AiTypeOK
<1>1. Insights!AiInit => InsightsBound  BY PromptsAssumption DEF Insights!AiInit, InsightsBound
<1>2. InsightsInv /\ InsightsBound /\ [Insights!AiNext]_insights => InsightsBound'
  <2> SUFFICES ASSUME InsightsInv, InsightsBound, [Insights!AiNext]_insights
               PROVE  InsightsBound'
    OBVIOUS
  <2>1. CASE \/ UNCHANGED insights
             \/ \E on \in BOOLEAN, b \in Budgets : Insights!SetAi(on, b)
    BY <2>1 DEF insights, Insights!SetAi, Insights!prompts, InsightsBound
  <2>2. ASSUME NEW a \in Prompts,
               \/ Insights!CheckBudget(a)
               \/ \E tokens \in 1..MaxTokens : Insights!AskModel(a, tokens)
        PROVE  InsightsBound'
    <3>1. /\ UNCHANGED <<enabled, text, review, about>>
          /\ billed' = billed \/ billed' <= MaxUsed
          /\ \E phase \in {"checked", "answered"} : asking' = [asking EXCEPT ![a] = phase]
      BY <2>2 DEF Insights!CheckBudget, Insights!AskModel, Insights!insights
    <3> QED  BY <3>1 DEF InsightsInv, InsightsTyped, InsightsBound
  <2>3. ASSUME NEW a \in Prompts,
               \/ Insights!RefuseText(a) \/ Insights!CommitApproval(a)
               \/ \E x \in Texts : Insights!StoreText(a, x)
        PROVE  InsightsBound'
    <3>1. Insights!Return(a) /\ UNCHANGED <<enabled, billed>>
      BY <2>3 DEF Insights!RefuseText, Insights!CommitApproval, Insights!StoreText
    <3>2. /\ text' \in [Texts -> {"none", "unapproved", "approved"}]
          /\ review' \in [Texts -> {"none", "pending", "resolved"}]
      BY <2>3
         DEF Insights!RefuseText, Insights!CommitApproval, Insights!StoreText, InsightsBound
    <3> QED  BY <3>1, <3>2, ReturnBound DEF InsightsBound
  <2>4. ASSUME NEW a \in Prompts, NEW x \in Texts, Insights!BeginApproval(a, x)
        PROVE  InsightsBound'
    BY <2>4
       DEF Insights!BeginApproval, Insights!insights, InsightsInv, InsightsTyped, InsightsBound
  <2> QED  BY <2>1, <2>2, <2>3, <2>4 DEF Insights!AiNext
<1>3. InsightsInv /\ InsightsBound => Insights!AiTypeOK
  <2> SUFFICES ASSUME InsightsInv, InsightsBound PROVE Insights!AiTypeOK  OBVIOUS
  <2>1. /\ used \in Nat /\ wasted \in Nat /\ billed \in Nat /\ billed <= MaxUsed
        /\ Cardinality(Spent) \in Nat /\ billed = used + wasted + Cardinality(Spent)
    BY InsightsCounts DEF InsightsInv, InsightsTyped, InsightsBound
  <2>2. {used, billed, wasted} \subseteq 0..MaxUsed  BY <2>1, PromptsAssumption
  <2> QED  BY <2>2 DEF InsightsInv, InsightsTyped, InsightsBound, Insights!AiTypeOK
<1> QED  BY <1>1, <1>2, <1>3, InsightsInvariance, PTL DEF InsightsSpec

\* What the exports write is theirs, and the calculations keep to their bound.
ExportBound ==
  /\ run.calculation + under_way <= MaxCalculations
  /\ slip_files \subseteq Exports \X SlipFormats /\ onDisk \subseteq Exports \X SlipFormats

\* The types of the payslips as files.
LEMMA ExportTypes == ExportSpec => []Export!ExportTypeOK
<1>1. Export!ExportInit => ExportBound
  BY HeadcountAssumption DEF Export!ExportInit, ExportBound
<1>2. ExportInv /\ ExportBound /\ [Export!ExportNext]_exports => ExportBound'
  <2> SUFFICES ASSUME ExportInv, ExportBound, [Export!ExportNext]_exports
               PROVE  ExportBound'
    OBVIOUS
  <2>1. /\ run \in [status : {"draft", "computed", "pending_approval", "approved"},
                    calculation : Nat]
        /\ run.calculation \in Nat /\ under_way \in Nat
        /\ wanted \in [Exports -> SUBSET SlipFormats]
    BY DEF ExportInv, ExportTyped
  <2>2. CASE UNCHANGED exports  BY <2>2 DEF exports, ExportBound
  <2>3. CASE \/ Export!BeginCalculation \/ Export!Calculate
             \/ Export!GiveUp \/ Export!Decide
    <3>1. UNCHANGED <<slip_files, onDisk>>
      BY <2>3 DEF Export!BeginCalculation, Export!Calculate, Export!GiveUp, Export!Decide,
             Export!requests
    <3>2. CASE Export!BeginCalculation
      BY <2>1, <3>1, <3>2, HeadcountAssumption DEF Export!BeginCalculation, ExportBound
    <3>3. CASE Export!Calculate
      <4>1. run'.calculation = run.calculation + 1 /\ under_way' = under_way - 1
        BY <3>3 DEF Export!Calculate
      <4> QED  BY <2>1, <3>1, <4>1, HeadcountAssumption DEF ExportBound
    <3>4. CASE Export!GiveUp
      BY <2>1, <3>1, <3>4, HeadcountAssumption DEF Export!GiveUp, ExportBound
    <3>5. CASE Export!Decide
      <4>1. run'.calculation = run.calculation /\ under_way' = under_way
        BY <2>1, <3>5 DEF Export!Decide
      <4> QED  BY <3>1, <4>1 DEF ExportBound
    <3> QED  BY <2>3, <3>2, <3>3, <3>4, <3>5
  <2>4. ASSUME NEW x \in Exports,
               \/ Export!ReadRun(x) \/ Export!ListRecords(x) \/ Export!ReadLines(x)
               \/ Export!Abort(x)
        PROVE  ExportBound'
    BY <2>4 DEF Export!ReadRun, Export!ListRecords, Export!ReadLines, Export!Abort, ExportBound
  <2>5. ASSUME NEW x \in Exports, NEW f \in SlipFormats, Export!WriteFile(x, f)
        PROVE  ExportBound'
    BY <2>5 DEF Export!WriteFile, ExportBound
  <2>6. ASSUME NEW x \in Exports, Export!Complete(x) PROVE ExportBound'
    <3>1. wanted[x] \subseteq SlipFormats  BY <2>1
    <3> QED  BY <2>6, <3>1 DEF Export!Complete, ExportBound
  <2> QED  BY <2>2, <2>3, <2>4, <2>5, <2>6 DEF Export!ExportNext
<1>3. ExportInv /\ ExportBound => Export!ExportTypeOK
  <2> SUFFICES ASSUME ExportInv, ExportBound PROVE Export!ExportTypeOK  OBVIOUS
  <2>1. /\ run \in [status : {"draft", "computed", "pending_approval", "approved"},
                    calculation : Nat]
        /\ run.calculation \in Nat /\ under_way \in Nat
    BY DEF ExportInv, ExportTyped
  <2>2. run.calculation \in 0..MaxCalculations /\ under_way \in 0..MaxCalculations
    BY <2>1, HeadcountAssumption DEF ExportBound
  <2>3. run \in [status : Export!Exportable \cup {"draft"}, calculation : 0..MaxCalculations]
    BY <2>1, <2>2 DEF Export!Exportable
  <2>4. ASSUME NEW x \in Exports
        PROVE  /\ wanted[x] \subseteq SlipFormats /\ listed[x] \in 0..MaxCalculations
               /\ \A e \in DOMAIN itemised[x] : itemised[x][e] \in BOOLEAN
    <3>1. wanted[x] \subseteq SlipFormats /\ listed[x] \in Nat /\ itemised[x] \in Itemisations
      BY DEF ExportInv, ExportTyped
    <3>2. listed[x] <= run.calculation  BY DEF ExportInv, ReadSound
    <3>3. listed[x] \in 0..MaxCalculations  BY <2>1, <2>2, <3>1, <3>2, HeadcountAssumption
    <3>4. \A e \in DOMAIN itemised[x] : itemised[x][e] \in BOOLEAN  BY <3>1, LinesCounted
    <3> QED  BY <3>1, <3>3, <3>4
  <2> QED  BY <2>2, <2>3, <2>4 DEF ExportInv, ExportTyped, ExportBound, Export!ExportTypeOK
<1> QED  BY <1>1, <1>2, <1>3, ExportInvariance, PTL DEF ExportSpec
-----------------------------------------------------------------------------
\* Only messages are suppressed, and not more transactions break off than may.
NoticesBound == suppressed \subseteq Messages /\ faults <= MaxFaults

\* The types of the notifications.
LEMMA NoticesTypes == NotificationsSpec => []Notices!NotificationsTypeOK
<1>1. Notices!NotificationsInit => NoticesBound
  BY PostersAssumption DEF Notices!NotificationsInit, NoticesBound
<1>2. NoticesInv /\ NoticesBound /\ [Notices!NotificationsNext]_notices => NoticesBound'
  <2> SUFFICES ASSUME NoticesInv, NoticesBound, [Notices!NotificationsNext]_notices
               PROVE  NoticesBound'
    OBVIOUS
  <2>1. CASE UNCHANGED notices  BY <2>1 DEF notices, NoticesBound
  <2>2. ASSUME NEW p \in Posters,
               \/ \E k \in Messages : Notices!CheckDelivery(p, k)
               \/ \E outcome \in {"ok", "failed"} : Notices!MailTaken(p, outcome)
               \/ \E outcome \in {"failed", "refused"} :
                    Notices!MailFailed(p, outcome) \/ Notices!TextFailed(p, outcome)
               \/ Notices!TextTaken(p)
        PROVE  NoticesBound'
    <3>1. UNCHANGED <<suppressed, faults>>
      BY <2>2 DEF Notices!CheckDelivery, Notices!Begin, Notices!MailTaken, Notices!MailFailed,
             Notices!TextFailed, Notices!TextTaken, Notices!Step, Notices!deliveries
    <3> QED  BY <3>1 DEF NoticesBound
  <2>3. ASSUME NEW p \in Posters, Notices!CommitDelivery(p) PROVE NoticesBound'
    <3>1. posting[p] # "idle" /\ message[p] \in Messages
      BY <2>3 DEF Notices!CommitDelivery, NoticesInv, PostingSound
    <3>2. /\ faults' = faults
          /\ suppressed' = suppressed \/ suppressed' = suppressed \cup {message[p]}
      BY <2>3 DEF Notices!CommitDelivery
    <3> QED  BY <3>1, <3>2 DEF NoticesBound
  <2>4. ASSUME NEW p \in Posters, Notices!RollbackDelivery(p) PROVE NoticesBound'
    <3>1. /\ suppressed' = suppressed
          /\ faults' = faults \/ (faults < MaxFaults /\ faults' = faults + 1)
      BY <2>4 DEF Notices!RollbackDelivery, Notices!deliveries
    <3> QED  BY <3>1, PostersAssumption DEF NoticesInv, NoticesTyped, NoticesBound
  <2> QED  BY <2>1, <2>2, <2>3, <2>4 DEF Notices!NotificationsNext
<1>3. NoticesInv /\ NoticesBound => Notices!NotificationsTypeOK
  BY PostersAssumption DEF NoticesInv, NoticesTyped, NoticesBound, Notices!NotificationsTypeOK
<1> QED  BY <1>1, <1>2, <1>3, NoticesInvariance, PTL DEF NotificationsSpec

\* What is on the disk is an object or an issue, what the registry has is an
\* issue, and what lost its file to a rollback is an object.
FilesBound ==
  /\ disk \subseteq Objects \cup Issues /\ registry \subseteq Issues
  /\ remote \in BOOLEAN /\ torn \subseteq Objects

\* The types of the files.
LEMMA FilesTypes == FilesSpec => []Stores!FilesTypeOK
<1>1. Stores!FilesInit => FilesBound  BY DEF Stores!FilesInit, FilesBound
<1>2. FilesInv /\ FilesBound /\ [Stores!FilesNext]_stores => FilesBound'
  <2> SUFFICES ASSUME FilesInv, FilesBound, [Stores!FilesNext]_stores
               PROVE  FilesBound'
    OBVIOUS
  <2>1. CASE UNCHANGED stores  BY <2>1 DEF stores, FilesBound
  <2>2. CASE Stores!Configure
    <3>1. remote' \in BOOLEAN  BY <2>2, Zenon DEF Stores!Configure
    <3> QED  BY <2>2, <3>1 DEF Stores!Configure, FilesBound
  <2>3. ASSUME NEW c \in Callers,
               \/ \E x \in Objects : Stores!WriteUpload(c, x) \/ Stores!MarkDeleted(c, x)
               \/ \E gone \in BOOLEAN : Stores!Unlink(c, gone)
               \/ \E x \in Issues : Stores!WriteIssue(c, x)
        PROVE  FilesBound'
    <3>1. /\ UNCHANGED <<registry, remote, torn>>
          /\ disk' \subseteq disk \cup Objects \cup Issues
      BY <2>3 DEF Stores!WriteUpload, Stores!MarkDeleted, Stores!Unlink, Stores!WriteIssue,
             Stores!stores
    <3> QED  BY <3>1 DEF FilesBound
  <2>4. ASSUME NEW c \in Callers, NEW accepted \in BOOLEAN,
               NEW s \in {"published_registry", "published_local_registry_failed"},
               Stores!CallRegistry(c, accepted, s)
        PROVE  FilesBound'
    <3>1. handle[c] \in Issues  BY <2>4 DEF Stores!CallRegistry, FilesInv, CallSound
    <3> QED  BY <2>4, <3>1 DEF Stores!CallRegistry, FilesBound
  <2>5. ASSUME NEW c \in Callers,
               Stores!CommitUpload(c) \/ Stores!CommitDelete(c) \/ Stores!CommitIssue(c)
        PROVE  FilesBound'
    BY <2>5 DEF Stores!CommitUpload, Stores!CommitDelete, Stores!CommitIssue, FilesBound
  <2>6. ASSUME NEW c \in Callers, Stores!RollbackFiles(c) PROVE FilesBound'
    <3>1. calling[c] = "unlinked" => handle[c] \in Objects  BY DEF FilesInv, CallSound
    <3>2. UNCHANGED <<disk, registry, remote>>  BY <2>6 DEF Stores!RollbackFiles
    <3>3. torn' = torn \/ (calling[c] = "unlinked" /\ torn' = torn \cup {handle[c]})
      BY <2>6 DEF Stores!RollbackFiles
    <3> QED  BY <3>1, <3>2, <3>3 DEF FilesBound
  <2> QED  BY <2>1, <2>2, <2>3, <2>4, <2>5, <2>6 DEF Stores!FilesNext
<1>3. FilesInv /\ FilesBound => Stores!FilesTypeOK
  BY DEF FilesInv, FilesTyped, FilesBound, Stores!FilesTypeOK
<1> QED  BY <1>1, <1>2, <1>3, FilesInvariance, PTL DEF FilesSpec
-----------------------------------------------------------------------------
\* The payslip and the scores.

\* What has been computed was an input.
LEMMA PayslipTypes == PayslipSpec => []Pay!PayslipTypeOK
<1>1. Pay!PayslipInit => Pay!PayslipTypeOK  BY DEF Pay!PayslipInit, Pay!PayslipTypeOK
<1>2. Pay!PayslipTypeOK /\ [Pay!PayslipNext]_slip => Pay!PayslipTypeOK'
  BY DEF Pay!PayslipNext, Pay!ComputeSlip, Pay!PayslipTypeOK
<1> QED  BY <1>1, <1>2, PTL DEF PayslipSpec

\* The assessments are numbered by counting those that there are.
ScoreInv ==
  /\ Scores!ScoreTypeOK /\ IsFiniteSet(assessments)
  /\ DOMAIN programme = Programmes

\* The cardinality of the scores is that of the library.
LEMMA ScoreCard == \A S : Scores!Cardinality(S) = Cardinality(S)
BY DEF Scores!Cardinality, Cardinality

\* The types of the scores: only who has a record is assessed or enrolled.
LEMMA ScoreTypes == ScoreSpec => []Scores!ScoreTypeOK
<1>1. Scores!ScoreInit => ScoreInv
  BY FS_EmptySet DEF Scores!ScoreInit, Scores!ScoreTypeOK, ScoreInv
<1>2. ScoreInv /\ [Scores!ScoreNext]_scores => ScoreInv'
  <2> SUFFICES ASSUME ScoreInv, [Scores!ScoreNext]_scores PROVE ScoreInv'  OBVIOUS
  <2>1. CASE UNCHANGED scores  BY <2>1 DEF scores, Scores!ScoreTypeOK, ScoreInv
  <2>2. ASSUME NEW b \in Enrolled, Scores!Register(b) PROVE ScoreInv'
    BY <2>2 DEF Scores!Register, Scores!ScoreTypeOK, ScoreInv
  <2>3. ASSUME NEW b \in Enrolled, NEW h \in Households, Scores!Assess(b, h)
        PROVE  ScoreInv'
    <3>1. PICK a : /\ a.visit = Cardinality(assessments) + 1 /\ a.answers = h
                   /\ assessments' = assessments \cup {a}
      BY <2>3, ScoreCard DEF Scores!Assess
    <3>2. UNCHANGED <<record, programme>> /\ Cardinality(assessments) < MaxVisits
      BY <2>3, ScoreCard DEF Scores!Assess
    <3>3. Cardinality(assessments) \in Nat /\ IsFiniteSet(assessments')
      BY <3>1, FS_CardinalityType, FS_AddElement DEF ScoreInv
    <3>4. a.visit \in 1..MaxVisits  BY <3>1, <3>2, <3>3, VisitsAssumption
    <3> QED  BY <3>1, <3>2, <3>3, <3>4 DEF Scores!ScoreTypeOK, ScoreInv
  <2>4. ASSUME NEW b \in Enrolled, NEW p \in Programmes, Scores!Enrol(b, p)
        PROVE  ScoreInv'
    BY <2>4 DEF Scores!Enrol, Scores!ScoreTypeOK, ScoreInv
  <2> QED  BY <2>1, <2>2, <2>3, <2>4 DEF Scores!ScoreNext
<1> QED  BY <1>1, <1>2, PTL DEF ScoreSpec, ScoreInv
-----------------------------------------------------------------------------
\* A block is committed once in a run at most, and a user takes one row, which
\* needs a run that has committed.
SeedBound ==
  /\ seeded \in 0..MaxRuns
  /\ \A b \in 1..12 : /\ commits[b] <= seeded
                      /\ block \in 1..b => commits[b] < seeded
  /\ \A n \in Setup!Names : rows[n].by = "user" => rows[n].count = 1 /\ seeded > 0

\* No row is there more often than the seed was run.
LEMMA CountBounded ==
  ASSUME SeedInv, SeedBound, NEW n \in Setup!Names
  PROVE  /\ rows[n].count \in Nat /\ rows[n].count <= seeded /\ seeded \in Nat
         /\ rows[n].by \in {"seed", "user"}
<1>1. PICK w \in [count : Nat, by : {"seed", "user"}] : w = rows[n]  BY DEF SeedInv, SeedTyped
<1>2. PICK b \in 1..12 : \E row \in Setup!Blocks[b] : row.name = n  BY NamesKnown
<1>3. PICK row \in Setup!Blocks[b] : row.name = n  BY <1>2
<1>4. RowSound(row, b) /\ commits[b] \in Nat /\ commits[b] <= seeded /\ seeded \in Nat
  BY FilesAssumption DEF SeedInv, SeedTyped, SeedBound
<1>5. Times(row, b) <= seeded  BY <1>4 DEF Times
<1>6. CASE w.by = "seed"  BY <1>1, <1>3, <1>4, <1>5, <1>6 DEF RowSound
<1>7. CASE w.by = "user"
  <2>1. w.count = 1 /\ seeded > 0  BY <1>1, <1>7 DEF SeedBound
  <2> QED  BY <1>1, <1>4, <2>1
<1> QED  BY <1>1, <1>6, <1>7

\* A block is committed: what the user has stays.
LEMMA CommitBound ==
  ASSUME SeedInv, SeedBound, Setup!Commit
  PROVE  SeedBound'
<1>1. PICK b \in 1..12 :
        /\ block = b /\ Setup!Write(Setup!Blocks[b])
        /\ commits' = [commits EXCEPT ![b] = @ + 1]
        /\ block' = (b + 1) % 13 /\ seeded' = seeded
  <2>1. block \in 1..12 /\ block' = (block + 1) % 13  BY BlocksLength DEF Setup!Commit
  <2>2. /\ Setup!Write(Setup!Blocks[block]) /\ seeded' = seeded
        /\ commits' = [commits EXCEPT ![block] = @ + 1]
    BY DEF Setup!Commit
  <2> QED  BY <2>1, <2>2
<1>2. /\ block' = IF b = 12 THEN 0 ELSE b + 1
      /\ seeded \in Nat /\ seeded \in 0..MaxRuns
  BY <1>1, FilesAssumption DEF SeedBound
<1>3. \A c \in 1..12 :
        /\ commits[c] \in Nat /\ commits[c] <= seeded
        /\ b <= c => commits[c] < seeded
        /\ commits'[c] = IF c = b THEN commits[b] + 1 ELSE commits[c]
  <2>1. commits \in [1..12 -> Nat]  BY DEF SeedInv, SeedTyped
  <2> QED  BY <1>1, <2>1 DEF SeedBound
<1>4. ASSUME NEW c \in 1..12
      PROVE  commits'[c] <= seeded' /\ (block' \in 1..c => commits'[c] < seeded')
  <2>1. CASE c = b
    <3>1. ~ (block' \in 1..c)  BY <1>2, <2>1
    <3>2. commits'[c] = commits[b] + 1 /\ commits[b] \in Nat /\ commits[b] < seeded
      BY <1>3, <2>1
    <3> QED  BY <1>1, <1>2, <3>1, <3>2
  <2>2. CASE c # b
    <3>1. commits'[c] = commits[c] /\ commits[c] <= seeded  BY <1>3, <2>2
    <3>2. block' \in 1..c => b <= c  BY <1>2
    <3> QED  BY <1>1, <1>3, <3>1, <3>2
  <2> QED  BY <2>1, <2>2
<1>5. ASSUME NEW n \in Setup!Names, rows'[n].by = "user"
      PROVE  rows'[n].count = 1 /\ seeded' > 0
  <2>1. rows'[n] = rows[n]
    <3>1. CASE Home(n) # b  BY <1>1, <3>1, CommitRows
    <3>2. CASE Home(n) = b
      <4>1. PICK row \in Setup!Blocks[b] : row.name = n  BY <3>2, NamesKnown
      <4>2. rows'[n] = Setup!Written(row)  BY <1>1, <4>1, CommitRows
      <4>3. ~ Setup!Inserted(row)
        <5>1. SUFFICES ASSUME Setup!Inserted(row) PROVE Setup!Written(row).by = "seed"
          BY <1>5, <4>2
        <5> QED  BY <5>1 DEF Setup!Written
      <4> QED  BY <4>1, <4>2, <4>3 DEF Setup!Written
    <3> QED  BY <3>1, <3>2
  <2> QED  BY <1>1, <1>5, <2>1 DEF SeedBound
<1> QED  BY <1>1, <1>2, <1>4, <1>5 DEF SeedBound

\* The row of the first user is one of the seed's.
LEMMA AdminKnown == "admin" \in Setup!Names
<1>1. Setup!Keep({"admin", "finance", "hr"}, {"A"}) \subseteq Setup!Blocks[2]
  BY DEF Setup!Blocks, Setup!DesignPartner
<1> QED  BY <1>1, NamesKept

\* A user takes a row, after a run that has committed the first user.
LEMMA TakeBound ==
  ASSUME SeedInv, SeedBound, NEW t \in Setup!Taken, Setup!Take(t)
  PROVE  SeedBound'
<1>1. /\ rows["admin"].count = 1 /\ rows' = [rows EXCEPT ![t] = [count |-> 1, by |-> "user"]]
      /\ UNCHANGED <<block, commits, seeded>>
  BY DEF Setup!Take
<1>2. seeded > 0  BY <1>1, AdminKnown, CountBounded
<1>3. ASSUME NEW n \in Setup!Names, rows'[n].by = "user" PROVE rows'[n].count = 1
  <2>1. DOMAIN rows = Setup!Names  BY DEF SeedInv, SeedTyped
  <2>2. CASE n = t
    <3>1. rows'[n] = [count |-> 1, by |-> "user"]  BY <1>1, <2>1, <2>2
    <3> QED  BY <3>1
  <2>3. CASE n # t
    <3>1. rows'[n] = rows[n]  BY <1>1, <2>1, <2>3
    <3> QED  BY <1>3, <3>1 DEF SeedBound
  <2> QED  BY <2>2, <2>3
<1> QED  BY <1>1, <1>2, <1>3 DEF SeedBound

\* The types of bringing a database up.
LEMMA SetUpTypes == SeedingSpec => []Setup!SeedingTypeOK
<1>1. Setup!SeedingInit => SeedBound
  <2> SUFFICES ASSUME Setup!SeedingInit PROVE SeedBound  OBVIOUS
  <2>1. /\ rows = [n \in Setup!Names |-> [count |-> 0, by |-> "seed"]] /\ seeded = 0
        /\ block = 0 /\ commits = [b \in 1..12 |-> 0]
    BY BlocksLength DEF Setup!SeedingInit
  <2>2. \A n \in Setup!Names : rows[n].by = "seed"  BY <2>1
  <2>3. seeded \in 0..MaxRuns  BY <2>1, FilesAssumption
  <2> QED  BY <2>1, <2>2, <2>3 DEF SeedBound
<1>2. SeedInv /\ SeedBound /\ [Setup!SeedingNext]_setup => SeedBound'
  <2> SUFFICES ASSUME SeedInv, SeedBound, [Setup!SeedingNext]_setup PROVE SeedBound'  OBVIOUS
  <2>1. CASE UNCHANGED <<rows, commits, seeded>> /\ block' \in {block, 0}  BY <2>1 DEF SeedBound
  <2>2. CASE \/ UNCHANGED setup \/ Setup!Deploy \/ Setup!Abandon
             \/ \E r \in Migrators :
                  Setup!List(r) \/ Setup!Exists(r) \/ Setup!Apply(r) \/ Setup!Exit(r)
    BY <2>1, <2>2 DEF setup, Setup!Deploy, Setup!Abandon, Setup!migrating, Setup!List,
           Setup!Exists, Setup!Apply, Setup!Exit, Setup!Run
  <2>3. CASE Setup!StartSeed
    <3>1. seeded < MaxRuns /\ block' = 1 /\ seeded' = seeded + 1 /\ UNCHANGED <<rows, commits>>
      BY <2>3 DEF Setup!StartSeed
    <3>2. \A b \in 1..12 : commits[b] \in Nat /\ commits[b] <= seeded
      BY DEF SeedInv, SeedTyped, SeedBound
    <3>3. seeded \in Nat /\ seeded' \in 0..MaxRuns /\ seeded' > 0
      BY <3>1, FilesAssumption DEF SeedBound
    <3>4. \A b \in 1..12 : commits'[b] < seeded' /\ commits'[b] <= seeded'  BY <3>1, <3>2, <3>3
    <3> QED  BY <3>1, <3>3, <3>4 DEF SeedBound
  <2> QED  BY <2>2, <2>3, CommitBound, TakeBound DEF Setup!SeedingNext
<1>3. MigrateInv /\ SeedInv /\ SeedBound => Setup!SeedingTypeOK
  <2> SUFFICES ASSUME MigrateInv, SeedInv, SeedBound PROVE Setup!SeedingTypeOK  OBVIOUS
  <2>1. release \in 0..MaxFiles /\ applied \subseteq 1..MaxFiles
    BY DEF MigrateInv, MigrateTyped
  <2>2. effects \in [1..MaxFiles -> 0..2]
    <3>1. \A m \in 1..MaxFiles : effects[m] \in 0..2  BY DEF MigrateInv, Setup!MigratedOnce
    <3> QED  BY <3>1 DEF MigrateInv, MigrateTyped
  <2>3. \A r \in Migrators :
          runner[r].at \in 0..(MaxFiles + 1) /\ runner[r].listed \in 0..MaxFiles
    BY DEF MigrateInv, MigrateTyped
  <2>4. ASSUME NEW n \in Setup!Names
        PROVE  rows[n].count \in 0..MaxRuns /\ rows[n].by \in {"seed", "user"}
    BY CountBounded, FilesAssumption DEF SeedBound
  <2>5. block \in 0..Len(Setup!Blocks)  BY BlocksLength DEF SeedInv, SeedTyped
  <2> QED
    BY <2>1, <2>2, <2>3, <2>4, <2>5 DEF SeedInv, SeedTyped, SeedBound, Setup!SeedingTypeOK
<1> QED  BY <1>1, <1>2, <1>3, SeedingInvariance, PTL DEF SeedingSpec
-----------------------------------------------------------------------------
\* TypeOK: in every behaviour of the back office, whichever part runs.
THEOREM TypeCorrectness == Spec => []TypeOK
<1>1. Spec => [](/\ LeaveTypeOK /\ Learn!LearningTypeOK /\ Export!ExportTypeOK
                 /\ Pay!PayslipTypeOK /\ Scores!ScoreTypeOK)
  BY Parts, LeaveTypeCorrectness, LearningTyped, ExportTypes, PayslipTypes, ScoreTypes, PTL
<1>2. Spec => [](/\ Insights!AiTypeOK /\ Notices!NotificationsTypeOK
                 /\ Stores!FilesTypeOK /\ Setup!SeedingTypeOK)
  BY Parts, InsightsTypes, NoticesTypes, FilesTypes, SetUpTypes, PTL
<1>3. OnboardInv => Onboard!OnboardingTypeOK  BY DEF OnboardInv
<1>4. BookInv => Expense!ExpensesTypeOK  BY DEF BookInv
<1>5. EraseInv => Erase!ErasureTypeOK  BY DEF EraseInv
<1>6. QueueInv => Reports!QueueTypeOK
  <2> SUFFICES ASSUME QueueInv PROVE Reports!QueueTypeOK  OBVIOUS
  <2>1. QueueTyped  BY DEF QueueInv
  <2>2. {created[i] : i \in 1..Len(created)} \subseteq Jobs
    <3>1. \A i \in 1..Len(created) : created[i] \in Jobs  BY <2>1 DEF QueueTyped
    <3> QED  BY <3>1
  <2> QED  BY <2>1, <2>2 DEF QueueTyped, Reports!QueueTypeOK
<1>7. GateInv => Gate!GatewayTypeOK  BY DEF GateInv, GateTyped, Gate!GatewayTypeOK, Gate!Times
<1>8. TenancyInv => Tenants!TenancyTypeOK
  BY DEF TenancyInv, TenancyTyped, Tenants!TenancyTypeOK
<1>9. Spec => [](/\ Onboard!OnboardingTypeOK /\ Expense!ExpensesTypeOK
                 /\ Erase!ErasureTypeOK /\ Tenants!TenancyTypeOK)
  BY Parts, OnboardInvariance, BookInvariance, EraseInvariance, TenancyInvariance, <1>3, <1>4,
     <1>5, <1>8, PTL
<1>10. Spec => [](/\ Reports!QueueTypeOK /\ Gate!GatewayTypeOK /\ Work!WorkforceTypeOK)
  BY Parts, QueueInvariance, GatewayInvariance, WorkInvariance, WorkTypes, <1>6, <1>7, PTL
<1>11. /\ LeaveTypeOK /\ Learn!LearningTypeOK /\ Export!ExportTypeOK
       /\ Pay!PayslipTypeOK /\ Scores!ScoreTypeOK
       /\ Insights!AiTypeOK /\ Notices!NotificationsTypeOK
       /\ Stores!FilesTypeOK /\ Setup!SeedingTypeOK
       /\ Onboard!OnboardingTypeOK /\ Expense!ExpensesTypeOK
       /\ Erase!ErasureTypeOK /\ Tenants!TenancyTypeOK
       /\ Reports!QueueTypeOK /\ Gate!GatewayTypeOK /\ Work!WorkforceTypeOK
       => TypeOK
  BY DEF TypeOK
<1> QED  BY <1>1, <1>2, <1>9, <1>10, <1>11, PTL
-----------------------------------------------------------------------------
\* Folds.  A fold over a list is a recursive function on the parts of its
\* domain.  That there is one, and what it comes to after each element, is an
\* induction over the numbers up to the length of the list, which is stated
\* with a set, since the provers cannot be given a formula.

\* Of some numbers one is the smallest.
LEMMA SmallestIs ==
  ASSUME NEW F, F \subseteq Nat, F # {}
  PROVE  \E k \in F : \A j \in F : k <= j
<1>1. PICK k \in F : \A j \in F : ~ (<<j, k>> \in OpToRel(<, Nat))
  BY NatLessThanWellFounded, WFMin
<1>2. \A j \in F : ~ (j < k)  BY <1>1 DEF OpToRel
<1> QED  BY <1>2

\* What has 0, and each number up to n if it has the one before, has them all.
LEMMA Climb ==
  ASSUME NEW n \in Nat, NEW S, 0 \in S, \A k \in 1..n : k - 1 \in S => k \in S
  PROVE  0..n \subseteq S
<1> DEFINE F == (0..n) \ S
<1> SUFFICES ASSUME F # {} PROVE FALSE  OBVIOUS
<1>1. PICK k \in F : \A j \in F : k <= j
  <2>1. F \subseteq Nat  OBVIOUS
  <2> HIDE DEF F
  <2> QED  BY <2>1, SmallestIs
<1>2. k \in 1..n /\ k - 1 \in 0..n  OBVIOUS
<1> QED  BY <1>1, <1>2

\* The largest of some of the first n with n is n.
LEMMA LargestIs ==
  ASSUME NEW n \in Nat, NEW s, s \subseteq 1..n, n \in s
  PROVE  Pay!Max(s) = n
<1>1. \A x \in s : (\A y \in s : x >= y) => x = n  OBVIOUS
<1>2. \A y \in s : n >= y  OBVIOUS
<1> QED  BY <1>1, <1>2, Zenon DEF Pay!Max

\* The largest of some of the first n is one of them.
LEMMA LargestIn ==
  ASSUME NEW n \in Nat, NEW s, s \subseteq 1..n, s # {}
  PROVE  Pay!Max(s) \in s
<1> DEFINE S == {k \in 0..n : s \subseteq 1..k => Pay!Max(s) \in s}
<1>1. 0 \in S
  <2>1. 1..0 = {} /\ 0 \in 0..n  OBVIOUS
  <2> QED  BY <2>1
<1>2. ASSUME NEW k \in 1..n, k - 1 \in S PROVE k \in S
  <2>1. CASE k \in s /\ s \subseteq 1..k
    <3>1. k \in Nat  OBVIOUS
    <3>2. Pay!Max(s) = k  BY <2>1, <3>1, LargestIs
    <3> QED  BY <2>1, <3>2
  <2>2. CASE k \notin s /\ s \subseteq 1..k
    <3>1. s \subseteq 1..(k - 1)  BY <2>2
    <3> QED  BY <1>2, <3>1
  <2> QED  BY <2>1, <2>2
<1>3. 0..n \subseteq S
  <2> HIDE DEF S
  <2> QED  BY <1>1, <1>2, Climb
<1> QED  BY <1>3

\* f folds the function adding over the first n elements.
Folded(f, n, base, adding) ==
  \A s \in SUBSET (1..n) :
    f[s] = IF s = {} THEN base ELSE adding[<<Pay!Max(s), f[s \ {Pay!Max(s)}]>>]

\* There is such a fold, with values of A.
LEMMA FoldExists ==
  ASSUME NEW n \in Nat, NEW A, NEW base \in A, NEW adding \in [(1..n) \X A -> A]
  PROVE  \E f \in [SUBSET (1..n) -> A] : Folded(f, n, base, adding)
<1> DEFINE has(k) == \E f \in [SUBSET (1..k) -> A] : Folded(f, k, base, adding)
           S == {k \in 0..n : has(k)}
<1>1. 0 \in S
  <2> DEFINE f == [s \in SUBSET (1..0) |-> base]
  <2>1. \A s \in SUBSET (1..0) : s = {}  OBVIOUS
  <2>2. f \in [SUBSET (1..0) -> A] /\ Folded(f, 0, base, adding)  BY <2>1 DEF Folded
  <2> QED  BY <2>2
<1>2. ASSUME NEW k \in 1..n, k - 1 \in S PROVE k \in S
  <2>1. k \in Nat  OBVIOUS
  <2>2. PICK g \in [SUBSET (1..(k - 1)) -> A] : Folded(g, k - 1, base, adding)  BY <1>2
  <2> DEFINE f == [s \in SUBSET (1..k) |->
                     IF k \in s THEN adding[<<k, g[s \ {k}]>>] ELSE g[s]]
  <2>3. ASSUME NEW s \in SUBSET (1..k)
        PROVE  /\ f[s] \in A
               /\ f[s] = IF s = {} THEN base
                         ELSE adding[<<Pay!Max(s), f[s \ {Pay!Max(s)}]>>]
    <3>1. CASE k \in s
      <4>1. Pay!Max(s) = k
        <5>1. k \in Nat /\ s \subseteq 1..k  BY <2>1
        <5> QED  BY <3>1, <5>1, LargestIs
      <4>2. s \ {k} \in SUBSET (1..(k - 1)) /\ s \ {k} \in SUBSET (1..k)  BY <2>1
      <4>3. f[s \ {k}] = g[s \ {k}] /\ g[s \ {k}] \in A  BY <4>2, <2>2
      <4>4. f[s] = adding[<<k, g[s \ {k}]>>] /\ adding[<<k, g[s \ {k}]>>] \in A
        BY <2>1, <3>1, <4>3
      <4> QED  BY <3>1, <4>1, <4>3, <4>4
    <3>2. CASE k \notin s
      <4>1. s \in SUBSET (1..(k - 1))  BY <2>1, <3>2
      <4>2. f[s] = g[s] /\ g[s] \in A  BY <2>2, <3>2, <4>1
      <4>3. g[s] = IF s = {} THEN base ELSE adding[<<Pay!Max(s), g[s \ {Pay!Max(s)}]>>]
        BY <2>2, <4>1 DEF Folded
      <4>4. f[s \ {Pay!Max(s)}] = g[s \ {Pay!Max(s)}]  BY <3>2, <4>1
      <4> QED  BY <4>2, <4>3, <4>4
    <3> QED  BY <3>1, <3>2
  <2>4. f \in [SUBSET (1..k) -> A] /\ Folded(f, k, base, adding)
    <3> HIDE DEF f
    <3>1. Folded(f, k, base, adding)  BY <2>3 DEF Folded
    <3>2. f \in [SUBSET (1..k) -> A]  BY <2>3 DEF f
    <3> QED  BY <3>1, <3>2
  <2>5. has(k)
    <3> HIDE DEF f
    <3> QED  BY <2>4
  <2> HIDE DEF has
  <2> QED  BY <2>5
<1>3. 0..n \subseteq S
  <2> HIDE DEF S
  <2> QED  BY <1>1, <1>2, Climb
<1>4. n \in S
  <2> HIDE DEF S
  <2> QED  BY <1>3
<1> QED  BY <1>4
-----------------------------------------------------------------------------
\* The function of Sum, and that of MarginalPayeSs, whose step is Taxed.
Totals(a, f) ==
  f = [s \in SUBSET DOMAIN a |->
         IF s = {} THEN 0 ELSE f[s \ {Pay!Max(s)}] + a[Pay!Max(s)]]

Taxed(acc, band) ==
  LET width == Pay!BandWidth(acc.left, band)
  IN IF acc.left <= 0 \/ width <= 0 THEN acc
     ELSE [left |-> acc.left - width,
           tax |-> acc.tax + Pay!MulRate(width, band.rate)]

Taxes(income, bands, f) ==
  f = [s \in SUBSET DOMAIN bands |->
         IF s = {} THEN [left |-> income, tax |-> 0]
         ELSE Taxed(f[s \ {Pay!Max(s)}], bands[Pay!Max(s)])]

\* They are those that the library's fold chooses.
LEMMA TotalsIs == \A a : Pay!Sum(a) = (CHOOSE f : Totals(a, f))[DOMAIN a]
BY Zenon DEF Pay!Sum, Pay!FoldLeft, Pay!MapThenFoldSet, Totals

\* and so is the tax.
LEMMA TaxesIs == \A income, bands :
  Pay!MarginalPayeSs(income, bands)
    = (CHOOSE f : Taxes(income, bands, f))[DOMAIN bands].tax
BY Zenon DEF Pay!MarginalPayeSs, Pay!FoldLeft, Pay!MapThenFoldSet, Taxes, Taxed

\* A sum is what adding up comes to: p[k] is the sum of the first k.
LEMMA SumSteps ==
  ASSUME NEW n \in Nat, NEW a \in [1..n -> Int]
  PROVE  \E p \in [0..n -> Int] :
           /\ p[0] = 0 /\ (\A k \in 1..n : p[k] = p[k - 1] + a[k])
           /\ Pay!Sum(a) = p[n]
<1> DEFINE adding == [x \in (1..n) \X Int |-> x[2] + a[x[1]]]
           g == CHOOSE f : Totals(a, f)
           p == [k \in 0..n |-> g[1..k]]
<1>1. DOMAIN a = 1..n /\ adding \in [(1..n) \X Int -> Int]  OBVIOUS
<1>2. PICK f \in [SUBSET (1..n) -> Int] : Folded(f, n, 0, adding)
  <2>1. adding \in [(1..n) \X Int -> Int] /\ 0 \in Int  OBVIOUS
  <2> HIDE DEF adding
  <2> QED  BY <2>1, FoldExists
<1>3. Totals(a, f)
  <2>1. ASSUME NEW s \in SUBSET (1..n), s # {}
        PROVE  f[s] = f[s \ {Pay!Max(s)}] + a[Pay!Max(s)]
    <3>1. Pay!Max(s) \in 1..n /\ s \ {Pay!Max(s)} \in SUBSET (1..n)  BY <2>1, LargestIn
    <3>2. f[s] = adding[<<Pay!Max(s), f[s \ {Pay!Max(s)}]>>]  BY <1>2, <2>1 DEF Folded
    <3> QED  BY <3>1, <3>2
  <2>2. f[{}] = 0  BY <1>2 DEF Folded
  <2> QED  BY <1>1, <2>1, <2>2 DEF Totals
<1>4. Totals(a, g)  BY <1>3, Zenon
<1>5. Pay!Sum(a) = g[1..n]  BY <1>1, TotalsIs
<1> HIDE DEF g
<1>6. g[1..0] = 0
  <2>1. 1..0 = {} /\ {} \in SUBSET (1..n)  OBVIOUS
  <2> QED  BY <1>1, <1>4, <2>1 DEF Totals
<1>7. ASSUME NEW k \in 1..n PROVE g[1..k] = g[1..(k - 1)] + a[k]
  <2>1. 1..k \in SUBSET (1..n) /\ k \in 1..k /\ k \in Nat  OBVIOUS
  <2>2. (1..k) \ {k} = 1..(k - 1)  OBVIOUS
  <2>3. Pay!Max(1..k) = k  BY <2>1, LargestIs
  <2> QED  BY <1>1, <1>4, <2>1, <2>2, <2>3 DEF Totals
<1>8. \A k \in 0..n : g[1..k] \in Int
  <2> DEFINE S == {k \in 0..n : g[1..k] \in Int}
  <2>1. 0 \in S  BY <1>6
  <2>2. \A k \in 1..n : k - 1 \in S => k \in S  BY <1>7
  <2> HIDE DEF S
  <2>3. 0..n \subseteq S  BY <2>1, <2>2, Climb
  <2> QED  BY <2>3 DEF S
<1>9. p \in [0..n -> Int] /\ p[0] = 0 /\ Pay!Sum(a) = p[n]  BY <1>5, <1>6, <1>8
<1>10. \A k \in 1..n : p[k] = p[k - 1] + a[k]  BY <1>7
<1> QED  BY <1>9, <1>10
-----------------------------------------------------------------------------
\* Payslips.  The tables of bands that a payroll may have cover all incomes,
\* one band after the other, and have rates of two decimals, since the third
\* is cut off.

BandRecord == [lower : Nat, upper : Nat \cup {NoLimit}, rate : Nat, fixed : Int]
Table(bands) ==
  /\ bands \in Seq(BandRecord)
  /\ bands # <<>> /\ bands[1].lower = 0
  /\ \A i \in DOMAIN bands : /\ bands[i].rate % 10 = 0
                             /\ bands[i].upper = NoLimit <=> i = Len(bands)
  /\ \A i \in 1 .. Len(bands) - 1 : /\ bands[i].lower < bands[i].upper
                                    /\ bands[i].upper = bands[i + 1].lower

\* What of the income falls into the band b.
Part(income, b) ==
  Pay!Most(0, (IF b.upper = NoLimit THEN income ELSE Pay!Least(income, b.upper))
                - b.lower)

\* What the bands of a table are made of.
LEMMA BandTypes ==
  ASSUME NEW bands, Table(bands), NEW i \in DOMAIN bands
  PROVE  /\ bands[i].lower \in Nat /\ bands[i].rate \in Nat /\ bands[i].fixed \in Int
         /\ bands[i].upper \in Nat \/ (bands[i].upper = NoLimit /\ i = Len(bands))
         /\ Len(bands) \in Nat /\ Len(bands) > 0 /\ DOMAIN bands = 1..Len(bands)
<1>1. bands \in Seq(BandRecord) /\ bands # <<>>
          /\ (bands[i].upper = NoLimit <=> i = Len(bands))
  BY DEF Table
<1>2. bands[i] \in BandRecord /\ Len(bands) \in Nat /\ Len(bands) > 0
          /\ DOMAIN bands = 1..Len(bands)
  BY <1>1
<1> QED  BY <1>1, <1>2 DEF BandRecord

\* A part of an income is an amount,
LEMMA PartType ==
  ASSUME NEW bands, Table(bands), NEW i \in DOMAIN bands, NEW income \in Nat
  PROVE  Part(income, bands[i]) \in Nat
BY BandTypes, NoLimitAssumption DEF Part, Pay!Most, Pay!Least

\* A rate is applied to half a cent.
LEMMA RateNear ==
  ASSUME NEW w \in Nat, NEW r \in Nat, r % 10 = 0
  PROVE  /\ Pay!MulRate(w, r) \in Nat /\ w * r \in Nat
         /\ Pay!Near(Pay!MulRate(w, r), w * r, 1)
<1> DEFINE t == r \div 10
           q == w * t
           h == q \div 100
<1>1. t \in Nat /\ r = 10 * t  OBVIOUS
<1>2. q \in Nat
  <2> HIDE DEF t
  <2> QED  BY <1>1
<1>3. w * r = 10 * q
  <2> HIDE DEF t
  <2> QED  BY <1>1
<1> HIDE DEF q
<1>4. h \in Nat /\ 100 * h <= q /\ q <= 100 * h + 99  BY <1>2
<1> HIDE DEF h
<1> DEFINE m == (h + 50) \div 100
<1>5. m \in Nat /\ 100 * m <= h + 50 /\ h + 50 <= 100 * m + 99  BY <1>4
<1>6. Pay!MulRate(w, r) = m  BY DEF Pay!MulRate, Pay!RoundHalfUp, q, h
<1> HIDE DEF m, t
<1>7. Pay!Near(m, 10 * q, 1)  BY <1>2, <1>4, <1>5 DEF Pay!Near, Pay!Whole
<1> QED  BY <1>2, <1>3, <1>5, <1>6, <1>7

\* What a table of bands makes of an income is what going up the bands comes to:
\* p[k] is what is left and what is due after the first k.
LEMMA TaxSteps ==
  ASSUME NEW bands, Table(bands), NEW income \in Int
  PROVE  \E p \in [0..Len(bands) -> [left : Int, tax : Int]] :
           /\ p[0] = [left |-> income, tax |-> 0]
           /\ \A k \in DOMAIN bands : p[k] = Taxed(p[k - 1], bands[k])
           /\ Pay!MarginalPayeSs(income, bands) = p[Len(bands)].tax
<1> DEFINE n == Len(bands)
           A == [left : Int, tax : Int]
           base == [left |-> income, tax |-> 0]
           adding == [x \in (1..n) \X A |-> Taxed(x[2], bands[x[1]])]
           g == CHOOSE f : Taxes(income, bands, f)
           p == [k \in 0..n |-> g[1..k]]
<1>1. DOMAIN bands = 1..n /\ n \in Nat /\ n > 0  BY BandTypes DEF Table
<1>2. ASSUME NEW k \in 1..n, NEW acc \in A PROVE Taxed(acc, bands[k]) \in A
  <2>1. /\ bands[k].lower \in Nat /\ bands[k].rate \in Nat
        /\ bands[k].upper \in Nat \/ bands[k].upper = NoLimit
    BY <1>1, BandTypes
  <2>2. acc.left \in Int /\ acc.tax \in Int /\ Pay!BandWidth(acc.left, bands[k]) \in Int
    BY <2>1, NoLimitAssumption DEF Pay!BandWidth, Pay!Least, Pay!Most
  <2>3. ASSUME Pay!BandWidth(acc.left, bands[k]) > 0
        PROVE  Pay!MulRate(Pay!BandWidth(acc.left, bands[k]), bands[k].rate) \in Int
    <3>1. bands[k].rate % 10 = 0  BY <1>1 DEF Table
    <3>2. Pay!BandWidth(acc.left, bands[k]) \in Nat  BY <2>2, <2>3
    <3>3. Pay!MulRate(Pay!BandWidth(acc.left, bands[k]), bands[k].rate) \in Nat
      BY <2>1, <3>1, <3>2, RateNear
    <3> QED  BY <3>3
  <2> QED  BY <2>2, <2>3 DEF Taxed
<1>3. PICK f \in [SUBSET (1..n) -> A] : Folded(f, n, base, adding)
  <2>1. adding \in [(1..n) \X A -> A] /\ base \in A  BY <1>2
  <2> HIDE DEF adding, A, base
  <2> QED  BY <1>1, <2>1, FoldExists
<1> HIDE DEF A
<1>4. Taxes(income, bands, f)
  <2>1. ASSUME NEW s \in SUBSET (1..n), s # {}
        PROVE  f[s] = Taxed(f[s \ {Pay!Max(s)}], bands[Pay!Max(s)])
    <3>1. Pay!Max(s) \in 1..n /\ s \ {Pay!Max(s)} \in SUBSET (1..n)  BY <1>1, <2>1, LargestIn
    <3>2. f[s] = adding[<<Pay!Max(s), f[s \ {Pay!Max(s)}]>>]  BY <1>3, <2>1 DEF Folded
    <3> QED  BY <3>1, <3>2
  <2>2. f[{}] = base  BY <1>3 DEF Folded
  <2> QED  BY <1>1, <2>1, <2>2 DEF Taxes
<1>5. Taxes(income, bands, g)  BY <1>4, Zenon
<1>6. Pay!MarginalPayeSs(income, bands) = g[1..n].tax  BY <1>1, TaxesIs
<1> HIDE DEF g
<1>7. g[1..0] = base
  <2>1. 1..0 = {} /\ {} \in SUBSET (1..n)  OBVIOUS
  <2> QED  BY <1>1, <1>5, <2>1 DEF Taxes
<1>8. ASSUME NEW k \in 1..n PROVE g[1..k] = Taxed(g[1..(k - 1)], bands[k])
  <2>1. 1..k \in SUBSET (1..n) /\ k \in 1..k /\ k \in Nat  BY <1>1
  <2>2. (1..k) \ {k} = 1..(k - 1)  BY <1>1
  <2>3. Pay!Max(1..k) = k  BY <2>1, LargestIs
  <2> QED  BY <1>1, <1>5, <2>1, <2>2, <2>3 DEF Taxes
<1>9. \A k \in 0..n : g[1..k] \in A
  <2> DEFINE S == {k \in 0..n : g[1..k] \in A}
  <2>1. 0 \in S  BY <1>1, <1>7 DEF A
  <2>2. \A k \in 1..n : k - 1 \in S => k \in S  BY <1>1, <1>2, <1>8
  <2> HIDE DEF S
  <2>3. 0..n \subseteq S  BY <1>1, <2>1, <2>2, Climb
  <2> QED  BY <2>3 DEF S
<1>10. p \in [0..n -> A] /\ p[0] = base /\ Pay!MarginalPayeSs(income, bands) = p[n].tax
  BY <1>1, <1>6, <1>7, <1>9
<1>11. \A k \in 1..n : p[k] = Taxed(p[k - 1], bands[k])  BY <1>1, <1>8
<1> QED  BY <1>1, <1>10, <1>11 DEF A

\* The exact tax, part by part.
LEMMA ExactSteps ==
  ASSUME NEW bands, Table(bands), NEW income \in Nat
  PROVE  \E p \in [0..Len(bands) -> Int] :
           /\ p[0] = 0
           /\ \A k \in DOMAIN bands :
                p[k] = p[k - 1] + Part(income, bands[k]) * bands[k].rate
           /\ Pay!Exact(income, bands) = p[Len(bands)]
<1> DEFINE n == Len(bands)
           a == [i \in DOMAIN bands |-> Part(income, bands[i]) * bands[i].rate]
<1>1. DOMAIN bands = 1..n /\ n \in Nat  BY BandTypes DEF Table
<1>2. Pay!Exact(income, bands) = Pay!Sum(a)  BY DEF Pay!Exact, Part
<1>3. a \in [1..n -> Int]
  <2>1. ASSUME NEW i \in DOMAIN bands
        PROVE  Part(income, bands[i]) * bands[i].rate \in Int
    <3>1. Part(income, bands[i]) \in Nat /\ bands[i].rate \in Nat  BY PartType, BandTypes
    <3> QED  BY <3>1
  <2> QED  BY <1>1, <2>1
<1>4. PICK p \in [0..n -> Int] :
        /\ p[0] = 0 /\ (\A k \in 1..n : p[k] = p[k - 1] + a[k])
        /\ Pay!Sum(a) = p[n]
  <2> HIDE DEF a
  <2> QED  BY <1>1, <1>3, SumSteps
<1> QED  BY <1>1, <1>2, <1>4

\* Differences add up.
LEMMA NearAdds ==
  ASSUME NEW a \in Int, NEW x \in Int, NEW h \in Nat, Pay!Near(a, x, h),
         NEW b \in Int, NEW y \in Int, NEW i \in Nat, Pay!Near(b, y, i)
  PROVE  Pay!Near(a + b, x + y, h + i)
BY DEF Pay!Near, Pay!Whole

\* Both go up the bands together: what is left is what lies above the band, and
\* what is due differs by half a cent for each band.
LEMMA MarginalNear ==
  ASSUME NEW bands, Table(bands), NEW income \in Nat
  PROVE  /\ Pay!MarginalPayeSs(income, bands) \in Int
         /\ Pay!Exact(income, bands) \in Int
         /\ Pay!Near(Pay!MarginalPayeSs(income, bands), Pay!Exact(income, bands),
                     Len(bands))
<1> DEFINE n == Len(bands)
           above(k) == IF k = n THEN 0 ELSE Pay!Most(0, income - bands[k + 1].lower)
<1>1. DOMAIN bands = 1..n /\ n \in Nat /\ n > 0  BY BandTypes DEF Table
<1>2. PICK q \in [0..n -> [left : Int, tax : Int]] :
        /\ q[0] = [left |-> income, tax |-> 0]
        /\ \A k \in 1..n : q[k] = Taxed(q[k - 1], bands[k])
        /\ Pay!MarginalPayeSs(income, bands) = q[n].tax
  <2>1. income \in Int  OBVIOUS
  <2> QED  BY <1>1, <2>1, TaxSteps
<1>3. PICK p \in [0..n -> Int] :
        /\ p[0] = 0
        /\ \A k \in 1..n : p[k] = p[k - 1] + Part(income, bands[k]) * bands[k].rate
        /\ Pay!Exact(income, bands) = p[n]
  BY <1>1, ExactSteps
<1> DEFINE good(k) == q[k].left = above(k) /\ Pay!Near(q[k].tax, p[k], k)
           S == {k \in 0..n : good(k)}
<1>4. 0 \in S
  <2>1. above(0) = income  BY <1>1, BandTypes DEF Table, Pay!Most
  <2> QED  BY <1>1, <1>2, <1>3, <2>1 DEF Pay!Near, Pay!Whole
<1>5. ASSUME NEW k \in 1..n, k - 1 \in S PROVE k \in S
  <2> DEFINE b == bands[k]
             w == Part(income, b)
             left == q[k - 1].left
  <2>1. /\ b.lower \in Nat /\ b.rate \in Nat /\ b.rate % 10 = 0
        /\ b.upper \in Nat \/ (b.upper = NoLimit /\ k = n)
        /\ w \in Nat
    BY <1>1, BandTypes, PartType DEF Table
  <2>2. k # n => b.upper \in Nat /\ b.upper > b.lower /\ b.upper = bands[k + 1].lower
    <3>1. k # n => k \in 1 .. Len(bands) - 1 /\ b.upper # NoLimit  BY <1>1 DEF Table
    <3> QED  BY <2>1, <3>1 DEF Table
  <2>3. left = Pay!Most(0, income - b.lower)  BY <1>1, <1>5
  <2>4. left \in Nat /\ Pay!BandWidth(left, b) = w
    BY <2>1, <2>2, <2>3, NoLimitAssumption DEF Pay!BandWidth, Part, Pay!Most, Pay!Least
  <2>5. left - w = above(k)
    <3>1. CASE k = n
      <4>1. b.upper = NoLimit  BY <1>1, <3>1 DEF Table
      <4>2. w = Pay!Most(0, income - b.lower)  BY <4>1 DEF Part
      <4> HIDE DEF w, left
      <4> QED  BY <2>1, <2>3, <2>4, <3>1, <4>2
    <3>2. CASE k # n
      <4>1. above(k) = Pay!Most(0, income - b.upper)  BY <2>2, <3>2
      <4>2. b.upper \in Nat /\ b.upper > b.lower /\ b.upper # NoLimit
        BY <2>2, <3>2, NoLimitAssumption
      <4>3. w = Pay!Most(0, Pay!Least(income, b.upper) - b.lower)  BY <4>2 DEF Part
      <4> HIDE DEF w, left, above, b
      <4> QED  BY <2>1, <2>3, <4>1, <4>2, <4>3 DEF Pay!Most, Pay!Least
    <3> QED  BY <3>1, <3>2
  <2>6. left <= 0 => w = 0  BY <2>1, <2>2, <2>3, NoLimitAssumption DEF Part, Pay!Most, Pay!Least
  <2>7. /\ q[k - 1] \in [left : Int, tax : Int] /\ p[k - 1] \in Int
        /\ Pay!Near(q[k - 1].tax, p[k - 1], k - 1)
        /\ q[k] = Taxed(q[k - 1], b) /\ p[k] = p[k - 1] + w * b.rate
    BY <1>1, <1>2, <1>3, <1>5
  <2>8. CASE w = 0
    <3>1. q[k] = q[k - 1]  BY <2>4, <2>7, <2>8 DEF Taxed
    <3>2. p[k] = p[k - 1]  BY <2>1, <2>7, <2>8
    <3>3. Pay!Near(q[k].tax, p[k], k)  BY <2>7, <3>1, <3>2 DEF Pay!Near, Pay!Whole
    <3> QED  BY <2>5, <2>4, <2>8, <3>1, <3>3
  <2>9. CASE w # 0
    <3> DEFINE m == Pay!MulRate(w, b.rate)
               x == w * b.rate
    <3>1. m \in Nat /\ x \in Nat /\ Pay!Near(m, x, 1)
      <4> HIDE DEF w, b
      <4> QED  BY <2>1, RateNear
    <3>2. q[k] = [left |-> left - w, tax |-> q[k - 1].tax + m]
      BY <2>1, <2>4, <2>6, <2>7, <2>9 DEF Taxed
    <3> HIDE DEF m, x
    <3>3. Pay!Near(q[k - 1].tax + m, p[k - 1] + x, k)
      <4>1. q[k - 1].tax \in Int /\ p[k - 1] \in Int /\ k - 1 \in Nat  BY <2>7
      <4>2. Pay!Near(q[k - 1].tax + m, p[k - 1] + x, k - 1 + 1)  BY <2>7, <3>1, <4>1, NearAdds
      <4> QED  BY <4>2
    <3> QED  BY <2>5, <2>7, <3>2, <3>3 DEF x
  <2> QED  BY <2>8, <2>9
<1>6. 0..n \subseteq S
  <2> HIDE DEF S
  <2> QED  BY <1>1, <1>4, <1>5, Climb
<1>7. good(n) /\ q[n] \in [left : Int, tax : Int] /\ p[n] \in Int
  <2> HIDE DEF good
  <2> QED  BY <1>1, <1>6
<1> QED  BY <1>2, <1>3, <1>7

\* Nothing falls into a band of nothing.
LEMMA ExactNothing ==
  ASSUME NEW bands, Table(bands)
  PROVE  Pay!Exact(0, bands) = 0
<1> DEFINE n == Len(bands)
<1>1. DOMAIN bands = 1..n /\ n \in Nat /\ n > 0  BY BandTypes DEF Table
<1>2. PICK p \in [0..n -> Int] :
        /\ p[0] = 0
        /\ \A k \in 1..n : p[k] = p[k - 1] + Part(0, bands[k]) * bands[k].rate
        /\ Pay!Exact(0, bands) = p[n]
  BY <1>1, ExactSteps
<1> DEFINE S == {k \in 0..n : p[k] = 0}
<1>3. 0 \in S  BY <1>1, <1>2
<1>4. ASSUME NEW k \in 1..n, k - 1 \in S PROVE k \in S
  <2>1. bands[k].lower \in Nat /\ bands[k].rate \in Nat
        /\ (bands[k].upper \in Nat \/ bands[k].upper = NoLimit)
    BY <1>1, BandTypes
  <2>2. Part(0, bands[k]) = 0  BY <2>1, NoLimitAssumption DEF Part, Pay!Most, Pay!Least
  <2> QED  BY <1>2, <1>4, <2>1, <2>2
<1>5. 0..n \subseteq S
  <2> HIDE DEF S
  <2> QED  BY <1>1, <1>3, <1>4, Climb
<1> QED  BY <1>1, <1>2, <1>5

\* A band begins where every earlier one has ended.
LEMMA BandsOrdered ==
  ASSUME NEW bands, Table(bands), NEW i \in DOMAIN bands, NEW j \in DOMAIN bands, i < j
  PROVE  /\ bands[i].upper \in Nat /\ bands[i].upper <= bands[j].lower
         /\ bands[i].lower < bands[i].upper
<1> DEFINE n == Len(bands)
<1>1. DOMAIN bands = 1..n /\ n \in Nat /\ n > 0  BY BandTypes DEF Table
<1>2. \A k \in 1 .. n - 1 : /\ bands[k].lower \in Nat /\ bands[k].upper \in Nat
                            /\ bands[k].lower < bands[k].upper
                            /\ bands[k].upper = bands[k + 1].lower
  <2> TAKE k \in 1 .. n - 1
  <2>1. k \in DOMAIN bands /\ k # n
    <3> HIDE DEF n
    <3> QED  BY <1>1
  <2> QED  BY <1>1, <2>1, BandTypes DEF Table
<1> DEFINE S == {k \in 0..n : i < k => bands[i].upper <= bands[k].lower}
<1>3. 0 \in S  BY <1>1
<1>4. ASSUME NEW k \in 1..n, k - 1 \in S PROVE k \in S
  <2>1. CASE i < k - 1
    <3>1. k - 1 \in 1 .. n - 1 /\ i \in 1 .. n - 1 /\ k - 1 + 1 = k  BY <1>1, <2>1
    <3>2. bands[i].upper <= bands[k - 1].lower  BY <1>4, <2>1
    <3>3. bands[k - 1].lower < bands[k - 1].upper /\ bands[k - 1].upper = bands[k].lower
      BY <1>2, <3>1
    <3>4. /\ bands[i].upper \in Nat /\ bands[k - 1].lower \in Nat
          /\ bands[k - 1].upper \in Nat
      BY <1>2, <3>1
    <3> QED  BY <3>2, <3>3, <3>4
  <2>2. CASE i = k - 1
    <3>1. i \in 1 .. n - 1 /\ i + 1 = k  BY <1>1, <2>2
    <3>2. bands[i].upper = bands[k].lower /\ bands[i].upper \in Nat  BY <1>2, <3>1
    <3> QED  BY <3>2
  <2>3. CASE i > k - 1  BY <1>1, <2>3
  <2> QED  BY <1>1, <2>1, <2>2, <2>3
<1>5. 0..n \subseteq S
  <2> HIDE DEF S
  <2> QED  BY <1>1, <1>3, <1>4, Climb
<1>6. j \in S /\ i \in 1 .. n - 1  BY <1>1, <1>5
<1> QED  BY <1>2, <1>6

\* Within a band the exact tax goes up by its rate.
LEMMA ExactWithin ==
  ASSUME NEW bands, Table(bands), NEW k \in DOMAIN bands, NEW income \in Nat,
         bands[k].lower <= income,
         bands[k].upper # NoLimit => income <= bands[k].upper
  PROVE  Pay!Exact(income, bands)
           = Pay!Exact(bands[k].lower, bands) + (income - bands[k].lower) * bands[k].rate
<1> DEFINE n == Len(bands)
           lower == bands[k].lower
           x == (income - lower) * bands[k].rate
<1>1. DOMAIN bands = 1..n /\ n \in Nat /\ n > 0  BY BandTypes DEF Table
<1>2. lower \in Nat /\ bands[k].rate \in Nat /\ income - lower \in Nat  BY BandTypes
<1>3. x \in Int  BY <1>2
<1>4. PICK p \in [0..n -> Int] :
        /\ p[0] = 0
        /\ \A j \in 1..n : p[j] = p[j - 1] + Part(income, bands[j]) * bands[j].rate
        /\ Pay!Exact(income, bands) = p[n]
  BY <1>1, ExactSteps
<1>5. PICK o \in [0..n -> Int] :
        /\ o[0] = 0
        /\ \A j \in 1..n : o[j] = o[j - 1] + Part(lower, bands[j]) * bands[j].rate
        /\ Pay!Exact(lower, bands) = o[n]
  BY <1>1, <1>2, ExactSteps
<1> DEFINE S == {j \in 0..n : p[j] = o[j] + (IF j < k THEN 0 ELSE x)}
<1>6. 0 \in S  BY <1>1, <1>4, <1>5
<1>7. ASSUME NEW j \in 1..n, j - 1 \in S PROVE j \in S
  <2> DEFINE b == bands[j]
             u == Part(income, b)
             v == Part(lower, b)
  <2>1. /\ b.lower \in Nat /\ b.rate \in Nat /\ u \in Nat /\ v \in Nat
        /\ b.upper \in Nat \/ b.upper = NoLimit
    BY <1>1, <1>2, BandTypes, PartType
  <2>2. /\ p[j] = p[j - 1] + u * b.rate /\ o[j] = o[j - 1] + v * b.rate
        /\ p[j - 1] \in Int /\ o[j - 1] \in Int
        /\ p[j - 1] = o[j - 1] + (IF j - 1 < k THEN 0 ELSE x)
    BY <1>4, <1>5, <1>7
  <2>3. CASE j < k
    <3>1. b.upper \in Nat /\ b.upper <= lower  BY <1>1, <2>3, BandsOrdered
    <3>2. u = v  BY <1>2, <2>1, <3>1, NoLimitAssumption DEF Part, Pay!Most, Pay!Least
    <3>3. p[j] = o[j]  BY <2>2, <2>3, <3>2, <1>1
    <3> QED  BY <1>5, <2>3, <3>3
  <2>4. CASE j = k
    <3>1. u = income - lower /\ v = 0
      BY <1>2, <2>1, <2>4, NoLimitAssumption DEF Part, Pay!Most, Pay!Least
    <3>2. u * b.rate = x /\ v * b.rate = 0  BY <2>1, <2>4, <3>1
    <3> HIDE DEF u, v, b, x
    <3>3. p[j] = o[j] + x  BY <1>1, <1>3, <2>2, <2>4, <3>2
    <3> QED  BY <1>1, <2>4, <3>3
  <2>5. CASE j > k
    <3>1. bands[k].upper \in Nat /\ bands[k].upper <= b.lower /\ lower < bands[k].upper
      BY <1>1, <2>5, BandsOrdered
    <3>2. income <= b.lower /\ lower <= b.lower  BY <1>2, <2>1, <3>1, NoLimitAssumption
    <3>3. u = 0 /\ v = 0  BY <1>2, <2>1, <3>2, NoLimitAssumption DEF Part, Pay!Most, Pay!Least
    <3>4. u * b.rate = 0 /\ v * b.rate = 0  BY <2>1, <3>3
    <3> HIDE DEF u, v, b, x
    <3>5. p[j] = o[j] + x  BY <1>1, <1>3, <2>2, <2>5, <3>4
    <3> QED  BY <1>1, <2>5, <3>5
  <2> QED  BY <1>1, <2>3, <2>4, <2>5
<1>8. 0..n \subseteq S
  <2> HIDE DEF S
  <2> QED  BY <1>1, <1>6, <1>7, Climb
<1>9. n \in S
  <2> HIDE DEF S
  <2> QED  BY <1>1, <1>8
<1> HIDE DEF x
<1>10. p[n] = o[n] + x  BY <1>1, <1>9
<1> QED  BY <1>4, <1>5, <1>10 DEF x

\* Each step of the computation gives an amount.
LEMMA RoundType == \A c \in Nat : Pay!RoundHalfUp(c) \in Nat
BY DEF Pay!RoundHalfUp

\* and so is what a rate makes of one,
LEMMA MulRateType ==
  ASSUME NEW c \in Nat, NEW r \in Nat
  PROVE  Pay!MulRate(c, r) \in Nat
<1> DEFINE t == r \div 10
<1>1. t \in Nat  OBVIOUS
<1> HIDE DEF t
<1>2. c * t \in Nat  BY <1>1
<1>3. (c * t) \div 100 \in Nat  BY <1>2
<1> QED  BY <1>3, RoundType DEF Pay!MulRate, t

\* what a division leaves,
LEMMA DivType ==
  ASSUME NEW c \in Nat, NEW d \in Nat \ {0}
  PROVE  c \div d \in Nat
OBVIOUS

\* and the part of a month.
LEMMA ProrateType ==
  ASSUME NEW c \in Nat, NEW days \in Int, NEW month \in Nat \ {0}
  PROVE  Pay!Prorate(c, days, month) \in Nat
<1>1. CASE days >= month  BY <1>1 DEF Pay!Prorate
<1>2. CASE days <= 0  BY <1>2 DEF Pay!Prorate
<1>3. CASE ~ (days >= month) /\ ~ (days <= 0)
  <2>1. days \in Nat  BY <1>3
  <2>2. c * days \in Nat  BY <2>1
  <2>3. c * days * 100 \in Nat  BY <2>2
  <2>4. (c * days * 100) \div month \in Nat  BY <2>3, DivType
  <2> QED  BY <1>3, <2>4, RoundType DEF Pay!Prorate
<1> QED  BY <1>1, <1>2, <1>3

\* Amounts add up to an amount.
LEMMA SumType ==
  ASSUME NEW n \in Nat, NEW a \in [1..n -> Nat]
  PROVE  Pay!Sum(a) \in Nat
<1>1. a \in [1..n -> Int]  OBVIOUS
<1>2. PICK p \in [0..n -> Int] :
        /\ p[0] = 0 /\ (\A k \in 1..n : p[k] = p[k - 1] + a[k])
        /\ Pay!Sum(a) = p[n]
  BY <1>1, SumSteps
<1> DEFINE S == {k \in 0..n : p[k] \in Nat}
<1>3. 0 \in S  BY <1>2
<1>4. \A k \in 1..n : k - 1 \in S => k \in S  BY <1>2
<1>5. 0..n \subseteq S
  <2> HIDE DEF S
  <2> QED  BY <1>3, <1>4, Climb
<1> QED  BY <1>2, <1>5

\* The smallest of some numbers is one of them.
LEMMA LeastIs ==
  ASSUME NEW F, F \subseteq Nat, F # {}
  PROVE  Pay!Min(F) \in F /\ \A j \in F : Pay!Min(F) <= j
<1>1. \E k \in F : \A j \in F : k <= j  BY SmallestIs
<1> QED  BY <1>1, Zenon DEF Pay!Min

\* The band that is found is the only one that the income goes beyond, and does
\* not exceed, or there is no income.
Found(k, income, bands) ==
  /\ bands[k].lower <= income
  /\ bands[k].upper # NoLimit => income <= bands[k].upper
  /\ income = bands[k].lower => income = 0
  /\ Pay!CumulativePayeUg(income, bands) =
       IF income - bands[k].lower <= 0 THEN 0
       ELSE bands[k].fixed + Pay!MulRate(income - bands[k].lower, bands[k].rate)

LEMMA BandFound ==
  ASSUME NEW bands, Table(bands), NEW income \in Nat
  PROVE  \E k \in DOMAIN bands : Found(k, income, bands)
<1> USE DEF Found
<1> DEFINE n == Len(bands)
           above(i) == bands[i].upper # NoLimit /\ income > bands[i].upper
           holds(i) == income >= bands[i].lower /\ ~ above(i)
           held == {i \in DOMAIN bands : holds(i)}
           k == Pay!Min(held)
           excess == income - bands[k].lower
           paye == Pay!CumulativePayeUg(income, bands)
<1>1. DOMAIN bands = 1..n /\ n \in Nat /\ n > 0  BY BandTypes DEF Table
<1>2. \A i \in 1 .. n - 1 : /\ bands[i].lower \in Nat /\ bands[i].upper \in Nat
                            /\ bands[i].lower < bands[i].upper
                            /\ bands[i].upper = bands[i + 1].lower
                            /\ bands[i].upper # NoLimit
  <2> TAKE i \in 1 .. n - 1
  <2>1. i \in DOMAIN bands /\ i # n
    <3> HIDE DEF n
    <3> QED  BY <1>1
  <2> QED  BY <1>1, <2>1, BandTypes, NoLimitAssumption DEF Table
<1>3. k \in held /\ \A j \in held : k <= j
  <2> DEFINE F == {i \in DOMAIN bands : ~ above(i)}
  <2>1. F \subseteq Nat /\ held \subseteq Nat  BY <1>1
  <2>2. n \in F
    <3>1. bands[n].upper = NoLimit  BY <1>1 DEF Table
    <3> QED  BY <1>1, <3>1
  <2>3. PICK i \in F : \A j \in F : i <= j
    <3> HIDE DEF F
    <3> QED  BY <2>1, <2>2, SmallestIs
  <2>4. CASE i = 1
    <3>1. bands[1].lower = 0  BY DEF Table
    <3>2. i \in held  BY <2>4, <3>1
    <3> HIDE DEF held
    <3> QED  BY <2>1, <3>2, LeastIs
  <2>5. CASE i # 1
    <3>1. i - 1 \in 1 .. n - 1 /\ i - 1 + 1 = i  BY <1>1, <2>5
    <3>2. i - 1 \notin F
      <4> HIDE DEF F
      <4> QED  BY <2>3, <3>1
    <3>3. i - 1 \in DOMAIN bands  BY <1>1, <3>1
    <3>4. income > bands[i - 1].upper  BY <3>2, <3>3
    <3>5. bands[i - 1].upper = bands[i].lower /\ bands[i - 1].upper \in Nat  BY <1>2, <3>1
    <3>6. i \in held  BY <3>4, <3>5
    <3> HIDE DEF held
    <3> QED  BY <2>1, <3>6, LeastIs
  <2> QED  BY <2>4, <2>5
<1>4. paye = IF excess <= 0 THEN 0
             ELSE bands[k].fixed + Pay!MulRate(excess, bands[k].rate)
  <2>1. held # {}
    <3> HIDE DEF held
    <3> QED  BY <1>3
  <2> QED  BY <2>1 DEF Pay!CumulativePayeUg
<1>5. /\ k \in DOMAIN bands /\ bands[k].lower <= income
      /\ bands[k].upper # NoLimit => income <= bands[k].upper
      /\ bands[k].lower \in Nat /\ bands[k].rate \in Nat /\ bands[k].fixed \in Int
      /\ bands[k].rate % 10 = 0
  <2>1. k \in DOMAIN bands /\ holds(k)
    <3> HIDE DEF k, holds
    <3> QED  BY <1>3
  <2> HIDE DEF k
  <2>2. /\ bands[k].lower \in Nat /\ bands[k].rate \in Nat /\ bands[k].fixed \in Int
        /\ bands[k].upper \in Nat \/ bands[k].upper = NoLimit
    BY <2>1, BandTypes
  <2> QED  BY <2>1, <2>2 DEF Table
<1>6. \A i \in held : k <= i  BY <1>3
<1> HIDE DEF k
<1>7. ASSUME income = bands[k].lower PROVE income = 0
  <2>1. k = 1
    <3> SUFFICES ASSUME k # 1 PROVE FALSE  OBVIOUS
    <3>1. k - 1 \in 1 .. n - 1 /\ k - 1 + 1 = k /\ k - 1 \in DOMAIN bands  BY <1>1, <1>5
    <3>2. bands[k - 1].lower < bands[k - 1].upper /\ bands[k - 1].upper = income
          /\ bands[k - 1].lower \in Nat
      BY <1>2, <1>7, <3>1
    <3>3. k - 1 \in held  BY <3>1, <3>2
    <3> HIDE DEF held
    <3> QED  BY <1>1, <1>5, <1>6, <3>1, <3>3
  <2> QED  BY <1>7, <2>1 DEF Table
<1> QED  BY <1>4, <1>5, <1>7

\* With any fixed amounts it gives an amount,
LEMMA CumulativeType ==
  ASSUME NEW bands, Table(bands), NEW income \in Nat
  PROVE  Pay!CumulativePayeUg(income, bands) \in Int
<1> USE DEF Found
<1>1. PICK k \in DOMAIN bands : Found(k, income, bands)  BY BandFound
<1>2. bands[k].lower \in Nat /\ bands[k].rate \in Nat /\ bands[k].fixed \in Int  BY BandTypes
<1>3. income - bands[k].lower \in Nat  BY <1>1, <1>2
<1>4. Pay!MulRate(income - bands[k].lower, bands[k].rate) \in Nat  BY <1>2, <1>3, MulRateType
<1> QED  BY <1>1, <1>2, <1>4

\* and with those that are the tax of the lower bounds, that of the bands.
LEMMA CumulativeNear ==
  ASSUME NEW bands, Table(bands), Pay!Cumulative(bands), NEW income \in Nat
  PROVE  /\ Pay!Exact(income, bands) \in Int
         /\ Pay!Near(Pay!CumulativePayeUg(income, bands), Pay!Exact(income, bands), 1)
<1> USE DEF Found
<1>1. PICK k \in DOMAIN bands : Found(k, income, bands)  BY BandFound
<1> DEFINE excess == income - bands[k].lower
           paye == Pay!CumulativePayeUg(income, bands)
<1>2. /\ bands[k].lower \in Nat /\ bands[k].rate \in Nat /\ bands[k].fixed \in Int
      /\ bands[k].rate % 10 = 0 /\ excess \in Nat
  <2>1. bands[k].lower \in Nat /\ bands[k].rate \in Nat /\ bands[k].fixed \in Int  BY BandTypes
  <2>2. excess \in Nat  BY <1>1, <2>1
  <2> QED  BY <2>1, <2>2 DEF Table
<1>3. CASE excess = 0
  <2>1. income = 0  BY <1>1, <1>2, <1>3
  <2>2. Pay!Exact(income, bands) = 0 /\ paye = 0  BY <1>1, <1>3, <2>1, ExactNothing
  <2> QED  BY <2>2 DEF Pay!Near, Pay!Whole
<1>4. CASE excess # 0
  <2> DEFINE m == Pay!MulRate(excess, bands[k].rate)
             x == excess * bands[k].rate
  <2>1. excess > 0  BY <1>2, <1>4
  <2>2. m \in Nat /\ x \in Nat /\ Pay!Near(m, x, 1)
    <3> HIDE DEF excess
    <3> QED  BY <1>2, RateNear
  <2>3. paye = bands[k].fixed + m  BY <1>1, <1>2, <2>1
  <2>4. Pay!Exact(income, bands) = Pay!Exact(bands[k].lower, bands) + x  BY <1>1, ExactWithin
  <2>5. bands[k].fixed * Pay!Whole = Pay!Exact(bands[k].lower, bands)  BY DEF Pay!Cumulative
  <2> DEFINE f == bands[k].fixed
             e == Pay!Exact(bands[k].lower, bands)
  <2> HIDE DEF m, x, paye
  <2>6. f \in Int /\ e \in Int /\ Pay!Near(f, e, 0)  BY <1>2, <2>5 DEF Pay!Near, Pay!Whole
  <2>7. paye = f + m /\ Pay!Exact(income, bands) = e + x  BY <2>3, <2>4
  <2> HIDE DEF f, e
  <2>8. Pay!Near(f + m, e + x, 0 + 1)
    <3>1. m \in Int /\ x \in Int /\ 0 \in Nat /\ 1 \in Nat  BY <2>2
    <3> QED  BY <2>2, <2>6, <3>1, NearAdds
  <2>9. /\ Pay!Exact(income, bands) \in Int
        /\ Pay!Near(paye, Pay!Exact(income, bands), 1)
    BY <2>2, <2>6, <2>7, <2>8
  <2> QED  BY <2>9 DEF paye
<1> QED  BY <1>3, <1>4
-----------------------------------------------------------------------------
\* What a payroll may compute.
Payable(in) ==
  /\ in.basic \in Nat /\ in.days_worked \in Int /\ in.days_in_month \in Nat \ {0}
  /\ \E n \in Nat : DOMAIN in.allowances = 1..n
  /\ \A i \in DOMAIN in.allowances : in.allowances[i].amount \in Nat
  /\ in.employee_rate \in Nat /\ in.employer_rate \in Nat
  /\ in.lst_annual \in Nat /\ in.lst_months \in Nat
  /\ Table(in.bands)

\* The marginal tax is an amount, whatever is left of an income.
LEMMA MarginalType ==
  ASSUME NEW bands, Table(bands), NEW income \in Int
  PROVE  Pay!MarginalPayeSs(income, bands) \in Int
<1> DEFINE n == Len(bands)
<1>1. DOMAIN bands = 1..n /\ n \in Nat /\ n > 0  BY BandTypes DEF Table
<1>2. PICK q \in [0..n -> [left : Int, tax : Int]] :
        Pay!MarginalPayeSs(income, bands) = q[n].tax
  BY TaxSteps
<1>3. q[n] \in [left : Int, tax : Int]
  <2> HIDE DEF n
  <2> QED  BY <1>1
<1> QED  BY <1>2, <1>3

\* PayslipAgrees, for any wages, allowances, days, rates and tables: whoever can be
\* paid is paid by the bands, and what is deducted is accounted for.
THEOREM AnyPayslip ==
  ASSUME slip # NoSlip => Payable(slip)
  PROVE  Pay!PayslipAgrees
<1> SUFFICES ASSUME slip # NoSlip, Payable(slip) PROVE Pay!PayslipAgrees
  BY DEF Pay!PayslipAgrees
<1> DEFINE in == slip
           basic == Pay!Prorate(in.basic, in.days_worked, in.days_in_month)
           paid(i) == Pay!Prorate(in.allowances[i].amount, in.days_worked,
                                  in.days_in_month)
           allowance(which) ==
             Pay!Sum([i \in DOMAIN in.allowances |->
                        IF which = "all" \/ in.allowances[i][which] THEN paid(i) ELSE 0])
           gross == basic + allowance("all")
           taxable == basic + allowance("taxable")
           basis == CASE in.contribution_base = "gross" -> gross
                      [] in.contribution_base = "pensionable" ->
                           basic + allowance("pensionable")
                      [] OTHER -> taxable
           ee == Pay!MulRate(basis, in.employee_rate)
           er == Pay!MulRate(basis, in.employer_rate)
           ss == in.country = "SS"
           base == IF ss /\ in.deductible_before_tax THEN taxable - ee ELSE taxable
           paye == IF ss THEN Pay!MarginalPayeSs(Pay!Reparse(base), in.bands)
                         ELSE Pay!CumulativePayeUg(taxable, in.bands)
           lst == IF ss \/ in.lst_months = 0 THEN 0
                  ELSE Pay!RoundHalfUp((in.lst_annual * 100) \div in.lst_months)
           deductions == ee + paye + lst
           r == Pay!Compute(slip)
<1>1. r = IF gross = 0
          THEN [gross |-> 0, base |-> 0, ee |-> 0, paye |-> 0, lst |-> 0,
                total_deductions |-> 0, net |-> 0, employer_cost |-> 0,
                failed |-> FALSE]
          ELSE [gross |-> gross, base |-> base, ee |-> ee, paye |-> paye,
                lst |-> lst, total_deductions |-> deductions,
                net |-> gross - deductions, employer_cost |-> gross + er,
                failed |-> Pay!Reparse(gross - deductions) < 0]
  BY DEF Pay!Compute
<1>2. basic \in Nat  BY ProrateType DEF Payable
<1>3. ASSUME NEW which PROVE allowance(which) \in Nat
  <2> DEFINE a == [i \in DOMAIN in.allowances |->
                     IF which = "all" \/ in.allowances[i][which] THEN paid(i) ELSE 0]
  <2>1. PICK n \in Nat : DOMAIN in.allowances = 1..n  BY DEF Payable
  <2>2. \A i \in DOMAIN in.allowances : paid(i) \in Nat  BY ProrateType DEF Payable
  <2>3. a \in [1..n -> Nat]
    <3> HIDE DEF paid
    <3> QED  BY <2>1, <2>2
  <2> HIDE DEF a
  <2>4. Pay!Sum(a) \in Nat  BY <2>3, SumType
  <2> QED  BY <2>4 DEF a
<1> HIDE DEF allowance, basic
<1>4. gross \in Nat /\ taxable \in Nat /\ basis \in Nat
  <2>1. /\ allowance("all") \in Nat /\ allowance("taxable") \in Nat
        /\ allowance("pensionable") \in Nat
    BY <1>3
  <2> QED  BY <1>2, <2>1
<1> HIDE DEF gross, taxable, basis
<1>5. ee \in Nat  BY <1>4, MulRateType DEF Payable
<1> HIDE DEF ee
<1>6. base \in Int /\ Pay!Reparse(base) \in Int  BY <1>4, <1>5 DEF Pay!Reparse
<1>7. paye \in Int
  <2> HIDE DEF base
  <2>1. Table(in.bands)  BY DEF Payable
  <2> QED  BY <1>4, <1>6, <2>1, MarginalType, CumulativeType
<1>8. lst \in Nat
  <2>1. CASE in.lst_months = 0  BY <2>1
  <2>2. CASE in.lst_months # 0
    <3>1. in.lst_annual * 100 \in Nat /\ in.lst_months \in Nat \ {0}  BY <2>2 DEF Payable
    <3>2. (in.lst_annual * 100) \div in.lst_months \in Nat  BY <3>1, DivType
    <3> QED  BY <3>2, RoundType
  <2> QED  BY <2>1, <2>2
<1>9. in.country = "SS" /\ base >= 0 =>
        Pay!Near(paye, Pay!Exact(base, in.bands), Len(in.bands))
  <2> SUFFICES ASSUME in.country = "SS", base >= 0
               PROVE  Pay!Near(paye, Pay!Exact(base, in.bands), Len(in.bands))
    OBVIOUS
  <2> HIDE DEF base
  <2>1. Pay!Reparse(base) = base /\ base \in Nat  BY <1>6 DEF Pay!Reparse
  <2>2. Table(in.bands)  BY DEF Payable
  <2> QED  BY <2>1, <2>2, MarginalNear
<1>10. in.country = "UG" /\ Pay!Cumulative(in.bands) =>
         base = taxable /\ Pay!Near(paye, Pay!Exact(base, in.bands), 1)
  <2> SUFFICES ASSUME in.country = "UG", Pay!Cumulative(in.bands)
               PROVE  base = taxable /\ Pay!Near(paye, Pay!Exact(base, in.bands), 1)
    OBVIOUS
  <2>1. base = taxable /\ paye = Pay!CumulativePayeUg(taxable, in.bands)  OBVIOUS
  <2>2. Table(in.bands)  BY DEF Payable
  <2> HIDE DEF base, paye
  <2> QED  BY <1>4, <2>1, <2>2, CumulativeNear
<1> HIDE DEF base, paye, lst, er
<1>11. CASE gross = 0
  <2>1. /\ r.base = 0 /\ r.paye = 0 /\ r.net = 0 /\ r.total_deductions = 0
        /\ r.gross = 0 /\ r.failed = FALSE
    BY <1>1, <1>11
  <2>2. Pay!Exact(0, slip.bands) = 0 /\ Len(slip.bands) \in Nat
    <3>1. Table(slip.bands)  BY DEF Payable
    <3>2. 1 \in DOMAIN slip.bands  BY <3>1 DEF Table
    <3> QED  BY <3>1, <3>2, ExactNothing, BandTypes
  <2> HIDE DEF r
  <2>3. Pay!Near(r.paye, Pay!Exact(r.base, slip.bands), Len(slip.bands))
        /\ Pay!Near(r.paye, Pay!Exact(r.base, slip.bands), 1)
    BY <2>1, <2>2 DEF Pay!Near, Pay!Whole
  <2> QED  BY <2>1, <2>3 DEF Pay!PayslipAgrees, r
<1>12. CASE gross # 0
  <2>1. /\ r.base = base /\ r.paye = paye /\ r.net = gross - deductions
        /\ r.total_deductions = deductions /\ r.gross = gross
    BY <1>1, <1>12
  <2>2. r.failed = (Pay!Reparse(gross - deductions) < 0)  BY <1>1, <1>12
  <2>3. deductions \in Int  BY <1>5, <1>7, <1>8
  <2> HIDE DEF r, deductions
  <2>4. r.net + r.total_deductions = r.gross  BY <1>4, <2>1, <2>3
  <2>5. \/ Pay!Reparse(gross - deductions) < 0 /\ gross - deductions <= -100
        \/ ~ (Pay!Reparse(gross - deductions) < 0) /\ gross - deductions > -100
    <3>1. \A x \in Int : \/ Pay!Reparse(x) < 0 /\ x <= -100
                         \/ ~ (Pay!Reparse(x) < 0) /\ x > -100
      BY DEF Pay!Reparse
    <3>2. gross - deductions \in Int  BY <1>4, <2>3
    <3> QED  BY <3>1, <3>2
  <2>6. (~ r.failed => r.net > -100) /\ (r.failed => r.net <= -100)
    <3> DEFINE P == Pay!Reparse(gross - deductions) < 0
    <3>1. r.failed = P /\ (P => r.net <= -100) /\ (~ P => r.net > -100)
      BY <2>1, <2>2, <2>5, Zenon
    <3> HIDE DEF P
    <3> QED  BY <3>1, Zenon
  <2> QED  BY <1>9, <1>10, <2>1, <2>4, <2>6 DEF Pay!PayslipAgrees, r
<1> QED  BY <1>11, <1>12
-----------------------------------------------------------------------------
\* What a table of n bands has to have, band by band.
LEMMA TableOf ==
  ASSUME NEW t, NEW n \in Nat \ {0}, t \in [1..n -> BandRecord], t[1].lower = 0,
         \A i \in 1..n : t[i].rate % 10 = 0 /\ (t[i].upper = NoLimit <=> i = n),
         \A i \in 1 .. n - 1 : t[i].lower < t[i].upper /\ t[i].upper = t[i + 1].lower
  PROVE  Table(t)
BY DEF Table

\* What a band has.
LEMMA BandIs ==
  ASSUME NEW l, NEW u, NEW r, NEW f
  PROVE  /\ Band(l, u, r, f).lower = l /\ Band(l, u, r, f).upper = u
         /\ Band(l, u, r, f).rate = r
         /\ l \in Nat /\ u \in Nat \cup {NoLimit} /\ r \in Nat /\ f \in Int =>
              Band(l, u, r, f) \in BandRecord
<1>1. ASSUME l \in Nat, u \in Nat \cup {NoLimit}, r \in Nat, f \in Int
      PROVE  Band(l, u, r, f) \in BandRecord
  BY <1>1 DEF Band, BandRecord
<1> QED  BY <1>1 DEF Band

\* The table of South Sudan,
LEMMA SouthSudanIs == Table(SouthSudan)
<1> DEFINE t == SouthSudan
<1>1. /\ Band(0, 300, 0, 0) \in BandRecord /\ Band(300, 500, 10000, 0) \in BandRecord
      /\ Band(500, 1000, 15000, 0) \in BandRecord
      /\ Band(1000, NoLimit, 20000, 0) \in BandRecord
  BY BandIs
<1>2. /\ t \in [1..4 -> BandRecord]
      /\ t[1] = Band(0, 300, 0, 0) /\ t[2] = Band(300, 500, 10000, 0)
      /\ t[3] = Band(500, 1000, 15000, 0) /\ t[4] = Band(1000, NoLimit, 20000, 0)
  BY <1>1 DEF SouthSudan
<1> HIDE DEF t
<1>3. /\ t[1].lower = 0 /\ t[2].lower = 300 /\ t[3].lower = 500 /\ t[4].lower = 1000
      /\ t[1].upper = 300 /\ t[2].upper = 500 /\ t[3].upper = 1000
      /\ t[4].upper = NoLimit
      /\ t[1].rate = 0 /\ t[2].rate = 10000 /\ t[3].rate = 15000 /\ t[4].rate = 20000
  BY <1>2, BandIs
<1>4. /\ \A i \in 1..4 : t[i].rate % 10 = 0 /\ (t[i].upper = NoLimit <=> i = 4)
      /\ \A i \in 1 .. 4 - 1 : t[i].lower < t[i].upper /\ t[i].upper = t[i + 1].lower
  BY <1>3, NoLimitAssumption
<1>5. t \in [1..4 -> BandRecord] /\ 4 \in Nat \ {0} /\ t[1].lower = 0  BY <1>2, <1>3
<1>6. Table(t)  BY <1>4, <1>5, TableOf
<1> QED  BY <1>6 DEF t

\* that of Uganda,
LEMMA UgandaIs == Table(Uganda)
<1> DEFINE t == Uganda
<1>1. /\ Band(0, 235, 0, 0) \in BandRecord /\ Band(235, 335, 10000, 0) \in BandRecord
      /\ Band(335, 410, 20000, 10) \in BandRecord
      /\ Band(410, 1000, 30000, 25) \in BandRecord
      /\ Band(1000, NoLimit, 40000, 202) \in BandRecord
  BY BandIs
<1>2. /\ t \in [1..5 -> BandRecord]
      /\ t[1] = Band(0, 235, 0, 0) /\ t[2] = Band(235, 335, 10000, 0)
      /\ t[3] = Band(335, 410, 20000, 10) /\ t[4] = Band(410, 1000, 30000, 25)
      /\ t[5] = Band(1000, NoLimit, 40000, 202)
  BY <1>1 DEF Uganda
<1> HIDE DEF t
<1>3. /\ t[1].lower = 0 /\ t[2].lower = 235 /\ t[3].lower = 335
      /\ t[4].lower = 410 /\ t[5].lower = 1000
      /\ t[1].upper = 235 /\ t[2].upper = 335 /\ t[3].upper = 410
      /\ t[4].upper = 1000 /\ t[5].upper = NoLimit
      /\ t[1].rate = 0 /\ t[2].rate = 10000 /\ t[3].rate = 20000
      /\ t[4].rate = 30000 /\ t[5].rate = 40000
  BY <1>2, BandIs
<1>4. /\ \A i \in 1..5 : t[i].rate % 10 = 0 /\ (t[i].upper = NoLimit <=> i = 5)
      /\ \A i \in 1 .. 5 - 1 : t[i].lower < t[i].upper /\ t[i].upper = t[i + 1].lower
  BY <1>3, NoLimitAssumption
<1>5. t \in [1..5 -> BandRecord] /\ 5 \in Nat \ {0} /\ t[1].lower = 0  BY <1>2, <1>3
<1>6. Table(t)  BY <1>4, <1>5, TableOf
<1> QED  BY <1>6 DEF t

\* and the same without the fixed amounts cover all incomes.
LEMMA TablesAre == Table(SouthSudan) /\ Table(Uganda) /\ Table(Seeded)
<1> DEFINE n == Len(Uganda)
<1>1. DOMAIN Uganda = 1..n /\ n \in Nat \ {0} /\ Uganda \in [1..n -> BandRecord]
  BY UgandaIs DEF Table
<1>2. Seeded = [i \in 1..n |-> [Uganda[i] EXCEPT !.fixed = 0]]  BY <1>1 DEF Seeded
<1>3. ASSUME NEW i \in 1..n
      PROVE  /\ Seeded[i] \in BandRecord /\ Seeded[i].lower = Uganda[i].lower
             /\ Seeded[i].upper = Uganda[i].upper /\ Seeded[i].rate = Uganda[i].rate
  BY <1>1, <1>2 DEF BandRecord
<1>4. Seeded \in [1..n -> BandRecord]  BY <1>2, <1>3
<1>5. /\ Uganda[1].lower = 0
      /\ \A i \in 1..n : Uganda[i].rate % 10 = 0 /\ (Uganda[i].upper = NoLimit <=> i = n)
      /\ \A i \in 1 .. n - 1 : /\ Uganda[i].lower < Uganda[i].upper
                             /\ Uganda[i].upper = Uganda[i + 1].lower
  BY <1>1, UgandaIs DEF Table
<1> HIDE DEF n
<1>6. /\ Seeded[1].lower = 0 /\ \A i \in 1..n :
             Seeded[i].rate % 10 = 0 /\ (Seeded[i].upper = NoLimit <=> i = n)
      /\ \A i \in 1 .. n - 1 : /\ Seeded[i].lower < Seeded[i].upper
                             /\ Seeded[i].upper = Seeded[i + 1].lower
  BY <1>1, <1>3, <1>5
<1>7. Table(Seeded)  BY <1>1, <1>4, <1>6, TableOf
<1> QED  BY <1>7, SouthSudanIs, UgandaIs

\* What the run computes can be paid.
LEMMA InputsPayable == \A in \in Inputs : Payable(in)
<1> TAKE in \in Inputs
<1>1. PICK bands \in Tables, basic \in Wages, cents \in Cents, days \in Days,
           base \in Bases, annual \in Annual :
        in = [country |-> bands[1], bands |-> bands[2], basic |-> basic,
              allowances |-> Allowances(cents), days_worked |-> days,
              days_in_month |-> 30, contribution_base |-> base,
              employee_rate |-> 8000, employer_rate |-> 17000,
              deductible_before_tax |-> TRUE, lst_annual |-> annual,
              lst_months |-> 3]
  BY DEF Inputs
<1>2. Table(bands[2])  BY TablesAre DEF Tables
<1>3. /\ basic \in Nat /\ cents \in Nat /\ days \in Int /\ annual \in Nat
      /\ 30 \in Nat \ {0} /\ 2 \in Nat
  BY DEF Wages, Cents, Days, Annual
<1>4. /\ DOMAIN Allowances(cents) = 1..2
      /\ \A i \in 1..2 : Allowances(cents)[i].amount \in Nat
  BY <1>3 DEF Allowances
<1>5. /\ in.basic = basic /\ in.days_worked = days /\ in.days_in_month = 30
      /\ in.allowances = Allowances(cents) /\ in.bands = bands[2]
      /\ in.employee_rate = 8000 /\ in.employer_rate = 17000
      /\ in.lst_annual = annual /\ in.lst_months = 3
  BY <1>1
<1> QED  BY <1>2, <1>3, <1>4, <1>5 DEF Payable
-----------------------------------------------------------------------------
\* Scores.  What a household can answer, whatever the numbers: the score of it
\* is a sum of points, each of which does not fall when the answer is worse.

Answers ==
  [dependents : Nat, working_age : Int, monthly_income : Nat, members : Nat,
   need_threshold_per_member : Nat, shelter : DOMAIN Scores!ShelterPoints,
   rcsi : Nat \cup {Missing},
   displacement : DOMAIN Scores!DisplacementPoints \cup {Missing},
   disability_count : Nat, chronic_illness_count : Nat,
   under5_malnutrition_count : Nat, headship : DOMAIN Scores!HeadshipPoints]

\* Of some numbers the one that CHOOSE takes is the smallest.
LEMMA FirstIs ==
  ASSUME NEW F, F \subseteq Nat, F # {}
  PROVE  LET k == CHOOSE i \in F : \A j \in F : i <= j
         IN  k \in F /\ \A j \in F : k <= j
<1>1. \E k \in F : \A j \in F : k <= j  BY SmallestIs
<1> QED  BY <1>1, Zenon

\* Points are those of the first bound that is reached.
LEMMA PointsAre ==
  ASSUME NEW v \in Int, NEW n \in Nat, NEW steps, DOMAIN steps = 1..n
  PROVE  \/ /\ Scores!Points(v, steps) = 0
            /\ \A i \in 1..n : ~ (v >= steps[i][1])
         \/ \E k \in 1..n : /\ Scores!Points(v, steps) = steps[k][2]
                            /\ v >= steps[k][1]
                            /\ \A i \in 1 .. k - 1 : ~ (v >= steps[i][1])
<1> DEFINE reached == {i \in DOMAIN steps : v >= steps[i][1]}
           k == CHOOSE i \in reached : \A j \in reached : i <= j
<1>1. Scores!Points(v, steps) = IF reached = {} THEN 0 ELSE steps[k][2]  BY DEF Scores!Points
<1>2. CASE reached = {}  BY <1>1, <1>2
<1>3. CASE reached # {}
  <2>1. k \in reached /\ \A j \in reached : k <= j
    <3>1. reached \subseteq Nat  OBVIOUS
    <3> HIDE DEF reached
    <3> QED  BY <1>3, <3>1, FirstIs
  <2>2. k \in 1..n /\ v >= steps[k][1]
    <3> HIDE DEF k
    <3> QED  BY <2>1
  <2>3. \A i \in 1 .. k - 1 : ~ (v >= steps[i][1])
    <3> SUFFICES ASSUME NEW i \in 1 .. k - 1, v >= steps[i][1] PROVE FALSE  OBVIOUS
    <3> HIDE DEF k
    <3>1. i \in reached  BY <2>2
    <3> HIDE DEF reached
    <3> QED  BY <2>1, <2>2, <3>1
  <2>4. Scores!Points(v, steps) = steps[k][2]  BY <1>1, <1>3
  <2> HIDE DEF k
  <2> QED  BY <2>2, <2>3, <2>4
<1> QED  BY <1>2, <1>3

\* The points for dependents, without the choice of a bound.
LEMMA DependencyIs ==
  ASSUME NEW h \in Answers
  PROVE  LET d == h.dependents
             w == h.working_age
         IN  Scores!Dependency(h) =
               IF w <= 0 \/ 2 * d >= 4 * w THEN 20
               ELSE IF 2 * d >= 3 * w THEN 16
               ELSE IF 2 * d >= 2 * w THEN 11
               ELSE IF 2 * d >= w THEN 6 ELSE 0
<1> DEFINE d == h.dependents
           w == h.working_age
           steps == <<<<4 * w, 20>>, <<3 * w, 16>>, <<2 * w, 11>>, <<w, 6>>>>
<1>1. d \in Nat /\ w \in Int  BY DEF Answers
<1>2. Scores!Dependency(h) = IF w <= 0 THEN 20 ELSE Scores!Points(2 * d, steps)
  BY DEF Scores!Dependency
<1>3. /\ DOMAIN steps = 1..4
      /\ steps[1][1] = 4 * w /\ steps[2][1] = 3 * w
      /\ steps[3][1] = 2 * w /\ steps[4][1] = w
      /\ steps[1][2] = 20 /\ steps[2][2] = 16 /\ steps[3][2] = 11 /\ steps[4][2] = 6
  OBVIOUS
<1> HIDE DEF steps, d, w
<1>4. \/ /\ Scores!Points(2 * d, steps) = 0
         /\ \A i \in 1..4 : ~ (2 * d >= steps[i][1])
      \/ \E k \in 1..4 : /\ Scores!Points(2 * d, steps) = steps[k][2]
                         /\ 2 * d >= steps[k][1]
                         /\ \A i \in 1 .. k - 1 : ~ (2 * d >= steps[i][1])
  <2>1. 2 * d \in Int /\ 4 \in Nat  BY <1>1
  <2> QED  BY <1>3, <2>1, PointsAre
<1>5. Scores!Points(2 * d, steps) =
        IF 2 * d >= 4 * w THEN 20 ELSE IF 2 * d >= 3 * w THEN 16
        ELSE IF 2 * d >= 2 * w THEN 11 ELSE IF 2 * d >= w THEN 6 ELSE 0
  <2>1. CASE \A i \in 1..4 : ~ (2 * d >= steps[i][1])
    <3>1. /\ ~ (2 * d >= steps[1][1]) /\ ~ (2 * d >= steps[2][1])
          /\ ~ (2 * d >= steps[3][1]) /\ ~ (2 * d >= steps[4][1])
      BY <2>1
    <3>2. \A k \in 1..4 : ~ (2 * d >= steps[k][1])  BY <2>1
    <3> QED  BY <1>3, <1>4, <3>1, <3>2
  <2>2. ASSUME NEW k \in 1..4, Scores!Points(2 * d, steps) = steps[k][2],
               2 * d >= steps[k][1], \A i \in 1 .. k - 1 : ~ (2 * d >= steps[i][1])
        PROVE  Scores!Points(2 * d, steps) =
                 IF 2 * d >= 4 * w THEN 20 ELSE IF 2 * d >= 3 * w THEN 16
                 ELSE IF 2 * d >= 2 * w THEN 11 ELSE IF 2 * d >= w THEN 6 ELSE 0
    <3>1. /\ k > 1 => ~ (2 * d >= steps[1][1])
          /\ k > 2 => ~ (2 * d >= steps[2][1])
          /\ k > 3 => ~ (2 * d >= steps[3][1])
      BY <2>2
    <3>2. k = 1 \/ k = 2 \/ k = 3 \/ k = 4  OBVIOUS
    <3> QED  BY <1>3, <2>2, <3>1, <3>2
  <2> QED  BY <1>4, <2>1, <2>2
<1> QED  BY <1>1, <1>2, <1>5 DEF d, w

\* Those for food,
LEMMA FoodIs ==
  ASSUME NEW h \in Answers
  PROVE  Scores!Food(h) =
           IF h.rcsi = Missing THEN 0
           ELSE IF h.rcsi >= 43 THEN 15 ELSE IF h.rcsi >= 19 THEN 11
           ELSE IF h.rcsi >= 4 THEN 6 ELSE 0
<1> DEFINE r == h.rcsi
           steps == <<<<43, 15>>, <<19, 11>>, <<4, 6>>>>
<1>1. r \in Nat \/ r = Missing  BY DEF Answers
<1>2. Scores!Food(h) = IF r = Missing THEN 0 ELSE Scores!Points(r, steps)  BY DEF Scores!Food
<1>3. /\ DOMAIN steps = 1..3
      /\ steps[1][1] = 43 /\ steps[2][1] = 19 /\ steps[3][1] = 4
      /\ steps[1][2] = 15 /\ steps[2][2] = 11 /\ steps[3][2] = 6
  OBVIOUS
<1> HIDE DEF steps, r
<1>4. ASSUME r \in Nat
      PROVE  Scores!Points(r, steps) =
               IF r >= 43 THEN 15 ELSE IF r >= 19 THEN 11 ELSE IF r >= 4 THEN 6 ELSE 0
  <2>1. \/ /\ Scores!Points(r, steps) = 0
           /\ \A i \in 1..3 : ~ (r >= steps[i][1])
        \/ \E k \in 1..3 : /\ Scores!Points(r, steps) = steps[k][2]
                           /\ r >= steps[k][1]
                           /\ \A i \in 1 .. k - 1 : ~ (r >= steps[i][1])
    <3>1. r \in Int /\ 3 \in Nat  BY <1>4
    <3> QED  BY <1>3, <3>1, PointsAre
  <2>2. CASE \A i \in 1..3 : ~ (r >= steps[i][1])
    <3>1. /\ ~ (r >= steps[1][1]) /\ ~ (r >= steps[2][1]) /\ ~ (r >= steps[3][1])  BY <2>2
    <3> QED  BY <1>3, <2>1, <2>2, <3>1
  <2>3. ASSUME NEW k \in 1..3, Scores!Points(r, steps) = steps[k][2],
               r >= steps[k][1], \A i \in 1 .. k - 1 : ~ (r >= steps[i][1])
        PROVE  Scores!Points(r, steps) =
                 IF r >= 43 THEN 15 ELSE IF r >= 19 THEN 11 ELSE IF r >= 4 THEN 6 ELSE 0
    <3>1. (k > 1 => ~ (r >= steps[1][1])) /\ (k > 2 => ~ (r >= steps[2][1]))  BY <2>3
    <3>2. k = 1 \/ k = 2 \/ k = 3  OBVIOUS
    <3> QED  BY <1>3, <1>4, <2>3, <3>1, <3>2
  <2> QED  BY <2>1, <2>2, <2>3
<1> QED  BY <1>1, <1>2, <1>4 DEF r

\* and for the income, in quarters of the need.
LEMMA IncomeIs ==
  ASSUME NEW h \in Answers
  PROVE  LET need == h.members * h.need_threshold_per_member
             income == 4 * h.monthly_income
         IN  /\ need \in Nat
             /\ Scores!Income(h) =
                  IF income < need THEN 20 ELSE IF income < 2 * need THEN 17
                  ELSE IF income < 3 * need THEN 14
                  ELSE IF income < 4 * need THEN 8 ELSE 0
<1> DEFINE need == h.members * h.need_threshold_per_member
           income == 4 * h.monthly_income
<1>1. h.members \in Nat /\ h.need_threshold_per_member \in Nat /\ income \in Nat  BY DEF Answers
<1>2. need \in Nat  BY <1>1
<1>3. Scores!Income(h) =
        IF income < 1 * need THEN 20 ELSE IF income < 2 * need THEN 17
        ELSE IF income < 3 * need THEN 14 ELSE IF income < 4 * need THEN 8 ELSE 0
  BY DEF Scores!Income
<1>4. 1 * need = need  BY <1>2
<1> QED  BY <1>2, <1>3, <1>4 DEF need, income

\* The other points, and how many there are of each kind.
LEMMA OtherPoints ==
  ASSUME NEW h \in Answers
  PROVE  /\ Scores!ShelterPoints[h.shelter] \in 0..12
         /\ Scores!Displacement(h) \in 0..10
         /\ h.displacement # Missing =>
              Scores!Displacement(h) = Scores!DisplacementPoints[h.displacement]
         /\ h.displacement = Missing => Scores!Displacement(h) = 0
         /\ Scores!HeadshipPoints[h.headship] \in 0..10
         /\ Scores!Health(h) =
              LET raw == h.disability_count * 6 + h.chronic_illness_count * 4
                           + h.under5_malnutrition_count * 7
              IN  IF raw < 13 THEN raw ELSE 13
<1>1. /\ h.shelter \in DOMAIN Scores!ShelterPoints
      /\ h.displacement \in DOMAIN Scores!DisplacementPoints \cup {Missing}
      /\ h.headship \in DOMAIN Scores!HeadshipPoints
  BY DEF Answers
<1>2. \A s \in DOMAIN Scores!ShelterPoints : Scores!ShelterPoints[s] \in 0..12
  BY DEF Scores!ShelterPoints
<1>3. \A d \in DOMAIN Scores!DisplacementPoints : Scores!DisplacementPoints[d] \in 0..10
  BY DEF Scores!DisplacementPoints
<1>4. \A s \in DOMAIN Scores!HeadshipPoints : Scores!HeadshipPoints[s] \in 0..10
  BY DEF Scores!HeadshipPoints
<1>5. Scores!Displacement(h) = IF h.displacement = Missing THEN 0
                               ELSE Scores!DisplacementPoints[h.displacement]
  BY DEF Scores!Displacement
<1>6. Scores!Displacement(h) \in 0..10  BY <1>1, <1>3, <1>5
<1> QED  BY <1>1, <1>2, <1>4, <1>5, <1>6 DEF Scores!Health

\* All points together are a hundred at most.
LEMMA ScoreWithin == ASSUME NEW h \in Answers PROVE Scores!Score(h) \in 0..100
<1> DEFINE a == Scores!Dependency(h)
           b == Scores!Income(h)
           c == Scores!ShelterPoints[h.shelter]
           d == Scores!Food(h)
           e == Scores!Displacement(h)
           f == Scores!Health(h)
           g == Scores!HeadshipPoints[h.headship]
<1>1. a \in 0..20  BY DependencyIs
<1>2. b \in 0..20  BY IncomeIs
<1>3. d \in 0..15  BY FoodIs
<1>4. c \in 0..12 /\ e \in 0..10 /\ g \in 0..10  BY OtherPoints
<1>5. f \in 0..13
  <2>1. /\ h.disability_count \in Nat /\ h.chronic_illness_count \in Nat
        /\ h.under5_malnutrition_count \in Nat
    BY DEF Answers
  <2> DEFINE raw == h.disability_count * 6 + h.chronic_illness_count * 4
                      + h.under5_malnutrition_count * 7
  <2>2. raw \in Nat  BY <2>1
  <2>3. f = IF raw < 13 THEN raw ELSE 13  BY OtherPoints
  <2> HIDE DEF raw, f
  <2> QED  BY <2>2, <2>3
<1>6. Scores!Score(h) = a + b + c + d + e + f + g  BY DEF Scores!Score
<1> HIDE DEF a, b, c, d, e, f, g
<1> QED  BY <1>1, <1>2, <1>3, <1>4, <1>5, <1>6

\* Whoever is worse off in every answer has no less points, whatever the numbers:
\* the ranking of RankingFair, for any two households.
THEOREM WorseNoLower ==
  ASSUME NEW h \in Answers, NEW g \in Answers, Scores!WorseOff(h, g)
  PROVE  Scores!Score(h) >= Scores!Score(g)
<1>1. Scores!Dependency(h) >= Scores!Dependency(g)
  <2>1. /\ h.dependents \in Nat /\ g.dependents \in Nat
        /\ h.working_age \in Int /\ g.working_age \in Int
    BY DEF Answers
  <2>2. h.dependents >= g.dependents /\ h.working_age <= g.working_age  BY DEF Scores!WorseOff
  <2> QED  BY <2>1, <2>2, DependencyIs
<1>2. Scores!Income(h) >= Scores!Income(g)
  <2>1. /\ h.members \in Nat /\ h.need_threshold_per_member \in Nat
        /\ g.members \in Nat /\ g.need_threshold_per_member \in Nat
        /\ h.monthly_income \in Nat /\ g.monthly_income \in Nat
    BY DEF Answers
  <2>2. /\ h.members >= g.members /\ h.monthly_income <= g.monthly_income
        /\ h.need_threshold_per_member >= g.need_threshold_per_member
    BY DEF Scores!WorseOff
  <2>3. \A m, n, t, u \in Nat : m >= n /\ t >= u => m * t >= n * u
    <3> SUFFICES ASSUME NEW m \in Nat, NEW n \in Nat, NEW t \in Nat, NEW u \in Nat,
                        m >= n, t >= u
                 PROVE  m * t >= n * u
      OBVIOUS
    <3> DEFINE a == m - n
               b == t - u
    <3>1. a \in Nat /\ b \in Nat /\ m = n + a /\ t = u + b  OBVIOUS
    <3> HIDE DEF a, b
    <3>2. m * t = n * u + n * b + a * u + a * b  BY <3>1
    <3>3. n * b \in Nat /\ a * u \in Nat /\ a * b \in Nat /\ n * u \in Nat  BY <3>1
    <3> QED  BY <3>2, <3>3
  <2> DEFINE need(x) == x.members * x.need_threshold_per_member
  <2>4. need(h) >= need(g)  BY <2>1, <2>2, <2>3
  <2>5. /\ need(h) \in Nat /\ need(g) \in Nat
        /\ \A x \in {h, g} :
             Scores!Income(x) =
               IF 4 * x.monthly_income < need(x) THEN 20
               ELSE IF 4 * x.monthly_income < 2 * need(x) THEN 17
               ELSE IF 4 * x.monthly_income < 3 * need(x) THEN 14
               ELSE IF 4 * x.monthly_income < 4 * need(x) THEN 8 ELSE 0
    BY IncomeIs
  <2> HIDE DEF need
  <2> QED  BY <2>1, <2>2, <2>4, <2>5
<1>3. Scores!ShelterPoints[h.shelter] >= Scores!ShelterPoints[g.shelter]  BY DEF Scores!WorseOff
<1>4. Scores!Food(h) >= Scores!Food(g)
  <2>1. /\ h.rcsi \in Nat \/ h.rcsi = Missing
        /\ g.rcsi \in Nat \/ g.rcsi = Missing
        /\ g.rcsi = Missing \/ (h.rcsi # Missing /\ h.rcsi >= g.rcsi)
    BY DEF Answers, Scores!WorseOff
  <2> QED  BY <2>1, FoodIs
<1>5. Scores!Displacement(h) >= Scores!Displacement(g)
  <2>1. \/ g.displacement = Missing
        \/ /\ h.displacement # Missing /\ g.displacement # Missing
           /\ Scores!DisplacementPoints[h.displacement]
                >= Scores!DisplacementPoints[g.displacement]
    BY DEF Scores!WorseOff
  <2> QED  BY <2>1, OtherPoints
<1>6. Scores!Health(h) >= Scores!Health(g)
  <2>1. /\ h.disability_count \in Nat /\ h.chronic_illness_count \in Nat
        /\ h.under5_malnutrition_count \in Nat
        /\ g.disability_count \in Nat /\ g.chronic_illness_count \in Nat
        /\ g.under5_malnutrition_count \in Nat
    BY DEF Answers
  <2>2. /\ h.disability_count >= g.disability_count
        /\ h.chronic_illness_count >= g.chronic_illness_count
        /\ h.under5_malnutrition_count >= g.under5_malnutrition_count
    BY DEF Scores!WorseOff
  <2> QED  BY <2>1, <2>2, OtherPoints
<1>7. Scores!HeadshipPoints[h.headship] >= Scores!HeadshipPoints[g.headship]
  BY DEF Scores!WorseOff
<1>8. \A x \in {h, g} :
        /\ Scores!Dependency(x) \in Int /\ Scores!Income(x) \in Int
        /\ Scores!ShelterPoints[x.shelter] \in Int /\ Scores!Food(x) \in Int
        /\ Scores!Displacement(x) \in Int /\ Scores!Health(x) \in Int
        /\ Scores!HeadshipPoints[x.headship] \in Int
  <2> SUFFICES ASSUME NEW x \in Answers
               PROVE  /\ Scores!Dependency(x) \in Int /\ Scores!Income(x) \in Int
                      /\ Scores!ShelterPoints[x.shelter] \in Int /\ Scores!Food(x) \in Int
                      /\ Scores!Displacement(x) \in Int /\ Scores!Health(x) \in Int
                      /\ Scores!HeadshipPoints[x.headship] \in Int
    OBVIOUS
  <2>1. /\ x.disability_count \in Nat /\ x.chronic_illness_count \in Nat
        /\ x.under5_malnutrition_count \in Nat
    BY DEF Answers
  <2>2. Scores!Dependency(x) \in Int /\ Scores!Income(x) \in Int /\ Scores!Food(x) \in Int
    BY DependencyIs, IncomeIs, FoodIs
  <2>3. Scores!Health(x) \in Int  BY <2>1, OtherPoints
  <2> QED  BY <2>2, <2>3, OtherPoints
<1> QED  BY <1>1, <1>2, <1>3, <1>4, <1>5, <1>6, <1>7, <1>8 DEF Scores!Score

\* The worked example of the method.
LEMMA BentiuIs == Scores!Score(Scores!Bentiu) = 79
<1> DEFINE h == Scores!Bentiu
<1>1. /\ h.dependents = 5 /\ h.working_age = 2 /\ h.monthly_income = 90000
      /\ h.members = 7 /\ h.need_threshold_per_member = 22000
      /\ h.shelter = "temporary" /\ h.rcsi = 22
      /\ h.displacement = "displaced_lt_12m" /\ h.disability_count = 1
      /\ h.chronic_illness_count = 1 /\ h.under5_malnutrition_count = 0
      /\ h.headship = "female_with_deps"
  BY DEF Scores!Bentiu
<1>2. h \in Answers
  BY DEF Scores!Bentiu, Answers, Scores!ShelterPoints, Scores!DisplacementPoints,
         Scores!HeadshipPoints
<1>3. h.rcsi # Missing /\ h.displacement # Missing  BY <1>1, MissingAssumption
<1> HIDE DEF h
<1>4. Scores!Dependency(h) = 20  BY <1>1, <1>2, DependencyIs
<1>5. Scores!Income(h) = 14  BY <1>1, <1>2, IncomeIs
<1>6. Scores!Food(h) = 11  BY <1>1, <1>2, <1>3, FoodIs
<1>7. Scores!Displacement(h) = 10 /\ Scores!Health(h) = 10
  BY <1>1, <1>2, <1>3, OtherPoints DEF Scores!DisplacementPoints
<1>8. Scores!ShelterPoints[h.shelter] = 8 /\ Scores!HeadshipPoints[h.headship] = 6
  BY <1>1 DEF Scores!ShelterPoints, Scores!HeadshipPoints
<1>9. Scores!Score(h) = 79  BY <1>4, <1>5, <1>6, <1>7, <1>8 DEF Scores!Score
<1> QED  BY <1>9 DEF h

\* The households of the run are answers.
LEMMA HouseholdsAnswer == Households \subseteq Answers
<1>1. Example \in Answers /\ BestOff \in Answers
  BY DEF Example, BestOff, Answers, Scores!ShelterPoints, Scores!DisplacementPoints,
         Scores!HeadshipPoints
<1>2. ASSUME NEW h \in Answers
      PROVE  /\ \A d \in Nat : [h EXCEPT !.dependents = d] \in Answers
             /\ \A w \in Int : [h EXCEPT !.working_age = w] \in Answers
             /\ \A m \in Nat : [h EXCEPT !.monthly_income = m] \in Answers
             /\ \A s \in DOMAIN Scores!ShelterPoints :
                  [h EXCEPT !.shelter = s] \in Answers
             /\ \A r \in Nat \cup {Missing} : [h EXCEPT !.rcsi = r] \in Answers
             /\ \A p \in DOMAIN Scores!DisplacementPoints \cup {Missing} :
                  [h EXCEPT !.displacement = p] \in Answers
             /\ \A n \in Nat : [h EXCEPT !.disability_count = n] \in Answers
             /\ \A s \in DOMAIN Scores!HeadshipPoints :
                  [h EXCEPT !.headship = s] \in Answers
  BY DEF Answers
<1>3. /\ {"none", "semi_permanent"} \subseteq DOMAIN Scores!ShelterPoints
      /\ {"returnee", "displaced_gt_12m"} \subseteq DOMAIN Scores!DisplacementPoints
      /\ {"child", "elderly_with_deps"} \subseteq DOMAIN Scores!HeadshipPoints
  BY DEF Scores!ShelterPoints, Scores!DisplacementPoints, Scores!HeadshipPoints
<1>4. /\ {1, 2, 3, 4} \subseteq Nat /\ {-1, 0, 1} \subseteq Int
      /\ {0, 38499, 38500, 77000, 115499} \subseteq Nat
      /\ {3, 4, 18, 19, 42, 43, 60} \subseteq Nat /\ {2, 3} \subseteq Nat
  OBVIOUS
<1> DEFINE like(h) ==
             {h} \cup {[h EXCEPT !.dependents = d] : d \in {1, 2, 3, 4}}
             \cup {[h EXCEPT !.working_age = w] : w \in {-1, 0, 1}}
             \cup {[h EXCEPT !.monthly_income = m] :
                     m \in {0, 38499, 38500, 77000, 115499}}
             \cup {[h EXCEPT !.shelter = s] : s \in {"none", "semi_permanent"}}
             \cup {[h EXCEPT !.rcsi = r] : r \in {Missing, 3, 4, 18, 19, 42, 43, 60}}
             \cup {[h EXCEPT !.displacement = p] :
                     p \in {Missing, "returnee", "displaced_gt_12m"}}
             \cup {[h EXCEPT !.disability_count = n] : n \in {2, 3}}
             \cup {[h EXCEPT !.headship = s] : s \in {"child", "elderly_with_deps"}}
<1>5. ASSUME NEW h \in Answers, NEW x \in like(h) PROVE x \in Answers
  <2>1. \/ x = h
        \/ \E d \in Nat : x = [h EXCEPT !.dependents = d]
        \/ \E w \in Int : x = [h EXCEPT !.working_age = w]
        \/ \E m \in Nat : x = [h EXCEPT !.monthly_income = m]
        \/ \E s \in DOMAIN Scores!ShelterPoints : x = [h EXCEPT !.shelter = s]
        \/ \E r \in Nat \cup {Missing} : x = [h EXCEPT !.rcsi = r]
        \/ \E p \in DOMAIN Scores!DisplacementPoints \cup {Missing} :
             x = [h EXCEPT !.displacement = p]
        \/ \E n \in Nat : x = [h EXCEPT !.disability_count = n]
        \/ \E s \in DOMAIN Scores!HeadshipPoints : x = [h EXCEPT !.headship = s]
    BY <1>3, <1>4
  <2> HIDE DEF like
  <2> QED  BY <1>2, <2>1
<1>6. Households = like(Example) \cup like(BestOff)  BY DEF Households
<1> HIDE DEF like
<1> QED  BY <1>1, <1>5, <1>6
-----------------------------------------------------------------------------
\* The score of an assessment, and its band, are those of its answers.
ScoredInv ==
  \A a \in assessments : /\ a.answers \in Households
                         /\ a.score = Scores!Score(a.answers)
                         /\ a.band = Scores!Band(Scores!Score(a.answers))

\* Every assessment keeps the score that it was given.
LEMMA ScoredInvariance == ScoreSpec => []ScoredInv
<1>1. Scores!ScoreInit => ScoredInv  BY DEF Scores!ScoreInit, ScoredInv
<1>2. ScoredInv /\ [Scores!ScoreNext]_scores => ScoredInv'
  <2> SUFFICES ASSUME ScoredInv, [Scores!ScoreNext]_scores PROVE ScoredInv'  OBVIOUS
  <2>1. CASE UNCHANGED assessments  BY <2>1 DEF ScoredInv
  <2>2. ASSUME NEW b \in Enrolled, NEW h \in Households, Scores!Assess(b, h)
        PROVE  ScoredInv'
    <3>1. PICK a : /\ a.answers = h /\ a.score = Scores!Score(h)
                   /\ a.band = Scores!Band(Scores!Score(h))
                   /\ assessments' = assessments \cup {a}
      BY <2>2 DEF Scores!Assess
    <3> QED  BY <3>1 DEF ScoredInv
  <2> QED  BY <2>1, <2>2 DEF Scores!ScoreNext, Scores!Register, Scores!Enrol, scores
<1> QED  BY <1>1, <1>2, PTL DEF ScoreSpec

\* Such assessments rank households by their answers.
LEMMA ScoredFair == ScoredInv => Scores!RankingFair
<1> SUFFICES ASSUME ScoredInv PROVE Scores!RankingFair  OBVIOUS
<1> DEFINE rank == [Low |-> 1, Moderate |-> 2, High |-> 3, Severe |-> 4]
<1>1. ASSUME NEW x \in 0..100, NEW y \in 0..100, x >= y
      PROVE  rank[Scores!Band(x)] >= rank[Scores!Band(y)]
  BY <1>1 DEF Scores!Band
<1>2. Scores!Band(79) = "Severe"  BY DEF Scores!Band
<1> HIDE DEF rank
<1>3. ASSUME NEW a \in assessments, NEW c \in assessments
      PROVE  /\ a.score \in 0..100
             /\ Scores!WorseOff(a.answers, c.answers) =>
                  a.score >= c.score /\ rank[a.band] >= rank[c.band]
             /\ a.answers = Scores!Bentiu => a.score = 79 /\ a.band = "Severe"
  <2>1. /\ a.answers \in Answers /\ c.answers \in Answers
        /\ a.score = Scores!Score(a.answers) /\ c.score = Scores!Score(c.answers)
        /\ a.band = Scores!Band(a.score) /\ c.band = Scores!Band(c.score)
    BY HouseholdsAnswer DEF ScoredInv
  <2>2. a.score \in 0..100 /\ c.score \in 0..100  BY <2>1, ScoreWithin
  <2>3. Scores!WorseOff(a.answers, c.answers) => a.score >= c.score  BY <2>1, WorseNoLower
  <2>4. Scores!WorseOff(a.answers, c.answers) => rank[a.band] >= rank[c.band]
    BY <1>1, <2>1, <2>2, <2>3
  <2>5. a.answers = Scores!Bentiu => a.score = 79 /\ a.band = "Severe"  BY <1>2, <2>1, BentiuIs
  <2> QED  BY <2>2, <2>3, <2>4, <2>5
<1> QED  BY <1>3 DEF Scores!RankingFair, rank

\* FiguresAgree: the tax of every payslip is that of its bands, to half a cent for
\* each or for the cumulative table to half a cent, and what it pays and deducts is
\* the gross; and the scores rank households by their answers.
THEOREM FiguresAgreeAlways == Spec => []FiguresAgree
<1>1. Pay!PayslipTypeOK => Pay!PayslipAgrees
  <2> SUFFICES ASSUME Pay!PayslipTypeOK PROVE Pay!PayslipAgrees  OBVIOUS
  <2>1. slip # NoSlip => Payable(slip)  BY InputsPayable DEF Pay!PayslipTypeOK
  <2> QED  BY <2>1, AnyPayslip
<1>2. Pay!PayslipTypeOK /\ ScoredInv => FiguresAgree  BY <1>1, ScoredFair DEF FiguresAgree
<1> QED  BY <1>2, Parts, PayslipTypes, ScoredInvariance, PTL
===============================================================================
