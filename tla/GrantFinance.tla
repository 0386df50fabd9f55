---------------------------- MODULE GrantFinance ----------------------------
(***************************************************************************)
(* Grants, budget versions and disbursements: the write handlers of        *)
(* backend/services/grant-service as PostgreSQL transactions at READ       *)
(* COMMITTED.  A session is one open request.  What a transaction has      *)
(* written but not committed is seen by nobody else, so it is kept in the  *)
(* session (req, seen) with the row locks it holds, and takes effect in    *)
(* Commit together with the rows of the outbox.  The audit event written   *)
(* before every COMMIT is the subject of AuditChain.                       *)
(***************************************************************************)
EXTENDS Integers, FiniteSets, Sequences, Functions

CONSTANTS Grants,         \* ids of awards
          Disbursements,  \* ids of disbursements
          Users,          \* preparers and approvers
          Sessions,       \* requests that may be open at the same time
          NoSession,      \* "nobody holds this row lock"
          NoUser,         \* approved_by IS NULL
          Amounts,        \* amounts of disbursements
          Totals,         \* budget totals
          MaxVersion      \* bound: budget versions a grant may come to have

ASSUME NonEmptyAssumption == Grants # {} /\ Disbursements # {} /\ Users # {}
ASSUME NoSessionAssumption == NoSession \notin Sessions
ASSUME NoUserAssumption == NoUser \notin Users
ASSUME AmountsAssumption ==
  Amounts \subseteq (Nat \ {0}) /\ Totals \subseteq Nat
\* The column has a largest amount; rows and requests are finitely many.
ASSUME LargestAssumption == \E a \in Amounts : \A b \in Amounts : b <= a
ASSUME FiniteAssumption ==
  IsFiniteSet(Disbursements) /\ IsFiniteSet(Sessions) /\ Sessions # {}
ASSUME MaxVersionAssumption == MaxVersion \in Nat \ {0}

VARIABLES
  budgets,        \* budgets[g]: the rows of grant_budgets, {} before g exists
  current,        \* current[g]: the versions of them that have is_current set
  disbursements,  \* disbursements[d]: the committed row
  outbox,         \* outbox[d]: the committed events about d, in commit order
  budgetLock,     \* budgetLock[g]: who holds the current budget row of g
  rowLock,        \* rowLock[d]: who holds the row of disbursement d
  pc,             \* pc[s]: the statement that session s has completed last
  req,            \* req[s]: the request of s
  seen            \* seen[s]: what s has read: a ceiling, a budget version

tables == <<budgets, current, disbursements, outbox>>
locks == <<budgetLock, rowLock>>
vars == <<tables, locks, pc, req, seen>>

-----------------------------------------------------------------------------
\* Mutant: money counts as committed only when it has been approved.
ApprovedStatuses == {"approved"}

\* The statuses that the sum of disbursedTotal counts.
CommittedStatuses == {"recorded", "pending_approval", "approved"}

Of(g) == {d \in Disbursements : /\ disbursements[d].status \in CommittedStatuses
                                /\ disbursements[d].grant = g}

\* disbursedTotal: the sum over the committed rows of the grant.
DisbursedTotal(g) ==
  SumFunctionOnSet([d \in Disbursements |-> disbursements[d].amount], Of(g))

Versions(g) == {b.version : b \in budgets[g]}

\* grantCeiling: the total of a current budget row.
Ceilings(g) == {b.total : b \in {x \in budgets[g] : x.version \in current[g]}}

\* COALESCE(MAX(version_number), 0)
LatestVersion(g) ==
  IF budgets[g] = {} THEN 0
  ELSE CHOOSE v \in Versions(g) : \A x \in Versions(g) : x <= v

NoRow == [status |-> "none", grant |-> CHOOSE g \in Grants : TRUE, amount |-> 0,
          created_by |-> NoUser, approved_by |-> NoUser]
NoReq == [grant |-> CHOOSE g \in Grants : TRUE,
          disbursement |-> CHOOSE d \in Disbursements : TRUE,
          user |-> CHOOSE u \in Users : TRUE, amount |-> 0]
NoSeen == [ceiling |-> 0, version |-> 0]

Init ==
  /\ budgets = [g \in Grants |-> {}]
  /\ current = [g \in Grants |-> {}]
  /\ disbursements = [d \in Disbursements |-> NoRow]
  /\ outbox = [d \in Disbursements |-> <<>>]
  /\ budgetLock = [g \in Grants |-> NoSession]
  /\ rowLock = [d \in Disbursements |-> NoSession]
  /\ pc = [s \in Sessions |-> "idle"]
  /\ req = [s \in Sessions |-> NoReq]
  /\ seen = [s \in Sessions |-> NoSeen]

-----------------------------------------------------------------------------
(* Beginning and ending a transaction.                                     *)
Step(s, from, to) == pc[s] = from /\ pc' = [pc EXCEPT ![s] = to]

Free(held, x, s) == held[x] \in {NoSession, s}

Released(held, s) ==
  [x \in DOMAIN held |-> IF held[x] = s THEN NoSession ELSE held[x]]

End(s) ==
  /\ pc' = [pc EXCEPT ![s] = "idle"]
  /\ req' = [req EXCEPT ![s] = NoReq]
  /\ seen' = [seen EXCEPT ![s] = NoSeen]
  /\ budgetLock' = Released(budgetLock, s)
  /\ rowLock' = Released(rowLock, s)

\* A failing check, an error of a statement or a lost connection.
Rollback(s) ==
  /\ pc[s] # "idle"
  /\ End(s)
  /\ UNCHANGED tables

BeginRequest(s, kind, r) ==
  /\ Step(s, "idle", kind)
  /\ req' = [req EXCEPT ![s] = r]
  /\ UNCHANGED <<tables, locks, seen>>

\* POST /v1/grant/grants: the grant and its budget version 1 are one commit,
\* and nobody can name the grant before it.
CreateGrant(g, total) ==
  /\ budgets[g] = {}
  /\ budgets' = [budgets EXCEPT ![g] = {[version |-> 1, total |-> total]}]
  /\ current' = [current EXCEPT ![g] = {1}]
  /\ UNCHANGED <<disbursements, outbox, locks, pc, req, seen>>

-----------------------------------------------------------------------------
(* POST .../disbursements: the ceiling, the sum, the insert.               *)
RecordSteps == {"record", "recordCeiling", "recorded"}

\* The id is drawn by the handler (randomUUID), so no other request has it.
BeginRecord(s, g, d, u, a) ==
  /\ budgets[g] # {}
  /\ disbursements[d].status = "none"
  /\ \A v \in Sessions : pc[v] \in RecordSteps => req[v].disbursement # d
  /\ BeginRequest(s, "record",
                  [grant |-> g, disbursement |-> d, user |-> u, amount |-> a])

\* The first query of assertWithinCeiling; the statuses it refuses are set
\* by no handler.
ReadCeiling(s) ==
  /\ \/ Step(s, "record", "recordCeiling")
     \/ Step(s, "approveRead", "approveCeiling")
  /\ \E c \in Ceilings(req[s].grant) :
       seen' = [seen EXCEPT ![s].ceiling = c]
  /\ UNCHANGED <<tables, locks, req>>

\* The second query and the comparison; where it fails the request rolls back.
WithinCeiling(s, additional) ==
  DisbursedTotal(req[s].grant) + additional <= seen[s].ceiling

CheckAndInsert(s) ==
  /\ Step(s, "recordCeiling", "recorded")
  /\ WithinCeiling(s, req[s].amount)
  /\ UNCHANGED <<tables, locks, req, seen>>

CommitRecord(s) ==
  LET d == req[s].disbursement
  IN  /\ pc[s] = "recorded"
      /\ disbursements' = [disbursements EXCEPT ![d] =
           [status |-> "recorded", grant |-> req[s].grant,
            amount |-> req[s].amount, created_by |-> req[s].user,
            approved_by |-> NoUser]]
      /\ outbox' = [outbox EXCEPT ![d] = Append(@, <<"recorded", req[s].user>>)]
      /\ End(s)
      /\ UNCHANGED <<budgets, current>>

-----------------------------------------------------------------------------
(* POST .../submit: one conditional UPDATE, which waits for the row's lock *)
(* and then looks at the status again.  It writes no event.                *)
RequestFor(d, u) == [grant |-> disbursements[d].grant, disbursement |-> d,
                     user |-> u, amount |-> 0]

BeginSubmit(s, d, u) ==
  /\ disbursements[d].status # "none"
  /\ BeginRequest(s, "submit", RequestFor(d, u))

\* Mutant: UPDATE ... WHERE id = $1, as approve has it.
SubmitAnyStatus(s) ==
  /\ Step(s, "submit", "submitted")
  /\ rowLock[req[s].disbursement] = NoSession
  /\ rowLock' = [rowLock EXCEPT ![req[s].disbursement] = s]
  /\ UNCHANGED <<tables, budgetLock, req, seen>>

SubmitUpdate(s) ==
  LET d == req[s].disbursement
  IN  /\ Step(s, "submit", "submitted")
      /\ rowLock[d] = NoSession
      /\ disbursements[d].status = "recorded"
      /\ rowLock' = [rowLock EXCEPT ![d] = s]
      /\ UNCHANGED <<tables, budgetLock, req, seen>>

CommitSubmit(s) ==
  /\ pc[s] = "submitted"
  /\ disbursements' = [disbursements EXCEPT
                         ![req[s].disbursement].status = "pending_approval"]
  /\ End(s)
  /\ UNCHANGED <<budgets, current, outbox>>

-----------------------------------------------------------------------------
(* POST .../approve: a SELECT with the checks, the ceiling, an UPDATE by   *)
(* id that looks at neither status nor version, the event.                 *)
BeginApprove(s, d, u) ==
  /\ disbursements[d].status # "none"
  /\ BeginRequest(s, "approve", RequestFor(d, u))

ReadForApproval(s) ==
  LET row == disbursements[req[s].disbursement]
  IN  /\ Step(s, "approve", "approveRead")
      /\ row.status \in {"pending_approval", "recorded"}
      /\ row.created_by # req[s].user
      /\ UNCHANGED <<tables, locks, req, seen>>

CheckApproval(s) ==
  /\ Step(s, "approveCeiling", "approveChecked")
  /\ WithinCeiling(s, 0)
  /\ UNCHANGED <<tables, locks, req, seen>>

\* Mutant: the event on its way before the transaction has committed.
ApprovePublishingEarly(s) ==
  LET d == req[s].disbursement
  IN  /\ Step(s, "approveChecked", "approved")
      /\ rowLock[d] = NoSession
      /\ rowLock' = [rowLock EXCEPT ![d] = s]
      /\ outbox' = [outbox EXCEPT ![d] = Append(@, <<"approved", req[s].user>>)]
      /\ UNCHANGED <<budgets, current, disbursements, budgetLock, req, seen>>

\* Waits for the row's lock; the CHECK constraint compares the two users.
ApproveUpdate(s) ==
  LET d == req[s].disbursement
  IN  /\ Step(s, "approveChecked", "approved")
      /\ rowLock[d] = NoSession
      /\ disbursements[d].created_by # req[s].user
      /\ rowLock' = [rowLock EXCEPT ![d] = s]
      /\ UNCHANGED <<tables, budgetLock, req, seen>>

CommitApprove(s) ==
  LET d == req[s].disbursement
      u == req[s].user
  IN  /\ pc[s] = "approved"
      /\ disbursements' = [disbursements EXCEPT ![d].status = "approved",
                                                ![d].approved_by = u]
      /\ outbox' = [outbox EXCEPT ![d] = Append(@, <<"approved", u>>)]
      /\ End(s)
      /\ UNCHANGED <<budgets, current>>

-----------------------------------------------------------------------------
(* POST .../budgets: a new version takes the place of the current one.     *)
ReviseSteps == {"revise", "unsetting", "unset", "revised"}

Revising(g) == {s \in Sessions : pc[s] \in ReviseSteps /\ req[s].grant = g}

BeginRevise(s, g, u, total) ==
  /\ budgets[g] # {}
  /\ LatestVersion(g) + Cardinality(Revising(g)) < MaxVersion
  /\ BeginRequest(s, "revise", [NoReq EXCEPT !.grant = g, !.user = u,
                                             !.amount = total])

\* UPDATE ... WHERE is_current: the statement's snapshot finds one row,
FindCurrent(s) ==
  /\ Step(s, "revise", "unsetting")
  /\ \E v \in current[req[s].grant] : seen' = [seen EXCEPT ![s].version = v]
  /\ UNCHANGED <<tables, locks, req>>

\* waits for the row's lock, and passes the row by if it is not current any
\* more: then nothing is updated and no row is locked.
UnsetCurrent(s) ==
  LET g == req[s].grant
  IN  /\ Step(s, "unsetting", "unset")
      /\ budgetLock[g] = NoSession
      /\ budgetLock' = IF seen[s].version \in current[g]
                       THEN [budgetLock EXCEPT ![g] = s] ELSE budgetLock
      /\ UNCHANGED <<tables, rowLock, req, seen>>

\* The versions that are current once s has unset the one it has locked.
StillCurrent(s) ==
  IF budgetLock[req[s].grant] = s THEN {} ELSE current[req[s].grant]

\* Mutant: no partial unique index on grant_budgets.
InsertWithoutIndex(s) ==
  /\ Step(s, "unset", "revised")
  /\ seen' = [seen EXCEPT ![s].version = LatestVersion(req[s].grant) + 1]
  /\ UNCHANGED <<tables, locks, req>>

\* MAX + 1 and the INSERT. The unique index on the current row of a grant
\* makes it wait for a session that is changing that row, and refuses it
\* while another row is current.
InsertBudget(s) ==
  /\ Step(s, "unset", "revised")
  /\ Free(budgetLock, req[s].grant, s)
  /\ StillCurrent(s) = {}
  /\ seen' = [seen EXCEPT ![s].version = LatestVersion(req[s].grant) + 1]
  /\ UNCHANGED <<tables, locks, req>>

CommitRevise(s) ==
  LET g == req[s].grant
  IN  /\ pc[s] = "revised"
      /\ budgets' = [budgets EXCEPT ![g] =
           @ \cup {[version |-> seen[s].version, total |-> req[s].amount]}]
      /\ current' = [current EXCEPT ![g] =
           StillCurrent(s) \cup {seen[s].version}]
      /\ End(s)
      /\ UNCHANGED <<disbursements, outbox>>

-----------------------------------------------------------------------------
\* No request is open: the service waits for the next one.
Quiet ==
  /\ \A s \in Sessions : pc[s] = "idle"
  /\ UNCHANGED vars

Record(s) == ReadCeiling(s) \/ CheckAndInsert(s) \/ CommitRecord(s)
Submit(s) == SubmitUpdate(s) \/ CommitSubmit(s)
Approve(s) == \/ ReadForApproval(s) \/ CheckApproval(s)
              \/ ApproveUpdate(s) \/ CommitApprove(s)
Revise(s) == \/ FindCurrent(s) \/ UnsetCurrent(s)
             \/ InsertBudget(s) \/ CommitRevise(s)

Begins(s) ==
  \/ \E g \in Grants, d \in Disbursements, u \in Users, a \in Amounts :
       BeginRecord(s, g, d, u, a)
  \/ \E d \in Disbursements, u \in Users :
       BeginSubmit(s, d, u) \/ BeginApprove(s, d, u)
  \/ \E g \in Grants, u \in Users, t \in Totals : BeginRevise(s, g, u, t)

Next ==
  \/ \E g \in Grants, t \in Totals : CreateGrant(g, t)
  \/ \E s \in Sessions : \/ Begins(s) \/ Record(s) \/ Submit(s)
                         \/ Approve(s) \/ Revise(s) \/ Rollback(s)
  \/ Quiet

Spec == Init /\ [][Next]_vars

-----------------------------------------------------------------------------
ApproveSteps == {"approve", "approveRead", "approveCeiling", "approveChecked",
                 "approved"}
States == {"idle", "submit", "submitted"} \cup RecordSteps \cup ApproveSteps
            \cup ReviseSteps

Budget == [version : Nat \ {0}, total : Totals]
Row == [status : CommittedStatuses \cup {"none"}, grant : Grants, amount : Nat,
        created_by : Users \cup {NoUser}, approved_by : Users \cup {NoUser}]
Request == [grant : Grants, disbursement : Disbursements, user : Users,
            amount : Nat]
Events == {"recorded", "approved"} \X Users

\* Type invariant.
TypeOK ==
  /\ budgets \in [Grants -> SUBSET Budget]
  /\ current \in [Grants -> SUBSET Nat]
  /\ disbursements \in [Disbursements -> Row]
  /\ outbox \in [Disbursements -> Seq(Events)]
  /\ budgetLock \in [Grants -> Sessions \cup {NoSession}]
  /\ rowLock \in [Disbursements -> Sessions \cup {NoSession}]
  /\ pc \in [Sessions -> States]
  /\ req \in [Sessions -> Request]
  /\ seen \in [Sessions -> [ceiling : Nat, version : Nat]]

(* Whatever revisions race each other, the versions of a grant's budget    *)
(* are numbered 1..n, one row each, and the newest is the one that is      *)
(* current: a ceiling always exists and is never ambiguous.                *)
OneCurrentBudget ==
  \A g \in Grants :
    /\ Versions(g) = 1 .. LatestVersion(g)
    /\ \A b, c \in budgets[g] : b.version = c.version => b = c
    /\ current[g] = IF budgets[g] = {} THEN {} ELSE {LatestVersion(g)}

(* What the prepared rows of a grant add up to, with those that open       *)
(* requests have inserted.                                                 *)
Prepared(g) ==
  LET rows == {d \in Disbursements : /\ disbursements[d].status # "none"
                                     /\ disbursements[d].grant = g}
      open == {s \in Sessions : pc[s] = "recorded" /\ req[s].grant = g}
  IN  SumFunctionOnSet([d \in Disbursements |-> disbursements[d].amount], rows)
        + SumFunctionOnSet([s \in Sessions |-> req[s].amount], open)

Highest(S) == CHOOSE x \in S : \A y \in S : y <= x

(* The check of the ceiling takes no lock, so requests that overlap pass   *)
(* it together; but each of them fits on its own, so the overrun is at     *)
(* most the largest amount for each of the other requests: it does not     *)
(* build up, however many requests follow.                                 *)
BoundedOverrun ==
  \A g \in Grants : budgets[g] # {} =>
    Prepared(g) <= Highest({b.total : b \in budgets[g]})
                     + (Cardinality(Sessions) - 1) * Highest(Amounts)

(* The events that consumers will see tell the story of the row: recorded  *)
(* by its preparer first and once, approved only if the row is, and last   *)
(* by the approver that the row names.                                     *)
Told(row, events) ==
  /\ row.status = "none" <=> Len(events) = 0
  /\ \A i \in DOMAIN events : /\ events[i][1] = "recorded" <=> i = 1
                              /\ i = 1 => events[i][2] = row.created_by
  /\ row.status = "approved" <=> Len(events) > 1
  /\ row.status = "approved" => events[Len(events)][2] = row.approved_by

EventsMatchRow == \A d \in Disbursements : Told(disbursements[d], outbox[d])

(* Approving wins against a submission that was waiting for it: an         *)
(* approved disbursement never goes back to awaiting approval.             *)
Rank(status) == CASE status = "none" -> 0
                  [] status = "recorded" -> 1
                  [] status = "pending_approval" -> 2
                  [] OTHER -> 3

StatusNeverRegresses ==
  [][\A d \in Disbursements :
       Rank(disbursements[d].status) <= Rank(disbursements'[d].status)]_vars

(* "Disbursement cannot be approved from its current status": an approved  *)
(* one is refused, so at most one approval of each is ever announced.      *)
ApprovedOnce ==
  \A d \in Disbursements :
    Cardinality({i \in DOMAIN outbox[d] : outbox[d][i][1] = "approved"}) <= 1
=============================================================================
