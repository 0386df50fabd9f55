------------------------------- MODULE Erasure -------------------------------
(***************************************************************************)
(* Requests of a person to be erased (tenant-service, erasure-requests):   *)
(* recorded, approved by somebody else, and executed.  The execution reads *)
(* that the request is approved without a lock and writes by the id alone. *)
(* Of the three kinds of subjects only employees have something erased.    *)
(***************************************************************************)
EXTENDS Integers, FiniteSets

CONSTANTS Pleas,     \* ids of erasure_requests
          Staff,     \* users
          Runners,   \* executions that may be under way at the same time
          NoPlea     \* "no request" and "no user"

VARIABLES
  plea,      \* plea[q]: the status of q, "none" before it is recorded
  kind,      \* kind[q]: subject_type
  recorder,  \* recorder[q]: recorded_by
  erased,    \* requests whose subject was redacted
  log,       \* log[q]: rows of q in erasure_log
  executing,      \* executing[u]: the request that the execution u is about
  atfirst    \* atfirst[q]: executions of q under way when the first committed

Kinds == {"employee", "user", "beneficiary"}

ErasureInit ==
  /\ plea = [q \in Pleas |-> "none"]
  /\ kind = [q \in Pleas |-> NoPlea]
  /\ recorder = [q \in Pleas |-> NoPlea]
  /\ erased = {}
  /\ log = [q \in Pleas |-> 0] /\ atfirst = [q \in Pleas |-> 0]
  /\ executing = [u \in Runners |-> NoPlea]

-----------------------------------------------------------------------------
\* POST tenant/erasure-requests
Record(q, o, subject) ==
  /\ plea[q] = "none"
  /\ plea' = [plea EXCEPT ![q] = "pending_assessment"]
  /\ recorder' = [recorder EXCEPT ![q] = o]
  /\ kind' = [kind EXCEPT ![q] = subject]
  /\ UNCHANGED <<erased, log, executing, atfirst>>

\* POST tenant/erasure-requests/:id/approve; a CHECK refuses the recorder.
ApproveErasure(q, o) ==
  /\ plea[q] = "pending_assessment" /\ recorder[q] # o
  /\ plea' = [plea EXCEPT ![q] = "approved"]
  /\ UNCHANGED <<kind, recorder, erased, log, executing, atfirst>>

\* Mutant: a request that was executed may be executed again.
BeginExecutionAgain(u, q) ==
  /\ executing[u] = NoPlea /\ plea[q] \in {"approved", "executed"}
  /\ executing' = [executing EXCEPT ![u] = q]
  /\ UNCHANGED <<plea, kind, recorder, erased, log, atfirst>>

\* POST tenant/erasure-requests/:id/execute: SELECT ... status = 'approved'
BeginExecution(u, q) ==
  /\ executing[u] = NoPlea /\ plea[q] = "approved"
  /\ executing' = [executing EXCEPT ![u] = q]
  /\ UNCHANGED <<plea, kind, recorder, erased, log, atfirst>>

\* UPDATE the employee, INSERT the log, UPDATE the request by its id, COMMIT.
\* Whoever waits for one of the rows does the same once more after it.
CommitExecution(u) ==
  LET q == executing[u]
      employee == q # NoPlea /\ kind[q] = "employee"
  IN /\ q # NoPlea
     /\ plea' = [plea EXCEPT ![q] = "executed"]
     /\ erased' = IF employee THEN erased \cup {q} ELSE erased
     /\ log' = [log EXCEPT ![q] = IF employee THEN @ + 1 ELSE @]
     /\ atfirst' = [atfirst EXCEPT ![q] =
                      IF plea[q] = "executed" THEN @
                      ELSE Cardinality({v \in Runners : executing[v] = q})]
     /\ executing' = [executing EXCEPT ![u] = NoPlea]
     /\ UNCHANGED <<kind, recorder>>

RollbackExecution(u) ==
  /\ executing[u] # NoPlea
  /\ executing' = [executing EXCEPT ![u] = NoPlea]
  /\ UNCHANGED <<plea, kind, recorder, erased, log, atfirst>>

ErasureNext ==
  \/ \E q \in Pleas, o \in Staff :
       \/ \E subject \in Kinds : Record(q, o, subject)
       \/ ApproveErasure(q, o)
  \/ \E u \in Runners :
       \/ \E q \in Pleas : BeginExecution(u, q)
       \/ CommitExecution(u) \/ RollbackExecution(u)

-----------------------------------------------------------------------------
\* Type invariant.
ErasureTypeOK ==
  /\ plea \in [Pleas -> {"none", "pending_assessment", "approved", "executed"}]
  /\ kind \in [Pleas -> Kinds \cup {NoPlea}]
  /\ recorder \in [Pleas -> Staff \cup {NoPlea}]
  /\ erased \subseteq Pleas
  /\ log \in [Pleas -> Nat] /\ atfirst \in [Pleas -> 0..Cardinality(Runners)]
  /\ executing \in [Runners -> Pleas \cup {NoPlea}]

(* A request that says it was executed has erased its subject if this is   *)
(* an employee (of a user or a beneficiary it erases nothing, and says     *)
(* executed), and is logged once, or once for each execution that was      *)
(* under way when the first committed.                                     *)
ExecutedOnce ==
  \A q \in Pleas :
    /\ plea[q] = "executed" /\ kind[q] = "employee" <=> q \in erased
    /\ q \in erased => log[q] \in 1..atfirst[q]
=============================================================================
