----------------------------- MODULE PaperBatch ------------------------------
(***************************************************************************)
(* Paper forms typed in bulk (field-data-service, paper/batches): a clerk  *)
(* opens a batch, adds rows to it, and commits it, which turns each row    *)
(* into a submission.  Every request is one READ COMMITTED transaction:    *)
(* what it has written is seen by the others when it commits, and until    *)
(* then its rows are locked.  The batch itself is never locked, so that    *)
(* requests for one batch overlap.                                         *)
(***************************************************************************)
EXTENDS Integers, FiniteSets

CONSTANTS Batches,    \* ids of paper_bulk_batches
          Serials,    \* paper_serial, which is unique for the tenant
          Sessions,   \* requests that may be under way at the same time
          NoBatch     \* "no batch"

ASSUME SessionsAssumption == IsFiniteSet(Sessions) /\ Sessions # {}
ASSUME NoBatchAssumption == NoBatch \notin Batches

VARIABLES
  status,    \* status[b]: the status of b in paper_bulk_batches
  batch_of,  \* batch_of[p]: the batch of the row with the serial p
  linked,    \* serials of the rows that have a submission_id
  made,      \* made[p]: how many submissions were made of the row
  job,       \* job[i]: what the request i is doing
  target,    \* target[i]: the batch that it is about
  todo,      \* todo[i]: serials that it has still to insert or to submit
  done,      \* done[i]: those it has inserted or submitted, uncommitted
  listed,    \* listed[p]: how many commits had p on their lists when the first
             \* of them committed
  late       \* rows that were committed behind the back of a commit

rows == <<status, batch_of, linked, made>>
history == <<listed, late>>
requests == <<job, target, todo, done>>
batchVars == <<rows, history, requests>>

PaperInit ==
  /\ status = [b \in Batches |-> "none"]
  /\ batch_of = [p \in Serials |-> NoBatch]
  /\ linked = {} /\ late = {}
  /\ made = [p \in Serials |-> 0] /\ listed = [p \in Serials |-> 0]
  /\ job = [i \in Sessions |-> "idle"]
  /\ target = [i \in Sessions |-> NoBatch]
  /\ todo = [i \in Sessions |-> {}]
  /\ done = [i \in Sessions |-> {}]

-----------------------------------------------------------------------------
\* POST paper/batches
OpenBatch(b) ==
  /\ status[b] = "none"
  /\ status' = [status EXCEPT ![b] = "open"]
  /\ UNCHANGED <<batch_of, linked, made, history, requests>>

Begin(i, b, kind, serials) ==
  /\ job[i] = "idle" /\ status[b] = "open"
  /\ job' = [job EXCEPT ![i] = kind]
  /\ target' = [target EXCEPT ![i] = b]
  /\ todo' = [todo EXCEPT ![i] = serials]
  /\ UNCHANGED <<rows, history, done>>

End(i) ==
  /\ job' = [job EXCEPT ![i] = "idle"]
  /\ target' = [target EXCEPT ![i] = NoBatch]
  /\ todo' = [todo EXCEPT ![i] = {}]
  /\ done' = [done EXCEPT ![i] = {}]

\* An error, a deadlock that the database breaks, a lost connection: ROLLBACK.
Rollback(i) == job[i] # "idle" /\ End(i) /\ UNCHANGED <<rows, history>>

-----------------------------------------------------------------------------
(* POST paper/batches/:id/rows.                                            *)
BeginAdd(i, b, serials) == Begin(i, b, "adding", serials)

\* ON CONFLICT (tenant_id, paper_serial) DO NOTHING; it waits for a request
\* that has inserted the same serial and not committed.
InsertRow(i, p) ==
  /\ job[i] = "adding" /\ p \in todo[i]
  /\ \A j \in Sessions \ {i} : job[j] = "adding" => p \notin done[j]
  /\ todo' = [todo EXCEPT ![i] = @ \ {p}]
  /\ done' = [done EXCEPT ![i] = IF batch_of[p] = NoBatch THEN @ \cup {p} ELSE @]
  /\ UNCHANGED <<rows, history, job, target>>

\* Has a commit of this batch taken its list of rows, or is it over?
CommitPassed(b) ==
  \/ status[b] = "committed"
  \/ \E j \in Sessions : job[j] = "linking" /\ target[j] = b

CommitAdd(i) ==
  /\ job[i] = "adding" /\ todo[i] = {}
  /\ batch_of' = [p \in Serials |-> IF p \in done[i] THEN target[i]
                                    ELSE batch_of[p]]
  /\ late' = IF CommitPassed(target[i]) THEN late \cup done[i] ELSE late
  /\ End(i)
  /\ UNCHANGED <<status, linked, made, listed>>

-----------------------------------------------------------------------------
(* POST paper/batches/:id/commit.                                          *)
BeginCommit(i, b) == Begin(i, b, "committing", {})

\* Mutant: the rows that have a submission already are not left out.
ListAllRows(i) ==
  /\ job[i] = "committing"
  /\ job' = [job EXCEPT ![i] = "linking"]
  /\ todo' = [todo EXCEPT ![i] = {p \in Serials : batch_of[p] = target[i]}]
  /\ UNCHANGED <<rows, history, target, done>>

\* SELECT ... WHERE batch_id = $1 AND submission_id IS NULL
ListRows(i) ==
  /\ job[i] = "committing"
  /\ job' = [job EXCEPT ![i] = "linking"]
  /\ todo' = [todo EXCEPT ![i] =
                {p \in Serials : batch_of[p] = target[i] /\ p \notin linked}]
  /\ UNCHANGED <<rows, history, target, done>>

\* INSERT the submission and UPDATE the row by its id alone, which waits for
\* another commit that has updated it.
SubmitRow(i, p) ==
  /\ job[i] = "linking" /\ p \in todo[i]
  /\ \A j \in Sessions \ {i} : job[j] = "linking" => p \notin done[j]
  /\ todo' = [todo EXCEPT ![i] = @ \ {p}]
  /\ done' = [done EXCEPT ![i] = @ \cup {p}]
  /\ UNCHANGED <<rows, history, job, target>>

\* Commits that have p on their lists.
Holders(p) ==
  {j \in Sessions : job[j] = "linking" /\ p \in todo[j] \cup done[j]}

Submitted(i) ==
  /\ linked' = linked \cup done[i]
  /\ made' = [p \in Serials |-> IF p \in done[i] THEN made[p] + 1 ELSE made[p]]
  /\ listed' = [p \in Serials |-> IF p \in done[i] /\ made[p] = 0
                                 THEN Cardinality(Holders(p)) ELSE listed[p]]

\* Mutant: the batch is closed when the first row has its submission.
CommitBatchEarly(i) ==
  /\ job[i] = "linking" /\ done[i] # {}
  /\ Submitted(i)
  /\ status' = [status EXCEPT ![target[i]] = "committed"]
  /\ End(i)
  /\ UNCHANGED <<batch_of, late>>

\* UPDATE the batch, by its id alone, and COMMIT.
CommitBatch(i) ==
  /\ job[i] = "linking" /\ todo[i] = {}
  /\ Submitted(i)
  /\ status' = [status EXCEPT ![target[i]] = "committed"]
  /\ End(i)
  /\ UNCHANGED <<batch_of, late>>

-----------------------------------------------------------------------------
PaperNext ==
  \/ \E b \in Batches : OpenBatch(b)
  \/ \E i \in Sessions :
       \/ \E b \in Batches :
            \/ \E serials \in SUBSET Serials \ {{}} : BeginAdd(i, b, serials)
            \/ BeginCommit(i, b)
       \/ \E p \in Serials : InsertRow(i, p) \/ SubmitRow(i, p)
       \/ CommitAdd(i) \/ ListRows(i) \/ CommitBatch(i)
       \/ Rollback(i)

PaperSpec == PaperInit /\ [][PaperNext]_batchVars

-----------------------------------------------------------------------------
\* Type invariant.
PaperTypeOK ==
  /\ status \in [Batches -> {"none", "open", "committed"}]
  /\ batch_of \in [Serials -> Batches \cup {NoBatch}]
  /\ linked \subseteq Serials /\ late \subseteq Serials
  /\ made \in [Serials -> Nat] /\ listed \in [Serials -> Nat]
  /\ job \in [Sessions -> {"idle", "adding", "committing", "linking"}]
  /\ target \in [Sessions -> Batches \cup {NoBatch}]
  /\ todo \in [Sessions -> SUBSET Serials]
  /\ done \in [Sessions -> SUBSET Serials]

(* A paper form becomes more than one submission only where several        *)
(* commits had it on their lists when the first of them committed, and     *)
(* then no more than these: nothing locks the batch or its rows between    *)
(* the SELECT and the UPDATE.                                              *)
SubmissionsBounded == \A p \in Serials : made[p] <= listed[p]

(* Every row of a batch that is committed has become a submission, except  *)
(* the rows that another request committed after the list was taken: these *)
(* stay in a batch that accepts no further commit.                         *)
NoRowLeftBehind ==
  \A p \in Serials :
    batch_of[p] # NoBatch /\ status[batch_of[p]] = "committed"
      => p \in linked \cup late
=============================================================================
