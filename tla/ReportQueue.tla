----------------------------- MODULE ReportQueue -----------------------------
(***************************************************************************)
(* Reports in the background (reporting-service, queue-routes): a job is   *)
(* queued within the quota of its tenant; a claim takes the job of the     *)
(* tenant that was served longest ago and writes its artifacts, one format *)
(* after the other, all in one transaction that keeps the job locked.      *)
(* Files are written on the way, whatever becomes of the transaction.      *)
(***************************************************************************)
EXTENDS Integers, FiniteSets, Sequences

CONSTANTS Orgs,      \* tenants
          Jobs,      \* ids of report_jobs, each an element of Orgs \X Nat
          Formats,   \* formats that every job asks for
          Clients,   \* requests to queue a job that may overlap
          Workers,   \* claims that may overlap
          MaxQueued, \* tenant_quotas.concurrent_reports
          MaxClaims, \* bound on the claims of a behaviour
          NoJob      \* "no job"

VARIABLES
  state,     \* state[j]: status of j in report_jobs, "none" before
  created,   \* jobs in the order of created_at, queued or about to be
  served,    \* served[o]: the latest finished_at of a completed job of o
  artifacts, \* committed report_artifacts: pairs of a job and a format
  files,     \* files on the disk: pairs of a job and a format
  asks,      \* asks[c]: the job that the request c is about to queue
  claims,    \* how many claims there were: the clock of the transactions
  claimed,   \* claimed[w]: the job that the claim w has locked
  began,     \* began[w]: when the claim w began
  stored,    \* stored[w]: formats whose artifact it has inserted
  waiting,   \* waiting[w]: tenants that had a job waiting when w claimed, and
             \* have not had one claimed since
  passed     \* passed[o]: jobs of other tenants that were claimed and completed
             \* while o was waiting

Org(j) == j[1]

queue == <<state, created, served, artifacts>>
claiming == <<claimed, began, stored, waiting>>

QueueInit ==
  /\ state = [j \in Jobs |-> "none"] /\ created = <<>>
  /\ served = [o \in Orgs |-> 0]
  /\ artifacts = {} /\ files = {}
  /\ asks = [c \in Clients |-> NoJob]
  /\ claims = 0
  /\ claimed = [w \in Workers |-> NoJob] /\ began = [w \in Workers |-> 0]
  /\ stored = [w \in Workers |-> {}] /\ waiting = [w \in Workers |-> {}]
  /\ passed = [o \in Orgs |-> 0]

-----------------------------------------------------------------------------
(* POST reporting/jobs.                                                    *)
QueuedOf(o) == {j \in Jobs : Org(j) = o /\ state[j] = "queued"}

Drawn(j) == state[j] # "none" \/ \E c \in Clients : asks[c] = j

\* The id of the job is fresh: here the first that is, which any other equals.
\* The quota is compared with what is committed.  A request that fails after it
\* leaves no trace, and is one that never asked.
CheckReports(c, j) ==
  /\ asks[c] = NoJob /\ ~ Drawn(j)
  /\ \A i \in Jobs : Org(i) = Org(j) /\ i[2] < j[2] => Drawn(i)
  /\ Cardinality(QueuedOf(Org(j))) < MaxQueued
  /\ asks' = [asks EXCEPT ![c] = j]
  /\ created' = Append(created, j)
  /\ UNCHANGED <<state, served, artifacts, files, claims, claiming, passed>>

Enqueue(c) ==
  /\ asks[c] # NoJob
  /\ state' = [state EXCEPT ![asks[c]] = "queued"]
  /\ asks' = [asks EXCEPT ![c] = NoJob]
  /\ UNCHANGED <<created, served, artifacts, files, claims, claiming, passed>>

-----------------------------------------------------------------------------
(* POST reporting/jobs/claim.                                              *)
Waiting == {j \in Jobs : state[j] = "queued" /\ \A w \in Workers : claimed[w] # j}

Position(j) == CHOOSE i \in 1..Len(created) : created[i] = j

\* ORDER BY the last completion of the tenant, then created_at.
Before(i, j) ==
  \/ served[Org(i)] < served[Org(j)]
  \/ served[Org(i)] = served[Org(j)] /\ Position(i) < Position(j)

ClaimJob(w, j) ==
  /\ claimed[w] = NoJob /\ claims < MaxClaims /\ j \in Waiting
  /\ claims' = claims + 1
  /\ claimed' = [claimed EXCEPT ![w] = j]
  /\ began' = [began EXCEPT ![w] = claims + 1]
  /\ waiting' = [v \in Workers |->
                   IF v = w THEN {Org(i) : i \in Waiting} \ {Org(j)}
                   ELSE waiting[v] \ {Org(j)}]
  /\ passed' = [passed EXCEPT ![Org(j)] = 0]
  /\ UNCHANGED <<queue, files, asks, stored>>

\* Mutant: the oldest job, whichever tenant has it.
ClaimOldest(w) ==
  \E j \in Waiting : /\ \A i \in Waiting \ {j} : Position(j) < Position(i)
                     /\ ClaimJob(w, j)

\* FOR UPDATE SKIP LOCKED LIMIT 1: the first job that nobody else has locked.
Claim(w) ==
  \E j \in Waiting : (\A i \in Waiting \ {j} : Before(j, i)) /\ ClaimJob(w, j)

\* storeArtifact: the file, which a rollback leaves, and its row.
StoreArtifact(w, f) ==
  /\ claimed[w] # NoJob /\ f \notin stored[w]
  /\ files' = files \cup {<<claimed[w], f>>}
  /\ stored' = [stored EXCEPT ![w] = @ \cup {f}]
  /\ UNCHANGED <<queue, asks, claims, claimed, began, waiting, passed>>

Release(w) ==
  /\ claimed' = [claimed EXCEPT ![w] = NoJob]
  /\ began' = [began EXCEPT ![w] = 0]
  /\ stored' = [stored EXCEPT ![w] = {}]
  /\ waiting' = [waiting EXCEPT ![w] = {}]

Settle(w, outcome) ==
  /\ state' = [state EXCEPT ![claimed[w]] = outcome]
  /\ artifacts' = artifacts \cup ({claimed[w]} \X stored[w])
  /\ Release(w)
  /\ UNCHANGED <<created, files, asks, claims>>

\* finished_at = now(), which is when the transaction began.
CompleteJob(w) ==
  LET o == Org(claimed[w])
  IN /\ claimed[w] # NoJob /\ stored[w] = Formats
     /\ Settle(w, "completed")
     /\ served' = [served EXCEPT ![o] = IF began[w] > @ THEN began[w] ELSE @]
     /\ passed' = [p \in Orgs |-> IF p \in waiting[w] THEN passed[p] + 1
                                                      ELSE passed[p]]

\* The disk or the layout fails: the job is failed and the rows of the formats
\* that were written are committed with it.
FailJob(w) ==
  /\ claimed[w] # NoJob
  /\ Settle(w, "failed")
  /\ UNCHANGED <<served, passed>>

\* A statement fails, which leaves the transaction unusable for the failure to
\* be noted in, or the process ends: ROLLBACK, and the job is queued again.
RollbackJob(w) ==
  /\ claimed[w] # NoJob
  /\ Release(w)
  /\ UNCHANGED <<queue, files, asks, claims, passed>>

QueueNext ==
  \/ \E c \in Clients : Enqueue(c) \/ \E j \in Jobs : CheckReports(c, j)
  \/ \E w \in Workers :
       \/ Claim(w) \/ CompleteJob(w) \/ FailJob(w) \/ RollbackJob(w)
       \/ \E f \in Formats : StoreArtifact(w, f)

-----------------------------------------------------------------------------
\* Type invariant.
QueueTypeOK ==
  /\ state \in [Jobs -> {"none", "queued", "completed", "failed"}]
  /\ {created[i] : i \in 1..Len(created)} \subseteq Jobs
  /\ served \in [Orgs -> 0..MaxClaims] /\ claims \in 0..MaxClaims
  /\ artifacts \subseteq Jobs \X Formats /\ files \subseteq Jobs \X Formats
  /\ asks \in [Clients -> Jobs \cup {NoJob}]
  /\ claimed \in [Workers -> Jobs \cup {NoJob}]
  /\ began \in [Workers -> 0..MaxClaims]
  /\ stored \in [Workers -> SUBSET Formats]
  /\ waiting \in [Workers -> SUBSET Orgs]
  /\ passed \in [Orgs -> Nat]

(* A tenant has no more jobs queued than its quota, and one more for each  *)
(* other request that compared at the same time.                           *)
QueueBounded ==
  \A o \in Orgs :
    Cardinality(QueuedOf(o)) <= MaxQueued - 1 + Cardinality(Clients)

(* While a tenant has a job waiting, each other tenant completes no more   *)
(* than one claim for each worker: the first completion puts it behind.    *)
(* Claims that fail are not in the count, and they do not put a tenant     *)
(* behind: a job whose statements fail is first in the queue again.        *)
PassedOverBounded ==
  \A o \in Orgs :
    passed[o] <= (Cardinality(Orgs) - 1) * Cardinality(Workers)

(* A completed job has an artifact for each of its formats and every       *)
(* artifact has its file; a queued job has no artifact, whatever files an  *)
(* earlier claim has left.                                                 *)
ReportsWhole ==
  /\ artifacts \subseteq files
  /\ \A j \in Jobs :
       LET formats == {f \in Formats : <<j, f>> \in artifacts}
       IN /\ state[j] = "completed" => formats = Formats
          /\ state[j] \in {"none", "queued"} => formats = {}
=============================================================================
