---------------------------- MODULE OutboxRelay -----------------------------
(***************************************************************************)
(* The outbox relay of backend/services/outbox-relay with its Redis sink:  *)
(* replicas that take a batch of unpublished rows FOR UPDATE SKIP LOCKED,  *)
(* publish them one after the other, mark each in the same transaction and *)
(* commit the marks of the whole batch at its end.  Redis may refuse a     *)
(* publish or keep the reply back, and a replica may stop anywhere.        *)
(***************************************************************************)
EXTENDS Integers, FiniteSets

CONSTANTS Events,       \* events, named by their created_at
          Relays,       \* replicas of the relay
          BatchSize,    \* OUTBOX_BATCH_SIZE
          SmallintMax,  \* largest value of publish_attempts
          MaxFaults,    \* bound: publishes that fail
          MaxCrashes,   \* bound: batches that are cut short
          MaxCopies     \* bound: copies of an event that are told apart

ASSUME EventsAssumption == Events \subseteq Nat
ASSUME BoundsAssumption ==
  /\ BatchSize \in Nat \ {0} /\ SmallintMax \in Nat \ {0}
  /\ MaxFaults \in Nat /\ MaxCrashes \in Nat /\ MaxCopies \in Nat \ {0}

VARIABLES
  rows,       \* committed rows of outbox
  published,  \* those with published_at set
  attempts,   \* attempts[e]: the committed publish_attempts of e
  phase,      \* phase[r]: what relay r is doing
  batch,      \* batch[r]: the rows that the open transaction of r has locked
  todo,       \* todo[r]: those of them that r has not dealt with
  marks,      \* marks[r]: those that r has marked published, uncommitted
  copies,     \* copies[e]: how often e is on the stream
  faults,     \* publishes that have failed
  crashes     \* batches that were cut short

table == <<rows, published, attempts>>
relay == <<phase, batch, todo, marks>>
vars == <<table, relay, copies, faults, crashes>>

Init ==
  /\ rows = {} /\ published = {}
  /\ attempts = [e \in Events |-> 0]
  /\ phase = [r \in Relays |-> "idle"]
  /\ batch = [r \in Relays |-> {}]
  /\ todo = [r \in Relays |-> {}]
  /\ marks = [r \in Relays |-> {}]
  /\ copies = [e \in Events |-> 0]
  /\ faults = 0 /\ crashes = 0

-----------------------------------------------------------------------------
\* A producer commits its business rows and the outbox row together. The
\* commits need not follow created_at, the start of the transactions.
ProducerCommit(e) ==
  /\ e \notin rows
  /\ rows' = rows \cup {e}
  /\ UNCHANGED <<published, attempts, relay, copies, faults, crashes>>

Locked == UNION {batch[r] : r \in Relays}

\* Mutant: a plain SELECT, without FOR UPDATE SKIP LOCKED.
Unpublished == rows \ published

\* WHERE published_at IS NULL ... FOR UPDATE SKIP LOCKED
Pending == (rows \ published) \ Locked

\* ORDER BY created_at ASC LIMIT BatchSize
IsOldest(B, P) ==
  /\ \A b \in B, p \in P \ B : b < p
  /\ Cardinality(B) <= BatchSize
  /\ Cardinality(B) < BatchSize => B = P

\* An empty result ends the transaction at once, and the loop sleeps.
BeginBatch(r) ==
  /\ phase[r] = "idle"
  /\ \E B \in (SUBSET Pending) \ {{}} :
       /\ IsOldest(B, Pending)
       /\ batch' = [batch EXCEPT ![r] = B]
       /\ todo' = [todo EXCEPT ![r] = B]
  /\ phase' = [phase EXCEPT ![r] = "publishing"]
  /\ UNCHANGED <<table, marks, copies, faults, crashes>>

-----------------------------------------------------------------------------
(* One row of the batch after the other: xAdd, then an UPDATE.             *)
IsNext(r, e) == e \in todo[r] /\ \A x \in todo[r] : e <= x

\* The stream takes another copy of e.
Added(e) ==
  copies' = [copies EXCEPT ![e] = IF @ < MaxCopies THEN @ + 1 ELSE @]

XAdd(r, e) ==
  /\ phase[r] = "publishing" /\ IsNext(r, e)
  /\ Added(e)
  /\ phase' = [phase EXCEPT ![r] = "added"]
  /\ UNCHANGED <<table, batch, todo, marks, faults, crashes>>

\* Redis refuses, or the connection closes before the reply: then the entry
\* may be on the stream all the same.
XAddFails(r, e) ==
  /\ phase[r] = "publishing" /\ IsNext(r, e)
  /\ faults < MaxFaults /\ faults' = faults + 1
  /\ Added(e) \/ UNCHANGED copies
  /\ phase' = [phase EXCEPT ![r] = "failed"]
  /\ UNCHANGED <<table, batch, todo, marks, crashes>>

\* Both UPDATEs add 1 to publish_attempts, which must stay a smallint.
Dealt(r, e) ==
  /\ IsNext(r, e)
  /\ attempts[e] < SmallintMax
  /\ todo' = [todo EXCEPT ![r] = @ \ {e}]
  /\ phase' = [phase EXCEPT ![r] = "publishing"]
  /\ UNCHANGED <<table, batch, copies, faults, crashes>>

MarkPublished(r, e) ==
  /\ phase[r] = "added"
  /\ Dealt(r, e)
  /\ marks' = [marks EXCEPT ![r] = @ \cup {e}]

\* Mutant: published_at set in the failure branch too, to be done with it.
MarkFailedAsPublished(r, e) ==
  /\ phase[r] = "failed"
  /\ Dealt(r, e)
  /\ marks' = [marks EXCEPT ![r] = @ \cup {e}]

MarkFailed(r, e) ==
  /\ phase[r] = "failed"
  /\ Dealt(r, e)
  /\ UNCHANGED marks

-----------------------------------------------------------------------------
(* The end of a batch.                                                     *)
Idle(r) ==
  /\ phase' = [phase EXCEPT ![r] = "idle"]
  /\ batch' = [batch EXCEPT ![r] = {}]
  /\ todo' = [todo EXCEPT ![r] = {}]
  /\ marks' = [marks EXCEPT ![r] = {}]

CommitBatch(r) ==
  /\ phase[r] = "publishing" /\ todo[r] = {}
  /\ published' = published \cup marks[r]
  /\ attempts' = [e \in Events |-> IF e \in batch[r] THEN attempts[e] + 1
                                                     ELSE attempts[e]]
  /\ Idle(r)
  /\ UNCHANGED <<rows, copies, faults, crashes>>

\* publish_attempts + 1 is out of range: the UPDATE fails, the one in the
\* catch block fails in the aborted transaction, and drainBatch rolls back.
Overflow(r, e) ==
  /\ phase[r] \in {"added", "failed"} /\ IsNext(r, e)
  /\ attempts[e] >= SmallintMax
  /\ Idle(r)
  /\ UNCHANGED <<table, copies, faults, crashes>>

\* Mutant: rows claimed by a column, which nobody resets after a crash.
CrashKeepingClaims(r) ==
  /\ phase[r] # "idle"
  /\ crashes < MaxCrashes /\ crashes' = crashes + 1
  /\ phase' = [phase EXCEPT ![r] = "idle"]
  /\ todo' = [todo EXCEPT ![r] = {}]
  /\ marks' = [marks EXCEPT ![r] = {}]
  /\ UNCHANGED <<table, batch, copies, faults>>

\* The process stops or loses the database: the transaction rolls back, the
\* stream keeps what it has.
Crash(r) ==
  /\ phase[r] # "idle"
  /\ crashes < MaxCrashes /\ crashes' = crashes + 1
  /\ Idle(r)
  /\ UNCHANGED <<table, copies, faults>>

\* Nothing to publish: the relays poll.
Poll ==
  /\ \A r \in Relays : phase[r] = "idle"
  /\ rows = published
  /\ UNCHANGED vars

Drain(r) ==
  \/ BeginBatch(r)
  \/ \E e \in Events : \/ XAdd(r, e) \/ MarkPublished(r, e) \/ MarkFailed(r, e)
                      \/ Overflow(r, e)
  \/ CommitBatch(r)

Next ==
  \/ \E e \in Events : ProducerCommit(e)
  \/ \E r \in Relays : \/ Drain(r) \/ Crash(r)
                       \/ \E e \in Events : XAddFails(r, e)
  \/ Poll

Spec == Init /\ [][Next]_vars

\* A relay keeps going; its loop goes on after an error.
FairSpec == Spec /\ \A r \in Relays : WF_vars(Drain(r))

-----------------------------------------------------------------------------
Phases == {"idle", "publishing", "added", "failed"}

\* Type invariant. publish_attempts stays a smallint.
TypeOK ==
  /\ rows \subseteq Events /\ published \subseteq Events
  /\ attempts \in [Events -> 0 .. SmallintMax]
  /\ phase \in [Relays -> Phases]
  /\ batch \in [Relays -> SUBSET Events]
  /\ todo \in [Relays -> SUBSET Events]
  /\ marks \in [Relays -> SUBSET Events]
  /\ copies \in [Events -> 0 .. MaxCopies]
  /\ faults \in 0 .. MaxFaults /\ crashes \in 0 .. MaxCrashes

Sent == {e \in Events : copies[e] > 0}

(* No event is lost: published_at is only ever set on a row whose event is *)
(* on the stream, and only committed rows are on the stream, whatever      *)
(* failures, crashes and rollbacks came between xAdd and the COMMIT.       *)
PublishedWasSent == published \subseteq Sent /\ Sent \subseteq rows

(* Replicas relay in parallel without duplicating: no row is in the hands  *)
(* of two of them, nor in those of one after another has published it.     *)
BatchesDisjoint ==
  /\ \A r, q \in Relays : r # q => batch[r] \cap batch[q] = {}
  /\ \A r \in Relays : batch[r] \cap published = {}

(* A row that is published stays so and is never sent again, by any        *)
(* replica, also not by one whose batch began before the other committed.  *)
PublishedIsFinal ==
  [][\A e \in published : e \in published' /\ copies'[e] = copies[e]]_vars

\* Some row has used up the range of publish_attempts.
Exhausted == \E e \in rows \ published : attempts[e] = SmallintMax

\* The second copy of an event, the third, and so on.
Repeats == {x \in Events \X (2 .. MaxCopies) : x[2] <= copies[x[1]]}

(* Every duplicate on the stream has a cause: the failed publishes, and at *)
(* most one batch for each crash.                                          *)
DuplicatesBounded ==
  Exhausted \/ Cardinality(Repeats) <= faults + crashes * BatchSize

(* Every event that a transaction committed is published in the end, unless*)
(* a row has failed so often that publish_attempts can take no more.       *)
EventuallyPublished ==
  \A e \in Events : e \in rows ~> (e \in published \/ Exhausted)

Promised == INSTANCE AtLeastOnce
            WITH Events <- Events, recorded <- rows, sent <- Sent,
                 settled <- published

(* The relay implements at-least-once delivery: every step is a step of    *)
(* AtLeastOnce, or none.                                                   *)
ImplementsAtLeastOnce == Promised!Spec
=============================================================================
