----------------------------- MODULE AuditChain -----------------------------
(***************************************************************************)
(* The hash-chained audit trail of backend/packages/audit, as the request  *)
(* handlers of every service use it: inside an open transaction that has   *)
(* already changed a business row, writeAuditEvent takes the tenant's      *)
(* transaction-scoped advisory lock, reads the tip of the tenant's chain,  *)
(* inserts the next event and leaves the lock to the COMMIT or ROLLBACK.   *)
(*                                                                         *)
(* A writer is one transaction at READ COMMITTED: its INSERT is invisible  *)
(* to the others until Commit, and every statement reads the rows that are *)
(* committed when the statement starts.                                    *)
(***************************************************************************)
EXTENDS Integers, FiniteSets

CONSTANTS Tenants,    \* the tenants, each with a chain of its own
          Writers,    \* transactions that may be open at the same time
          Rows,       \* business rows the transactions update first
          Bodies,     \* audited contents, as the handlers pass them
          Stored,     \* what the columns of audit_events give back of a content
          NoWriter,   \* "nobody holds this lock"
          MaxEvents   \* bound: events a tenant may come to have

ASSUME NonEmptyAssumption == Tenants # {} /\ Rows # {} /\ Bodies # {}
ASSUME StoredAssumption == Stored \in [Bodies -> Bodies]
ASSUME NoWriterAssumption == NoWriter \notin Writers
ASSUME MaxEventsAssumption == MaxEvents \in Nat

VARIABLES
  events,     \* events[t]: the committed rows of audit_events of tenant t
  lock,       \* lock[t]: who holds the advisory lock of tenant t
  rowLock,    \* rowLock[r]: who holds the lock of business row r
  pc,         \* pc[w]: the statement that transaction w has completed last
  job,        \* job[w]: the tenant, business row and content of w
  draft       \* draft[w]: the sequence and previous hash w has read

vars == <<events, lock, rowLock, pc, job, draft>>

-----------------------------------------------------------------------------
(* SHA-256 over the joined fields is abstracted to the tuple of what it is *)
(* computed from: equal digests only for equal inputs.                     *)
NoHash == <<>>
Digest(previousHash, sequence, body) == <<previousHash, sequence, body>>

\* The sequences of a set of rows of audit_events.
SequencesOf(E) == {e.sequence : e \in E}

\* COALESCE(MAX(sequence), 0)
MaxSequence(E) ==
  IF E = {} THEN 0
  ELSE CHOOSE s \in SequencesOf(E) : \A x \in SequencesOf(E) : x <= s

\* The hash of the row the sequence names: NoHash where there is none.
HashAt(E, s) ==
  IF \E e \in E : e.sequence = s
  THEN (CHOOSE e \in E : e.sequence = s).recordHash
  ELSE NoHash

\* Mutant: ORDER BY sequence ASC LIMIT 1, the first event instead of the last.
OldestHash(E) == HashAt(E, 1)

\* SELECT record_hash ... ORDER BY sequence DESC LIMIT 1
TipHash(E) == HashAt(E, MaxSequence(E))

NoJob == [tenant |-> CHOOSE t \in Tenants : TRUE,
          row    |-> CHOOSE r \in Rows : TRUE,
          body   |-> CHOOSE b \in Bodies : TRUE]
NoDraft == [sequence |-> 0, previousHash |-> NoHash]

Init ==
  /\ events = [t \in Tenants |-> {}]
  /\ lock = [t \in Tenants |-> NoWriter]
  /\ rowLock = [r \in Rows |-> NoWriter]
  /\ pc = [w \in Writers |-> "idle"]
  /\ job = [w \in Writers |-> NoJob]
  /\ draft = [w \in Writers |-> NoDraft]

-----------------------------------------------------------------------------
Open(t) == {w \in Writers : pc[w] # "idle" /\ job[w].tenant = t}

\* BEGIN and set_config('app.tenant_id'): the handler has its request.
Begin(w, t, r, b) ==
  /\ pc[w] = "idle"
  /\ Cardinality(events[t]) + Cardinality(Open(t)) < MaxEvents
  /\ job' = [job EXCEPT ![w] = [tenant |-> t, row |-> r, body |-> b]]
  /\ pc' = [pc EXCEPT ![w] = "begun"]
  /\ UNCHANGED <<events, lock, rowLock, draft>>

\* The business UPDATE of the handler; it waits for the row's lock.
ChangeRow(w) ==
  /\ pc[w] = "begun"
  /\ rowLock[job[w].row] = NoWriter
  /\ rowLock' = [rowLock EXCEPT ![job[w].row] = w]
  /\ pc' = [pc EXCEPT ![w] = "changed"]
  /\ UNCHANGED <<events, lock, job, draft>>

\* Mutant: the lock taken before the row.
TakeAuditLockAtAnyTime(w) ==
  /\ pc[w] \in {"begun", "changed"}
  /\ lock[job[w].tenant] \in {NoWriter, w}
  /\ lock' = [lock EXCEPT ![job[w].tenant] = w]
  /\ pc' = [pc EXCEPT ![w] = IF @ = "changed" THEN "locked" ELSE @]
  /\ UNCHANGED <<events, rowLock, job, draft>>

\* pg_advisory_xact_lock: waits for the transaction that holds it to end.
TakeAuditLock(w) ==
  /\ pc[w] = "changed"
  /\ lock[job[w].tenant] = NoWriter
  /\ lock' = [lock EXCEPT ![job[w].tenant] = w]
  /\ pc' = [pc EXCEPT ![w] = "locked"]
  /\ UNCHANGED <<events, rowLock, job, draft>>

\* Mutant: a sequence of its own for each open transaction of the tenant.
ReadTipReserving(w) ==
  /\ pc[w] = "locked"
  /\ draft' = [draft EXCEPT ![w] =
                [sequence     |-> MaxSequence(events[job[w].tenant])
                                    + Cardinality(Open(job[w].tenant)),
                 previousHash |-> TipHash(events[job[w].tenant])]]
  /\ pc' = [pc EXCEPT ![w] = "drafted"]
  /\ UNCHANGED <<events, lock, rowLock, job>>

\* One SELECT for the next sequence and the hash of the tip.
ReadTip(w) ==
  /\ pc[w] = "locked"
  /\ draft' = [draft EXCEPT ![w] =
                [sequence     |-> MaxSequence(events[job[w].tenant]) + 1,
                 previousHash |-> TipHash(events[job[w].tenant])]]
  /\ pc' = [pc EXCEPT ![w] = "drafted"]
  /\ UNCHANGED <<events, lock, rowLock, job>>

\* The row that w inserts: hashed from the content as passed, kept as stored.
Event(w) ==
  [sequence     |-> draft[w].sequence,
   previousHash |-> draft[w].previousHash,
   body         |-> Stored[job[w].body],
   recordHash   |-> Digest(draft[w].previousHash, draft[w].sequence,
                           job[w].body)]

\* INSERT: accepted where the primary key (tenant_id, sequence) is free.
Insert(w) ==
  /\ pc[w] = "drafted"
  /\ draft[w].sequence \notin SequencesOf(events[job[w].tenant])
  /\ pc' = [pc EXCEPT ![w] = "inserted"]
  /\ UNCHANGED <<events, lock, rowLock, job, draft>>

\* Ending a transaction gives back the locks it holds.
Released(locks, w) ==
  [x \in DOMAIN locks |-> IF locks[x] = w THEN NoWriter ELSE locks[x]]

End(w) ==
  /\ lock' = Released(lock, w)
  /\ rowLock' = Released(rowLock, w)
  /\ pc' = [pc EXCEPT ![w] = "idle"]
  /\ job' = [job EXCEPT ![w] = NoJob]
  /\ draft' = [draft EXCEPT ![w] = NoDraft]

Commit(w) ==
  /\ pc[w] = "inserted"
  /\ events' = [events EXCEPT ![job[w].tenant] = @ \cup {Event(w)}]
  /\ End(w)

\* Mutant: an error path that leaves a session-level lock behind.
RollbackKeepingLock(w) ==
  /\ pc[w] # "idle"
  /\ rowLock' = Released(rowLock, w)
  /\ pc' = [pc EXCEPT ![w] = "idle"]
  /\ job' = [job EXCEPT ![w] = NoJob]
  /\ draft' = [draft EXCEPT ![w] = NoDraft]
  /\ UNCHANGED <<events, lock>>

\* Any statement fails, or the connection is lost: withTenant rolls back.
Rollback(w) ==
  /\ pc[w] # "idle"
  /\ End(w)
  /\ UNCHANGED events

\* No request is open: the services wait for the next one.
Quiet ==
  /\ \A w \in Writers : pc[w] = "idle"
  /\ UNCHANGED vars

Next ==
  \/ \E w \in Writers :
       \/ \E t \in Tenants, r \in Rows, b \in Bodies : Begin(w, t, r, b)
       \/ ChangeRow(w)
       \/ TakeAuditLock(w)
       \/ ReadTip(w)
       \/ Insert(w)
       \/ Commit(w)
       \/ Rollback(w)
  \/ Quiet

Spec == Init /\ [][Next]_vars

(* A transaction goes on by itself, and PostgreSQL queues the waiters of a *)
(* lock in order, so a lock that is given back again and again is given to *)
(* each waiter in the end.                                                 *)
Fairness ==
  \A w \in Writers :
    /\ SF_vars(ChangeRow(w))
    /\ SF_vars(TakeAuditLock(w))
    /\ WF_vars(ReadTip(w) \/ Insert(w) \/ Commit(w))

FairSpec == Spec /\ Fairness

-----------------------------------------------------------------------------
States == {"idle", "begun", "changed", "locked", "drafted", "inserted"}

\* Type invariant. The draft never runs ahead of the events that may exist.
TypeOK ==
  /\ \A t \in Tenants : \A e \in events[t] :
       /\ DOMAIN e = {"sequence", "previousHash", "body", "recordHash"}
       /\ e.sequence \in Nat \ {0}
       /\ e.body \in Bodies
  /\ DOMAIN events = Tenants
  /\ lock \in [Tenants -> Writers \cup {NoWriter}]
  /\ rowLock \in [Rows -> Writers \cup {NoWriter}]
  /\ pc \in [Writers -> States]
  /\ job \in [Writers -> [tenant : Tenants, row : Rows, body : Bodies]]
  /\ DOMAIN draft = Writers
  /\ \A w \in Writers : draft[w].sequence \in Nat

(* What verifyTenantChain accepts: in the order of the sequences, each     *)
(* event names the hash of the one before it (none, for the first), and    *)
(* its hash is the one recomputed from the row as the table gives it back. *)
PrecedingSequence(E, s) ==
  LET before == {x \in SequencesOf(E) : x < s}
  IN  IF before = {} THEN 0
      ELSE CHOOSE x \in before : \A y \in before : y <= x

VerifiedEvent(E, e) ==
  /\ e.previousHash = HashAt(E, PrecedingSequence(E, e.sequence))
  /\ e.recordHash = Digest(e.previousHash, e.sequence, e.body)

(* The nightly verifier finds no break, whatever transactions are open,    *)
(* committed or rolled back while the chain is being written: the claim of *)
(* the SDD that a break means a bug in the audit path or tampering.        *)
ChainVerifies == \A t \in Tenants : \A e \in events[t] :
                   VerifiedEvent(events[t], e)

(* The committed sequences of a tenant are 1..n without a gap, one event   *)
(* each, although rolled back transactions had numbers of their own. The   *)
(* verifier never looks at the numbers, so it could not tell.              *)
Keyed(E) == \A e, f \in E : e.sequence = f.sequence => e = f

GapFree ==
  \A t \in Tenants :
    /\ SequencesOf(events[t]) = 1 .. MaxSequence(events[t])
    /\ Keyed(events[t])

(* A business transaction is never refused because of another's audit row: *)
(* the key it is about to insert is free, and no other open transaction of *)
(* the tenant holds the same one.                                          *)
NoSequenceCollision ==
  \A w \in Writers :
    pc[w] \in {"drafted", "inserted"} =>
      /\ draft[w].sequence \notin SequencesOf(events[job[w].tenant])
      /\ \A v \in Writers \ {w} :
           pc[v] \in {"drafted", "inserted"} /\ job[v].tenant = job[w].tenant
             => draft[v].sequence # draft[w].sequence

(* The transactions that w waits for.                                      *)
WaitsFor(w) ==
  {v \in Writers \ {w} :
     \/ pc[w] = "begun" /\ rowLock[job[w].row] = v
     \/ pc[w] = "changed" /\ lock[job[w].tenant] = v}

(* Two kinds of locks are taken in one order, rows before the audit lock,  *)
(* so no set of transactions wait for each other: PostgreSQL never has to  *)
(* kill one of them to break a deadlock.                                   *)
NoWaitCycle ==
  \A S \in (SUBSET Writers) \ {{}} : \E w \in S : WaitsFor(w) \cap S = {}

(* A committed event is never changed or removed by any later step.        *)
AppendOnly == [][\A t \in Tenants : events[t] \subseteq events'[t]]_vars

(* Every transaction that has begun ends: nothing holds up a tenant's      *)
(* audited requests for good, not even those that failed holding the lock. *)
RequestsFinish == \A w \in Writers : pc[w] # "idle" ~> pc[w] = "idle"
=============================================================================
