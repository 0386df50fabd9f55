-------------------------- MODULE AuditChainProofs --------------------------
(***************************************************************************)
(* Theorems about AuditChain, for any number of tenants, transactions and  *)
(* events.  The argument is mutual exclusion: between the lock and the end *)
(* of its transaction a writer is the only one of its tenant, so the tip   *)
(* that it has read is still the tip when its row is committed.            *)
(***************************************************************************)
EXTENDS AuditChain, TLAPS

Holding == {"locked", "drafted", "inserted"}
Drafted == {"drafted", "inserted"}

\* The advisory lock of a tenant is held by exactly the writer that is in
\* its critical section there.
LockInv ==
  /\ \A w \in Writers : pc[w] \in Holding => lock[job[w].tenant] = w
  /\ \A t \in Tenants : \A w \in Writers :
       lock[t] = w => pc[w] \in Holding /\ job[w].tenant = t

\* The lock of a business row is held by a transaction that has changed it.
RowInv ==
  \A r \in Rows : \A w \in Writers :
    rowLock[r] = w => pc[w] \in Holding \cup {"changed"} /\ job[w].row = r

Contiguous(E) == \E n \in Nat : SequencesOf(E) = 1 .. n

ChainInv == \A t \in Tenants : Contiguous(events[t]) /\ Keyed(events[t])

\* What a writer has read in its critical section is still true.
DraftInv ==
  \A w \in Writers : pc[w] \in Drafted =>
    /\ draft[w].sequence = MaxSequence(events[job[w].tenant]) + 1
    /\ draft[w].previousHash = TipHash(events[job[w].tenant])

\* Each event names the hash of the event numbered one less.
Linked(E) == \A e \in E : e.previousHash = HashAt(E, e.sequence - 1)

LinkInv == \A t \in Tenants : Linked(events[t])

\* The hash of a row is the one that its stored columns give.
Canonical == \A b \in Bodies : Stored[b] = b

HashInv == \A t \in Tenants : \A e \in events[t] :
             e.recordHash = Digest(e.previousHash, e.sequence, e.body)

CoreInv == TypeOK /\ LockInv /\ RowInv /\ ChainInv /\ DraftInv /\ LinkInv

-----------------------------------------------------------------------------
(* Lemmas about a chain as a set of rows.                                  *)

\* MAX(sequence) of a gap-free chain is its length.
LEMMA MaxOfContiguous ==
  ASSUME NEW E, NEW n \in Nat, SequencesOf(E) = 1 .. n
  PROVE  MaxSequence(E) = n
<1>1. CASE E = {}
  <2>1. SequencesOf(E) = {}
    BY <1>1 DEF SequencesOf
  <2>2. n = 0
    BY <2>1
  <2> QED BY <1>1, <2>2 DEF MaxSequence
<1>2. CASE E # {}
  <2>1. SequencesOf(E) # {}
    BY <1>2 DEF SequencesOf
  <2>2. n \in SequencesOf(E) /\ \A x \in SequencesOf(E) : x <= n
    BY <2>1
  <2>3. \A s \in SequencesOf(E) :
          (\A x \in SequencesOf(E) : x <= s) => s = n
    BY <2>2
  <2> QED BY <1>2, <2>2, <2>3 DEF MaxSequence
<1> QED BY <1>1, <1>2

\* Adding the next number to a gap-free, keyed chain keeps it so.
LEMMA ExtendedChain ==
  ASSUME NEW E, NEW n \in Nat, SequencesOf(E) = 1 .. n, Keyed(E),
         NEW e, e.sequence = n + 1
  PROVE  /\ SequencesOf(E \cup {e}) = 1 .. (n + 1)
         /\ Keyed(E \cup {e})
<1>1. SequencesOf(E \cup {e}) = SequencesOf(E) \cup {n + 1}
  BY DEF SequencesOf
<1>2. (1 .. n) \cup {n + 1} = 1 .. (n + 1)
  OBVIOUS
<1>3. \A f \in E : f.sequence \in 1 .. n
  BY DEF SequencesOf
<1>4. Keyed(E \cup {e})
  BY <1>3 DEF Keyed
<1> QED BY <1>1, <1>2, <1>4

\* In a keyed chain the number of a row finds the hash of that row.
LEMMA HashOfRow ==
  ASSUME NEW E, Keyed(E), NEW e \in E
  PROVE  HashAt(E, e.sequence) = e.recordHash
<1>1. \A f \in E : f.sequence = e.sequence => f = e
  BY DEF Keyed
<1>2. (CHOOSE f \in E : f.sequence = e.sequence) = e
  BY <1>1
<1> QED BY <1>2 DEF HashAt

\* A new row changes the hash found at no other number.
LEMMA HashElsewhere ==
  ASSUME NEW E, NEW e, NEW s, s # e.sequence, Keyed(E)
  PROVE  HashAt(E \cup {e}, s) = HashAt(E, s)
<1>1. CASE \E f \in E : f.sequence = s
  <2>1. PICK f \in E : f.sequence = s
    BY <1>1
  <2>2. \A g \in E \cup {e} : g.sequence = s => g = f
    BY <2>1 DEF Keyed
  <2>3. (CHOOSE g \in E \cup {e} : g.sequence = s) = f
    BY <2>1, <2>2
  <2>4. (CHOOSE g \in E : g.sequence = s) = f
    BY <2>1, <2>2
  <2> QED BY <1>1, <2>3, <2>4 DEF HashAt
<1>2. CASE ~ \E f \in E : f.sequence = s
  BY <1>2 DEF HashAt
<1> QED BY <1>1, <1>2

\* The row before number s of a gap-free chain is number s - 1.
LEMMA PrecedingOfContiguous ==
  ASSUME NEW E, NEW n \in Nat, SequencesOf(E) = 1 .. n, NEW s \in 1 .. n
  PROVE  PrecedingSequence(E, s) = s - 1
<1> DEFINE before == {x \in SequencesOf(E) : x < s}
<1>1. before = 1 .. (s - 1)
  OBVIOUS
<1>2. CASE s = 1
  BY <1>1, <1>2 DEF PrecedingSequence
<1>3. CASE s # 1
  <2>1. s - 1 \in before /\ \A y \in before : y <= s - 1
    BY <1>1, <1>3
  <2>2. \A x \in before : (\A y \in before : y <= x) => x = s - 1
    BY <2>1, <1>1
  <2> HIDE DEF before
  <2>3. (CHOOSE x \in before : \A y \in before : y <= x) = s - 1
    BY <2>1, <2>2
  <2> QED BY <2>1, <2>3 DEF PrecedingSequence, before
<1> QED BY <1>2, <1>3

-----------------------------------------------------------------------------
(* Type correctness.                                                       *)

LEMMA ReleasedType ==
  ASSUME NEW S, NEW locks \in [S -> Writers \cup {NoWriter}], NEW w
  PROVE  Released(locks, w) \in [S -> Writers \cup {NoWriter}]
BY DEF Released

\* MAX(sequence) of rows with natural numbers: only used on chains that
\* ChainInv makes contiguous.
LEMMA MaxSequenceType ==
  ASSUME ChainInv, NEW t \in Tenants
  PROVE  MaxSequence(events[t]) \in Nat
<1>1. PICK n \in Nat : SequencesOf(events[t]) = 1 .. n
  BY DEF ChainInv, Contiguous
<1> QED BY <1>1, MaxOfContiguous

LEMMA NoJobType == NoJob \in [tenant : Tenants, row : Rows, body : Bodies]
<1>1. /\ (CHOOSE t \in Tenants : TRUE) \in Tenants
      /\ (CHOOSE r \in Rows : TRUE) \in Rows
      /\ (CHOOSE b \in Bodies : TRUE) \in Bodies
  BY NonEmptyAssumption
<1> QED BY <1>1 DEF NoJob

\* Ending a transaction keeps every variable in its type.
LEMMA EndType ==
  ASSUME TypeOK, NEW w \in Writers, End(w)
  PROVE  /\ lock' \in [Tenants -> Writers \cup {NoWriter}]
         /\ rowLock' \in [Rows -> Writers \cup {NoWriter}]
         /\ pc' \in [Writers -> States]
         /\ job' \in [Writers -> [tenant : Tenants, row : Rows, body : Bodies]]
         /\ DOMAIN draft' = Writers
         /\ \A v \in Writers : draft'[v].sequence \in Nat
<1>1. NoDraft.sequence = 0
  BY DEF NoDraft
<1>2. NoJob \in [tenant : Tenants, row : Rows, body : Bodies]
  BY NoJobType
<1> QED BY <1>1, <1>2, ReleasedType DEF End, TypeOK, States

LEMMA InitCore ==
  ASSUME Init
  PROVE  CoreInv
<1>1. NoJob \in [tenant : Tenants, row : Rows, body : Bodies]
  BY NoJobType
<1>2. NoDraft.sequence = 0
  BY DEF NoDraft
<1>3. TypeOK
  BY <1>1, <1>2 DEF Init, TypeOK, States
<1>4. LockInv /\ RowInv
  BY NoWriterAssumption DEF Init, LockInv, RowInv, Holding
<1>5. ChainInv
  <2>1. SequencesOf({}) = 1 .. 0
    BY DEF SequencesOf
  <2> QED BY <2>1 DEF Init, ChainInv, Contiguous, Keyed
<1>6. DraftInv /\ LinkInv
  BY DEF Init, DraftInv, Drafted, LinkInv, Linked
<1> QED BY <1>3, <1>4, <1>5, <1>6 DEF CoreInv

-----------------------------------------------------------------------------
(* Steps that leave the chains alone.                                      *)

\* Taking and releasing of the row lock, the begin and the INSERT change
\* neither the chains nor who holds them.
LEMMA BeginCore ==
  ASSUME CoreInv, NEW w \in Writers, NEW t \in Tenants, NEW r \in Rows,
         NEW b \in Bodies, Begin(w, t, r, b)
  PROVE  CoreInv'
<1> USE DEF CoreInv, Begin
<1>1. TypeOK'
  BY DEF TypeOK, States
<1>2. LockInv' /\ RowInv'
  BY DEF TypeOK, States, LockInv, RowInv, Holding
<1>3. ChainInv' /\ LinkInv'
  BY DEF ChainInv, LinkInv
<1>4. DraftInv'
  BY DEF DraftInv, Drafted, TypeOK, States
<1> QED BY <1>1, <1>2, <1>3, <1>4

LEMMA ChangeRowCore ==
  ASSUME CoreInv, NEW w \in Writers, ChangeRow(w)
  PROVE  CoreInv'
<1> USE DEF CoreInv, ChangeRow
<1>1. TypeOK'
  BY DEF TypeOK, States
<1>2. LockInv' /\ RowInv'
  BY NoWriterAssumption DEF TypeOK, States, LockInv, RowInv, Holding
<1>3. ChainInv' /\ LinkInv'
  BY DEF ChainInv, LinkInv
<1>4. DraftInv'
  BY DEF DraftInv, Drafted, TypeOK, States
<1> QED BY <1>1, <1>2, <1>3, <1>4

LEMMA TakeAuditLockCore ==
  ASSUME CoreInv, NEW w \in Writers, TakeAuditLock(w)
  PROVE  CoreInv'
<1> USE DEF CoreInv, TakeAuditLock
<1>1. TypeOK'
  BY DEF TypeOK, States
<1>2. LockInv' /\ RowInv'
  BY NoWriterAssumption DEF TypeOK, States, LockInv, RowInv, Holding
<1>3. ChainInv' /\ LinkInv'
  BY DEF ChainInv, LinkInv
<1>4. DraftInv'
  BY DEF DraftInv, Drafted, TypeOK, States
<1> QED BY <1>1, <1>2, <1>3, <1>4

LEMMA ReadTipCore ==
  ASSUME CoreInv, NEW w \in Writers, ReadTip(w)
  PROVE  CoreInv'
<1> USE DEF CoreInv, ReadTip
<1>1. TypeOK'
  <2>1. job[w].tenant \in Tenants
    BY DEF TypeOK
  <2>2. MaxSequence(events[job[w].tenant]) \in Nat
    BY <2>1, MaxSequenceType
  <2> QED BY <2>2 DEF TypeOK, States
<1>2. LockInv' /\ RowInv'
  BY DEF TypeOK, States, LockInv, RowInv, Holding
<1>3. ChainInv' /\ LinkInv'
  BY DEF ChainInv, LinkInv
<1>4. DraftInv'
  BY DEF DraftInv, Drafted, TypeOK, States
<1> QED BY <1>1, <1>2, <1>3, <1>4

LEMMA InsertCore ==
  ASSUME CoreInv, NEW w \in Writers, Insert(w)
  PROVE  CoreInv'
<1> USE DEF CoreInv, Insert
<1>1. TypeOK'
  BY DEF TypeOK, States
<1>2. LockInv' /\ RowInv'
  BY DEF TypeOK, States, LockInv, RowInv, Holding
<1>3. ChainInv' /\ LinkInv'
  BY DEF ChainInv, LinkInv
<1>4. DraftInv'
  BY DEF DraftInv, Drafted, TypeOK, States
<1> QED BY <1>1, <1>2, <1>3, <1>4

-----------------------------------------------------------------------------
(* Steps that end a transaction.                                           *)

LEMMA EndLocks ==
  ASSUME CoreInv, NEW w \in Writers, End(w)
  PROVE  LockInv' /\ RowInv'
BY NoWriterAssumption
DEF CoreInv, End, Released, TypeOK, States, LockInv, RowInv, Holding

LEMMA RollbackCore ==
  ASSUME CoreInv, NEW w \in Writers, Rollback(w)
  PROVE  CoreInv'
<1> USE DEF CoreInv, Rollback
<1>1. TypeOK'
  BY EndType DEF TypeOK
<1>2. LockInv' /\ RowInv'
  BY EndLocks
<1>3. ChainInv' /\ LinkInv'
  BY DEF ChainInv, LinkInv
<1>4. DraftInv'
  BY DEF DraftInv, Drafted, TypeOK, States, End
<1> QED BY <1>1, <1>2, <1>3, <1>4

\* The one step that adds to a chain: the draft of w is still the tip, and
\* no other writer of the tenant has a draft to make stale.
LEMMA CommitCore ==
  ASSUME CoreInv, NEW w \in Writers, Commit(w)
  PROVE  CoreInv'
<1> DEFINE t == job[w].tenant
           E == events[t]
           e == Event(w)
<1>1. t \in Tenants /\ pc[w] \in Drafted /\ pc[w] \in Holding
  BY DEF CoreInv, TypeOK, Commit, Drafted, Holding
<1>2. PICK n \in Nat : SequencesOf(E) = 1 .. n
  BY <1>1 DEF CoreInv, ChainInv, Contiguous
<1>3. MaxSequence(E) = n
  BY <1>2, MaxOfContiguous
<1>4. e.sequence = n + 1 /\ e.previousHash = HashAt(E, n)
  BY <1>1, <1>3 DEF CoreInv, DraftInv, Event, TipHash
<1>5. Keyed(E)
  BY <1>1 DEF CoreInv, ChainInv
<1>6. SequencesOf(E \cup {e}) = 1 .. (n + 1) /\ Keyed(E \cup {e})
  <2> HIDE DEF E, e
  <2> QED BY <1>2, <1>4, <1>5, ExtendedChain
<1>7. events' = [events EXCEPT ![t] = E \cup {e}]
  BY DEF Commit
<1>8. /\ \A u \in Tenants \ {t} : events'[u] = events[u]
      /\ events'[t] = E \cup {e}
      /\ DOMAIN events' = Tenants
  BY <1>1, <1>7 DEF CoreInv, TypeOK
<1>9. TypeOK'
  <2>1. Stored[job[w].body] \in Bodies
    BY StoredAssumption DEF CoreInv, TypeOK
  <2>2. /\ DOMAIN e = {"sequence", "previousHash", "body", "recordHash"}
        /\ e.body \in Bodies
    BY <2>1 DEF Event
  <2>3. e.sequence \in Nat \ {0}
    BY <1>4
  <2> HIDE DEF e, E, t
  <2>4. \A u \in Tenants : \A f \in events'[u] :
          /\ DOMAIN f = {"sequence", "previousHash", "body", "recordHash"}
          /\ f.sequence \in Nat \ {0}
          /\ f.body \in Bodies
    <3> SUFFICES ASSUME NEW u \in Tenants, NEW f \in events'[u]
                 PROVE  /\ DOMAIN f = {"sequence", "previousHash", "body",
                                       "recordHash"}
                        /\ f.sequence \in Nat \ {0}
                        /\ f.body \in Bodies
      OBVIOUS
    <3>1. f = e \/ f \in events[u]
      BY <1>8 DEF E
    <3> QED BY <3>1, <2>2, <2>3 DEF CoreInv, TypeOK
  <2> QED BY <2>4, <1>8, EndType DEF CoreInv, TypeOK, Commit
<1>10. LockInv' /\ RowInv'
  BY EndLocks DEF Commit
<1>11. ChainInv'
  <2>1. n + 1 \in Nat
    OBVIOUS
  <2> HIDE DEF e, E, t
  <2> QED BY <2>1, <1>6, <1>8 DEF CoreInv, ChainInv, Contiguous
<1>12. LinkInv'
  <2>1. Linked(E)
    BY <1>1 DEF CoreInv, LinkInv
  <2>2. HashAt(E \cup {e}, n) = HashAt(E, n)
    <3> HIDE DEF E, e
    <3> QED BY <1>4, <1>5, HashElsewhere
  <2>3. \A f \in E : f.sequence \in 1 .. n
    BY <1>2 DEF SequencesOf
  <2>4. \A f \in E : HashAt(E \cup {e}, f.sequence - 1)
                       = HashAt(E, f.sequence - 1)
    <3> HIDE DEF E, e
    <3>1. \A f \in E : f.sequence - 1 # e.sequence
      BY <1>4, <2>3
    <3> QED BY <3>1, <1>5, HashElsewhere
  <2> HIDE DEF E, e
  <2>5. Linked(E \cup {e})
    BY <1>4, <2>1, <2>2, <2>4 DEF Linked
  <2> QED BY <2>5, <1>8 DEF CoreInv, LinkInv
<1>13. DraftInv'
  <2> SUFFICES ASSUME NEW v \in Writers, pc'[v] \in Drafted
               PROVE  /\ draft'[v].sequence
                            = MaxSequence(events'[job'[v].tenant]) + 1
                      /\ draft'[v].previousHash = TipHash(events'[job'[v].tenant])
    BY DEF DraftInv, TipHash
  <2>1. v # w /\ pc'[v] = pc[v] /\ job'[v] = job[v] /\ draft'[v] = draft[v]
    BY DEF Commit, End, CoreInv, TypeOK, Drafted
  <2>2. lock[job[v].tenant] = v /\ lock[t] = w
    BY <1>1, <2>1 DEF CoreInv, LockInv, Holding, Drafted
  <2>3. job[v].tenant \in Tenants \ {t}
    BY <2>1, <2>2 DEF CoreInv, TypeOK
  <2>4. events'[job'[v].tenant] = events[job[v].tenant]
    BY <2>1, <2>3, <1>8
  <2> QED BY <2>1, <2>4 DEF CoreInv, DraftInv
<1> QED BY <1>9, <1>10, <1>11, <1>12, <1>13 DEF CoreInv

-----------------------------------------------------------------------------
(* The invariant, and what follows from it.                                *)

LEMMA NextCore ==
  ASSUME CoreInv, [Next]_vars
  PROVE  CoreInv'
<1>1. CASE \E w \in Writers, t \in Tenants, r \in Rows, b \in Bodies :
             Begin(w, t, r, b)
  BY <1>1, BeginCore
<1>2. CASE \E w \in Writers : ChangeRow(w)
  BY <1>2, ChangeRowCore
<1>3. CASE \E w \in Writers : TakeAuditLock(w)
  BY <1>3, TakeAuditLockCore
<1>4. CASE \E w \in Writers : ReadTip(w)
  BY <1>4, ReadTipCore
<1>5. CASE \E w \in Writers : Insert(w)
  BY <1>5, InsertCore
<1>6. CASE \E w \in Writers : Commit(w)
  BY <1>6, CommitCore
<1>7. CASE \E w \in Writers : Rollback(w)
  BY <1>7, RollbackCore
<1>8. CASE UNCHANGED vars
  BY <1>8 DEF vars, CoreInv, TypeOK, LockInv, RowInv, ChainInv, DraftInv,
              LinkInv
<1> QED BY <1>1, <1>2, <1>3, <1>4, <1>5, <1>6, <1>7, <1>8 DEF Next, Quiet

THEOREM CoreInvariance == Spec => []CoreInv
BY InitCore, NextCore, PTL DEF Spec

\* Every variable keeps its type: no row is ever numbered 0, and a draft
\* never holds anything but a number.
THEOREM TypeCorrectness == Spec => []TypeOK
<1>1. CoreInv => TypeOK
  BY DEF CoreInv
<1> QED BY <1>1, CoreInvariance, PTL

\* The committed numbers of every tenant are 1..n, one row each.
THEOREM ChainsAreGapFree == Spec => []GapFree
<1>1. CoreInv => GapFree
  <2> SUFFICES ASSUME CoreInv, NEW t \in Tenants
               PROVE  /\ SequencesOf(events[t]) = 1 .. MaxSequence(events[t])
                      /\ Keyed(events[t])
    BY DEF GapFree
  <2>1. PICK n \in Nat : SequencesOf(events[t]) = 1 .. n
    BY DEF CoreInv, ChainInv, Contiguous
  <2>2. MaxSequence(events[t]) = n
    BY <2>1, MaxOfContiguous
  <2> QED BY <2>1, <2>2 DEF CoreInv, ChainInv
<1> QED BY <1>1, CoreInvariance, PTL

\* The primary key never refuses an audited transaction.
THEOREM NoCollision == Spec => []NoSequenceCollision
<1>1. CoreInv => NoSequenceCollision
  <2> SUFFICES ASSUME CoreInv, NEW w \in Writers, pc[w] \in Drafted
               PROVE  /\ draft[w].sequence \notin
                           SequencesOf(events[job[w].tenant])
                      /\ \A v \in Writers \ {w} :
                           pc[v] \notin Drafted \/ job[v].tenant # job[w].tenant
    BY DEF NoSequenceCollision, Drafted
  <2>1. job[w].tenant \in Tenants
    BY DEF CoreInv, TypeOK
  <2>2. PICK n \in Nat : SequencesOf(events[job[w].tenant]) = 1 .. n
    BY <2>1 DEF CoreInv, ChainInv, Contiguous
  <2>3. MaxSequence(events[job[w].tenant]) = n
    BY <2>2, MaxOfContiguous
  <2>4. draft[w].sequence = n + 1
    BY <2>3 DEF CoreInv, DraftInv
  <2>5. \A v \in Writers : pc[v] \in Drafted => lock[job[v].tenant] = v
    BY DEF CoreInv, LockInv, Holding, Drafted
  <2> QED BY <2>2, <2>4, <2>5
<1> QED BY <1>1, CoreInvariance, PTL

\* No step changes or removes a committed event.
THEOREM CommittedEventsStay == Spec => AppendOnly
<1>1. ASSUME CoreInv, [Next]_vars
      PROVE  [\A t \in Tenants : events[t] \subseteq events'[t]]_vars
  <2>1. CASE \E w \in Writers : Commit(w)
    <3>1. PICK w \in Writers : Commit(w)
      BY <2>1
    <3> QED BY <3>1 DEF Commit, CoreInv, TypeOK
  <2>2. CASE UNCHANGED events
    BY <2>2
  <2> QED BY <1>1, <2>1, <2>2
          DEF Next, Begin, ChangeRow, TakeAuditLock, ReadTip, Insert, Rollback,
              Quiet, vars
<1> QED BY <1>1, CoreInvariance, PTL DEF AppendOnly, Spec

\* Rows are locked before the audit lock, by every transaction: a holder of
\* the audit lock waits for nobody, and a holder of a row only for such a
\* holder, so a set of transactions that wait for each other is empty.
THEOREM NoDeadlock == Spec => []NoWaitCycle
<1>1. ASSUME CoreInv PROVE NoWaitCycle
  <2> SUFFICES ASSUME NEW S \in SUBSET Writers, S # {}
               PROVE  \E w \in S : WaitsFor(w) \cap S = {}
    BY DEF NoWaitCycle
  <2>1. \A w \in S : pc[w] = "changed" => \A v \in WaitsFor(w) : pc[v] \in Holding
    BY <1>1 DEF WaitsFor, CoreInv, LockInv, TypeOK
  <2>2. \A w \in S : pc[w] \in Holding => WaitsFor(w) = {}
    BY DEF WaitsFor, Holding
  <2>3. \A w \in S : pc[w] = "begun" =>
          \A v \in WaitsFor(w) : pc[v] \in Holding \cup {"changed"}
    BY <1>1 DEF WaitsFor, CoreInv, RowInv, TypeOK
  <2>4. \A w \in S : pc[w] = "idle" => WaitsFor(w) = {}
    BY DEF WaitsFor
  <2>5. \A w \in S : pc[w] \in States
    BY <1>1 DEF CoreInv, TypeOK
  <2>6. CASE \E w \in S : pc[w] \in Holding \cup {"idle"}
    BY <2>2, <2>4, <2>6
  <2>7. CASE /\ \A w \in S : pc[w] \notin Holding \cup {"idle"}
             /\ \E w \in S : pc[w] = "changed"
    BY <2>1, <2>7
  <2>8. CASE \A w \in S : pc[w] \notin Holding \cup {"idle", "changed"}
    BY <2>3, <2>5, <2>8 DEF States, Holding
  <2> QED BY <2>6, <2>7, <2>8
<1> QED BY <1>1, CoreInvariance, PTL

-----------------------------------------------------------------------------
(* What the verifier computes.                                             *)

LEMMA HashStep ==
  ASSUME Canonical, CoreInv, HashInv, [Next]_vars
  PROVE  HashInv'
<1>1. CASE \E w \in Writers : Commit(w)
  <2>1. PICK w \in Writers : Commit(w)
    BY <1>1
  <2>2. Event(w).recordHash
          = Digest(Event(w).previousHash, Event(w).sequence, Event(w).body)
    BY DEF Event, Canonical, CoreInv, TypeOK
  <2>3. \A t \in Tenants : \A e \in events'[t] : e \in events[t] \/ e = Event(w)
    BY <2>1 DEF Commit, CoreInv, TypeOK
  <2> QED BY <2>2, <2>3 DEF HashInv
<1>2. CASE UNCHANGED events
  BY <1>2 DEF HashInv
<1> QED BY <1>1, <1>2
        DEF Next, Begin, ChangeRow, TakeAuditLock, ReadTip, Insert, Rollback,
            Quiet, vars

\* Where the columns give a content back as it was passed, the verifier
\* finds no break in any reachable state: order, links and hashes agree.
THEOREM EveryChainVerifies ==
  ASSUME Canonical
  PROVE  Spec => []ChainVerifies
<1>1. Init => HashInv
  BY DEF Init, HashInv
<1>2. CoreInv /\ HashInv /\ [Next]_vars => HashInv'
  BY HashStep
<1>3. ASSUME CoreInv, HashInv PROVE ChainVerifies
  <2> SUFFICES ASSUME NEW t \in Tenants, NEW e \in events[t]
               PROVE  e.previousHash
                        = HashAt(events[t],
                                 PrecedingSequence(events[t], e.sequence))
    BY <1>3 DEF ChainVerifies, VerifiedEvent, HashInv
  <2>1. PICK n \in Nat : SequencesOf(events[t]) = 1 .. n
    BY <1>3 DEF CoreInv, ChainInv, Contiguous
  <2>2. e.sequence \in 1 .. n
    BY <2>1 DEF SequencesOf
  <2>3. PrecedingSequence(events[t], e.sequence) = e.sequence - 1
    BY <2>1, <2>2, PrecedingOfContiguous
  <2> QED BY <2>3, <1>3 DEF CoreInv, LinkInv, Linked
<1> QED BY <1>1, <1>2, <1>3, CoreInvariance, PTL DEF Spec
=============================================================================
