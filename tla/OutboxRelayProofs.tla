-------------------------- MODULE OutboxRelayProofs --------------------------
(***************************************************************************)
(* Proofs about OutboxRelay: no event is lost or sent by two relays, the   *)
(* relay implements AtLeastOnce, and every duplicate has its cause.        *)
(*                                                                         *)
(* publish_attempts stays in its range only because two relays never hold  *)
(* one row, so the type invariant is proved together with the invariant of *)
(* the batches; a published event is on the stream because a row is marked *)
(* only after its xAdd, in the transaction that still holds it.            *)
(***************************************************************************)
EXTENDS OutboxRelay, FiniteSetTheorems, TLAPS

(* What a relay has in hand: rows it may publish, marks of events that are *)
(* on the stream, and counters that have room for the row dealt with.      *)
Work(r) ==
  /\ todo[r] \subseteq batch[r] /\ marks[r] \subseteq batch[r]
  /\ batch[r] \subseteq rows
  /\ marks[r] \subseteq Sent
  /\ \A e \in batch[r] \ todo[r] : attempts[e] < SmallintMax
  /\ phase[r] = "idle" => batch[r] = {}
  /\ phase[r] = "added" => \A e \in Events : IsNext(r, e) => e \in Sent

IInv ==
  /\ TypeOK
  /\ BatchesDisjoint
  /\ \A r \in Relays : Work(r)
  /\ PublishedWasSent

-----------------------------------------------------------------------------
\* Adding an event to the stream puts it among those sent, and no other.
LEMMA AddedFacts ==
  ASSUME TypeOK, NEW e \in Events, Added(e)
  PROVE  /\ copies' \in [Events -> 0 .. MaxCopies]
         /\ Sent' = Sent \cup {e}
         /\ \A x \in Events \ {e} : copies'[x] = copies[x]
<1>1. copies \in [Events -> 0 .. MaxCopies] /\ MaxCopies \in Nat \ {0}
  BY BoundsAssumption DEF TypeOK
<1>2. \A x \in Events :
        copies'[x] = IF x = e THEN IF copies[e] < MaxCopies THEN copies[e] + 1
                                                            ELSE copies[e]
                     ELSE copies[x]
  BY <1>1 DEF Added
<1>3. copies'[e] \in 1 .. MaxCopies
  BY <1>1, <1>2
<1>4. copies' \in [Events -> 0 .. MaxCopies]
  BY <1>1, <1>3 DEF Added
<1>5. Sent' = Sent \cup {e}
  BY <1>1, <1>2, <1>3 DEF Sent
<1> QED  BY <1>2, <1>4, <1>5

\* A step that leaves the stream alone leaves what was sent alone.
LEMMA SameSent == ASSUME UNCHANGED copies PROVE Sent' = Sent
  BY DEF Sent

LEMMA InitInv == Init => IInv
  BY BoundsAssumption DEF Init, IInv, TypeOK, BatchesDisjoint, Work,
     PublishedWasSent, Sent, IsNext, Phases

-----------------------------------------------------------------------------
LEMMA ProducerInv ==
  ASSUME IInv, NEW e \in Events, ProducerCommit(e)
  PROVE  IInv'
<1>1. Sent' = Sent
  BY SameSent DEF ProducerCommit
<1> QED
  BY <1>1 DEF IInv, ProducerCommit, table, relay, TypeOK, BatchesDisjoint,
     Work, PublishedWasSent, IsNext

LEMMA BeginInv ==
  ASSUME IInv, NEW r \in Relays, BeginBatch(r)
  PROVE  IInv'
<1> USE DEF IInv
<1>1. PICK B \in (SUBSET Pending) \ {{}} :
        /\ batch' = [batch EXCEPT ![r] = B]
        /\ todo' = [todo EXCEPT ![r] = B]
  BY DEF BeginBatch
<1>2. /\ phase' = [phase EXCEPT ![r] = "publishing"]
      /\ UNCHANGED <<rows, published, attempts, marks, copies, faults, crashes>>
      /\ phase[r] = "idle"
  BY DEF BeginBatch, table
<1>3. /\ B \subseteq rows \ published
      /\ \A q \in Relays : B \cap batch[q] = {}
  BY DEF Pending, Locked
<1>4. Sent' = Sent
  BY <1>2, SameSent
<1>5. TypeOK'
  BY <1>1, <1>2, <1>3 DEF TypeOK, Phases
<1>6. BatchesDisjoint'
  BY <1>1, <1>2, <1>3 DEF BatchesDisjoint, TypeOK
<1>7. ASSUME NEW q \in Relays PROVE Work(q)'
  <2>1. CASE q = r
    BY <1>1, <1>2, <1>3, <1>4, <2>1 DEF Work, TypeOK
  <2>2. CASE q # r
    BY <1>1, <1>2, <1>4, <2>2 DEF Work, TypeOK, IsNext
  <2> QED  BY <2>1, <2>2
<1>8. PublishedWasSent'
  BY <1>2, <1>4 DEF PublishedWasSent
<1> QED  BY <1>5, <1>6, <1>7, <1>8

LEMMA XAddInv ==
  ASSUME IInv, NEW r \in Relays, NEW e \in Events, XAdd(r, e)
  PROVE  IInv'
<1> USE DEF IInv
<1>1. /\ copies' \in [Events -> 0 .. MaxCopies]
      /\ Sent' = Sent \cup {e}
  BY AddedFacts DEF XAdd
<1>2. /\ phase' = [phase EXCEPT ![r] = "added"]
      /\ UNCHANGED <<rows, published, attempts, batch, todo, marks, faults,
                     crashes>>
      /\ phase[r] = "publishing" /\ IsNext(r, e)
  BY DEF XAdd, table
<1>3. e \in batch[r]
  BY <1>2 DEF Work, IsNext
<1>4. TypeOK'
  BY <1>1, <1>2 DEF TypeOK, Phases
<1>5. BatchesDisjoint'
  BY <1>2 DEF BatchesDisjoint
<1>6. ASSUME NEW q \in Relays PROVE Work(q)'
  <2>1. CASE q = r
    <3>1. \A x \in Events : IsNext(r, x) => x = e
      BY <1>2, EventsAssumption DEF IsNext
    <3> QED  BY <1>1, <1>2, <1>3, <2>1, <3>1 DEF Work, TypeOK, IsNext
  <2>2. CASE q # r
    BY <1>1, <1>2, <2>2 DEF Work, TypeOK, IsNext
  <2> QED  BY <2>1, <2>2
<1>7. PublishedWasSent'
  BY <1>1, <1>2, <1>3 DEF PublishedWasSent, Work
<1> QED  BY <1>4, <1>5, <1>6, <1>7

LEMMA XAddFailsInv ==
  ASSUME IInv, NEW r \in Relays, NEW e \in Events, XAddFails(r, e)
  PROVE  IInv'
<1> USE DEF IInv
<1>1. /\ phase' = [phase EXCEPT ![r] = "failed"]
      /\ UNCHANGED <<rows, published, attempts, batch, todo, marks, crashes>>
      /\ phase[r] = "publishing" /\ IsNext(r, e)
      /\ faults < MaxFaults /\ faults' = faults + 1
  BY DEF XAddFails, table
<1>2. /\ copies' \in [Events -> 0 .. MaxCopies]
      /\ Sent' = Sent \/ Sent' = Sent \cup {e}
  BY AddedFacts, SameSent DEF XAddFails, TypeOK
<1>3. e \in batch[r]
  BY <1>1 DEF Work, IsNext
<1>4. TypeOK'
  BY <1>1, <1>2, BoundsAssumption DEF TypeOK, Phases
<1>5. BatchesDisjoint'
  BY <1>1 DEF BatchesDisjoint
<1>6. ASSUME NEW q \in Relays PROVE Work(q)'
  BY <1>1, <1>2 DEF Work, TypeOK, IsNext
<1>7. PublishedWasSent'
  BY <1>1, <1>2, <1>3 DEF PublishedWasSent, Work
<1> QED  BY <1>4, <1>5, <1>6, <1>7

LEMMA DealtInv ==
  ASSUME IInv, NEW r \in Relays, NEW e \in Events,
         MarkPublished(r, e) \/ MarkFailed(r, e)
  PROVE  IInv'
<1> USE DEF IInv
<1>1. /\ phase' = [phase EXCEPT ![r] = "publishing"]
      /\ todo' = [todo EXCEPT ![r] = @ \ {e}]
      /\ UNCHANGED <<rows, published, attempts, batch, copies, faults, crashes>>
      /\ phase[r] \in {"added", "failed"} /\ IsNext(r, e)
      /\ attempts[e] < SmallintMax
  BY DEF MarkPublished, MarkFailed, Dealt, table
<1>2. Sent' = Sent
  BY <1>1, SameSent
<1>3. \/ phase[r] = "added" /\ marks' = [marks EXCEPT ![r] = @ \cup {e}]
      \/ UNCHANGED marks
  BY DEF MarkPublished, MarkFailed
<1>4. TypeOK'
  BY <1>1, <1>3 DEF TypeOK, Phases
<1>5. BatchesDisjoint'
  BY <1>1 DEF BatchesDisjoint
<1>6. ASSUME NEW q \in Relays PROVE Work(q)'
  <2>1. CASE q = r
    <3>1. marks'[r] = marks[r] \/ marks'[r] = marks[r] \cup {e}
      BY <1>3 DEF TypeOK
    <3>2. marks'[r] = marks[r] \cup {e} => e \in Sent \/ marks'[r] = marks[r]
      BY <1>1, <1>3 DEF Work
    <3> QED
      BY <1>1, <1>2, <2>1, <3>1, <3>2 DEF Work, TypeOK, IsNext
  <2>2. CASE q # r
    BY <1>1, <1>2, <1>3, <2>2 DEF Work, TypeOK, IsNext
  <2> QED  BY <2>1, <2>2
<1>7. PublishedWasSent'
  BY <1>1, <1>2 DEF PublishedWasSent
<1> QED  BY <1>4, <1>5, <1>6, <1>7

\* A relay that has given back its batch, be it committed or rolled back.
LEMMA IdleFacts ==
  ASSUME IInv, NEW r \in Relays, Idle(r), UNCHANGED <<rows, copies>>
  PROVE  /\ phase' \in [Relays -> Phases]
         /\ batch' \in [Relays -> SUBSET Events]
         /\ todo' \in [Relays -> SUBSET Events]
         /\ marks' \in [Relays -> SUBSET Events]
         /\ Sent' = Sent
         /\ phase'[r] = "idle" /\ batch'[r] = {} /\ todo'[r] = {}
         /\ marks'[r] = {}
         /\ \A q \in Relays \ {r} :
              /\ phase'[q] = phase[q] /\ batch'[q] = batch[q]
              /\ todo'[q] = todo[q] /\ marks'[q] = marks[q]
  BY SameSent DEF IInv, TypeOK, Idle, Phases

LEMMA RolledBackInv ==
  ASSUME IInv, NEW r \in Relays,
         Crash(r) \/ (\E e \in Events : Overflow(r, e))
  PROVE  IInv'
<1> USE DEF IInv
<1>1. /\ Idle(r)
      /\ UNCHANGED <<rows, published, attempts, copies, faults>>
      /\ crashes' = crashes \/ (crashes < MaxCrashes /\ crashes' = crashes + 1)
  BY DEF Crash, Overflow, table
<1>2. TypeOK'
  BY <1>1, IdleFacts, BoundsAssumption DEF TypeOK
<1>3. BatchesDisjoint'
  BY <1>1, IdleFacts DEF BatchesDisjoint
<1>4. ASSUME NEW q \in Relays PROVE Work(q)'
  <2>1. CASE q = r
    BY <1>1, <2>1, IdleFacts DEF Work
  <2>2. CASE q # r
    BY <1>1, <2>2, IdleFacts DEF Work, IsNext
  <2> QED  BY <2>1, <2>2
<1>5. PublishedWasSent'
  BY <1>1, IdleFacts DEF PublishedWasSent
<1> QED  BY <1>2, <1>3, <1>4, <1>5

LEMMA CommitInv ==
  ASSUME IInv, NEW r \in Relays, CommitBatch(r)
  PROVE  IInv'
<1> USE DEF IInv
<1>1. /\ Idle(r) /\ UNCHANGED <<rows, copies, faults, crashes>>
      /\ published' = published \cup marks[r]
      /\ attempts' = [e \in Events |-> IF e \in batch[r] THEN attempts[e] + 1
                                                         ELSE attempts[e]]
      /\ todo[r] = {}
  BY DEF CommitBatch
<1>2. attempts' \in [Events -> 0 .. SmallintMax]
  <2>1. \A e \in batch[r] : attempts[e] < SmallintMax
    BY <1>1 DEF Work
  <2> QED  BY <1>1, <2>1, BoundsAssumption DEF TypeOK
<1>3. TypeOK'
  BY <1>1, <1>2, IdleFacts DEF TypeOK
<1>4. BatchesDisjoint'
  <2>1. \A q \in Relays \ {r} : batch[q] \cap marks[r] = {}
    BY DEF BatchesDisjoint, Work
  <2> QED  BY <1>1, <2>1, IdleFacts DEF BatchesDisjoint
<1>5. ASSUME NEW q \in Relays PROVE Work(q)'
  <2>1. CASE q = r
    BY <1>1, <2>1, IdleFacts DEF Work
  <2>2. CASE q # r
    <3>1. \A e \in batch[q] : attempts'[e] = attempts[e]
      BY <1>1, <2>2 DEF BatchesDisjoint, TypeOK
    <3> QED  BY <1>1, <2>2, <3>1, IdleFacts DEF Work, IsNext
  <2> QED  BY <2>1, <2>2
<1>6. PublishedWasSent'
  BY <1>1, IdleFacts DEF PublishedWasSent, Work
<1> QED  BY <1>3, <1>4, <1>5, <1>6

LEMMA NextInv == IInv /\ [Next]_vars => IInv'
<1> SUFFICES ASSUME IInv, [Next]_vars PROVE IInv'
  OBVIOUS
<1>1. ASSUME NEW e \in Events, ProducerCommit(e) PROVE IInv'
  BY <1>1, ProducerInv
<1>2. ASSUME NEW r \in Relays, BeginBatch(r) PROVE IInv'
  BY <1>2, BeginInv
<1>3. ASSUME NEW r \in Relays, NEW e \in Events,
             XAdd(r, e) \/ XAddFails(r, e) PROVE IInv'
  BY <1>3, XAddInv, XAddFailsInv
<1>4. ASSUME NEW r \in Relays, NEW e \in Events,
             MarkPublished(r, e) \/ MarkFailed(r, e) PROVE IInv'
  BY <1>4, DealtInv
<1>5. ASSUME NEW r \in Relays, CommitBatch(r) PROVE IInv'
  BY <1>5, CommitInv
<1>6. ASSUME NEW r \in Relays,
             Crash(r) \/ (\E e \in Events : Overflow(r, e)) PROVE IInv'
  BY <1>6, RolledBackInv
<1>7. CASE UNCHANGED vars
  BY <1>7, SameSent DEF vars, table, relay, IInv, TypeOK, BatchesDisjoint,
     Work, PublishedWasSent, IsNext
<1> QED
  BY <1>1, <1>2, <1>3, <1>4, <1>5, <1>6, <1>7 DEF Next, Drain, Poll

-----------------------------------------------------------------------------
\* The inductive invariant holds throughout every execution of the relays.
THEOREM Invariance == Spec => []IInv
  BY InitInv, NextInv, PTL DEF Spec

\* The variables keep their types: publish_attempts never leaves smallint.
THEOREM TypeCorrectness == Spec => []TypeOK
<1>1. IInv => TypeOK
  BY DEF IInv
<1> QED  BY <1>1, Invariance, PTL

\* No event is marked published that did not reach the stream, and nothing
\* reaches the stream that was not committed (drainBatch).
THEOREM NothingIsLost == Spec => []PublishedWasSent
<1>1. IInv => PublishedWasSent
  BY DEF IInv
<1> QED  BY <1>1, Invariance, PTL

\* FOR UPDATE SKIP LOCKED keeps the batches of the replicas apart.
THEOREM NoSharedRows == Spec => []BatchesDisjoint
<1>1. IInv => BatchesDisjoint
  BY DEF IInv
<1> QED  BY <1>1, Invariance, PTL

-----------------------------------------------------------------------------
\* What any step may do to the stream: a copy of one row of an open batch.
LEMMA StreamStep ==
  ASSUME IInv, [Next]_vars
  PROVE  \/ UNCHANGED copies
         \/ \E r \in Relays : \E e \in batch[r] : Added(e) /\ UNCHANGED table
<1>1. ASSUME NEW r \in Relays, NEW e \in Events, IsNext(r, e)
      PROVE  e \in batch[r]
  BY <1>1 DEF IInv, Work, IsNext
<1>2. ASSUME NEW r \in Relays, NEW e \in Events,
             XAdd(r, e) \/ XAddFails(r, e)
      PROVE  UNCHANGED copies \/ (e \in batch[r] /\ Added(e) /\ UNCHANGED table)
  BY <1>1, <1>2 DEF XAdd, XAddFails
<1>3. ASSUME NEW r \in Relays, NEW e \in Events,
             MarkPublished(r, e) \/ MarkFailed(r, e) \/ Overflow(r, e)
      PROVE  UNCHANGED copies
  BY <1>3 DEF MarkPublished, MarkFailed, Dealt, Overflow
<1>4. ASSUME NEW r \in Relays, BeginBatch(r) \/ CommitBatch(r) \/ Crash(r)
      PROVE  UNCHANGED copies
  BY <1>4 DEF BeginBatch, CommitBatch, Crash
<1>5. ASSUME NEW e \in Events, ProducerCommit(e) PROVE UNCHANGED copies
  BY <1>5 DEF ProducerCommit
<1>6. CASE UNCHANGED vars
  BY <1>6 DEF vars
<1> QED
  BY <1>2, <1>3, <1>4, <1>5, <1>6 DEF Next, Drain, Poll

\* What any step may do to the table.
LEMMA TableStep ==
  ASSUME [Next]_vars
  PROVE  \/ \E e \in Events : rows' = rows \cup {e} /\ UNCHANGED <<published, copies>>
         \/ \E r \in Relays : /\ published' = published \cup marks[r]
                              /\ UNCHANGED <<rows, copies>>
         \/ UNCHANGED <<rows, published>>
<1>1. ASSUME NEW r \in Relays, NEW e \in Events,
             \/ XAdd(r, e) \/ XAddFails(r, e)
             \/ MarkPublished(r, e) \/ MarkFailed(r, e) \/ Overflow(r, e)
      PROVE  UNCHANGED <<rows, published>>
  BY <1>1 DEF XAdd, XAddFails, MarkPublished, MarkFailed, Dealt, Overflow, table
<1>2. ASSUME NEW r \in Relays, BeginBatch(r) \/ Crash(r)
      PROVE  UNCHANGED <<rows, published>>
  BY <1>2 DEF BeginBatch, Crash, table
<1>3. ASSUME NEW r \in Relays, CommitBatch(r)
      PROVE  published' = published \cup marks[r] /\ UNCHANGED <<rows, copies>>
  BY <1>3 DEF CommitBatch
<1>4. ASSUME NEW e \in Events, ProducerCommit(e)
      PROVE  rows' = rows \cup {e} /\ UNCHANGED <<published, copies>>
  BY <1>4 DEF ProducerCommit
<1>5. CASE UNCHANGED vars
  BY <1>5 DEF vars, table
<1> QED
  BY <1>1, <1>2, <1>3, <1>4, <1>5 DEF Next, Drain, Poll

\* No replica sends a published event again (drainBatch under concurrency).
THEOREM NoResend == Spec => PublishedIsFinal
<1>1. IInv /\ [Next]_vars =>
        [\A e \in published : e \in published' /\ copies'[e] = copies[e]]_vars
  <2> SUFFICES ASSUME IInv, [Next]_vars, NEW e \in published
               PROVE  e \in published' /\ copies'[e] = copies[e]
    OBVIOUS
  <2>1. e \in published'
    BY TableStep
  <2>2. copies'[e] = copies[e]
    <3>1. ASSUME NEW r \in Relays, NEW x \in batch[r], Added(x)
          PROVE  copies'[e] = copies[e]
      BY <3>1, AddedFacts DEF IInv, TypeOK, BatchesDisjoint
    <3> QED  BY <3>1, StreamStep
  <2> QED  BY <2>1, <2>2
<1> QED  BY <1>1, Invariance, PTL DEF Spec, PublishedIsFinal

\* The relay refines AtLeastOnce: what ADR-0011 promises, short of progress.
THEOREM Refinement == Spec => ImplementsAtLeastOnce
<1>1. Init => Promised!Init
  BY DEF Init, Promised!Init, Sent
<1>2. IInv /\ [Next]_vars => [Promised!Next]_(Promised!vars)
  <2> SUFFICES ASSUME IInv, [Next]_vars
               PROVE  Promised!Next \/ UNCHANGED <<rows, Sent, published>>
    BY DEF Promised!vars
  <2>1. ASSUME NEW e \in Events, rows' = rows \cup {e},
               UNCHANGED <<published, copies>>
        PROVE  Promised!Next
    BY <2>1, SameSent DEF Promised!Next, Promised!Record
  <2>2. ASSUME NEW r \in Relays, published' = published \cup marks[r],
               UNCHANGED <<rows, copies>>
        PROVE  Promised!Next \/ UNCHANGED <<rows, Sent, published>>
    <3>1. /\ Sent' = Sent
          /\ marks[r] \subseteq Sent \ published
          /\ marks[r] \subseteq Events
      BY <2>2, SameSent DEF IInv, Work, BatchesDisjoint, TypeOK
    <3>2. Promised!Settle(marks[r])
      BY <2>2, <3>1 DEF Promised!Settle
    <3> QED  BY <3>1, <3>2 DEF Promised!Next
  <2>3. ASSUME UNCHANGED <<rows, published>>
        PROVE  Promised!Next \/ UNCHANGED <<rows, Sent, published>>
    <3>1. CASE UNCHANGED copies
      BY <2>3, <3>1, SameSent
    <3>2. ASSUME NEW r \in Relays, NEW e \in batch[r], Added(e)
          PROVE  Promised!Next
      <4>1. e \in Events /\ e \in rows \ published /\ Sent' = Sent \cup {e}
        BY <3>2, AddedFacts DEF IInv, Work, BatchesDisjoint, TypeOK
      <4>2. Promised!Send(e)
        BY <2>3, <4>1 DEF Promised!Send
      <4> QED  BY <4>1, <4>2 DEF Promised!Next
    <3> QED  BY <3>1, <3>2, StreamStep
  <2> QED  BY <2>1, <2>2, <2>3, TableStep
<1> QED
  BY <1>1, <1>2, Invariance, PTL
     DEF Spec, ImplementsAtLeastOnce, Promised!Spec

-----------------------------------------------------------------------------
(***************************************************************************)
(* Duplicates.  A copy is accounted for while the relay that added it may  *)
(* still commit, and for good once it has; the other copies are waste, and *)
(* are bounded by the faults and crashes that made them so.  A relay that  *)
(* sends an event again takes the first copy out of the waste and adds the *)
(* new one to it, which is why the waste and not the repeats is counted.   *)
(***************************************************************************)
\* The events that relay r has on the stream for good, if its batch commits,
InHand(r) == marks[r] \cup {e \in todo[r] : phase[r] = "added" /\ IsNext(r, e)}

\* those that some relay has, or that are published,
Covered == published \cup UNION {InHand(r) : r \in Relays}

\* and the copies that something went wrong for: all but the first of these.
Waste == {x \in rows \X (1 .. MaxCopies) :
            x[2] <= copies[x[1]] /\ ~ (x[2] = 1 /\ x[1] \in Covered)}

WasteBounded == Exhausted \/ Cardinality(Waste) <= faults + crashes * BatchSize

DupInv ==
  /\ IsFiniteSet(rows)
  /\ \A r \in Relays : Cardinality(batch[r]) <= BatchSize /\ marks[r] \cap todo[r] = {}
  /\ WasteBounded

\* There are finitely many copies,
Countable == IInv /\ DupInv => IsFiniteSet(Waste) /\ Cardinality(Waste) \in Nat

LEMMA WasteFinite == Countable
<1> SUFFICES ASSUME IsFiniteSet(rows)
             PROVE  IsFiniteSet(Waste) /\ Cardinality(Waste) \in Nat
  BY DEF Countable, DupInv
<1>1. IsFiniteSet(1 .. MaxCopies)
  BY BoundsAssumption, FS_Interval
<1>2. IsFiniteSet(rows \X (1 .. MaxCopies))
  BY <1>1, FS_Product
<1>3. Waste \subseteq rows \X (1 .. MaxCopies)
  BY DEF Waste
<1> QED  BY <1>2, <1>3, FS_Subset, FS_CardinalityType

\* A step that adds no waste keeps the bound,
LEMMA WasteFalls ==
  ASSUME IInv, DupInv, Waste' \subseteq Waste, Exhausted => Exhausted',
         UNCHANGED <<faults, crashes>>
  PROVE  WasteBounded'
<1>1. IsFiniteSet(Waste) /\ Cardinality(Waste) \in Nat
  BY WasteFinite DEF Countable
<1>2. Cardinality(Waste') <= Cardinality(Waste) /\ Cardinality(Waste') \in Nat
  BY <1>1, FS_Subset, FS_CardinalityType
<1>3. \A n \in Nat : n * BatchSize \in Nat
  BY BoundsAssumption
<1>4. faults + crashes * BatchSize \in Nat
  BY <1>3 DEF IInv, TypeOK
<1>5. Exhausted \/ Cardinality(Waste) <= faults + crashes * BatchSize
  BY DEF DupInv, WasteBounded
<1>6. Exhausted' \/ Cardinality(Waste') <= faults' + crashes' * BatchSize
  BY <1>1, <1>2, <1>4, <1>5
<1> QED  BY <1>6 DEF WasteBounded

\* and one that accounts for what it adds.
LEMMA WasteCaused ==
  ASSUME IInv, DupInv, NEW X, IsFiniteSet(X), Waste' \subseteq Waste \cup X,
         Exhausted => Exhausted', Cardinality(X) <= BatchSize,
         \/ crashes' = crashes + 1 /\ UNCHANGED faults
         \/ Cardinality(X) <= 1 /\ faults' = faults + 1 /\ UNCHANGED crashes
  PROVE  WasteBounded'
<1>1. IsFiniteSet(Waste) /\ Cardinality(Waste) \in Nat /\ Cardinality(X) \in Nat
  BY WasteFinite, FS_CardinalityType DEF Countable
<1>2. /\ IsFiniteSet(Waste \cup X) /\ Cardinality(Waste \cap X) \in Nat
      /\ Cardinality(Waste \cup X)
           = Cardinality(Waste) + Cardinality(X) - Cardinality(Waste \cap X)
  <2>1. IsFiniteSet(Waste \cap X)
    BY FS_Subset
  <2> QED  BY <1>1, <2>1, FS_Union, FS_CardinalityType
<1>3. Cardinality(Waste') <= Cardinality(Waste \cup X) /\ Cardinality(Waste') \in Nat
  BY <1>2, FS_Subset, FS_CardinalityType
<1>4. Cardinality(Waste') <= Cardinality(Waste) + Cardinality(X)
  BY <1>1, <1>2, <1>3
<1>5. /\ \A n \in Nat : n * BatchSize \in Nat
      /\ \A n \in Nat : (n + 1) * BatchSize = n * BatchSize + BatchSize
  BY BoundsAssumption
<1>6. crashes \in Nat /\ faults \in Nat /\ BatchSize \in Nat
  BY BoundsAssumption DEF IInv, TypeOK
<1>7. PICK n : n = crashes * BatchSize
  OBVIOUS
<1>8. n \in Nat /\ (crashes + 1) * BatchSize = n + BatchSize
  BY <1>5, <1>6, <1>7
<1>9. Exhausted \/ Cardinality(Waste) <= faults + n
  BY <1>7 DEF DupInv, WasteBounded
<1>10. CASE crashes' = crashes + 1 /\ UNCHANGED faults
  <2>1. crashes' * BatchSize = n + BatchSize
    BY <1>8, <1>10
  <2>2. Exhausted' \/ Cardinality(Waste') <= faults' + crashes' * BatchSize
    BY <1>1, <1>3, <1>4, <1>6, <1>8, <1>9, <1>10, <2>1
  <2> QED  BY <2>2 DEF WasteBounded
<1>11. CASE Cardinality(X) <= 1 /\ faults' = faults + 1 /\ UNCHANGED crashes
  <2>1. crashes' * BatchSize = n
    BY <1>7, <1>11
  <2>2. Exhausted' \/ Cardinality(Waste') <= faults' + crashes' * BatchSize
    BY <1>1, <1>3, <1>4, <1>6, <1>8, <1>9, <1>11, <2>1
  <2> QED  BY <2>2 DEF WasteBounded
<1> QED  BY <1>10, <1>11

\* At first there is no row, and no relay at work.
LEMMA InitDup == Init => DupInv
<1> SUFFICES ASSUME Init PROVE DupInv
  OBVIOUS
<1>1. rows = {} /\ \A r \in Relays : batch[r] = {} /\ marks[r] = {}
  BY DEF Init
<1>2. IsFiniteSet({}) /\ Cardinality({}) = 0
  BY FS_EmptySet
<1>3. Waste = {}
  BY <1>1 DEF Waste
<1>4. 0 <= 0 + 0 * BatchSize /\ 0 <= BatchSize
  BY BoundsAssumption
<1>5. WasteBounded
  BY <1>2, <1>3, <1>4 DEF WasteBounded, Init
<1> QED  BY <1>1, <1>2, <1>4, <1>5 DEF DupInv

\* A new row has no copy on the stream.
LEMMA ProducerDup ==
  ASSUME IInv, DupInv, NEW e \in Events, ProducerCommit(e)
  PROVE  DupInv'
<1>1. /\ rows' = rows \cup {e} /\ e \notin rows
      /\ UNCHANGED <<published, attempts, phase, batch, todo, marks, copies, faults,
             crashes>>
  BY DEF ProducerCommit, relay
<1>2. IsFiniteSet(rows')
  BY <1>1, FS_AddElement DEF DupInv
<1>3. Covered' = Covered
  BY <1>1 DEF Covered, InHand, IsNext
<1>4. copies[e] = 0
  BY <1>1 DEF IInv, TypeOK, PublishedWasSent, Sent
<1>5. Waste' \subseteq Waste
  BY <1>1, <1>3, <1>4 DEF Waste
<1>6. Exhausted => Exhausted'
  BY <1>1 DEF Exhausted
<1>7. WasteBounded'
  BY <1>1, <1>5, <1>6, WasteFalls
<1> QED  BY <1>1, <1>2, <1>7 DEF DupInv

\* A batch is at most as large as it may be.
LEMMA BeginDup ==
  ASSUME IInv, DupInv, NEW r \in Relays, BeginBatch(r)
  PROVE  DupInv'
<1>1. PICK B \in SUBSET Pending :
        /\ IsOldest(B, Pending)
        /\ batch' = [batch EXCEPT ![r] = B] /\ todo' = [todo EXCEPT ![r] = B]
  BY DEF BeginBatch
<1>2. /\ phase[r] = "idle" /\ phase' = [phase EXCEPT ![r] = "publishing"]
      /\ UNCHANGED <<rows, published, attempts, marks, copies, faults, crashes>>
  BY DEF BeginBatch, table
<1>3. marks[r] = {}
  BY <1>2 DEF IInv, Work
<1>4. \A q \in Relays :
          Cardinality(batch'[q]) <= BatchSize /\ marks'[q] \cap todo'[q] = {}
  BY <1>1, <1>2, <1>3 DEF DupInv, IInv, TypeOK, IsOldest
<1>5. \A q \in Relays : InHand(q)' = InHand(q)
  <2>1. ASSUME NEW q \in Relays \ {r} PROVE InHand(q)' = InHand(q)
    BY <1>1, <1>2 DEF InHand, IsNext, IInv, TypeOK
  <2>2. InHand(r)' = InHand(r)
    BY <1>1, <1>2 DEF InHand, IInv, TypeOK
  <2> QED  BY <2>1, <2>2
<1>6. Covered' = Covered
  BY <1>2, <1>5 DEF Covered
<1>7. Waste' \subseteq Waste
  BY <1>2, <1>6 DEF Waste
<1>8. WasteBounded'
  BY <1>2, <1>7, WasteFalls DEF Exhausted
<1> QED  BY <1>2, <1>4, <1>8 DEF DupInv

\* One more copy, at most, of an event and of no other.
LEMMA AddedCopy ==
  ASSUME TypeOK, NEW e \in Events, Added(e)
  PROVE  /\ \A x \in Events \ {e} : copies'[x] = copies[x]
         /\ copies[e] \in Nat
         /\ \A i \in Nat : i <= copies'[e] => i <= copies[e] \/ i = copies[e] + 1
<1>1. copies[e] \in Nat /\ copies'[e] = IF copies[e] < MaxCopies THEN copies[e] + 1
          ELSE copies[e]
  BY BoundsAssumption DEF Added, TypeOK
<1> QED  BY <1>1, AddedFacts

\* The copy that a relay adds is the first of its event, or takes the place of
\* the first among those that are counted.
LEMMA XAddDup ==
  ASSUME IInv, DupInv, NEW r \in Relays, NEW e \in Events, XAdd(r, e)
  PROVE  DupInv'
<1>1. /\ phase[r] = "publishing" /\ IsNext(r, e) /\ Added(e)
      /\ phase' = [phase EXCEPT ![r] = "added"]
      /\ UNCHANGED <<rows, published, attempts, batch, todo, marks, faults, crashes>>
  BY DEF XAdd, table
<1>2. e \in todo[r] /\ e \in batch[r] /\ e \in rows
  BY <1>1 DEF IsNext, IInv, Work
<1>3. InHand(r) = marks[r] /\ InHand(r)' = marks[r] \cup {e}
  <2>1. \A x \in todo[r] : IsNext(r, x) => x = e
    BY <1>1, EventsAssumption DEF IsNext, IInv, TypeOK
  <2> QED  BY <1>1, <1>2, <2>1 DEF InHand, IsNext, IInv, TypeOK
<1>4. \A q \in Relays \ {r} : InHand(q)' = InHand(q)
  BY <1>1 DEF InHand, IsNext, IInv, TypeOK
<1>5. Covered' = Covered \cup {e}
  BY <1>1, <1>3, <1>4 DEF Covered
<1>6. e \notin Covered
  <2>1. \A q \in Relays : InHand(q) \subseteq batch[q]
    BY DEF InHand, IInv, Work
  <2>2. \A q \in Relays : e \notin InHand(q)
    BY <1>2, <1>3, <2>1 DEF DupInv, IInv, BatchesDisjoint
  <2> QED  BY <1>2, <2>2 DEF Covered, IInv, BatchesDisjoint
<1>7. PICK c \in Nat : c = copies[e]
  BY <1>1, AddedCopy DEF IInv
<1>8. /\ \A x \in Events \ {e} : copies'[x] = copies[x]
      /\ \A i \in Nat : i <= copies'[e] => i <= c \/ i = c + 1
  BY <1>1, <1>7, AddedCopy DEF IInv
<1>9. rows \subseteq Events
  BY DEF IInv, TypeOK
<1>10. Exhausted => Exhausted'
  BY <1>1 DEF Exhausted
<1>11. CASE c = 0
  <2>1. Waste' \subseteq Waste
    <3> SUFFICES ASSUME NEW x \in Waste' PROVE x \in Waste
      OBVIOUS
    <3>1. /\ x \in rows \X (1 .. MaxCopies) /\ x[2] <= copies'[x[1]]
          /\ ~ (x[2] = 1 /\ x[1] \in Covered \cup {e})
      BY <1>1, <1>5 DEF Waste
    <3>2. x[1] \in Events /\ x[2] \in Nat /\ x[2] >= 1
      BY <1>9, <3>1
    <3>3. x[1] # e
      BY <1>8, <1>11, <3>1, <3>2
    <3> QED  BY <1>8, <3>1, <3>2, <3>3 DEF Waste
  <2> QED  BY <1>1, <1>10, <2>1, WasteFalls DEF DupInv
<1>12. CASE c # 0
  <2> DEFINE first == <<e, 1>>
             new == <<e, c + 1>>
  <2>1. first \in Waste
    <3>1. 1 \in 1 .. MaxCopies /\ 1 <= c
      BY <1>12, BoundsAssumption
    <3> QED  BY <1>2, <1>6, <1>7, <3>1 DEF Waste
  <2>2. Waste' \subseteq (Waste \ {first}) \cup {new}
    <3> SUFFICES ASSUME NEW x \in Waste', x # new
                 PROVE  x \in Waste /\ x # first
      OBVIOUS
    <3>1. /\ x \in rows \X (1 .. MaxCopies) /\ x[2] <= copies'[x[1]]
          /\ ~ (x[2] = 1 /\ x[1] \in Covered \cup {e})
      BY <1>1, <1>5 DEF Waste
    <3>2. x[1] \in Events /\ x[2] \in Nat /\ x = <<x[1], x[2]>>
      BY <1>9, <3>1
    <3>3. x[2] <= copies[x[1]]
      BY <1>7, <1>8, <3>1, <3>2
    <3> QED  BY <3>1, <3>3 DEF Waste
  <2>3. IsFiniteSet(Waste) /\ Cardinality(Waste) \in Nat
    BY WasteFinite DEF Countable
  <2> HIDE DEF first, new
  <2>4. /\ IsFiniteSet(Waste \ {first})
        /\ Cardinality(Waste \ {first}) = Cardinality(Waste) - 1
    BY <2>1, <2>3, FS_RemoveElement
  <2>5. /\ IsFiniteSet((Waste \ {first}) \cup {new})
        /\ Cardinality((Waste \ {first}) \cup {new}) \in Nat
        /\ Cardinality((Waste \ {first}) \cup {new}) <= Cardinality(Waste)
    <3>1. PICK S : S = Waste \ {first}
      OBVIOUS
    <3>2. /\ IsFiniteSet(S \cup {new})
          /\ Cardinality(S \cup {new}) = IF new \in S THEN Cardinality(S)
                                                      ELSE Cardinality(S) + 1
      BY <2>4, <3>1, FS_AddElement
    <3>3. Cardinality(S \cup {new}) <= Cardinality(Waste)
      BY <2>3, <2>4, <3>1, <3>2
    <3> QED  BY <3>1, <3>2, <3>3, FS_CardinalityType
  <2>6. Cardinality(Waste') <= Cardinality(Waste) /\ Cardinality(Waste') \in Nat
    BY <2>2, <2>3, <2>5, FS_Subset, FS_CardinalityType
  <2>7. WasteBounded'
    <3>1. \A n \in Nat : n * BatchSize \in Nat
      BY BoundsAssumption
    <3>2. PICK m \in Nat : m = faults + crashes * BatchSize
      BY <3>1 DEF IInv, TypeOK
    <3>3. m = faults' + crashes' * BatchSize
      BY <1>1, <3>2
    <3>4. Exhausted \/ Cardinality(Waste) <= m
      BY <3>2 DEF DupInv, WasteBounded
    <3>5. Exhausted' \/ Cardinality(Waste') <= m
      BY <1>10, <2>3, <2>6, <3>4
    <3> QED  BY <3>3, <3>5 DEF WasteBounded
  <2> QED  BY <1>1, <2>7 DEF DupInv
<1> QED  BY <1>11, <1>12

\* A publish that fails may have added one.
LEMMA XAddFailsDup ==
  ASSUME IInv, DupInv, NEW r \in Relays, NEW e \in Events, XAddFails(r, e)
  PROVE  DupInv'
<1>1. /\ phase[r] = "publishing" /\ phase' = [phase EXCEPT ![r] = "failed"]
      /\ faults' = faults + 1 /\ (Added(e) \/ UNCHANGED copies)
      /\ UNCHANGED <<rows, published, attempts, batch, todo, marks, crashes>>
  BY DEF XAddFails, table
<1>2. \A q \in Relays : InHand(q)' = InHand(q)
  BY <1>1 DEF InHand, IsNext, IInv, TypeOK
<1>3. Covered' = Covered
  BY <1>1, <1>2 DEF Covered
<1>4. Waste' \subseteq Waste \cup {<<e, copies[e] + 1>>}
  <2> SUFFICES ASSUME NEW x \in Waste', x # <<e, copies[e] + 1>> PROVE x \in Waste
    OBVIOUS
  <2>1. /\ x \in rows \X (1 .. MaxCopies) /\ x[2] <= copies'[x[1]]
        /\ ~ (x[2] = 1 /\ x[1] \in Covered)
    BY <1>1, <1>3 DEF Waste
  <2>2. x[1] \in Events /\ x[2] \in Nat /\ x = <<x[1], x[2]>>
    BY <2>1 DEF IInv, TypeOK
  <2>3. x[2] <= copies[x[1]]
    <3>1. CASE UNCHANGED copies
      BY <2>1, <3>1
    <3>2. CASE Added(e)
      BY <2>1, <2>2, <3>2, AddedCopy DEF IInv
    <3> QED  BY <1>1, <3>1, <3>2
  <2> QED  BY <2>1, <2>3 DEF Waste
<1>5. PICK x : x = <<e, copies[e] + 1>>
  OBVIOUS
<1>6. IsFiniteSet({x}) /\ Cardinality({x}) = 1
  BY FS_Singleton
<1>7. Exhausted => Exhausted'
  BY <1>1 DEF Exhausted
<1>8. 1 <= BatchSize
  BY BoundsAssumption
<1>9. WasteBounded'
  <2>1. Waste' \subseteq Waste \cup {x}
    BY <1>4, <1>5
  <2>2. Cardinality({x}) <= 1 /\ Cardinality({x}) <= BatchSize
    BY <1>6, <1>8
  <2> QED  BY <1>1, <1>6, <1>7, <2>1, <2>2, WasteCaused
<1> QED  BY <1>1, <1>9 DEF DupInv

\* What was in hand is marked and still in hand; what failed is not.
LEMMA DealtDup ==
  ASSUME IInv, DupInv, NEW r \in Relays, NEW e \in Events,
         MarkPublished(r, e) \/ MarkFailed(r, e)
  PROVE  DupInv'
<1>1. /\ IsNext(r, e) /\ todo' = [todo EXCEPT ![r] = @ \ {e}]
      /\ phase' = [phase EXCEPT ![r] = "publishing"]
      /\ UNCHANGED <<rows, published, attempts, batch, copies, faults, crashes>>
  BY DEF MarkPublished, MarkFailed, Dealt, table
<1>2. \/ phase[r] = "added" /\ marks' = [marks EXCEPT ![r] = @ \cup {e}]
      \/ phase[r] = "failed" /\ UNCHANGED marks
  BY DEF MarkPublished, MarkFailed
<1>3. todo'[r] = todo[r] \ {e} /\ phase'[r] = "publishing"
          /\ marks'[r] \subseteq marks[r] \cup {e}
  BY <1>1, <1>2 DEF IInv, TypeOK
<1>4. \A q \in Relays \ {r} :
        todo'[q] = todo[q] /\ phase'[q] = phase[q] /\ marks'[q] = marks[q]
  BY <1>1, <1>2 DEF IInv, TypeOK
<1>5. \A q \in Relays :
          Cardinality(batch'[q]) <= BatchSize /\ marks'[q] \cap todo'[q] = {}
  BY <1>1, <1>3, <1>4 DEF DupInv
<1>6. InHand(r) \subseteq InHand(r)'
  <2>1. CASE phase[r] = "added" /\ marks' = [marks EXCEPT ![r] = @ \cup {e}]
    <3>1. marks'[r] = marks[r] \cup {e}
      BY <2>1 DEF IInv, TypeOK
    <3>2. \A x \in todo[r] : IsNext(r, x) => x = e
      BY <1>1, EventsAssumption DEF IsNext, IInv, TypeOK
    <3> QED  BY <3>1, <3>2 DEF InHand
  <2>2. CASE phase[r] = "failed" /\ UNCHANGED marks
    BY <2>2 DEF InHand
  <2> QED  BY <1>2, <2>1, <2>2
<1>7. \A q \in Relays \ {r} : InHand(q)' = InHand(q)
  BY <1>4 DEF InHand, IsNext
<1>8. Covered \subseteq Covered'
  BY <1>1, <1>6, <1>7 DEF Covered
<1>9. Waste' \subseteq Waste
  BY <1>1, <1>8 DEF Waste
<1>10. WasteBounded'
  BY <1>1, <1>9, WasteFalls DEF Exhausted
<1> QED  BY <1>1, <1>5, <1>10 DEF DupInv

\* What was in hand is published; a row that has used up its range stays.
LEMMA CommitDup ==
  ASSUME IInv, DupInv, NEW r \in Relays, CommitBatch(r)
  PROVE  DupInv'
<1>1. /\ Idle(r) /\ UNCHANGED <<rows, copies, faults, crashes>>
      /\ published' = published \cup marks[r] /\ todo[r] = {}
      /\ attempts' = [e \in Events |-> IF e \in batch[r] THEN attempts[e] + 1
                                                         ELSE attempts[e]]
  BY DEF CommitBatch
<1>2. /\ batch'[r] = {} /\ todo'[r] = {} /\ marks'[r] = {} /\ phase'[r] = "idle"
      /\ \A q \in Relays \ {r} :
           /\ phase'[q] = phase[q] /\ batch'[q] = batch[q]
           /\ todo'[q] = todo[q] /\ marks'[q] = marks[q]
  BY <1>1, IdleFacts
<1>3. Cardinality({}) <= BatchSize
  BY FS_EmptySet, BoundsAssumption
<1>4. \A q \in Relays :
          Cardinality(batch'[q]) <= BatchSize /\ marks'[q] \cap todo'[q] = {}
  BY <1>2, <1>3 DEF DupInv
<1>5. InHand(r) \subseteq published'
  BY <1>1 DEF InHand
<1>6. \A q \in Relays \ {r} : InHand(q)' = InHand(q)
  BY <1>2 DEF InHand, IsNext
<1>7. Covered \subseteq Covered'
  BY <1>1, <1>5, <1>6 DEF Covered
<1>8. Waste' \subseteq Waste
  BY <1>1, <1>7 DEF Waste
<1>9. Exhausted => Exhausted'
  <2> SUFFICES ASSUME NEW e \in rows \ published, attempts[e] = SmallintMax
               PROVE  Exhausted'
    BY DEF Exhausted
  <2>1. e \notin batch[r]
    BY <1>1, BoundsAssumption DEF IInv, Work
  <2>2. e \in Events /\ e \notin marks[r]
    BY <2>1 DEF IInv, TypeOK, Work
  <2>3. e \in rows' \ published' /\ attempts'[e] = SmallintMax
    BY <1>1, <2>1, <2>2
  <2> QED  BY <2>3 DEF Exhausted
<1>10. WasteBounded'
  BY <1>1, <1>8, <1>9, WasteFalls
<1> QED  BY <1>1, <1>4, <1>10 DEF DupInv

\* A batch that is rolled back wastes what it had in hand: after a crash at most
\* one copy of each row, and with a full publish_attempts the bound is off.
LEMMA RolledBackDup ==
  ASSUME IInv, DupInv, NEW r \in Relays,
         Crash(r) \/ \E e \in Events : Overflow(r, e)
  PROVE  DupInv'
<1>1. /\ Idle(r) /\ UNCHANGED <<rows, published, attempts, copies, faults>>
      /\ crashes' = crashes + 1 \/ \E e \in Events : Overflow(r, e)
  BY DEF Crash, Overflow, table
<1>2. /\ batch'[r] = {} /\ todo'[r] = {} /\ marks'[r] = {} /\ phase'[r] = "idle"
      /\ \A q \in Relays \ {r} :
           /\ phase'[q] = phase[q] /\ batch'[q] = batch[q]
           /\ todo'[q] = todo[q] /\ marks'[q] = marks[q]
  BY <1>1, IdleFacts
<1>3. Cardinality({}) <= BatchSize
  BY FS_EmptySet, BoundsAssumption
<1>4. \A q \in Relays :
          Cardinality(batch'[q]) <= BatchSize /\ marks'[q] \cap todo'[q] = {}
  BY <1>2, <1>3 DEF DupInv
<1>5. CASE \E e \in Events : Overflow(r, e)
  <2>1. PICK e \in Events : Overflow(r, e)
    BY <1>5
  <2>2. e \in batch[r] /\ attempts[e] >= SmallintMax
    BY <2>1 DEF Overflow, IsNext, IInv, Work
  <2>3. e \in rows \ published /\ attempts[e] = SmallintMax
    BY <2>2, BoundsAssumption DEF IInv, TypeOK, Work, BatchesDisjoint
  <2>4. Exhausted'
    BY <1>1, <2>3 DEF Exhausted
  <2> QED  BY <1>1, <1>4, <2>4 DEF DupInv, WasteBounded
<1>6. CASE crashes' = crashes + 1
  <2> DEFINE X == batch[r] \X {1}
  <2>1. IsFiniteSet(batch[r]) /\ Cardinality(batch[r]) \in Nat
    BY FS_Subset, FS_CardinalityType DEF DupInv, IInv, Work
  <2>2. IsFiniteSet({1}) /\ Cardinality({1}) = 1
    BY FS_Singleton
  <2>3. IsFiniteSet(X) /\ Cardinality(X) = Cardinality(batch[r]) * 1
    BY <2>1, <2>2, FS_Product
  <2>4. Cardinality(X) <= BatchSize
    BY <2>1, <2>3 DEF DupInv
  <2>5. \A q \in Relays \ {r} : InHand(q)' = InHand(q)
    BY <1>2 DEF InHand, IsNext
  <2>6. InHand(r) \subseteq batch[r]
    BY DEF InHand, IInv, Work
  <2>7. Covered \subseteq Covered' \cup batch[r]
    BY <1>1, <2>5, <2>6 DEF Covered
  <2>8. Waste' \subseteq Waste \cup X
    <3> SUFFICES ASSUME NEW x \in Waste', x \notin X PROVE x \in Waste
      OBVIOUS
    <3>1. /\ x \in rows \X (1 .. MaxCopies) /\ x[2] <= copies[x[1]]
          /\ ~ (x[2] = 1 /\ x[1] \in Covered')
      BY <1>1 DEF Waste
    <3>2. x[2] = 1 => x[1] \notin batch[r]
      BY <3>1
    <3> QED  BY <2>7, <3>1, <3>2 DEF Waste
  <2>9. Exhausted => Exhausted'
    BY <1>1 DEF Exhausted
  <2> HIDE DEF X
  <2>10. WasteBounded'
    BY <1>1, <1>6, <2>3, <2>4, <2>8, <2>9, WasteCaused
  <2> QED  BY <1>1, <1>4, <2>10 DEF DupInv
<1> QED  BY <1>1, <1>5, <1>6

\* Every step accounts for the copies it wastes.
LEMMA NextDup == IInv /\ DupInv /\ [Next]_vars => DupInv'
<1> SUFFICES ASSUME IInv, DupInv, [Next]_vars PROVE DupInv'
  OBVIOUS
<1>1. ASSUME NEW e \in Events, ProducerCommit(e) PROVE DupInv'
  BY <1>1, ProducerDup
<1>2. ASSUME NEW r \in Relays, BeginBatch(r) \/ CommitBatch(r) PROVE DupInv'
  BY <1>2, BeginDup, CommitDup
<1>3. ASSUME NEW r \in Relays, NEW e \in Events,
             XAdd(r, e) \/ XAddFails(r, e) PROVE DupInv'
  BY <1>3, XAddDup, XAddFailsDup
<1>4. ASSUME NEW r \in Relays, NEW e \in Events,
             MarkPublished(r, e) \/ MarkFailed(r, e) PROVE DupInv'
  BY <1>4, DealtDup
<1>5. ASSUME NEW r \in Relays,
             Crash(r) \/ (\E e \in Events : Overflow(r, e)) PROVE DupInv'
  BY <1>5, RolledBackDup
<1>6. CASE UNCHANGED vars
  <2>1. UNCHANGED <<rows, published, attempts, phase, batch, todo, marks, copies,
                    faults, crashes>>
    BY <1>6 DEF vars, table, relay
  <2>2. Waste' = Waste /\ (Exhausted => Exhausted')
    BY <2>1 DEF Waste, Covered, InHand, IsNext, Exhausted
  <2> QED  BY <2>1, <2>2 DEF DupInv, WasteBounded
<1> QED
  BY <1>1, <1>2, <1>3, <1>4, <1>5, <1>6 DEF Next, Drain, Poll

\* DuplicatesBounded (outbox-relay/src/index.ts, drainBatch): an event is on
\* the stream a second time only for a publish that failed or for a row of a
\* batch that a crash cut short.
THEOREM DuplicatesBoundedAlways == Spec => []DuplicatesBounded
<1>1. IInv /\ DupInv => DuplicatesBounded
  <2> SUFFICES ASSUME IInv, DupInv PROVE DuplicatesBounded
    OBVIOUS
  <2>1. Repeats \subseteq Waste
    <3> SUFFICES ASSUME NEW x \in Repeats PROVE x \in Waste
      OBVIOUS
    <3>1. x \in Events \X (2 .. MaxCopies) /\ x[2] <= copies[x[1]]
      BY DEF Repeats
    <3>2. x[1] \in rows
      BY <3>1 DEF IInv, TypeOK, PublishedWasSent, Sent
    <3> QED  BY <3>1, <3>2 DEF Waste
  <2>2. IsFiniteSet(Waste) /\ Cardinality(Waste) \in Nat
    BY WasteFinite DEF Countable
  <2>3. Cardinality(Repeats) <= Cardinality(Waste) /\ Cardinality(Repeats) \in Nat
    BY <2>1, <2>2, FS_Subset, FS_CardinalityType
  <2>4. \A n \in Nat : n * BatchSize \in Nat
    BY BoundsAssumption
  <2>5. faults + crashes * BatchSize \in Nat
    BY <2>4 DEF IInv, TypeOK
  <2> QED  BY <2>2, <2>3, <2>5 DEF DupInv, WasteBounded, DuplicatesBounded
<1> QED  BY <1>1, Invariance, InitDup, NextDup, PTL DEF Spec
=============================================================================
