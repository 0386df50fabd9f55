---------------------------- MODULE WebhooksProofs ----------------------------
(***************************************************************************)
(* Proofs about Webhooks: by how much ticks that overlap can exceed the    *)
(* quota of a tenant, and how often a subscriber can be told of an event.  *)
(*                                                                         *)
(* Both counts are read before the POST and written after it; so each      *)
(* invariant adds to the count the ticks that are in between.  Steps are   *)
(* sorted by what they do to these ticks, and each kind is dealt with once.*)
(***************************************************************************)
EXTENDS Webhooks, FiniteSetTheorems, TLAPS

\* A delivery that will be tried again has an attempt left.
AttemptsLeft ==
  /\ \A k \in Keys : delivery[k] = "pending" => k.attempt < MaxAttempts
  /\ \A w \in Ticks : \A k \in claimed[w] \cup retry[w] : k.attempt < MaxAttempts

Called == \A w \in Ticks : Delivering(w) => call[w] \in Calls

\* Ticks dispatch what was published.
InHand == \A w \in Ticks : entries[w] \cup entry[w] \subseteq arrived

TypeInv == TypeOK /\ AttemptsLeft /\ Called /\ InHand

InDeliver == {w \in Ticks : Delivering(w)}

QuotaInv ==
  hour + Cardinality(InDeliver)
    < Quota + Cardinality(Ticks) + (MaxBudget - budget)

Successes(s, e) == HasStatus(s, e, "success")
Posts(s, e) ==
  {w \in Ticks : phase[w] = "posting" /\ call[w].sub = s /\ call[w].event = e}

SuccessInv(s, e) ==
  /\ IsFiniteSet(Successes(s, e))
  /\ \/ Cardinality(Successes(s, e)) = 0
     \/ Cardinality(Successes(s, e)) + Cardinality(Posts(s, e))
          <= Cardinality(Ticks)

IInv == TypeInv /\ QuotaInv /\ \A s \in Subs, e \in Events : SuccessInv(s, e)

-----------------------------------------------------------------------------
(* Types.                                                                  *)
LEMMA InitTypes == Init => TypeInv
  BY BoundsAssumption
  DEF Init, TypeInv, TypeOK, AttemptsLeft, Called, InHand, Delivering,
      SubStatuses, RowStatuses, Phases, Keys

\* The administrator, the relay and the clock touch no tick.
LEMMA OutsideTypes ==
  ASSUME TypeInv,
         \/ \E s \in Subs :
              \/ CreateSubscription(s) \/ TestDelivery(s)
              \/ \E status \in {"active", "suspended", "disabled"} :
                   PatchStatus(s, status)
         \/ \E x \in Entries : Published(x) \/ WindowPasses(x)
         \/ RowAges
  PROVE  TypeInv'
<1>1. UNCHANGED <<delivery, phase, entries, entry, targets, claimed, retry, call>>
  BY DEF CreateSubscription, TestDelivery, PatchStatus, Published, WindowPasses,
         RowAges, tables, work
<1>2. AttemptsLeft' /\ Called'
  BY <1>1 DEF TypeInv, AttemptsLeft, Called, Delivering
<1>3. /\ sub' \in [Subs -> SubStatuses] /\ redis' \in BOOLEAN
      /\ hour' \in Nat /\ budget' \in 0 .. MaxBudget
  BY BoundsAssumption
  DEF TypeInv, TypeOK, SubStatuses, CreateSubscription, TestDelivery,
      PatchStatus, Published, WindowPasses, RowAges, tables, Disturbance
<1>4. /\ arrived' \subseteq Entries /\ unread' \subseteq arrived'
      /\ acked' \subseteq arrived' /\ dropped' = dropped
      /\ arrived \subseteq arrived'
  BY DEF TypeInv, TypeOK, CreateSubscription, TestDelivery, PatchStatus,
         Published, WindowPasses, RowAges, stream
<1> QED  BY <1>1, <1>2, <1>3, <1>4 DEF TypeInv, TypeOK, InHand

\* The first half of a tick.
LEMMA EventTypes ==
  ASSUME TypeInv, NEW w \in Ticks,
         \/ ReadStream(w) \/ ReadOutbox(w) \/ FinishEntry(w)
         \/ \E x \in Entries : LoadSubs(w, x)
  PROVE  TypeInv'
<1> USE DEF TypeInv
<1>1. /\ UNCHANGED <<redis, sub, delivery, hour, arrived, dropped, claimed, retry,
                     call, budget>>
      /\ \E p \in {"events", "targets"} : phase' = [phase EXCEPT ![w] = p]
  BY DEF ReadStream, ReadOutbox, FinishEntry, LoadSubs, tables, stream, Goto
<1>2. AttemptsLeft' /\ Called'
  BY <1>1 DEF TypeOK, AttemptsLeft, Called, Delivering
<1>3. phase' \in [Ticks -> Phases]
  BY <1>1 DEF TypeOK, Phases
<1>4. entries' \in [Ticks -> SUBSET Entries]
  BY DEF TypeOK, ReadStream, ReadOutbox, FinishEntry, LoadSubs
<1>5. entry' \in [Ticks -> SUBSET Entries] /\ targets' \in [Ticks -> SUBSET Subs]
  BY DEF TypeOK, ReadStream, ReadOutbox, FinishEntry, LoadSubs
<1>6. unread' \subseteq arrived
  BY DEF TypeOK, ReadStream, ReadOutbox, FinishEntry, LoadSubs, stream
<1>7. acked' \subseteq arrived
  <2>1. CASE FinishEntry(w)
    <3>1. acked' = IF redis THEN acked \cup entry[w] ELSE acked
      BY <2>1 DEF FinishEntry
    <3> QED  BY <3>1 DEF TypeOK, InHand
  <2>2. CASE ~ FinishEntry(w)
    BY <2>2 DEF TypeOK, ReadStream, ReadOutbox, LoadSubs, stream
  <2> QED  BY <2>1, <2>2
<1>8. InHand'
  BY <1>1 DEF TypeOK, InHand, ReadStream, ReadOutbox, FinishEntry, LoadSubs
<1> QED  BY <1>1, <1>2, <1>3, <1>4, <1>5, <1>6, <1>7, <1>8 DEF TypeOK

\* A delivery begins, of an event or of a retry.
LEMMA CheckTypes ==
  ASSUME TypeInv, NEW w \in Ticks, NEW s \in Subs, NEW e \in Events,
         NEW a \in 1 .. MaxAttempts, NEW back \in {"targets", "retried"},
         CheckQuota(w, s, e, a, back)
  PROVE  /\ phase' \in [Ticks -> Phases]
         /\ call' \in [Ticks -> Calls \cup {NoCall}]
         /\ dropped' \subseteq Subs \X Events
         /\ Called'
<1> DEFINE c == [sub |-> s, event |-> e, attempt |-> a]
<1>1. c \in Calls
  BY DEF Calls
<1>2. \/ /\ phase' = [phase EXCEPT ![w] = "allowed"]
         /\ call' = [call EXCEPT ![w] = c] /\ dropped' = dropped
      \/ /\ phase' = [phase EXCEPT ![w] = back]
         /\ dropped' = dropped \cup {<<s, e>>} /\ call' = call
  BY DEF CheckQuota, Goto
<1> QED
  BY <1>1, <1>2 DEF TypeInv, TypeOK, Called, Delivering, Phases

LEMMA DeliverEventTypes ==
  ASSUME TypeInv, NEW w \in Ticks, NEW s \in Subs, DeliverEvent(w, s)
  PROVE  TypeInv'
<1> USE DEF TypeInv
<1>1. /\ targets' = [targets EXCEPT ![w] = @ \ {s}]
      /\ UNCHANGED <<redis, sub, delivery, hour, arrived, unread, acked, entries,
                     entry, claimed, retry, budget>>
  BY DEF DeliverEvent, tables, stream
<1>2. PICK x \in entry[w] : CheckQuota(w, s, x[1], 1, "targets")
  BY DEF DeliverEvent
<1>3. x[1] \in Events /\ 1 \in 1 .. MaxAttempts
  BY BoundsAssumption DEF TypeOK, Entries
<1>4. /\ phase' \in [Ticks -> Phases]
      /\ call' \in [Ticks -> Calls \cup {NoCall}]
      /\ dropped' \subseteq Subs \X Events /\ Called'
  BY <1>2, <1>3, CheckTypes
<1>5. targets' \in [Ticks -> SUBSET Subs]
  BY <1>1 DEF TypeOK
<1>6. AttemptsLeft' /\ InHand'
  BY <1>1 DEF AttemptsLeft, InHand
<1> QED  BY <1>1, <1>4, <1>5, <1>6 DEF TypeOK

LEMMA RetryTypes ==
  ASSUME TypeInv, NEW w \in Ticks, NEW k \in Keys, RetryDelivery(w, k)
  PROVE  TypeInv'
<1> USE DEF TypeInv
<1>1. /\ claimed' = [claimed EXCEPT ![w] = @ \ {k}] /\ k \in claimed[w]
      /\ retry' = [retry EXCEPT ![w] = {k}]
      /\ UNCHANGED <<redis, sub, delivery, hour, arrived, unread, acked, entries,
                     entry, targets, budget>>
      /\ CheckQuota(w, k.sub, k.event, k.attempt + 1, "retried")
  BY DEF RetryDelivery, tables, stream
<1>2. k.attempt < MaxAttempts
  BY <1>1 DEF AttemptsLeft
<1>3. k.sub \in Subs /\ k.event \in Events /\ k.attempt + 1 \in 1 .. MaxAttempts
  BY <1>2, BoundsAssumption DEF Keys
<1>4. /\ phase' \in [Ticks -> Phases]
      /\ call' \in [Ticks -> Calls \cup {NoCall}]
      /\ dropped' \subseteq Subs \X Events /\ Called'
  BY <1>1, <1>3, CheckTypes
<1>5. claimed' \in [Ticks -> SUBSET Keys] /\ retry' \in [Ticks -> SUBSET Keys]
  BY <1>1 DEF TypeOK
<1>6. AttemptsLeft' /\ InHand'
  BY <1>1, <1>2 DEF AttemptsLeft, InHand, TypeOK
<1> QED  BY <1>1, <1>4, <1>5, <1>6 DEF TypeOK

-----------------------------------------------------------------------------
\* A tick leaves deliver, and what it holds is given up or kept.
LEMMA AwayTypes ==
  ASSUME TypeInv, NEW w \in Ticks, NEW p \in Phases \ {"allowed", "posting"},
         phase' = [phase EXCEPT ![w] = p],
         call' \in {call, [call EXCEPT ![w] = NoCall]},
         UNCHANGED <<redis, arrived, unread, acked, dropped>>,
         hour' \in Nat, budget' \in 0 .. MaxBudget,
         sub' \in [Subs -> SubStatuses], delivery' \in [Keys -> RowStatuses],
         \A k \in Keys : delivery'[k] = "pending" =>
           delivery[k] = "pending" \/ k.attempt < MaxAttempts,
         entries' \in {entries, [entries EXCEPT ![w] = {}]},
         entry' \in {entry, [entry EXCEPT ![w] = {}]},
         targets' \in {targets, [targets EXCEPT ![w] = {}]},
         claimed' \in {claimed, [claimed EXCEPT ![w] = {}]},
         retry' \in {retry, [retry EXCEPT ![w] = {}]}
  PROVE  TypeInv'
<1> USE DEF TypeInv
<1>1. phase' \in [Ticks -> Phases] /\ call' \in [Ticks -> Calls \cup {NoCall}]
  BY DEF TypeOK
<1>2. /\ entries' \in [Ticks -> SUBSET Entries]
      /\ entry' \in [Ticks -> SUBSET Entries]
      /\ targets' \in [Ticks -> SUBSET Subs]
  BY DEF TypeOK
<1>3. claimed' \in [Ticks -> SUBSET Keys] /\ retry' \in [Ticks -> SUBSET Keys]
  BY DEF TypeOK
<1>4. AttemptsLeft'
  BY DEF AttemptsLeft, TypeOK
<1>5. Called'
  BY DEF Called, Delivering, TypeOK
<1>6. InHand'
  BY DEF InHand, TypeOK
<1> QED  BY <1>1, <1>2, <1>3, <1>4, <1>5, <1>6 DEF TypeOK

\* What the tick w leaves in place when it goes on to p.
LEMMA Kept ==
  ASSUME TypeInv
  PROVE  /\ hour \in Nat /\ hour + 1 \in Nat /\ budget \in 0 .. MaxBudget
         /\ Disturbance => budget' \in 0 .. MaxBudget
         /\ sub \in [Subs -> SubStatuses] /\ delivery \in [Keys -> RowStatuses]
  BY BoundsAssumption DEF TypeInv, TypeOK, Disturbance

\* The row of an attempt is new, and recorded as the caller says.
LEMMA InsertFacts ==
  ASSUME TypeInv, NEW w \in Ticks, NEW status \in {"pending", "success"},
         Insert(w, status)
  PROVE  /\ \E k \in Keys : /\ delivery[k] = "none"
                           /\ k.sub = call[w].sub /\ k.event = call[w].event
                           /\ k.attempt = call[w].attempt
                           /\ delivery' = [delivery EXCEPT ![k] = status]
         /\ delivery' \in [Keys -> RowStatuses]
         /\ hour' = hour + 1
<1>1. PICK k \in NewKeys(call[w].sub, call[w].event, call[w].attempt) :
        delivery' = [delivery EXCEPT ![k] = status]
  BY DEF Insert
<1>2. /\ k \in Keys /\ delivery[k] = "none"
      /\ k.sub = call[w].sub /\ k.event = call[w].event
      /\ k.attempt = call[w].attempt
  BY DEF NewKeys
<1>3. delivery' \in [Keys -> RowStatuses]
  BY <1>1, <1>2 DEF TypeInv, TypeOK, RowStatuses
<1> QED  BY <1>1, <1>2, <1>3 DEF Insert

\* Where deliver returns to.
LEMMA ReturnFacts ==
  ASSUME NEW w \in Ticks, Return(w)
  PROVE  \E p \in Phases \ {"allowed", "posting"} :
           /\ phase' = [phase EXCEPT ![w] = p]
           /\ call' = [call EXCEPT ![w] = NoCall]
  BY DEF Return, Goto, Phases

LEMMA DeliverTypes ==
  ASSUME TypeInv, NEW w \in Ticks, Deliver(w)
  PROVE  TypeInv'
<1>1. CASE StartPost(w) /\ phase' = [phase EXCEPT ![w] = "posting"] /\ call' = call
  <2>1. /\ phase[w] = "allowed"
        /\ UNCHANGED <<redis, sub, delivery, hour, arrived, unread, acked, dropped,
                       entries, entry, targets, claimed, retry, call, budget>>
    BY <1>1 DEF StartPost, tables, stream, work
  <2>2. Called'
    BY <1>1, <2>1 DEF TypeInv, TypeOK, Called, Delivering
  <2>3. phase' \in [Ticks -> Phases]
    BY <1>1 DEF TypeInv, TypeOK, Phases
  <2> QED
    BY <2>1, <2>2, <2>3 DEF TypeInv, TypeOK, AttemptsLeft, InHand
<1>2. CASE StartPost(w) /\ Return(w)
  <2>1. UNCHANGED <<redis, sub, delivery, hour, arrived, unread, acked, dropped,
                    entries, entry, targets, claimed, retry, budget>>
    BY <1>2 DEF StartPost, tables, stream, work
  <2> QED  BY <1>2, <2>1, ReturnFacts, Kept, AwayTypes
<1>3. CASE Succeed(w)
  <2>1. /\ Return(w) /\ Insert(w, "success")
        /\ UNCHANGED <<redis, sub, arrived, unread, acked, dropped, entries, entry,
                       targets, claimed, retry, budget>>
    BY <1>3 DEF Succeed, stream, work
  <2>2. /\ delivery' \in [Keys -> RowStatuses] /\ hour' = hour + 1
        /\ \A k \in Keys : delivery'[k] = "pending" => delivery[k] = "pending"
    BY <2>1, InsertFacts, Kept
  <2> QED  BY <2>1, <2>2, ReturnFacts, Kept, AwayTypes
<1>4. CASE Postpone(w)
  <2>1. /\ Return(w) /\ Insert(w, "pending") /\ call[w].attempt < MaxAttempts
        /\ UNCHANGED <<redis, sub, arrived, unread, acked, dropped, entries, entry,
                       targets, claimed, retry, budget>>
    BY <1>4 DEF Postpone, stream, work
  <2>2. /\ delivery' \in [Keys -> RowStatuses] /\ hour' = hour + 1
        /\ \A k \in Keys : delivery'[k] = "pending" =>
             delivery[k] = "pending" \/ k.attempt < MaxAttempts
    BY <2>1, InsertFacts, Kept
  <2> QED  BY <2>1, <2>2, ReturnFacts, Kept, AwayTypes
<1>5. CASE Exhaust(w)
  <2>1. /\ Return(w) /\ hour' = hour + 1
        /\ sub' = [sub EXCEPT ![call[w].sub] = "suspended"]
        /\ UNCHANGED <<redis, delivery, arrived, unread, acked, dropped, entries,
                       entry, targets, claimed, retry, budget>>
    BY <1>5 DEF Exhaust, stream, work
  <2>2. sub' \in [Subs -> SubStatuses]
    BY <2>1, Kept DEF SubStatuses
  <2> QED  BY <2>1, <2>2, ReturnFacts, Kept, AwayTypes
<1>6. CASE Supersede(w)
  <2>1. /\ phase' = [phase EXCEPT ![w] = "retrying"]
        /\ delivery' = [k \in Keys |->
             IF k \in retry[w] /\ delivery[k] = "pending" THEN "none"
                                                         ELSE delivery[k]]
        /\ retry' = [retry EXCEPT ![w] = {}]
        /\ UNCHANGED <<redis, sub, hour, arrived, unread, acked, dropped, entries,
                       entry, targets, claimed, call, budget>>
    BY <1>6 DEF Supersede, Goto, stream
  <2>2. /\ delivery' \in [Keys -> RowStatuses]
        /\ \A k \in Keys : delivery'[k] = "pending" => delivery[k] = "pending"
    BY <2>1, Kept DEF RowStatuses
  <2>3. "retrying" \in Phases \ {"allowed", "posting"}
    BY DEF Phases
  <2> QED  BY <2>1, <2>2, <2>3, Kept, AwayTypes
<1> QED
  BY <1>1, <1>2, <1>3, <1>4, <1>5, <1>6 DEF Deliver, StartPost, Goto

\* The rest of the second half, and the faults.
LEMMA RetryingTypes ==
  ASSUME TypeInv, NEW w \in Ticks, ClaimDue(w) \/ FinishTick(w) \/ Fault(w)
  PROVE  TypeInv'
<1>1. CASE ClaimDue(w)
  <2>1. /\ phase' = [phase EXCEPT ![w] = "retrying"]
        /\ claimed' = [claimed EXCEPT ![w] = Due]
        /\ UNCHANGED <<redis, sub, delivery, hour, arrived, unread, acked, dropped,
                       entries, entry, targets, retry, call, budget>>
    BY <1>1 DEF ClaimDue, Goto, tables, stream
  <2>2. Due \subseteq Keys /\ \A k \in Due : delivery[k] = "pending"
    BY DEF Due
  <2>3. phase' \in [Ticks -> Phases] /\ claimed' \in [Ticks -> SUBSET Keys]
    BY <2>1, <2>2 DEF TypeInv, TypeOK, Phases
  <2>4. AttemptsLeft' /\ Called' /\ InHand'
    BY <2>1, <2>2 DEF TypeInv, TypeOK, AttemptsLeft, Called, InHand, Delivering
  <2> QED  BY <2>1, <2>3, <2>4 DEF TypeInv, TypeOK
<1>2. CASE FinishTick(w)
  <2>1. /\ phase' = [phase EXCEPT ![w] = "idle"]
        /\ UNCHANGED <<redis, sub, delivery, hour, arrived, unread, acked, dropped,
                       entries, entry, targets, claimed, retry, call, budget>>
    BY <1>2 DEF FinishTick, Goto, tables, stream, work
  <2>2. "idle" \in Phases \ {"allowed", "posting"}
    BY DEF Phases
  <2> QED  BY <2>1, <2>2, Kept, AwayTypes
<1>3. CASE Fault(w)
  <2>1. UNCHANGED <<redis, sub, delivery, hour, arrived, unread, acked, dropped>>
    BY <1>3 DEF Fault, FailMessage, FailOutbox, FailRetries, FailSupersede,
       tables, stream
  <2>2. /\ budget' \in 0 .. MaxBudget
        /\ call' \in {call, [call EXCEPT ![w] = NoCall]}
        /\ entries' \in {entries, [entries EXCEPT ![w] = {}]}
        /\ entry' \in {entry, [entry EXCEPT ![w] = {}]}
        /\ targets' \in {targets, [targets EXCEPT ![w] = {}]}
        /\ claimed' \in {claimed, [claimed EXCEPT ![w] = {}]}
        /\ retry' \in {retry, [retry EXCEPT ![w] = {}]}
    BY <1>3, Kept DEF Fault, FailMessage, FailOutbox, FailRetries, FailSupersede
  <2>3. \E p \in Phases \ {"allowed", "posting"} : phase' = [phase EXCEPT ![w] = p]
    BY <1>3 DEF Fault, FailMessage, FailOutbox, FailRetries, FailSupersede, Goto,
       Phases
  <2> QED  BY <2>1, <2>2, <2>3, Kept, AwayTypes
<1> QED  BY <1>1, <1>2, <1>3

LEMMA RestartTypes ==
  ASSUME TypeInv, Restart
  PROVE  TypeInv'
<1>1. /\ phase' = [w \in Ticks |-> "idle"]
      /\ entries' = [w \in Ticks |-> {}] /\ entry' = [w \in Ticks |-> {}]
      /\ targets' = [w \in Ticks |-> {}] /\ claimed' = [w \in Ticks |-> {}]
      /\ retry' = [w \in Ticks |-> {}] /\ call' = [w \in Ticks |-> NoCall]
      /\ budget' \in 0 .. MaxBudget
      /\ UNCHANGED <<redis, sub, delivery, hour, arrived, unread, acked, dropped>>
  BY Kept DEF Restart, tables, stream
<1>2. AttemptsLeft' /\ Called' /\ InHand'
  BY <1>1 DEF TypeInv, AttemptsLeft, Called, InHand, Delivering
<1> QED  BY <1>1, <1>2 DEF TypeInv, TypeOK, Phases

LEMMA NextTypes == TypeInv /\ [Next]_vars => TypeInv'
<1> SUFFICES ASSUME TypeInv, [Next]_vars PROVE TypeInv'
  OBVIOUS
<1>1. ASSUME NEW w \in Ticks, Tick(w) PROVE TypeInv'
  BY <1>1, EventTypes, DeliverEventTypes, RetryTypes, DeliverTypes,
     RetryingTypes DEF Tick
<1>2. CASE UNCHANGED vars
  <2>1. UNCHANGED <<redis, sub, delivery, hour, arrived, unread, acked, dropped,
                    phase, entries, entry, targets, claimed, retry, call, budget>>
    BY <1>2 DEF vars, tables, stream, work
  <2> QED
    BY <2>1 DEF TypeInv, TypeOK, AttemptsLeft, Called, InHand, Delivering
<1> QED  BY <1>1, <1>2, OutsideTypes, RetryingTypes, RestartTypes DEF Next

-----------------------------------------------------------------------------
(* What a step does to the ticks that are in deliver, and to the counts.   *)
SameSuccesses ==
  \A k \in Keys : delivery'[k] = "success" <=> delivery[k] = "success"

\* None of the ticks moves; rows grow old, or a test adds one and is counted.
Quiet ==
  /\ UNCHANGED <<phase, call>> /\ SameSuccesses
  /\ hour' + budget' <= hour + budget

\* The tick w goes on outside deliver, or leaves it.
Away(w) ==
  /\ \E p \in Phases \ {"allowed", "posting"} : phase' = [phase EXCEPT ![w] = p]
  /\ call' \in {call, [call EXCEPT ![w] = NoCall]}
  /\ budget' <= budget

Depart(w) == Away(w) /\ SameSuccesses /\ hour' = hour

Allow(w) ==
  /\ hour < Quota /\ hour' = hour /\ budget' = budget /\ SameSuccesses
  /\ phase' = [phase EXCEPT ![w] = "allowed"]
  /\ \E c \in Calls : call' = [call EXCEPT ![w] = c]

Post(w) ==
  /\ phase[w] = "allowed" /\ phase' = [phase EXCEPT ![w] = "posting"]
  /\ Successes(call[w].sub, call[w].event) = {}
  /\ UNCHANGED <<call, hour, budget>> /\ SameSuccesses

\* The tick w records its attempt, which was a success or was none.
Record(w) ==
  /\ phase[w] = "posting" /\ Away(w) /\ hour' = hour + 1
  /\ \/ SameSuccesses
     \/ \E k \in Keys : /\ delivery[k] = "none"
                       /\ k.sub = call[w].sub /\ k.event = call[w].event
                       /\ delivery' = [delivery EXCEPT ![k] = "success"]

Halt ==
  /\ phase' = [w \in Ticks |-> "idle"] /\ SameSuccesses
  /\ hour' = hour /\ budget' <= budget

LEMMA QuietSteps ==
  ASSUME TypeInv,
         \/ \E s \in Subs :
              \/ CreateSubscription(s) \/ TestDelivery(s)
              \/ \E status \in {"active", "suspended", "disabled"} :
                   PatchStatus(s, status)
         \/ \E x \in Entries : Published(x) \/ WindowPasses(x)
         \/ RowAges
         \/ UNCHANGED vars
  PROVE  Quiet
<1>1. UNCHANGED <<delivery, phase, call>>
  BY DEF CreateSubscription, TestDelivery, PatchStatus, Published, WindowPasses,
         RowAges, tables, vars
<1>2. hour' + budget' <= hour + budget
  BY BoundsAssumption
  DEF TypeInv, TypeOK, CreateSubscription, TestDelivery, PatchStatus, Published,
      WindowPasses, RowAges, tables, vars, Disturbance
<1> QED  BY <1>1, <1>2 DEF Quiet, SameSuccesses

LEMMA AwayFacts ==
  ASSUME TypeInv, NEW w \in Ticks,
         NEW p \in {"idle", "events", "targets", "retrying", "retried"},
         phase' = [phase EXCEPT ![w] = p],
         call' \in {call, [call EXCEPT ![w] = NoCall]}, budget' = budget
  PROVE  Away(w)
<1>1. p \in Phases \ {"allowed", "posting"}
  BY DEF Phases
<1>2. budget' <= budget
  BY Kept
<1> QED  BY <1>1, <1>2 DEF Away

LEMMA CheckSteps ==
  ASSUME TypeInv, NEW w \in Ticks, NEW s \in Subs, NEW e \in Events,
         NEW a \in 1 .. MaxAttempts, NEW back \in {"targets", "retried"},
         CheckQuota(w, s, e, a, back), UNCHANGED <<delivery, hour, budget>>
  PROVE  Allow(w) \/ Depart(w)
<1>1. CASE WithinQuota /\ phase' = [phase EXCEPT ![w] = "allowed"]
           /\ call' = [call EXCEPT ![w] = [sub |-> s, event |-> e, attempt |-> a]]
  BY <1>1 DEF Allow, WithinQuota, SameSuccesses, Calls
<1>2. CASE phase' = [phase EXCEPT ![w] = back] /\ call' = call
  BY <1>2, AwayFacts DEF Depart, SameSuccesses
<1> QED  BY <1>1, <1>2 DEF CheckQuota, Goto

LEMMA TickSteps ==
  ASSUME TypeInv, NEW w \in Ticks, Tick(w)
  PROVE  Depart(w) \/ Allow(w) \/ Post(w) \/ Record(w)
<1>1. budget \in Int
  BY Kept
<1>2. CASE \/ ReadStream(w) \/ ReadOutbox(w) \/ FinishEntry(w)
           \/ \E x \in Entries : LoadSubs(w, x)
           \/ ClaimDue(w) \/ FinishTick(w)
  <2>1. UNCHANGED <<delivery, hour, call, budget>>
    BY <1>2 DEF ReadStream, ReadOutbox, FinishEntry, LoadSubs, ClaimDue,
       FinishTick, tables, work
  <2>2. \E p \in {"idle", "events", "targets", "retrying"} :
          phase' = [phase EXCEPT ![w] = p]
    BY <1>2 DEF ReadStream, ReadOutbox, FinishEntry, LoadSubs, ClaimDue,
       FinishTick, Goto
  <2> QED  BY <2>1, <2>2, AwayFacts DEF Depart, SameSuccesses
<1>3. ASSUME NEW s \in Subs, DeliverEvent(w, s) PROVE Allow(w) \/ Depart(w)
  <2>1. PICK x \in entry[w] : CheckQuota(w, s, x[1], 1, "targets")
    BY <1>3 DEF DeliverEvent
  <2>2. x[1] \in Events /\ 1 \in 1 .. MaxAttempts
    BY BoundsAssumption DEF TypeInv, TypeOK, Entries
  <2>3. UNCHANGED <<delivery, hour, budget>>
    BY <1>3 DEF DeliverEvent, tables
  <2> QED  BY <2>1, <2>2, <2>3, CheckSteps
<1>4. ASSUME NEW k \in Keys, RetryDelivery(w, k) PROVE Allow(w) \/ Depart(w)
  <2>1. /\ CheckQuota(w, k.sub, k.event, k.attempt + 1, "retried")
        /\ k \in claimed[w] /\ UNCHANGED <<delivery, hour, budget>>
    BY <1>4 DEF RetryDelivery, tables
  <2>2. /\ k.sub \in Subs /\ k.event \in Events
        /\ k.attempt + 1 \in 1 .. MaxAttempts
    BY <2>1, BoundsAssumption DEF TypeInv, AttemptsLeft, Keys
  <2> QED  BY <2>1, <2>2, CheckSteps
<1>5. CASE StartPost(w)
  <2>1. UNCHANGED <<delivery, hour, budget>> /\ phase[w] = "allowed"
    BY <1>5 DEF StartPost, tables
  <2>2. CASE Successes(call[w].sub, call[w].event) = {}
    BY <1>5, <2>1, <2>2 DEF StartPost, Post, Successes, Goto, SameSuccesses
  <2>3. CASE Successes(call[w].sub, call[w].event) # {}
    BY <1>1, <1>5, <2>1, <2>3, ReturnFacts
    DEF StartPost, Depart, Away, Successes, SameSuccesses
  <2> QED  BY <2>2, <2>3
<1>6. CASE Succeed(w)
  <2>1. /\ phase[w] = "posting" /\ Return(w) /\ Insert(w, "success")
        /\ budget' = budget
    BY <1>6 DEF Succeed
  <2>2. hour' = hour + 1 /\ Away(w)
    BY <1>1, <2>1, InsertFacts, ReturnFacts DEF Away
  <2> QED  BY <2>1, <2>2, InsertFacts DEF Record
<1>7. CASE Postpone(w)
  <2>1. /\ phase[w] = "posting" /\ Return(w) /\ Insert(w, "pending")
        /\ budget' = budget
    BY <1>7 DEF Postpone
  <2>2. hour' = hour + 1 /\ Away(w)
    BY <1>1, <2>1, InsertFacts, ReturnFacts DEF Away
  <2>3. SameSuccesses
    BY <2>1, InsertFacts, Kept DEF SameSuccesses
  <2> QED  BY <2>1, <2>2, <2>3 DEF Record
<1>8. CASE Exhaust(w)
  <2>1. /\ phase[w] = "posting" /\ Return(w) /\ hour' = hour + 1
        /\ UNCHANGED <<delivery, budget>>
    BY <1>8 DEF Exhaust
  <2> QED  BY <1>1, <2>1, ReturnFacts DEF Record, Away, SameSuccesses
<1>9. CASE Supersede(w)
  <2>1. SameSuccesses
    BY <1>9, Kept DEF Supersede, SameSuccesses
  <2> QED  BY <1>9, <2>1, AwayFacts DEF Supersede, Depart, Goto
<1> QED
  BY <1>2, <1>3, <1>4, <1>5, <1>6, <1>7, <1>8, <1>9 DEF Tick, Deliver

LEMMA FaultSteps ==
  ASSUME TypeInv
  PROVE  /\ \A w \in Ticks : Fault(w) => Depart(w)
         /\ Restart => Halt
<1>1. Disturbance => budget' <= budget
  BY Kept DEF Disturbance
<1>2. ASSUME NEW w \in Ticks, Fault(w) PROVE Depart(w)
  <2>1. UNCHANGED <<delivery, hour>>
    BY <1>2 DEF Fault, FailMessage, FailOutbox, FailRetries, FailSupersede,
       tables
  <2>2. Disturbance /\ call' \in {call, [call EXCEPT ![w] = NoCall]}
    BY <1>2 DEF Fault, FailMessage, FailOutbox, FailRetries, FailSupersede
  <2>3. \E p \in Phases \ {"allowed", "posting"} : phase' = [phase EXCEPT ![w] = p]
    BY <1>2 DEF Fault, FailMessage, FailOutbox, FailRetries, FailSupersede, Goto,
       Phases
  <2> QED  BY <1>1, <2>1, <2>2, <2>3 DEF Depart, Away, SameSuccesses
<1>3. Restart => Halt
  BY <1>1 DEF Restart, Halt, SameSuccesses, tables
<1> QED  BY <1>2, <1>3

\* Every step is of one of these kinds.
LEMMA Kinds ==
  ASSUME TypeInv, [Next]_vars
  PROVE  \/ Quiet \/ Halt
         \/ \E w \in Ticks : Depart(w) \/ Allow(w) \/ Post(w) \/ Record(w)
  BY QuietSteps, TickSteps, FaultSteps DEF Next

-----------------------------------------------------------------------------
(* The quota.                                                              *)
LEMMA InDeliverFacts ==
  /\ IsFiniteSet(InDeliver) /\ Cardinality(InDeliver) \in Nat
  /\ Cardinality(Ticks) \in Nat
  /\ Cardinality(InDeliver) <= Cardinality(Ticks)
<1>1. InDeliver \subseteq Ticks
  BY DEF InDeliver
<1> QED  BY <1>1, TicksAssumption, FS_Subset, FS_CardinalityType

\* A tick that is away is not in deliver, and the others are where they were.
LEMMA AwayInDeliver ==
  ASSUME TypeInv, NEW w \in Ticks, Away(w)
  PROVE  InDeliver' = InDeliver \ {w}
  BY DEF Away, InDeliver, Delivering, TypeInv, TypeOK

\* What the hour gains the budget has lost.
LEMMA Exchange ==
  ASSUME NEW h \in Int, NEW h1 \in Int, NEW b \in Int, NEW b1 \in Int,
         NEW n \in Int, NEW most \in Int, NEW max \in Int,
         h1 + b1 <= h + b, h + n < most + (max - b)
  PROVE  h1 + n < most + (max - b1)
  OBVIOUS

LEMMA QuotaStep ==
  ASSUME TypeInv, TypeInv', QuotaInv, [Next]_vars
  PROVE  QuotaInv'
<1>1. /\ hour \in Nat /\ hour' \in Nat /\ budget \in 0 .. MaxBudget
      /\ budget' \in 0 .. MaxBudget
  BY DEF TypeInv, TypeOK
<1>2. Cardinality(Ticks) \in Nat /\ Quota \in Nat /\ MaxBudget \in Nat
  BY InDeliverFacts, BoundsAssumption
<1>3. IsFiniteSet(InDeliver) /\ Cardinality(InDeliver) \in Nat
  BY InDeliverFacts
<1>4. CASE Quiet
  <2>1. InDeliver' = InDeliver
    BY <1>4 DEF Quiet, InDeliver, Delivering
  <2>2. hour' + budget' <= hour + budget
    BY <1>4 DEF Quiet
  <2>3. Cardinality(InDeliver') = Cardinality(InDeliver)
    BY <2>1
  <2>4. /\ hour \in Int /\ hour' \in Int /\ budget \in Int /\ budget' \in Int
        /\ Cardinality(InDeliver) \in Int /\ MaxBudget \in Int
        /\ Quota + Cardinality(Ticks) \in Int
    BY <1>1, <1>2, <1>3
  <2>5. hour + Cardinality(InDeliver)
          < Quota + Cardinality(Ticks) + (MaxBudget - budget)
    BY DEF QuotaInv
  <2>6. hour' + Cardinality(InDeliver)
          < Quota + Cardinality(Ticks) + (MaxBudget - budget')
    BY <2>2, <2>4, <2>5, Exchange
  <2> QED  BY <2>3, <2>6 DEF QuotaInv
<1>5. CASE Halt
  <2>1. InDeliver' = {}
    BY <1>5 DEF Halt, InDeliver, Delivering
  <2>2. Cardinality(InDeliver') = 0
    BY <2>1, FS_EmptySet
  <2>3. hour' = hour /\ budget' <= budget
    BY <1>5 DEF Halt
  <2> QED  BY <1>1, <1>2, <1>3, <2>2, <2>3 DEF QuotaInv
<1>6. ASSUME NEW w \in Ticks, Depart(w) PROVE QuotaInv'
  <2>1. /\ InDeliver' = InDeliver \ {w} /\ hour' = hour /\ budget' <= budget
    BY <1>6, AwayInDeliver DEF Depart, Away
  <2>2. /\ Cardinality(InDeliver') \in Nat
        /\ Cardinality(InDeliver') <= Cardinality(InDeliver)
    BY <1>3, <2>1, FS_Subset, FS_CardinalityType
  <2> QED  BY <1>1, <1>2, <1>3, <2>1, <2>2 DEF QuotaInv
<1>7. ASSUME NEW w \in Ticks, Allow(w) PROVE QuotaInv'
  <2>1. InDeliver' \subseteq Ticks
    BY DEF InDeliver
  <2>2. /\ Cardinality(InDeliver') \in Nat
        /\ Cardinality(InDeliver') <= Cardinality(Ticks)
    BY <2>1, TicksAssumption, FS_Subset, FS_CardinalityType
  <2>3. hour < Quota /\ hour' = hour /\ budget' = budget
    BY <1>7 DEF Allow
  <2> QED  BY <1>1, <1>2, <2>2, <2>3 DEF QuotaInv
<1>8. ASSUME NEW w \in Ticks, Post(w) PROVE QuotaInv'
  <2>1. InDeliver' = InDeliver
    BY <1>8 DEF Post, InDeliver, Delivering, TypeInv, TypeOK
  <2>2. hour' = hour /\ budget' = budget
    BY <1>8 DEF Post
  <2> QED  BY <2>1, <2>2 DEF QuotaInv
<1>9. ASSUME NEW w \in Ticks, Record(w) PROVE QuotaInv'
  <2>1. /\ InDeliver' = InDeliver \ {w} /\ w \in InDeliver
        /\ hour' = hour + 1 /\ budget' <= budget
    BY <1>9, AwayInDeliver DEF Record, Away, InDeliver, Delivering
  <2>2. Cardinality(InDeliver') = Cardinality(InDeliver) - 1
    BY <1>3, <2>1, FS_RemoveElement
  <2> QED  BY <1>1, <1>2, <1>3, <2>1, <2>2 DEF QuotaInv
<1> QED  BY <1>4, <1>5, <1>6, <1>7, <1>8, <1>9, Kinds

-----------------------------------------------------------------------------
(* Successes.                                                              *)
LEMMA PostsFacts ==
  ASSUME NEW s \in Subs, NEW e \in Events
  PROVE  /\ IsFiniteSet(Posts(s, e)) /\ Cardinality(Posts(s, e)) \in Nat
         /\ Cardinality(Ticks) \in Nat
         /\ Cardinality(Posts(s, e)) <= Cardinality(Ticks)
<1>1. Posts(s, e) \subseteq Ticks
  BY DEF Posts
<1> QED  BY <1>1, TicksAssumption, FS_Subset, FS_CardinalityType

\* As long as no success is added and no tick joins those that post, or there
\* is no success yet, nothing changes.
LEMMA SuccessKept ==
  ASSUME NEW s \in Subs, NEW e \in Events, SuccessInv(s, e), SameSuccesses,
         Posts(s, e)' \subseteq Posts(s, e) \/ Successes(s, e) = {}
  PROVE  SuccessInv(s, e)'
<1>1. Successes(s, e)' = Successes(s, e)
  BY DEF Successes, HasStatus, SameSuccesses
<1>2. CASE Successes(s, e) = {}
  BY <1>1, <1>2, FS_EmptySet DEF SuccessInv
<1>3. CASE Posts(s, e)' \subseteq Posts(s, e)
  <2>1. /\ Cardinality(Posts(s, e)') <= Cardinality(Posts(s, e))
        /\ Cardinality(Posts(s, e)') \in Nat
    BY <1>3, PostsFacts, FS_Subset, FS_CardinalityType
  <2>2. Cardinality(Successes(s, e)) \in Nat
    BY FS_CardinalityType DEF SuccessInv
  <2> QED  BY <1>1, <2>1, <2>2, PostsFacts DEF SuccessInv
<1> QED  BY <1>2, <1>3

LEMMA AwayPosts ==
  ASSUME TypeInv, NEW w \in Ticks, Away(w), NEW s \in Subs, NEW e \in Events
  PROVE  Posts(s, e)' = Posts(s, e) \ {w}
<1>1. phase'[w] # "posting"
  BY DEF Away, TypeInv, TypeOK
<1>2. \A v \in Ticks \ {w} : phase'[v] = phase[v] /\ call'[v] = call[v]
  BY DEF Away, TypeInv, TypeOK
<1> QED  BY <1>1, <1>2 DEF Posts

\* The first success leaves as many ticks posting as there are others at most,
\* and every further one takes the place of a tick that was posting.
LEMMA RecordSuccess ==
  ASSUME TypeInv, NEW s \in Subs, NEW e \in Events, SuccessInv(s, e),
         NEW w \in Ticks, Record(w)
  PROVE  SuccessInv(s, e)'
<1>1. phase[w] = "posting" /\ Away(w) /\ Posts(s, e)' = Posts(s, e) \ {w}
  BY AwayPosts DEF Record
<1>2. CASE SameSuccesses
  BY <1>1, <1>2, SuccessKept
<1>3. ASSUME NEW k \in Keys, delivery[k] = "none",
             k.sub = call[w].sub, k.event = call[w].event,
             delivery' = [delivery EXCEPT ![k] = "success"]
      PROVE  SuccessInv(s, e)'
  <2>1. delivery \in [Keys -> RowStatuses]
    BY Kept
  <2>2. CASE k.sub = s /\ k.event = e
    <3>1. Successes(s, e)' = Successes(s, e) \cup {k} /\ k \notin Successes(s, e)
      BY <1>3, <2>1, <2>2 DEF Successes, HasStatus
    <3>2. w \in Posts(s, e)
      BY <1>1, <1>3, <2>2 DEF Posts
    <3>3. /\ Cardinality(Successes(s, e)') = Cardinality(Successes(s, e)) + 1
          /\ IsFiniteSet(Successes(s, e)')
          /\ Cardinality(Successes(s, e)) \in Nat
      BY <3>1, FS_AddElement, FS_CardinalityType DEF SuccessInv
    <3>4. Cardinality(Posts(s, e)') = Cardinality(Posts(s, e)) - 1
      BY <1>1, <3>2, PostsFacts, FS_RemoveElement
    <3> QED  BY <3>3, <3>4, PostsFacts DEF SuccessInv
  <2>3. CASE ~ (k.sub = s /\ k.event = e)
    <3>1. Successes(s, e)' = Successes(s, e)
      BY <1>3, <2>1, <2>3 DEF Successes, HasStatus
    <3>2. w \notin Posts(s, e)
      BY <1>3, <2>3 DEF Posts
    <3>3. Posts(s, e)' = Posts(s, e)
      BY <1>1, <3>2
    <3> QED  BY <3>1, <3>3 DEF SuccessInv
  <2> QED  BY <2>2, <2>3
<1> QED  BY <1>2, <1>3 DEF Record

LEMMA SuccessStep ==
  ASSUME TypeInv, NEW s \in Subs, NEW e \in Events, SuccessInv(s, e), [Next]_vars
  PROVE  SuccessInv(s, e)'
<1>1. CASE Quiet
  BY <1>1, SuccessKept DEF Quiet, Posts
<1>2. CASE Halt
  <2>1. Posts(s, e)' = {}
    BY <1>2 DEF Halt, Posts
  <2> QED  BY <1>2, <2>1, SuccessKept DEF Halt
<1>3. ASSUME NEW w \in Ticks, Depart(w) PROVE SuccessInv(s, e)'
  BY <1>3, AwayPosts, SuccessKept DEF Depart
<1>4. ASSUME NEW w \in Ticks, Allow(w) PROVE SuccessInv(s, e)'
  <2>1. Posts(s, e)' \subseteq Posts(s, e)
    BY <1>4 DEF Allow, Posts, TypeInv, TypeOK
  <2> QED  BY <1>4, <2>1, SuccessKept DEF Allow
<1>5. ASSUME NEW w \in Ticks, Post(w) PROVE SuccessInv(s, e)'
  <2>1. CASE call[w].sub = s /\ call[w].event = e
    BY <1>5, <2>1, SuccessKept DEF Post
  <2>2. CASE ~ (call[w].sub = s /\ call[w].event = e)
    <3>1. Posts(s, e)' \subseteq Posts(s, e)
      BY <1>5, <2>2 DEF Post, Posts, TypeInv, TypeOK
    <3> QED  BY <1>5, <3>1, SuccessKept DEF Post
  <2> QED  BY <2>1, <2>2
<1>6. ASSUME NEW w \in Ticks, Record(w) PROVE SuccessInv(s, e)'
  BY <1>6, RecordSuccess
<1> QED  BY <1>1, <1>2, <1>3, <1>4, <1>5, <1>6, Kinds

-----------------------------------------------------------------------------
LEMMA InitCounts == Init => QuotaInv /\ \A s \in Subs, e \in Events : SuccessInv(s, e)
<1> SUFFICES ASSUME Init
             PROVE  QuotaInv /\ \A s \in Subs, e \in Events : SuccessInv(s, e)
  OBVIOUS
<1>1. InDeliver = {} /\ hour = 0 /\ budget = MaxBudget
  BY DEF Init, InDeliver, Delivering
<1>2. QuotaInv
  BY <1>1, FS_EmptySet, InDeliverFacts, BoundsAssumption DEF QuotaInv
<1>3. ASSUME NEW s \in Subs, NEW e \in Events PROVE SuccessInv(s, e)
  <2>1. Successes(s, e) = {}
    BY DEF Init, Successes, HasStatus
  <2> QED  BY <2>1, FS_EmptySet DEF SuccessInv
<1> QED  BY <1>2, <1>3

\* The invariant is inductive: every step of every tick keeps it.
THEOREM Invariance == Spec => []IInv
<1>1. Init => IInv
  BY InitTypes, InitCounts DEF IInv
<1>2. IInv /\ [Next]_vars => IInv'
  <2> SUFFICES ASSUME IInv, [Next]_vars PROVE IInv'
    OBVIOUS
  <2>1. TypeInv /\ TypeInv'
    BY NextTypes DEF IInv
  <2>2. QuotaInv'
    BY <2>1, QuotaStep DEF IInv
  <2>3. ASSUME NEW s \in Subs, NEW e \in Events PROVE SuccessInv(s, e)'
    BY <2>1, SuccessStep DEF IInv
  <2> QED  BY <2>1, <2>2, <2>3 DEF IInv
<1> QED  BY <1>1, <1>2, PTL DEF Spec

\* Every variable of the dispatcher keeps its type.
THEOREM TypeCorrectness == Spec => []TypeOK
<1>1. IInv => TypeOK
  BY DEF IInv, TypeInv
<1> QED  BY Invariance, <1>1, PTL

\* However many ticks overlap, the quota is exceeded by less than one delivery
\* for each of them and one for each test or fault.
THEOREM QuotaOverrun == Spec => []QuotaOverrunBounded
<1>1. IInv => QuotaOverrunBounded
  <2> SUFFICES ASSUME IInv PROVE QuotaOverrunBounded
    OBVIOUS
  <2>1. hour \in Nat /\ budget \in 0 .. MaxBudget
    BY DEF IInv, TypeInv, TypeOK
  <2> QED
    BY <2>1, InDeliverFacts, BoundsAssumption
    DEF IInv, QuotaInv, QuotaOverrunBounded
<1> QED  BY Invariance, <1>1, PTL

\* A subscriber is told of an event by no more ticks than can overlap.
THEOREM SuccessesBoundedAlways == Spec => []SuccessesBounded
<1>1. IInv => SuccessesBounded
  <2> SUFFICES ASSUME IInv, NEW s \in Subs, NEW e \in Events
               PROVE  Cardinality(Successes(s, e)) <= Cardinality(Ticks)
    BY DEF SuccessesBounded, Successes
  <2>1. SuccessInv(s, e)
    BY DEF IInv
  <2>2. Cardinality(Successes(s, e)) \in Nat
    BY <2>1, FS_CardinalityType DEF SuccessInv
  <2> QED  BY <2>1, <2>2, PostsFacts DEF SuccessInv
<1> QED  BY Invariance, <1>1, PTL
=============================================================================
