------------------------------ MODULE Webhooks ------------------------------
(***************************************************************************)
(* The webhook dispatcher (backend/services/webhook-dispatcher) and the    *)
(* subscription routes of tenant-service, for one tenant whose             *)
(* subscriptions all match its events.                                     *)
(*                                                                         *)
(* A timer starts a tick every second without waiting for the last one, so *)
(* that ticks overlap.  A tick reads the stream that the outbox relay      *)
(* fills at least once (AtLeastOnce), or the outbox where Redis was not to *)
(* be had at the start; it delivers each event to each subscription, and   *)
(* then retries the deliveries that are due.                               *)
(***************************************************************************)
EXTENDS Integers, FiniteSets

CONSTANTS Subs,         \* webhook_subscriptions of the tenant
          Events,       \* events that the relay publishes
          Ticks,        \* ticks that may be under way at the same time
          Copies,       \* bound: how often the relay may publish an event
          MaxAttempts,  \* RETRY_DELAYS_MS.length
          Quota,        \* HOURLY_DELIVERY_QUOTA
          MaxRows,      \* bound: deliveries of one attempt told apart
          MaxBudget,    \* bound: faults, crashes, tests and patches
          NoCall        \* "this tick is not in deliver"

ASSUME TicksAssumption == IsFiniteSet(Ticks)
ASSUME BoundsAssumption ==
  /\ MaxAttempts \in Nat \ {0} /\ Quota \in Nat \ {0}
  /\ Copies \in Nat /\ MaxRows \in Nat /\ MaxBudget \in Nat

Entries == Events \X (1 .. Copies)
Keys == [sub : Subs, event : Events, attempt : 1 .. MaxAttempts,
         n : 1 .. MaxRows]
Calls == [sub : Subs, event : Events, attempt : 1 .. MaxAttempts]
ASSUME NoCallAssumption == NoCall \notin Calls

VARIABLES
  redis,     \* was Redis there when the dispatcher started?
  sub,       \* sub[s]: the status of s in webhook_subscriptions
  delivery,  \* delivery[k]: the status of the row k of webhook_deliveries;
             \* "none" too once it is failed or exhausted and plays no part
  hour,      \* how many rows of the last hour there are
  arrived,   \* entries that are on the stream
  unread,    \* those that the group has not been given yet; without Redis,
             \* those that were published in the last 15 minutes
  acked,     \* those that it has acknowledged
  dropped,   \* <<s, e>>: deliver has returned because of the quota
  phase,     \* phase[w]: where the tick w is
  entries,   \* entries[w]: entries that w has still to dispatch
  entry,     \* entry[w]: the entries it is dispatching, none or one
  targets,   \* targets[w]: subscriptions it has still to deliver that one to
  claimed,   \* claimed[w]: due deliveries that w has still to retry
  retry,     \* retry[w]: the one of them it is retrying, none or one
  call,      \* call[w]: the subscription, event and attempt of its deliver
  budget     \* how many disturbances are left

tables == <<sub, delivery, hour>>
stream == <<arrived, unread, acked>>
work == <<entries, entry, targets, claimed, retry>>
vars == <<redis, tables, stream, dropped, phase, work, call, budget>>

Init ==
  /\ redis \in BOOLEAN
  /\ sub = [s \in Subs |-> "none"]
  /\ delivery = [k \in Keys |-> "none"]
  /\ hour = 0
  /\ arrived = {} /\ unread = {} /\ acked = {} /\ dropped = {}
  /\ phase = [w \in Ticks |-> "idle"]
  /\ entries = [w \in Ticks |-> {}]
  /\ entry = [w \in Ticks |-> {}]
  /\ targets = [w \in Ticks |-> {}]
  /\ claimed = [w \in Ticks |-> {}]
  /\ retry = [w \in Ticks |-> {}]
  /\ call = [w \in Ticks |-> NoCall]
  /\ budget = MaxBudget

Disturbance == budget > 0 /\ budget' = budget - 1

-----------------------------------------------------------------------------
(* The administrator, the relay and the clock.                             *)

\* POST /v1/tenant/webhooks
CreateSubscription(s) ==
  /\ sub[s] = "none"
  /\ sub' = [sub EXCEPT ![s] = "active"]
  /\ UNCHANGED <<redis, delivery, hour, stream, dropped, phase, work, call,
                 budget>>

\* PATCH /v1/tenant/webhooks/:id
PatchStatus(s, status) ==
  /\ sub[s] # "none"
  /\ sub' = [sub EXCEPT ![s] = status]
  /\ Disturbance
  /\ UNCHANGED <<redis, delivery, hour, stream, dropped, phase, work, call>>

\* POST /v1/tenant/webhooks/:id/test: a row of an event of its own, which
\* counts for the quota and is not held to it.
TestDelivery(s) ==
  /\ sub[s] = "active"
  /\ hour' = hour + 1
  /\ Disturbance
  /\ UNCHANGED <<redis, sub, delivery, stream, dropped, phase, work, call>>

\* Another copy of an event, a Send of AtLeastOnce; the outbox has one row.
Published(x) ==
  /\ x \notin arrived /\ (redis \/ x[2] = 1)
  /\ arrived' = arrived \cup {x} /\ unread' = unread \cup {x}
  /\ UNCHANGED <<redis, tables, acked, dropped, phase, work, call, budget>>

\* A row is an hour old.
RowAges ==
  /\ hour > 0 /\ hour' = hour - 1
  /\ UNCHANGED <<redis, sub, delivery, stream, dropped, phase, work, call,
                 budget>>

\* An outbox row was published 15 minutes ago.
WindowPasses(x) ==
  /\ ~redis /\ x \in unread
  /\ unread' = unread \ {x}
  /\ UNCHANGED <<redis, tables, arrived, acked, dropped, phase, work, call,
                 budget>>

-----------------------------------------------------------------------------
(* The first half of a tick: events.                                       *)
Goto(w, p) == phase' = [phase EXCEPT ![w] = p]

\* Keys that a new row of this attempt may have: no tick holds them.
NewKeys(s, e, a) ==
  {k \in Keys : /\ k.sub = s /\ k.event = e /\ k.attempt = a
                /\ delivery[k] = "none"
                /\ \A w \in Ticks : k \notin claimed[w] \cup retry[w]}

\* pollRedis, xReadGroup with the id '>': what no reader was given before.
ReadStream(w) ==
  /\ redis /\ phase[w] = "idle" /\ Goto(w, "events")
  /\ entries' = [entries EXCEPT ![w] = unread]
  /\ unread' = {}
  /\ UNCHANGED <<redis, tables, arrived, acked, dropped, entry, targets,
                 claimed, retry, call, budget>>

\* Bound: each tick may add a row.
Room == \A s \in Subs, e \in Events :
          Cardinality(NewKeys(s, e, 1)) >= Cardinality(Ticks)

\* pollOutbox: everything of the last 15 minutes, in every tick.
ReadOutbox(w) ==
  /\ ~redis /\ phase[w] = "idle" /\ Goto(w, "events")
  /\ entries' = [entries EXCEPT ![w] = IF Room THEN unread ELSE {}]
  /\ UNCHANGED <<redis, tables, stream, dropped, entry, targets, claimed,
                 retry, call, budget>>

\* dispatchEvent: loadSubs.
LoadSubs(w, x) ==
  /\ phase[w] = "events" /\ x \in entries[w] /\ Goto(w, "targets")
  /\ entries' = [entries EXCEPT ![w] = @ \ {x}]
  /\ entry' = [entry EXCEPT ![w] = {x}]
  /\ targets' = [targets EXCEPT ![w] = {s \in Subs : sub[s] = "active"}]
  /\ UNCHANGED <<redis, tables, stream, dropped, claimed, retry, call, budget>>

\* xAck, when every subscription has had its turn; the outbox is left as it is.
FinishEntry(w) ==
  /\ phase[w] = "targets" /\ targets[w] = {} /\ Goto(w, "events")
  /\ acked' = IF redis THEN acked \cup entry[w] ELSE acked
  /\ entry' = [entry EXCEPT ![w] = {}]
  /\ UNCHANGED <<redis, tables, arrived, unread, dropped, entries, targets,
                 claimed, retry, call, budget>>

-----------------------------------------------------------------------------
(* deliver.                                                                *)
\* deliver returns, to pollRetries if it is a retry, or to dispatchEvent.
Return(w) ==
  /\ Goto(w, IF retry[w] = {} THEN "targets" ELSE "retried")
  /\ call' = [call EXCEPT ![w] = NoCall]

\* Mutant: one more than the quota.
AlmostWithinQuota == hour <= Quota

WithinQuota == hour < Quota

\* hourlyCount, in a transaction of its own: deliver goes on or returns.
CheckQuota(w, s, e, a, back) ==
  \/ /\ WithinQuota /\ Goto(w, "allowed")
     /\ call' = [call EXCEPT ![w] = [sub |-> s, event |-> e, attempt |-> a]]
     /\ UNCHANGED dropped
  \/ /\ ~WithinQuota /\ Goto(w, back)
     /\ dropped' = dropped \cup {<<s, e>>}
     /\ UNCHANGED call

DeliverEvent(w, s) ==
  /\ phase[w] = "targets" /\ s \in targets[w]
  /\ targets' = [targets EXCEPT ![w] = @ \ {s}]
  /\ \E x \in entry[w] : CheckQuota(w, s, x[1], 1, "targets")
  /\ UNCHANGED <<redis, tables, stream, entries, entry, claimed, retry, budget>>

HasStatus(s, e, status) ==
  {k \in Keys : k.sub = s /\ k.event = e /\ delivery[k] = status}

\* Mutant: the SELECT of an earlier success left out.
StartPostUnchecked(w) ==
  /\ phase[w] = "allowed" /\ Goto(w, "posting")
  /\ UNCHANGED <<redis, tables, stream, dropped, work, call, budget>>

\* BEGIN, and no row of this event with the status success.
StartPost(w) ==
  /\ phase[w] = "allowed"
  /\ IF HasStatus(call[w].sub, call[w].event, "success") = {}
     THEN Goto(w, "posting") /\ UNCHANGED call
     ELSE Return(w)
  /\ UNCHANGED <<redis, tables, stream, dropped, work, budget>>

Insert(w, status) ==
  /\ LET new == NewKeys(call[w].sub, call[w].event, call[w].attempt)
     IN \E k \in new : /\ \A j \in new : k.n <= j.n
                       /\ delivery' = [delivery EXCEPT ![k] = status]
  /\ hour' = hour + 1

\* The endpoint answers with 2xx; COMMIT.
Succeed(w) ==
  /\ phase[w] = "posting" /\ Return(w)
  /\ Insert(w, "success")
  /\ UNCHANGED <<redis, sub, stream, dropped, work, budget>>

\* It answers otherwise, or not within 10 s: the next attempt is due later.
Postpone(w) ==
  /\ phase[w] = "posting" /\ Return(w)
  /\ call[w].attempt < MaxAttempts
  /\ Insert(w, "pending")
  /\ UNCHANGED <<redis, sub, stream, dropped, work, budget>>

\* Mutant: the last attempt is recorded, and the subscription left active.
ExhaustUnsuspended(w) ==
  /\ phase[w] = "posting" /\ Return(w)
  /\ call[w].attempt >= MaxAttempts
  /\ hour' = hour + 1
  /\ UNCHANGED <<redis, sub, delivery, stream, dropped, work, budget>>

\* That was the last attempt: the subscription is suspended as well.
Exhaust(w) ==
  /\ phase[w] = "posting" /\ Return(w)
  /\ call[w].attempt >= MaxAttempts
  /\ hour' = hour + 1
  /\ sub' = [sub EXCEPT ![call[w].sub] = "suspended"]
  /\ UNCHANGED <<redis, delivery, stream, dropped, work, budget>>

-----------------------------------------------------------------------------
(* The second half: pollRetries.                                           *)
Due == {k \in Keys : delivery[k] = "pending" /\ sub[k.sub] = "active"}

\* SELECT ... FOR UPDATE SKIP LOCKED and COMMIT, which gives the locks back.
ClaimDue(w) ==
  /\ phase[w] = "events" /\ entries[w] = {} /\ Goto(w, "retrying")
  /\ claimed' = [claimed EXCEPT ![w] = Due]
  /\ UNCHANGED <<redis, tables, stream, dropped, entries, entry, targets,
                 retry, call, budget>>

RetryDelivery(w, k) ==
  /\ phase[w] = "retrying" /\ k \in claimed[w]
  /\ claimed' = [claimed EXCEPT ![w] = @ \ {k}]
  /\ retry' = [retry EXCEPT ![w] = {k}]
  /\ CheckQuota(w, k.sub, k.event, k.attempt + 1, "retried")
  /\ UNCHANGED <<redis, tables, stream, entries, entry, targets, budget>>

\* Whatever deliver did, the row is set to failed if it is still pending.
Supersede(w) ==
  /\ phase[w] = "retried" /\ Goto(w, "retrying")
  /\ delivery' = [k \in Keys |-> IF k \in retry[w] /\ delivery[k] = "pending"
                                 THEN "none" ELSE delivery[k]]
  /\ retry' = [retry EXCEPT ![w] = {}]
  /\ UNCHANGED <<redis, sub, hour, stream, dropped, entries, entry, targets,
                 claimed, call, budget>>

FinishTick(w) ==
  /\ phase[w] = "retrying" /\ claimed[w] = {} /\ Goto(w, "idle")
  /\ UNCHANGED <<redis, tables, stream, dropped, work, call, budget>>

-----------------------------------------------------------------------------
(* Faults: the database or the pool refuses, before or after the POST; the *)
(* transaction of deliver rolls back.                                      *)
Delivering(w) == phase[w] \in {"allowed", "posting"}

\* pollRedis goes on with the next message and leaves this one unacknowledged.
FailMessage(w) ==
  /\ redis /\ entry[w] # {} /\ Delivering(w) /\ Disturbance /\ Goto(w, "events")
  /\ entry' = [entry EXCEPT ![w] = {}]
  /\ targets' = [targets EXCEPT ![w] = {}]
  /\ call' = [call EXCEPT ![w] = NoCall]
  /\ UNCHANGED <<redis, tables, stream, dropped, entries, claimed, retry>>

\* pollOutbox gives up all of its rows.
FailOutbox(w) ==
  /\ ~redis /\ entry[w] # {} /\ Delivering(w) /\ Disturbance /\ Goto(w, "events")
  /\ entries' = [entries EXCEPT ![w] = {}]
  /\ entry' = [entry EXCEPT ![w] = {}]
  /\ targets' = [targets EXCEPT ![w] = {}]
  /\ call' = [call EXCEPT ![w] = NoCall]
  /\ UNCHANGED <<redis, tables, stream, dropped, claimed, retry>>

\* pollRetries gives up all that it has claimed; the rows stay pending.
FailRetries(w) ==
  /\ retry[w] # {} /\ Delivering(w) /\ Disturbance /\ Goto(w, "idle")
  /\ claimed' = [claimed EXCEPT ![w] = {}]
  /\ retry' = [retry EXCEPT ![w] = {}]
  /\ call' = [call EXCEPT ![w] = NoCall]
  /\ UNCHANGED <<redis, tables, stream, dropped, entries, entry, targets>>

\* The UPDATE that supersedes a row fails, and the error is swallowed.
FailSupersede(w) ==
  /\ phase[w] = "retried" /\ Disturbance /\ Goto(w, "retrying")
  /\ retry' = [retry EXCEPT ![w] = {}]
  /\ UNCHANGED <<redis, tables, stream, dropped, entries, entry, targets,
                 claimed, call>>

\* The process stops in the middle of its ticks and starts again, with Redis
\* as it was.
Restart ==
  /\ \E w \in Ticks : phase[w] # "idle"
  /\ Disturbance
  /\ phase' = [w \in Ticks |-> "idle"]
  /\ entries' = [w \in Ticks |-> {}]
  /\ entry' = [w \in Ticks |-> {}]
  /\ targets' = [w \in Ticks |-> {}]
  /\ claimed' = [w \in Ticks |-> {}]
  /\ retry' = [w \in Ticks |-> {}]
  /\ call' = [w \in Ticks |-> NoCall]
  /\ UNCHANGED <<redis, tables, stream, dropped>>

-----------------------------------------------------------------------------
Deliver(w) ==
  \/ StartPost(w) \/ Succeed(w) \/ Postpone(w) \/ Exhaust(w)
  \/ Supersede(w)

Tick(w) ==
  \/ ReadStream(w) \/ ReadOutbox(w) \/ (\E x \in Entries : LoadSubs(w, x))
  \/ (\E s \in Subs : DeliverEvent(w, s)) \/ FinishEntry(w)
  \/ ClaimDue(w) \/ (\E k \in Keys : RetryDelivery(w, k)) \/ FinishTick(w)
  \/ Deliver(w)

Fault(w) == FailMessage(w) \/ FailOutbox(w) \/ FailRetries(w) \/ FailSupersede(w)

Next ==
  \/ \E s \in Subs :
       \/ CreateSubscription(s) \/ TestDelivery(s)
       \/ \E status \in {"active", "suspended", "disabled"} :
            PatchStatus(s, status)
  \/ \E x \in Entries : Published(x) \/ WindowPasses(x)
  \/ RowAges
  \/ \E w \in Ticks : Tick(w) \/ Fault(w)
  \/ Restart

Spec == Init /\ [][Next]_vars

(* The timer goes on; a tick goes on, because every request of it ends: the*)
(* POST within 10 s, a statement within 15 s, a connection within 5 s.     *)
FairSpec ==
  Spec /\ \A w \in Ticks : WF_vars(Tick(w))

-----------------------------------------------------------------------------
SubStatuses == {"none", "active", "suspended", "disabled"}
RowStatuses == {"none", "pending", "success"}
Phases == {"idle", "events", "targets", "allowed", "posting", "retrying",
           "retried"}

\* Type invariant.
TypeOK ==
  /\ redis \in BOOLEAN
  /\ sub \in [Subs -> SubStatuses] /\ delivery \in [Keys -> RowStatuses]
  /\ hour \in Nat
  /\ arrived \subseteq Entries /\ unread \subseteq arrived
  /\ acked \subseteq arrived /\ dropped \subseteq Subs \X Events
  /\ phase \in [Ticks -> Phases]
  /\ entries \in [Ticks -> SUBSET Entries]
  /\ entry \in [Ticks -> SUBSET Entries]
  /\ targets \in [Ticks -> SUBSET Subs]
  /\ claimed \in [Ticks -> SUBSET Keys]
  /\ retry \in [Ticks -> SUBSET Keys]
  /\ call \in [Ticks -> Calls \cup {NoCall}]
  /\ budget \in 0 .. MaxBudget

(* The quota is checked before the transaction that uses it up: overlapping*)
(* ticks may exceed it, by one delivery for each further tick and one for  *)
(* each test that an administrator sends, and no more.                     *)
QuotaOverrunBounded ==
  hour < Quota + Cardinality(Ticks) + (MaxBudget - budget)

(* A subscriber is told of an event again only by ticks that were already  *)
(* delivering it when the first success was recorded: copies on the stream,*)
(* retries of a row that two ticks have claimed, polls of the outbox and   *)
(* restarts add none.                                                      *)
SuccessesBounded ==
  \A s \in Subs, e \in Events :
    Cardinality(HasStatus(s, e, "success")) <= Cardinality(Ticks)

\* An entry that was read, is in nobody's hands and will not be read again.
Stranded(x) ==
  /\ x \in arrived \ (unread \cup acked)
  /\ \A w \in Ticks : x \notin entries[w] \cup entry[w]

(* An active subscription is told of an event or given up after the last   *)
(* attempt, through failing endpoints, claims that overlap and lost locks; *)
(* the exceptions are all there are: the subscription is switched off, the *)
(* quota drops the event or its retry, or a fault strands its message.     *)
DeliveredOrAccounted ==
  \A s \in Subs, x \in Entries :
    (redis /\ x \in unread /\ sub[s] = "active") ~>
      \/ HasStatus(s, x[1], "success") # {}
      \/ sub[s] # "active"
      \/ <<s, x[1]>> \in dropped
      \/ Stranded(x)
=============================================================================
