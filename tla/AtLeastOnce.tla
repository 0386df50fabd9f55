----------------------------- MODULE AtLeastOnce -----------------------------
(***************************************************************************)
(* What the transactional outbox promises (ADR-0011): an event reaches the *)
(* stream only if its transaction has committed, an event is settled only  *)
(* once it is on the stream, a settled event is not sent again, and every  *)
(* recorded event is settled in the end.  How often an event is sent       *)
(* before it is settled is left open.                                      *)
(***************************************************************************)
CONSTANT Events

VARIABLES
  recorded,   \* events whose transaction has committed
  sent,       \* events that are on the stream, once or more
  settled     \* events that nobody will send again

vars == <<recorded, sent, settled>>

Init == recorded = {} /\ sent = {} /\ settled = {}

Record(e) ==
  /\ recorded' = recorded \cup {e}
  /\ UNCHANGED <<sent, settled>>

Send(e) ==
  /\ e \in recorded \ settled
  /\ sent' = sent \cup {e}
  /\ UNCHANGED <<recorded, settled>>

\* Settling may be done for several events at a time.
Settle(E) ==
  /\ E \subseteq sent \ settled
  /\ settled' = settled \cup E
  /\ UNCHANGED <<recorded, sent>>

Next == \/ \E e \in Events : Record(e) \/ Send(e)
        \/ \E E \in SUBSET Events : Settle(E)

Spec == Init /\ [][Next]_vars

\* Every recorded event is sent and settled, provided the senders go on.
Promise == \A e \in Events : e \in recorded ~> e \in settled
=============================================================================
