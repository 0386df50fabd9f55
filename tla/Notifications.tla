---------------------------- MODULE Notifications ----------------------------
(***************************************************************************)
(* Notifications (notification-service, notifications/send): a message is  *)
(* handed to the provider inside the transaction that then inserts the     *)
(* delivery with its key, which is unique.  A critical e-mail that fails   *)
(* is sent as a text message as well.  Without a key of its own a request  *)
(* gets one of the template, the address and the channel.                  *)
(***************************************************************************)
EXTENDS Integers, FiniteSets

CONSTANTS Messages,   \* dedupe keys of e-mails; each has its own address
          Critical,   \* those whose template is critical and has a text
          TooLong,    \* those whose key does not fit the column of the table
          Posters,    \* requests that may be under way at the same time
          MaxFaults,  \* bound on the transactions that break off
          NoMessage   \* "no message"

VARIABLES
  delivery,    \* delivery[k]: the status of k in notification_deliveries
  fallback,    \* fallback[k]: the status of the delivery k:sms-fallback
  suppressed,  \* messages whose address is in notification_suppressions
  emails,      \* emails[k]: e-mails of k that the provider has taken
  texts,       \* texts[k]: text messages of k that the provider has taken
  faults,      \* transactions that broke off
  posting,     \* posting[p]: how far the request p is
  message,     \* message[p]: what it sends
  result       \* result[p]: what the provider said: "ok", "failed", "refused"

deliveries == <<delivery, fallback, suppressed>>
sent == <<emails, texts>>
posters == <<posting, message, result>>

NotificationsInit ==
  /\ delivery = [k \in Messages |-> "none"]
  /\ fallback = [k \in Messages |-> "none"]
  /\ suppressed = {}
  /\ emails = [k \in Messages |-> 0] /\ texts = [k \in Messages |-> 0]
  /\ faults = 0
  /\ posting = [p \in Posters |-> "idle"]
  /\ message = [p \in Posters |-> NoMessage]
  /\ result = [p \in Posters |-> "none"]

-----------------------------------------------------------------------------
Begin(p, k) ==
  /\ posting' = [posting EXCEPT ![p] = "checked"]
  /\ message' = [message EXCEPT ![p] = k]
  /\ UNCHANGED <<deliveries, sent, faults, result>>

\* Mutant: a delivery that failed may be sent again.
CheckFailed(p, k) ==
  /\ posting[p] = "idle" /\ k \notin suppressed /\ delivery[k] # "sent"
  /\ Begin(p, k)

\* The suppressions of the address, then the delivery with the key.
CheckDelivery(p, k) ==
  /\ posting[p] = "idle" /\ k \notin suppressed /\ delivery[k] = "none"
  /\ Begin(p, k)

Step(p, from, to, outcome) ==
  /\ posting[p] = from
  /\ posting' = [posting EXCEPT ![p] = to]
  /\ result' = [result EXCEPT ![p] = outcome]
  /\ UNCHANGED <<deliveries, faults, message>>

\* The provider takes the e-mail; its answer may be lost (15 seconds), which
\* the adapter reports as a failure.
MailTaken(p, outcome) ==
  /\ Step(p, "checked", "mailed", outcome)
  /\ emails' = [emails EXCEPT ![message[p]] = @ + 1]
  /\ UNCHANGED texts

\* It does not take it; "refused" is a 4xx, which is for good.
MailFailed(p, outcome) ==
  /\ Step(p, "checked", "mailed", outcome)
  /\ UNCHANGED sent

\* A critical e-mail that failed goes out as a text message; what the provider
\* says of that is from here on the result.
NeedsText(p) == result[p] # "ok" /\ message[p] \in Critical

TextTaken(p) ==
  /\ posting[p] = "mailed" /\ NeedsText(p)
  /\ Step(p, "mailed", "texted", "ok")
  /\ texts' = [texts EXCEPT ![message[p]] = @ + 1]
  /\ UNCHANGED emails

TextFailed(p, outcome) ==
  /\ posting[p] = "mailed" /\ NeedsText(p)
  /\ Step(p, "mailed", "texted", outcome)
  /\ UNCHANGED sent

\* INSERT the deliveries, which the unique index refuses if there is one with
\* the key (a request that has inserted it is waited for), and the suppression
\* of the address, if the result is for good; COMMIT.
CommitDelivery(p) ==
  LET k == message[p]
      status == IF result[p] = "ok" THEN "sent" ELSE "failed"
  IN /\ \/ posting[p] = "texted"
        \/ posting[p] = "mailed" /\ ~ NeedsText(p)
     /\ delivery[k] = "none" /\ k \notin TooLong
     /\ delivery' = [delivery EXCEPT ![k] = status]
     /\ fallback' = [fallback EXCEPT ![k] = IF posting[p] = "texted" THEN status
                                                                   ELSE @]
     /\ suppressed' = IF result[p] = "refused" THEN suppressed \cup {k}
                                               ELSE suppressed
     /\ posting' = [posting EXCEPT ![p] = "idle"]
     /\ message' = [message EXCEPT ![p] = NoMessage]
     /\ result' = [result EXCEPT ![p] = "none"]
     /\ UNCHANGED <<sent, faults>>

\* A conflict on the key, a key that is too long, an error: ROLLBACK.  The provider has the message.
RollbackDelivery(p) ==
  /\ posting[p] # "idle"
  /\ \/ delivery[message[p]] # "none" /\ faults' = faults
     \/ delivery[message[p]] = "none" /\ faults < MaxFaults /\ faults' = faults + 1
  /\ posting' = [posting EXCEPT ![p] = "idle"]
  /\ message' = [message EXCEPT ![p] = NoMessage]
  /\ result' = [result EXCEPT ![p] = "none"]
  /\ UNCHANGED <<deliveries, sent>>

NotificationsNext ==
  \E p \in Posters :
    \/ \E k \in Messages : CheckDelivery(p, k)
    \/ \E outcome \in {"ok", "failed"} : MailTaken(p, outcome)
    \/ \E outcome \in {"failed", "refused"} :
         MailFailed(p, outcome) \/ TextFailed(p, outcome)
    \/ TextTaken(p)
    \/ CommitDelivery(p) \/ RollbackDelivery(p)

-----------------------------------------------------------------------------
\* Type invariant.
NotificationsTypeOK ==
  /\ delivery \in [Messages -> {"none", "sent", "failed"}]
  /\ fallback \in [Messages -> {"none", "sent", "failed"}]
  /\ suppressed \subseteq Messages
  /\ emails \in [Messages -> Nat] /\ texts \in [Messages -> Nat]
  /\ faults \in 0..MaxFaults
  /\ posting \in [Posters -> {"idle", "checked", "mailed", "texted"}]
  /\ message \in [Posters -> Messages \cup {NoMessage}]
  /\ result \in [Posters -> {"none", "ok", "failed", "refused"}]

(* A message goes out once for each request that looked for it before the  *)
(* first delivery of it was committed: as many as overlap, and one for     *)
(* each that broke off (which all do whose key is too long).  A delivery   *)
(* that is noted as sent did go out, as an e-mail or as a text.            *)
MessagesBounded ==
  \A k \in Messages :
    /\ emails[k] <= Cardinality(Posters) + faults
    /\ texts[k] <= Cardinality(Posters) + faults
    /\ delivery[k] = "sent" => emails[k] + texts[k] > 0
    /\ fallback[k] # "none" => k \in Critical /\ fallback[k] = delivery[k]
=============================================================================
