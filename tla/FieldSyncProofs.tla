--------------------------- MODULE FieldSyncProofs ---------------------------
(***************************************************************************)
(* Proofs about FieldSync: a client_uuid has at most one row, what the     *)
(* browser takes to be uploaded is stored, and a wiped submission does not *)
(* come back.                                                              *)
(*                                                                         *)
(* What IndexedDB says of a submission comes from an answer of the server, *)
(* and several syncs may hold answers of different ages; so the invariant  *)
(* says what each answer promises while it is on its way.                  *)
(***************************************************************************)
EXTENDS FieldSync, TLAPS

(* What the answers of a batch say of the database, from the SELECTs of    *)
(* its transaction until the last result is written to IndexedDB.          *)
Answers(c, i) ==
  /\ phase[c] \in {"rows", "answered"} /\ answer[c][i] = "idempotent_replay"
       => stored[i] = 1
  /\ phase[c] = "answered" /\ answer[c][i] = "accepted" => stored[i] = 1
  /\ phase[c] \notin {"rows", "answered"} => answer[c][i] = "none"
  /\ phase[c] = "rows" /\ i \in snap[c] => answer[c][i] # "none"
  /\ phase[c] = "answered" /\ i \in todo[c] => answer[c][i] # "none"

IInv ==
  /\ TypeOK
  /\ SyncedIsStored
  /\ \A c \in Syncs, i \in Items : Answers(c, i)

LEMMA InitInv == Init => IInv
  BY BoundsAssumption DEF Init, IInv, TypeOK, SyncedIsStored, Answers,
     Statuses, DeviceStatuses, Phases, Verdicts

-----------------------------------------------------------------------------
\* A sync that returns or throws promises nothing any more.
LEMMA FinishInv ==
  ASSUME IInv, NEW c \in Syncs, Finish(c), UNCHANGED session,
         stored' \in [Items -> 0 .. 1],
         \A i \in Items : stored[i] <= stored'[i],
         queue' = queue, readable' = readable,
         device' \in Devices \cup {NoDevice},
         status' \in [Tenants -> [Devices -> DeviceStatuses]],
         budget' \in 0 .. MaxDisturbances
  PROVE  IInv'
<1> USE DEF IInv
<1>1. TypeOK'
  BY DEF TypeOK, session, Finish, Goto, Phases, Verdicts
<1>2. SyncedIsStored'
  BY DEF SyncedIsStored, TypeOK
<1>3. ASSUME NEW b \in Syncs, NEW i \in Items PROVE Answers(b, i)'
  BY DEF Answers, TypeOK, Finish, Goto
<1> QED  BY <1>1, <1>2, <1>3

\* What FinishInv asks of the variables that a step leaves alone.
LEMMA Typed ==
  ASSUME IInv, NEW c \in Syncs
  PROVE  /\ stored \in [Items -> 0 .. 1]
         /\ \A i \in Items : stored[i] <= stored[i]
         /\ device \in Devices \cup {NoDevice}
         /\ name[c] \in Devices \cup {NoDevice}
         /\ status \in [Tenants -> [Devices -> DeviceStatuses]]
         /\ budget \in 0 .. MaxDisturbances
         /\ budget > 0 => budget - 1 \in 0 .. MaxDisturbances
<1>1. TypeOK
  BY DEF IInv
<1>2. budget \in 0 .. MaxDisturbances
  BY <1>1 DEF TypeOK
<1>3. budget > 0 => budget - 1 \in 0 .. MaxDisturbances
  BY <1>2, BoundsAssumption
<1>4. \A i \in Items : stored[i] <= stored[i]
  BY <1>1 DEF TypeOK
<1> QED  BY <1>1, <1>2, <1>3, <1>4 DEF TypeOK

\* Adding rows for submissions without one keeps one row for each.
LEMMA InsertedFacts ==
  ASSUME TypeOK, NEW c \in Syncs, Inserted(c),
         \A i \in Accepted(c) : stored[i] = 0
  PROVE  /\ stored' \in [Items -> 0 .. 1]
         /\ \A i \in Items : stored[i] <= stored'[i]
         /\ \A i \in Accepted(c) : stored'[i] = 1
  BY DEF TypeOK, Inserted, Accepted

-----------------------------------------------------------------------------
LEMMA EnvironmentInv ==
  ASSUME IInv,
         \/ \E i \in Items : SaveDraft(i)
         \/ \E t \in Tenants : SwitchUser(t)
         \/ \E t \in Tenants, d \in Devices : RequestWipe(t, d)
         \/ Reload
  PROVE  IInv'
<1> USE DEF IInv
<1>1. ASSUME NEW i \in Items, SaveDraft(i) PROVE IInv'
  BY <1>1 DEF SaveDraft, TypeOK, SyncedIsStored, Answers, server, syncs,
     Statuses
<1>2. ASSUME NEW t \in Tenants, SwitchUser(t) PROVE IInv'
  BY <1>2, BoundsAssumption DEF SwitchUser, Disturbance, TypeOK,
     SyncedIsStored, Answers, browser, server, syncs
<1>3. ASSUME NEW t \in Tenants, NEW d \in Devices, RequestWipe(t, d)
      PROVE  IInv'
  BY <1>3, BoundsAssumption DEF RequestWipe, Disturbance, TypeOK,
     SyncedIsStored, Answers, browser, syncs, session, DeviceStatuses
<1>4. CASE Reload
  BY <1>4, BoundsAssumption DEF Reload, Disturbance, TypeOK, SyncedIsStored,
     Answers, server, session, Phases, Verdicts
<1> QED  BY <1>1, <1>2, <1>3, <1>4

\* The updates of field_devices keep its type.
LEMMA StatusType ==
  ASSUME IInv, NEW c \in Syncs,
         \/ \E d \in Devices : DrawDeviceId(c, d)
         \/ Register(c) \/ AckWipe(c)
  PROVE  status' \in [Tenants -> [Devices -> DeviceStatuses]]
<1>1. /\ status \in [Tenants -> [Devices -> DeviceStatuses]]
      /\ user \in Tenants
  BY DEF IInv, TypeOK
<1>2. ASSUME NEW d \in Devices, DrawDeviceId(c, d)
      PROVE  status' \in [Tenants -> [Devices -> DeviceStatuses]]
  <2>1. status' = [t \in Tenants |-> [status[t] EXCEPT ![d] = "none"]]
    BY <1>2 DEF DrawDeviceId
  <2>2. ASSUME NEW t \in Tenants
        PROVE  [status[t] EXCEPT ![d] = "none"] \in [Devices -> DeviceStatuses]
    BY <1>1 DEF DeviceStatuses
  <2> QED  BY <2>1, <2>2
<1>3. ASSUME NEW s \in DeviceStatuses,
             status' = [status EXCEPT ![user][name[c]] = s]
      PROVE  status' \in [Tenants -> [Devices -> DeviceStatuses]]
  <2>1. [status[user] EXCEPT ![name[c]] = s] \in [Devices -> DeviceStatuses]
    BY <1>1
  <2> QED  BY <1>1, <1>3, <2>1
<1>4. CASE Register(c) /\ name[c] \in Devices
  <2>1. status[user][name[c]] \in DeviceStatuses
    BY <1>1, <1>4
  <2> QED  BY <1>1, <1>3, <1>4, <2>1 DEF Register, DeviceStatuses
<1>5. CASE AckWipe(c) /\ name[c] \in Devices
  <2>1. status[user][name[c]] \in DeviceStatuses
    BY <1>1, <1>5
  <2> QED  BY <1>1, <1>3, <1>5, <2>1 DEF AckWipe, DeviceStatuses
<1>6. CASE (Register(c) \/ AckWipe(c)) /\ name[c] \notin Devices
  BY <1>1, <1>6 DEF Register, AckWipe
<1> QED  BY <1>2, <1>4, <1>5, <1>6

\* The wipe is acknowledged, or the acknowledgement fails.
LEMMA FinishAck ==
  ASSUME IInv, NEW c \in Syncs, AckWipe(c)
  PROVE  IInv'
<1>1. status' \in [Tenants -> [Devices -> DeviceStatuses]]
  BY StatusType
<1> QED
  BY <1>1, FinishInv, Typed DEF AckWipe, browser

\* From the device id to the remote wipe.
LEMMA DeviceInv ==
  ASSUME IInv, NEW c \in Syncs,
         \/ Begin(c) \/ (\E d \in Devices : DrawDeviceId(c, d))
         \/ Register(c) \/ CheckWipe(c) \/ Wipe(c) \/ AckWipe(c)
  PROVE  IInv'
<1> USE DEF IInv
<1>1. CASE Begin(c)
  <2>1. TypeOK'
    BY <1>1 DEF Begin, Goto, TypeOK, browser, server, session, Phases
  <2>2. SyncedIsStored'
    BY <1>1 DEF Begin, SyncedIsStored, browser, server
  <2>3. \A b \in Syncs, i \in Items : Answers(b, i)'
    BY <1>1 DEF Begin, Goto, TypeOK, Answers, server
  <2> QED  BY <2>1, <2>2, <2>3
<1>2. ASSUME NEW d \in Devices, DrawDeviceId(c, d) PROVE IInv'
  <2>1. status' \in [Tenants -> [Devices -> DeviceStatuses]]
    BY <1>2, StatusType
  <2>2. /\ phase[c] = "naming" /\ phase' = [phase EXCEPT ![c] = "begun"]
        /\ device' = d /\ name' = [name EXCEPT ![c] = d]
        /\ UNCHANGED <<queue, readable, stored, session, snap, todo, answer,
                       budget>>
    BY <1>2 DEF DrawDeviceId, Goto
  <2> QED
    BY <2>1, <2>2 DEF TypeOK, SyncedIsStored, Answers, session, Phases
<1>3. CASE Register(c)
  <2>1. status' \in [Tenants -> [Devices -> DeviceStatuses]]
    BY <1>3, StatusType
  <2>2. /\ phase[c] = "begun" /\ phase' = [phase EXCEPT ![c] = "registered"]
        /\ UNCHANGED <<browser, stored, session, name, snap, todo, answer,
                       budget>>
    BY <1>3 DEF Register, Goto
  <2> QED
    BY <2>1, <2>2 DEF TypeOK, SyncedIsStored, Answers, browser, session, Phases
<1>4. CASE CheckWipe(c)
  <2>1. /\ \/ phase' = [phase EXCEPT ![c] = "wiping"]
           \/ phase' = [phase EXCEPT ![c] = "checked"]
        /\ phase[c] = "registered" /\ budget' \in 0 .. MaxDisturbances
        /\ UNCHANGED <<browser, server, session, name, snap, todo, answer>>
    BY <1>4, Typed DEF CheckWipe, Disturbance, Goto
  <2>2. TypeOK'
    BY <2>1 DEF TypeOK, browser, server, session, Phases
  <2>3. SyncedIsStored'
    BY <2>1 DEF SyncedIsStored, browser, server
  <2>4. \A b \in Syncs, i \in Items : Answers(b, i)'
    BY <2>1 DEF TypeOK, Answers, server
  <2> QED  BY <2>2, <2>3, <2>4
<1>5. CASE Wipe(c)
  BY <1>5 DEF Wipe, Goto, TypeOK, SyncedIsStored, Answers, server, session,
     Phases, Statuses
<1>6. CASE AckWipe(c)
  BY <1>6, FinishAck
<1> QED  BY <1>1, <1>2, <1>3, <1>4, <1>5, <1>6

\* Listing, marking and decrypting the pending submissions.
LEMMA ListInv ==
  ASSUME IInv, NEW c \in Syncs,
         \/ ListQueue(c) \/ (\E i \in Items : MarkSyncing(c, i)) \/ Decrypt(c)
  PROVE  IInv'
<1>1. CASE ListQueue(c)
  <2>1. TypeOK'
    BY <1>1 DEF IInv, ListQueue, Goto, Pending, TypeOK, browser, server, session,
       Phases
  <2>2. SyncedIsStored'
    BY <1>1 DEF IInv, ListQueue, SyncedIsStored, browser, server
  <2>3. ASSUME NEW b \in Syncs, NEW i \in Items PROVE Answers(b, i)'
    <3>1. /\ todo' = [todo EXCEPT ![c] = Pending]
          /\ \/ Pending = {} /\ phase' = [phase EXCEPT ![c] = "answered"]
             \/ phase' = [phase EXCEPT ![c] = "marking"]
          /\ phase[c] = "checked" /\ answer[c][i] = "none"
          /\ snap' = [snap EXCEPT ![c] = Pending]
          /\ UNCHANGED <<answer, stored>>
      BY <1>1 DEF IInv, Answers, ListQueue, Goto, server
    <3>2. CASE b = c
      BY <3>1, <3>2 DEF IInv, Answers, TypeOK
    <3>3. CASE b # c
      BY <3>1, <3>3 DEF IInv, Answers, TypeOK
    <3> QED  BY <3>2, <3>3
  <2> QED  BY <2>1, <2>2, <2>3 DEF IInv
<1>2. ASSUME NEW i \in Items, MarkSyncing(c, i) PROVE IInv'
  BY <1>2 DEF IInv, MarkSyncing, MarkQueueStatus, TypeOK, SyncedIsStored, Answers,
     server, session, Statuses
<1>3. CASE Decrypt(c)
  <2>1. CASE snap[c] \subseteq readable
    BY <1>3, <2>1 DEF IInv, Decrypt, Goto, TypeOK, SyncedIsStored, Answers,
       browser, server, session, Phases
  <2>2. CASE ~(snap[c] \subseteq readable)
    BY <1>3, <2>2, FinishInv, Typed DEF Decrypt, browser, server
  <2> QED  BY <2>1, <2>2
<1> QED  BY <1>1, <1>2, <1>3

-----------------------------------------------------------------------------
(* The batch endpoint and its answer.                                      *)

\* The SELECTs: a replay is answered only for a row that is there.
LEMMA CheckRowsInv ==
  ASSUME IInv, NEW c \in Syncs, CheckRows(c)
  PROVE  IInv'
<1> USE DEF IInv
<1>1. /\ answer' = [answer EXCEPT ![c] = [i \in Items |->
                     IF i \in snap[c] THEN Verdict(i) ELSE "none"]]
      /\ phase' = [phase EXCEPT ![c] = "rows"]
      /\ UNCHANGED <<queue, readable, device, stored, status, user, tenantOf,
                     name, snap, todo, budget>>
  BY DEF CheckRows, Goto, browser, server, session
<1>2. \A i \in Items : /\ Verdict(i) \in Verdicts \ {"none"}
                       /\ Verdict(i) = "idempotent_replay" => stored[i] = 1
  BY DEF Verdict, Verdicts, TypeOK
<1>3. [i \in Items |-> IF i \in snap[c] THEN Verdict(i) ELSE "none"]
        \in [Items -> Verdicts]
  BY <1>2 DEF Verdicts
<1>4. TypeOK'
  BY <1>1, <1>3 DEF TypeOK, Phases
<1>5. SyncedIsStored'
  BY <1>1 DEF SyncedIsStored
<1>6. ASSUME NEW b \in Syncs, NEW i \in Items PROVE Answers(b, i)'
  <2>1. CASE b = c
    BY <1>1, <1>2, <2>1 DEF Answers, TypeOK
  <2>2. CASE b # c
    BY <1>1, <2>2 DEF Answers, TypeOK
  <2> QED  BY <2>1, <2>2
<1> QED  BY <1>4, <1>5, <1>6

\* The COMMIT: the accepted submissions have their row.
LEMMA InsertRowsInv ==
  ASSUME IInv, NEW c \in Syncs, InsertRows(c)
  PROVE  IInv'
<1> USE DEF IInv
<1>1. /\ todo' = [todo EXCEPT ![c] = snap[c]]
      /\ phase' = [phase EXCEPT ![c] = "answered"]
      /\ phase[c] = "rows"
      /\ UNCHANGED <<queue, readable, device, status, user, tenantOf, name,
                     snap, answer, budget>>
  BY DEF InsertRows, Goto, browser, session
<1>2. /\ stored' \in [Items -> 0 .. 1]
      /\ \A i \in Items : stored[i] <= stored'[i]
      /\ \A i \in Accepted(c) : stored'[i] = 1
  BY InsertedFacts DEF InsertRows
<1>3. TypeOK'
  BY <1>1, <1>2 DEF TypeOK, Phases
<1>4. SyncedIsStored'
  BY <1>1, <1>2 DEF SyncedIsStored, TypeOK
<1>5. ASSUME NEW b \in Syncs, NEW i \in Items PROVE Answers(b, i)'
  <2>1. stored[i] = 1 => stored'[i] = 1
    BY <1>2 DEF TypeOK
  <2>2. CASE b = c
    BY <1>1, <1>2, <2>1, <2>2 DEF Answers, TypeOK, Accepted
  <2>3. CASE b # c
    BY <1>1, <2>1, <2>3 DEF Answers, TypeOK
  <2> QED  BY <2>2, <2>3
<1> QED  BY <1>3, <1>4, <1>5

\* A result is written to IndexedDB as the answer has it.
LEMMA RecordResultInv ==
  ASSUME IInv, NEW c \in Syncs, NEW i \in Items, RecordResult(c, i)
  PROVE  IInv'
<1> USE DEF IInv
<1>1. answer[c][i] # "rejected" => stored[i] = 1
  BY DEF RecordResult, Answers, TypeOK, Verdicts
<1> QED
  BY <1>1 DEF RecordResult, MarkQueueStatus, TypeOK, SyncedIsStored, Answers,
     server, session, Statuses

\* The ends of a sync, whatever has become of its batch.
LEMMA EndInv ==
  ASSUME IInv, NEW c \in Syncs,
         \/ Fails(c) \/ RefuseBatch(c) \/ Conflict(c) \/ LoseAnswer(c)
         \/ Complete(c)
  PROVE  IInv'
<1>1. CASE Fails(c)
  BY <1>1, FinishInv, Typed DEF Fails, Disturbance, browser, server
<1>2. CASE RefuseBatch(c) \/ Conflict(c)
  BY <1>2, FinishInv, Typed DEF RefuseBatch, Conflict, browser, server
<1>3. CASE LoseAnswer(c)
  <2>1. /\ stored' \in [Items -> 0 .. 1]
        /\ \A i \in Items : stored[i] <= stored'[i]
    BY <1>3, InsertedFacts DEF LoseAnswer, IInv
  <2> QED
    BY <1>3, <2>1, FinishInv, Typed DEF LoseAnswer, Disturbance, browser
<1>4. CASE Complete(c)
  BY <1>4, FinishInv, Typed DEF Complete, server
<1> QED  BY <1>1, <1>2, <1>3, <1>4

LEMMA NextInv == IInv /\ [Next]_vars => IInv'
<1> SUFFICES ASSUME IInv, [Next]_vars PROVE IInv'
  OBVIOUS
<1>1. CASE \/ \E i \in Items : SaveDraft(i)
           \/ \E t \in Tenants : SwitchUser(t)
           \/ \E t \in Tenants, d \in Devices : RequestWipe(t, d)
           \/ Reload
  BY <1>1, EnvironmentInv
<1>2. ASSUME NEW c \in Syncs, RunSync(c) PROVE IInv'
  BY <1>2, DeviceInv, ListInv, CheckRowsInv, InsertRowsInv, RecordResultInv,
     EndInv DEF RunSync, Upload
<1>3. ASSUME NEW c \in Syncs, Fails(c) \/ LoseAnswer(c) PROVE IInv'
  BY <1>3, EndInv
<1>4. CASE UNCHANGED vars
  BY <1>4 DEF vars, browser, server, syncs, session, IInv, TypeOK,
     SyncedIsStored, Answers
<1> QED  BY <1>1, <1>2, <1>3, <1>4 DEF Next

-----------------------------------------------------------------------------
\* The inductive invariant holds throughout every execution.
THEOREM Invariance == Spec => []IInv
  BY InitInv, NextInv, PTL DEF Spec

\* The variables keep their types; stored says that resending, lost answers
\* and overlapping syncs never give a client_uuid a second row (POST batch).
THEOREM TypeCorrectness == Spec => []TypeOK
<1>1. IInv => TypeOK
  BY DEF IInv
<1> QED  BY <1>1, Invariance, PTL

\* runSync never takes a submission off the queue that is not in the
\* database.
THEOREM NothingSyncedIsLost == Spec => []SyncedIsStored
<1>1. IInv => SyncedIsStored
  BY DEF IInv
<1> QED  BY <1>1, Invariance, PTL

\* Writing a status never brings back what wipeLocalOfflineData cleared.
THEOREM WipeIsFinal == Spec => WipedStaysWiped
<1>1. IInv /\ [Next]_vars =>
        [\A i \in Items :
           tenantOf[i] # NoTenant /\ queue[i] = "none" => queue'[i] = "none"]_vars
  <2> SUFFICES ASSUME IInv, [Next]_vars, NEW i \in Items,
                      tenantOf[i] # NoTenant, queue[i] = "none"
               PROVE  queue'[i] = "none"
    OBVIOUS
  <2>1. CASE UNCHANGED queue
    BY <2>1
  <2>2. ASSUME NEW j \in Items, SaveDraft(j) PROVE queue'[i] = "none"
    BY <2>2 DEF SaveDraft, IInv, TypeOK
  <2>3. ASSUME NEW c \in Syncs, NEW j \in Items,
               MarkSyncing(c, j) \/ RecordResult(c, j)
        PROVE  queue'[i] = "none"
    BY <2>3 DEF MarkSyncing, RecordResult, MarkQueueStatus, IInv, TypeOK
  <2>4. ASSUME NEW c \in Syncs, Wipe(c) PROVE queue'[i] = "none"
    BY <2>4 DEF Wipe
  <2>5. ASSUME NEW c \in Syncs,
               \/ Begin(c) \/ (\E d \in Devices : DrawDeviceId(c, d))
               \/ Register(c) \/ CheckWipe(c) \/ AckWipe(c)
               \/ ListQueue(c) \/ Decrypt(c)
               \/ RefuseBatch(c) \/ CheckRows(c) \/ InsertRows(c)
               \/ Conflict(c) \/ LoseAnswer(c) \/ Fails(c) \/ Complete(c)
        PROVE  UNCHANGED queue
    BY <2>5 DEF Begin, DrawDeviceId, Register, CheckWipe, AckWipe, ListQueue,
       Decrypt, RefuseBatch, CheckRows, InsertRows, Conflict, LoseAnswer,
       Fails, Complete, browser
  <2>6. CASE \/ \E t \in Tenants : SwitchUser(t)
             \/ \E t \in Tenants, d \in Devices : RequestWipe(t, d)
             \/ Reload \/ UNCHANGED vars
    BY <2>1, <2>6 DEF SwitchUser, RequestWipe, Reload, vars, browser
  <2> QED
    BY <2>1, <2>2, <2>3, <2>4, <2>5, <2>6 DEF Next, RunSync, Upload
<1> QED  BY <1>1, Invariance, PTL DEF Spec, WipedStaysWiped
=============================================================================
