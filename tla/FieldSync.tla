------------------------------ MODULE FieldSync ------------------------------
(***************************************************************************)
(* The offline queue of a field officer's browser (frontend/src/offline)   *)
(* and the submissions and devices endpoints of field-data-service that it *)
(* synchronises with.                                                      *)
(*                                                                         *)
(* A browser keeps submissions in IndexedDB, encrypted under a key that is *)
(* only in the memory of the page.  runSync may be running more than once, *)
(* started by the reconnection and by the officer; every await in it lets  *)
(* the other one, a reload or a change of user come in between.            *)
(***************************************************************************)
EXTENDS Integers, FiniteSets

CONSTANTS Items,       \* submissions, each with the client_uuid it is given
          Devices,     \* device ids, drawn at random by the browser
          Tenants,     \* tenants whose officers log in on the browser
          Syncs,       \* calls of runSync that may overlap
          NoTenant,    \* "this submission has not been captured yet"
          NoDevice,    \* "the browser has no device id"
          BatchLimit,  \* largest batch that the endpoint accepts (100)
          Disturbances,    \* which of them there are: "fault", a request of a
                           \* sync that fails; "reload" or crash of the page;
                           \* "wipe" that is ordered; "switch" of the user
          MaxDisturbances  \* bound: how many of them there are

ASSUME TenantsAssumption == Tenants # {} /\ NoTenant \notin Tenants
ASSUME DevicesAssumption == NoDevice \notin Devices
ASSUME BoundsAssumption ==
  BatchLimit \in Nat \ {0} /\ MaxDisturbances \in Nat

VARIABLES
  queue,     \* queue[i]: the status of i in IndexedDB; queued and syncing,
             \* which listQueue does not tell apart, are "pending"
  readable,  \* the submissions encrypted under the key now in memory
  device,    \* the device id in sync_meta
  user,      \* the tenant of the user who is logged in
  tenantOf,  \* tenantOf[i]: the tenant whose form i answers, once captured
  stored,    \* stored[i]: committed rows of submissions with this client_uuid
  status,    \* status[t][d]: the status of d in field_devices for the tenant t,
             \* "none" without row
  phase,     \* phase[c]: where the sync c is
  name,      \* name[c]: the device id that c goes by
  snap,      \* snap[c]: the pending submissions that c has listed
  todo,      \* todo[c]: those whose status c has still to write
  answer,    \* answer[c]: what the server has found out about each of them
  budget     \* how many disturbances are left

browser == <<queue, readable, device>>
server == <<stored, status>>
syncs == <<phase, name, snap, todo, answer>>
session == <<user, tenantOf>>
vars == <<browser, server, syncs, session, budget>>

Init ==
  /\ queue = [i \in Items |-> "none"] /\ readable = {}
  /\ device = NoDevice
  /\ user \in Tenants
  /\ tenantOf = [i \in Items |-> NoTenant]
  /\ stored = [i \in Items |-> 0]
  /\ status = [t \in Tenants |-> [d \in Devices |-> "none"]]
  /\ phase = [c \in Syncs |-> "idle"]
  /\ name = [c \in Syncs |-> NoDevice]
  /\ snap = [c \in Syncs |-> {}]
  /\ todo = [c \in Syncs |-> {}]
  /\ answer = [c \in Syncs |-> [i \in Items |-> "none"]]
  /\ budget = MaxDisturbances

Pending == {i \in Items : queue[i] = "pending"}

\* The bounded events of the environment.
Disturbance(what) ==
  /\ what \in Disturbances
  /\ budget > 0 /\ budget' = budget - 1

-----------------------------------------------------------------------------
(* The officer, the manager and the page.                                  *)

\* saveDraftLocally: encrypted under the key of this page, and queued.
SaveDraft(i) ==
  /\ tenantOf[i] = NoTenant
  /\ tenantOf' = [tenantOf EXCEPT ![i] = user]
  /\ queue' = [queue EXCEPT ![i] = "pending"]
  /\ readable' = readable \cup {i}
  /\ UNCHANGED <<device, user, server, syncs, budget>>

\* Nothing is cleared on logout; requests under way take the new token.
SwitchUser(t) ==
  /\ t # user /\ user' = t
  /\ Disturbance("switch")
  /\ UNCHANGED <<browser, server, syncs, tenantOf>>

\* POST devices/:id/wipe, by a manager of the tenant.
RequestWipe(t, d) ==
  /\ status[t][d] # "none"
  /\ status' = [status EXCEPT ![t][d] = "wipe_pending"]
  /\ Disturbance("wipe")
  /\ UNCHANGED <<browser, stored, syncs, session>>

\* The page goes, with its key and the calls of runSync; IndexedDB stays.
Reload ==
  /\ Disturbance("reload")
  /\ readable' = {}
  /\ phase' = [c \in Syncs |-> "idle"]
  /\ name' = [c \in Syncs |-> NoDevice]
  /\ snap' = [c \in Syncs |-> {}]
  /\ todo' = [c \in Syncs |-> {}]
  /\ answer' = [c \in Syncs |-> [i \in Items |-> "none"]]
  /\ UNCHANGED <<queue, device, server, session>>

-----------------------------------------------------------------------------
(* runSync.                                                                *)
Goto(c, p) == phase' = [phase EXCEPT ![c] = p]

\* It returns or throws; what it had in memory is gone.
Finish(c) ==
  /\ Goto(c, "idle")
  /\ name' = [name EXCEPT ![c] = NoDevice]
  /\ snap' = [snap EXCEPT ![c] = {}]
  /\ todo' = [todo EXCEPT ![c] = {}]
  /\ answer' = [answer EXCEPT ![c] = [i \in Items |-> "none"]]

\* A request fails, before or behind the server, and runSync throws.
Fails(c) ==
  /\ phase[c] \in {"checked", "posting", "rows", "answered"}
  /\ Disturbance("fault")
  /\ Finish(c)
  /\ UNCHANGED <<browser, server, session>>

\* ensureDeviceId: the id is read, and drawn and written where it is missing.
\* An id that nobody goes by any more, and never will, is used again for a
\* new one, and its rows are forgotten.
Begin(c) ==
  /\ phase[c] = "idle"
  /\ name' = [name EXCEPT ![c] = device]
  /\ Goto(c, IF device = NoDevice THEN "naming" ELSE "begun")
  /\ UNCHANGED <<browser, server, session, snap, todo, answer, budget>>

DrawDeviceId(c, d) ==
  /\ phase[c] = "naming"
  /\ d # device /\ \A b \in Syncs : name[b] # d
  /\ device' = d
  /\ name' = [name EXCEPT ![c] = d]
  /\ status' = [t \in Tenants |-> [status[t] EXCEPT ![d] = "none"]]
  /\ Goto(c, "begun")
  /\ UNCHANGED <<queue, readable, stored, session, snap, todo, answer, budget>>

\* POST devices/register; its failure is ignored. A wiped device is active
\* again.
Register(c) ==
  /\ phase[c] = "begun"
  /\ \/ status' = [status EXCEPT ![user][name[c]] =
                    IF @ \in {"none", "wiped"} THEN "active" ELSE @]
     \/ UNCHANGED status
  /\ Goto(c, "registered")
  /\ UNCHANGED <<browser, stored, session, name, snap, todo, answer, budget>>

\* GET devices/me; a failure counts as { wipe: false }.
CheckWipe(c) ==
  /\ phase[c] = "registered"
  /\ \/ status[user][name[c]] = "wipe_pending" /\ Goto(c, "wiping")
        /\ UNCHANGED budget
     \/ status[user][name[c]] # "wipe_pending" /\ Goto(c, "checked")
        /\ UNCHANGED budget
     \/ status[user][name[c]] = "wipe_pending" /\ Goto(c, "checked")
        /\ Disturbance("fault")
  /\ UNCHANGED <<browser, server, session, name, snap, todo, answer>>

\* wipeLocalOfflineData: every store is cleared, the queue among them.
Wipe(c) ==
  /\ phase[c] = "wiping"
  /\ queue' = [i \in Items |-> "none"] /\ readable' = {}
  /\ device' = NoDevice
  /\ Goto(c, "acking")
  /\ UNCHANGED <<server, session, name, snap, todo, answer, budget>>

\* POST devices/me/wipe-ack; its failure is ignored.
AckWipe(c) ==
  /\ phase[c] = "acking"
  /\ \/ status' = [status EXCEPT ![user][name[c]] =
                    IF @ = "wipe_pending" THEN "wiped" ELSE @]
     \/ UNCHANGED status
  /\ Finish(c)
  /\ UNCHANGED <<browser, stored, session, budget>>

\* After the manifest, whose forms are left out: listQueue.
ListQueue(c) ==
  /\ phase[c] = "checked"
  /\ snap' = [snap EXCEPT ![c] = Pending]
  /\ todo' = [todo EXCEPT ![c] = Pending]
  /\ Goto(c, IF Pending = {} THEN "answered" ELSE "marking")
  /\ UNCHANGED <<browser, server, session, name, answer, budget>>

\* Mutant: put without get, which brings back what a wipe has cleared.
MarkAnyQueueStatus(i, s) ==
  queue' = [queue EXCEPT ![i] = s]

\* markQueueStatus: get and, where there is a record, put.
MarkQueueStatus(i, s) ==
  queue' = [queue EXCEPT ![i] = IF @ = "none" THEN @ ELSE s]

\* Mutant: a status of its own, that listQueue does not list.
MarkSyncingUnlisted(c, i) ==
  /\ phase[c] = "marking" /\ i \in todo[c]
  /\ MarkQueueStatus(i, "syncing")
  /\ todo' = [todo EXCEPT ![c] = @ \ {i}]
  /\ UNCHANGED <<readable, device, server, session, phase, name, snap, answer,
                 budget>>

MarkSyncing(c, i) ==
  /\ phase[c] = "marking" /\ i \in todo[c]
  /\ MarkQueueStatus(i, "pending")
  /\ todo' = [todo EXCEPT ![c] = @ \ {i}]
  /\ UNCHANGED <<readable, device, server, session, phase, name, snap, answer,
                 budget>>

\* All payloads are decrypted, or runSync throws.
Decrypt(c) ==
  /\ phase[c] = "marking" /\ todo[c] = {}
  /\ IF snap[c] \subseteq readable
     THEN Goto(c, "posting") /\ UNCHANGED <<name, snap, todo, answer>>
     ELSE Finish(c)
  /\ UNCHANGED <<browser, server, session, budget>>

-----------------------------------------------------------------------------
(* POST submissions/batch, in one transaction.                             *)

\* The schema refuses what is longer than a batch may be.
RefuseBatch(c) ==
  /\ phase[c] = "posting" /\ Cardinality(snap[c]) > BatchLimit
  /\ Finish(c)
  /\ UNCHANGED <<browser, server, session, budget>>

\* What the SELECTs of the user's tenant say of a submission.
Verdict(i) ==
  IF tenantOf[i] # user THEN "rejected"
  ELSE IF stored[i] > 0 THEN "idempotent_replay" ELSE "accepted"

CheckRows(c) ==
  /\ phase[c] = "posting" /\ Cardinality(snap[c]) <= BatchLimit
  /\ answer' = [answer EXCEPT ![c] =
                 [i \in Items |-> IF i \in snap[c] THEN Verdict(i) ELSE "none"]]
  /\ Goto(c, "rows")
  /\ UNCHANGED <<browser, server, session, name, snap, todo, budget>>

Accepted(c) == {i \in Items : answer[c][i] = "accepted"}

\* The rows that the transaction of c leaves behind.
Inserted(c) ==
  stored' = [i \in Items |-> IF i \in Accepted(c) THEN stored[i] + 1
                                                  ELSE stored[i]]

\* COMMIT: the client_uuids are free, and the answer arrives.
InsertRows(c) ==
  /\ phase[c] = "rows"
  /\ \A i \in Accepted(c) : stored[i] = 0
  /\ Inserted(c)
  /\ todo' = [todo EXCEPT ![c] = snap[c]]
  /\ Goto(c, "answered")
  /\ UNCHANGED <<browser, status, session, name, snap, answer, budget>>

\* COMMIT, but the answer is lost and runSync throws.
LoseAnswer(c) ==
  /\ phase[c] = "rows"
  /\ \A i \in Accepted(c) : stored[i] = 0
  /\ Disturbance("fault")
  /\ Inserted(c)
  /\ Finish(c)
  /\ UNCHANGED <<browser, status, session>>

\* Another batch has committed one of them: the transaction rolls back whole.
Conflict(c) ==
  /\ phase[c] = "rows"
  /\ \E i \in Accepted(c) : stored[i] > 0
  /\ Finish(c)
  /\ UNCHANGED <<browser, server, session, budget>>

-----------------------------------------------------------------------------
\* Mutant: whatever was uploaded counts as done.
SyncedWhateverTheAnswer(c, i) ==
  /\ phase[c] \in {"rows", "answered"} /\ i \in snap[c]
  /\ MarkQueueStatus(i, "synced")
  /\ todo' = [todo EXCEPT ![c] = @ \ {i}]
  /\ UNCHANGED <<readable, device, server, session, phase, name, snap, answer,
                 budget>>

\* The status of each result, in IndexedDB.
RecordResult(c, i) ==
  /\ phase[c] = "answered" /\ i \in todo[c]
  /\ MarkQueueStatus(i, IF answer[c][i] = "rejected" THEN "rejected"
                                                   ELSE "synced")
  /\ todo' = [todo EXCEPT ![c] = @ \ {i}]
  /\ UNCHANGED <<readable, device, server, session, phase, name, snap, answer,
                 budget>>

\* POST sync/complete and setSyncMeta, with the device id of this sync.
Complete(c) ==
  /\ phase[c] = "answered" /\ todo[c] = {}
  /\ device' = name[c]
  /\ Finish(c)
  /\ UNCHANGED <<queue, readable, server, session, budget>>

-----------------------------------------------------------------------------
Upload(c) ==
  \/ RefuseBatch(c) \/ CheckRows(c) \/ InsertRows(c) \/ Conflict(c)
  \/ \E i \in Items : RecordResult(c, i)
  \/ Complete(c)

RunSync(c) ==
  \/ Begin(c) \/ (\E d \in Devices : DrawDeviceId(c, d))
  \/ Register(c) \/ CheckWipe(c) \/ Wipe(c) \/ AckWipe(c)
  \/ ListQueue(c) \/ (\E i \in Items : MarkSyncing(c, i)) \/ Decrypt(c)
  \/ Upload(c)

Next ==
  \/ \E i \in Items : SaveDraft(i)
  \/ \E t \in Tenants : SwitchUser(t)
  \/ \E t \in Tenants, d \in Devices : RequestWipe(t, d)
  \/ Reload
  \/ \E c \in Syncs : RunSync(c) \/ Fails(c) \/ LoseAnswer(c)

Spec == Init /\ [][Next]_vars

(* The officer syncs again and again, and a sync that is not failed by a   *)
(* request goes on.                                                        *)
FairSpec == Spec /\ \A c \in Syncs : WF_vars(RunSync(c))

-----------------------------------------------------------------------------
Statuses == {"none", "pending", "synced", "rejected"}
DeviceStatuses == {"none", "active", "wipe_pending", "wiped"}
Phases == {"idle", "naming", "begun", "registered", "wiping", "acking",
           "checked", "marking", "posting", "rows", "answered"}
Verdicts == {"none", "accepted", "idempotent_replay", "rejected"}

\* Type invariant; one row for a client_uuid, whoever sends it how often.
TypeOK ==
  /\ queue \in [Items -> Statuses] /\ readable \subseteq Items
  /\ device \in Devices \cup {NoDevice}
  /\ user \in Tenants /\ tenantOf \in [Items -> Tenants \cup {NoTenant}]
  /\ stored \in [Items -> 0 .. 1]
  /\ status \in [Tenants -> [Devices -> DeviceStatuses]]
  /\ phase \in [Syncs -> Phases]
  /\ name \in [Syncs -> Devices \cup {NoDevice}]
  /\ snap \in [Syncs -> SUBSET Items] /\ todo \in [Syncs -> SUBSET Items]
  /\ answer \in [Syncs -> [Items -> Verdicts]]
  /\ budget \in 0 .. MaxDisturbances

(* What the browser takes to be uploaded is in the database, although the  *)
(* results of two syncs are written one by one, answers are lost and a     *)
(* batch rolls back as a whole.                                            *)
SyncedIsStored == \A i \in Items : queue[i] = "synced" => stored[i] = 1

(* What a remote wipe has cleared stays cleared, also while another sync   *)
(* that has listed it goes on writing statuses.                            *)
WipedStaysWiped ==
  [][\A i \in Items :
       tenantOf[i] # NoTenant /\ queue[i] = "none" => queue'[i] = "none"]_vars

\* What keeps runSync from uploading anything at all.
Unreadable == \E i \in Pending : i \notin readable
Overfull == Cardinality(Pending) > BatchLimit

(* Every captured submission reaches the database again and again after    *)
(* every fault, unless it was wiped, or rejected under another user, or    *)
(* the queue is blocked by a key that is lost or by its own length.        *)
UploadedUnlessBlocked ==
  \A i \in Items :
    tenantOf[i] # NoTenant ~>
      \/ stored[i] = 1
      \/ queue[i] \in {"none", "rejected"}
      \/ Unreadable \/ Overfull
=============================================================================
