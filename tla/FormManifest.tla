---------------------------- MODULE FormManifest -----------------------------
(***************************************************************************)
(* How a published form reaches a device: forms, publish and sync/manifest *)
(* of field-data-service, runSync, pullAssignedForms and sync_meta of the  *)
(* frontend, for one browser in which several tabs may synchronise.        *)
(*                                                                         *)
(* A form is stamped with the start of the transaction that publishes it,  *)
(* the cursor of a device with the clock after the manifest was read: a    *)
(* publication that commits in between may be older than the cursor.  The  *)
(* service and the database are taken to agree on the time.                *)
(***************************************************************************)
EXTENDS Integers, FiniteSets

CONSTANTS Forms,       \* form_templates; each has one version
          Publishers,  \* publish requests that may be under way
          Tabs,        \* tabs of the browser, each with a runSync
          MaxClock,    \* bound: ticks of the clock
          NoForm       \* "no form"

VARIABLES
  clock,         \* now
  published_at,  \* published_at[f]: 0 while f is a draft
  form,          \* form[u]: the form that the request u publishes
  started,       \* started[u]: now() in its transaction
  overlapped,    \* did a manifest miss it that takes its cursor after that?
  cached,        \* forms in the store of the browser
  cursor,        \* sync_meta.cursor, 0 if there is none
  step,          \* step[c]: where the tab c is
  since,         \* since[c]: the cursor it sent
  found,         \* found[c]: the forms it was given
  drawn,         \* drawn[c]: the cursor it was given
  wipe_pending,  \* field_devices.status is wipe_pending
  missed,        \* forms last published behind the back of a manifest
  overtaken      \* has a wipe come between the steps of another tab's sync?

server == <<clock, published_at, form, started, overlapped, missed>>
browser == <<cached, cursor>>
sync == <<step, since, found, drawn>>
formVars == <<server, browser, sync, wipe_pending, overtaken>>

FormInit ==
  /\ clock = 0 /\ cursor = 0
  /\ published_at = [f \in Forms |-> 0]
  /\ form = [u \in Publishers |-> NoForm]
  /\ started = [u \in Publishers |-> 0]
  /\ overlapped = [u \in Publishers |-> FALSE]
  /\ cached = {} /\ missed = {}
  /\ step = [c \in Tabs |-> "idle"]
  /\ since = [c \in Tabs |-> 0]
  /\ found = [c \in Tabs |-> {}]
  /\ drawn = [c \in Tabs |-> 0]
  /\ wipe_pending = FALSE /\ overtaken = FALSE

-----------------------------------------------------------------------------
(* POST forms/:id/publish.                                                 *)
\* BEGIN: now() stays what it is here.
BeginPublish(u, f) ==
  /\ form[u] = NoForm /\ clock < MaxClock
  /\ clock' = clock + 1
  /\ form' = [form EXCEPT ![u] = f]
  /\ started' = [started EXCEPT ![u] = clock']
  /\ overlapped' = [overlapped EXCEPT ![u] = \E c \in Tabs : step[c] = "read"]
  /\ UNCHANGED <<published_at, missed, browser, sync, wipe_pending, overtaken>>

EndPublish(u) ==
  /\ form' = [form EXCEPT ![u] = NoForm]
  /\ started' = [started EXCEPT ![u] = 0]
  /\ overlapped' = [overlapped EXCEPT ![u] = FALSE]

\* The UPDATEs, which wait for another publication of f, and COMMIT; the one
\* that comes later need not be the one that began later.
CommitPublish(u) ==
  /\ form[u] # NoForm
  /\ published_at' = [published_at EXCEPT ![form[u]] = started[u]]
  /\ missed' = IF overlapped[u] THEN missed \cup {form[u]}
                                ELSE missed \ {form[u]}
  /\ EndPublish(u)
  /\ UNCHANGED <<clock, browser, sync, wipe_pending, overtaken>>

AbortPublish(u) ==
  /\ form[u] # NoForm /\ EndPublish(u)
  /\ UNCHANGED <<clock, published_at, missed, browser, sync, wipe_pending,
                 overtaken>>

-----------------------------------------------------------------------------
(* runSync.                                                                *)
Step(c, from, to) == step[c] = from /\ step' = [step EXCEPT ![c] = to]

End(c) ==
  /\ step' = [step EXCEPT ![c] = "idle"]
  /\ since' = [since EXCEPT ![c] = 0]
  /\ found' = [found EXCEPT ![c] = {}]
  /\ drawn' = [drawn EXCEPT ![c] = 0]

\* devices/:id/wipe
OrderWipe ==
  /\ ~wipe_pending /\ cached # {} /\ wipe_pending' = TRUE
  /\ UNCHANGED <<server, browser, sync, overtaken>>

\* devices/me asks for a wipe: the stores are cleared, sync_meta with them,
\* and the browser goes on under the id of a new device.
Wipe(c) ==
  /\ step[c] = "idle" /\ wipe_pending
  /\ cached' = {} /\ cursor' = 0 /\ wipe_pending' = FALSE
  /\ overtaken' = (overtaken \/ \E d \in Tabs : step[d] # "idle")
  /\ UNCHANGED <<server, sync>>

\* devices/me does not, or was not answered.
SendCursor(c) ==
  /\ Step(c, "idle", "sent")
  /\ since' = [since EXCEPT ![c] = cursor]
  /\ UNCHANGED <<server, browser, found, drawn, wipe_pending, overtaken>>

Newer(t) == {f \in Forms : published_at[f] > t}

\* The manifest's SELECT: it does not see publications that are under way.
ReadForms(c) ==
  /\ Step(c, "sent", "read")
  /\ found' = [found EXCEPT ![c] = Newer(since[c])]
  /\ since' = [since EXCEPT ![c] = 0]
  /\ overlapped' = [u \in Publishers |-> overlapped[u] \/ form[u] # NoForm]
  /\ UNCHANGED <<clock, published_at, form, started, missed, browser, drawn,
                 wipe_pending, overtaken>>

\* Mutant: the cursor is drawn from a clock that is ahead.
DrawCursorAhead(c) ==
  /\ Step(c, "read", "answered")
  /\ drawn' = [drawn EXCEPT ![c] = clock + 1]
  /\ UNCHANGED <<server, browser, since, found, wipe_pending, overtaken>>

\* new Date(), and the session is inserted.
DrawCursor(c) ==
  /\ Step(c, "read", "answered")
  /\ drawn' = [drawn EXCEPT ![c] = clock]
  /\ UNCHANGED <<server, browser, since, found, wipe_pending, overtaken>>

PutForms(c) ==
  /\ Step(c, "answered", "cached")
  /\ cached' = cached \cup found[c]
  /\ found' = [found EXCEPT ![c] = {}]
  /\ UNCHANGED <<server, cursor, since, drawn, wipe_pending, overtaken>>

\* Mutant: the cursor is kept before the forms are.
SetMetaEarly(c) ==
  /\ step[c] = "answered" /\ End(c)
  /\ cursor' = drawn[c]
  /\ UNCHANGED <<server, cached, wipe_pending, overtaken>>

\* The batch was uploaded and sync/complete has answered: setSyncMeta.
SetMeta(c) ==
  /\ step[c] = "cached" /\ End(c)
  /\ cursor' = drawn[c]
  /\ UNCHANGED <<server, cached, wipe_pending, overtaken>>

\* A request of the sync fails, or the tab is closed.
Fail(c) ==
  /\ step[c] # "idle" /\ End(c)
  /\ UNCHANGED <<server, browser, wipe_pending, overtaken>>

-----------------------------------------------------------------------------
(* pullAssignedForms: every form that is published, whatever the cursor.   *)
Pull(c) ==
  /\ Step(c, "idle", "pulled")
  /\ found' = [found EXCEPT ![c] = Newer(0)]
  /\ UNCHANGED <<server, browser, since, drawn, wipe_pending, overtaken>>

PutPulled(c) ==
  /\ step[c] = "pulled" /\ End(c)
  /\ cached' = cached \cup found[c]
  /\ UNCHANGED <<server, cursor, wipe_pending, overtaken>>

-----------------------------------------------------------------------------
FormNext ==
  \/ \E u \in Publishers :
       (\E f \in Forms : BeginPublish(u, f)) \/ CommitPublish(u) \/ AbortPublish(u)
  \/ OrderWipe
  \/ \E c \in Tabs :
       \/ Wipe(c) \/ SendCursor(c) \/ ReadForms(c) \/ DrawCursor(c)
       \/ PutForms(c) \/ SetMeta(c) \/ Fail(c) \/ Pull(c) \/ PutPulled(c)

-----------------------------------------------------------------------------
\* Type invariant.
FormTypeOK ==
  /\ clock \in 0 .. MaxClock /\ cursor \in 0 .. clock
  /\ published_at \in [Forms -> 0 .. clock]
  /\ form \in [Publishers -> Forms \cup {NoForm}]
  /\ started \in [Publishers -> 0 .. clock]
  /\ overlapped \in [Publishers -> BOOLEAN]
  /\ cached \subseteq Forms /\ missed \subseteq Forms
  /\ step \in [Tabs -> {"idle", "sent", "read", "answered", "cached", "pulled"}]
  /\ since \in [Tabs -> 0 .. clock] /\ drawn \in [Tabs -> 0 .. clock]
  /\ found \in [Tabs -> SUBSET Forms]
  /\ wipe_pending \in BOOLEAN /\ overtaken \in BOOLEAN

(* A published form that the browser has not got is one that its next      *)
(* manifest will name.  There are two exceptions: the publication          *)
(* overlapped a manifest, or a wipe came in the middle of another tab's    *)
(* sync, which then keeps its cursor although the store is empty.          *)
NothingMissed ==
  \A f \in Forms :
    published_at[f] > 0 /\ f \notin cached /\ published_at[f] <= cursor
      => f \in missed \/ overtaken
=============================================================================
