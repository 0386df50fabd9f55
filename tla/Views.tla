------------------------------- MODULE Views ---------------------------------
(***************************************************************************)
(* The views of the browser that list what the server has and change it    *)
(* (views/*.vue).  Each is a table of the handlers behind its buttons: the *)
(* requests a handler makes one after the other, what disables its button, *)
(* and what it does with busy, error and the selection.  The handlers are  *)
(* asynchronous: between two requests of one, others begin and go on.      *)
(*                                                                         *)
(* The server is a number per subject, the changes made to it so far, and  *)
(* what a pane shows is the number it was read at.  Requests of one        *)
(* Promise.all, or of one load, are one request.                           *)
(***************************************************************************)
EXTENDS Naturals, Sequences

CONSTANTS
  Subjects,     \* grants, subscriptions or texts that can be selected
  Slots,        \* handlers that can be under way, numbers
  MaxClicks,
  NoSubject, All

VARIABLES
  view,
  version,      \* at the server, of the list and of each subject
  acked,        \* the version after the last change that was acknowledged
  busy, loading,
  error,        \* is shown
  selected,     \* the route's grant, or the row that was chosen
  shown,        \* pane -> what it was last given
  tasks,        \* slot -> handler under way, or Idle
  clicks,
  doubled,      \* two changes were under way at once
  overlapped,   \* two requests for one pane were
  unheard,      \* a failure was shown to nobody
  cleared       \* an error was taken away and the panes not read again

ASSUME ViewsAssumption ==
  /\ Subjects # {} /\ Slots \subseteq Nat /\ 1 \in Slots /\ MaxClicks \in Nat
  /\ All \notin Subjects \cup {"one", "both", "rates", "any", "selected"}
  /\ NoSubject \notin Subjects \cup {All, "any", "selected"}

viewVars == <<view, version, acked, busy, loading, error, selected, shown,
              tasks, clicks, doubled, overlapped, unheard, cleared>>
-----------------------------------------------------------------------------
(* A request: a change or a read, of the list, of the subject or of both.  *)
(* own: the read is a load() with its own try, which shows its error and   *)
(* lets its caller go on; picks: when answered, the subject is selected;   *)
(* again: it is about what is selected when it is made.                    *)

Post(of) == [do |-> "post", of |-> of, panes |-> {}, own |-> FALSE,
             picks |-> FALSE, again |-> FALSE]
Read(of, panes) == [Post(of) EXCEPT !.do = "read", !.panes = panes]
Load(of) == [Read(of, {1}) EXCEPT !.own = TRUE]
Picks(request) == [request EXCEPT !.picks = TRUE]

(* A handler: its requests; what its button is disabled or hidden by; if   *)
(* it sets busy, takes away the error first, and catches; whom it is       *)
(* about: the list, what is selected, or any row; and what is selected     *)
(* when it begins.                                                         *)
Handler(requests, off, sets, about) ==
  [requests |-> requests, off |-> off, sets |-> sets, about |-> about]

\* Mutant: the list is not read again after a change.
ChangeUnread(off, sets) == Handler(<<Post(All)>>, off, sets, All)

Change(off, sets) == Handler(<<Post(All), Load(All)>>, off, sets, All)
Refresh(off) == Handler(<<Load(All)>>, off, {}, All)
Mount == Refresh({})
-----------------------------------------------------------------------------
\* The buttons of a row go while the rows load.
PayrollRow == {"busy", "loading"}
PayrollView ==
  [mount |-> Mount, refresh |-> Refresh({"loading"}),
   createRun |-> Change({"busy"}, {"busy", "clears"}),
   calculate |-> Change(PayrollRow, {"busy"}),
   submitRun |-> Change(PayrollRow, {"busy"}),
   confirmApprove |-> Change(PayrollRow, {"busy"}),
   refreshFx |-> Handler(<<Post("rates")>>, {"busy"}, {"busy", "clears"}, All),
   exportPayslips |-> Handler(<<Read(All, {})>>, PayrollRow, {"busy", "clears"}, All)]

\* All tabs go while anything loads.
FinanceTab == {"busy", "loading"}
FinanceView ==
  [mount |-> Mount, refresh |-> Refresh({"loading"}),
   createCoa |-> Change(FinanceTab, {"busy", "clears"}),
   createExpense |-> Change(FinanceTab, {"busy", "clears"}),
   submitExpense |-> Change(FinanceTab, {"busy"}),
   approveExpense |-> Change(FinanceTab, {"busy"})]

\* The form and the accrual stay, the requests go while anything loads.
LeaveForm == {"busy"}
LeaveRow == LeaveForm \cup {"loading"}
LeaveView ==
  [mount |-> Mount, refresh |-> Refresh({"loading"}),
   createRequest |-> Change(LeaveForm, {"busy", "clears"}),
   approve |-> Change(LeaveRow, {"busy"}),
   runAccrue |-> Change(LeaveForm, {"busy", "clears"})]

\* The employee, and then the contract.
EmployeesView ==
  [mount |-> Mount, refresh |-> Refresh({"loading"}),
   createEmployee |-> Handler(<<Post(All), Post(All), Load(All)>>, {"busy"},
                              {"busy", "clears"}, All)]

\* No button here waits for anything.
GrantsView ==
  [mount |-> Mount, refresh |-> Refresh({}), createGrant |-> Change({}, {"clears"})]

\* The panels go while the grant loads, and wait for nothing else; the route
\* may change at any time.
GrantPanels == {"loading"}
GrantDetailView ==
  LET of(requests) == Handler(requests, GrantPanels, {"clears"}, "selected")
      \* load() takes the grant of the route as it is by then
      change == of(<<Post("one"), [Load("one") EXCEPT !.again = TRUE]>>)
  IN  [mount |-> Handler(<<Load("one")>>, {}, {"first"}, "any"),
       switch |-> Handler(<<Load("one")>>, {}, {"first"}, "any"),
       createDisbursement |-> change, submitDisbursement |-> change,
       approveDisbursement |-> change, uploadFile |-> change,
       downloadFile |-> of(<<Read("one", {})>>)]

\* The range of dates can be submitted while one is read.
ReportsView ==
  [mount |-> Mount, refresh |-> Refresh({"loading"}), range |-> Refresh({})]

IntelligenceView ==
  [mount |-> Handler(<<Load(All)>>, {}, {"busy"}, All),
   refresh |-> Change({"busy"}, {"busy"})]

ComplianceView ==
  LET score == Read(All, {1})
      publications == Read(All, {2})
  IN  [mount |-> Handler(<<score, publications>>, {}, {}, All),
       publishIati |-> Handler(<<Post(All), score, publications>>, {"busy"},
                               {"busy", "clears"}, All)]

\* The local store is what changes here; the forms are pane 1, the queue 2.
FieldView ==
  LET both == Read(All, {1, 2})
  IN  [mount |-> Handler(<<both>>, {}, {"uncaught"}, All),
       pull |-> Handler(<<Read(All, {1})>>, {"busy"}, {"busy", "clears"}, All),
       queueLocal |-> Handler(<<Post(All), both>>, {"busy"}, {"busy", "clears"}, All),
       syncNow |-> Handler(<<Post(All), both>>, {"busy"}, {"busy", "clears"}, All)]

WebhooksView ==
  LET list == Read(All, {1})
      deliveries == Read("one", {2})
  IN  [mount |-> Handler(<<list>>, {}, {}, All),
       create |-> Handler(<<Post(All), list>>, {"busy"}, {"busy", "clears"}, All),
       disable |-> Handler(<<Post(All), list>>, {"busy"}, {"busy"}, All),
       sendTest |-> Handler(<<Picks(Post("one")), deliveries>>, {"busy"},
                            {"busy", "clears"}, "any"),
       showDeliveries |-> Handler(<<deliveries>>, {"busy"}, {"uncaught", "first"}, "any")]

AiInsightsView ==
  LET list == Read(All, {1})
      one == Picks(Read("one", {2}))
  IN  [mount |-> Handler(<<list>>, {}, {}, All),
       generate |-> Handler(<<[Picks(Post("both")) EXCEPT !.panes = {2}], list>>,
                            {"busy"}, {"busy", "clears"}, "any"),
       open |-> Handler(<<one>>, {}, {"uncaught"}, "any"),
       closeSelected |-> Handler(<<>>, {}, {"first"}, NoSubject),
       approve |-> Handler(<<Post("both"), list, [one EXCEPT !.again = TRUE]>>,
                           {"busy"}, {"busy", "clears"}, "selected")]

TrainingView == [mount |-> Mount]
NotificationsView == [mount |-> Mount]
\* What fails is left out.
HomeView == [mount |-> Handler(<<Load(All)>>, {}, {"uncaught"}, All)]

Handlers ==
  [payroll |-> PayrollView, finance |-> FinanceView, leave |-> LeaveView,
   employees |-> EmployeesView, grants |-> GrantsView, grant |-> GrantDetailView,
   reports |-> ReportsView, intelligence |-> IntelligenceView,
   compliance |-> ComplianceView, field |-> FieldView, webhooks |-> WebhooksView,
   insights |-> AiInsightsView, training |-> TrainingView,
   notifications |-> NotificationsView, home |-> HomeView]
views == DOMAIN Handlers

\* The panes of a view, and whether they are of the list or of what is selected.
Panes(v) ==
  [p \in IF v \in {"webhooks", "insights", "compliance", "field"} THEN {1, 2} ELSE {1} |->
     IF v = "grant" \/ (p = 2 /\ v \in {"webhooks", "insights"}) THEN "one" ELSE All]
-----------------------------------------------------------------------------
Idle == [name |-> "idle", at |-> 0, subject |-> NoSubject, got |-> 0]
\* What a change is of; nothing, if no pane shows it.
Scope(of, s) ==
  {o \in {All, s} : of = "both" \/ (of = All /\ o = All) \/ (of = "one" /\ o = s)}
Running(k) == tasks[k] # Idle
HandlerOf(t) == Handlers[view][t.name]
Asking(t) == HandlerOf(t).requests[t.at]
What(t) == IF Asking(t).of = All THEN All ELSE t.subject
Quiet == \A k \in Slots : ~Running(k)

Stop(k, h, err, load) ==
  /\ tasks' = [tasks EXCEPT ![k] = Idle]
  /\ busy' = (busy /\ "busy" \notin h.sets) /\ error' = err /\ loading' = load
  /\ UNCHANGED <<doubled, overlapped>>

\* Request i of the handler in slot k is made, for s.
Ask(k, name, i, s, err, load) ==
  LET h == Handlers[view][name]
      request == h.requests[i]
      others == {Asking(tasks[j]) : j \in {j \in Slots \ {k} : Running(j)}}
  IN  /\ tasks' = [tasks EXCEPT ![k] = [name |-> name, at |-> i, subject |-> s, got |-> 0]]
      /\ busy' = (busy \/ "busy" \in h.sets)
      /\ error' = (err /\ ~request.own) /\ loading' = (load \/ request.own)
      /\ doubled' = (doubled \/ (request.do = "post" /\ \E r \in others : r.do = "post"))
      /\ overlapped' = (overlapped \/ \E r \in others : r.panes \cap request.panes # {})

\* The next request is made, for s or for what is chosen, unless nothing is; or
\* the handler has come to its end.
Make(k, name, i, s, chosen, err, load) ==
  LET h == Handlers[view][name]
      about == IF h.requests[i].again THEN chosen ELSE s
  IN  IF i > Len(h.requests) THEN Stop(k, h, err, load)
      ELSE IF about = NoSubject THEN Stop(k, h, TRUE, load)
      ELSE Ask(k, name, i, about, err, load)
-----------------------------------------------------------------------------
ViewsInit ==
  /\ view \in views
  /\ version = [s \in Subjects \cup {All} |-> 1] /\ acked = version
  /\ selected = (IF view = "grant" THEN CHOOSE s \in Subjects : TRUE ELSE NoSubject)
  /\ shown = [p \in {1, 2} |-> [subject |-> NoSubject, version |-> 0]]
  /\ tasks = [k \in Slots |->
       IF k = 1 THEN [name |-> "mount", at |-> 1, got |-> 0,
                      subject |-> IF view = "grant" THEN selected ELSE All]
       ELSE Idle]
  /\ busy = ("busy" \in Handlers[view].mount.sets)
  /\ loading = Handlers[view].mount.requests[1].own /\ error = FALSE
  /\ clicks = 0
  /\ doubled = FALSE /\ overlapped = FALSE /\ unheard = FALSE /\ cleared = FALSE

Able(h) == ("busy" \in h.off => ~busy) /\ ("loading" \in h.off => ~loading)
About(h) ==
  IF h.about = "any" THEN Subjects
  ELSE IF h.about = "selected" THEN {selected} \ {NoSubject} ELSE {h.about}
Rereads(h) == UNION {h.requests[i].panes : i \in DOMAIN h.requests}

Click(k, name, s) ==
  LET h == Handlers[view][name]
      chosen == IF "first" \in h.sets THEN s ELSE selected
  IN  /\ name # "mount" /\ clicks < MaxClicks
      /\ ~Running(k) /\ \A j \in Slots : j < k => Running(j)
      /\ Able(h) /\ s \in About(h)
      /\ name = "switch" => s # selected
      /\ clicks' = clicks + 1
      /\ selected' = chosen
      /\ Make(k, name, 1, s, chosen, error /\ "clears" \notin h.sets, loading)
      /\ cleared' = (cleared \/ (error /\ "clears" \in h.sets /\
                       ~ DOMAIN Panes(view) \subseteq Rereads(h)))
      /\ UNCHANGED <<view, version, acked, shown, unheard>>

\* The answer, or the failure, lets the handler go on.
GoOn(k, chosen, failed) ==
  LET t == tasks[k]
      h == HandlerOf(t)
      request == Asking(t)
      load == loading /\ ~request.own
      err == error \/ (failed /\ "uncaught" \notin h.sets)
  IN  /\ unheard' = (unheard \/ (failed /\ "uncaught" \in h.sets))
      /\ Make(k, t.name, IF failed /\ ~request.own THEN Len(h.requests) + 1 ELSE t.at + 1,
              t.subject, chosen, err, load)

Done(k) ==
  LET t == tasks[k]
      request == Asking(t)
      new == [o \in DOMAIN version |->
                IF o \in Scope(request.of, t.subject) THEN version[o] + 1 ELSE version[o]]
  IN  /\ Running(k) /\ request.do = "post"
      /\ version' = new
      /\ acked' = [o \in DOMAIN acked |->
                     IF o \in Scope(request.of, t.subject) THEN new[o] ELSE acked[o]]
      /\ selected' = (IF request.picks THEN t.subject ELSE selected)
      /\ shown' = [p \in DOMAIN shown |->
                     IF p \in request.panes THEN [subject |-> t.subject, version |-> new[t.subject]]
                     ELSE shown[p]]
      /\ GoOn(k, selected', FALSE)
      /\ UNCHANGED <<view, clicks, cleared>>

\* The request is refused, or the answer to what was done is lost.
Fails(k, done) ==
  LET t == tasks[k]
  IN  /\ Running(k)
      /\ done => Asking(t).do = "post"
      /\ version' = [o \in DOMAIN version |->
                       IF done /\ o \in Scope(Asking(t).of, t.subject)
                       THEN version[o] + 1 ELSE version[o]]
      /\ GoOn(k, selected, TRUE)
      /\ UNCHANGED <<view, acked, selected, shown, clicks, cleared>>

\* The server reads; the answer is under way.
Serve(k) ==
  LET t == tasks[k]
  IN  /\ Running(k) /\ Asking(t).do = "read" /\ t.got = 0
      /\ tasks' = [tasks EXCEPT ![k].got =
                     version[What(t)]]
      /\ UNCHANGED <<view, version, acked, busy, loading, error, selected, shown,
                     clicks, doubled, overlapped, unheard, cleared>>

Answer(k) ==
  LET t == tasks[k]
  IN  /\ Running(k) /\ Asking(t).do = "read" /\ t.got > 0
      /\ shown' = [p \in DOMAIN shown |->
                     IF p \in Asking(t).panes
                     THEN [subject |-> What(t), version |-> t.got] ELSE shown[p]]
      /\ selected' = (IF Asking(t).picks THEN t.subject ELSE selected)
      /\ GoOn(k, selected', FALSE)
      /\ UNCHANGED <<view, version, acked, clicks, cleared>>

ViewsNext ==
  \E k \in Slots :
    \/ \E name \in DOMAIN Handlers[view] : \E s \in About(Handlers[view][name]) :
         Click(k, name, s)
    \/ Done(k) \/ Serve(k) \/ Answer(k)
    \/ \E done \in BOOLEAN : Fails(k, done)
-----------------------------------------------------------------------------
ViewsTypeOK ==
  /\ view \in views
  /\ selected \in Subjects \cup {NoSubject}
  /\ clicks \in 0..MaxClicks
  /\ \A o \in DOMAIN version : acked[o] <= version[o]
  /\ {busy, loading, error, doubled, overlapped, unheard, cleared} \subseteq BOOLEAN
  /\ \A k \in Slots : Running(k) => tasks[k].at \in DOMAIN HandlerOf(tasks[k]).requests

\* The buttons of these views wait until the last change is answered.
Waiting == views \ {"grants", "grant"}

\* When no handler is under way and no error is shown, what is shown is what is
\* selected, and no older than the last change that was acknowledged, unless
\* two requests for a pane overlapped (their answers may come in either order), a failure was
\* not caught (WebhooksView.vue:100, AiInsightsView.vue:53) or its message was
\* taken away by a handler that reads nothing (PayrollView.vue:128).  A click
\* changes the server once, but in the two views without busy
\* (GrantDetailView.vue:122, GrantsView.vue:74), where two clicks change it twice.
ViewsAgree ==
  /\ Quiet /\ ~error /\ ~overlapped /\ ~unheard /\ ~cleared =>
       \A p \in DOMAIN Panes(view) :
         LET s == IF Panes(view)[p] = All THEN All ELSE selected
         IN  s # NoSubject => shown[p].subject = s /\ shown[p].version >= acked[s]
  /\ view \in Waiting => ~doubled
  /\ Quiet => ~busy /\ ~loading
=============================================================================
