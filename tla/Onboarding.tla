----------------------------- MODULE Onboarding ------------------------------
(***************************************************************************)
(* Onboarding (hr-payroll-service, onboarding-routes): a checklist is made *)
(* for a new employee, its tasks are completed one by one, and whoever     *)
(* finds none of them pending concludes it and makes the employee active.  *)
(* Requests are READ COMMITTED transactions.  A step below that ends in    *)
(* COMMIT is also the update just before it: what it locks is released     *)
(* with it.                                                                *)
(***************************************************************************)
EXTENDS Integers, FiniteSets

CONSTANTS Hires,      \* employees
          Tasks,      \* task_defs of the template, never empty
          Helpers,    \* requests that may be under way at the same time
          Nobody      \* "no employee" and "no task"

VARIABLES
  employed,   \* employed[e]: the status of e in employees
  checklist,  \* checklist[e]: its status in onboarding_checklists, or "none"
  open,       \* open[e]: tasks of e whose status is pending
  doing,      \* doing[h]: what the request h is doing
  whom,       \* whom[h]: the employee it is about
  task,       \* task[h]: the task that it completes
  seen,       \* seen[h]: employed as h has read it, or "" for nothing
  fresh,      \* requests that have inserted the checklist
  finding,    \* finding[h]: how many tasks h has counted as pending
  crossed,    \* employees two of whose tasks were completed at the same time
  restarted   \* employees whose status was written from a stale reading

onboarding == <<employed, checklist, open>>
helpers == <<doing, whom, task, seen, fresh, finding>>

OnboardingInit ==
  /\ employed = [e \in Hires |-> "pending"]
  /\ checklist = [e \in Hires |-> "none"]
  /\ open = [e \in Hires |-> {}]
  /\ doing = [h \in Helpers |-> "idle"]
  /\ whom = [h \in Helpers |-> Nobody]
  /\ task = [h \in Helpers |-> Nobody]
  /\ seen = [h \in Helpers |-> ""]
  /\ fresh = {} /\ crossed = {} /\ restarted = {}
  /\ finding = [h \in Helpers |-> 0]

-----------------------------------------------------------------------------
Finish(h) ==
  /\ doing' = [doing EXCEPT ![h] = "idle"]
  /\ whom' = [whom EXCEPT ![h] = Nobody]
  /\ task' = [task EXCEPT ![h] = Nobody]
  /\ seen' = [seen EXCEPT ![h] = ""]
  /\ fresh' = fresh \ {h}
  /\ finding' = [finding EXCEPT ![h] = 0]

\* An error or a lost connection: ROLLBACK.
GiveUp(h) ==
  /\ doing[h] # "idle" /\ Finish(h)
  /\ UNCHANGED <<onboarding, crossed, restarted>>

\* The erasure of an employee (tenant-service) ends the employment.
Terminate(e) ==
  /\ employed' = [employed EXCEPT ![e] = "terminated"]
  /\ UNCHANGED <<checklist, open, helpers, crossed, restarted>>

-----------------------------------------------------------------------------
(* POST hr/onboarding/start.                                               *)
\* SELECT the employee; erased ones are not found.
BeginStart(h, e) ==
  /\ doing[h] = "idle" /\ employed[e] # "terminated"
  /\ doing' = [doing EXCEPT ![h] = "starting"]
  /\ whom' = [whom EXCEPT ![h] = e]
  /\ seen' = [seen EXCEPT ![h] = employed[e]]
  /\ UNCHANGED <<onboarding, task, fresh, finding, crossed, restarted>>

\* INSERT the checklist ON CONFLICT DO NOTHING, which waits for another
\* request that has inserted it; then the tasks, if it has none.
InsertChecklist(h) ==
  /\ doing[h] = "starting"
  /\ \A g \in fresh : whom[g] # whom[h]
  /\ doing' = [doing EXCEPT ![h] = "inserted"]
  /\ fresh' = IF checklist[whom[h]] = "none" THEN fresh \cup {h} ELSE fresh
  /\ UNCHANGED <<onboarding, whom, task, seen, finding, crossed, restarted>>

\* UPDATE employees SET status = 'pending' WHERE id = $1, if it was pending
\* when it was read, and COMMIT.
CommitStart(h) ==
  LET e == whom[h]
      again == seen[h] = "pending"
  IN /\ doing[h] = "inserted"
     /\ employed' = [employed EXCEPT ![e] = IF again THEN "pending" ELSE @]
     /\ restarted' = IF again /\ employed[e] # "pending"
                     THEN restarted \cup {e} ELSE restarted
     /\ checklist' = [checklist EXCEPT ![e] = IF h \in fresh THEN "in_progress"
                                                             ELSE @]
     /\ open' = [open EXCEPT ![e] = IF h \in fresh THEN Tasks ELSE @]
     /\ Finish(h)
     /\ UNCHANGED crossed

-----------------------------------------------------------------------------
(* POST hr/onboarding/tasks/:taskId/complete.                              *)
\* UPDATE ... WHERE id = $1 AND status = 'pending', which waits for another
\* request that has updated the task, and then finds it done.
UpdateTask(h, e, t) ==
  /\ doing[h] = "idle" /\ t \in open[e]
  /\ \A g \in Helpers : whom[g] = e => task[g] # t
  /\ doing' = [doing EXCEPT ![h] = "updated"]
  /\ whom' = [whom EXCEPT ![h] = e]
  /\ task' = [task EXCEPT ![h] = t]
  /\ UNCHANGED <<onboarding, seen, fresh, finding, crossed, restarted>>

\* Do other requests complete tasks of the same employee, not yet committed?
Beside(h) ==
  {g \in Helpers \ {h} : whom[g] = whom[h] /\ task[g] # Nobody} # {}

Count(h, pending) ==
  /\ doing[h] = "updated"
  /\ doing' = [doing EXCEPT ![h] = "counted"]
  /\ finding' = [finding EXCEPT ![h] = Cardinality(pending)]
  /\ crossed' = IF Beside(h) THEN crossed \cup {whom[h]} ELSE crossed
  /\ UNCHANGED <<onboarding, whom, task, seen, fresh, restarted>>

\* Mutant: the task that is being completed is counted as well.
CountAll(h) == Count(h, open[whom[h]])

\* SELECT count(*): a request sees its own update and no other uncommitted one.
CountPending(h) == Count(h, open[whom[h]] \ {task[h]})

\* If nothing is pending: UPDATE the checklist, and the employee WHERE status
\* = 'pending'.  COMMIT.
CommitTask(h) ==
  LET e == whom[h]
  IN /\ doing[h] = "counted"
     /\ open' = [open EXCEPT ![e] = @ \ {task[h]}]
     /\ checklist' = [checklist EXCEPT ![e] = IF finding[h] = 0 THEN "completed"
                                                                ELSE @]
     /\ employed' = [employed EXCEPT ![e] = IF finding[h] = 0 /\ @ = "pending"
                                            THEN "active" ELSE @]
     /\ Finish(h)
     /\ UNCHANGED <<crossed, restarted>>

-----------------------------------------------------------------------------
OnboardingNext ==
  \/ \E e \in Hires : Terminate(e)
  \/ \E h \in Helpers :
       \/ \E e \in Hires :
            BeginStart(h, e) \/ \E t \in Tasks : UpdateTask(h, e, t)
       \/ InsertChecklist(h) \/ CommitStart(h)
       \/ CountPending(h) \/ CommitTask(h)
       \/ GiveUp(h)

-----------------------------------------------------------------------------
\* Type invariant.
OnboardingTypeOK ==
  /\ employed \in [Hires -> {"pending", "active", "terminated"}]
  /\ checklist \in [Hires -> {"none", "in_progress", "completed"}]
  /\ open \in [Hires -> SUBSET Tasks]
  /\ doing \in [Helpers -> {"idle", "starting", "inserted", "updated",
                            "counted"}]
  /\ whom \in [Helpers -> Hires \cup {Nobody}]
  /\ task \in [Helpers -> Tasks \cup {Nobody}]
  /\ seen \in [Helpers -> {"", "pending", "active"}]
  /\ fresh \subseteq Helpers
  /\ finding \in [Helpers -> 0..Cardinality(Tasks)]
  /\ crossed \subseteq Hires /\ restarted \subseteq Hires

(* A checklist is concluded when none of its tasks is pending, and then    *)
(* the employee is pending no more.  The exceptions are two requests that  *)
(* completed tasks at the same time, of which each may have counted the    *)
(* other's (the checklist is then never concluded), and a second start     *)
(* that wrote back the status it had read before the conclusion.           *)
ChecklistConcluded ==
  \A e \in Hires :
    /\ checklist[e] = "completed" => open[e] = {}
    /\ checklist[e] = "in_progress" /\ open[e] = {} => e \in crossed
    /\ checklist[e] = "completed" /\ employed[e] = "pending" => e \in restarted
=============================================================================
