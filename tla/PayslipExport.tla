---------------------------- MODULE PayslipExport ----------------------------
(***************************************************************************)
(* Payslips of a payroll run as files (reporting-service routes.ts).  One  *)
(* transaction at READ COMMITTED reads the run, its records, and the lines *)
(* of each record in a statement of its own; it writes the files to disk,  *)
(* which a rollback does not undo, and inserts the rows that name them.    *)
(* Calculations of the run commit in between: each deletes the records of  *)
(* the one before, and their lines with them.                              *)
(***************************************************************************)
EXTENDS Naturals, FiniteSets

CONSTANTS
  Headcount,        \* records of a calculation, in the order of the numbers
  Exports,          \* requests that may overlap
  Formats,          \* a request may ask for any of them
  MaxCalculations

VARIABLES
  run,        \* the status of the run, and the number of its last calculation
  under_way,  \* calculations that have passed the check of the status
  job,        \* job[x]: the row in report_jobs, once it is committed
  artifacts,  \* committed rows of report_artifacts: <<x, format>>
  onDisk,     \* files: <<x, format>>
  stage,      \* stage[x]: the statement that request x has completed last
  wanted,     \* wanted[x]: the formats it asks for
  listed,     \* listed[x]: the calculation whose records it has listed
  itemised,   \* itemised[x]: for each record read so far, whether it had lines
  final       \* requests that found it submitted or approved, and no calculation

requests == <<job, artifacts, onDisk, stage, wanted, listed, itemised, final>>
exportVars == <<run, under_way, requests>>

Paid == 1..Headcount
Exportable == {"computed", "pending_approval", "approved"}

ExportInit ==
  /\ run = [status |-> "draft", calculation |-> 0] /\ under_way = 0
  /\ job = [x \in Exports |-> "none"]
  /\ artifacts = {} /\ onDisk = {} /\ final = {}
  /\ stage = [x \in Exports |-> "idle"]
  /\ wanted = [x \in Exports |-> {}]
  /\ listed = [x \in Exports |-> 0]
  /\ itemised = [x \in Exports |-> <<>>]

Advance(x, from, to) == stage[x] = from /\ stage' = [stage EXCEPT ![x] = to]
-----------------------------------------------------------------------------
\* A calculation reads the status of the run, without locking it.
BeginCalculation ==
  /\ run.status \in {"draft", "computed"}
  /\ run.calculation + under_way < MaxCalculations
  /\ under_way' = under_way + 1
  /\ UNCHANGED <<run, requests>>

\* It commits, whatever has become of the run.
Calculate ==
  /\ under_way > 0 /\ under_way' = under_way - 1
  /\ run' = [status |-> "computed", calculation |-> run.calculation + 1]
  /\ UNCHANGED requests

\* It fails, and leaves nothing.
GiveUp == under_way > 0 /\ under_way' = under_way - 1 /\ UNCHANGED <<run, requests>>

\* The run is submitted, then approved.
Decide ==
  /\ run.status \in {"computed", "pending_approval"}
  /\ run' = [run EXCEPT !.status = IF @ = "computed" THEN "pending_approval" ELSE "approved"]
  /\ UNCHANGED <<under_way, requests>>
-----------------------------------------------------------------------------
\* POST reporting/payslips: the job is inserted as running, and the run is read,
\* which must have been calculated.
ReadRun(x) ==
  /\ job[x] = "none" /\ run.status \in Exportable
  /\ Advance(x, "idle", "checked")
  /\ \E formats \in SUBSET Formats : wanted' = [wanted EXCEPT ![x] = formats]
  /\ final' = IF run.status = "computed" \/ under_way > 0 THEN final ELSE final \cup {x}
  /\ UNCHANGED <<run, under_way, job, artifacts, onDisk, listed, itemised>>

ListRecords(x) ==
  /\ Advance(x, "checked", "listed")
  /\ listed' = [listed EXCEPT ![x] = run.calculation]
  /\ UNCHANGED <<run, under_way, job, artifacts, onDisk, wanted, itemised, final>>

\* The lines of the next record: none, if it has been deleted since.
ReadLines(x) ==
  /\ stage[x] = "listed" /\ Cardinality(DOMAIN itemised[x]) < Headcount
  /\ itemised' = [itemised EXCEPT ![x] =
       [e \in 1 .. Cardinality(DOMAIN @) + 1 |->
          IF e \in DOMAIN @ THEN @[e] ELSE listed[x] = run.calculation]]
  /\ UNCHANGED <<run, under_way, job, artifacts, onDisk, stage, wanted, listed, final>>

\* writeFile, then INSERT INTO report_artifacts, format by format.
WriteFile(x, f) ==
  /\ stage[x] = "listed" /\ DOMAIN itemised[x] = Paid
  /\ f \in wanted[x] /\ <<x, f>> \notin onDisk
  /\ onDisk' = onDisk \cup {<<x, f>>}
  /\ UNCHANGED <<run, under_way, job, artifacts, stage, wanted, listed, itemised, final>>

\* The job is completed, and everything is committed.
Complete(x) ==
  /\ DOMAIN itemised[x] = Paid
  /\ \A f \in wanted[x] : <<x, f>> \in onDisk
  /\ Advance(x, "listed", "over")
  /\ job' = [job EXCEPT ![x] = "completed"]
  /\ artifacts' = artifacts \cup {<<x, f>> : f \in wanted[x]}
  /\ UNCHANGED <<run, under_way, onDisk, wanted, listed, itemised, final>>

\* An error or a crash at any statement: the job is set to failed, and the error
\* goes on to withTenant, which rolls all of it back.
Abort(x) ==
  /\ stage[x] \in {"checked", "listed"}
  /\ Advance(x, stage[x], "over")
  /\ UNCHANGED <<run, under_way, job, artifacts, onDisk, wanted, listed, itemised, final>>

\* GET .../download serves what a completed job names and the disk has.
Served(x, f) == job[x] = "completed" /\ <<x, f>> \in artifacts \cap onDisk

ExportNext ==
  \/ BeginCalculation \/ Calculate \/ GiveUp \/ Decide
  \/ \E x \in Exports :
       \/ ReadRun(x) \/ ListRecords(x) \/ ReadLines(x)
       \/ \E f \in Formats : WriteFile(x, f)
       \/ Complete(x) \/ Abort(x)
-----------------------------------------------------------------------------
ExportTypeOK ==
  /\ run \in [status : Exportable \cup {"draft"}, calculation : 0..MaxCalculations]
  /\ under_way \in 0..MaxCalculations
  /\ job \in [Exports -> {"none", "completed"}]
  /\ artifacts \cup onDisk \subseteq Exports \X Formats /\ final \subseteq Exports
  /\ stage \in [Exports -> {"idle", "checked", "listed", "over"}]
  /\ \A x \in Exports :
       /\ wanted[x] \subseteq Formats /\ listed[x] \in 0..MaxCalculations
       /\ \A e \in DOMAIN itemised[x] : itemised[x][e] \in BOOLEAN

\* A completed job has a payslip of everybody in each format, and can be
\* downloaded.  A payslip that lacks its lines comes after all that have theirs,
\* and only in the export of a run that has been calculated anew since; not if
\* the run had been submitted when it was read and no calculation was under way
\* (routes.ts:104-163).
PayslipsWhole ==
  \A x \in Exports :
    /\ job[x] = "completed" =>
         DOMAIN itemised[x] = Paid /\ \A f \in wanted[x] : Served(x, f)
    /\ \A d, e \in DOMAIN itemised[x] : d < e /\ itemised[x][e] => itemised[x][d]
    /\ \A e \in DOMAIN itemised[x] : ~itemised[x][e] => listed[x] < run.calculation
    /\ x \in final =>
         /\ \A e \in DOMAIN itemised[x] : itemised[x][e]
         /\ listed[x] \in {0, run.calculation}
=============================================================================
