------------------------------ MODULE Seeding -------------------------------
(***************************************************************************)
(* Bringing a database up (packages/db): migrate.ts applies the files of   *)
(* its release in order, each in a transaction with its own row in         *)
(* schema_migrations and without a lock between two runs of it; seed.ts    *)
(* then writes its rows block by block.  Either can be cut off between any *)
(* two statements it awaits, and be started again.  Rows that are always   *)
(* written together and alike are one name.                                *)
(***************************************************************************)
EXTENDS Naturals, Sequences, FiniteSets

CONSTANTS
  Runners,      \* processes of migrate.ts that may overlap
  MaxFiles,     \* migrations of the latest release
  MaxRuns       \* bound of the runs of seed.ts

VARIABLES
  release,      \* the files on disk are 1..release
  applied,      \* schema_migrations
  effects,      \* how often each migration has taken effect
  runner,       \* of each run: the files it listed, the next, and what it found
  rows,         \* of each row: how many there are, and whose the first is
  runs,         \* runs of seed.ts begun
  block,        \* the block the seed is at, or 0
  commits,      \* how often each block was committed
  complete      \* a run of the seed came to its end

seedVars ==
  <<release, applied, effects, runner, rows, runs, block, commits, complete>>
migrating == <<release, applied, effects, runner>>
-----------------------------------------------------------------------------
\* A row is kept if its key is there already (ON CONFLICT DO NOTHING, WHERE NOT
\* EXISTS), which for a user sets the role and the password back to the seed's
\* (DO UPDATE), or it is added once more; it refers by a fixed id to the rows it
\* needs.
Keep(names, needs) == [name : names, way : {"keep"}, needs : {needs}]
Add(names, needs) == [name : names, way : {"add"}, needs : {needs}]

Tenant(t) == Keep({t}, {})
DesignPartner ==
  Keep({"entitlements", "flags"}, {"A"}) \cup Keep({"admin", "finance", "hr"}, {"A"})
  \cup Keep({"grant"}, {"A"}) \cup Keep({"budget"}, {"grant"})
OtherNgo == Keep({"other grant"}, {"other"})
PartnerB ==
  Keep({"admin B"}, {"B"}) \cup Keep({"grant B"}, {"B"}) \cup Keep({"budget B"}, {"grant B"})
Workforce ==
  Keep({"department", "leave type", "onboarding", "quota", "account"}, {"A"})
  \cup Keep({"employee", "position"}, {"department"}) \cup Keep({"contract"}, {"employee"})
FieldWork ==
  Keep({"programme", "form"}, {"A"}) \cup Keep({"version", "assignment"}, {"form"})
  \cup Keep({"fields"}, {"version"})
Training ==
  Keep({"course"}, {"A"}) \cup Keep({"course version", "rule"}, {"course"})
  \cup Keep({"module", "assessment"}, {"course version"}) \cup Keep({"lesson"}, {"module"})
  \cup Keep({"question"}, {"assessment"}) \cup Keep({"options"}, {"question"})
Templates == Keep({"templates"}, {"A"})
Intelligence ==
  Keep({"kpis", "dashboard", "indicator", "ai settings", "prompt"}, {"A"})
  \cup Add({"indicator value", "kpi snapshots"}, {"A"})
Synthetic ==
  Keep({"entitlements S", "quota S"}, {"S"}) \cup Keep({"admin S"}, {"S"})
Quotas == Keep({"other quotas"}, {"other", "B"})

\* What is committed together, in the order of the program; a payroll schema is
\* provisioned by a call of its own, and replaced by the next.
Blocks ==
  <<Tenant("A"), DesignPartner, Tenant("other"), OtherNgo, Tenant("B"), PartnerB,
    Keep({"schema"}, {"A"}), Workforce \cup FieldWork \cup Training \cup Templates \cup Intelligence,
    Tenant("S"), Synthetic, Keep({"schema S"}, {"S"}), Quotas>>
AllRows == UNION {Blocks[b] : b \in DOMAIN Blocks}
Names == {row.name : row \in AllRows}

\* Rows whose key a user of the tenant may have taken with a row of their own.
Taken == {"department", "programme", "form", "course"}

SeedingInit ==
  /\ release = MaxFiles - 1
  /\ applied = {} /\ effects = [m \in 1..MaxFiles |-> 0]
  /\ runner = [r \in Runners |-> [listed |-> 0, at |-> 0, found |-> "none"]]
  /\ rows = [n \in Names |-> [count |-> 0, by |-> "seed"]]
  /\ runs = 0 /\ block = 0
  /\ commits = [b \in DOMAIN Blocks |-> 0]
  /\ complete = FALSE
-----------------------------------------------------------------------------
Run(r, was, is) ==
  /\ runner[r].found = was
  /\ runner' = [runner EXCEPT ![r] = is]
  /\ UNCHANGED <<rows, runs, block, commits, complete>>

\* The files are listed once, at the start.
List(r) ==
  /\ runner[r].at = 0
  /\ Run(r, "none", [listed |-> release, at |-> 1, found |-> "none"])
  /\ UNCHANGED <<release, applied, effects>>

\* The next file has been applied, and is skipped, or has not.
Exists(r) ==
  /\ runner[r].at \in 1..runner[r].listed
  /\ Run(r, "none", IF runner[r].at \in applied THEN [runner[r] EXCEPT !.at = @ + 1]
                    ELSE [runner[r] EXCEPT !.found = "absent"])
  /\ UNCHANGED <<release, applied, effects>>

\* The file is executed and recorded in one transaction: whoever comes second
\* violates the primary key, is rolled back, and exits.
Apply(r) ==
  \/ /\ runner[r].at \notin applied
     /\ Run(r, "absent", [runner[r] EXCEPT !.at = @ + 1, !.found = "none"])
     /\ applied' = applied \cup {runner[r].at}
     /\ effects' = [effects EXCEPT ![runner[r].at] = @ + 1]
     /\ UNCHANGED release
  \/ /\ runner[r].at \in applied
     /\ Run(r, "absent", [listed |-> 0, at |-> 0, found |-> "none"])
     /\ UNCHANGED <<release, applied, effects>>

\* A run ends, or is cut off: what it had not committed is rolled back.
Exit(r) ==
  /\ runner[r].at # 0
  /\ Run(r, runner[r].found, [listed |-> 0, at |-> 0, found |-> "none"])
  /\ UNCHANGED <<release, applied, effects>>

Deploy ==
  /\ release < MaxFiles /\ release' = MaxFiles
  /\ UNCHANGED <<applied, effects, runner, rows, runs, block, commits, complete>>
-----------------------------------------------------------------------------
StartSeed ==
  /\ block = 0 /\ runs < MaxRuns /\ applied = 1..MaxFiles
  /\ block' = 1 /\ runs' = runs + 1
  /\ UNCHANGED <<migrating, rows, commits, complete>>

Inserted(row) == row.way = "add" \/ rows[row.name].count = 0
Written(row) ==
  IF Inserted(row) THEN [count |-> rows[row.name].count + 1, by |-> "seed"]
  ELSE rows[row.name]

\* A row is refused when it refers to one whose key was taken: that one was
\* kept, and has another id.
Refused(row) == Inserted(row) /\ \E n \in row.needs : rows[n].by # "seed"

Write(written) ==
  rows' = [n \in Names |->
    IF n \in {row.name : row \in written}
    THEN Written(CHOOSE row \in written : row.name = n) ELSE rows[n]]

\* Mutant: an error in a block is caught, and what was written stays.
CommitPart ==
  /\ block \in DOMAIN Blocks
  /\ Write({row \in Blocks[block] : ~Refused(row)})
  /\ commits' = [commits EXCEPT ![block] = @ + 1]
  /\ block' = (block + 1) % (Len(Blocks) + 1)
  /\ complete' = (complete \/ block = Len(Blocks))
  /\ UNCHANGED <<migrating, runs>>

\* A block is committed whole; after the last one the run is complete.
Commit ==
  /\ block \in DOMAIN Blocks
  /\ \A row \in Blocks[block] : ~Refused(row)
  /\ Write(Blocks[block])
  /\ commits' = [commits EXCEPT ![block] = @ + 1]
  /\ block' = (block + 1) % (Len(Blocks) + 1)
  /\ complete' = (complete \/ block = Len(Blocks))
  /\ UNCHANGED <<migrating, runs>>

\* Or it is rolled back, and the process exits; or the process is cut off.
Abandon ==
  /\ block # 0 /\ block' = 0
  /\ UNCHANGED <<migrating, rows, runs, commits, complete>>

\* A user of the tenant, once there is one, makes a row with the key of the seed's.
Take(n) ==
  /\ rows["admin"].count = 1 /\ rows[n].count = 0
  /\ \A other \in Taken : rows[other].by = "seed"
  /\ rows' = [rows EXCEPT ![n] = [count |-> 1, by |-> "user"]]
  /\ UNCHANGED <<migrating, runs, block, commits, complete>>

SeedingNext ==
  \/ \E r \in Runners : List(r) \/ Exists(r) \/ Apply(r) \/ Exit(r)
  \/ Deploy \/ StartSeed \/ Commit \/ Abandon
  \/ \E n \in Taken : Take(n)
-----------------------------------------------------------------------------
SeedingTypeOK ==
  /\ release \in 0..MaxFiles /\ applied \subseteq 1..MaxFiles
  /\ effects \in [1..MaxFiles -> 0..2]
  /\ \A r \in Runners : runner[r].at \in 0..(MaxFiles + 1) /\ runner[r].listed \in 0..MaxFiles
  /\ \A n \in Names : rows[n].count \in 0..MaxRuns /\ rows[n].by \in {"seed", "user"}
  /\ runs \in 0..MaxRuns
  /\ block \in 0..Len(Blocks) /\ complete \in BOOLEAN

\* Every migration takes effect once and in the order of its number, whatever
\* runs overlap or are cut off (packages/db migrate.ts:24-45).
MigratedOnce ==
  /\ \A m \in 1..MaxFiles : effects[m] = (IF m \in applied THEN 1 ELSE 0)
  /\ \E k \in 0..MaxFiles : applied = 1..k

\* Of a block all rows are there or none of the seed's, each once however often
\* the seed is run; except the indicator's value and the snapshots, of which
\* every run that comes so far leaves another (seed.ts:465-490).  What a row
\* refers to is the seed's own (seed.ts:186-496).
SeededWhole ==
  \A b \in DOMAIN Blocks : \A row \in Blocks[b] :
    LET r == rows[row.name]
        times == IF row.way = "add" THEN commits[b] ELSE IF commits[b] > 0 THEN 1 ELSE 0
    IN  /\ r.by = "seed" => /\ r.count = times
                            /\ r.count > 0 => \A n \in row.needs : rows[n].by = "seed" /\ rows[n].count > 0
        /\ complete => r.count > 0

Installed == MigratedOnce /\ SeededWhole
=============================================================================
